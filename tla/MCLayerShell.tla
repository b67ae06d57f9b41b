----------------------------- MODULE MCLayerShell -----------------------------
(* A launcher and a panel, that a client may also turn into each other.     *)
EXTENDS LayerShell

CONSTANTS o1

LayerSymmetry == Permutations(Layer)

MCState == {
  [kind |-> "overlay", interactive |-> TRUE,  exclusive |-> FALSE],
  [kind |-> "bottom",  interactive |-> FALSE, exclusive |-> TRUE]}
================================================================================
