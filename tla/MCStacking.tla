------------------------------ MODULE MCStacking ------------------------------
(* Views and groups can be exchanged.  There are as many views on one      *)
(* output as TLC can order, and fewer while there is another output, while *)
(* the list of groups is cut, or while a pinned view waits for its client, *)
(* as at most one does.                                                    *)
EXTENDS Stacking, TLC

CONSTANTS
  Most,    \* views and outputs together
  Stays    \* the outputs of the states with one view more

Symmetry == Permutations(View) \cup Permutations(Group)

Plugged == cut \/ outputs # Stays

Few ==
  /\ Cardinality(stale) <= 1
  /\ Cardinality(Mapped(S)) + Cardinality(stale) + (IF Plugged THEN 2 ELSE 1) <= Most
================================================================================
