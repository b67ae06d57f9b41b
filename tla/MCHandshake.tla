------------------------------ MODULE MCHandshake ------------------------------
(* One view: three sizes, the largest of which is that of the screen.        *)
EXTENDS Handshake

MCSize == 1 .. 3
================================================================================
