----------------------------- MODULE MCDesktop -----------------------------
(***************************************************************************)
(* Small instances of Desktop for TLC: what the configuration says of the  *)
(* clients, and which views may be exchanged for each other.               *)
(***************************************************************************)
EXTENDS Desktop, TLC

CONSTANTS g1, g2, m1

ViewSymmetry == Permutations(View)

Settings(sheet, group, mark, pub, inv) ==
    [sheet |-> sheet, group |-> group, mark |-> mark, public |-> pub, invisible |-> inv]

(* A client without a rule of its own and one that opens on sheet 0, in    *)
(* another group, public.                                                  *)
TwoConfigs == {Settings(NULL, g1, NULL, FALSE, FALSE),
               Settings(0, g2, NULL, TRUE, FALSE)}

(* One rule for all clients: the current sheet, and nothing special.       *)
OneConfig == {Settings(NULL, g1, NULL, FALSE, FALSE)}
=============================================================================
