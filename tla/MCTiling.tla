------------------------------ MODULE MCTiling ------------------------------
(***************************************************************************)
(* Small instances of Tiling for TLC.  All keys together reach more states *)
(* than can be visited, so there are three ways to use the compositor: one *)
(* puts views into layouts and takes them out, one orders three views in a *)
(* layout, and one maximizes and resizes views that may be tiled.          *)
(***************************************************************************)
EXTENDS Tiling

ViewSymmetry == Permutations(View)

Tiler ==
    [keys |-> {"layout", "restack", "reset_layout", "cycle", "exchange", "main", "reset",
               "float", "invisible", "pin", "sheet", "hide"},
     hasty |-> {"float", "invisible", "pin", "reset"},
     views |-> 2, splits |-> {1, 2}]

Sorter ==
    [keys |-> {"layout", "restack", "exchange", "main", "raise", "lower", "hide"},
     hasty |-> {}, views |-> 3, splits |-> {3}]

Maximizer ==
    [keys |-> {"layout", "reset_layout", "reset", "float", "show", "resize", "full",
               "vertical", "horizontal"},
     hasty |-> {"reset"}, views |-> 2, splits |-> {2}]

AllUsers == {Tiler, Sorter, Maximizer}
=============================================================================
