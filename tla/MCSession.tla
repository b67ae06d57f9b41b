----------------------------- MODULE MCSession ------------------------------
(***************************************************************************)
(* Small instances of Session for TLC.                                     *)
(***************************************************************************)
EXTENDS Session

(* A code point of one byte and one of two; the right password is of one.  *)
MCChar == {<<"a">>, <<"u", "v">>}
MCPassword == <<"a">>
=============================================================================
