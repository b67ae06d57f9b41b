----------------------------- MODULE ScreenLock -----------------------------
(***************************************************************************)
(* What the screen lock promises (share/man/man1/hikari.md, "lock"): the   *)
(* screen is unlocked by an answer to a password, and only if the right    *)
(* one was entered since the screen was locked.  Which password an answer  *)
(* is for is certain while every password is read as a whole; after one    *)
(* that is not, what is left is checked as if it had been entered, and the *)
(* right one was at least a part of a password.  Session implements it.    *)
(***************************************************************************)
VARIABLES
    locked,   \* the lock screen is shown
    asking,   \* a password is being checked
    right,    \* the right password was entered since the screen was locked
    part,     \* one was entered that has the right one in it
    whole     \* every one is read with its end

vars == <<locked, asking, right, part, whole>>

TypeOK ==
    /\ locked \in BOOLEAN /\ asking \in BOOLEAN
    /\ right \in BOOLEAN /\ part \in BOOLEAN /\ whole \in BOOLEAN

Init ==
    /\ locked = FALSE /\ asking = FALSE
    /\ right = FALSE /\ part = FALSE /\ whole = TRUE

Lock ==
    /\ ~locked
    /\ locked' = TRUE
    /\ right' = FALSE /\ part' = FALSE /\ whole' = TRUE
    /\ UNCHANGED asking

(* The right password has itself in it. *)
Enter(is, has, fits) ==
    /\ locked /\ ~asking
    /\ is => has
    /\ asking' = TRUE
    /\ right' = (right \/ is) /\ part' = (part \/ has) /\ whole' = (whole /\ fits)
    /\ UNCHANGED locked

Refuse ==
    /\ asking
    /\ asking' = FALSE
    /\ UNCHANGED <<locked, right, part, whole>>

Unlock ==
    /\ asking /\ part /\ (whole => right)
    /\ asking' = FALSE
    /\ locked' = FALSE
    /\ UNCHANGED <<right, part, whole>>

Next ==
    \/ Lock
    \/ \E is, has, fits \in BOOLEAN : Enter(is, has, fits)
    \/ Refuse
    \/ Unlock

Spec == Init /\ [][Next]_vars
=============================================================================
