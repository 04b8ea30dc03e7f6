-------------------------- MODULE MCAccountScreens --------------------------
(***************************************************************************)
(* The account pages of one address, for TLC.                              *)
(***************************************************************************)
EXTENDS AccountScreens

(* One password more than the first. *)
MCPasswords == {"p", "q"}
MCMask == [a |-> "masked"]
MCUsers == DOMAIN MCMask
MCBounds == {[ids |-> 3, outside |-> 1, passwords |-> MCPasswords]}
=============================================================================
