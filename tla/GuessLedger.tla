----------------------------- MODULE GuessLedger -----------------------------
(***************************************************************************)
(* What the Classic game promises of guesses, with no database, no calls   *)
(* and no retries: every player has one board per challenge, an accepted   *)
(* guess appends a new model to it, the answer ends the board, and the     *)
(* challenge's completion count moves exactly then.                        *)
(***************************************************************************)
EXTENDS Integers, Sequences, FiniteSets, Functions

CONSTANTS Players, Models, Challenges, Answer

VARIABLES board, solvers

vars == <<board, solvers>>

Init ==
  /\ board = [b \in Challenges \X Players |-> <<>>]
  /\ solvers = [c \in Challenges |-> 0]

Accept(c, p, m) ==
  /\ m \notin Range(board[<<c, p>>])
  /\ Answer[c] \notin Range(board[<<c, p>>])
  /\ board' = [board EXCEPT ![<<c, p>>] = Append(@, m)]
  /\ solvers' = [solvers EXCEPT ![c] = IF m = Answer[c] THEN @ + 1 ELSE @]

Next == \E c \in Challenges, p \in Players, m \in Models : Accept(c, p, m)

Spec == Init /\ [][Next]_vars
=============================================================================
