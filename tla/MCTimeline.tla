------------------------------ MODULE MCTimeline ------------------------------
(* Instances of Timeline for TLC. *)
EXTENDS Timeline, TLC

CONSTANTS run, free, hard, right, wrong, broken

(* A Speedrun, a challenge anyone may play, and a Hardcore challenge; an   *)
(* order may be right, wrong, or not an order of the items at all.         *)
TheDifficulty == [c \in Challenges |->
  IF c = run THEN "speedrun" ELSE IF c = free THEN "normal" ELSE "hardcore"]
TheSolution == [c \in Challenges |-> right]
ValidOrders == [c \in Challenges |-> {right, wrong}]

Symmetry == Permutations(Players) \cup Permutations(Users)
              \cup Permutations(Requests) \cup Permutations(Calls)
=============================================================================
