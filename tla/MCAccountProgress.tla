--------------------------- MODULE MCAccountProgress ---------------------------
(* Instances of AccountProgress for TLC. *)
EXTENDS AccountProgress, TLC

CONSTANTS c1, c2, m1, m2, normal, focused

(* Two challenges of one mode on consecutive days; the first is a Classic  *)
(* Challenge board of the only focused category.                           *)
TheMode == [c \in Challenges |-> normal]
TheDay == [c \in Challenges |-> IF c = c1 THEN 1 ELSE 2]
TheAnswer == [c \in Challenges |-> m1]
TheCategory == [c \in Challenges |-> IF c = c1 THEN focused ELSE NoCategory]
WholePool == {Guessable}

Symmetry == Permutations(Requests) \cup Permutations(Tasks) \cup Permutations(Players)
              \cup Permutations(Users)
================================================================================
