---------------------------- MODULE MCClassicGuess ----------------------------
(* Instances of ClassicGuess for TLC. *)
EXTENDS ClassicGuess, TLC

CONSTANTS c1, c2, c3, c4, m1, m2, m3, normal

(* c1, c2 and c3 are one mode on days 1, 2 and 4: the answer of each is    *)
(* the first model.  c4 is a challenge of another game.                    *)
DailyMode == [c \in Challenges |-> IF c = c4 THEN NoMode ELSE normal]
DailyDay == [c \in Challenges |-> IF c = c1 THEN 1 ELSE IF c = c2 THEN 2
                                   ELSE IF c = c3 THEN 4 ELSE 1]
DailyAnswer == [c \in Challenges |-> m1]

WholePool == {Guessable}

(* A seed run may take the answer m1 and another model out of the pool, or *)
(* put them back.                                                          *)
TwoPools == {Guessable, {m2}}

Symmetry == Permutations(Calls) \cup Permutations(Requests) \cup Permutations(Players)
=============================================================================
