-------------------------- MODULE ClassicGuessProofs --------------------------
(***************************************************************************)
(* Proofs about ClassicGuess for every number of players, models, calls    *)
(* and tries.                                                              *)
(***************************************************************************)
EXTENDS ClassicGuess, Sequences, FiniteSetTheorems, TLAPS

-----------------------------------------------------------------------------
(* The types of the tables an accepted guess writes. *)

(* The number of models is a number, so Attempts is an interval of them.   *)
LEMMA ModelCount == Cardinality(Models) \in Nat
  BY FS_CardinalityType, TablesAssumption

(* What update_player_stats computes is a row again.                       *)
LEMMA PlayerRowType ==
  ASSUME NEW row \in PlayerStatsRow \cup {NoRow}, NEW i \in Input,
         NEW first \in BOOLEAN, NEW ok \in BOOLEAN
  PROVE  NextPlayerStats(row, i, first, ok) \in PlayerStatsRow
<1> DEFINE old == IF row = NoRow THEN FreshStats ELSE row
<1> DEFINE streak == IF ok THEN UpdateStreak(old, Day[i.ch]) ELSE Streak(old)
<1>1. Day[i.ch] \in Nat
  BY TablesAssumption DEF Input
<1>2. old \in PlayerStatsRow
  BY DEF FreshStats, PlayerStatsRow
<1> HIDE DEF old
<1>3. streak \in [current : Nat, best : Nat, lastSolved : Nat]
  BY <1>1, <1>2 DEF UpdateStreak, Streak, PlayerStatsRow, Larger
<1>4. [n \in Attempts |-> old.dist[n] + Bit(ok /\ n = i.num)] \in [Attempts -> Nat]
  BY <1>2 DEF PlayerStatsRow, Bit
<1>5. /\ GamesPlayed(old, first, ok) \in Nat
      /\ old.won + Bit(ok) \in Nat
      /\ Larger(old.lastPlayed, Day[i.ch]) \in Nat
  BY <1>1, <1>2 DEF GamesPlayed, Bit, Larger, PlayerStatsRow
<1>6. NextPlayerStats(row, i, first, ok) =
        [current |-> streak.current, best |-> streak.best,
         lastSolved |-> streak.lastSolved,
         played |-> GamesPlayed(old, first, ok),
         won |-> old.won + Bit(ok),
         lastPlayed |-> Larger(old.lastPlayed, Day[i.ch]),
         dist |-> [n \in Attempts |-> old.dist[n] + Bit(ok /\ n = i.num)]]
  BY DEF NextPlayerStats, old
<1> HIDE DEF streak
<1> QED BY <1>3, <1>4, <1>5, <1>6 DEF PlayerStatsRow

LEMMA GuessRowType ==
  ASSUME NEW row \in GuessStatsRow \cup {NoRow}, NEW ok \in BOOLEAN
  PROVE  NextGuessStats(row, ok) \in GuessStatsRow
  BY DEF NextGuessStats, GuessStatsRow, Bit

(* The writes of an accepted guess keep the tables well typed.  Verdict    *)
(* has already refused a challenge without a mode.                         *)
LEMMA AcceptGuessType ==
  ASSUME TablesType, NEW i \in Input, Mode[i.ch] # NoMode, AcceptGuess(i), UNCHANGED pool
  PROVE  TablesType'
<1>1. NewEvent(i) \in Event
  BY DEF Input, Event, NewEvent
<1>2. NewEvent(i).ok \in BOOLEAN
  BY DEF NewEvent
<1>3. events' \subseteq Event
  BY <1>1 DEF AcceptGuess, TablesType
<1>4. guessStats' \in [Challenges \X Models -> GuessStatsRow \cup {NoRow}]
  <2>1. guessStats[<<i.ch, i.md>>] \in GuessStatsRow \cup {NoRow}
    BY DEF TablesType, Input
  <2>2. NextGuessStats(guessStats[<<i.ch, i.md>>], NewEvent(i).ok) \in GuessStatsRow
    BY <1>2, <2>1, GuessRowType
  <2> QED BY <2>2 DEF AcceptGuess, TablesType
<1>5. completions' \in [Challenges -> Nat]
  BY <1>2 DEF AcceptGuess, TablesType, Bit, Input
<1>6. playerStats' \in [Players \X Modes -> PlayerStatsRow \cup {NoRow}]
  <2>1. <<i.pl, Mode[i.ch]>> \in Players \X Modes
    BY TablesAssumption DEF Input
  <2>2. playerStats[<<i.pl, Mode[i.ch]>>] \in PlayerStatsRow \cup {NoRow}
    BY <2>1 DEF TablesType
  <2>3. NextPlayerStats(playerStats[<<i.pl, Mode[i.ch]>>], i, EventsOf(i.ch, i.pl) = {},
                        NewEvent(i).ok) \in PlayerStatsRow
    BY <1>2, <2>2, PlayerRowType
  <2> QED BY <2>3 DEF AcceptGuess, TablesType
<1> QED BY <1>3, <1>4, <1>5, <1>6 DEF TablesType

LEMMA TablesInitType == TablesInit => TablesType
  BY DEF TablesInit, TablesType

LEMMA AcceptedVerdict ==
  ASSUME NEW i, Verdict(i) = "ACCEPT"
  PROVE  /\ ~InsertConflicts(i)
         /\ Mode[i.ch] # NoMode
         /\ ~AlreadyCompleted(i)
         /\ i.md \in PoolOf(i.ch)
         /\ ~LimitReached(i)
         /\ i.num = ExpectedAttempt(i)
  BY DEF Verdict, Replay, InsertConflicts

-----------------------------------------------------------------------------
(* The ledger of guesses. *)

(* What an accepted guess relies on, and keeps: the stored events are      *)
(* finitely many, no two for one guess, numbered without gaps, and a solve *)
(* is the last of its game.                                                *)
LedgerInv ==
  /\ IsFiniteSet(events)
  /\ UniqueGuesses
  /\ AttemptsSequential
  /\ SolveEndsGame

(* What one more event does to the events of a game.                       *)
LEMMA AcceptedGame ==
  ASSUME NEW i \in Input, AcceptGuess(i), NEW c, NEW p
  PROVE  EventsOf(c, p)' = IF c = i.ch /\ p = i.pl
                             THEN EventsOf(c, p) \cup {NewEvent(i)} ELSE EventsOf(c, p)
  BY DEF AcceptGuess, EventsOf, NewEvent

LEMMA GameFinite ==
  ASSUME IsFiniteSet(events), NEW c, NEW p
  PROVE  IsFiniteSet(EventsOf(c, p)) /\ Cardinality(EventsOf(c, p)) \in Nat
<1>1. EventsOf(c, p) \subseteq events
  BY DEF EventsOf
<1> QED BY <1>1, FS_Subset, FS_CardinalityType

LEMMA AcceptLedger ==
  ASSUME TablesType, LedgerInv, NEW i \in Input, Verdict(i) = "ACCEPT", AcceptGuess(i)
  PROVE  LedgerInv'
<1> DEFINE game == EventsOf(i.ch, i.pl)
<1> DEFINE n == Cardinality(game)
<1> DEFINE new == NewEvent(i)
<1>1. IsFiniteSet(game) /\ n \in Nat
  BY GameFinite DEF LedgerInv
<1>2. /\ ~InsertConflicts(i)
      /\ ~\E e \in game : e.ok
      /\ i.num = n + 1
  BY AcceptedVerdict DEF AlreadyCompleted, Solved, ExpectedAttempt
<1>3. /\ new.req = i.req /\ new.ch = i.ch /\ new.pl = i.pl /\ new.md = i.md
      /\ new.num = n + 1
  BY <1>2 DEF NewEvent
<1>4. events' = events \cup {new}
  BY DEF AcceptGuess
<1>5. IsFiniteSet(events')
  BY <1>4, FS_AddElement DEF LedgerInv
<1>6. UniqueGuesses'
  <2>1. \A e \in events : ~(e.req = new.req \/ SameGuess(e, new))
    BY <1>2, <1>3 DEF InsertConflicts, SameGuess
  <2>2. \A e \in events : ~(new.req = e.req \/ SameGuess(new, e))
    BY <2>1 DEF SameGuess
  <2> HIDE DEF new
  <2> QED BY <1>4, <2>1, <2>2 DEF LedgerInv, UniqueGuesses, SameGuess
<1>7. AttemptsSequential'
  <2> SUFFICES ASSUME NEW c \in Challenges, NEW p \in Players
               PROVE  {e.num : e \in EventsOf(c, p)'} = 1..Cardinality(EventsOf(c, p)')
    BY DEF AttemptsSequential
  <2>1. {e.num : e \in EventsOf(c, p)} = 1..Cardinality(EventsOf(c, p))
    BY DEF LedgerInv, AttemptsSequential
  <2>2. CASE c = i.ch /\ p = i.pl
    <3>1. EventsOf(c, p)' = game \cup {new}
      BY <2>2, AcceptedGame
    <3>2. new \notin game
      BY <1>2, <1>3 DEF InsertConflicts, EventsOf
    <3>3. Cardinality(EventsOf(c, p)') = n + 1
      BY <1>1, <3>1, <3>2, FS_AddElement
    <3>4. {e.num : e \in EventsOf(c, p)'} = {e.num : e \in game} \cup {n + 1}
      BY <1>3, <3>1
    <3>5. {e.num : e \in game} = 1..n
      BY <2>1, <2>2
    <3> HIDE DEF game, n
    <3> QED BY <1>1, <3>3, <3>4, <3>5
  <2>3. CASE ~(c = i.ch /\ p = i.pl)
    <3>1. EventsOf(c, p)' = EventsOf(c, p)
      BY <2>3, AcceptedGame
    <3> QED BY <2>1, <3>1
  <2> QED BY <2>2, <2>3
<1>8. SolveEndsGame'
  <2> SUFFICES ASSUME NEW e \in events', NEW f \in events',
                      e.ch = f.ch, e.pl = f.pl, e.ok
               PROVE  f.num <= e.num /\ (f.ok => f = e)
    BY DEF SolveEndsGame
  <2>1. CASE e \in events /\ f \in events
    BY <2>1 DEF LedgerInv, SolveEndsGame
  <2>2. CASE f = new /\ e \in events
    BY <1>2, <1>3, <2>2 DEF EventsOf
  <2>3. CASE e = new /\ f \in events
    <3>1. f \in game /\ ~f.ok
      BY <1>2, <1>3, <2>3 DEF EventsOf
    <3>2. f.num \in 1..n
      <4>1. game = EventsOf(i.ch, i.pl) /\ i.ch \in Challenges /\ i.pl \in Players
        BY DEF Input
      <4>2. {x.num : x \in game} = 1..n
        BY <4>1 DEF LedgerInv, AttemptsSequential
      <4> HIDE DEF game, n
      <4> QED BY <3>1, <4>2
    <3> HIDE DEF game, n, new
    <3> QED BY <1>1, <1>3, <2>3, <3>1, <3>2
  <2>4. CASE e = new /\ f = new
    BY <1>1, <1>3, <2>4
  <2> QED BY <1>4, <2>1, <2>2, <2>3, <2>4
<1> QED BY <1>5, <1>6, <1>7, <1>8 DEF LedgerInv


(* The completion count follows the solvers.                               *)
LEMMA AcceptCompletions ==
  ASSUME TablesType, CompletionsExact, NEW i \in Input, Verdict(i) = "ACCEPT", AcceptGuess(i)
  PROVE  CompletionsExact'
<1> SUFFICES ASSUME NEW c \in Challenges
             PROVE  completions'[c] = Cardinality({p \in Players : Solved(c, p)'})
  BY DEF CompletionsExact
<1> DEFINE S == {p \in Players : Solved(c, p)}
<1> DEFINE T == {p \in Players : Solved(c, p)'}
<1>1. completions[c] = Cardinality(S) /\ IsFiniteSet(S) /\ Cardinality(S) \in Nat
  <2>1. IsFiniteSet(S)
    BY FS_Subset, TablesAssumption
  <2> QED BY <2>1, FS_CardinalityType DEF CompletionsExact
<1>2. /\ ~Solved(i.ch, i.pl)
      /\ i.pl \in Players /\ i.ch \in Challenges
      /\ NewEvent(i).ok \in BOOLEAN
      /\ completions \in [Challenges -> Nat]
  BY AcceptedVerdict DEF AlreadyCompleted, Input, NewEvent, TablesType
<1>3. \A p \in Players : Solved(c, p)' <=>
                           Solved(c, p) \/ (c = i.ch /\ p = i.pl /\ NewEvent(i).ok)
  BY AcceptedGame DEF Solved
<1>4. CASE c = i.ch /\ NewEvent(i).ok
  <2>1. T = S \cup {i.pl} /\ i.pl \notin S
    BY <1>2, <1>3, <1>4
  <2>2. completions'[c] = completions[c] + 1
    BY <1>2, <1>4 DEF AcceptGuess, Bit
  <2> HIDE DEF S, T
  <2> QED BY <1>1, <2>1, <2>2, FS_AddElement DEF T
<1>5. CASE ~(c = i.ch /\ NewEvent(i).ok)
  <2>1. T = S
    BY <1>3, <1>5
  <2>2. completions'[c] = completions[c]
    BY <1>2, <1>5 DEF AcceptGuess, Bit
  <2> QED BY <1>1, <2>1, <2>2
<1> QED BY <1>4, <1>5

-----------------------------------------------------------------------------
(* Sets of numbers. *)

(* A set of numbers that is not empty has a least one.                     *)
LEMMA LeastNumber ==
  ASSUME NEW S, S \subseteq Nat, S # {}
  PROVE  \E n \in S : \A m \in S : n <= m
<1> DEFINE R == OpToRel(<, Nat)
<1>1. IsWellFoundedOn(R, Nat)
  BY NatLessThanWellFounded
<1>2. \A m, n \in Nat : m < n => <<m, n>> \in R
  BY DEF OpToRel
<1> HIDE DEF R
<1>3. PICK n \in S : \A m \in S : ~(<<m, n>> \in R)
  BY <1>1, WFMin
<1>4. ASSUME NEW m \in S PROVE n <= m
  <2>1. m \in Nat /\ n \in Nat
    OBVIOUS
  <2>2. ~(m < n)
    BY <1>2, <1>3, <2>1
  <2> QED BY <2>1, <2>2
<1> QED BY <1>4

(* The run of days up to one of them is as long as any interval of days    *)
(* that ends there.                                                        *)
LEMMA RunIsLongest ==
  ASSUME NEW days, days \subseteq Nat \ {0}, NEW last \in days
  PROVE  /\ Run(days, last) \in 1..last
         /\ \A n \in Nat : (last - n + 1)..last \subseteq days => n <= Run(days, last)
<1> DEFINE IsRun(n) == (last - n + 1)..last \subseteq days /\ last - n \notin days
<1>1. last \in Nat /\ last # 0
  OBVIOUS
<1>2. \E n \in 1..last : IsRun(n)
  <2> DEFINE S == {n \in 1..last : last - n \notin days}
  <2>1. last \in S
    BY <1>1
  <2>2. PICK n \in S : \A m \in S : n <= m
    <3>1. S \subseteq Nat
      OBVIOUS
    <3> HIDE DEF S
    <3> QED BY <2>1, <3>1, LeastNumber
  <2>3. ASSUME NEW x \in (last - n + 1)..last PROVE x \in days
    <3>1. last - x \in Nat /\ last - x < n /\ last - (last - x) = x /\ x \in Int
      BY <1>1, <2>2
    <3>2. CASE x = last
      BY <3>2
    <3>3. CASE x # last
      <4>1. last - x \in 1..last
        BY <1>1, <2>2, <3>1, <3>3
      <4>2. last - x \notin S
        BY <2>2, <3>1, <4>1
      <4> QED BY <3>1, <4>1, <4>2
    <3> QED BY <3>2, <3>3
  <2> QED BY <2>2, <2>3
<1>3. Run(days, last) \in 1..last /\ IsRun(Run(days, last))
  BY <1>2 DEF Run
<1>4. ASSUME NEW n \in Nat, (last - n + 1)..last \subseteq days, ~(n <= Run(days, last))
      PROVE  FALSE
  <2>1. last - Run(days, last) \in (last - n + 1)..last
    BY <1>1, <1>3, <1>4
  <2> QED BY <1>3, <1>4, <2>1
<1> QED BY <1>3, <1>4

-----------------------------------------------------------------------------
(* Streaks. *)

(* What update_streak keeps of a row: the current streak is an interval of *)
(* solved days that ends at the last one, the best one is an interval that *)
(* ends somewhere.  A streak may be shorter than the run it is part of.    *)
StreakOf(s, days) ==
  IF days = {}
    THEN s.current = 0 /\ s.best = 0 /\ s.lastSolved = 0
    ELSE /\ s.lastSolved \in days /\ \A d \in days : d <= s.lastSolved
         /\ s.current \in 1..s.best
         /\ (s.lastSolved - s.current + 1)..s.lastSolved \subseteq days
         /\ \E d \in days : (d - s.best + 1)..d \subseteq days

LEMMA StreakExtends ==
  ASSUME NEW days, days \subseteq Nat \ {0}, NEW day \in Nat \ {0},
         NEW s, s.current \in Nat, s.best \in Nat, s.lastSolved \in Nat,
         StreakOf(s, days)
  PROVE  StreakOf(UpdateStreak(s, day), days \cup {day})
<1> DEFINE t == UpdateStreak(s, day)
<1> DEFINE all == days \cup {day}
<1> DEFINE run == IF s.lastSolved # 0 /\ s.lastSolved + 1 = day THEN s.current + 1 ELSE 1
<1>1. CASE s.lastSolved # 0 /\ day <= s.lastSolved
  <2>1. t.current = s.current /\ t.best = s.best /\ t.lastSolved = s.lastSolved
    BY <1>1 DEF UpdateStreak, Streak
  <2>2. days # {}
    BY <1>1 DEF StreakOf
  <2>3. /\ s.lastSolved \in days /\ \A d \in days : d <= s.lastSolved
        /\ s.current \in 1..s.best
        /\ (s.lastSolved - s.current + 1)..s.lastSolved \subseteq days
        /\ \E d \in days : (d - s.best + 1)..d \subseteq days
    BY <2>2 DEF StreakOf
  <2>4. /\ t.lastSolved \in all /\ \A d \in all : d <= t.lastSolved
        /\ t.current \in 1..t.best
        /\ (t.lastSolved - t.current + 1)..t.lastSolved \subseteq all
        /\ \E d \in all : (d - t.best + 1)..d \subseteq all
    <3> HIDE DEF t
    <3> QED BY <1>1, <2>1, <2>3
  <2>5. all # {}
    OBVIOUS
  <2> HIDE DEF t, all
  <2>8. StreakOf(t, all)
    BY <2>4, <2>5 DEF StreakOf
  <2> QED BY <2>8 DEF t, all
<1>2. CASE ~(s.lastSolved # 0 /\ day <= s.lastSolved)
  <2>1. /\ t.current = run /\ t.lastSolved = day
        /\ t.best = IF s.best > run THEN s.best ELSE run
    BY <1>2 DEF UpdateStreak, Larger
  <2>2. \A d \in all : d <= day
    BY <1>2 DEF StreakOf
  <2>3. run \in Nat \ {0} /\ (day - run + 1)..day \subseteq all
    <3>1. CASE s.lastSolved # 0 /\ s.lastSolved + 1 = day
      <4>1. run = s.current + 1 /\ days # {}
        BY <3>1 DEF StreakOf
      <4>2. (s.lastSolved - s.current + 1)..s.lastSolved \subseteq days
        BY <4>1 DEF StreakOf
      <4>3. \A x \in (day - (s.current + 1) + 1)..day :
              x = day \/ x \in (s.lastSolved - s.current + 1)..s.lastSolved
        BY <3>1
      <4> QED BY <4>1, <4>2, <4>3
    <3>2. CASE ~(s.lastSolved # 0 /\ s.lastSolved + 1 = day)
      <4>1. run = 1
        BY <3>2
      <4> QED BY <4>1
    <3> QED BY <3>1, <3>2
  <2>4. t.current \in 1..t.best
    <3> HIDE DEF run, t
    <3> QED BY <2>1, <2>3
  <2>5. \E d \in all : (d - t.best + 1)..d \subseteq all
    <3>1. CASE s.best > run
      <4>1. days # {}
        BY <2>3, <3>1 DEF StreakOf
      <4>2. PICK d \in days : (d - s.best + 1)..d \subseteq days
        BY <4>1 DEF StreakOf
      <4> QED BY <2>1, <3>1, <4>2
    <3>2. CASE ~(s.best > run)
      <4>1. t.best = run
        BY <2>1, <3>2
      <4> HIDE DEF run, t
      <4> QED BY <2>3, <4>1
    <3> QED BY <3>1, <3>2
  <2>6. t.lastSolved \in all /\ (t.lastSolved - t.current + 1)..t.lastSolved \subseteq all
    <3> HIDE DEF t, run
    <3> QED BY <2>1, <2>3
  <2>7. all # {} /\ \A d \in all : d <= t.lastSolved
    <3> HIDE DEF t
    <3> QED BY <2>1, <2>2
  <2> HIDE DEF t, all
  <2>8. StreakOf(t, all)
    BY <2>4, <2>5, <2>6, <2>7 DEF StreakOf
  <2> QED BY <2>8 DEF t, all
<1> QED BY <1>1, <1>2

(* A streak that is an interval of solved days is not overstated.          *)
LEMMA StreakBounded ==
  ASSUME NEW days, days \subseteq Nat \ {0}, days # {},
         NEW s, s.current \in Nat, s.best \in Nat, StreakOf(s, days)
  PROVE  /\ s.lastSolved \in days /\ \A d \in days : d <= s.lastSolved
         /\ s.current \in 1..Run(days, s.lastSolved)
         /\ s.best >= s.current
         /\ \E d \in days : s.best <= Run(days, d)
<1>1. /\ s.lastSolved \in days /\ \A d \in days : d <= s.lastSolved
      /\ s.current \in 1..s.best
      /\ (s.lastSolved - s.current + 1)..s.lastSolved \subseteq days
  BY DEF StreakOf
<1>2. s.current <= Run(days, s.lastSolved) /\ Run(days, s.lastSolved) \in 1..s.lastSolved
  BY <1>1, RunIsLongest
<1>3. PICK d \in days : (d - s.best + 1)..d \subseteq days
  BY DEF StreakOf
<1>4. s.best <= Run(days, d)
  BY <1>3, RunIsLongest
<1> QED BY <1>1, <1>2, <1>3, <1>4

-----------------------------------------------------------------------------
(* What an accepted guess does to the statistics. *)

GuessesOn(c, m) == {e \in events : e.ch = c /\ e.md = m}

RightOn(c, m) == {e \in GuessesOn(c, m) : e.ok}

(* A guess that has been made has a row.                                   *)
GuessRowsStored ==
  \A c \in Challenges, m \in Models :
    GuessesOn(c, m) # {} => guessStats[<<c, m>>] \in GuessStatsRow

(* The aggregate row of a guess counts one more.                           *)
LEMMA AcceptGuessStats ==
  ASSUME TablesType, IsFiniteSet(events), GuessStatsExact, GuessRowsStored,
         NEW i \in Input, Verdict(i) = "ACCEPT", AcceptGuess(i)
  PROVE  GuessStatsExact' /\ GuessRowsStored'
<1> DEFINE new == NewEvent(i)
<1>1. /\ events' = events \cup {new} /\ new \notin events
      /\ new.ch = i.ch /\ new.md = i.md /\ new.ok \in BOOLEAN
  BY AcceptedVerdict DEF AcceptGuess, NewEvent, InsertConflicts
<1>2. /\ guessStats' = [guessStats EXCEPT ![<<i.ch, i.md>>] = NextGuessStats(@, new.ok)]
      /\ DOMAIN guessStats = Challenges \X Models
      /\ \A k \in Challenges \X Models : guessStats[k] \in GuessStatsRow \cup {NoRow}
  BY DEF AcceptGuess, TablesType
<1> HIDE DEF new
<1> SUFFICES ASSUME NEW c \in Challenges, NEW m \in Models
             PROVE  IF GuessesOn(c, m)' = {} THEN guessStats'[<<c, m>>] = NoRow
                    ELSE /\ guessStats'[<<c, m>>].total = Cardinality(GuessesOn(c, m)')
                         /\ guessStats'[<<c, m>>].correct = Cardinality(RightOn(c, m)')
                         /\ guessStats'[<<c, m>>] \in GuessStatsRow
  BY DEF GuessStatsExact, GuessRowsStored, GuessesOn, RightOn
<1> DEFINE row == guessStats[<<c, m>>]
<1>3. IF GuessesOn(c, m) = {} THEN row = NoRow
      ELSE /\ row.total = Cardinality(GuessesOn(c, m))
           /\ row.correct = Cardinality(RightOn(c, m))
           /\ row \in GuessStatsRow
  BY DEF GuessStatsExact, GuessRowsStored, GuessesOn, RightOn
<1>4. /\ IsFiniteSet(GuessesOn(c, m)) /\ IsFiniteSet(RightOn(c, m))
      /\ Cardinality(GuessesOn(c, m)) \in Nat /\ Cardinality(RightOn(c, m)) \in Nat
  <2>1. GuessesOn(c, m) \subseteq events /\ RightOn(c, m) \subseteq events
    BY DEF GuessesOn, RightOn
  <2> QED BY <2>1, FS_Subset, FS_CardinalityType
<1>5. CASE c = i.ch /\ m = i.md
  <2>1. /\ GuessesOn(c, m)' = GuessesOn(c, m) \cup {new}
        /\ RightOn(c, m)' = IF new.ok THEN RightOn(c, m) \cup {new} ELSE RightOn(c, m)
        /\ new \notin GuessesOn(c, m) /\ new \notin RightOn(c, m)
    BY <1>1, <1>5 DEF GuessesOn, RightOn
  <2>2. /\ Cardinality(GuessesOn(c, m)') = Cardinality(GuessesOn(c, m)) + 1
        /\ Cardinality(RightOn(c, m)') = Cardinality(RightOn(c, m)) + Bit(new.ok)
    <3>1. Cardinality(GuessesOn(c, m) \cup {new}) = Cardinality(GuessesOn(c, m)) + 1
      BY <1>4, <2>1, FS_AddElement
    <3>2. Cardinality(RightOn(c, m) \cup {new}) = Cardinality(RightOn(c, m)) + 1
      BY <1>4, <2>1, FS_AddElement
    <3> QED BY <1>1, <1>4, <2>1, <3>1, <3>2 DEF Bit
  <2>3. guessStats'[<<c, m>>] = NextGuessStats(row, new.ok)
    BY <1>2, <1>5
  <2>4. CASE GuessesOn(c, m) = {}
    <3>1. RightOn(c, m) = {} /\ row = NoRow
      BY <1>3, <2>4 DEF RightOn
    <3> QED BY <1>1, <2>1, <2>2, <2>3, <2>4, <3>1, FS_EmptySet
            DEF NextGuessStats, GuessStatsRow, Bit
  <2>5. CASE GuessesOn(c, m) # {}
    <3>1. row \in GuessStatsRow /\ row # NoRow
      BY <1>3, <2>5, TablesAssumption DEF GuessStatsRow
    <3> QED BY <1>1, <1>3, <1>4, <2>1, <2>2, <2>3, <2>5, <3>1 DEF NextGuessStats, GuessStatsRow, Bit
  <2> QED BY <2>4, <2>5
<1>6. CASE ~(c = i.ch /\ m = i.md)
  <2>1. GuessesOn(c, m)' = GuessesOn(c, m) /\ RightOn(c, m)' = RightOn(c, m)
    BY <1>1, <1>6 DEF GuessesOn, RightOn
  <2>2. guessStats'[<<c, m>>] = row
    BY <1>2, <1>6
  <2> QED BY <1>3, <2>1, <2>2
<1> QED BY <1>5, <1>6

-----------------------------------------------------------------------------
(* The statistics row of a player. *)

LastNum(c, p) == CHOOSE n \in Attempts : \E e \in EventsOf(c, p) : e.ok /\ e.num = n

SolvedWith(p, m, n) == {c \in SolvedIn(p, m) : LastNum(c, p) = n}

SolvedDays(p, m) == {Day[c] : c \in SolvedIn(p, m)}

(* What a row counts, the row of a player without games included.          *)
RowCounts(row, p, m) ==
  /\ row \in PlayerStatsRow
  /\ row.played = Cardinality(PlayedIn(p, m))
  /\ row.won = Cardinality(SolvedIn(p, m))
  /\ \A n \in Attempts : row.dist[n] = Cardinality(SolvedWith(p, m, n))
  /\ \A c \in PlayedIn(p, m) : row.lastPlayed >= Day[c]
  /\ StreakOf(row, SolvedDays(p, m))

PlayerInv ==
  \A p \in Players, m \in Modes :
    IF PlayedIn(p, m) = {} THEN playerStats[<<p, m>>] = NoRow
    ELSE /\ RowCounts(playerStats[<<p, m>>], p, m)
         /\ \E c \in PlayedIn(p, m) : playerStats[<<p, m>>].lastPlayed = Day[c]

LEMMA GamesFinite ==
  ASSUME NEW p, NEW m
  PROVE  /\ IsFiniteSet(PlayedIn(p, m)) /\ Cardinality(PlayedIn(p, m)) \in Nat
         /\ IsFiniteSet(SolvedIn(p, m)) /\ Cardinality(SolvedIn(p, m)) \in Nat
         /\ \A n : IsFiniteSet(SolvedWith(p, m, n)) /\ Cardinality(SolvedWith(p, m, n)) \in Nat
         /\ SolvedIn(p, m) \subseteq PlayedIn(p, m)
         /\ PlayedIn(p, m) \subseteq Challenges
         /\ SolvedDays(p, m) \subseteq Nat \ {0}
<1>1. SolvedIn(p, m) \subseteq PlayedIn(p, m) /\ PlayedIn(p, m) \subseteq Challenges
  BY DEF SolvedIn, PlayedIn, Solved
<1>2. \A n : SolvedWith(p, m, n) \subseteq Challenges
  BY <1>1 DEF SolvedWith
<1>3. IsFiniteSet(Challenges)
  BY TablesAssumption
<1>4. \A T : T \subseteq Challenges => IsFiniteSet(T) /\ Cardinality(T) \in Nat
  BY <1>3, FS_Subset, FS_CardinalityType
<1>5. SolvedDays(p, m) \subseteq Nat \ {0}
  BY <1>1, TablesAssumption DEF SolvedDays
<1> QED BY <1>1, <1>2, <1>4, <1>5

(* A game without its events changed is counted as before.                 *)
LEMMA OtherRows ==
  ASSUME NEW p, NEW m,
         \A c \in Challenges : Mode[c] = m => EventsOf(c, p)' = EventsOf(c, p)
  PROVE  /\ PlayedIn(p, m)' = PlayedIn(p, m) /\ SolvedIn(p, m)' = SolvedIn(p, m)
         /\ \A n : SolvedWith(p, m, n)' = SolvedWith(p, m, n)
         /\ SolvedDays(p, m)' = SolvedDays(p, m)
         /\ \A row : RowCounts(row, p, m)' <=> RowCounts(row, p, m)
<1>1. PlayedIn(p, m)' = PlayedIn(p, m) /\ SolvedIn(p, m)' = SolvedIn(p, m)
  BY DEF PlayedIn, SolvedIn, Solved
<1>2. \A c \in SolvedIn(p, m) : LastNum(c, p)' = LastNum(c, p)
  BY DEF LastNum, SolvedIn
<1>3. \A n : SolvedWith(p, m, n)' = SolvedWith(p, m, n)
  BY <1>1, <1>2 DEF SolvedWith
<1>4. SolvedDays(p, m)' = SolvedDays(p, m)
  BY <1>1 DEF SolvedDays
<1>5. \A row : RowCounts(row, p, m)' <=> RowCounts(row, p, m)
  BY <1>1, <1>3, <1>4 DEF RowCounts
<1> QED BY <1>1, <1>3, <1>4, <1>5

(* The game of an accepted guess: played from now on, solved if the guess  *)
(* is the answer, and then with as many guesses as its attempt number.     *)
LEMMA AcceptedGames ==
  ASSUME NEW i \in Input, Verdict(i) = "ACCEPT", AcceptGuess(i)
  PROVE  LET p == i.pl
             m == Mode[i.ch]
             ok == NewEvent(i).ok
         IN  /\ PlayedIn(p, m)' = PlayedIn(p, m) \cup {i.ch}
             /\ i.ch \in PlayedIn(p, m) <=> EventsOf(i.ch, p) # {}
             /\ i.ch \notin SolvedIn(p, m)
             /\ SolvedIn(p, m)' = IF ok THEN SolvedIn(p, m) \cup {i.ch} ELSE SolvedIn(p, m)
             /\ \A n \in Attempts :
                  SolvedWith(p, m, n)' = IF ok /\ n = i.num THEN SolvedWith(p, m, n) \cup {i.ch}
                                         ELSE SolvedWith(p, m, n)
<1> DEFINE p == i.pl
<1> DEFINE m == Mode[i.ch]
<1> DEFINE new == NewEvent(i)
<1>1. /\ i.ch \in Challenges /\ i.num \in Attempts /\ new.ok \in BOOLEAN /\ new.num = i.num
      /\ ~Solved(i.ch, p)
  BY AcceptedVerdict DEF Input, NewEvent, AlreadyCompleted
<1>2. \A c : EventsOf(c, p)' = IF c = i.ch THEN EventsOf(c, p) \cup {new} ELSE EventsOf(c, p)
  BY AcceptedGame
<1> HIDE DEF new
<1>3. PlayedIn(p, m)' = PlayedIn(p, m) \cup {i.ch}
  BY <1>1, <1>2 DEF PlayedIn
<1>4. i.ch \in PlayedIn(p, m) <=> EventsOf(i.ch, p) # {}
  BY <1>1 DEF PlayedIn
<1>5. i.ch \notin SolvedIn(p, m)
  BY <1>1 DEF SolvedIn
<1>6. \A c \in Challenges : Solved(c, p)' <=> Solved(c, p) \/ (c = i.ch /\ new.ok)
  BY <1>2 DEF Solved
<1>7. SolvedIn(p, m)' = IF new.ok THEN SolvedIn(p, m) \cup {i.ch} ELSE SolvedIn(p, m)
  BY <1>1, <1>6 DEF SolvedIn
<1>8. \A c : c # i.ch => LastNum(c, p)' = LastNum(c, p)
  BY <1>2 DEF LastNum
<1>9. new.ok => LastNum(i.ch, p)' = i.num
  <2> SUFFICES ASSUME new.ok PROVE LastNum(i.ch, p)' = i.num
    OBVIOUS
  <2>1. \A n \in Attempts : (\E e \in EventsOf(i.ch, p)' : e.ok /\ e.num = n) <=> n = i.num
    BY <1>1, <1>2 DEF Solved
  <2> QED BY <1>1, <2>1 DEF LastNum
<1>10. \A n \in Attempts :
         SolvedWith(p, m, n)' = IF new.ok /\ n = i.num THEN SolvedWith(p, m, n) \cup {i.ch}
                                ELSE SolvedWith(p, m, n)
  BY <1>5, <1>7, <1>8, <1>9 DEF SolvedWith
<1> QED BY <1>3, <1>4, <1>5, <1>7, <1>10 DEF new

LEMMA FreshRow ==
  ASSUME NEW p, NEW m, PlayedIn(p, m) = {}
  PROVE  RowCounts(FreshStats, p, m)
<1>1. SolvedIn(p, m) = {} /\ \A n : SolvedWith(p, m, n) = {}
  BY GamesFinite DEF SolvedWith
<1>2. SolvedDays(p, m) = {}
  BY <1>1 DEF SolvedDays
<1>3. FreshStats \in PlayerStatsRow
  BY DEF FreshStats, PlayerStatsRow
<1> QED BY <1>1, <1>2, <1>3, FS_EmptySet DEF RowCounts, FreshStats, StreakOf

(* The row an accepted guess leaves behind counts the game it is part of.  *)
LEMMA RowExtends ==
  ASSUME NEW i \in Input, Verdict(i) = "ACCEPT", AcceptGuess(i),
         NEW row \in PlayerStatsRow \cup {NoRow},
         RowCounts(IF row = NoRow THEN FreshStats ELSE row, i.pl, Mode[i.ch]),
         NEW next,
         next = NextPlayerStats(row, i, EventsOf(i.ch, i.pl) = {}, NewEvent(i).ok)
  PROVE  /\ RowCounts(next, i.pl, Mode[i.ch])'
         /\ next.lastPlayed =
              Larger((IF row = NoRow THEN FreshStats ELSE row).lastPlayed, Day[i.ch])
<1> DEFINE p == i.pl
<1> DEFINE m == Mode[i.ch]
<1> DEFINE ok == NewEvent(i).ok
<1> DEFINE first == EventsOf(i.ch, i.pl) = {}
<1> DEFINE old == IF row = NoRow THEN FreshStats ELSE row
<1>1. ok \in BOOLEAN /\ first \in BOOLEAN /\ i.ch \in Challenges /\ Day[i.ch] \in Nat \ {0}
      /\ i.num \in Attempts
  BY TablesAssumption DEF NewEvent, Input
<1>2. old \in PlayerStatsRow /\ RowCounts(old, p, m)
  BY DEF RowCounts
<1>3. next \in PlayerStatsRow
  BY <1>1, PlayerRowType
<1>4. /\ next.played = old.played + Bit(first)
      /\ next.won = old.won + Bit(ok)
      /\ next.lastPlayed = Larger(old.lastPlayed, Day[i.ch])
      /\ \A n \in Attempts : next.dist[n] = old.dist[n] + Bit(ok /\ n = i.num)
      /\ LET s == IF ok THEN UpdateStreak(old, Day[i.ch]) ELSE Streak(old)
         IN  next.current = s.current /\ next.best = s.best /\ next.lastSolved = s.lastSolved
  BY DEF NextPlayerStats, GamesPlayed
<1> HIDE DEF old, first, ok
<1>5. /\ PlayedIn(p, m)' = PlayedIn(p, m) \cup {i.ch}
      /\ i.ch \in PlayedIn(p, m) <=> ~first
      /\ i.ch \notin SolvedIn(p, m)
      /\ SolvedIn(p, m)' = IF ok THEN SolvedIn(p, m) \cup {i.ch} ELSE SolvedIn(p, m)
      /\ \A n \in Attempts :
           SolvedWith(p, m, n)' = IF ok /\ n = i.num THEN SolvedWith(p, m, n) \cup {i.ch}
                                  ELSE SolvedWith(p, m, n)
  BY AcceptedGames DEF ok, first
<1>6. next.played = Cardinality(PlayedIn(p, m)')
  <2>1. old.played = Cardinality(PlayedIn(p, m)) /\ old.played \in Nat
    BY <1>2 DEF RowCounts, PlayerStatsRow
  <2>2. Cardinality(PlayedIn(p, m) \cup {i.ch})
          = IF first THEN Cardinality(PlayedIn(p, m)) + 1 ELSE Cardinality(PlayedIn(p, m))
    BY <1>5, GamesFinite, FS_AddElement
  <2> QED BY <1>1, <1>4, <1>5, <2>1, <2>2 DEF Bit
<1>7. next.won = Cardinality(SolvedIn(p, m)')
  <2>1. old.won = Cardinality(SolvedIn(p, m)) /\ old.won \in Nat
    BY <1>2 DEF RowCounts, PlayerStatsRow
  <2>2. Cardinality(SolvedIn(p, m) \cup {i.ch}) = Cardinality(SolvedIn(p, m)) + 1
    BY <1>5, GamesFinite, FS_AddElement
  <2> QED BY <1>1, <1>4, <1>5, <2>1, <2>2 DEF Bit
<1>8. ASSUME NEW n \in Attempts PROVE next.dist[n] = Cardinality(SolvedWith(p, m, n)')
  <2>1. old.dist[n] = Cardinality(SolvedWith(p, m, n)) /\ old.dist[n] \in Nat
    BY <1>2 DEF RowCounts, PlayerStatsRow
  <2>2. i.ch \notin SolvedWith(p, m, n)
    BY <1>5 DEF SolvedWith
  <2>3. Cardinality(SolvedWith(p, m, n) \cup {i.ch}) = Cardinality(SolvedWith(p, m, n)) + 1
    BY <2>2, GamesFinite, FS_AddElement
  <2>4. next.dist[n] = old.dist[n] + Bit(ok /\ n = i.num)
    BY <1>4
  <2>5. CASE ok /\ n = i.num
    BY <1>5, <2>1, <2>3, <2>4, <2>5 DEF Bit
  <2>6. CASE ~(ok /\ n = i.num)
    <3>1. Bit(ok /\ n = i.num) = 0 /\ SolvedWith(p, m, n)' = SolvedWith(p, m, n)
      BY <1>5, <2>6 DEF Bit
    <3> QED BY <2>1, <2>4, <3>1
  <2> QED BY <2>5, <2>6
<1>9. \A c \in PlayedIn(p, m)' : next.lastPlayed >= Day[c]
  <2>1. old.lastPlayed \in Nat /\ \A c \in PlayedIn(p, m) : old.lastPlayed >= Day[c] /\ Day[c] \in Nat
    BY <1>2, GamesFinite, TablesAssumption DEF RowCounts, PlayerStatsRow
  <2>2. next.lastPlayed \in Nat /\ next.lastPlayed >= old.lastPlayed /\ next.lastPlayed >= Day[i.ch]
    BY <1>1, <1>4, <2>1 DEF Larger
  <2> QED BY <1>5, <2>1, <2>2
<1>10. StreakOf(next, SolvedDays(p, m)')
  <2>1. old.current \in Nat /\ old.best \in Nat /\ old.lastSolved \in Nat
        /\ StreakOf(old, SolvedDays(p, m))
    BY <1>2 DEF RowCounts, PlayerStatsRow
  <2>2. CASE ok
    <3>1. SolvedDays(p, m)' = SolvedDays(p, m) \cup {Day[i.ch]}
      BY <1>5, <2>2 DEF SolvedDays
    <3>2. StreakOf(UpdateStreak(old, Day[i.ch]), SolvedDays(p, m) \cup {Day[i.ch]})
      BY <1>1, <2>1, GamesFinite, StreakExtends
    <3>3. /\ next.current = UpdateStreak(old, Day[i.ch]).current
          /\ next.best = UpdateStreak(old, Day[i.ch]).best
          /\ next.lastSolved = UpdateStreak(old, Day[i.ch]).lastSolved
      BY <1>4, <2>2
    <3> QED BY <3>1, <3>2, <3>3 DEF StreakOf
  <2>3. CASE ~ok
    <3>1. SolvedDays(p, m)' = SolvedDays(p, m)
      BY <1>5, <2>3 DEF SolvedDays
    <3>2. next.current = old.current /\ next.best = old.best /\ next.lastSolved = old.lastSolved
      BY <1>4, <2>3 DEF Streak
    <3> QED BY <2>1, <3>1, <3>2 DEF StreakOf
  <2> QED BY <2>2, <2>3
<1>11. RowCounts(next, p, m)'
  BY <1>3, <1>6, <1>7, <1>8, <1>9, <1>10 DEF RowCounts
<1> QED BY <1>4, <1>11 DEF old

LEMMA AcceptPlayerStats ==
  ASSUME TablesType, PlayerInv, NEW i \in Input, Verdict(i) = "ACCEPT", AcceptGuess(i)
  PROVE  PlayerInv'
<1> SUFFICES ASSUME NEW p \in Players, NEW m \in Modes
             PROVE  IF PlayedIn(p, m)' = {} THEN playerStats'[<<p, m>>] = NoRow
                    ELSE /\ RowCounts(playerStats[<<p, m>>], p, m)'
                         /\ \E c \in PlayedIn(p, m)' : playerStats'[<<p, m>>].lastPlayed = Day[c]
  BY DEF PlayerInv
<1> DEFINE row == playerStats[<<p, m>>]
<1>1. IF PlayedIn(p, m) = {} THEN row = NoRow
      ELSE RowCounts(row, p, m) /\ \E c \in PlayedIn(p, m) : row.lastPlayed = Day[c]
  BY DEF PlayerInv
<1>2. /\ i.pl \in Players /\ i.ch \in Challenges /\ Mode[i.ch] \in Modes
      /\ playerStats \in [Players \X Modes -> PlayerStatsRow \cup {NoRow}]
      /\ playerStats' = [playerStats EXCEPT ![<<i.pl, Mode[i.ch]>>] =
                           NextPlayerStats(playerStats[<<i.pl, Mode[i.ch]>>], i,
                                           EventsOf(i.ch, i.pl) = {}, NewEvent(i).ok)]
  <2>1. Mode[i.ch] # NoMode
    BY AcceptedVerdict
  <2>2. i.pl \in Players /\ i.ch \in Challenges /\ Mode[i.ch] \in Modes
    BY <2>1, TablesAssumption DEF Input
  <2> QED BY <2>2 DEF TablesType, AcceptGuess
<1>3. CASE p = i.pl /\ m = Mode[i.ch]
  <2> DEFINE old == IF row = NoRow THEN FreshStats ELSE row
  <2>1. RowCounts(old, p, m) /\ (PlayedIn(p, m) # {} => row # NoRow)
    <3>1. CASE PlayedIn(p, m) = {}
      BY <1>1, <3>1, FreshRow
    <3>2. CASE PlayedIn(p, m) # {}
      <4>1. RowCounts(row, p, m)
        BY <1>1, <3>2
      <4>2. row # NoRow
        BY <4>1, TablesAssumption DEF RowCounts, PlayerStatsRow, Attempts
      <4> QED BY <4>1, <4>2
    <3> QED BY <3>1, <3>2
  <2>2. row \in PlayerStatsRow \cup {NoRow}
    BY <1>2
  <2>3. PICK next : next = NextPlayerStats(row, i, EventsOf(i.ch, i.pl) = {}, NewEvent(i).ok)
    OBVIOUS
  <2>4. playerStats'[<<p, m>>] = next
    BY <1>2, <1>3, <2>3
  <2>5. RowCounts(next, p, m)' /\ next.lastPlayed = Larger(old.lastPlayed, Day[i.ch])
    BY <1>3, <2>1, <2>2, <2>3, RowExtends
  <2>6. PlayedIn(p, m)' = PlayedIn(p, m) \cup {i.ch}
    BY <1>3, AcceptedGames
  <2>7. \E c \in PlayedIn(p, m)' : next.lastPlayed = Day[c]
    <3>1. CASE old.lastPlayed > Day[i.ch]
      <4>1. PlayedIn(p, m) # {}
        <5>1. SUFFICES ASSUME PlayedIn(p, m) = {} PROVE FALSE
          OBVIOUS
        <5>2. old.lastPlayed = 0
          BY <1>1, <5>1 DEF FreshStats
        <5> QED BY <1>2, <3>1, <5>2, TablesAssumption
      <4>2. PICK c \in PlayedIn(p, m) : row.lastPlayed = Day[c]
        BY <1>1, <4>1
      <4>3. next.lastPlayed = row.lastPlayed
        BY <2>1, <2>5, <3>1, <4>1 DEF Larger
      <4> QED BY <2>6, <4>2, <4>3
    <3>2. CASE ~(old.lastPlayed > Day[i.ch])
      BY <2>5, <2>6, <3>2 DEF Larger
    <3> QED BY <3>1, <3>2
  <2>8. RowCounts(playerStats[<<p, m>>], p, m)'
    BY <2>4, <2>5 DEF RowCounts
  <2> QED BY <2>4, <2>6, <2>7, <2>8
<1>4. CASE ~(p = i.pl /\ m = Mode[i.ch])
  <2>1. \A c \in Challenges : Mode[c] = m => EventsOf(c, p)' = EventsOf(c, p)
    BY <1>4, AcceptedGame
  <2>2. playerStats'[<<p, m>>] = row
    BY <1>2, <1>4
  <2>3. PlayedIn(p, m)' = PlayedIn(p, m) /\ \A r : RowCounts(r, p, m)' <=> RowCounts(r, p, m)
    BY <2>1, OtherRows
  <2>4. PlayedIn(p, m) # {} => RowCounts(playerStats[<<p, m>>], p, m)'
    <3>1. PlayedIn(p, m) # {} => RowCounts(row, p, m) /\ playerStats'[<<p, m>>] = row
      BY <1>1, <2>2
    <3> QED BY <2>1, <3>1, OtherRows DEF RowCounts
  <2> QED BY <1>1, <2>2, <2>3, <2>4
<1> QED BY <1>3, <1>4

-----------------------------------------------------------------------------
(* Types. *)

(* Every early return is a status; a replay has a row to answer from.      *)
LEMMA VerdictStatus ==
  ASSUME NEW i
  PROVE  Verdict(i) \in Statuses \cup {"ACCEPT", "REPLAY"}
  BY DEF Verdict, Replay, Statuses

LEMMA ReplayHasRow ==
  ASSUME NEW i, Verdict(i) = "REPLAY"
  PROVE  Stored(i) \in events
<1>1. \E e \in events : e.req = i.req \/ ((~\E f \in events : f.req = i.req) /\ SameGuess(e, i))
  BY DEF Verdict, SameRequest
<1> QED BY <1>1 DEF Stored

LEMMA ResultTypes ==
  ASSUME TypeOK
  PROVE  /\ \A s \in Statuses : Failed(s) \in Result
         /\ \A e \in events : Accepted(e) \in Result
         /\ \A i \in Input : Accepted(NewEvent(i)) \in Result
         /\ NoCall \in CallType
<1>1. \A s \in Statuses : Failed(s) \in Result
  BY DEF Failed, Result
<1>2. \A e \in events : Accepted(e) \in Result
  BY DEF TypeOK, TablesType, Event, Accepted, Result, Statuses
<1>3. \A i \in Input : Accepted(NewEvent(i)) \in Result
  BY DEF Input, NewEvent, Accepted, Result, Statuses
<1>4. NoCall \in CallType
  <2>1. Failed("BUSY") \in Result
    BY <1>1 DEF Statuses
  <2>2. 0 \in 0..MaxTries
    BY CallsAssumption
  <2> QED BY <2>1, <2>2 DEF NoCall, CallType, Phases
<1> QED BY <1>1, <1>2, <1>3, <1>4


-----------------------------------------------------------------------------
(* One lemma per kind of step. *)

LEMMA AnsweredType ==
  ASSUME TypeOK, NEW k \in Calls, call[k].phase # "idle", NEW result \in Result
  PROVE  Answered(k, result) \in CallType /\ CallOK(Answered(k, result))
<1>1. call[k] \in CallType /\ call[k].in \in Input
  BY DEF TypeOK, CallOK
<1> QED BY <1>1 DEF Answered, CallType, CallOK, Phases

LEMMA OvertakenType ==
  ASSUME TypeOK, NEW j \in Calls
  PROVE  Overtaken(j) \in CallType /\ CallOK(Overtaken(j))
<1>1. call[j] \in CallType /\ CallOK(call[j])
  BY DEF TypeOK
<1> QED BY <1>1 DEF Overtaken, CallType, CallOK, Phases

(* A step that replaces one call by a well-typed one keeps them all so.    *)
LEMMA OneCallType ==
  ASSUME TypeOK, NEW k \in Calls, NEW r \in CallType, CallOK(r),
         call' = [call EXCEPT ![k] = r], UNCHANGED <<tables, pool>>
  PROVE  TypeOK'
<1>1. TablesType'
  BY DEF TypeOK, TablesType, tables
<1>2. call' \in [Calls -> CallType]
  BY DEF TypeOK
<1>3. \A j \in Calls : CallOK(call[j])'
  BY DEF TypeOK, CallOK
<1> QED BY <1>1, <1>2, <1>3 DEF TypeOK

LEMMA ReceiveType ==
  ASSUME TypeOK, NEW k \in Calls, NEW i \in Input, Receive(k, i)
  PROVE  TypeOK'
<1> DEFINE r == [NoCall EXCEPT !.phase = "begin", !.in = i]
<1>1. NoCall \in CallType
  BY ResultTypes
<1>2. r \in CallType /\ CallOK(r)
  <2>1. NoCall.tries < MaxTries
    BY CallsAssumption DEF NoCall
  <2> QED BY <1>1, <2>1 DEF CallType, CallOK, Phases
<1>3. call' = [call EXCEPT ![k] = r] /\ UNCHANGED <<tables, pool>>
  BY DEF Receive
<1> HIDE DEF r
<1> QED BY <1>2, <1>3, OneCallType

LEMMA SnapshotType ==
  ASSUME TypeOK, NEW k \in Calls, Snapshot(k)
  PROVE  TypeOK'
<1> DEFINE v == Verdict(call[k].in)
<1> DEFINE r == CASE v = "ACCEPT" -> [call[k] EXCEPT !.phase = "write", !.stale = FALSE]
                  [] v = "REPLAY" -> Answered(k, Accepted(Stored(call[k].in)))
                  [] OTHER        -> Answered(k, Failed(v))
<1>1. call[k] \in CallType /\ CallOK(call[k]) /\ call[k].phase = "begin"
  BY DEF TypeOK, Snapshot
<1>2. r \in CallType /\ CallOK(r)
  <2>1. CASE v = "ACCEPT"
    <3> DEFINE w == [call[k] EXCEPT !.phase = "write", !.stale = FALSE]
    <3>1. w \in CallType /\ CallOK(w)
      BY <1>1 DEF CallType, CallOK, Phases
    <3> QED BY <2>1, <3>1
  <2>2. CASE v = "REPLAY"
    <3>1. Accepted(Stored(call[k].in)) \in Result
      BY <2>2, ReplayHasRow, ResultTypes
    <3>2. r = Answered(k, Accepted(Stored(call[k].in)))
      BY <2>2
    <3> QED BY <1>1, <3>1, <3>2, AnsweredType
  <2>3. CASE v \notin {"ACCEPT", "REPLAY"}
    <3>1. Failed(v) \in Result
      BY <2>3, VerdictStatus, ResultTypes
    <3>2. r = Answered(k, Failed(v))
      BY <2>3
    <3> QED BY <1>1, <3>1, <3>2, AnsweredType
  <2> QED BY <2>1, <2>2, <2>3
<1>3. call' = [call EXCEPT ![k] = r] /\ UNCHANGED <<tables, pool>>
  BY DEF Snapshot
<1> HIDE DEF r
<1> QED BY <1>2, <1>3, OneCallType

LEMMA BusyType ==
  ASSUME TypeOK, NEW k \in Calls, Busy(k)
  PROVE  TypeOK'
<1>1. call[k] \in CallType /\ CallOK(call[k]) /\ call[k].phase = "write"
  BY DEF TypeOK, Busy
<1>2. Retried(k) \in CallType /\ CallOK(Retried(k))
  <2>1. CASE call[k].tries + 1 < MaxTries
    <3> DEFINE r == [call[k] EXCEPT !.phase = "begin", !.stale = FALSE,
                                    !.tries = call[k].tries + 1]
    <3>1. call[k].tries + 1 \in 0..MaxTries
      BY <1>1, <2>1, CallsAssumption DEF CallType
    <3>2. r \in CallType /\ CallOK(r)
      BY <1>1, <2>1, <3>1 DEF CallType, CallOK, Phases
    <3> QED BY <2>1, <3>2 DEF Retried
  <2>2. CASE ~(call[k].tries + 1 < MaxTries)
    <3>1. Failed("BUSY") \in Result
      BY ResultTypes DEF Statuses
    <3> QED BY <1>1, <2>2, <3>1, AnsweredType DEF Retried
  <2> QED BY <2>1, <2>2
<1> QED BY <1>2, OneCallType DEF Busy

LEMMA IdleType ==
  ASSUME TypeOK, NEW k \in Calls, Deliver(k) \/ Drop(k)
  PROVE  TypeOK'
<1>1. NoCall \in CallType /\ CallOK(NoCall)
  BY ResultTypes DEF NoCall, CallOK
<1> QED BY <1>1, OneCallType DEF Deliver, Drop


LEMMA CommitByType ==
  ASSUME TypeOK, NEW k \in Calls, call[k].phase # "idle", NEW result \in Result,
         CommitBy(k, result)
  PROVE  call' \in [Calls -> CallType] /\ \A j \in Calls : CallOK(call'[j])
<1>1. Answered(k, result) \in CallType /\ CallOK(Answered(k, result))
  BY AnsweredType
<1>2. \A j \in Calls : Overtaken(j) \in CallType /\ CallOK(Overtaken(j))
  BY OvertakenType
<1> QED BY <1>1, <1>2 DEF CommitBy

LEMMA WriteType ==
  ASSUME TypeOK, NEW k \in Calls, Write(k), SnapshotCurrent
  PROVE  TypeOK'
<1> DEFINE i == call[k].in
<1>1. i \in Input /\ call[k].phase = "write"
  BY DEF TypeOK, CallOK, Write, MayUpgrade
<1>2. CASE InsertConflicts(i)
  <2>1. RefusedInsert(i) \in Result
    <3>1. CASE (\E e \in events : e.req = i.req) /\ Verdict(i) = "REPLAY"
      BY <3>1, ReplayHasRow, ResultTypes DEF RefusedInsert
    <3>2. CASE (\E e \in events : e.req = i.req) /\ Verdict(i) # "REPLAY"
      <4>1. Verdict(i) \in Statuses
        BY <3>2 DEF Verdict, Replay, Statuses
      <4> QED BY <3>2, <4>1, ResultTypes DEF RefusedInsert
    <3>3. CASE ~\E e \in events : e.req = i.req
      BY <3>3, ResultTypes DEF RefusedInsert, Statuses
    <3> QED BY <3>1, <3>2, <3>3
  <2>2. Answered(k, RefusedInsert(i)) \in CallType /\ CallOK(Answered(k, RefusedInsert(i)))
    BY <1>1, <2>1, AnsweredType
  <2> QED BY <1>2, <2>2, OneCallType DEF Write
<1>3. CASE ~InsertConflicts(i)
  <2>1. AcceptGuess(i) /\ CommitBy(k, Accepted(NewEvent(i))) /\ UNCHANGED pool
    BY <1>3 DEF Write
  <2>2. Accepted(NewEvent(i)) \in Result
    BY <1>1, ResultTypes
  <2>3. call' \in [Calls -> CallType] /\ \A j \in Calls : CallOK(call'[j])
    BY <1>1, <2>1, <2>2, CommitByType
  <2>4. Mode[i.ch] # NoMode
    <3>1. Verdict(i) = "ACCEPT"
      BY DEF Write, MayUpgrade, SnapshotCurrent
    <3> QED BY <3>1, AcceptedVerdict
  <2>5. TablesType'
    BY <1>1, <2>1, <2>4, AcceptGuessType DEF TypeOK
  <2> QED BY <2>3, <2>5 DEF TypeOK, CallOK
<1> QED BY <1>2, <1>3


-----------------------------------------------------------------------------
(* A snapshot that may still upgrade is current. *)

(* A step of one call that leaves the tables alone keeps every other       *)
(* call's snapshot current.                                                *)
LEMMA OneCallSnapshot ==
  ASSUME TypeOK, SnapshotCurrent, NEW k \in Calls, NEW r,
         call' = [call EXCEPT ![k] = r], UNCHANGED <<tables, pool>>,
         r.phase = "write" /\ ~r.stale => Verdict(r.in) = "ACCEPT" /\ ~InsertConflicts(r.in)
  PROVE  SnapshotCurrent'
<1> SUFFICES ASSUME NEW j \in Calls, call'[j].phase = "write", ~call'[j].stale
             PROVE  (Verdict(call[j].in) = "ACCEPT" /\ ~InsertConflicts(call[j].in))'
  BY DEF SnapshotCurrent
<1>1. Verdict(call'[j].in) = "ACCEPT" /\ ~InsertConflicts(call'[j].in)
  BY DEF TypeOK, SnapshotCurrent
<1>2. UNCHANGED <<events, playerStats, pool>>
  BY DEF tables
<1> QED BY <1>1, <1>2 DEF Verdict, Replay, SameRequest, SameGuess, AlreadyCompleted,
              Solved, EventsOf, PoolOf, LimitReached, ExpectedAttempt, InsertConflicts

(* A commit leaves no other snapshot that may upgrade.                     *)
LEMMA CommitSnapshot ==
  ASSUME TypeOK, NEW k \in Calls, NEW result, CommitBy(k, result)
  PROVE  SnapshotCurrent'
<1> SUFFICES ASSUME NEW j \in Calls, call'[j].phase = "write", ~call'[j].stale
             PROVE  FALSE
  BY DEF SnapshotCurrent
<1>1. j # k
  BY DEF CommitBy, Answered, TypeOK, CallType
<1> QED BY <1>1 DEF CommitBy, Overtaken, TypeOK, CallType

LEMMA SeedSnapshot ==
  ASSUME TypeOK, NEW m \in Modes, NEW models \in Pools, Seed(m, models)
  PROVE  SnapshotCurrent'
  BY DEF Seed, Overtaken, TypeOK, CallType, SnapshotCurrent


(* A replay answers with the event stored for that very guess.             *)
LEMMA StoredIsSameGuess ==
  ASSUME UniqueGuesses, NEW i, Verdict(i) = "REPLAY"
  PROVE  Stored(i) \in events /\ SameGuess(Stored(i), i)
<1>1. Stored(i) \in events /\ (Stored(i).req = i.req
                               \/ ((~\E f \in events : f.req = i.req) /\ SameGuess(Stored(i), i)))
  <2>1. \E e \in events : e.req = i.req \/ ((~\E f \in events : f.req = i.req) /\ SameGuess(e, i))
    BY DEF Verdict, SameRequest
  <2> QED BY <2>1 DEF Stored
<1>2. CASE \E e \in events : e.req = i.req
  <2>1. PICK e \in events : SameRequest(e, i)
    BY <1>2 DEF Verdict
  <2>2. Stored(i).req = e.req
    BY <1>1, <1>2, <2>1 DEF SameRequest
  <2>3. Stored(i) = e
    BY <1>1, <2>1, <2>2 DEF UniqueGuesses
  <2> QED BY <2>1, <2>3 DEF SameRequest
<1>3. CASE ~\E e \in events : e.req = i.req
  BY <1>1, <1>3
<1> QED BY <1>2, <1>3

LEMMA AnswersStayBacked ==
  ASSUME TypeOK, AnswersBacked, events \subseteq events',
         \A k \in Calls :
           call'[k].phase = "answered" /\ call'[k].out.status = "OK" =>
             \/ call'[k] = call[k]
             \/ \E e \in events' : /\ SameGuess(e, call'[k].in)
                                   /\ e.num = call'[k].out.num
                                   /\ e.ok = call'[k].out.ok
  PROVE  AnswersBacked'
  BY DEF AnswersBacked, SameGuess


-----------------------------------------------------------------------------
(* The inductive invariant.  SnapshotCurrent is what carries the verdict,  *)
(* reached on a snapshot, over to the step that writes; the ledger needs   *)
(* it, and TypeOK too (a challenge without a mode has no statistics row).  *)
IInv ==
  /\ TypeOK
  /\ SnapshotCurrent
  /\ LedgerInv
  /\ CompletionsExact
  /\ AnswersBacked

LEMMA InitInv == Init => IInv
<1> SUFFICES ASSUME Init PROVE IInv
  OBVIOUS
<1>1. TypeOK
  <2>1. NoCall \in CallType /\ CallOK(NoCall)
    <3>1. Failed("BUSY") \in Result /\ 0 \in 0..MaxTries
      BY CallsAssumption DEF Failed, Result, Statuses
    <3> QED BY <3>1 DEF NoCall, CallType, CallOK, Phases
  <2> QED BY <2>1, TablesInitType DEF Init, TypeOK
<1>2. events = {} /\ \A c \in Challenges, p \in Players : EventsOf(c, p) = {}
  BY DEF Init, TablesInit, EventsOf
<1>3. SnapshotCurrent /\ AnswersBacked
  BY DEF Init, NoCall, SnapshotCurrent, AnswersBacked
<1>4. LedgerInv
  <2>1. AttemptsSequential
    BY <1>2, FS_EmptySet DEF AttemptsSequential
  <2> QED BY <1>2, <2>1, FS_EmptySet DEF LedgerInv, UniqueGuesses, SolveEndsGame
<1>5. CompletionsExact
  <2>1. \A c \in Challenges : {p \in Players : Solved(c, p)} = {}
    BY <1>2 DEF Solved
  <2> QED BY <2>1, FS_EmptySet DEF CompletionsExact, Init, TablesInit
<1> QED BY <1>1, <1>3, <1>4, <1>5 DEF IInv

(* What a step that leaves the tables alone keeps of the ledger.           *)
LEMMA LedgerKept ==
  ASSUME LedgerInv, CompletionsExact, UNCHANGED tables
  PROVE  LedgerInv' /\ CompletionsExact'
<1>1. UNCHANGED <<events, completions>>
  BY DEF tables
<1> QED BY <1>1 DEF LedgerInv, UniqueGuesses, AttemptsSequential, SolveEndsGame,
                     CompletionsExact, EventsOf, Solved, SameGuess

LEMMA SnapshotInv ==
  ASSUME IInv, NEW k \in Calls, Snapshot(k)
  PROVE  IInv'
<1> DEFINE i == call[k].in
<1> DEFINE v == Verdict(i)
<1> DEFINE r == CASE v = "ACCEPT" -> [call[k] EXCEPT !.phase = "write", !.stale = FALSE]
                  [] v = "REPLAY" -> Answered(k, Accepted(Stored(i)))
                  [] OTHER        -> Answered(k, Failed(v))
<1>1. call' = [call EXCEPT ![k] = r] /\ UNCHANGED <<tables, pool>>
  BY DEF Snapshot
<1>2. call[k] \in CallType /\ call \in [Calls -> CallType]
  BY DEF IInv, TypeOK
<1>3. TypeOK'
  BY SnapshotType DEF IInv
<1>4. LedgerInv' /\ CompletionsExact'
  BY <1>1, LedgerKept DEF IInv
<1>5. r.phase = "write" => v = "ACCEPT" /\ r.in = i
  BY <1>2 DEF Answered, CallType
<1>6. SnapshotCurrent'
  <2>1. r.phase = "write" /\ ~r.stale => Verdict(r.in) = "ACCEPT" /\ ~InsertConflicts(r.in)
    BY <1>5, AcceptedVerdict
  <2> HIDE DEF r
  <2> QED BY <1>1, <2>1, OneCallSnapshot DEF IInv
<1>7. AnswersBacked'
  <2>1. r.phase = "answered" /\ r.out.status = "OK" =>
          \E e \in events : SameGuess(e, r.in) /\ e.num = r.out.num /\ e.ok = r.out.ok
    <3>1. CASE v = "ACCEPT"
      BY <1>2, <3>1 DEF CallType
    <3>2. CASE v = "REPLAY"
      <4>1. Stored(i) \in events /\ SameGuess(Stored(i), i)
        BY <3>2, StoredIsSameGuess DEF IInv, LedgerInv
      <4>2. r.in = i /\ r.out = Accepted(Stored(i))
        BY <1>2, <3>2 DEF Answered, CallType
      <4> QED BY <4>1, <4>2, SMTT(30) DEF Accepted
    <3>3. CASE v \notin {"ACCEPT", "REPLAY"}
      <4>1. r.out = Failed(v)
        BY <1>2, <3>3 DEF Answered, CallType
      <4>2. v # "OK"
        BY DEF Verdict, Replay
      <4> QED BY <4>1, <4>2 DEF Failed
    <3> QED BY <3>1, <3>2, <3>3
  <2>2. events' = events
    BY <1>1 DEF tables
  <2> HIDE DEF r
  <2>3. \A j \in Calls : call'[j] = IF j = k THEN r ELSE call[j]
    BY <1>1, <1>2
  <2> QED BY <2>1, <2>2, <2>3, AnswersStayBacked DEF IInv
<1> QED BY <1>3, <1>4, <1>6, <1>7 DEF IInv

LEMMA WriteInv ==
  ASSUME IInv, NEW k \in Calls, Write(k)
  PROVE  IInv'
<1> DEFINE i == call[k].in
<1>1. /\ i \in Input /\ call[k].phase = "write"
      /\ Verdict(i) = "ACCEPT" /\ ~InsertConflicts(i)
      /\ call[k] \in CallType
  BY DEF IInv, TypeOK, CallOK, Write, MayUpgrade, SnapshotCurrent
<1>2. AcceptGuess(i) /\ CommitBy(k, Accepted(NewEvent(i))) /\ UNCHANGED pool
  BY <1>1 DEF Write
<1>3. TypeOK'
  BY WriteType DEF IInv
<1>4. SnapshotCurrent'
  BY <1>2, CommitSnapshot DEF IInv
<1>5. LedgerInv'
  BY <1>1, <1>2, AcceptLedger DEF IInv, TypeOK
<1>6. CompletionsExact'
  BY <1>1, <1>2, AcceptCompletions DEF IInv, TypeOK
<1>7. AnswersBacked'
  <2>1. events' = events \cup {NewEvent(i)}
    BY <1>2 DEF AcceptGuess
  <2>2. SameGuess(NewEvent(i), i)
    BY DEF SameGuess, NewEvent
  <2>3. call'[k].in = i /\ call'[k].out = Accepted(NewEvent(i))
    BY <1>1, <1>2 DEF CommitBy, Answered, CallType
  <2>4. \A j \in Calls \ {k} : call'[j].phase = "answered" => call'[j] = call[j]
    BY <1>2 DEF CommitBy, Overtaken, IInv, TypeOK, CallType
  <2> QED BY <2>1, <2>2, <2>3, <2>4, AnswersStayBacked DEF IInv, Accepted
<1> QED BY <1>3, <1>4, <1>5, <1>6, <1>7 DEF IInv

(* Receive, Busy, Deliver and Drop neither take a snapshot nor answer OK.  *)
LEMMA QuietInv ==
  ASSUME IInv, NEW k \in Calls, NEW r, call' = [call EXCEPT ![k] = r],
         UNCHANGED <<tables, pool>>, TypeOK', r.phase # "write",
         r.phase = "answered" => r.out.status # "OK"
  PROVE  IInv'
<1>1. LedgerInv' /\ CompletionsExact'
  BY LedgerKept DEF IInv
<1>2. SnapshotCurrent'
  BY OneCallSnapshot DEF IInv
<1>3. AnswersBacked'
  <2>1. events' = events
    BY DEF tables
  <2>2. \A j \in Calls : call'[j] = IF j = k THEN r ELSE call[j]
    BY DEF IInv, TypeOK
  <2> QED BY <2>1, <2>2, AnswersStayBacked DEF IInv
<1> QED BY <1>1, <1>2, <1>3 DEF IInv

LEMMA SeedInv ==
  ASSUME IInv, NEW m \in Modes, NEW models \in Pools, Seed(m, models)
  PROVE  IInv'
<1>1. TypeOK'
  <2>1. \A j \in Calls : Overtaken(j) \in CallType /\ CallOK(Overtaken(j))
    BY OvertakenType DEF IInv
  <2>2. call' \in [Calls -> CallType] /\ \A j \in Calls : CallOK(call'[j])
    BY <2>1 DEF Seed
  <2>3. TablesType'
    BY DEF Seed, IInv, TypeOK, TablesType, tables
  <2> QED BY <2>2, <2>3 DEF TypeOK, CallOK
<1>2. SnapshotCurrent'
  BY SeedSnapshot DEF IInv
<1>3. LedgerInv' /\ CompletionsExact'
  BY LedgerKept DEF IInv, Seed
<1>4. AnswersBacked'
  <2>1. events' = events
    BY DEF Seed, tables
  <2>2. \A j \in Calls : call'[j].phase = "answered" => call'[j] = call[j]
    BY DEF Seed, Overtaken, IInv, TypeOK, CallType
  <2> QED BY <2>1, <2>2, AnswersStayBacked DEF IInv
<1> QED BY <1>1, <1>2, <1>3, <1>4 DEF IInv


LEMMA NextInv == IInv /\ [Next]_vars => IInv'
<1> SUFFICES ASSUME IInv, [Next]_vars PROVE IInv'
  OBVIOUS
<1>1. ASSUME NEW k \in Calls, NEW i \in Input, Receive(k, i) PROVE IInv'
  <2> DEFINE r == [NoCall EXCEPT !.phase = "begin", !.in = i]
  <2>1. TypeOK'
    BY <1>1, ReceiveType DEF IInv
  <2>2. call' = [call EXCEPT ![k] = r] /\ UNCHANGED <<tables, pool>>
    BY <1>1 DEF Receive
  <2>3. r.phase = "begin"
    BY DEF NoCall
  <2> HIDE DEF r
  <2> QED BY <2>1, <2>2, <2>3, QuietInv
<1>2. ASSUME NEW k \in Calls, Snapshot(k) PROVE IInv'
  BY <1>2, SnapshotInv
<1>3. ASSUME NEW k \in Calls, Write(k) PROVE IInv'
  BY <1>3, WriteInv
<1>4. ASSUME NEW k \in Calls, Busy(k) PROVE IInv'
  <2>1. TypeOK'
    BY <1>4, BusyType DEF IInv
  <2>2. call[k] \in CallType
    BY DEF IInv, TypeOK
  <2>3. Retried(k).phase \in {"begin", "answered"}
        /\ (Retried(k).phase = "answered" => Retried(k).out.status # "OK")
    BY <2>2 DEF Retried, Answered, Failed, CallType
  <2>4. call' = [call EXCEPT ![k] = Retried(k)] /\ UNCHANGED <<tables, pool>>
    BY <1>4 DEF Busy
  <2> QED BY <2>1, <2>3, <2>4, QuietInv
<1>5. ASSUME NEW k \in Calls, Deliver(k) \/ Drop(k) PROVE IInv'
  <2>1. TypeOK'
    BY <1>5, IdleType DEF IInv
  <2>2. NoCall.phase = "idle"
    BY DEF NoCall
  <2>3. call' = [call EXCEPT ![k] = NoCall] /\ UNCHANGED <<tables, pool>>
    BY <1>5 DEF Deliver, Drop
  <2> QED BY <2>1, <2>2, <2>3, QuietInv
<1>6. ASSUME NEW m \in Modes, NEW models \in Pools, Seed(m, models) PROVE IInv'
  BY <1>6, SeedInv
<1>7. CASE UNCHANGED vars
  <2>1. UNCHANGED <<events, guessStats, completions, playerStats, pool, call>>
    BY <1>7 DEF vars, tables
  <2>2. TypeOK'
    BY <2>1 DEF IInv, TypeOK, TablesType, CallOK
  <2>3. SnapshotCurrent'
    BY <2>1 DEF IInv, SnapshotCurrent, Verdict, Replay, SameRequest, SameGuess,
                AlreadyCompleted, Solved, EventsOf, PoolOf, LimitReached,
                ExpectedAttempt, InsertConflicts
  <2>4. LedgerInv' /\ CompletionsExact'
    BY <1>7, LedgerKept DEF IInv, vars
  <2>5. AnswersBacked'
    BY <2>1 DEF IInv, AnswersBacked
  <2> QED BY <2>2, <2>3, <2>4, <2>5 DEF IInv
<1> QED BY <1>1, <1>2, <1>3, <1>4, <1>5, <1>6, <1>7 DEF Next, Serve

(* IInv holds throughout every behaviour.                                  *)
THEOREM Invariance == Spec => []IInv
  BY InitInv, NextInv, PTL DEF Spec

(* Every variable keeps its type, whatever the calls do.                   *)
THEOREM TypeCorrect == Spec => []TypeOK
<1>1. IInv => TypeOK
  BY DEF IInv
<1> QED BY <1>1, Invariance, PTL

(* No two transactions that overlap can accept two guesses under one       *)
(* attempt number, or leave a gap between them.                            *)
THEOREM GuessesSequential == Spec => []AttemptsSequential
<1>1. IInv => AttemptsSequential
  BY DEF IInv, LedgerInv
<1> QED BY <1>1, Invariance, PTL

(* A challenge is solved at most once by a player, and the solve is the    *)
(* last guess.                                                             *)
THEOREM SolveIsLast == Spec => []SolveEndsGame
<1>1. IInv => SolveEndsGame
  BY DEF IInv, LedgerInv
<1> QED BY <1>1, Invariance, PTL

(* The unique indexes never have to stop a guess.                          *)
THEOREM GuessesUnique == Spec => []UniqueGuesses
<1>1. IInv => UniqueGuesses
  BY DEF IInv, LedgerInv
<1> QED BY <1>1, Invariance, PTL

(* The published completion count is the number of solvers.                *)
THEOREM CountsExact == Spec => []CompletionsExact
<1>1. IInv => CompletionsExact
  BY DEF IInv
<1> QED BY <1>1, Invariance, PTL

(* Checks made on a snapshot hold when the transaction writes, so the code *)
(* behind `inserted == 0` is unreachable.                                  *)
THEOREM ChecksStillHold == Spec => []SnapshotCurrent
<1>1. IInv => SnapshotCurrent
  BY DEF IInv
<1> QED BY <1>1, Invariance, PTL

(* Every OK answer shows a stored guess, the same one on every retry.      *)
THEOREM RetriesAgree == Spec => []AnswersBacked
<1>1. IInv => AnswersBacked
  BY DEF IInv
<1> QED BY <1>1, Invariance, PTL

(* A guess is accepted only as the next attempt, on a model of the pool,   *)
(* within its size as it is when the guess is written.                     *)
THEOREM PoolBound == Spec => AcceptedWithinPool
<1> DEFINE A == \A e \in events' \ events :
                  /\ e.md \in PoolOf(e.ch)
                  /\ e.num <= Cardinality(PoolOf(e.ch))
                  /\ ~Solved(e.ch, e.pl)
                  /\ e.num = Cardinality(EventsOf(e.ch, e.pl)) + 1
<1>1. IInv /\ [Next]_vars => [A]_vars
  <2> SUFFICES ASSUME IInv, Next PROVE A
    OBVIOUS
  <2>1. ASSUME NEW k \in Calls, Write(k) PROVE A
    <3> DEFINE i == call[k].in
    <3>1. Verdict(i) = "ACCEPT" /\ ~InsertConflicts(i) /\ i \in Input
      BY <2>1 DEF IInv, TypeOK, CallOK, SnapshotCurrent, Write, MayUpgrade
    <3>2. events' = events \cup {NewEvent(i)}
      BY <2>1, <3>1 DEF Write, AcceptGuess
    <3>3. IsFiniteSet(PoolOf(i.ch)) /\ Cardinality(PoolOf(i.ch)) \in Nat
      <4>1. Mode[i.ch] \in Modes
        BY <3>1, AcceptedVerdict, TablesAssumption DEF Input
      <4>2. PoolOf(i.ch) \subseteq Models
        BY <4>1, TablesAssumption DEF PoolOf, IInv, TypeOK, TablesType
      <4> QED BY <4>2, FS_Subset, FS_CardinalityType, TablesAssumption
    <3>4. Cardinality(EventsOf(i.ch, i.pl)) \in Nat
      BY GameFinite DEF IInv, LedgerInv
    <3>5. /\ i.md \in PoolOf(i.ch)
          /\ ~(Cardinality(EventsOf(i.ch, i.pl)) >= Cardinality(PoolOf(i.ch)))
          /\ i.num = Cardinality(EventsOf(i.ch, i.pl)) + 1
          /\ ~Solved(i.ch, i.pl)
      BY <3>1, AcceptedVerdict DEF AlreadyCompleted, LimitReached, ExpectedAttempt
    <3>6. /\ NewEvent(i).ch = i.ch /\ NewEvent(i).pl = i.pl
          /\ NewEvent(i).md = i.md /\ NewEvent(i).num = i.num
      BY DEF NewEvent
    <3> HIDE DEF i
    <3> QED BY <3>2, <3>3, <3>4, <3>5, <3>6
  <2>2. Next => (\E k \in Calls : Write(k)) \/ events' = events
    BY DEF Next, Serve, Receive, Snapshot, Busy, Deliver, Drop, Seed, tables
  <2> QED BY <2>1, <2>2
<1> QED BY <1>1, Invariance, PTL DEF Spec, AcceptedWithinPool

-----------------------------------------------------------------------------
(* The tables change by accepted guesses alone.                            *)
LEMMA TableSteps ==
  ASSUME IInv, [Next]_vars
  PROVE  \/ UNCHANGED tables
         \/ \E i \in Input : Verdict(i) = "ACCEPT" /\ AcceptGuess(i)
<1>1. ASSUME NEW k \in Calls, Write(k)
      PROVE  \E i \in Input : Verdict(i) = "ACCEPT" /\ AcceptGuess(i)
  <2> DEFINE i == call[k].in
  <2>1. i \in Input /\ Verdict(i) = "ACCEPT" /\ ~InsertConflicts(i)
    BY <1>1 DEF IInv, TypeOK, CallOK, Write, MayUpgrade, SnapshotCurrent
  <2>2. AcceptGuess(i)
    BY <1>1, <2>1 DEF Write
  <2> QED BY <2>1, <2>2
<1>2. ASSUME NEW k \in Calls, Snapshot(k) \/ Busy(k) \/ Deliver(k) \/ Drop(k)
      PROVE  UNCHANGED tables
  BY <1>2 DEF Snapshot, Busy, Deliver, Drop
<1>3. ASSUME NEW k \in Calls, NEW i \in Input, Receive(k, i)
      PROVE  UNCHANGED tables
  BY <1>3 DEF Receive
<1>4. ASSUME NEW m \in Modes, NEW models \in Pools, Seed(m, models)
      PROVE  UNCHANGED tables
  BY <1>4 DEF Seed
<1>5. CASE UNCHANGED vars
  BY <1>5 DEF vars
<1> QED BY <1>1, <1>2, <1>3, <1>4, <1>5 DEF Next, Serve

-----------------------------------------------------------------------------
(* The statistics, in every behaviour. *)

StatsInv ==
  /\ GuessStatsExact
  /\ GuessRowsStored
  /\ PlayerInv

LEMMA StatsInit == Init => StatsInv
<1> SUFFICES ASSUME Init PROVE StatsInv
  OBVIOUS
<1>1. /\ \A c \in Challenges, m \in Models : GuessesOn(c, m) = {} /\ guessStats[<<c, m>>] = NoRow
      /\ \A p \in Players, m \in Modes : PlayedIn(p, m) = {} /\ playerStats[<<p, m>>] = NoRow
  BY DEF Init, TablesInit, GuessesOn, PlayedIn, EventsOf
<1> QED BY <1>1 DEF StatsInv, GuessStatsExact, GuessRowsStored, PlayerInv, GuessesOn

LEMMA StatsStep == IInv /\ StatsInv /\ [Next]_vars => StatsInv'
<1> SUFFICES ASSUME IInv, StatsInv, [Next]_vars PROVE StatsInv'
  OBVIOUS
<1>1. CASE UNCHANGED tables
  <2>1. UNCHANGED <<events, guessStats, playerStats>>
    BY <1>1 DEF tables
  <2>2. \A p, m : /\ PlayedIn(p, m)' = PlayedIn(p, m)
                  /\ \A r : RowCounts(r, p, m)' <=> RowCounts(r, p, m)
    <3>1. \A c, p : EventsOf(c, p)' = EventsOf(c, p)
      BY <2>1 DEF EventsOf
    <3> QED BY <3>1, OtherRows
  <2>3. PlayerInv'
    BY <2>1, <2>2 DEF StatsInv, PlayerInv
  <2>4. GuessStatsExact' /\ GuessRowsStored'
    BY <2>1 DEF StatsInv, GuessStatsExact, GuessRowsStored, GuessesOn
  <2> QED BY <2>3, <2>4 DEF StatsInv
<1>2. ASSUME NEW i \in Input, Verdict(i) = "ACCEPT", AcceptGuess(i) PROVE StatsInv'
  BY <1>2, AcceptGuessStats, AcceptPlayerStats DEF IInv, TypeOK, LedgerInv, StatsInv
<1> QED BY <1>1, <1>2, TableSteps

(* The statistics tables are what the stored guesses make them, with the   *)
(* fields from which a later guess is counted.                             *)
THEOREM StatsAlways == Spec => []StatsInv
  BY StatsInit, StatsStep, Invariance, PTL DEF Spec

(* The aggregate row of a guessed model counts its accepted events.        *)
THEOREM GuessStatsAlways == Spec => []GuessStatsExact
<1>1. StatsInv => GuessStatsExact
  BY DEF StatsInv
<1> QED BY <1>1, StatsAlways, PTL

(* The statistics row of a player counts what the player's events show.    *)
THEOREM PlayerStatsAlways == Spec => []PlayerStatsExact
<1>1. StatsInv => PlayerStatsExact
  <2> SUFFICES ASSUME StatsInv, NEW p \in Players, NEW m \in Modes, PlayedIn(p, m) # {}
               PROVE  LET row == playerStats[<<p, m>>]
                      IN  /\ row # NoRow
                          /\ row.played = Cardinality(PlayedIn(p, m))
                          /\ row.won = Cardinality(SolvedIn(p, m))
                          /\ \A n \in Attempts : row.dist[n] = Cardinality(SolvedWith(p, m, n))
                          /\ \E c \in PlayedIn(p, m) : row.lastPlayed = Day[c]
                          /\ \A c \in PlayedIn(p, m) : row.lastPlayed >= Day[c]
    BY DEF StatsInv, PlayerInv, PlayerStatsExact, SolvedWith, LastNum
  <2>1. RowCounts(playerStats[<<p, m>>], p, m)
        /\ \E c \in PlayedIn(p, m) : playerStats[<<p, m>>].lastPlayed = Day[c]
    BY DEF StatsInv, PlayerInv
  <2>2. playerStats[<<p, m>>] # NoRow
    BY <2>1, TablesAssumption DEF RowCounts, PlayerStatsRow, Attempts
  <2> QED BY <2>1, <2>2 DEF RowCounts
<1> QED BY <1>1, StatsAlways, PTL

(* In whatever order the days are solved, neither streak of a row is       *)
(* longer than the run of solved days it stands for.                       *)
THEOREM StreaksAlways == Spec => []StreaksNeverOverstated
<1>1. StatsInv => StreaksNeverOverstated
  <2> SUFFICES ASSUME StatsInv, NEW p \in Players, NEW m \in Modes
               PROVE  LET days == SolvedDays(p, m)
                          row == playerStats[<<p, m>>]
                      IN  /\ row # NoRow /\ days = {} => row.current = 0 /\ row.best = 0
                          /\ days # {} =>
                               /\ row.lastSolved \in days /\ \A d \in days : d <= row.lastSolved
                               /\ row.current \in 1..Run(days, row.lastSolved)
                               /\ row.best >= row.current
                               /\ \E d \in days : row.best <= Run(days, d)
    BY DEF StreaksNeverOverstated, SolvedDays
  <2> DEFINE row == playerStats[<<p, m>>]
  <2>1. CASE PlayedIn(p, m) = {}
    <3>1. row = NoRow /\ SolvedDays(p, m) = {}
      BY <2>1, GamesFinite DEF StatsInv, PlayerInv, SolvedDays
    <3> QED BY <3>1
  <2>2. CASE PlayedIn(p, m) # {}
    <3>1. /\ row.current \in Nat /\ row.best \in Nat /\ StreakOf(row, SolvedDays(p, m))
      BY <2>2 DEF StatsInv, PlayerInv, RowCounts, PlayerStatsRow
    <3>2. CASE SolvedDays(p, m) = {}
      BY <3>1, <3>2 DEF StreakOf
    <3>3. CASE SolvedDays(p, m) # {}
      BY <3>1, <3>3, GamesFinite, StreakBounded
    <3> QED BY <3>2, <3>3
  <2> QED BY <2>1, <2>2
<1> QED BY <1>1, StatsAlways, PTL

-----------------------------------------------------------------------------
(* What an event says of the answer is true.                               *)
Marked == \A e \in events : e.ok = (e.md = Answer[e.ch])

LEMMA MarkedInit == Init => Marked
  BY DEF Init, TablesInit, Marked

LEMMA MarkedStep ==
  ASSUME IInv, Marked, [Next]_vars
  PROVE  Marked'
<1>1. CASE UNCHANGED tables
  BY <1>1 DEF Marked, tables
<1>2. ASSUME NEW i \in Input, AcceptGuess(i) PROVE Marked'
  BY <1>2 DEF AcceptGuess, NewEvent, Marked
<1> QED BY <1>1, <1>2, TableSteps

-----------------------------------------------------------------------------
(* Boards. *)

(* BoardOf, as a function of the events of the game. *)
Board(game) == [n \in 1..Cardinality(game) |-> (CHOOSE e \in game : e.num = n).md]

Numbered(game) ==
  IsFiniteSet(game) /\ {e.num : e \in game} = 1..Cardinality(game)

LEMMA GameNumbered ==
  ASSUME LedgerInv, NEW c \in Challenges, NEW p \in Players
  PROVE  Numbered(EventsOf(c, p))
  BY GameFinite DEF LedgerInv, AttemptsSequential, Numbered

(* The numbers are 1 .. n and the events are n, so each number has one.    *)
LEMMA NumbersUnique ==
  ASSUME NEW game, Numbered(game), NEW e \in game, NEW f \in game, e.num = f.num
  PROVE  e = f
<1> DEFINE n == Cardinality(game)
           number == [x \in game |-> x.num]
<1>1. IsFiniteSet(game) /\ n \in Nat
  BY FS_CardinalityType DEF Numbered
<1>2. number \in Surjection(game, 1..n)
  BY DEF Numbered, Surjection
<1>3. Cardinality(1..n) = n
  BY <1>1, FS_Interval
<1>4. number \in Injection(game, 1..n)
  BY <1>1, <1>2, <1>3, FS_Surjection
<1> QED BY <1>4 DEF Injection, IsInjective

(* What a board shows at a place is the model of the event with that       *)
(* number.                                                                 *)
LEMMA BoardShows ==
  ASSUME NEW game, Numbered(game)
  PROVE  /\ Cardinality(game) \in Nat
         /\ DOMAIN Board(game) = 1..Cardinality(game)
         /\ \A n \in 1..Cardinality(game) :
              \E e \in game : e.num = n /\ Board(game)[n] = e.md
         /\ \A e \in game : /\ e.num \in 1..Cardinality(game)
                            /\ Board(game)[e.num] = e.md
<1>1. Cardinality(game) \in Nat
  BY FS_CardinalityType DEF Numbered
<1>2. \A n \in 1..Cardinality(game) : \E e \in game : e.num = n
  BY DEF Numbered
<1>3. \A n \in 1..Cardinality(game) :
        \E e \in game : e.num = n /\ Board(game)[n] = e.md
  BY <1>2 DEF Board
<1>4. \A e \in game : e.num \in 1..Cardinality(game)
  BY DEF Numbered
<1>5. \A e \in game : Board(game)[e.num] = e.md
  BY <1>3, <1>4, NumbersUnique
<1> QED BY <1>1, <1>3, <1>4, <1>5 DEF Board

(* A new event with the next number appends its model. *)
LEMMA BoardGrows ==
  ASSUME NEW game, Numbered(game), NEW x, x \notin game,
         x.num = Cardinality(game) + 1, Numbered(game \cup {x}),
         \A e \in game : e.md \in Models
  PROVE  Board(game \cup {x}) = Append(Board(game), x.md)
<1> DEFINE n == Cardinality(game)
           more == game \cup {x}
           old == Board(game)
           new == Board(more)
<1>1. n \in Nat /\ Cardinality(more) = n + 1
  BY FS_AddElement, FS_CardinalityType DEF Numbered
<1>2. /\ DOMAIN new = 1..(n + 1)
      /\ \A e \in more : new[e.num] = e.md
  BY <1>1, BoardShows
<1>3. /\ DOMAIN old = 1..n
      /\ \A k \in 1..n : \E e \in game : e.num = k /\ old[k] = e.md
  BY BoardShows
<1>4. \A k \in 1..(n + 1) : new[k] = IF k = n + 1 THEN x.md ELSE old[k]
  <2> SUFFICES ASSUME NEW k \in 1..(n + 1)
               PROVE  new[k] = IF k = n + 1 THEN x.md ELSE old[k]
    OBVIOUS
  <2> HIDE DEF new, old, n
  <2>1. CASE k = n + 1
    BY <1>2, <2>1 DEF n
  <2>2. CASE k # n + 1
    <3>1. k \in 1..n
      BY <1>1, <2>2
    <3>2. PICK e \in game : e.num = k /\ old[k] = e.md
      BY <1>3, <3>1
    <3>3. new[e.num] = e.md
      BY <1>2, <3>2
    <3> QED BY <2>2, <3>2, <3>3
  <2> QED BY <2>1, <2>2
<1>5. new = [k \in 1..(n + 1) |-> new[k]] /\ old = [k \in 1..n |-> old[k]]
  BY <1>1 DEF Board
<1> HIDE DEF new, old
<1>6. old \in Seq(Models) /\ Len(old) = n
  BY <1>1, <1>3, <1>5
<1>7. Append(old, x.md) = [k \in 1..(n + 1) |-> IF k = n + 1 THEN x.md ELSE old[k]]
  BY <1>1, <1>6
<1> QED BY <1>4, <1>5, <1>7 DEF new, old

LEMMA GameOf ==
  ASSUME NEW c, NEW p
  PROVE  BoardOf(c, p) = Board(EventsOf(c, p)) /\ BoardOf(c, p)' = Board(EventsOf(c, p)')
  BY DEF BoardOf, Board

(* An accepted guess appends its model to its board, and to no other.      *)
LEMMA AcceptBoard ==
  ASSUME TypeOK, LedgerInv, NEW i \in Input, Verdict(i) = "ACCEPT", AcceptGuess(i)
  PROVE  /\ BoardOf(i.ch, i.pl)' = Append(BoardOf(i.ch, i.pl), i.md)
         /\ \A c \in Challenges, p \in Players :
              <<c, p>> # <<i.ch, i.pl>> => BoardOf(c, p)' = BoardOf(c, p)
<1> DEFINE game == EventsOf(i.ch, i.pl)
           x == NewEvent(i)
<1>1. i.ch \in Challenges /\ i.pl \in Players
  BY DEF Input
<1>2. EventsOf(i.ch, i.pl)' = game \cup {x}
  BY <1>1, AcceptedGame
<1>3. x \notin game /\ x.num = Cardinality(game) + 1 /\ x.md = i.md
  BY AcceptedVerdict DEF InsertConflicts, EventsOf, NewEvent, ExpectedAttempt
<1>4. Numbered(game)
  BY <1>1, GameNumbered
<1>5. Numbered(game \cup {x})
  <2>1. IsFiniteSet(game) /\ Cardinality(game) \in Nat
    BY <1>4, FS_CardinalityType DEF Numbered
  <2>2. IsFiniteSet(game \cup {x}) /\ Cardinality(game \cup {x}) = Cardinality(game) + 1
    BY <1>3, <2>1, FS_AddElement
  <2>3. {e.num : e \in game \cup {x}} = {e.num : e \in game} \cup {x.num}
    OBVIOUS
  <2>4. 1..(Cardinality(game) + 1) = 1..Cardinality(game) \cup {Cardinality(game) + 1}
    BY <2>1
  <2> QED BY <1>3, <1>4, <2>2, <2>3, <2>4 DEF Numbered
<1>6. \A e \in game : e.md \in Models
  BY DEF TypeOK, TablesType, Event, EventsOf
<1>7. Board(game \cup {x}) = Append(Board(game), i.md)
  <2> HIDE DEF game, x
  <2> QED BY <1>3, <1>4, <1>5, <1>6, BoardGrows
<1>8. BoardOf(i.ch, i.pl)' = Append(BoardOf(i.ch, i.pl), i.md)
  BY <1>2, <1>7, GameOf
<1>9. \A c \in Challenges, p \in Players :
        <<c, p>> # <<i.ch, i.pl>> => BoardOf(c, p)' = BoardOf(c, p)
  BY AcceptedGame, GameOf
<1> QED BY <1>8, <1>9

-----------------------------------------------------------------------------
(* The refinement. *)

LEMMA LedgerInit == Init => Ledger!Init
<1> SUFFICES ASSUME Init PROVE Ledger!Init
  OBVIOUS
<1>1. \A c, p : EventsOf(c, p) = {}
  BY DEF Init, TablesInit, EventsOf
<1>2. \A c, p : BoardOf(c, p) = <<>>
  <2>1. 1..Cardinality({}) = {}
    BY FS_EmptySet
  <2>2. Board({}) = <<>>
    BY <2>1 DEF Board
  <2> QED BY <1>1, <2>2, GameOf
<1>3. completions = [c \in Challenges |-> 0]
  BY DEF Init, TablesInit
<1> QED BY <1>2, <1>3 DEF Ledger!Init

(* The ledger's guards: the model is new on the board, and the answer is   *)
(* not on it.                                                              *)
LEMMA AcceptGuards ==
  ASSUME LedgerInv, Marked, NEW i \in Input, Verdict(i) = "ACCEPT"
  PROVE  /\ i.md \notin Ledger!Range(BoardOf(i.ch, i.pl))
         /\ Answer[i.ch] \notin Ledger!Range(BoardOf(i.ch, i.pl))
<1> DEFINE game == EventsOf(i.ch, i.pl)
<1>1. Numbered(game)
  BY GameNumbered DEF Input
<1>2. \A m \in Ledger!Range(Board(game)) : \E e \in game : e.md = m
  BY <1>1, BoardShows DEF Ledger!Range
<1>3. \A e \in game : e.md # i.md
  BY AcceptedVerdict DEF InsertConflicts, SameGuess, EventsOf
<1>4. \A e \in game : e.md # Answer[i.ch]
  BY AcceptedVerdict DEF AlreadyCompleted, Solved, EventsOf, Marked
<1> QED BY <1>2, <1>3, <1>4, GameOf

LEMMA AcceptStep ==
  ASSUME IInv, Marked, NEW i \in Input, Verdict(i) = "ACCEPT", AcceptGuess(i)
  PROVE  Ledger!Next
<1> DEFINE c == i.ch
           p == i.pl
           boards == [b \in Challenges \X Players |-> BoardOf(b[1], b[2])]
<1>1. c \in Challenges /\ p \in Players /\ i.md \in Models
  BY DEF Input
<1>2. boards[<<c, p>>] = BoardOf(c, p)
  BY <1>1
<1>3. i.md \notin Ledger!Range(boards[<<c, p>>]) /\ Answer[c] \notin Ledger!Range(boards[<<c, p>>])
  BY <1>2, AcceptGuards DEF IInv
<1>4. [b \in Challenges \X Players |-> BoardOf(b[1], b[2])']
        = [boards EXCEPT ![<<c, p>>] = Append(@, i.md)]
  <2>1. ASSUME NEW b \in Challenges \X Players
        PROVE  BoardOf(b[1], b[2])' =
                 IF b = <<c, p>> THEN Append(boards[<<c, p>>], i.md) ELSE boards[b]
    <3>1. b = <<b[1], b[2]>> /\ b[1] \in Challenges /\ b[2] \in Players
      OBVIOUS
    <3>2. CASE b = <<c, p>>
      <4>1. b[1] = c /\ b[2] = p
        BY <3>2
      <4> QED BY <1>2, <3>2, <4>1, AcceptBoard DEF IInv
    <3>3. CASE b # <<c, p>>
      <4>1. BoardOf(b[1], b[2])' = BoardOf(b[1], b[2])
        BY <3>1, <3>3, AcceptBoard DEF IInv
      <4> QED BY <3>3, <4>1
    <3> QED BY <3>2, <3>3
  <2> QED BY <1>1, <2>1
<1>5. completions' = [completions EXCEPT ![c] = IF i.md = Answer[c] THEN @ + 1 ELSE @]
  <2>1. completions' = [completions EXCEPT ![c] = @ + Bit(i.md = Answer[c])]
    BY DEF AcceptGuess, NewEvent
  <2>2. completions \in [Challenges -> Nat]
    BY DEF IInv, TypeOK, TablesType
  <2>3. completions[c] + Bit(i.md = Answer[c])
          = IF i.md = Answer[c] THEN completions[c] + 1 ELSE completions[c]
    BY <1>1, <2>2 DEF Bit
  <2> QED BY <2>1, <2>3
<1> QED BY <1>1, <1>3, <1>4, <1>5 DEF Ledger!Next, Ledger!Accept

LEMMA LedgerStep ==
  ASSUME IInv, Marked, [Next]_vars
  PROVE  [Ledger!Next]_(Ledger!vars)
<1>1. CASE UNCHANGED tables
  <2>1. \A c, p : BoardOf(c, p)' = BoardOf(c, p)
    BY <1>1 DEF BoardOf, EventsOf, tables
  <2> QED BY <1>1, <2>1 DEF Ledger!vars, tables
<1>2. ASSUME NEW i \in Input, Verdict(i) = "ACCEPT", AcceptGuess(i) PROVE Ledger!Next
  BY <1>2, AcceptStep
<1> QED BY <1>1, <1>2, TableSteps

(* Overlapping transactions, retries, replays, dropped calls and a seed    *)
(* beside them implement the ledger of guesses (process_guess).            *)
THEOREM LedgerImplemented == Spec => ImplementsLedger
<1>1. Init => Ledger!Init /\ Marked
  BY LedgerInit, MarkedInit
<1>2. IInv /\ Marked /\ [Next]_vars => Marked' /\ [Ledger!Next]_(Ledger!vars)
  BY MarkedStep, LedgerStep
<1> QED BY <1>1, <1>2, Invariance, PTL DEF Spec, ImplementsLedger, Ledger!Spec
=============================================================================
