------------------------ MODULE AccountProgressProofs ------------------------
(***************************************************************************)
(* Proofs about AccountProgress for every number of players, accounts,     *)
(* models, challenges and handlers, wherever a handler is dropped.         *)
(***************************************************************************)
EXTENDS AccountProgress, FiniteSetTheorems, TLAPS

-----------------------------------------------------------------------------
(* The types of the tables an accepted guess writes. *)

(* The number of models is a number, so Attempts is an interval of them.   *)
LEMMA ModelCount == Cardinality(Models) \in Nat
  BY FS_CardinalityType, TablesAssumption

(* What update_player_stats computes is a row again.                       *)
LEMMA PlayerRowType ==
  ASSUME NEW row \in PlayerStatsRow \cup {NoRow}, NEW i \in Input,
         NEW first \in BOOLEAN, NEW ok \in BOOLEAN
  PROVE  NextPlayerStats(row, i, first, ok) \in PlayerStatsRow
<1> DEFINE old == IF row = NoRow THEN FreshStats ELSE row
<1> DEFINE streak == IF ok THEN UpdateStreak(old, Day[i.ch]) ELSE Streak(old)
<1>1. Day[i.ch] \in Nat
  BY TablesAssumption DEF Input
<1>2. old \in PlayerStatsRow
  BY DEF FreshStats, PlayerStatsRow
<1> HIDE DEF old
<1>3. streak \in [current : Nat, best : Nat, lastSolved : Nat]
  BY <1>1, <1>2 DEF UpdateStreak, Streak, PlayerStatsRow, Larger
<1>4. [n \in Attempts |-> old.dist[n] + Bit(ok /\ n = i.num)] \in [Attempts -> Nat]
  BY <1>2 DEF PlayerStatsRow, Bit
<1>5. /\ GamesPlayed(old, first, ok) \in Nat
      /\ old.won + Bit(ok) \in Nat
      /\ Larger(old.lastPlayed, Day[i.ch]) \in Nat
  BY <1>1, <1>2 DEF GamesPlayed, Bit, Larger, PlayerStatsRow
<1>6. NextPlayerStats(row, i, first, ok) =
        [current |-> streak.current, best |-> streak.best,
         lastSolved |-> streak.lastSolved,
         played |-> GamesPlayed(old, first, ok),
         won |-> old.won + Bit(ok),
         lastPlayed |-> Larger(old.lastPlayed, Day[i.ch]),
         dist |-> [n \in Attempts |-> old.dist[n] + Bit(ok /\ n = i.num)]]
  BY DEF NextPlayerStats, old
<1> HIDE DEF streak
<1> QED BY <1>3, <1>4, <1>5, <1>6 DEF PlayerStatsRow

LEMMA GuessRowType ==
  ASSUME NEW row \in GuessStatsRow \cup {NoRow}, NEW ok \in BOOLEAN
  PROVE  NextGuessStats(row, ok) \in GuessStatsRow
  BY DEF NextGuessStats, GuessStatsRow, Bit

(* The writes of an accepted guess keep the tables well typed.  Verdict    *)
(* has already refused a challenge without a mode.                         *)
LEMMA AcceptGuessType ==
  ASSUME TablesType, NEW i \in Input, Mode[i.ch] # NoMode, AcceptGuess(i), UNCHANGED pool
  PROVE  TablesType'
<1>1. NewEvent(i) \in Event
  BY DEF Input, Event, NewEvent
<1>2. NewEvent(i).ok \in BOOLEAN
  BY DEF NewEvent
<1>3. events' \subseteq Event
  BY <1>1 DEF AcceptGuess, TablesType
<1>4. guessStats' \in [Challenges \X Models -> GuessStatsRow \cup {NoRow}]
  <2>1. guessStats[<<i.ch, i.md>>] \in GuessStatsRow \cup {NoRow}
    BY DEF TablesType, Input
  <2>2. NextGuessStats(guessStats[<<i.ch, i.md>>], NewEvent(i).ok) \in GuessStatsRow
    BY <1>2, <2>1, GuessRowType
  <2> QED BY <2>2 DEF AcceptGuess, TablesType
<1>5. completions' \in [Challenges -> Nat]
  BY <1>2 DEF AcceptGuess, TablesType, Bit, Input
<1>6. playerStats' \in [Players \X Modes -> PlayerStatsRow \cup {NoRow}]
  <2>1. <<i.pl, Mode[i.ch]>> \in Players \X Modes
    BY TablesAssumption DEF Input
  <2>2. playerStats[<<i.pl, Mode[i.ch]>>] \in PlayerStatsRow \cup {NoRow}
    BY <2>1 DEF TablesType
  <2>3. NextPlayerStats(playerStats[<<i.pl, Mode[i.ch]>>], i, EventsOf(i.ch, i.pl) = {},
                        NewEvent(i).ok) \in PlayerStatsRow
    BY <1>2, <2>2, PlayerRowType
  <2> QED BY <2>3 DEF AcceptGuess, TablesType
<1> QED BY <1>3, <1>4, <1>5, <1>6 DEF TablesType

LEMMA TablesInitType == TablesInit => TablesType
  BY DEF TablesInit, TablesType

LEMMA AcceptedVerdict ==
  ASSUME NEW i, Verdict(i) = "ACCEPT"
  PROVE  /\ ~InsertConflicts(i)
         /\ Mode[i.ch] # NoMode
         /\ ~AlreadyCompleted(i)
         /\ i.md \in PoolOf(i.ch)
         /\ ~LimitReached(i)
         /\ i.num = ExpectedAttempt(i)
  BY DEF Verdict, Replay, InsertConflicts

-----------------------------------------------------------------------------
(* Sets of numbers. *)

(* A set of numbers that is not empty has a least one.                     *)
LEMMA LeastNumber ==
  ASSUME NEW S, S \subseteq Nat, S # {}
  PROVE  \E n \in S : \A m \in S : n <= m
<1> DEFINE R == OpToRel(<, Nat)
<1>1. IsWellFoundedOn(R, Nat)
  BY NatLessThanWellFounded
<1>2. \A m, n \in Nat : m < n => <<m, n>> \in R
  BY DEF OpToRel
<1> HIDE DEF R
<1>3. PICK n \in S : \A m \in S : ~(<<m, n>> \in R)
  BY <1>1, WFMin
<1>4. ASSUME NEW m \in S PROVE n <= m
  <2>1. m \in Nat /\ n \in Nat
    OBVIOUS
  <2>2. ~(m < n)
    BY <1>2, <1>3, <2>1
  <2> QED BY <2>1, <2>2
<1> QED BY <1>4

(* The numbers of a finite set can be counted off: one of them has the     *)
(* n-th place.                                                             *)
LEMMA NthNumber ==
  ASSUME NEW S, S \subseteq Nat, IsFiniteSet(S), NEW n \in 1..Cardinality(S)
  PROVE  \E d \in S : Cardinality({x \in S : x <= d}) = n
<1> DEFINE N == Cardinality(S)
           upTo(d) == {x \in S : x <= d}
           place == [d \in S |-> Cardinality(upTo(d))]
<1>1. N \in Nat
  BY FS_CardinalityType
<1>2. ASSUME NEW d \in S
      PROVE  IsFiniteSet(upTo(d)) /\ place[d] = Cardinality(upTo(d)) /\ place[d] \in 1..N
  <2>1. upTo(d) \subseteq S /\ {d} \subseteq upTo(d)
    OBVIOUS
  <2>2. IsFiniteSet(upTo(d)) /\ Cardinality(upTo(d)) <= N
    BY <2>1, FS_Subset
  <2>3. Cardinality(upTo(d)) \in Nat
    BY <2>2, FS_CardinalityType
  <2>4. Cardinality({d}) = 1 /\ Cardinality({d}) <= Cardinality(upTo(d))
    BY <2>1, <2>2, FS_Subset, FS_Singleton
  <2>5. place[d] = Cardinality(upTo(d))
    OBVIOUS
  <2> HIDE DEF place, upTo, N
  <2> QED BY <1>1, <2>2, <2>3, <2>4, <2>5
<1>3. ASSUME NEW d \in S, NEW e \in S, d < e
      PROVE  place[d] # place[e]
  <2>1. \A x \in S : x <= d => x <= e /\ x # e
    BY <1>3
  <2>2. e <= e /\ ~(e <= d)
    BY <1>3
  <2>3. upTo(d) \subseteq upTo(e) /\ e \in upTo(e) /\ e \notin upTo(d)
    BY <2>1, <2>2
  <2>4. Cardinality(upTo(d)) # Cardinality(upTo(e))
    <3> HIDE DEF upTo
    <3> QED BY <1>2, <2>3, FS_Subset
  <2> QED BY <1>2, <2>4
<1>4. place \in Injection(S, 1..N)
  <2>1. place \in [S -> 1..N]
    BY <1>2
  <2>2. \A d, e \in S : place[d] = place[e] => d = e
    <3> TAKE d \in S, e \in S
    <3>1. d < e \/ e < d \/ d = e
      OBVIOUS
    <3> HIDE DEF place
    <3> QED BY <1>3, <3>1
  <2> HIDE DEF place
  <2> QED BY <2>1, <2>2 DEF Injection, IsInjective
<1>5. IsFiniteSet(1..N) /\ Cardinality(1..N) = N
  BY <1>1, FS_Interval
<1>6. place \in Surjection(S, 1..N)
  <2> HIDE DEF place
  <2> QED BY <1>4, <1>5, FS_Injection
<1>7. PICK d \in S : place[d] = n
  <2> HIDE DEF place
  <2> QED BY <1>6 DEF Surjection
<1> QED BY <1>7

(* A finite set of numbers that is not empty has a greatest one.           *)
LEMMA GreatestNumber ==
  ASSUME NEW S, S \subseteq Nat, IsFiniteSet(S), S # {}
  PROVE  \E d \in S : \A x \in S : x <= d
<1>1. Cardinality(S) \in 1..Cardinality(S)
  BY FS_CardinalityType, FS_EmptySet
<1>2. PICK d \in S : Cardinality({x \in S : x <= d}) = Cardinality(S)
  BY <1>1, NthNumber
<1>3. {x \in S : x <= d} \in SUBSET S
  OBVIOUS
<1>4. {x \in S : x <= d} = S
  BY <1>2, <1>3, FS_Subset
<1> QED BY <1>4

-----------------------------------------------------------------------------
Fields == {"phase", "user", "pl", "ch", "md", "req", "todo", "mode", "row", "then"}

(* What the phases of a handler rely on: a guess and its record carry a    *)
(* challenge, a model and a request id; all but an anonymous guess and a   *)
(* moderator's rebuild work for an account.                                *)
TasksFit ==
  /\ DOMAIN task = Tasks
  /\ \A t \in Tasks :
       /\ DOMAIN task[t] = Fields
       /\ task[t].phase \in Phases
       /\ task[t].then \in {"idle", "canonical"}
       /\ task[t].user \in Users \cup {NoUser}
       /\ task[t].phase \in {"guess", "sync"} => task[t].pl \in Players
       /\ task[t].phase \in {"canonical", "record", "sync", "modes", "check", "grant"} =>
            task[t].user \in Users
       /\ task[t].phase \in {"guess", "canonical", "record"} \/ task[t].then = "canonical" =>
            /\ task[t].pl \in Players
            /\ task[t].ch \in Challenges /\ task[t].md \in Models /\ task[t].req \in Requests

TablesFit ==
  /\ events \subseteq Event
  /\ link \in [Players -> Users \cup {NoUser}]
  /\ primary \in [Users -> Players \cup {NoPlayer}]
  /\ done \subseteq Users \X Challenges

(* A primary player is linked to its account, and only primary players     *)
(* hold guesses of an account: what a device still has when it is merged   *)
(* belongs to nobody.                                                      *)
Owned ==
  /\ \A u \in Users : primary[u] # NoPlayer => link[primary[u]] = u
  /\ \A e \in events : e.user # NoUser => primary[e.user] = e.pl

Marked == \A e \in events : e.ok = (e.md = Answer[e.ch])

(* A signed-in guess that has found its player is that player's.           *)
GuessesCanonical ==
  \A t \in Tasks :
    task[t].phase = "guess" /\ task[t].user # NoUser => task[t].pl = primary[task[t].user]

Inv ==
  /\ TasksFit
  /\ TablesFit
  /\ Owned
  /\ Marked
  /\ GuessesCanonical
  /\ UniqueGuesses
  /\ CompletionsBacked

LEMMA InitInv == Init => Inv
<1> SUFFICES ASSUME Init PROVE Inv
  OBVIOUS
<1>1. TasksFit
  BY DEF Init, TasksFit, NoTask, Fields, Phases
<1>2. TablesFit /\ Owned
  BY AccountAssumption DEF Init, TablesInit, TablesFit, Owned
<1>3. Marked /\ UniqueGuesses /\ CompletionsBacked
  BY DEF Init, TablesInit, Marked, UniqueGuesses, CompletionsBacked
<1>4. GuessesCanonical
  BY DEF Init, GuessesCanonical, NoTask
<1> QED BY <1>1, <1>2, <1>3, <1>4 DEF Inv

-----------------------------------------------------------------------------
(* Steps that write neither guesses nor links nor completions. *)

LEMMA QuietInv ==
  ASSUME Inv, UNCHANGED <<events, link, primary, done>>, TasksFit', GuessesCanonical'
  PROVE  Inv'
<1>1. TablesFit' /\ Owned' /\ Marked'
  BY DEF Inv, TablesFit, Owned, Marked
<1>2. UniqueGuesses' /\ CompletionsBacked'
  BY DEF Inv, UniqueGuesses, SameGuess, CompletionsBacked, UserSolved
<1> QED BY <1>1, <1>2 DEF Inv

LEMMA FinishFits ==
  ASSUME TasksFit, GuessesCanonical, UNCHANGED primary, NEW t \in Tasks, Finish(t)
  PROVE  TasksFit' /\ GuessesCanonical'
<1>1. DOMAIN NoTask = Fields /\ NoTask.phase = "idle" /\ NoTask.then = "idle" /\ NoTask.user = NoUser
  BY DEF NoTask, Fields
<1>2. DOMAIN task' = Tasks /\ \A s \in Tasks : task'[s] = IF s = t THEN NoTask ELSE task[s]
  BY DEF Finish, TasksFit
<1>3. TasksFit'
  BY <1>1, <1>2 DEF TasksFit, Phases
<1>4. GuessesCanonical'
  BY <1>1, <1>2 DEF GuessesCanonical
<1> QED BY <1>3, <1>4

LEMMA FailInv ==
  ASSUME Inv, NEW t \in Tasks, Fail(t)
  PROVE  Inv'
  BY FinishFits, QuietInv DEF Fail, Inv, tables, accounts

(* A handler that goes on in another phase with the same guess. *)
LEMMA GotoFits ==
  ASSUME TasksFit, GuessesCanonical, UNCHANGED primary, NEW t \in Tasks,
         NEW phase \in Phases \ {"guess", "sync"}, Goto(t, phase),
         phase \in {"canonical", "record", "modes", "check", "grant"} => task[t].user \in Users,
         phase \in {"canonical", "record"} =>
           /\ task[t].pl \in Players
           /\ task[t].ch \in Challenges /\ task[t].md \in Models /\ task[t].req \in Requests
  PROVE  TasksFit' /\ GuessesCanonical'
<1>1. /\ DOMAIN task' = Tasks
      /\ \A s \in Tasks : s # t => task'[s] = task[s]
      /\ DOMAIN task'[t] = Fields
      /\ task'[t].phase = phase
      /\ \A f \in Fields \ {"phase"} : task'[t][f] = task[t][f]
  BY DEF Goto, TasksFit, Fields
<1>2. /\ task'[t].user = task[t].user /\ task'[t].then = task[t].then
      /\ task'[t].ch = task[t].ch /\ task'[t].md = task[t].md /\ task'[t].req = task[t].req
      /\ task'[t].pl = task[t].pl
  BY <1>1 DEF Fields
<1>3. TasksFit'
  BY <1>1, <1>2 DEF TasksFit
<1>4. GuessesCanonical'
  BY <1>1 DEF GuessesCanonical
<1> QED BY <1>3, <1>4

-----------------------------------------------------------------------------
LEMMA StartGuessInv ==
  ASSUME Inv, NEW t \in Tasks, NEW u \in Users \cup {NoUser}, NEW p \in Players,
         NEW c \in Challenges, NEW m \in Models, NEW r \in Requests,
         StartGuess(t, u, p, c, m, r)
  PROVE  Inv'
<1>1. UNCHANGED <<events, link, primary, done>>
  BY DEF StartGuess, tables
<1>2. DOMAIN task' = Tasks /\ \A s \in Tasks : s # t => task'[s] = task[s]
  BY DEF StartGuess, Inv, TasksFit
<1>3. task'[t] = [NoTask EXCEPT !.phase = IF u = NoUser THEN "guess" ELSE "canonical",
                             !.user = u, !.pl = p, !.ch = c, !.md = m, !.req = r]
  BY DEF StartGuess, Inv, TasksFit
<1>4. /\ DOMAIN task'[t] = Fields
      /\ task'[t].phase = IF u = NoUser THEN "guess" ELSE "canonical"
      /\ task'[t].user = u /\ task'[t].pl = p /\ task'[t].ch = c
      /\ task'[t].md = m /\ task'[t].req = r /\ task'[t].then = "idle"
  BY <1>3 DEF NoTask, Fields
<1>5. TasksFit' /\ GuessesCanonical'
  BY <1>1, <1>2, <1>4 DEF Inv, TasksFit, GuessesCanonical, Phases
<1> QED BY <1>1, <1>5, QuietInv

LEMMA StartSyncInv ==
  ASSUME Inv, NEW t \in Tasks, NEW u \in Users, NEW p \in Players, StartSync(t, u, p)
  PROVE  Inv'
<1>1. UNCHANGED <<events, link, primary, done>>
  BY DEF StartSync, tables, accounts
<1>2. DOMAIN task' = Tasks /\ \A s \in Tasks : s # t => task'[s] = task[s]
  BY DEF StartSync, Inv, TasksFit
<1>3. task'[t] = [NoTask EXCEPT !.phase = "sync", !.user = u, !.pl = p]
  BY DEF StartSync, Inv, TasksFit
<1>4. /\ DOMAIN task'[t] = Fields /\ task'[t].phase = "sync"
      /\ task'[t].user = u /\ task'[t].pl = p /\ task'[t].then = "idle"
  BY <1>3 DEF NoTask, Fields
<1>5. TasksFit' /\ GuessesCanonical'
  BY <1>1, <1>2, <1>4 DEF Inv, TasksFit, GuessesCanonical, Phases
<1> QED BY <1>1, <1>5, QuietInv

LEMMA StartAccessInv ==
  ASSUME Inv, NEW t \in Tasks, NEW u \in Users, StartAccess(t, u)
  PROVE  Inv'
<1>1. UNCHANGED <<events, link, primary, done>>
  BY DEF StartAccess, tables, accounts
<1>2. DOMAIN task' = Tasks /\ \A s \in Tasks : s # t => task'[s] = task[s]
  BY DEF StartAccess, Inv, TasksFit
<1>3. task'[t] = [NoTask EXCEPT !.phase = "check", !.user = u]
  BY DEF StartAccess, Inv, TasksFit
<1>4. /\ DOMAIN task'[t] = Fields /\ task'[t].phase = "check"
      /\ task'[t].user = u /\ task'[t].then = "idle"
  BY <1>3 DEF NoTask, Fields
<1>5. TasksFit' /\ GuessesCanonical'
  BY <1>1, <1>2, <1>4 DEF Inv, TasksFit, GuessesCanonical, Phases
<1> QED BY <1>1, <1>5, QuietInv

LEMMA CanonicalInv ==
  ASSUME Inv, NEW t \in Tasks, Canonical(t)
  PROVE  Inv'
<1> DEFINE u == task[t].user
<1>1. UNCHANGED <<events, link, primary, done>>
  BY DEF Canonical, tables, accounts
<1>2. /\ u \in Users /\ task[t].pl \in Players /\ task[t].phase = "canonical"
      /\ task[t].ch \in Challenges /\ task[t].md \in Models /\ task[t].req \in Requests
      /\ task[t].then \in {"idle", "canonical"}
      /\ DOMAIN task = Tasks /\ DOMAIN task[t] = Fields
  BY DEF Canonical, Inv, TasksFit
<1>3. DOMAIN task' = Tasks /\ \A s \in Tasks : s # t => task'[s] = task[s]
  BY <1>2 DEF Canonical
<1>4. /\ DOMAIN task'[t] = Fields
      /\ \A f \in Fields \ {"phase", "then", "pl"} : task'[t][f] = task[t][f]
  BY <1>2 DEF Canonical, Fields
<1>5. /\ task'[t].user = u /\ task'[t].ch = task[t].ch /\ task'[t].md = task[t].md
      /\ task'[t].req = task[t].req
  BY <1>4 DEF Fields
<1>6. \/ /\ task'[t].phase = "sync" /\ task'[t].then = "canonical"
         /\ task'[t].pl = task[t].pl
      \/ /\ task'[t].phase = "guess" /\ task'[t].then = task[t].then
         /\ task'[t].pl = primary[u] /\ primary[u] # NoPlayer
  BY <1>2 DEF Canonical, Fields
<1>7. primary[u] # NoPlayer => primary[u] \in Players
  BY <1>2 DEF Inv, TablesFit
<1>8. TasksFit'
  BY <1>2, <1>3, <1>4, <1>5, <1>6, <1>7 DEF Inv, TasksFit, Phases
<1>9. GuessesCanonical'
  BY <1>1, <1>3, <1>5, <1>6 DEF Inv, GuessesCanonical
<1> QED BY <1>1, <1>8, <1>9, QuietInv

(* The rebuild of a player's rows, which reads and writes player_mode_stats. *)
LEMMA RebuildInv ==
  ASSUME Inv, NEW t \in Tasks, ReadModes(t) \/ ReadRows(t) \/ StoreRow(t)
  PROVE  Inv'
<1>1. UNCHANGED <<events, link, primary, done>>
  BY DEF ReadModes, ReadRows, StoreRow, tables, accounts
<1>2. /\ task[t].phase \in {"modes", "read", "store"} /\ task[t].user \in Users \cup {NoUser}
      /\ task[t].phase = "modes" => task[t].user \in Users
      /\ DOMAIN task = Tasks /\ DOMAIN task[t] = Fields
  BY DEF ReadModes, ReadRows, StoreRow, Inv, TasksFit
<1>3. CASE Finish(t)
  BY <1>1, <1>3, FinishFits, QuietInv DEF Inv
<1>4. CASE ~Finish(t)
  <2>1. DOMAIN task' = Tasks /\ \A s \in Tasks : s # t => task'[s] = task[s]
    BY <1>2, <1>4 DEF ReadModes, ReadRows, StoreRow
  <2>2. /\ DOMAIN task'[t] = Fields
        /\ \A f \in Fields \ {"phase", "todo", "mode", "row"} : task'[t][f] = task[t][f]
        /\ task'[t].phase \in {"read", "store", "check"}
        /\ task'[t].phase = "check" => task[t].user \in Users
    <3>1. CASE ReadModes(t)
      BY <1>2, <3>1 DEF ReadModes, Fields
    <3>2. CASE ReadRows(t)
      <4>1. PICK m \in task[t].todo :
              task' = [task EXCEPT ![t].phase = "store", ![t].mode = m,
                                   ![t].row = RebuiltRow(task[t].pl, m)]
        BY <3>2 DEF ReadRows
      <4> QED BY <1>2, <4>1 DEF Fields
    <3>3. CASE StoreRow(t)
      <4> DEFINE rest == task[t].todo \ {task[t].mode}
      <4>1. CASE rest # {}
        <5>1. task' = [task EXCEPT ![t].todo = rest, ![t].row = NoRow, ![t].phase = "read"]
          BY <3>3, <4>1 DEF StoreRow
        <5> QED BY <1>2, <5>1 DEF Fields
      <4>2. CASE rest = {}
        <5>1. /\ task[t].user # NoUser
              /\ task' = [task EXCEPT ![t].todo = {}, ![t].row = NoRow, ![t].phase = "check"]
          BY <1>4, <3>3, <4>2 DEF StoreRow
        <5> QED BY <1>2, <5>1 DEF Fields
      <4> QED BY <4>1, <4>2
    <3> QED BY <3>1, <3>2, <3>3
  <2>3. /\ task'[t].user = task[t].user /\ task'[t].ch = task[t].ch
        /\ task'[t].md = task[t].md /\ task'[t].req = task[t].req
        /\ task'[t].pl = task[t].pl /\ task'[t].then = task[t].then
    BY <2>2 DEF Fields
  <2>4. TasksFit'
    BY <1>2, <2>1, <2>2, <2>3 DEF Inv, TasksFit, Phases
  <2>5. GuessesCanonical'
    BY <1>1, <2>1, <2>2 DEF Inv, GuessesCanonical
  <2> QED BY <1>1, <2>4, <2>5, QuietInv
<1> QED BY <1>3, <1>4

(* Hardcore access: neither guesses nor completions are written. *)
LEMMA AccessInv ==
  ASSUME Inv, NEW t \in Tasks, CheckAccess(t) \/ Grant(t)
  PROVE  Inv'
<1>1. UNCHANGED <<events, link, primary, done>>
  BY DEF CheckAccess, Grant, tables, accounts
<1>2. /\ task[t].user \in Users
      /\ task[t].then \in {"idle", "canonical"}
      /\ task[t].then = "canonical" =>
           /\ task[t].pl \in Players
           /\ task[t].ch \in Challenges /\ task[t].md \in Models /\ task[t].req \in Requests
  BY DEF CheckAccess, Grant, Inv, TasksFit
<1>3. \/ Finish(t)
      \/ Goto(t, "grant")
      \/ task[t].then = "canonical" /\ Goto(t, "canonical")
  BY <1>2 DEF CheckAccess, Grant
<1>4. TasksFit' /\ GuessesCanonical'
  BY <1>1, <1>2, <1>3, FinishFits, GotoFits DEF Inv, Phases
<1> QED BY <1>1, <1>4, QuietInv

-----------------------------------------------------------------------------
(* The guess transaction.                                                  *)

LEMMA VerdictReplay ==
  ASSUME NEW i, Verdict(i) = "REPLAY"
  PROVE  \E e \in events : SameGuess(e, i)
  BY DEF Verdict, Replay, SameRequest

(* One event of the player of the guess is added. *)
LEMMA AcceptInv ==
  ASSUME Inv, NEW i \in Input, Verdict(i) = "ACCEPT", AcceptGuess(i),
         UNCHANGED <<link, primary, done>>,
         i.user # NoUser => primary[i.user] = i.pl
  PROVE  /\ TablesFit' /\ Owned' /\ Marked' /\ UniqueGuesses' /\ CompletionsBacked'
         /\ NewEvent(i) \in Event /\ events' = events \cup {NewEvent(i)}
<1> DEFINE n == NewEvent(i)
<1>1. /\ n \in Event /\ n.req = i.req /\ n.ch = i.ch /\ n.pl = i.pl /\ n.user = i.user
      /\ n.md = i.md /\ n.ok = (n.md = Answer[n.ch])
  BY DEF NewEvent, Event, Input
<1>2. events' = events \cup {n}
  BY DEF AcceptGuess
<1> HIDE DEF n
<1>3. TablesFit' /\ Owned' /\ Marked'
  BY <1>1, <1>2 DEF Inv, TablesFit, Owned, Marked
<1>4. \A e \in events : e.req # n.req /\ ~SameGuess(e, n) /\ ~SameGuess(n, e)
  BY <1>1, AcceptedVerdict DEF InsertConflicts, SameGuess
<1>5. UniqueGuesses'
  BY <1>2, <1>4 DEF Inv, UniqueGuesses, SameGuess
<1>6. CompletionsBacked'
  BY <1>2 DEF Inv, CompletionsBacked, UserSolved
<1> QED BY <1>1, <1>2, <1>3, <1>5, <1>6 DEF n

LEMMA AfterGuessFits ==
  ASSUME Inv, UNCHANGED primary, NEW t \in Tasks, task[t].phase = "guess",
         NEW ok, AfterGuess(t, ok) \/ Finish(t)
  PROVE  TasksFit' /\ GuessesCanonical'
<1>1. CASE Finish(t)
  BY <1>1, FinishFits DEF Inv
<1>2. CASE ~Finish(t)
  <2>1. /\ task' = [task EXCEPT ![t].phase = "record", ![t].then = "idle"]
        /\ task[t].user # NoUser
    BY <1>2 DEF AfterGuess
  <2>2. /\ task[t].user \in Users /\ task[t].pl \in Players
        /\ task[t].ch \in Challenges /\ task[t].md \in Models /\ task[t].req \in Requests
        /\ DOMAIN task = Tasks /\ DOMAIN task[t] = Fields
    BY <2>1 DEF Inv, TasksFit
  <2>3. /\ DOMAIN task' = Tasks /\ \A s \in Tasks : s # t => task'[s] = task[s]
        /\ DOMAIN task'[t] = Fields /\ task'[t].phase = "record" /\ task'[t].then = "idle"
        /\ \A f \in Fields \ {"phase", "then"} : task'[t][f] = task[t][f]
    BY <2>1, <2>2 DEF Fields
  <2>4. /\ task'[t].user = task[t].user /\ task'[t].pl = task[t].pl /\ task'[t].ch = task[t].ch
        /\ task'[t].md = task[t].md /\ task'[t].req = task[t].req
    BY <2>3 DEF Fields
  <2>5. TasksFit'
    BY <2>2, <2>3, <2>4 DEF Inv, TasksFit, Phases
  <2>6. GuessesCanonical'
    BY <2>3 DEF Inv, GuessesCanonical
  <2> QED BY <2>5, <2>6
<1> QED BY <1>1, <1>2

LEMMA GuessFacts ==
  ASSUME Inv, NEW t \in Tasks, Guess(t)
  PROVE  \E num \in Attempts :
           LET i == GuessInput(t, num)
           IN  /\ i \in Input
               /\ i.user # NoUser => primary[i.user] = i.pl
               /\ \/ /\ Verdict(i) = "ACCEPT"
                     /\ AcceptGuess(i) /\ AfterGuess(t, NewEvent(i).ok)
                  \/ /\ Verdict(i) = "REPLAY"
                     /\ UNCHANGED tables /\ AfterGuess(t, i.md = Answer[i.ch])
                  \/ UNCHANGED tables /\ Finish(t)
<1>1. task[t].phase = "guess"
  BY DEF Guess
<1>2. PICK num \in Attempts :
        LET i == GuessInput(t, num)
            verdict == Verdict(i)
        IN  CASE verdict = "ACCEPT" -> AcceptGuess(i) /\ AfterGuess(t, NewEvent(i).ok)
              [] verdict = "REPLAY" -> /\ AfterGuess(t, i.md = Answer[i.ch])
                                       /\ UNCHANGED tables
              [] OTHER              -> Finish(t) /\ UNCHANGED tables
  BY DEF Guess
<1> DEFINE i == GuessInput(t, num)
<1>3. i \in Input /\ i.user = task[t].user /\ i.pl = task[t].pl
  BY <1>1 DEF GuessInput, Input, Inv, TasksFit
<1>4. i.user # NoUser => primary[i.user] = i.pl
  BY <1>1, <1>3 DEF Inv, GuessesCanonical
<1> HIDE DEF i
<1>5. \/ /\ Verdict(i) = "ACCEPT"
         /\ AcceptGuess(i) /\ AfterGuess(t, NewEvent(i).ok)
      \/ /\ Verdict(i) = "REPLAY"
         /\ UNCHANGED tables /\ AfterGuess(t, i.md = Answer[i.ch])
      \/ UNCHANGED tables /\ Finish(t)
  <2>1. CASE Verdict(i) = "ACCEPT"
    BY <1>2, <2>1 DEF i
  <2>2. CASE Verdict(i) = "REPLAY"
    BY <1>2, <2>2 DEF i
  <2>3. CASE Verdict(i) \notin {"ACCEPT", "REPLAY"}
    BY <1>2, <2>3 DEF i
  <2> QED BY <2>1, <2>2, <2>3
<1> QED BY <1>3, <1>4, <1>5 DEF i

LEMMA GuessInv ==
  ASSUME Inv, NEW t \in Tasks, Guess(t)
  PROVE  Inv'
<1>1. task[t].phase = "guess" /\ UNCHANGED <<link, primary, done>>
  BY DEF Guess, accounts
<1>2. PICK num \in Attempts :
        LET i == GuessInput(t, num)
        IN  /\ i \in Input
            /\ i.user # NoUser => primary[i.user] = i.pl
            /\ \/ /\ Verdict(i) = "ACCEPT"
                  /\ AcceptGuess(i) /\ AfterGuess(t, NewEvent(i).ok)
               \/ /\ Verdict(i) = "REPLAY"
                  /\ UNCHANGED tables /\ AfterGuess(t, i.md = Answer[i.ch])
               \/ UNCHANGED tables /\ Finish(t)
  BY GuessFacts
<1> DEFINE i == GuessInput(t, num)
<1> HIDE DEF i
<1>3. TasksFit' /\ GuessesCanonical'
  BY <1>1, <1>2, AfterGuessFits DEF i
<1>4. CASE UNCHANGED tables
  BY <1>1, <1>3, <1>4, QuietInv DEF tables
<1>5. CASE Verdict(i) = "ACCEPT" /\ AcceptGuess(i)
  <2>1. i \in Input /\ (i.user # NoUser => primary[i.user] = i.pl)
    BY <1>2 DEF i
  <2> QED BY <1>1, <1>3, <1>5, <2>1, AcceptInv DEF Inv
<1> QED BY <1>2, <1>4, <1>5 DEF i

-----------------------------------------------------------------------------
(* The record transaction and a moderator's removal.                       *)

(* The recorded player's guesses of the challenge become the account's:    *)
(* they belong to it or to nobody, because the player is its primary one.  *)
LEMMA RecordInv ==
  ASSUME Inv, NEW t \in Tasks, Record(t)
  PROVE  Inv'
<1> DEFINE u == task[t].user
           c == task[t].ch
           Claim(e) == IF e.ch = c /\ e.pl = primary[u] THEN [e EXCEPT !.user = u] ELSE e
<1>1. u \in Users /\ c \in Challenges
  BY DEF Record, Inv, TasksFit
<1>2. /\ events' = {Claim(e) : e \in events}
      /\ done' = RecordedFor(u, c, events')
      /\ Goto(t, "check")
      /\ UNCHANGED <<link, primary>>
  BY DEF Record
<1>3. TasksFit' /\ GuessesCanonical'
  BY <1>1, <1>2, GotoFits DEF Inv, Phases
<1>4. \A e \in events :
        /\ Claim(e) \in Event /\ Claim(e).req = e.req /\ Claim(e).ch = e.ch
        /\ Claim(e).pl = e.pl /\ Claim(e).md = e.md /\ Claim(e).ok = e.ok
        /\ Claim(e).user = IF e.ch = c /\ e.pl = primary[u] THEN u ELSE e.user
  BY <1>1 DEF Inv, TablesFit, Event
<1>5. \A e \in events : e.user # NoUser => Claim(e).user = e.user
  <2> SUFFICES ASSUME NEW e \in events, e.user # NoUser, e.ch = c, e.pl = primary[u]
               PROVE  e.user = u
    BY <1>4
  <2>1. e.user \in Users /\ e.pl \in Players
    BY DEF Inv, TablesFit, Event
  <2>2. link[primary[e.user]] = e.user /\ primary[e.user] = e.pl /\ link[primary[u]] = u
    BY <1>1, <2>1, AccountAssumption DEF Inv, Owned
  <2> QED BY <2>2
<1> HIDE DEF Claim
<1>6. Owned' /\ Marked'
  BY <1>1, <1>2, <1>4, <1>5 DEF Inv, Owned, Marked
<1>7. UniqueGuesses'
  BY <1>2, <1>4 DEF Inv, UniqueGuesses, SameGuess
<1>8. CompletionsBacked'
  <2> SUFFICES ASSUME NEW d \in done' PROVE \E e \in events' : e.user = d[1] /\ e.ch = d[2] /\ e.ok
    BY DEF CompletionsBacked, UserSolved
  <2>1. CASE d \in done
    <3>1. PICK e \in events : e.user = d[1] /\ e.ch = d[2] /\ e.ok
      BY <2>1 DEF Inv, CompletionsBacked, UserSolved
    <3>2. d[1] # NoUser
      BY <2>1, TablesAssumption DEF Inv, TablesFit
    <3> QED BY <1>2, <1>4, <1>5, <3>1, <3>2
  <2>2. CASE d \notin done
    BY <1>2, <2>2 DEF RecordedFor
  <2> QED BY <2>1, <2>2
<1>9. TablesFit'
  BY <1>1, <1>2, <1>4 DEF Inv, TablesFit, RecordedFor
<1> QED BY <1>3, <1>6, <1>7, <1>8, <1>9 DEF Inv

LEMMA RemoveInv ==
  ASSUME Inv, NEW t \in Tasks, NEW e \in events, RemoveGuess(t, e)
  PROVE  Inv'
<1> DEFINE u == e.user
           left == events \ {e}
<1>1. /\ events' = left
      /\ done' = IF \E f \in left : f.user = u /\ f.ch = e.ch /\ f.ok
                   THEN done ELSE done \ {<<u, e.ch>>}
      /\ task' = [task EXCEPT ![t] = [NoTask EXCEPT !.phase = "read", !.pl = e.pl,
                                                    !.todo = {Mode[e.ch]}]]
      /\ UNCHANGED <<link, primary>>
  BY DEF RemoveGuess
<1>2. DOMAIN task' = Tasks /\ \A s \in Tasks : s # t => task'[s] = task[s]
  BY <1>1 DEF Inv, TasksFit
<1>3. /\ DOMAIN task'[t] = Fields /\ task'[t].phase = "read" /\ task'[t].then = "idle"
      /\ task'[t].user = NoUser
  BY <1>1 DEF Inv, TasksFit, NoTask, Fields
<1>4. TasksFit' /\ GuessesCanonical'
  BY <1>1, <1>2, <1>3 DEF Inv, TasksFit, GuessesCanonical, Phases
<1>5. TablesFit' /\ Owned' /\ Marked' /\ UniqueGuesses'
  BY <1>1 DEF Inv, TablesFit, Owned, Marked, UniqueGuesses, SameGuess
<1>6. CompletionsBacked'
  <2> SUFFICES ASSUME NEW d \in done' PROVE \E f \in left : f.user = d[1] /\ f.ch = d[2] /\ f.ok
    BY <1>1 DEF CompletionsBacked, UserSolved
  <2>1. d \in done /\ d \in Users \X Challenges
    BY <1>1 DEF Inv, TablesFit
  <2>2. PICK f \in events : f.user = d[1] /\ f.ch = d[2] /\ f.ok
    BY <2>1 DEF Inv, CompletionsBacked, UserSolved
  <2>3. CASE f # e
    BY <2>2, <2>3
  <2>4. CASE f = e
    <3>1. d = <<u, e.ch>>
      BY <2>1, <2>2, <2>4
    <3> QED BY <1>1, <3>1
  <2> QED BY <2>3, <2>4
<1> QED BY <1>4, <1>5, <1>6 DEF Inv

-----------------------------------------------------------------------------
(* The merge, guess by guess: which guesses are left, and what becomes of  *)
(* them.                                                                   *)

Left(e, p, q) ==
  \/ e.pl # p \/ p = q
  \/ ~ \E f \in events : f.pl = q /\ f.ch = e.ch /\ f.md = e.md

AfterSync(e, u, p, q) == IF e.pl = p THEN [e EXCEPT !.user = u, !.pl = q] ELSE e

(* A guess of the device that belongs to an account belongs to this one,   *)
(* and then the device is the account's primary player.                    *)
LEMMA DeviceGuesses ==
  ASSUME Inv, NEW u \in Users, NEW p \in Players, ~LinkedElsewhere(u, p),
         NEW e \in events, e.pl = p, e.user # NoUser
  PROVE  e.user = u /\ PrimaryFor(u, p) = p
<1>1. e.user \in Users
  BY DEF Inv, TablesFit, Event
<1>2. primary[e.user] = p /\ link[p] = e.user
  BY <1>1, AccountAssumption DEF Inv, Owned
<1> QED BY <1>1, <1>2, TablesAssumption, AccountAssumption DEF LinkedElsewhere, PrimaryFor

LEMMA MergeGuesses ==
  ASSUME Inv, NEW u \in Users, NEW p \in Players, ~LinkedElsewhere(u, p)
  PROVE  LET q == PrimaryFor(u, p)
             evs == Merged(Claimed(u, p), p, q)
         IN  /\ q \in Players
             /\ \A e \in events : Left(e, p, q) => AfterSync(e, u, p, q) \in evs
             /\ \A x \in evs : \E e \in events : Left(e, p, q) /\ x = AfterSync(e, u, p, q)
<1> DEFINE q == PrimaryFor(u, p)
           Claim(e) == IF e.pl = p /\ e.user = NoUser THEN [e EXCEPT !.user = u] ELSE e
           Move(e) == IF e.pl = p THEN [e EXCEPT !.pl = q] ELSE e
           claimed == {Claim(e) : e \in events}
           duplicate(e) == /\ e.pl = p /\ p # q
                           /\ \E f \in claimed : f.pl = q /\ f.ch = e.ch /\ f.md = e.md
<1>1. q \in Players
  BY DEF PrimaryFor, Inv, TablesFit
<1>2. \A e \in events :
        /\ Claim(e) \in Event /\ Claim(e).pl = e.pl /\ Claim(e).ch = e.ch /\ Claim(e).md = e.md
        /\ Claim(e) = IF e.pl = p THEN [e EXCEPT !.user = u] ELSE e
  <2> TAKE e \in events
  <2>1. e \in Event
    BY DEF Inv, TablesFit
  <2>2. e.pl = p /\ e.user # NoUser => e = [e EXCEPT !.user = u]
    BY <2>1, DeviceGuesses DEF Event
  <2> QED BY <2>1, <2>2 DEF Event
<1>3. \A e \in events : duplicate(Claim(e)) <=> ~Left(e, p, q)
  BY <1>2 DEF Left
<1>4. \A e \in events : Move(Claim(e)) = AfterSync(e, u, p, q)
  BY <1>1, <1>2 DEF AfterSync, Inv, TablesFit, Event
<1>5. Merged(Claimed(u, p), p, q) = {Move(x) : x \in {x \in claimed : ~duplicate(x)}}
  BY DEF Merged, Claimed
<1> HIDE DEF q, Claim, Move, duplicate
<1>6. \A e \in events : Left(e, p, q) => AfterSync(e, u, p, q) \in Merged(Claimed(u, p), p, q)
  BY <1>3, <1>4, <1>5
<1>7. \A x \in Merged(Claimed(u, p), p, q) :
        \E e \in events : Left(e, p, q) /\ x = AfterSync(e, u, p, q)
  BY <1>3, <1>4, <1>5
<1> QED BY <1>1, <1>6, <1>7 DEF q

LEMMA SyncFits ==
  ASSUME Inv, NEW t \in Tasks, task[t].phase = "sync",
         NEW q \in Players, NEW phase \in {"check", "modes"},
         task' = [task EXCEPT ![t].phase = phase, ![t].pl = q]
  PROVE  TasksFit'
<1>1. /\ task[t].user \in Users /\ DOMAIN task = Tasks /\ DOMAIN task[t] = Fields
      /\ task[t].then \in {"idle", "canonical"}
      /\ task[t].then = "canonical" =>
           task[t].ch \in Challenges /\ task[t].md \in Models /\ task[t].req \in Requests
  BY DEF Inv, TasksFit
<1>2. /\ DOMAIN task' = Tasks /\ \A s \in Tasks : s # t => task'[s] = task[s]
      /\ DOMAIN task'[t] = Fields /\ task'[t].phase = phase /\ task'[t].pl = q
      /\ \A f \in Fields \ {"phase", "pl"} : task'[t][f] = task[t][f]
  BY <1>1 DEF Fields
<1>3. /\ task'[t].user = task[t].user /\ task'[t].ch = task[t].ch /\ task'[t].md = task[t].md
      /\ task'[t].req = task[t].req /\ task'[t].then = task[t].then
  BY <1>2 DEF Fields
<1> QED BY <1>1, <1>2, <1>3 DEF Inv, TasksFit, Phases

LEMMA SyncInv ==
  ASSUME Inv, NEW t \in Tasks, Sync(t)
  PROVE  Inv'
<1> DEFINE u == task[t].user
           p == task[t].pl
           q == PrimaryFor(u, p)
<1>1. task[t].phase = "sync" /\ u \in Users /\ p \in Players
  BY DEF Sync, Inv, TasksFit
<1>2. CASE LinkedElsewhere(u, p)
  BY <1>2, FailInv DEF Sync
<1>3. CASE ~LinkedElsewhere(u, p)
  <2>1. /\ SyncTables(u, p)
        /\ task' = [task EXCEPT ![t].phase = IF p = q THEN "check" ELSE "modes", ![t].pl = q]
    BY <1>3 DEF Sync
  <2>2. /\ link' = [link EXCEPT ![p] = u]
        /\ primary' = [primary EXCEPT ![u] = q]
        /\ events' = Merged(Claimed(u, p), p, q)
        /\ \A d \in done' : d \in done \/ \E e \in events' : d = <<u, e.ch>> /\ e.user = u /\ e.ok
        /\ done' \subseteq done \cup {<<u, e.ch>> : e \in events'}
    BY <2>1 DEF SyncTables
  <2>3. /\ q \in Players
        /\ \A e \in events : Left(e, p, q) => AfterSync(e, u, p, q) \in events'
        /\ \A x \in events' : \E e \in events : Left(e, p, q) /\ x = AfterSync(e, u, p, q)
    BY <1>1, <1>3, <2>2, MergeGuesses
  <2>4. \A e \in events :
          LET x == AfterSync(e, u, p, q)
          IN  /\ x \in Event /\ x.req = e.req /\ x.ch = e.ch /\ x.md = e.md /\ x.ok = e.ok
              /\ x.pl = IF e.pl = p THEN q ELSE e.pl
              /\ x.user = IF e.pl = p THEN u ELSE e.user
    <3> TAKE e \in events
    <3>1. e \in Event /\ u \in Users \cup {NoUser} /\ q \in Players
      BY <1>1, <2>3 DEF Inv, TablesFit
    <3> HIDE DEF u, p, q
    <3> QED BY <3>1 DEF AfterSync, Event
  <2>5. /\ primary[u] # NoPlayer => primary[u] = q
        /\ primary'[u] = q /\ link'[p] = u
        /\ \A v \in Users : v # u => primary'[v] = primary[v]
        /\ \A r \in Players : r # p => link'[r] = link[r]
        /\ link[p] \in {u, NoUser}
        /\ primary[u] = NoPlayer => q = p
    BY <1>1, <1>3, <2>2 DEF PrimaryFor, LinkedElsewhere, Inv, TablesFit
  <2>6. TablesFit'
    BY <1>1, <2>2, <2>3, <2>4 DEF Inv, TablesFit, Event
  <2>7. \A v \in Users : primary'[v] # NoPlayer => link'[primary'[v]] = v
    <3> SUFFICES ASSUME NEW v \in Users, primary'[v] # NoPlayer PROVE link'[primary'[v]] = v
      OBVIOUS
    <3>1. CASE v = u
      BY <1>1, <2>3, <2>5, <3>1, AccountAssumption DEF Inv, Owned
    <3>2. CASE v # u
      <4>1. primary'[v] = primary[v] /\ primary[v] \in Players /\ link[primary[v]] = v
        BY <2>5, <3>2 DEF Inv, Owned, TablesFit
      <4> QED BY <1>1, <2>5, <3>2, <4>1, TablesAssumption
    <3> QED BY <3>1, <3>2
  <2>8. \A x \in events' : x.user # NoUser => primary'[x.user] = x.pl
    <3> SUFFICES ASSUME NEW e \in events, AfterSync(e, u, p, q).user # NoUser
                 PROVE  primary'[AfterSync(e, u, p, q).user] = AfterSync(e, u, p, q).pl
      BY <2>3
    <3>1. CASE e.pl = p
      BY <2>4, <2>5, <3>1
    <3>2. CASE e.pl # p
      <4>1. e.user \in Users /\ primary[e.user] = e.pl /\ e.pl # NoPlayer
        BY <2>4, <3>2, AccountAssumption DEF Inv, Owned, TablesFit, Event
      <4> QED BY <2>4, <2>5, <3>2, <4>1
    <3> QED BY <3>1, <3>2
  <2>9. Owned'
    BY <2>7, <2>8 DEF Owned
  <2>10. Marked'
    BY <2>3, <2>4 DEF Inv, Marked
  <2>11. UniqueGuesses'
    <3> SUFFICES ASSUME NEW x \in events', NEW y \in events', x.req = y.req \/ SameGuess(x, y)
                 PROVE  x = y
      BY DEF UniqueGuesses
    <3>1. PICK e \in events : Left(e, p, q) /\ x = AfterSync(e, u, p, q)
      BY <2>3
    <3>2. PICK f \in events : Left(f, p, q) /\ y = AfterSync(f, u, p, q)
      BY <2>3
    <3>3. CASE x.req = y.req
      BY <2>4, <3>1, <3>2, <3>3 DEF Inv, UniqueGuesses
    <3>4. CASE SameGuess(x, y)
      <4>1. e.ch = f.ch /\ e.md = f.md
        BY <2>4, <3>1, <3>2, <3>4 DEF SameGuess
      <4>2. e.pl = f.pl
        <5>1. (IF e.pl = p THEN q ELSE e.pl) = (IF f.pl = p THEN q ELSE f.pl)
          BY <2>4, <3>1, <3>2, <3>4 DEF SameGuess
        <5> QED BY <3>1, <3>2, <4>1, <5>1 DEF Left
      <4> QED BY <3>1, <3>2, <4>1, <4>2 DEF Inv, UniqueGuesses, SameGuess
    <3> QED BY <3>3, <3>4
  <2>12. CompletionsBacked'
    <3> SUFFICES ASSUME NEW d \in done'
                 PROVE  \E x \in events' : x.user = d[1] /\ x.ch = d[2] /\ x.ok
      BY DEF CompletionsBacked, UserSolved
    <3>1. CASE d \in done
      <4>1. PICK e \in events : e.user = d[1] /\ e.ch = d[2] /\ e.ok
        BY <3>1 DEF Inv, CompletionsBacked, UserSolved
      <4>2. e.user # NoUser
        BY <3>1, <4>1, TablesAssumption DEF Inv, TablesFit
      <4>3. e.pl = p => e.user = u /\ q = p
        BY <1>1, <1>3, <4>2, DeviceGuesses
      <4>4. Left(e, p, q)
        BY <4>3 DEF Left
      <4> QED BY <2>3, <2>4, <4>1, <4>3, <4>4
    <3>2. CASE d \notin done
      BY <2>2, <3>2
    <3> QED BY <3>1, <3>2
  <2>13. TasksFit'
    BY <1>1, <2>1, <2>3, SyncFits
  <2>14. GuessesCanonical'
    <3>1. /\ \A s \in Tasks : s # t => task'[s] = task[s]
          /\ task'[t].phase # "guess"
      BY <1>1, <2>1 DEF Inv, TasksFit, Fields
    <3> SUFFICES ASSUME NEW s \in Tasks, s # t, task[s].phase = "guess", task[s].user # NoUser
                 PROVE  task[s].pl = primary'[task[s].user]
      BY <3>1 DEF GuessesCanonical
    <3>2. /\ task[s].user \in Users /\ task[s].pl \in Players
          /\ task[s].pl = primary[task[s].user]
      BY DEF Inv, TasksFit, GuessesCanonical
    <3> QED BY <2>5, <3>2, AccountAssumption
  <2> QED BY <2>6, <2>9, <2>10, <2>11, <2>12, <2>13, <2>14 DEF Inv
<1> QED BY <1>2, <1>3

-----------------------------------------------------------------------------
LEMMA StutterInv == Inv /\ UNCHANGED vars => Inv'
<1> SUFFICES ASSUME Inv, UNCHANGED vars PROVE Inv'
  OBVIOUS
<1>1. UNCHANGED <<events, link, primary, done, task>>
  BY DEF vars, tables, accounts
<1>2. TasksFit' /\ GuessesCanonical'
  BY <1>1 DEF Inv, TasksFit, GuessesCanonical
<1> QED BY <1>1, <1>2, QuietInv

LEMMA NextInv == Inv /\ [Next]_vars => Inv'
<1> SUFFICES ASSUME Inv, [Next]_vars PROVE Inv'
  OBVIOUS
<1>1. CASE UNCHANGED vars
  BY <1>1, StutterInv
<1>2. CASE Next
  <2>1. PICK t \in Tasks : Request(t) \/ Step(t) \/ Drop(t)
    BY <1>2 DEF Next
  <2>2. CASE Request(t)
    BY <2>2, StartGuessInv, StartSyncInv, StartAccessInv, RemoveInv DEF Request
  <2>3. CASE Step(t)
    BY <2>3, SyncInv, RebuildInv, AccessInv, CanonicalInv, GuessInv, RecordInv DEF Step
  <2>4. CASE Drop(t)
    BY <2>4, FailInv DEF Drop
  <2> QED BY <2>1, <2>2, <2>3, <2>4
<1> QED BY <1>1, <1>2

(* The invariant holds in every state the handlers of progress.rs and      *)
(* admin.rs reach.                                                         *)
THEOREM InvAlways == Spec => []Inv
  BY InitInv, NextInv, PTL DEF Spec

(* A guess belongs to an account only through a link of its player, for    *)
(* any number of accounts, devices and handlers: synchronize refuses a     *)
(* device of another account, and a signed-in guess goes to the primary    *)
(* player.                                                                 *)
THEOREM EventsOwnedAlways == Spec => []EventsOwned
<1>1. Inv => EventsOwned
  <2> SUFFICES ASSUME Inv, NEW e \in events, e.user # NoUser PROVE link[e.pl] = e.user
    BY DEF EventsOwned
  <2>1. e.user \in Users /\ e.pl \in Players
    BY DEF Inv, TablesFit, Event
  <2> QED BY <2>1, AccountAssumption DEF Inv, Owned
<1> QED BY <1>1, InvAlways, PTL

(* A recorded completion of an account keeps a stored correct guess of the *)
(* account behind it, through guesses, merges, records and removals.       *)
THEOREM CompletionsBackedAlways == Spec => []CompletionsBacked
<1>1. Inv => CompletionsBacked
  BY DEF Inv
<1> QED BY <1>1, InvAlways, PTL

(* No two stored guesses share a request id, or a player, a challenge and  *)
(* a model, also after one player's guesses are moved to another.          *)
THEOREM UniqueGuessesAlways == Spec => []UniqueGuesses
<1>1. Inv => UniqueGuesses
  BY DEF Inv
<1> QED BY <1>1, InvAlways, PTL

-----------------------------------------------------------------------------
(* Hardcore access, while no guess is removed.  A handler that is about to *)
(* record a completion has a solve of the account's primary player behind  *)
(* it, which no merge takes away: so every category stored for an account  *)
(* comes with a completion, and so does what a handler has counted.        *)

Backed(u, g, ds) == \E d \in ds : d[1] = u /\ Category[d[2]] = g

SolvedBy(c, p, evs) == \E e \in evs : e.ch = c /\ e.pl = p /\ e.ok

Earned ==
  /\ \A g \in progress : Backed(g[1], g[2], done)
  /\ \A t \in Tasks :
       task[t].phase = "record" => SolvedBy(task[t].ch, primary[task[t].user], events)
  /\ \A t \in Tasks :
       task[t].phase = "grant" => \A g \in Categories : Backed(task[t].user, g, done)
  /\ UnlockEarned

LEMMA InitEarned == Init => Earned
  BY DEF Init, TablesInit, Earned, UnlockEarned, NoTask

LEMMA StepEarned ==
  ASSUME Inv, Earned, done \subseteq done',
         \A u \in Users, c \in Challenges :
           SolvedBy(c, primary[u], events) => SolvedBy(c, primary'[u], events'),
         \A g \in progress' : g \in progress \/ Backed(g[1], g[2], done'),
         \A s \in Tasks : task'[s].phase = "record" =>
           \/ /\ task[s].phase = "record"
              /\ task'[s].user = task[s].user /\ task'[s].ch = task[s].ch
           \/ SolvedBy(task'[s].ch, primary'[task'[s].user], events'),
         \A s \in Tasks : task'[s].phase = "grant" =>
           \/ task[s].phase = "grant" /\ task'[s].user = task[s].user
           \/ \A g \in Categories : Backed(task'[s].user, g, done'),
         \A u \in unlocked' : u \in unlocked \/ \A g \in Categories : Backed(u, g, done')
  PROVE  Earned'
<1>1. \A u, g : Backed(u, g, done) => Backed(u, g, done')
  BY DEF Backed
<1>2. \A g \in progress' : Backed(g[1], g[2], done')
  BY <1>1 DEF Earned
<1>3. \A s \in Tasks :
        task'[s].phase = "record" => SolvedBy(task'[s].ch, primary'[task'[s].user], events')
  BY DEF Earned, Inv, TasksFit
<1>4. \A s \in Tasks :
        task'[s].phase = "grant" => \A g \in Categories : Backed(task'[s].user, g, done')
  BY <1>1 DEF Earned
<1>5. \A u \in unlocked' : \A g \in Categories : Backed(u, g, done')
  BY <1>1 DEF Earned, UnlockEarned, Backed
<1> QED BY <1>2, <1>3, <1>4, <1>5 DEF Earned, UnlockEarned, Backed

(* A step that changes no more than its own handler, and neither records   *)
(* nor grants next.                                                        *)
LEMMA OwnStepEarned ==
  ASSUME Inv, Earned, NEW t \in Tasks,
         UNCHANGED <<events, primary, done, progress, unlocked>>,
         \A s \in Tasks : s # t => task'[s] = task[s],
         task'[t].phase \notin {"record", "grant"}
  PROVE  Earned'
  BY StepEarned DEF SolvedBy

LEMMA RequestEarned ==
  ASSUME Inv, Earned, MayModerate = FALSE, NEW t \in Tasks, Request(t)
  PROVE  Earned'
<1>1. UNCHANGED <<events, primary, done, progress, unlocked>>
  BY DEF Request, StartGuess, StartSync, StartAccess, tables, accounts
<1>2. \A s \in Tasks : s # t => task'[s] = task[s]
  BY DEF Request, StartGuess, StartSync, StartAccess, Inv, TasksFit
<1>3. task'[t].phase \in {"guess", "canonical", "sync", "check"}
  <2>1. DOMAIN task = Tasks
    BY DEF Inv, TasksFit
  <2>2. ASSUME NEW u, NEW p, NEW c, NEW m, NEW r, StartGuess(t, u, p, c, m, r)
        PROVE  task'[t].phase \in {"guess", "canonical"}
    BY <2>1, <2>2 DEF StartGuess, NoTask
  <2>3. ASSUME NEW u, NEW p, StartSync(t, u, p)
        PROVE  task'[t].phase = "sync"
    BY <2>1, <2>3 DEF StartSync, NoTask
  <2>4. ASSUME NEW u, StartAccess(t, u)
        PROVE  task'[t].phase = "check"
    BY <2>1, <2>4 DEF StartAccess, NoTask
  <2> QED BY <2>2, <2>3, <2>4 DEF Request
<1> QED BY <1>1, <1>2, <1>3, OwnStepEarned

LEMMA FailEarned ==
  ASSUME Inv, Earned, NEW t \in Tasks, Fail(t)
  PROVE  Earned'
<1>1. \A s \in Tasks : task'[s] = IF s = t THEN NoTask ELSE task[s]
  BY DEF Fail, Finish, Inv, TasksFit
<1>2. UNCHANGED <<events, primary, done, progress, unlocked>>
  BY DEF Fail, tables, accounts
<1> QED BY <1>1, <1>2, OwnStepEarned DEF NoTask

LEMMA RebuildEarned ==
  ASSUME Inv, Earned, NEW t \in Tasks,
         Canonical(t) \/ ReadModes(t) \/ ReadRows(t) \/ StoreRow(t)
  PROVE  Earned'
<1>1. UNCHANGED <<events, primary, done, progress, unlocked>>
  BY DEF Canonical, ReadModes, ReadRows, StoreRow, tables, accounts
<1>2. DOMAIN task = Tasks /\ DOMAIN task[t] = Fields
  BY DEF Inv, TasksFit
<1>3. \A s \in Tasks : s # t => task'[s] = task[s]
  <2>1. CASE Canonical(t) \/ ReadModes(t) \/ ReadRows(t)
    BY <1>2, <2>1 DEF Canonical, ReadModes, ReadRows
  <2>2. CASE StoreRow(t)
    BY <1>2, <2>2 DEF StoreRow, Finish
  <2> QED BY <2>1, <2>2
<1>4. task'[t].phase \notin {"record", "grant"}
  <2>1. CASE Canonical(t)
    BY <1>2, <2>1 DEF Canonical, Fields
  <2>2. CASE ReadModes(t)
    BY <1>2, <2>2 DEF ReadModes, Fields
  <2>3. CASE ReadRows(t)
    <3>1. PICK m \in task[t].todo :
            task' = [task EXCEPT ![t].phase = "store", ![t].mode = m,
                                 ![t].row = RebuiltRow(task[t].pl, m)]
      BY <2>3 DEF ReadRows
    <3> QED BY <1>2, <3>1 DEF Fields
  <2>4. CASE StoreRow(t)
    <3> DEFINE rest == task[t].todo \ {task[t].mode}
    <3>1. \/ task' = [task EXCEPT ![t].todo = rest, ![t].row = NoRow, ![t].phase = "read"]
          \/ task' = [task EXCEPT ![t].todo = {}, ![t].row = NoRow, ![t].phase = "check"]
          \/ task' = [task EXCEPT ![t] = NoTask]
      BY <2>4 DEF StoreRow, Finish
    <3>2. CASE task' = [task EXCEPT ![t].todo = rest, ![t].row = NoRow, ![t].phase = "read"]
      BY <1>2, <3>2 DEF Fields
    <3>3. CASE task' = [task EXCEPT ![t].todo = {}, ![t].row = NoRow, ![t].phase = "check"]
      BY <1>2, <3>3 DEF Fields
    <3>4. CASE task' = [task EXCEPT ![t] = NoTask]
      BY <1>2, <3>4 DEF NoTask
    <3> QED BY <3>1, <3>2, <3>3, <3>4
  <2> QED BY <2>1, <2>2, <2>3, <2>4
<1> QED BY <1>1, <1>3, <1>4, OwnStepEarned

LEMMA AccessEarned ==
  ASSUME Inv, Earned, NEW t \in Tasks, CheckAccess(t) \/ Grant(t)
  PROVE  Earned'
<1>1. UNCHANGED <<events, primary, done, progress>>
  BY DEF CheckAccess, Grant, tables, accounts
<1>2. DOMAIN task = Tasks /\ DOMAIN task[t] = Fields /\ task[t].then \in {"idle", "canonical"}
  BY DEF Inv, TasksFit
<1>3. \A s \in Tasks : s # t => task'[s] = task[s]
  BY <1>2 DEF CheckAccess, Grant, Finish, Goto
<1>4. CASE CheckAccess(t)
  <2>1. UNCHANGED unlocked
    BY <1>4 DEF CheckAccess, accounts
  <2>2. \/ /\ \A g \in Categories : <<task[t].user, g>> \in progress
           /\ task' = [task EXCEPT ![t].phase = "grant"]
        \/ task' = [task EXCEPT ![t] = NoTask]
        \/ task[t].then = "canonical" /\ task' = [task EXCEPT ![t].phase = "canonical"]
    BY <1>2, <1>4 DEF CheckAccess, Finish, Goto
  <2>3. \/ /\ \A g \in Categories : Backed(task[t].user, g, done)
           /\ task'[t].phase = "grant" /\ task'[t].user = task[t].user
        \/ task'[t].phase \in {"idle", "canonical"}
    <3>1. CASE /\ \A g \in Categories : <<task[t].user, g>> \in progress
               /\ task' = [task EXCEPT ![t].phase = "grant"]
      <4>1. task'[t].phase = "grant" /\ task'[t].user = task[t].user
        BY <1>2, <3>1 DEF Fields
      <4>2. \A g \in Categories : Backed(task[t].user, g, done)
        BY <3>1 DEF Earned
      <4> QED BY <4>1, <4>2
    <3>2. CASE task' = [task EXCEPT ![t] = NoTask]
      BY <1>2, <3>2 DEF NoTask
    <3>3. CASE task' = [task EXCEPT ![t].phase = "canonical"]
      BY <1>2, <3>3 DEF Fields
    <3> QED BY <2>2, <3>1, <3>2, <3>3
  <2> QED BY <1>1, <1>3, <2>1, <2>3, StepEarned DEF SolvedBy
<1>5. CASE Grant(t)
  <2>1. unlocked' = unlocked \cup {task[t].user} /\ task[t].phase = "grant"
    BY <1>5 DEF Grant
  <2>2. \/ task' = [task EXCEPT ![t] = NoTask]
        \/ task[t].then = "canonical" /\ task' = [task EXCEPT ![t].phase = "canonical"]
    BY <1>2, <1>5 DEF Grant, Finish, Goto
  <2>3. task'[t].phase \in {"idle", "canonical"}
    <3>1. CASE task' = [task EXCEPT ![t] = NoTask]
      BY <1>2, <3>1 DEF NoTask
    <3>2. CASE task' = [task EXCEPT ![t].phase = "canonical"]
      BY <1>2, <3>2 DEF Fields
    <3> QED BY <2>2, <3>1, <3>2
  <2>4. \A g \in Categories : Backed(task[t].user, g, done')
    BY <1>1, <2>1 DEF Earned
  <2> QED BY <1>1, <1>3, <2>1, <2>3, <2>4, StepEarned DEF SolvedBy
<1> QED BY <1>4, <1>5

LEMMA GuessEarned ==
  ASSUME Inv, Inv', Earned, NEW t \in Tasks, Guess(t)
  PROVE  Earned'
<1>1. UNCHANGED <<primary, done, progress, unlocked>> /\ task[t].phase = "guess"
  BY DEF Guess, accounts
<1>2. PICK num \in Attempts :
        LET i == GuessInput(t, num)
        IN  /\ i \in Input
            /\ i.user # NoUser => primary[i.user] = i.pl
            /\ \/ /\ Verdict(i) = "ACCEPT"
                  /\ AcceptGuess(i) /\ AfterGuess(t, NewEvent(i).ok)
               \/ /\ Verdict(i) = "REPLAY"
                  /\ UNCHANGED tables /\ AfterGuess(t, i.md = Answer[i.ch])
               \/ UNCHANGED tables /\ Finish(t)
  BY GuessFacts
<1> DEFINE i == GuessInput(t, num)
<1>3. i.user = task[t].user /\ i.pl = task[t].pl /\ i.ch = task[t].ch /\ i.md = task[t].md
  BY DEF GuessInput
<1> HIDE DEF i
<1>4. events' = events \/ events' = events \cup {NewEvent(i)}
  BY <1>2 DEF tables, AcceptGuess, i
<1>5. DOMAIN task = Tasks /\ DOMAIN task[t] = Fields
  BY DEF Inv, TasksFit
<1>6. \A s \in Tasks : s # t => task'[s] = task[s]
  BY <1>2, <1>5 DEF AfterGuess, Finish, i
<1>7. \/ task'[t].phase = "idle"
      \/ /\ task'[t].phase = "record" /\ task'[t].user = i.user /\ task'[t].ch = i.ch
         /\ i.user # NoUser
         /\ SolvedBy(i.ch, i.pl, events')
  <2>1. CASE Finish(t)
    BY <1>5, <2>1 DEF Finish, NoTask
  <2>2. ASSUME NEW ok, AfterGuess(t, ok), ~Finish(t)
        PROVE  /\ ok /\ i.user # NoUser
               /\ task'[t].phase = "record" /\ task'[t].user = i.user /\ task'[t].ch = i.ch
    BY <1>3, <1>5, <2>2 DEF AfterGuess, Fields
  <2>3. CASE ~Finish(t) /\ AcceptGuess(i) /\ AfterGuess(t, NewEvent(i).ok)
    <3>1. NewEvent(i).ok /\ NewEvent(i) \in events'
      BY <2>2, <2>3 DEF AcceptGuess
    <3>2. NewEvent(i).ch = i.ch /\ NewEvent(i).pl = i.pl
      BY DEF NewEvent
    <3>3. SolvedBy(i.ch, i.pl, events')
      BY <3>1, <3>2 DEF SolvedBy
    <3> QED BY <2>2, <2>3, <3>3
  <2>4. CASE /\ ~Finish(t) /\ Verdict(i) = "REPLAY" /\ UNCHANGED tables
             /\ AfterGuess(t, i.md = Answer[i.ch])
    <3>1. i.md = Answer[i.ch]
      BY <2>2, <2>4
    <3>2. PICK e \in events : SameGuess(e, i)
      BY <2>4, VerdictReplay
    <3>3. e.ok /\ e \in events' /\ e.ch = i.ch /\ e.pl = i.pl
      BY <2>4, <3>1, <3>2 DEF Inv, Marked, SameGuess, tables
    <3>4. SolvedBy(i.ch, i.pl, events')
      BY <3>3 DEF SolvedBy
    <3> QED BY <2>2, <2>4, <3>4
  <2> QED BY <1>2, <2>1, <2>3, <2>4 DEF i
<1>8. i.user # NoUser => i.pl = primary'[i.user]
  BY <1>1, <1>2 DEF i
<1>9. \A u \in Users, c \in Challenges :
        SolvedBy(c, primary[u], events) => SolvedBy(c, primary'[u], events')
  BY <1>1, <1>4 DEF SolvedBy
<1> QED BY <1>1, <1>6, <1>7, <1>8, <1>9, StepEarned

LEMMA RecordEarned ==
  ASSUME Inv, Earned, NEW t \in Tasks, Record(t)
  PROVE  Earned'
<1> DEFINE u == task[t].user
           c == task[t].ch
           Claim(e) == IF e.ch = c /\ e.pl = primary[u] THEN [e EXCEPT !.user = u] ELSE e
<1>1. u \in Users /\ c \in Challenges /\ task[t].phase = "record"
  BY DEF Record, Inv, TasksFit
<1>2. /\ events' = {Claim(e) : e \in events}
      /\ done' = RecordedFor(u, c, events')
      /\ progress' = progress \cup CategoriesOf(u, {<<u, c>>})
      /\ Goto(t, "check")
      /\ UNCHANGED <<primary, unlocked>>
  BY DEF Record
<1>3. \A e \in events :
        /\ Claim(e).ch = e.ch /\ Claim(e).pl = e.pl /\ Claim(e).ok = e.ok
        /\ e.ch = c /\ e.pl = primary[u] => Claim(e).user = u
  BY DEF Inv, TablesFit, Event
<1> HIDE DEF Claim
<1>4. \A v \in Users, d \in Challenges :
        SolvedBy(d, primary[v], events) => SolvedBy(d, primary'[v], events')
  BY <1>2, <1>3 DEF SolvedBy
<1>5. PICK e \in events : e.ch = c /\ e.pl = primary[u] /\ e.ok
  BY <1>1 DEF Earned, SolvedBy
<1>6. done' = done \cup {<<u, c>>}
  BY <1>2, <1>3, <1>5 DEF RecordedFor
<1>7. \A g \in progress' : g \in progress \/ Backed(g[1], g[2], done')
  BY <1>2, <1>6 DEF CategoriesOf, Backed
<1>8. DOMAIN task = Tasks /\ DOMAIN task[t] = Fields
  BY DEF Inv, TasksFit
<1>9. /\ \A s \in Tasks : s # t => task'[s] = task[s]
      /\ task'[t].phase = "check"
  BY <1>2, <1>8 DEF Goto, Fields
<1> QED BY <1>2, <1>4, <1>6, <1>7, <1>9, StepEarned

(* What an account's primary player has solved it keeps: it is not merged  *)
(* into another player, because it is linked to the account.               *)
LEMMA SyncEarned ==
  ASSUME Inv, Earned, NEW t \in Tasks, Sync(t)
  PROVE  Earned'
<1> DEFINE u == task[t].user
           p == task[t].pl
           q == PrimaryFor(u, p)
<1>1. task[t].phase = "sync" /\ u \in Users /\ p \in Players
  BY DEF Sync, Inv, TasksFit
<1>2. CASE LinkedElsewhere(u, p)
  BY <1>2, FailEarned DEF Sync
<1>3. CASE ~LinkedElsewhere(u, p)
  <2>1. /\ SyncTables(u, p)
        /\ task' = [task EXCEPT ![t].phase = IF p = q THEN "check" ELSE "modes", ![t].pl = q]
    BY <1>3 DEF Sync
  <2>2. /\ primary' = [primary EXCEPT ![u] = q]
        /\ events' = Merged(Claimed(u, p), p, q)
        /\ done \subseteq done' /\ UNCHANGED unlocked
        /\ progress' = progress \/ progress' = progress \cup CategoriesOf(u, done')
    BY <2>1 DEF SyncTables
  <2>3. /\ q \in Players
        /\ \A e \in events : Left(e, p, q) => AfterSync(e, u, p, q) \in events'
    BY <1>1, <1>3, <2>2, MergeGuesses
  <2>4. \A e \in events :
          /\ AfterSync(e, u, p, q).ch = e.ch /\ AfterSync(e, u, p, q).ok = e.ok
          /\ AfterSync(e, u, p, q).pl = IF e.pl = p THEN q ELSE e.pl
    BY DEF AfterSync, Inv, TablesFit, Event
  <2>5. \A v \in Users, c \in Challenges :
          SolvedBy(c, primary[v], events) => SolvedBy(c, primary'[v], events')
    <3> SUFFICES ASSUME NEW v \in Users, NEW c \in Challenges,
                        NEW e \in events, e.ch = c, e.pl = primary[v], e.ok
                 PROVE  SolvedBy(c, primary'[v], events')
      BY DEF SolvedBy
    <3>1. e.pl \in Players /\ primary[v] # NoPlayer /\ link[primary[v]] = v
      BY AccountAssumption DEF Inv, Owned, TablesFit, Event
    <3>2. primary'[v] = primary[v]
      BY <2>2, <3>1 DEF PrimaryFor, Inv, TablesFit
    <3>3. e.pl = p => p = q
      BY <1>1, <1>3, <3>1, TablesAssumption, ZenonT(60) DEF LinkedElsewhere, PrimaryFor
    <3> QED BY <2>3, <2>4, <3>2, <3>3 DEF Left, SolvedBy
  <2>6. \A g \in progress' : g \in progress \/ Backed(g[1], g[2], done')
    BY <2>2 DEF CategoriesOf, Backed
  <2>7. DOMAIN task = Tasks /\ DOMAIN task[t] = Fields
    BY DEF Inv, TasksFit
  <2>8. /\ \A s \in Tasks : s # t => task'[s] = task[s]
        /\ task'[t].phase \in {"check", "modes"}
    BY <2>1, <2>7 DEF Fields
  <2> QED BY <2>2, <2>5, <2>6, <2>8, StepEarned
<1> QED BY <1>2, <1>3

(* Hardcore access is earned, for any number of categories, accounts and   *)
(* handlers, wherever they are dropped, while no guess is removed.         *)
THEOREM UnlockEarnedAlways ==
  ASSUME MayModerate = FALSE
  PROVE  Spec => []UnlockEarned
<1>1. Earned /\ Inv /\ Inv' /\ [Next]_vars => Earned'
  <2> SUFFICES ASSUME Earned, Inv, Inv', [Next]_vars PROVE Earned'
    OBVIOUS
  <2>1. CASE UNCHANGED vars
    <3>1. UNCHANGED <<events, primary, done, progress, unlocked, task>>
      BY <2>1 DEF vars, tables, accounts
    <3> QED BY <3>1, StepEarned DEF SolvedBy
  <2>2. CASE Next
    <3>1. PICK t \in Tasks : Request(t) \/ Step(t) \/ Drop(t)
      BY <2>2 DEF Next
    <3>2. CASE Request(t)
      BY <3>2, RequestEarned
    <3>3. CASE Step(t)
      BY <3>3, SyncEarned, RebuildEarned, AccessEarned, GuessEarned, RecordEarned DEF Step
    <3>4. CASE Drop(t)
      BY <3>4, FailEarned DEF Drop
    <3> QED BY <3>1, <3>2, <3>3, <3>4
  <2> QED BY <2>1, <2>2
<1>2. Earned => UnlockEarned
  BY DEF Earned
<1> QED BY <1>1, <1>2, InitEarned, InvAlways, PTL DEF Spec

-----------------------------------------------------------------------------
(* The published completion counts. *)

SolverSet(c, evs) == {p \in Players : SolvedBy(c, p, evs)}

Counted ==
  /\ completions \in [Challenges -> Nat]
  /\ \A c \in Challenges : Cardinality(SolverSet(c, events)) <= completions[c]

LEMMA SolverSetFinite ==
  ASSUME NEW c, NEW evs
  PROVE  /\ IsFiniteSet(SolverSet(c, evs)) /\ Cardinality(SolverSet(c, evs)) \in Nat
  BY TablesAssumption, FS_Subset, FS_CardinalityType DEF SolverSet

LEMMA FewerSolvers ==
  ASSUME NEW c, NEW evs, NEW rest, SolverSet(c, rest) \subseteq SolverSet(c, evs)
  PROVE  Cardinality(SolverSet(c, rest)) <= Cardinality(SolverSet(c, evs))
  BY SolverSetFinite, FS_Subset

LEMMA InitCounted == Init => Counted
<1> SUFFICES ASSUME Init PROVE Counted
  OBVIOUS
<1>1. \A c \in Challenges : SolverSet(c, events) = {}
  BY DEF Init, TablesInit, SolverSet, SolvedBy
<1>2. \A c \in Challenges : Cardinality(SolverSet(c, events)) = 0
  BY <1>1, FS_EmptySet
<1>3. completions = [c \in Challenges |-> 0]
  BY DEF Init, TablesInit
<1> QED BY <1>2, <1>3 DEF Counted

(* Nobody has solved more, and no count has been lowered. *)
LEMMA QuietCounted ==
  ASSUME Counted, UNCHANGED completions,
         \A x \in events' : \E e \in events : x.ch = e.ch /\ x.pl = e.pl /\ x.ok = e.ok
  PROVE  Counted'
<1>1. \A c \in Challenges : SolverSet(c, events') \subseteq SolverSet(c, events)
  BY DEF SolverSet, SolvedBy
<1>2. \A c \in Challenges :
        Cardinality(SolverSet(c, events')) <= Cardinality(SolverSet(c, events))
  BY <1>1, FewerSolvers
<1>3. \A c \in Challenges :
        Cardinality(SolverSet(c, events')) \in Nat /\ Cardinality(SolverSet(c, events)) \in Nat
  BY SolverSetFinite
<1> QED BY <1>2, <1>3 DEF Counted

LEMMA AcceptCounted ==
  ASSUME Counted, NEW i \in Input, AcceptGuess(i)
  PROVE  Counted'
<1> DEFINE n == NewEvent(i)
<1>1. /\ events' = events \cup {n} /\ n.ch = i.ch /\ n.pl = i.pl /\ n.ok \in BOOLEAN
      /\ completions' = [completions EXCEPT ![i.ch] = @ + Bit(n.ok)]
  BY DEF AcceptGuess, NewEvent
<1>2. i.ch \in Challenges /\ i.pl \in Players
  BY DEF Input
<1> HIDE DEF n
<1>3. /\ completions' \in [Challenges -> Nat]
      /\ \A c \in Challenges : completions'[c] =
           IF c = i.ch /\ n.ok THEN completions[c] + 1 ELSE completions[c]
  BY <1>1, <1>2 DEF Counted, Bit
<1>4. ASSUME NEW c \in Challenges
      PROVE  Cardinality(SolverSet(c, events')) <= completions'[c]
  <2>1. /\ Cardinality(SolverSet(c, events)) \in Nat /\ IsFiniteSet(SolverSet(c, events))
        /\ Cardinality(SolverSet(c, events')) \in Nat
        /\ completions[c] \in Nat /\ Cardinality(SolverSet(c, events)) <= completions[c]
    BY SolverSetFinite DEF Counted
  <2>2. CASE c = i.ch /\ n.ok
    <3>1. SolverSet(c, events') \subseteq SolverSet(c, events) \cup {i.pl}
      BY <1>1 DEF SolverSet, SolvedBy
    <3>2. /\ IsFiniteSet(SolverSet(c, events) \cup {i.pl})
          /\ Cardinality(SolverSet(c, events) \cup {i.pl}) <= Cardinality(SolverSet(c, events)) + 1
          /\ Cardinality(SolverSet(c, events) \cup {i.pl}) \in Nat
      <4> DEFINE S == SolverSet(c, events)
      <4>1. /\ IsFiniteSet(S \cup {i.pl})
            /\ Cardinality(S \cup {i.pl}) = IF i.pl \in S THEN Cardinality(S) ELSE Cardinality(S) + 1
        <5>1. IsFiniteSet(S)
          BY <2>1
        <5> HIDE DEF S
        <5> QED BY <5>1, FS_AddElement
      <4> QED BY <2>1, <4>1
    <3>3. Cardinality(SolverSet(c, events')) <= Cardinality(SolverSet(c, events) \cup {i.pl})
      BY <3>1, <3>2, FS_Subset
    <3> QED BY <1>3, <2>1, <2>2, <3>2, <3>3
  <2>3. CASE ~(c = i.ch /\ n.ok)
    <3>1. SolverSet(c, events') \subseteq SolverSet(c, events)
      BY <1>1, <2>3 DEF SolverSet, SolvedBy
    <3>2. Cardinality(SolverSet(c, events')) <= Cardinality(SolverSet(c, events))
      BY <3>1, FewerSolvers
    <3> QED BY <1>3, <2>1, <2>3, <3>2
  <2> QED BY <2>2, <2>3
<1> QED BY <1>3, <1>4 DEF Counted

(* A merge recounts the challenges the account has guesses of.  On any     *)
(* other one the device has nothing left that counts.                      *)
LEMMA SyncCounted ==
  ASSUME Inv, Inv', Counted, NEW t \in Tasks, Sync(t)
  PROVE  Counted'
<1> DEFINE u == task[t].user
           p == task[t].pl
           q == PrimaryFor(u, p)
<1>1. u \in Users /\ p \in Players
  BY DEF Sync, Inv, TasksFit
<1>2. CASE LinkedElsewhere(u, p)
  BY <1>2, QuietCounted DEF Sync, Fail, tables
<1>3. CASE ~LinkedElsewhere(u, p)
  <2>1. SyncTables(u, p)
    BY <1>3 DEF Sync
  <2>2. events' = Merged(Claimed(u, p), p, q)
    BY <2>1 DEF SyncTables
  <2>3. /\ \A e \in events : Left(e, p, q) => AfterSync(e, u, p, q) \in events'
        /\ \A x \in events' : \E e \in events : Left(e, p, q) /\ x = AfterSync(e, u, p, q)
    BY <1>1, <1>3, <2>2, MergeGuesses
  <2>4. \A e \in events :
          /\ AfterSync(e, u, p, q).ch = e.ch /\ AfterSync(e, u, p, q).ok = e.ok
          /\ AfterSync(e, u, p, q).pl = IF e.pl = p THEN q ELSE e.pl
          /\ e.pl = p => AfterSync(e, u, p, q).user = u
    BY DEF AfterSync, Inv, TablesFit, Event
  <2>5. CASE p = q
    <3>1. UNCHANGED completions
      BY <2>1, <2>5 DEF SyncTables
    <3> QED BY <2>3, <2>4, <2>5, <3>1, QuietCounted
  <2>6. CASE p # q
    <3> DEFINE touched == {e.ch : e \in {e \in events' : e.user = u}}
    <3>1. completions' = [c \in Challenges |->
            IF c \in touched /\ completions[c] # 0 THEN Solvers(events', c, u) ELSE completions[c]]
      BY <2>1, <2>2, <2>6 DEF SyncTables
    <3>2. ASSUME NEW c \in Challenges
          PROVE  /\ Solvers(events', c, u) = Cardinality(SolverSet(c, events'))
                 /\ Cardinality(SolverSet(c, events')) \in Nat
      <4>1. {e.pl : e \in {e \in events' : e.ch = c /\ e.ok}} = SolverSet(c, events')
        BY DEF Inv, TablesFit, Event, SolverSet, SolvedBy
      <4> QED BY <4>1, SolverSetFinite DEF Solvers
    <3>3. ASSUME NEW c \in Challenges, c \notin touched
          PROVE  Cardinality(SolverSet(c, events')) <= completions[c]
      <4>1. SolverSet(c, events') \subseteq SolverSet(c, events)
        <5> SUFFICES ASSUME NEW x \in events', x.ch = c, x.ok
                     PROVE  \E e \in events : e.ch = c /\ e.pl = x.pl /\ e.ok
          BY DEF SolverSet, SolvedBy
        <5>1. PICK e \in events : Left(e, p, q) /\ x = AfterSync(e, u, p, q)
          BY <2>3
        <5>2. e.pl # p
          BY <2>4, <3>3, <5>1
        <5> QED BY <2>4, <5>1, <5>2
      <4>2. Cardinality(SolverSet(c, events')) <= Cardinality(SolverSet(c, events))
        BY <4>1, FewerSolvers
      <4> QED BY <4>2, <3>2, SolverSetFinite DEF Counted
    <3>4. ASSUME NEW c \in Challenges, completions[c] = 0
          PROVE  Cardinality(SolverSet(c, events')) = 0
      <4>1. Cardinality(SolverSet(c, events)) = 0
        BY <3>4, SolverSetFinite DEF Counted
      <4>2. SolverSet(c, events) = {}
        <5>1. IsFiniteSet(SolverSet(c, events))
          BY SolverSetFinite
        <5> QED BY <4>1, <5>1, FS_EmptySet
      <4>3. ~ \E e \in events : e.ch = c /\ e.ok
        BY <4>2 DEF SolverSet, SolvedBy, Inv, TablesFit, Event
      <4>4. SolverSet(c, events') = {}
        BY <2>3, <2>4, <4>3 DEF SolverSet, SolvedBy
      <4> QED BY <4>4, FS_EmptySet
    <3> HIDE DEF touched
    <3>5. ASSUME NEW c \in Challenges
          PROVE  /\ completions'[c] \in Nat
                 /\ Cardinality(SolverSet(c, events')) <= completions'[c]
      <4>1. CASE c \in touched /\ completions[c] # 0
        BY <3>1, <3>2, <4>1
      <4>2. CASE c \notin touched
        BY <3>1, <3>3, <4>2 DEF Counted
      <4>3. CASE completions[c] = 0
        BY <3>1, <3>4, <4>3
      <4> QED BY <4>1, <4>2, <4>3
    <3> QED BY <3>1, <3>5 DEF Counted
  <2> QED BY <2>5, <2>6
<1> QED BY <1>2, <1>3

LEMMA GuessCounted ==
  ASSUME Inv, Counted, NEW t \in Tasks, Guess(t)
  PROVE  Counted'
<1>1. PICK num \in Attempts :
        LET i == GuessInput(t, num)
        IN  /\ i \in Input
            /\ i.user # NoUser => primary[i.user] = i.pl
            /\ \/ /\ Verdict(i) = "ACCEPT"
                  /\ AcceptGuess(i) /\ AfterGuess(t, NewEvent(i).ok)
               \/ /\ Verdict(i) = "REPLAY"
                  /\ UNCHANGED tables /\ AfterGuess(t, i.md = Answer[i.ch])
               \/ UNCHANGED tables /\ Finish(t)
  BY GuessFacts
<1>2. CASE UNCHANGED tables
  BY <1>2, QuietCounted DEF tables
<1>3. CASE AcceptGuess(GuessInput(t, num))
  BY <1>1, <1>3, AcceptCounted
<1> QED BY <1>1, <1>2, <1>3

LEMMA OtherCounted ==
  ASSUME Inv, Counted, NEW t \in Tasks,
         \/ Request(t) \/ Fail(t)
         \/ ReadModes(t) \/ ReadRows(t) \/ StoreRow(t)
         \/ CheckAccess(t) \/ Grant(t) \/ Canonical(t) \/ Record(t)
  PROVE  Counted'
<1>1. UNCHANGED completions
  BY DEF Request, StartGuess, StartSync, StartAccess, RemoveGuess, Fail, ReadModes, ReadRows,
         StoreRow, CheckAccess, Grant, Canonical, Record, tables
<1>2. CASE Record(t)
  <2> DEFINE u == task[t].user
             Claim(e) == IF e.ch = task[t].ch /\ e.pl = primary[u] THEN [e EXCEPT !.user = u] ELSE e
  <2>1. events' = {Claim(e) : e \in events}
    BY <1>2 DEF Record
  <2>2. \A e \in events : Claim(e).ch = e.ch /\ Claim(e).pl = e.pl /\ Claim(e).ok = e.ok
    BY DEF Inv, TablesFit, Event
  <2> HIDE DEF Claim
  <2> QED BY <1>1, <2>1, <2>2, QuietCounted
<1>3. CASE ~Record(t)
  <2>1. events' \subseteq events
    BY <1>3 DEF Request, StartGuess, StartSync, StartAccess, RemoveGuess, Fail, ReadModes,
           ReadRows, StoreRow, CheckAccess, Grant, Canonical, tables
  <2> QED BY <1>1, <2>1, QuietCounted
<1> QED BY <1>2, <1>3

LEMMA CountedNext ==
  ASSUME Inv, Inv', Counted, [Next]_vars
  PROVE  Counted'
<1>1. CASE UNCHANGED vars
  BY <1>1, QuietCounted DEF vars, tables
<1>2. CASE Next
  <2>1. PICK t \in Tasks : Request(t) \/ Step(t) \/ Drop(t)
    BY <1>2 DEF Next
  <2>2. CASE Request(t)
    BY <2>2, OtherCounted
  <2>3. CASE Step(t)
    BY <2>3, SyncCounted, GuessCounted, OtherCounted DEF Step
  <2>4. CASE Drop(t)
    BY <2>4, OtherCounted DEF Drop
  <2> QED BY <2>1, <2>2, <2>3, <2>4
<1> QED BY <1>1, <1>2

(* In every behaviour a completion count covers the players with a solve.  *)
THEOREM CountedAlways == Spec => []Counted
<1>1. Inv /\ Inv' /\ Counted /\ [Next]_vars => Counted'
  BY CountedNext
<1> QED BY <1>1, InitCounted, InvAlways, PTL DEF Spec

(* The completion count of a challenge never falls below the number of     *)
(* players with a stored solve, for any number of players, accounts,       *)
(* merges and removals.                                                    *)
THEOREM SolversCountedAlways == Spec => []SolversCounted
<1>1. Counted => SolversCounted
  <2> SUFFICES ASSUME Counted, NEW c \in Challenges
               PROVE  completions[c] >= Cardinality({p \in Players : Solved(c, p)})
    BY DEF SolversCounted
  <2>1. {p \in Players : Solved(c, p)} = SolverSet(c, events)
    BY DEF SolverSet, SolvedBy, Solved, EventsOf
  <2>2. completions[c] \in Nat /\ Cardinality(SolverSet(c, events)) \in Nat
    BY SolverSetFinite DEF Counted
  <2> QED BY <2>1, <2>2 DEF Counted
<1> QED BY <1>1, CountedAlways, PTL

-----------------------------------------------------------------------------
(* The statistics row a rebuild reads. *)

StreakState == [current : Nat, best : Nat, lastSolved : Nat]

(* update_streak over days given in any order: there is one sequence of    *)
(* streaks, each from the one before.                                      *)
LEMMA StreakSteps ==
  ASSUME NEW k \in Nat, NEW D
  PROVE  \E f : f = [n \in 0..k |-> IF n = 0 THEN Streak(FreshStats)
                                    ELSE UpdateStreak(f[n - 1], D[n])]
<1> DEFINE Is(f, j) == f = [n \in 0..j |-> IF n = 0 THEN Streak(FreshStats)
                                           ELSE UpdateStreak(f[n - 1], D[n])]
           Missing == {j \in 0..k : ~ \E f : Is(f, j)}
<1>1. SUFFICES ASSUME Missing # {} PROVE FALSE
  OBVIOUS
<1>2. PICK j \in Missing : \A i \in Missing : j <= i
  <2>1. Missing \subseteq Nat
    OBVIOUS
  <2> HIDE DEF Missing
  <2> QED BY <1>1, <2>1, LeastNumber
<1>3. CASE j = 0
  <2> DEFINE g == [n \in 0..0 |-> Streak(FreshStats)]
  <2>1. \A n \in 0..0 : n = 0
    OBVIOUS
  <2>2. g = [n \in 0..0 |-> IF n = 0 THEN Streak(FreshStats) ELSE UpdateStreak(g[n - 1], D[n])]
    BY <2>1
  <2>3. Is(g, 0)
    BY <2>2
  <2> QED BY <1>2, <1>3, <2>3
<1>4. CASE j # 0
  <2>1. j \in Nat /\ j - 1 \in Nat /\ j - 1 \in 0..k /\ ~(j <= j - 1)
    BY <1>4
  <2>2. j - 1 \notin Missing
    BY <1>2, <2>1
  <2>3. PICK f : Is(f, j - 1)
    BY <2>1, <2>2
  <2> DEFINE g == [n \in 0..j |-> IF n = j THEN UpdateStreak(f[j - 1], D[j]) ELSE f[n]]
  <2>4. ASSUME NEW n \in 0..j
        PROVE  g[n] = IF n = 0 THEN Streak(FreshStats) ELSE UpdateStreak(g[n - 1], D[n])
    <3>1. CASE n = j
      <4>1. g[j - 1] = f[j - 1] /\ g[n] = UpdateStreak(f[j - 1], D[j])
        BY <2>1, <3>1
      <4> QED BY <1>4, <3>1, <4>1
    <3>2. CASE n # j
      <4>1. n \in 0..(j - 1) /\ g[n] = f[n]
        BY <2>1, <3>2
      <4>2. f[n] = IF n = 0 THEN Streak(FreshStats) ELSE UpdateStreak(f[n - 1], D[n])
        BY <2>3, <4>1
      <4>3. n # 0 => n - 1 \in 0..j /\ n - 1 # j
        BY <2>1, <3>2
      <4>4. n # 0 => g[n - 1] = f[n - 1]
        BY <4>3
      <4> HIDE DEF g
      <4> QED BY <4>1, <4>2, <4>4
    <3> QED BY <3>1, <3>2
  <2>5. g = [n \in 0..j |-> g[n]]
    OBVIOUS
  <2>6. Is(g, j)
    <3> HIDE DEF g
    <3> QED BY <2>4, <2>5
  <2> HIDE DEF g, Is
  <2> QED BY <1>2, <2>6
<1> QED BY <1>3, <1>4

LEMMA StreakStepsType ==
  ASSUME NEW k \in Nat, NEW D, \A n \in 1..k : D[n] \in Nat,
         NEW f, f = [n \in 0..k |-> IF n = 0 THEN Streak(FreshStats)
                                    ELSE UpdateStreak(f[n - 1], D[n])]
  PROVE  \A n \in 0..k : f[n] \in StreakState
<1> DEFINE Bad == {n \in 0..k : f[n] \notin StreakState}
<1>1. SUFFICES ASSUME Bad # {} PROVE FALSE
  OBVIOUS
<1>2. PICK n \in Bad : \A i \in Bad : n <= i
  <2>1. Bad \subseteq Nat
    OBVIOUS
  <2> HIDE DEF Bad
  <2> QED BY <1>1, <2>1, LeastNumber
<1>3. f[n] = IF n = 0 THEN Streak(FreshStats) ELSE UpdateStreak(f[n - 1], D[n])
  OBVIOUS
<1>4. n # 0
  BY <1>2, <1>3 DEF Streak, FreshStats, StreakState
<1>5. n - 1 \in 0..k /\ ~(n <= n - 1) /\ n \in 1..k
  BY <1>4
<1>6. f[n - 1] \in StreakState
  BY <1>2, <1>5
<1>7. ASSUME NEW s \in StreakState, NEW d \in Nat
      PROVE  UpdateStreak(s, d) \in StreakState
  BY DEF StreakState, UpdateStreak, Streak, Larger
<1>8. f[n] \in StreakState
  BY <1>3, <1>4, <1>5, <1>6, <1>7
<1> QED BY <1>2, <1>8

LEMMA StreakOverType ==
  ASSUME NEW days, days \subseteq Nat, IsFiniteSet(days)
  PROVE  StreakOver(days) \in StreakState
<1> DEFINE k == Cardinality(days)
           nth(n) == CHOOSE d \in days : Cardinality({x \in days : x <= d}) = n
           D == [n \in 1..k |-> nth(n)]
           Is(f) == f = [n \in 0..k |-> IF n = 0 THEN Streak(FreshStats)
                                        ELSE UpdateStreak(f[n - 1], nth(n))]
           Run1 == CHOOSE f : Is(f)
<1>1. k \in Nat
  BY FS_CardinalityType
<1>2. \A n \in 1..k : nth(n) \in days
  BY NthNumber
<1>3. \A n \in 1..k : D[n] = nth(n) /\ D[n] \in Nat
  BY <1>2
<1>4. PICK f : f = [n \in 0..k |-> IF n = 0 THEN Streak(FreshStats)
                                   ELSE UpdateStreak(f[n - 1], D[n])]
  BY <1>1, StreakSteps
<1>5. \A n \in 0..k : n # 0 => n \in 1..k
  BY <1>1
<1>6. Is(f)
  <2> HIDE DEF nth, D, k
  <2> QED BY <1>3, <1>4, <1>5
<1>7. Is(Run1)
  <2> HIDE DEF Is
  <2> QED BY <1>6
<1>8. Run1 = [n \in 0..k |-> IF n = 0 THEN Streak(FreshStats)
                             ELSE UpdateStreak(Run1[n - 1], D[n])]
  <2> HIDE DEF nth, D, k, Run1
  <2> QED BY <1>3, <1>5, <1>7
<1>9. Run1[k] \in StreakState
  <2>1. k \in 0..k
    BY <1>1
  <2> HIDE DEF D, k, Run1
  <2> QED BY <1>1, <1>3, <1>8, <2>1, StreakStepsType
<1>10. StreakOver(days) = Run1[k]
  BY DEF StreakOver
<1> QED BY <1>9, <1>10

LEMMA RebuiltRowType ==
  ASSUME NEW p, NEW m
  PROVE  RebuiltRow(p, m) \in PlayerStatsRow \cup {NoRow}
<1> DEFINE played == {c \in Challenges : Mode[c] = m /\ EventsOf(c, p) # {}}
           won == {c \in played : Solved(c, p)}
           streak == StreakOver({Day[c] : c \in won})
           guesses(c) == Cardinality(EventsOf(c, p))
           last == CHOOSE d \in {Day[c] : c \in played} : \A c \in played : Day[c] <= d
           with(n) == {c \in won : guesses(c) = n}
<1>1. CASE played = {}
  BY <1>1 DEF RebuiltRow
<1>2. CASE played # {}
  <2>1. IsFiniteSet(played) /\ IsFiniteSet(won) /\ won \subseteq Challenges
    BY FS_Subset, TablesAssumption
  <2>2. Cardinality(played) \in Nat /\ Cardinality(won) \in Nat
    BY <2>1, FS_CardinalityType
  <2>3. ASSUME NEW S \in SUBSET Challenges
        PROVE  IsFiniteSet({Day[c] : c \in S}) /\ {Day[c] : c \in S} \subseteq Nat
    <3> DEFINE T == {Day[c] : c \in S}
    <3>1. [c \in S |-> Day[c]] \in Surjection(S, T)
      BY DEF Surjection
    <3>2. IsFiniteSet(S)
      BY FS_Subset, TablesAssumption
    <3>3. T \subseteq Nat
      BY TablesAssumption
    <3> HIDE DEF T
    <3>4. IsFiniteSet(T)
      BY <3>1, <3>2, FS_Surjection
    <3> QED BY <3>3, <3>4 DEF T
  <2>4. streak \in StreakState
    <3> DEFINE days == {Day[c] : c \in won}
    <3>1. IsFiniteSet(days) /\ days \subseteq Nat
      BY <2>1, <2>3
    <3> HIDE DEF days
    <3>2. StreakOver(days) \in StreakState
      BY <3>1, StreakOverType
    <3> QED BY <3>2 DEF days
  <2>5. last \in Nat
    <3> DEFINE days == {Day[c] : c \in played}
    <3>1. IsFiniteSet(days) /\ days \subseteq Nat /\ days # {}
      BY <1>2, <2>1, <2>3
    <3>2. PICK d \in days : \A x \in days : x <= d
      <4> HIDE DEF days
      <4> QED BY <3>1, GreatestNumber
    <3>3. d \in days /\ \A c \in played : Day[c] <= d
      BY <3>2
    <3>4. last \in days
      <4> HIDE DEF played
      <4> QED BY <3>3
    <3> QED BY <3>1, <3>4
  <2>6. [n \in Attempts |-> Cardinality(with(n))] \in [Attempts -> Nat]
    <3>1. ASSUME NEW n PROVE Cardinality(with(n)) \in Nat
      <4>1. with(n) \in SUBSET won
        OBVIOUS
      <4> HIDE DEF with, won
      <4> QED BY <2>1, <4>1, FS_Subset, FS_CardinalityType
    <3> HIDE DEF with
    <3> QED BY <3>1
  <2>7. RebuiltRow(p, m) =
          [current |-> streak.current, best |-> streak.best, lastSolved |-> streak.lastSolved,
           played |-> Cardinality(played), won |-> Cardinality(won), lastPlayed |-> last,
           dist |-> [n \in Attempts |-> Cardinality(with(n))]]
    BY <1>2 DEF RebuiltRow
  <2> HIDE DEF played, won, streak, last, with
  <2> QED BY <2>2, <2>4, <2>5, <2>6, <2>7 DEF PlayerStatsRow, StreakState
<1> QED BY <1>1, <1>2

-----------------------------------------------------------------------------
(* Types. *)

(* What TypeOK leaves out and its steps need: finitely many guesses, all   *)
(* of challenges with a mode, and a player and a mode for a rebuild.       *)
TaskTyped(r) ==
  /\ r.phase \in Phases
  /\ r.user \in Users \cup {NoUser}
  /\ r.pl \in Players \cup {NoPlayer}
  /\ r.todo \subseteq Modes
  /\ r.row \in PlayerStatsRow \cup {NoRow}
  /\ r.phase \in {"modes", "read", "store"} => r.pl \in Players
  /\ r.phase = "store" => r.mode \in Modes

GuessesKnown ==
  /\ IsFiniteSet(events)
  /\ \A e \in events : Mode[e.ch] # NoMode

Typed ==
  /\ TypeOK
  /\ GuessesKnown
  /\ \A t \in Tasks : TaskTyped(task[t])

LEMMA CoveredFinite ==
  ASSUME NEW S, IsFiniteSet(S), NEW f, NEW T, \A x \in T : \E y \in S : x = f[y]
  PROVE  IsFiniteSet(T)
<1> DEFINE image == {f[y] : y \in S}
<1>1. [y \in S |-> f[y]] \in Surjection(S, image)
  BY DEF Surjection
<1>2. T \in SUBSET image
  OBVIOUS
<1> HIDE DEF image
<1>3. IsFiniteSet(image)
  BY <1>1, FS_Surjection
<1> QED BY <1>2, <1>3, FS_Subset

LEMMA InitTyped == Init => Typed
<1> SUFFICES ASSUME Init PROVE Typed
  OBVIOUS
<1>1. GuessesKnown
  BY FS_EmptySet DEF Init, TablesInit, GuessesKnown
<1>2. TaskTyped(NoTask)
  BY DEF TaskTyped, NoTask, Phases
<1>3. \A t \in Tasks : task[t] = NoTask
  BY DEF Init
<1>4. TypeOK
  BY <1>2, <1>3, TablesInitType DEF Init, TypeOK, TaskTyped
<1> QED BY <1>1, <1>2, <1>3, <1>4 DEF Typed

(* One handler moves on, and the rest is typed.                            *)
LEMMA StepTyped ==
  ASSUME Typed, Inv', NEW t \in Tasks,
         \A s \in Tasks : s # t => task'[s] = task[s], TaskTyped(task'[t]),
         TablesType', GuessesKnown',
         progress' \subseteq Users \X Categories, unlocked' \subseteq Users,
         sent' \subseteq Requests
  PROVE  Typed'
<1>1. \A s \in Tasks : TaskTyped(task'[s])
  BY DEF Typed
<1>2. TypeOK'
  BY <1>1 DEF TypeOK, TaskTyped, Inv, TablesFit
<1> QED BY <1>1, <1>2 DEF Typed

(* A step that writes no table.                                            *)
LEMMA QuietTyped ==
  ASSUME Typed, Inv', NEW t \in Tasks,
         \A s \in Tasks : s # t => task'[s] = task[s], TaskTyped(task'[t]),
         UNCHANGED <<tables, pool, progress>>,
         unlocked' \subseteq Users, sent' \subseteq Requests
  PROVE  Typed'
<1>1. TablesType' /\ GuessesKnown' /\ progress' \subseteq Users \X Categories
  BY DEF Typed, TypeOK, TablesType, GuessesKnown, tables
<1> QED BY <1>1, StepTyped

(* The task of the handler that stops, or goes on where no row is rebuilt. *)
LEMMA NextTask ==
  ASSUME Inv, Typed, NEW t \in Tasks,
         \/ Finish(t)
         \/ \E phase \in {"canonical", "guess", "record", "sync", "check", "grant"} : Goto(t, phase)
  PROVE  (\A s \in Tasks : s # t => task'[s] = task[s]) /\ TaskTyped(task'[t])
<1>1. DOMAIN task = Tasks /\ DOMAIN task[t] = Fields /\ TaskTyped(task[t])
  BY DEF Inv, TasksFit, Typed
<1>2. CASE Finish(t)
  <2>1. TaskTyped(NoTask)
    BY DEF TaskTyped, NoTask, Phases
  <2> QED BY <1>1, <1>2, <2>1 DEF Finish
<1>3. ASSUME NEW phase \in {"canonical", "guess", "record", "sync", "check", "grant"}, Goto(t, phase)
      PROVE  (\A s \in Tasks : s # t => task'[s] = task[s]) /\ TaskTyped(task'[t])
  <2>1. task' = [task EXCEPT ![t].phase = phase]
    BY <1>3 DEF Goto
  <2>2. \A s \in Tasks : s # t => task'[s] = task[s]
    BY <1>1, <2>1
  <2>3. /\ task'[t].phase = phase /\ task'[t].user = task[t].user /\ task'[t].pl = task[t].pl
        /\ task'[t].todo = task[t].todo /\ task'[t].row = task[t].row
    BY <1>1, <2>1 DEF Fields
  <2>4. phase \in Phases /\ phase \notin {"modes", "read", "store"}
    BY <1>3 DEF Phases
  <2> QED BY <1>1, <2>2, <2>3, <2>4 DEF TaskTyped
<1> QED BY <1>2, <1>3

LEMMA FailTyped ==
  ASSUME Inv, Typed, Inv', NEW t \in Tasks, Fail(t)
  PROVE  Typed'
<1>1. UNCHANGED <<tables, pool, progress, unlocked, sent>> /\ Finish(t)
  BY DEF Fail, accounts
<1>2. unlocked' \subseteq Users /\ sent' \subseteq Requests
  BY <1>1 DEF Typed, TypeOK
<1> QED BY <1>1, <1>2, NextTask, QuietTyped

(* A handler that begins. *)
LEMMA NewTask ==
  ASSUME Inv, NEW t \in Tasks, NEW r, task' = [task EXCEPT ![t] = r],
         r.phase \in {"guess", "canonical", "sync", "check"},
         r.user \in Users \cup {NoUser}, r.pl \in Players \cup {NoPlayer},
         r.todo = {}, r.row = NoRow
  PROVE  (\A s \in Tasks : s # t => task'[s] = task[s]) /\ TaskTyped(task'[t])
<1>1. (\A s \in Tasks : s # t => task'[s] = task[s]) /\ task'[t] = r
  BY DEF Inv, TasksFit
<1>2. TaskTyped(r)
  BY DEF TaskTyped, Phases
<1> QED BY <1>1, <1>2

LEMMA StartTyped ==
  ASSUME Inv, Typed, Inv', NEW t \in Tasks,
         \/ \E u \in Users \cup {NoUser}, p \in Players, c \in Challenges,
               m \in Models, r \in Requests : StartGuess(t, u, p, c, m, r)
         \/ \E u \in Users, p \in Players : StartSync(t, u, p)
         \/ \E u \in Users : StartAccess(t, u)
  PROVE  Typed'
<1>1. UNCHANGED <<tables, pool, progress, unlocked>> /\ unlocked' \subseteq Users
  BY DEF StartGuess, StartSync, StartAccess, accounts, Typed, TypeOK
<1>2. ASSUME NEW u \in Users \cup {NoUser}, NEW p \in Players, NEW c \in Challenges,
             NEW m \in Models, NEW r \in Requests, StartGuess(t, u, p, c, m, r)
      PROVE  Typed'
  <2> DEFINE new == [NoTask EXCEPT !.phase = IF u = NoUser THEN "guess" ELSE "canonical",
                                   !.user = u, !.pl = p, !.ch = c, !.md = m, !.req = r]
  <2>1. task' = [task EXCEPT ![t] = new] /\ sent' \subseteq Requests
    BY <1>2 DEF StartGuess, Typed, TypeOK
  <2>2. /\ new.phase \in {"guess", "canonical"} /\ new.user = u /\ new.pl = p
        /\ new.todo = {} /\ new.row = NoRow
    BY DEF NoTask
  <2> HIDE DEF new
  <2> QED BY <1>1, <2>1, <2>2, NewTask, QuietTyped
<1>3. ASSUME NEW u \in Users, NEW p \in Players, StartSync(t, u, p)
      PROVE  Typed'
  <2> DEFINE new == [NoTask EXCEPT !.phase = "sync", !.user = u, !.pl = p]
  <2>1. task' = [task EXCEPT ![t] = new] /\ sent' \subseteq Requests
    BY <1>3 DEF StartSync, Typed, TypeOK, accounts
  <2>2. /\ new.phase = "sync" /\ new.user = u /\ new.pl = p
        /\ new.todo = {} /\ new.row = NoRow
    BY DEF NoTask
  <2> HIDE DEF new
  <2> QED BY <1>1, <2>1, <2>2, NewTask, QuietTyped
<1>4. ASSUME NEW u \in Users, StartAccess(t, u)
      PROVE  Typed'
  <2> DEFINE new == [NoTask EXCEPT !.phase = "check", !.user = u]
  <2>1. task' = [task EXCEPT ![t] = new] /\ sent' \subseteq Requests
    BY <1>4 DEF StartAccess, Typed, TypeOK, accounts
  <2>2. /\ new.phase = "check" /\ new.user = u /\ new.pl = NoPlayer
        /\ new.todo = {} /\ new.row = NoRow
    BY DEF NoTask
  <2> HIDE DEF new
  <2> QED BY <1>1, <2>1, <2>2, NewTask, QuietTyped
<1> QED BY <1>2, <1>3, <1>4

LEMMA AccessTyped ==
  ASSUME Inv, Typed, Inv', NEW t \in Tasks, CheckAccess(t) \/ Grant(t)
  PROVE  Typed'
<1>1. task[t].user \in Users /\ task[t].then \in {"idle", "canonical"}
  BY DEF CheckAccess, Grant, Inv, TasksFit
<1>2. UNCHANGED <<tables, pool, progress, sent>>
  BY DEF CheckAccess, Grant, accounts
<1>3. unlocked' \subseteq Users /\ sent' \subseteq Requests
  BY <1>1 DEF CheckAccess, Grant, accounts, Typed, TypeOK
<1>4. \/ Finish(t)
      \/ \E phase \in {"canonical", "guess", "record", "sync", "check", "grant"} : Goto(t, phase)
  BY <1>1 DEF CheckAccess, Grant
<1> QED BY <1>2, <1>3, <1>4, NextTask, QuietTyped

LEMMA CanonicalTyped ==
  ASSUME Inv, Typed, Inv', NEW t \in Tasks, Canonical(t)
  PROVE  Typed'
<1>1. UNCHANGED <<tables, pool, progress, unlocked, sent>>
  BY DEF Canonical, accounts
<1>2. unlocked' \subseteq Users /\ sent' \subseteq Requests
  BY <1>1 DEF Typed, TypeOK
<1>3. DOMAIN task = Tasks /\ DOMAIN task[t] = Fields /\ TaskTyped(task[t]) /\ task[t].user \in Users
  BY DEF Canonical, Inv, TasksFit, Typed
<1>4. primary[task[t].user] \in Players \cup {NoPlayer}
  BY <1>3 DEF Inv, TablesFit
<1>5. \A s \in Tasks : s # t => task'[s] = task[s]
  BY <1>3 DEF Canonical
<1>6. /\ task'[t].phase \in {"sync", "guess"} /\ task'[t].user = task[t].user
      /\ task'[t].pl \in {task[t].pl, primary[task[t].user]}
      /\ task'[t].todo = task[t].todo /\ task'[t].row = task[t].row
  BY <1>3 DEF Canonical, Fields
<1>7. TaskTyped(task'[t])
  BY <1>3, <1>4, <1>6 DEF TaskTyped, Phases
<1> QED BY <1>1, <1>2, <1>5, <1>7, QuietTyped

(* The rebuild reads the modes of stored guesses, and rows from them.      *)
LEMMA RebuildTyped ==
  ASSUME Inv, Typed, Inv', NEW t \in Tasks, ReadModes(t) \/ ReadRows(t) \/ StoreRow(t)
  PROVE  Typed'
<1>1. UNCHANGED <<events, guessStats, completions, pool, progress, unlocked, sent>>
  BY DEF ReadModes, ReadRows, StoreRow, tables, accounts
<1>2. /\ GuessesKnown' /\ progress' \subseteq Users \X Categories
      /\ unlocked' \subseteq Users /\ sent' \subseteq Requests
  BY <1>1 DEF Typed, TypeOK, GuessesKnown
<1>3. /\ DOMAIN task = Tasks /\ DOMAIN task[t] = Fields /\ TaskTyped(task[t])
      /\ task[t].pl \in Players
  BY DEF ReadModes, ReadRows, StoreRow, Inv, TasksFit, Typed, TaskTyped
<1>4. playerStats' \in [Players \X Modes -> PlayerStatsRow \cup {NoRow}]
  <2>1. CASE StoreRow(t)
    <3>1. playerStats' = [playerStats EXCEPT ![<<task[t].pl, task[t].mode>>] = task[t].row]
      BY <2>1 DEF StoreRow
    <3>2. task[t].row \in PlayerStatsRow \cup {NoRow}
      BY <1>3 DEF TaskTyped
    <3> QED BY <3>1, <3>2 DEF Typed, TypeOK, TablesType
  <2>2. CASE ReadModes(t) \/ ReadRows(t)
    BY <2>2 DEF ReadModes, ReadRows, tables, Typed, TypeOK, TablesType
  <2> QED BY <2>1, <2>2
<1>5. TablesType'
  BY <1>1, <1>4 DEF Typed, TypeOK, TablesType
<1>6. (\A s \in Tasks : s # t => task'[s] = task[s]) /\ TaskTyped(task'[t])
  <2>1. CASE ReadModes(t)
    <3> DEFINE modes == {Mode[e.ch] : e \in {e \in events : e.pl = task[t].pl}}
               phase == IF modes = {} THEN "check" ELSE "read"
    <3>1. task' = [task EXCEPT ![t].todo = modes, ![t].phase = phase]
      BY <2>1 DEF ReadModes
    <3>2. modes \subseteq Modes
      BY TablesAssumption DEF Inv, TablesFit, Event, Typed, GuessesKnown
    <3>3. phase \in {"check", "read"}
      OBVIOUS
    <3> HIDE DEF modes, phase
    <3>4. /\ task'[t].todo = modes /\ task'[t].phase = phase /\ task'[t].user = task[t].user
          /\ task'[t].pl = task[t].pl /\ task'[t].row = task[t].row
      BY <1>3, <3>1 DEF Fields
    <3>5. TaskTyped(task'[t])
      BY <1>3, <3>2, <3>3, <3>4 DEF TaskTyped, Phases
    <3> QED BY <1>3, <3>1, <3>5
  <2>2. CASE ReadRows(t)
    <3>1. PICK m \in task[t].todo :
            task' = [task EXCEPT ![t].phase = "store", ![t].mode = m,
                                 ![t].row = RebuiltRow(task[t].pl, m)]
      BY <2>2 DEF ReadRows
    <3>2. RebuiltRow(task[t].pl, m) \in PlayerStatsRow \cup {NoRow}
      BY RebuiltRowType
    <3>3. m \in Modes
      BY <1>3 DEF TaskTyped
    <3>4. /\ task'[t].phase = "store" /\ task'[t].mode = m
          /\ task'[t].row = RebuiltRow(task[t].pl, m) /\ task'[t].user = task[t].user
          /\ task'[t].pl = task[t].pl /\ task'[t].todo = task[t].todo
      BY <1>3, <3>1 DEF Fields
    <3>5. TaskTyped(task'[t])
      BY <1>3, <3>2, <3>3, <3>4 DEF TaskTyped, Phases
    <3> QED BY <1>3, <3>1, <3>5
  <2>3. CASE StoreRow(t) /\ ~Finish(t)
    <3> DEFINE rest == task[t].todo \ {task[t].mode}
    <3>1. PICK phase \in {"read", "check"} :
            task' = [task EXCEPT ![t].todo = rest, ![t].row = NoRow, ![t].phase = phase]
      BY <2>3 DEF StoreRow
    <3>2. rest \subseteq Modes
      BY <1>3 DEF TaskTyped
    <3> HIDE DEF rest
    <3>3. /\ task'[t].todo = rest /\ task'[t].row = NoRow /\ task'[t].phase = phase
          /\ task'[t].user = task[t].user /\ task'[t].pl = task[t].pl
      BY <1>3, <3>1 DEF Fields
    <3>4. TaskTyped(task'[t])
      BY <1>3, <3>2, <3>3 DEF TaskTyped, Phases
    <3> QED BY <1>3, <3>1, <3>4
  <2>4. CASE Finish(t)
    BY <2>4, NextTask
  <2> QED BY <2>1, <2>2, <2>3, <2>4
<1> QED BY <1>2, <1>5, <1>6, StepTyped

LEMMA AcceptTyped ==
  ASSUME Typed, NEW i \in Input, Verdict(i) = "ACCEPT", AcceptGuess(i), UNCHANGED pool
  PROVE  TablesType' /\ GuessesKnown'
<1>1. Mode[i.ch] # NoMode
  BY AcceptedVerdict
<1>2. TablesType'
  BY <1>1, AcceptGuessType DEF Typed, TypeOK
<1>3. events' = events \cup {NewEvent(i)} /\ NewEvent(i).ch = i.ch
  BY DEF AcceptGuess, NewEvent
<1>4. IsFiniteSet(events')
  BY <1>3, FS_AddElement DEF Typed, GuessesKnown
<1> QED BY <1>1, <1>2, <1>3, <1>4 DEF Typed, GuessesKnown

LEMMA GuessTyped ==
  ASSUME Inv, Typed, Inv', NEW t \in Tasks, Guess(t)
  PROVE  Typed'
<1>1. task[t].phase = "guess" /\ UNCHANGED <<pool, progress, unlocked, sent>>
  BY DEF Guess, accounts
<1>2. /\ progress' \subseteq Users \X Categories
      /\ unlocked' \subseteq Users /\ sent' \subseteq Requests
  BY <1>1 DEF Typed, TypeOK
<1>3. PICK num \in Attempts :
        LET i == GuessInput(t, num)
        IN  /\ i \in Input
            /\ i.user # NoUser => primary[i.user] = i.pl
            /\ \/ /\ Verdict(i) = "ACCEPT"
                  /\ AcceptGuess(i) /\ AfterGuess(t, NewEvent(i).ok)
               \/ /\ Verdict(i) = "REPLAY"
                  /\ UNCHANGED tables /\ AfterGuess(t, i.md = Answer[i.ch])
               \/ UNCHANGED tables /\ Finish(t)
  BY GuessFacts
<1> DEFINE i == GuessInput(t, num)
<1>4. TablesType' /\ GuessesKnown'
  <2>1. CASE UNCHANGED tables
    BY <1>1, <2>1 DEF Typed, TypeOK, TablesType, GuessesKnown, tables
  <2>2. CASE Verdict(i) = "ACCEPT" /\ AcceptGuess(i)
    BY <1>1, <1>3, <2>2, AcceptTyped
  <2> QED BY <1>3, <2>1, <2>2
<1>5. (\A s \in Tasks : s # t => task'[s] = task[s]) /\ TaskTyped(task'[t])
  <2>1. CASE Finish(t)
    BY <2>1, NextTask
  <2>2. CASE task' = [task EXCEPT ![t].phase = "record", ![t].then = "idle"]
    <3>1. DOMAIN task = Tasks /\ DOMAIN task[t] = Fields /\ TaskTyped(task[t])
      BY DEF Inv, TasksFit, Typed
    <3>2. /\ task'[t].phase = "record" /\ task'[t].user = task[t].user /\ task'[t].pl = task[t].pl
          /\ task'[t].todo = task[t].todo /\ task'[t].row = task[t].row
      BY <2>2, <3>1 DEF Fields
    <3>3. TaskTyped(task'[t])
      BY <3>1, <3>2 DEF TaskTyped, Phases
    <3> QED BY <2>2, <3>1, <3>3
  <2>3. \/ Finish(t)
        \/ task' = [task EXCEPT ![t].phase = "record", ![t].then = "idle"]
    BY <1>3 DEF AfterGuess
  <2> QED BY <2>1, <2>2, <2>3
<1> QED BY <1>2, <1>4, <1>5, StepTyped

LEMMA CategoriesKnown ==
  ASSUME NEW u \in Users, NEW solved, solved \subseteq Users \X Challenges
  PROVE  CategoriesOf(u, solved) \subseteq Users \X Categories
<1> SUFFICES ASSUME NEW d \in solved, d[1] = u, <<u, Category[d[2]]>> # <<u, NoCategory>>
             PROVE  Category[d[2]] \in Categories
  BY DEF CategoriesOf
<1> QED BY DEF Categories

LEMMA RecordTyped ==
  ASSUME Inv, Typed, Inv', NEW t \in Tasks, Record(t)
  PROVE  Typed'
<1> DEFINE u == task[t].user
           c == task[t].ch
           Claim(e) == IF e.ch = c /\ e.pl = primary[u] THEN [e EXCEPT !.user = u] ELSE e
<1>1. u \in Users /\ c \in Challenges
  BY DEF Record, Inv, TasksFit
<1>2. /\ events' = {Claim(e) : e \in events}
      /\ progress' = progress \cup CategoriesOf(u, {<<u, c>>})
      /\ Goto(t, "check")
      /\ UNCHANGED <<guessStats, completions, playerStats, pool, unlocked, sent>>
  BY DEF Record
<1>3. \A e \in events : Claim(e).ch = e.ch
  BY DEF Inv, TablesFit, Event
<1> HIDE DEF Claim
<1>4. IsFiniteSet(events')
  <2> DEFINE f == [e \in events |-> Claim(e)]
  <2>1. \A x \in events' : \E e \in events : x = f[e]
    BY <1>2
  <2> HIDE DEF f
  <2> QED BY <2>1, CoveredFinite DEF Typed, GuessesKnown
<1>5. GuessesKnown'
  BY <1>2, <1>3, <1>4 DEF Typed, GuessesKnown
<1>6. TablesType'
  BY <1>2 DEF Typed, TypeOK, TablesType, Inv, TablesFit
<1>7. progress' \subseteq Users \X Categories
  BY <1>1, <1>2, CategoriesKnown DEF Typed, TypeOK
<1>8. unlocked' \subseteq Users /\ sent' \subseteq Requests
  BY <1>2 DEF Typed, TypeOK
<1>9. (\A s \in Tasks : s # t => task'[s] = task[s]) /\ TaskTyped(task'[t])
  BY <1>2, NextTask
<1> QED BY <1>5, <1>6, <1>7, <1>8, <1>9, StepTyped

(* Rows of challenge_guess_stats counted from the guesses. *)
LEMMA RecountType ==
  ASSUME NEW evs, IsFiniteSet(evs), NEW c, NEW m
  PROVE  RecountedStats(evs, c, m) \in GuessStatsRow
<1> DEFINE of == {e \in evs : e.ch = c /\ e.md = m}
           right == {e \in of : e.ok}
           players == {e.pl : e \in of}
           f == [e \in of |-> e.pl]
<1>1. IsFiniteSet(of) /\ IsFiniteSet(right)
  BY FS_Subset
<1>2. \A x \in players : \E e \in of : x = f[e]
  OBVIOUS
<1>3. IsFiniteSet(players)
  <2> HIDE DEF of, players, f
  <2> QED BY <1>1, <1>2, CoveredFinite
<1>4. Cardinality(of) \in Nat /\ Cardinality(right) \in Nat /\ Cardinality(players) \in Nat
  <2> HIDE DEF of, right, players
  <2> QED BY <1>1, <1>3, FS_CardinalityType
<1>5. RecountedStats(evs, c, m) =
        [total |-> Cardinality(of), players |-> Cardinality(players), correct |-> Cardinality(right)]
  BY DEF RecountedStats
<1> HIDE DEF of, right, players
<1> QED BY <1>4, <1>5 DEF GuessStatsRow

LEMMA RemoveTyped ==
  ASSUME Inv, Typed, Inv', NEW t \in Tasks, NEW e \in events, RemoveGuess(t, e)
  PROVE  Typed'
<1> DEFINE u == e.user
           left == events \ {e}
           new == [NoTask EXCEPT !.phase = "read", !.pl = e.pl, !.todo = {Mode[e.ch]}]
<1>1. /\ events' = left /\ u # NoUser
      /\ guessStats' = [k \in Challenges \X Models |->
           IF k[1] # e.ch THEN guessStats[k]
           ELSE IF \E f \in left : f.ch = k[1] /\ f.md = k[2]
             THEN RecountedStats(left, k[1], k[2]) ELSE NoRow]
      /\ progress' = {g \in progress : g[1] # u} \cup CategoriesOf(u, done')
      /\ task' = [task EXCEPT ![t] = new]
      /\ UNCHANGED <<completions, playerStats, pool, unlocked, sent>>
  BY DEF RemoveGuess
<1>2. IsFiniteSet(left) /\ GuessesKnown'
  BY <1>1, FS_RemoveElement DEF Typed, GuessesKnown
<1>3. guessStats' \in [Challenges \X Models -> GuessStatsRow \cup {NoRow}]
  <2>1. \A k \in Challenges \X Models : RecountedStats(left, k[1], k[2]) \in GuessStatsRow
    BY <1>2, RecountType
  <2>2. \A k \in Challenges \X Models : guessStats[k] \in GuessStatsRow \cup {NoRow}
    BY DEF Typed, TypeOK, TablesType
  <2> QED BY <1>1, <2>1, <2>2
<1>4. TablesType'
  BY <1>1, <1>3 DEF Typed, TypeOK, TablesType, Inv, TablesFit
<1>5. e \in Event /\ e.pl \in Players /\ u \in Users /\ Mode[e.ch] \in Modes
  BY <1>1, TablesAssumption DEF Inv, TablesFit, Event, Typed, GuessesKnown
<1>6. progress' \subseteq Users \X Categories
  <2>1. done' \subseteq Users \X Challenges
    BY DEF Inv, TablesFit
  <2>2. CategoriesOf(u, done') \subseteq Users \X Categories
    BY <1>5, <2>1, CategoriesKnown
  <2> QED BY <1>1, <2>2 DEF Typed, TypeOK
<1>7. unlocked' \subseteq Users /\ sent' \subseteq Requests
  BY <1>1 DEF Typed, TypeOK
<1>8. TaskTyped(new)
  BY <1>5 DEF TaskTyped, NoTask, Phases
<1> HIDE DEF new
<1>9. (\A s \in Tasks : s # t => task'[s] = task[s]) /\ task'[t] = new
  BY <1>1 DEF Inv, TasksFit
<1> QED BY <1>2, <1>4, <1>6, <1>7, <1>8, <1>9, StepTyped

(* A merge leaves guesses of the challenges it found, and counts them. *)
LEMMA SyncTyped ==
  ASSUME Inv, Typed, Inv', completions' \in [Challenges -> Nat], NEW t \in Tasks, Sync(t)
  PROVE  Typed'
<1> DEFINE u == task[t].user
           p == task[t].pl
           q == PrimaryFor(u, p)
<1>1. task[t].phase = "sync" /\ u \in Users /\ p \in Players
  BY DEF Sync, Inv, TasksFit
<1>2. CASE LinkedElsewhere(u, p)
  BY <1>2, FailTyped DEF Sync
<1>3. CASE ~LinkedElsewhere(u, p)
  <2> DEFINE touched == {e.ch : e \in {e \in events' : e.user = u}}
             solved == {<<u, e.ch>> : e \in {e \in events' : e.user = u /\ e.ok}}
             next == IF p = q THEN "check" ELSE "modes"
  <2>1. /\ SyncTables(u, p)
        /\ task' = [task EXCEPT ![t].phase = next, ![t].pl = q]
    BY <1>3 DEF Sync
  <2>2. /\ events' = Merged(Claimed(u, p), p, q)
        /\ \/ UNCHANGED <<playerStats, guessStats>>
           \/ /\ playerStats' = DroppedStats(p, q)
              /\ guessStats' = [k \in Challenges \X Models |->
                   IF k[1] \in touched /\ guessStats[k] # NoRow
                     THEN RecountedStats(events', k[1], k[2]) ELSE guessStats[k]]
        /\ progress' = progress \/ progress' = progress \cup CategoriesOf(u, done')
        /\ UNCHANGED <<pool, unlocked, sent>>
    BY <2>1 DEF SyncTables
  <2> HIDE DEF touched
  <2>3. /\ q \in Players
        /\ \A x \in events' : \E e \in events : x = AfterSync(e, u, p, q)
    BY <1>1, <1>3, <2>2, MergeGuesses
  <2>4. IsFiniteSet(events')
    <3> DEFINE f == [e \in events |-> AfterSync(e, u, p, q)]
    <3>1. \A x \in events' : \E e \in events : x = f[e]
      BY <2>3
    <3> HIDE DEF f
    <3> QED BY <3>1, CoveredFinite DEF Typed, GuessesKnown
  <2>5. GuessesKnown'
    <3>1. \A e \in events : AfterSync(e, u, p, q).ch = e.ch
      BY DEF AfterSync, Inv, TablesFit, Event
    <3> QED BY <2>3, <2>4, <3>1 DEF Typed, GuessesKnown
  <2>6. playerStats' \in [Players \X Modes -> PlayerStatsRow \cup {NoRow}]
    BY <2>2 DEF DroppedStats, Typed, TypeOK, TablesType
  <2>7. guessStats' \in [Challenges \X Models -> GuessStatsRow \cup {NoRow}]
    <3>1. \A k \in Challenges \X Models : RecountedStats(events', k[1], k[2]) \in GuessStatsRow
      BY <2>4, RecountType
    <3>2. guessStats \in [Challenges \X Models -> GuessStatsRow \cup {NoRow}]
      BY DEF Typed, TypeOK, TablesType
    <3> QED BY <2>2, <3>1, <3>2
  <2>8. TablesType'
    BY <2>2, <2>6, <2>7 DEF Typed, TypeOK, TablesType, Inv, TablesFit
  <2>9. progress' \subseteq Users \X Categories
    <3>1. done' \subseteq Users \X Challenges
      BY DEF Inv, TablesFit
    <3> QED BY <1>1, <2>2, <3>1, CategoriesKnown DEF Typed, TypeOK
  <2>10. unlocked' \subseteq Users /\ sent' \subseteq Requests
    BY <2>2 DEF Typed, TypeOK
  <2>11. (\A s \in Tasks : s # t => task'[s] = task[s]) /\ TaskTyped(task'[t])
    <3>1. DOMAIN task = Tasks /\ DOMAIN task[t] = Fields /\ TaskTyped(task[t])
      BY DEF Inv, TasksFit, Typed
    <3>2. next \in {"check", "modes"}
      OBVIOUS
    <3> HIDE DEF next, q
    <3>3. /\ task'[t].phase = next /\ task'[t].pl = q /\ task'[t].user = task[t].user
          /\ task'[t].todo = task[t].todo /\ task'[t].row = task[t].row
      BY <2>1, <3>1 DEF Fields
    <3>4. TaskTyped(task'[t])
      BY <2>3, <3>1, <3>2, <3>3 DEF TaskTyped, Phases
    <3> QED BY <2>1, <3>1, <3>4
  <2> QED BY <2>5, <2>8, <2>9, <2>10, <2>11, StepTyped
<1> QED BY <1>2, <1>3

LEMMA TypedNext ==
  ASSUME Inv, Inv', Typed, Counted', [Next]_vars
  PROVE  Typed'
<1>1. CASE UNCHANGED vars
  BY <1>1 DEF Typed, TypeOK, TablesType, GuessesKnown, vars, tables, accounts
<1>2. CASE Next
  <2>1. PICK t \in Tasks : Request(t) \/ Step(t) \/ Drop(t)
    BY <1>2 DEF Next
  <2>2. CASE Request(t)
    BY <2>2, StartTyped, RemoveTyped DEF Request
  <2>3. CASE Step(t)
    BY <2>3, SyncTyped, RebuildTyped, AccessTyped, CanonicalTyped, GuessTyped, RecordTyped
    DEF Step, Counted
  <2>4. CASE Drop(t)
    BY <2>4, FailTyped DEF Drop
  <2> QED BY <2>1, <2>2, <2>3, <2>4
<1> QED BY <1>1, <1>2

(* In every behaviour the types hold that the steps need of one another.   *)
THEOREM TypedAlways == Spec => []Typed
<1>1. Inv /\ Inv' /\ Typed /\ Counted' /\ [Next]_vars => Typed'
  BY TypedNext
<1> QED BY <1>1, InitTyped, CountedAlways, InvAlways, PTL DEF Spec

(* The reachable states of accounts, tables and handlers are well typed.   *)
THEOREM TypeCorrect == Spec => []TypeOK
<1>1. Typed => TypeOK
  BY DEF Typed
<1> QED BY <1>1, TypedAlways, PTL

-----------------------------------------------------------------------------
(* The statistics rows. *)

PlayedBy(p, m, evs) == {c \in Challenges : Mode[c] = m /\ \E e \in evs : e.ch = c /\ e.pl = p}

WonBy(p, m, evs) == {c \in Challenges : Mode[c] = m /\ SolvedBy(c, p, evs)}

NotAhead(row, p, m, evs) ==
  row # NoRow => /\ row.played <= Cardinality(PlayedBy(p, m, evs))
                 /\ row.won <= Cardinality(WonBy(p, m, evs))

(* A rebuild works for the primary player of an account, which no merge    *)
(* empties; the row it has read is not ahead of the guesses stored since.  *)
RebuildLags(r, first, evs) ==
  /\ r.phase \in {"modes", "read", "store"} => r.user \in Users /\ r.pl = first[r.user]
  /\ r.phase = "store" => NotAhead(r.row, r.pl, r.mode, evs)

Lagging ==
  /\ \A p \in Players, m \in Modes : NotAhead(playerStats[<<p, m>>], p, m, events)
  /\ \A t \in Tasks : RebuildLags(task[t], primary, events)

(* What the guesses say a player has played and solved is kept. *)
Keeps(p, evs, more) ==
  \A e \in evs : e.pl = p => \E f \in more : f.ch = e.ch /\ f.pl = p /\ (e.ok => f.ok)

LEMMA GamesCounted ==
  ASSUME NEW p, NEW m, NEW evs
  PROVE  /\ IsFiniteSet(PlayedBy(p, m, evs)) /\ Cardinality(PlayedBy(p, m, evs)) \in Nat
         /\ IsFiniteSet(WonBy(p, m, evs)) /\ Cardinality(WonBy(p, m, evs)) \in Nat
<1>1. PlayedBy(p, m, evs) \in SUBSET Challenges /\ WonBy(p, m, evs) \in SUBSET Challenges
  BY DEF PlayedBy, WonBy
<1>2. IsFiniteSet(PlayedBy(p, m, evs)) /\ IsFiniteSet(WonBy(p, m, evs))
  BY <1>1, FS_Subset, TablesAssumption
<1> QED BY <1>2, FS_CardinalityType

LEMMA StaysBehind ==
  ASSUME NEW row \in PlayerStatsRow \cup {NoRow}, NEW p, NEW m, NEW evs, NEW more,
         Keeps(p, evs, more), NotAhead(row, p, m, evs)
  PROVE  NotAhead(row, p, m, more)
<1> SUFFICES ASSUME row # NoRow PROVE NotAhead(row, p, m, more)
  BY DEF NotAhead
<1>1. row.played \in Nat /\ row.won \in Nat
  BY DEF PlayerStatsRow
<1>2. /\ PlayedBy(p, m, evs) \in SUBSET PlayedBy(p, m, more)
      /\ WonBy(p, m, evs) \in SUBSET WonBy(p, m, more)
  BY DEF Keeps, PlayedBy, WonBy, SolvedBy
<1>3. /\ Cardinality(PlayedBy(p, m, evs)) <= Cardinality(PlayedBy(p, m, more))
      /\ Cardinality(WonBy(p, m, evs)) <= Cardinality(WonBy(p, m, more))
  BY <1>2, GamesCounted, FS_Subset
<1> QED BY <1>1, <1>3, GamesCounted DEF NotAhead

LEMMA InitLagging == Init => Lagging
<1> SUFFICES ASSUME Init PROVE Lagging
  OBVIOUS
<1>1. \A p \in Players, m \in Modes : playerStats[<<p, m>>] = NoRow
  BY DEF Init, TablesInit
<1>2. \A t \in Tasks : task[t].phase = "idle"
  BY DEF Init, NoTask
<1> QED BY <1>1, <1>2 DEF Lagging, NotAhead, RebuildLags

LEMMA StepLagging ==
  ASSUME Typed, Lagging, NEW t \in Tasks, \A s \in Tasks : s # t => task'[s] = task[s],
         RebuildLags(task'[t], primary', events'),
         \A p \in Players, m \in Modes : NotAhead(playerStats'[<<p, m>>], p, m, events'),
         \A u \in Users : primary[u] # NoPlayer =>
           primary'[u] = primary[u] /\ Keeps(primary[u], events, events')
  PROVE  Lagging'
<1>1. ASSUME NEW s \in Tasks, s # t
      PROVE  RebuildLags(task'[s], primary', events')
  <2>1. task'[s] = task[s] /\ TaskTyped(task[s]) /\ RebuildLags(task[s], primary, events)
    BY <1>1 DEF Typed, Lagging
  <2>2. CASE task[s].phase \in {"modes", "read", "store"}
    <3>1. task[s].user \in Users /\ task[s].pl = primary[task[s].user] /\ task[s].pl # NoPlayer
      BY <2>1, <2>2, AccountAssumption DEF TaskTyped, RebuildLags
    <3>2. primary'[task[s].user] = task[s].pl /\ Keeps(task[s].pl, events, events')
      BY <3>1
    <3>3. task[s].phase = "store" => NotAhead(task[s].row, task[s].pl, task[s].mode, events')
      BY <2>1, <3>2, StaysBehind DEF TaskTyped, RebuildLags
    <3> QED BY <2>1, <3>1, <3>2, <3>3 DEF RebuildLags
  <2>3. CASE task[s].phase \notin {"modes", "read", "store"}
    BY <2>1, <2>3 DEF RebuildLags
  <2> QED BY <2>2, <2>3
<1> QED BY <1>1 DEF Lagging

(* A step that changes neither guesses nor rows nor primary players. *)
LEMMA QuietLagging ==
  ASSUME Typed, Lagging, NEW t \in Tasks, \A s \in Tasks : s # t => task'[s] = task[s],
         RebuildLags(task'[t], primary, events), UNCHANGED <<events, playerStats, primary>>
  PROVE  Lagging'
<1>1. \A p : Keeps(p, events, events')
  BY DEF Keeps
<1>2. RebuildLags(task'[t], primary', events')
  OBVIOUS
<1>3. \A p \in Players, m \in Modes : NotAhead(playerStats'[<<p, m>>], p, m, events')
  BY DEF Lagging
<1> QED BY <1>1, <1>2, <1>3, StepLagging

LEMMA ElsewhereLags ==
  ASSUME NEW r, r.phase \notin {"modes", "read", "store"}, NEW first, NEW evs
  PROVE  RebuildLags(r, first, evs)
  BY DEF RebuildLags

(* Requests, failures and the checks of access. *)
LEMMA OtherLagging ==
  ASSUME Inv, Typed, Lagging, NEW t \in Tasks,
         \/ \E u \in Users \cup {NoUser}, p \in Players, c \in Challenges,
               m \in Models, r \in Requests : StartGuess(t, u, p, c, m, r)
         \/ \E u \in Users, p \in Players : StartSync(t, u, p)
         \/ \E u \in Users : StartAccess(t, u)
         \/ Fail(t) \/ CheckAccess(t) \/ Grant(t) \/ Canonical(t)
  PROVE  Lagging'
<1>1. UNCHANGED <<events, playerStats, primary>>
  BY DEF StartGuess, StartSync, StartAccess, Fail, CheckAccess, Grant, Canonical, tables, accounts
<1>2. DOMAIN task = Tasks /\ DOMAIN task[t] = Fields /\ task[t].then \in {"idle", "canonical"}
  BY DEF Inv, TasksFit
<1>3. \A s \in Tasks : s # t => task'[s] = task[s]
  BY <1>2 DEF StartGuess, StartSync, StartAccess, Fail, CheckAccess, Grant, Canonical, Goto, Finish
<1>4. task'[t].phase \in {"idle", "guess", "canonical", "sync", "check", "grant"}
  <2>1. CASE \E u \in Users \cup {NoUser}, p \in Players, c \in Challenges,
                m \in Models, r \in Requests : StartGuess(t, u, p, c, m, r)
    <3>1. PICK u \in Users \cup {NoUser}, p \in Players, c \in Challenges,
               m \in Models, r \in Requests : StartGuess(t, u, p, c, m, r)
      BY <2>1
    <3> DEFINE new == [NoTask EXCEPT !.phase = IF u = NoUser THEN "guess" ELSE "canonical",
                                     !.user = u, !.pl = p, !.ch = c, !.md = m, !.req = r]
    <3>2. task' = [task EXCEPT ![t] = new] /\ new.phase \in {"guess", "canonical"}
      BY <3>1 DEF StartGuess, NoTask
    <3> HIDE DEF new
    <3> QED BY <1>2, <3>2
  <2>2. CASE \E u \in Users, p \in Players : StartSync(t, u, p)
    BY <1>2, <2>2 DEF StartSync, NoTask
  <2>3. CASE \E u \in Users : StartAccess(t, u)
    BY <1>2, <2>3 DEF StartAccess, NoTask
  <2>4. CASE Fail(t) \/ CheckAccess(t) \/ Grant(t)
    BY <1>2, <2>4 DEF Fail, CheckAccess, Grant, Finish, Goto, NoTask, Fields
  <2>5. CASE Canonical(t)
    BY <1>2, <2>5 DEF Canonical, Fields
  <2> QED BY <2>1, <2>2, <2>3, <2>4, <2>5
<1> QED BY <1>1, <1>3, <1>4, ElsewhereLags, QuietLagging

(* A row is read from the guesses as they are, and stored when there may   *)
(* be more of them.                                                        *)
LEMMA RebuildLagging ==
  ASSUME Inv, Typed, Lagging, NEW t \in Tasks, ReadModes(t) \/ ReadRows(t) \/ StoreRow(t)
  PROVE  Lagging'
<1>1. UNCHANGED <<events, primary>>
  BY DEF ReadModes, ReadRows, StoreRow, tables, accounts
<1>2. /\ DOMAIN task = Tasks /\ DOMAIN task[t] = Fields /\ TaskTyped(task[t])
      /\ task[t].user \in Users /\ task[t].pl = primary[task[t].user]
      /\ task[t].phase = "store" => NotAhead(task[t].row, task[t].pl, task[t].mode, events)
  BY DEF ReadModes, ReadRows, StoreRow, Inv, TasksFit, Typed, Lagging, RebuildLags
<1>3. CASE ReadModes(t)
  <2> DEFINE modes == {Mode[e.ch] : e \in {e \in events : e.pl = task[t].pl}}
             phase == IF modes = {} THEN "check" ELSE "read"
  <2>1. task' = [task EXCEPT ![t].todo = modes, ![t].phase = phase] /\ UNCHANGED playerStats
    BY <1>3 DEF ReadModes, tables
  <2>2. phase \in {"check", "read"}
    OBVIOUS
  <2> HIDE DEF modes, phase
  <2>3. task'[t].phase = phase /\ task'[t].user = task[t].user /\ task'[t].pl = task[t].pl
    BY <1>2, <2>1 DEF Fields
  <2>4. RebuildLags(task'[t], primary, events)
    BY <1>2, <2>2, <2>3 DEF RebuildLags
  <2> QED BY <1>1, <1>2, <2>1, <2>4, QuietLagging
<1>4. CASE ReadRows(t)
  <2>1. PICK m \in task[t].todo :
          task' = [task EXCEPT ![t].phase = "store", ![t].mode = m,
                               ![t].row = RebuiltRow(task[t].pl, m)]
    BY <1>4 DEF ReadRows
  <2>2. /\ task'[t].phase = "store" /\ task'[t].mode = m
        /\ task'[t].row = RebuiltRow(task[t].pl, m) /\ task'[t].user = task[t].user
        /\ task'[t].pl = task[t].pl
    BY <1>2, <2>1 DEF Fields
  <2>3. NotAhead(RebuiltRow(task[t].pl, m), task[t].pl, m, events)
    <3> DEFINE p == task[t].pl
               played == {c \in Challenges : Mode[c] = m /\ EventsOf(c, p) # {}}
               won == {c \in played : Solved(c, p)}
    <3>1. played = PlayedBy(p, m, events)
      BY DEF PlayedBy, EventsOf
    <3>2. won = WonBy(p, m, events)
      BY DEF WonBy, EventsOf, Solved, SolvedBy
    <3>3. RebuiltRow(p, m) # NoRow =>
            /\ RebuiltRow(p, m).played = Cardinality(played)
            /\ RebuiltRow(p, m).won = Cardinality(won)
      BY DEF RebuiltRow
    <3> HIDE DEF played, won
    <3> QED BY <3>1, <3>2, <3>3, GamesCounted DEF NotAhead
  <2>4. RebuildLags(task'[t], primary, events)
    BY <1>2, <2>2, <2>3 DEF RebuildLags
  <2>5. UNCHANGED playerStats
    BY <1>4 DEF ReadRows, tables
  <2> QED BY <1>1, <1>2, <2>1, <2>4, <2>5, QuietLagging
<1>5. CASE StoreRow(t)
  <2> DEFINE key == <<task[t].pl, task[t].mode>>
  <2>1. playerStats' = [playerStats EXCEPT ![key] = task[t].row] /\ task[t].phase = "store"
    BY <1>5 DEF StoreRow
  <2>2. ASSUME NEW p \in Players, NEW m \in Modes
        PROVE  NotAhead(playerStats'[<<p, m>>], p, m, events')
    <3>1. NotAhead(playerStats[<<p, m>>], p, m, events) /\ <<p, m>> \in DOMAIN playerStats
      BY DEF Lagging, Typed, TypeOK, TablesType
    <3>2. CASE <<p, m>> = key
      BY <1>1, <1>2, <2>1, <3>1, <3>2
    <3>3. CASE <<p, m>> # key
      BY <1>1, <2>1, <3>1, <3>3
    <3> QED BY <3>2, <3>3
  <2>3. (\A s \in Tasks : s # t => task'[s] = task[s]) /\ RebuildLags(task'[t], primary', events')
    <3>1. CASE Finish(t)
      <4>1. task'[t].phase = "idle"
        BY <1>2, <3>1 DEF Finish, NoTask
      <4> QED BY <1>2, <3>1, <4>1, ElsewhereLags DEF Finish
    <3>2. CASE ~Finish(t)
      <4> DEFINE rest == task[t].todo \ {task[t].mode}
      <4>1. PICK phase \in {"read", "check"} :
              task' = [task EXCEPT ![t].todo = rest, ![t].row = NoRow, ![t].phase = phase]
        BY <1>5, <3>2 DEF StoreRow
      <4> HIDE DEF rest
      <4>2. task'[t].phase = phase /\ task'[t].user = task[t].user /\ task'[t].pl = task[t].pl
        BY <1>2, <4>1 DEF Fields
      <4>3. RebuildLags(task'[t], primary', events')
        BY <1>1, <1>2, <4>2 DEF RebuildLags
      <4> QED BY <1>2, <4>1, <4>3
    <3> QED BY <3>1, <3>2
  <2>4. \A p : Keeps(p, events, events')
    BY <1>1 DEF Keeps
  <2> QED BY <1>1, <2>2, <2>3, <2>4, StepLagging
<1> QED BY <1>3, <1>4, <1>5

(* An accepted guess counts a game with its first guess, and a win with    *)
(* the guess that solves it.                                               *)
LEMMA AcceptNotAhead ==
  ASSUME Typed, Lagging, NEW i \in Input, Verdict(i) = "ACCEPT", AcceptGuess(i),
         NEW p \in Players, NEW m \in Modes
  PROVE  NotAhead(playerStats'[<<p, m>>], p, m, events')
<1> DEFINE n == NewEvent(i)
           key == <<i.pl, Mode[i.ch]>>
           row == playerStats[<<p, m>>]
           first == EventsOf(i.ch, i.pl) = {}
<1>1. /\ events' = events \cup {n} /\ n.ch = i.ch /\ n.pl = i.pl /\ n.ok \in BOOLEAN
      /\ playerStats' = [playerStats EXCEPT ![key] = NextPlayerStats(@, i, first, n.ok)]
      /\ i.ch \in Challenges /\ i.pl \in Players
  BY DEF AcceptGuess, NewEvent, Input
<1>2. /\ row \in PlayerStatsRow \cup {NoRow} /\ NotAhead(row, p, m, events)
      /\ <<p, m>> \in DOMAIN playerStats
  BY DEF Typed, TypeOK, TablesType, Lagging
<1>3. Keeps(p, events, events')
  BY <1>1 DEF Keeps
<1>4. CASE <<p, m>> # key
  <2>1. playerStats'[<<p, m>>] = row
    BY <1>1, <1>2, <1>4
  <2> QED BY <1>2, <1>3, <2>1, StaysBehind
<1>5. CASE <<p, m>> = key
  <2> DEFINE old == IF row = NoRow THEN FreshStats ELSE row
             new == NextPlayerStats(row, i, first, n.ok)
             P == PlayedBy(p, m, events)
             W == WonBy(p, m, events)
  <2>1. p = i.pl /\ m = Mode[i.ch]
    BY <1>5
  <2>2. playerStats'[<<p, m>>] = new
    BY <1>1, <1>2, <1>5
  <2>3. new.played = old.played + Bit(first) /\ new.won = old.won + Bit(n.ok)
    BY DEF NextPlayerStats, GamesPlayed
  <2>4. /\ old.played \in Nat /\ old.won \in Nat
        /\ old.played <= Cardinality(P) /\ old.won <= Cardinality(W)
    BY <1>2, GamesCounted DEF FreshStats, PlayerStatsRow, NotAhead
  <2>5. IsFiniteSet(P) /\ Cardinality(P) \in Nat /\ IsFiniteSet(W) /\ Cardinality(W) \in Nat
    BY GamesCounted
  <2>6. PlayedBy(p, m, events') = P \cup {i.ch} /\ (first => i.ch \notin P) /\ (~first => i.ch \in P)
    BY <1>1, <2>1 DEF PlayedBy, EventsOf
  <2>7. WonBy(p, m, events') = IF n.ok THEN W \cup {i.ch} ELSE W
    BY <1>1, <2>1 DEF WonBy, SolvedBy
  <2>8. i.ch \notin W
    BY <2>1, AcceptedVerdict DEF WonBy, SolvedBy, AlreadyCompleted, Solved, EventsOf
  <2>9. new.played <= Cardinality(PlayedBy(p, m, events'))
    <3> HIDE DEF P, new, old, first
    <3>1. CASE first
      <4>1. Cardinality(P \cup {i.ch}) = Cardinality(P) + 1
        BY <2>5, <2>6, <3>1, FS_AddElement
      <4> QED BY <2>3, <2>4, <2>5, <2>6, <3>1, <4>1 DEF Bit
    <3>2. CASE ~first
      <4>1. P \cup {i.ch} = P
        BY <2>6, <3>2
      <4> QED BY <2>3, <2>4, <2>5, <2>6, <3>2, <4>1 DEF Bit
    <3> QED BY <3>1, <3>2
  <2>10. new.won <= Cardinality(WonBy(p, m, events'))
    <3> HIDE DEF W, new, old, first, n
    <3>1. CASE n.ok
      <4>1. Cardinality(W \cup {i.ch}) = Cardinality(W) + 1
        BY <2>5, <2>8, FS_AddElement
      <4> QED BY <2>3, <2>4, <2>5, <2>7, <3>1, <4>1 DEF Bit
    <3>2. CASE ~n.ok
      BY <2>3, <2>4, <2>5, <2>7, <3>2 DEF Bit
    <3> QED BY <3>1, <3>2
  <2> HIDE DEF new
  <2> QED BY <2>2, <2>9, <2>10 DEF NotAhead
<1> QED BY <1>4, <1>5

LEMMA GuessLagging ==
  ASSUME Inv, Typed, Lagging, NEW t \in Tasks, Guess(t)
  PROVE  Lagging'
<1>1. task[t].phase = "guess" /\ UNCHANGED primary
  BY DEF Guess, accounts
<1>2. PICK num \in Attempts :
        LET i == GuessInput(t, num)
        IN  /\ i \in Input
            /\ i.user # NoUser => primary[i.user] = i.pl
            /\ \/ /\ Verdict(i) = "ACCEPT"
                  /\ AcceptGuess(i) /\ AfterGuess(t, NewEvent(i).ok)
               \/ /\ Verdict(i) = "REPLAY"
                  /\ UNCHANGED tables /\ AfterGuess(t, i.md = Answer[i.ch])
               \/ UNCHANGED tables /\ Finish(t)
  BY GuessFacts
<1> DEFINE i == GuessInput(t, num)
<1>3. (\A s \in Tasks : s # t => task'[s] = task[s]) /\ task'[t].phase \in {"idle", "record"}
  <2>1. DOMAIN task = Tasks /\ DOMAIN task[t] = Fields
    BY DEF Inv, TasksFit
  <2>2. \/ Finish(t)
        \/ task' = [task EXCEPT ![t].phase = "record", ![t].then = "idle"]
    BY <1>2 DEF AfterGuess
  <2> QED BY <2>1, <2>2 DEF Finish, NoTask, Fields
<1>4. CASE UNCHANGED tables
  BY <1>1, <1>3, <1>4, ElsewhereLags, QuietLagging DEF tables
<1>5. CASE Verdict(i) = "ACCEPT" /\ AcceptGuess(i)
  <2>1. \A p \in Players, m \in Modes : NotAhead(playerStats'[<<p, m>>], p, m, events')
    BY <1>2, <1>5, AcceptNotAhead
  <2>2. \A p : Keeps(p, events, events')
    BY <1>5 DEF Keeps, AcceptGuess
  <2> QED BY <1>1, <1>3, <2>1, <2>2, ElsewhereLags, StepLagging
<1> QED BY <1>2, <1>4, <1>5

LEMMA RecordLagging ==
  ASSUME Inv, Typed, Lagging, NEW t \in Tasks, Record(t)
  PROVE  Lagging'
<1> DEFINE u == task[t].user
           Claim(e) == IF e.ch = task[t].ch /\ e.pl = primary[u] THEN [e EXCEPT !.user = u] ELSE e
<1>1. /\ events' = {Claim(e) : e \in events}
      /\ UNCHANGED <<playerStats, primary>> /\ Goto(t, "check")
  BY DEF Record
<1>2. \A e \in events : Claim(e).ch = e.ch /\ Claim(e).pl = e.pl /\ Claim(e).ok = e.ok
  BY DEF Inv, TablesFit, Event
<1> HIDE DEF Claim
<1>3. \A p : Keeps(p, events, events')
  BY <1>1, <1>2 DEF Keeps
<1>4. \A p \in Players, m \in Modes : NotAhead(playerStats'[<<p, m>>], p, m, events')
  <2>1. \A p \in Players, m \in Modes :
          playerStats[<<p, m>>] \in PlayerStatsRow \cup {NoRow}
    BY DEF Typed, TypeOK, TablesType
  <2> QED BY <1>1, <1>3, <2>1, StaysBehind DEF Lagging
<1>5. (\A s \in Tasks : s # t => task'[s] = task[s]) /\ task'[t].phase = "check"
  <2>1. DOMAIN task = Tasks /\ DOMAIN task[t] = Fields
    BY DEF Inv, TasksFit
  <2> QED BY <1>1, <2>1 DEF Goto, Fields
<1> QED BY <1>1, <1>3, <1>4, <1>5, ElsewhereLags, StepLagging

(* A merge drops the rows of both players, and takes guesses only from the *)
(* device, which is no account's primary player.                           *)
LEMMA SyncLagging ==
  ASSUME Inv, Typed, Lagging, NEW t \in Tasks, Sync(t)
  PROVE  Lagging'
<1> DEFINE u == task[t].user
           p == task[t].pl
           q == PrimaryFor(u, p)
<1>1. task[t].phase = "sync" /\ u \in Users /\ p \in Players
  BY DEF Sync, Inv, TasksFit
<1>2. CASE LinkedElsewhere(u, p)
  BY <1>2, OtherLagging DEF Sync
<1>3. CASE ~LinkedElsewhere(u, p)
  <2>1. /\ SyncTables(u, p)
        /\ task' = [task EXCEPT ![t].phase = IF p = q THEN "check" ELSE "modes", ![t].pl = q]
    BY <1>3 DEF Sync
  <2>2. /\ primary' = [primary EXCEPT ![u] = q]
        /\ events' = Merged(Claimed(u, p), p, q)
        /\ playerStats' = IF p = q THEN playerStats ELSE DroppedStats(p, q)
    BY <2>1 DEF SyncTables
  <2>3. /\ q \in Players
        /\ \A e \in events : Left(e, p, q) => AfterSync(e, u, p, q) \in events'
    BY <1>1, <1>3, <2>2, MergeGuesses
  <2>4. \A e \in events :
          /\ AfterSync(e, u, p, q).ch = e.ch /\ AfterSync(e, u, p, q).ok = e.ok
          /\ AfterSync(e, u, p, q).pl = IF e.pl = p THEN q ELSE e.pl
    BY DEF AfterSync, Inv, TablesFit, Event
  <2>5. \A x : x # p \/ p = q => Keeps(x, events, events')
    <3> SUFFICES ASSUME NEW x, x # p \/ p = q, NEW e \in events, e.pl = x
                 PROVE  \E f \in events' : f.ch = e.ch /\ f.pl = x /\ (e.ok => f.ok)
      BY DEF Keeps
    <3>1. AfterSync(e, u, p, q) \in events'
      BY <2>3 DEF Left
    <3>2. AfterSync(e, u, p, q).pl = x
      BY <2>4
    <3> QED BY <2>4, <3>1, <3>2
  <2>6. ASSUME NEW x \in Players, NEW m \in Modes
        PROVE  NotAhead(playerStats'[<<x, m>>], x, m, events')
    <3>1. /\ playerStats[<<x, m>>] \in PlayerStatsRow \cup {NoRow}
          /\ NotAhead(playerStats[<<x, m>>], x, m, events)
      BY DEF Typed, TypeOK, TablesType, Lagging
    <3>2. CASE p # q /\ x \in {p, q}
      <4>1. playerStats'[<<x, m>>] = NoRow
        BY <2>2, <3>2 DEF DroppedStats
      <4> QED BY <4>1 DEF NotAhead
    <3>3. CASE ~(p # q /\ x \in {p, q})
      <4>1. playerStats'[<<x, m>>] = playerStats[<<x, m>>]
        BY <2>2, <3>3 DEF DroppedStats
      <4> QED BY <2>5, <3>1, <3>3, <4>1, StaysBehind
    <3> QED BY <3>2, <3>3
  <2>7. ASSUME NEW v \in Users, primary[v] # NoPlayer
        PROVE  primary'[v] = primary[v] /\ Keeps(primary[v], events, events')
    <3>1. link[primary[v]] = v
      BY <2>7 DEF Inv, Owned
    <3>2. primary'[v] = primary[v]
      BY <2>2, <2>7 DEF PrimaryFor, Inv, TablesFit
    <3>3. primary[v] = p => p = q
      BY <1>1, <1>3, <2>7, <3>1, TablesAssumption DEF LinkedElsewhere, PrimaryFor
    <3> QED BY <2>5, <3>2, <3>3
  <2>8. (\A s \in Tasks : s # t => task'[s] = task[s]) /\ RebuildLags(task'[t], primary', events')
    <3>1. DOMAIN task = Tasks /\ DOMAIN task[t] = Fields
      BY DEF Inv, TasksFit
    <3>2. /\ task'[t].phase \in {"check", "modes"}
          /\ task'[t].pl = q /\ task'[t].user = u
      BY <2>1, <3>1 DEF Fields
    <3>3. primary'[u] = q
      BY <1>1, <2>2 DEF Inv, TablesFit
    <3>4. RebuildLags(task'[t], primary', events')
      BY <1>1, <3>2, <3>3 DEF RebuildLags
    <3> QED BY <2>1, <3>1, <3>4
  <2> QED BY <2>6, <2>7, <2>8, StepLagging
<1> QED BY <1>2, <1>3

(* A statistics row is never ahead of the player's stored guesses, for any *)
(* number of devices merged, rows rebuilt and handlers dropped, while no   *)
(* guess is removed.                                                       *)
THEOREM StatsNeverAheadAlways ==
  ASSUME MayModerate = FALSE
  PROVE  Spec => []StatsNeverAhead
<1>1. Inv /\ Typed /\ Lagging /\ [Next]_vars => Lagging'
  <2> SUFFICES ASSUME Inv, Typed, Lagging, [Next]_vars PROVE Lagging'
    OBVIOUS
  <2>1. CASE UNCHANGED vars
    <3>1. UNCHANGED <<events, playerStats, primary, task>>
      BY <2>1 DEF vars, tables, accounts
    <3> QED BY <3>1 DEF Lagging
  <2>2. CASE Next
    <3>1. PICK t \in Tasks : Request(t) \/ Step(t) \/ Drop(t)
      BY <2>2 DEF Next
    <3>2. CASE Request(t)
      BY <3>2, OtherLagging DEF Request
    <3>3. CASE Step(t)
      BY <3>3, SyncLagging, RebuildLagging, OtherLagging, GuessLagging, RecordLagging DEF Step
    <3>4. CASE Drop(t)
      BY <3>4, OtherLagging DEF Drop
    <3> QED BY <3>1, <3>2, <3>3, <3>4
  <2> QED BY <2>1, <2>2
<1>2. Lagging => StatsNeverAhead
  <2> SUFFICES ASSUME Lagging, NEW p \in Players, NEW m \in Modes, playerStats[<<p, m>>] # NoRow
               PROVE  LET played == {c \in Challenges : Mode[c] = m /\ EventsOf(c, p) # {}}
                      IN  /\ playerStats[<<p, m>>].played <= Cardinality(played)
                          /\ playerStats[<<p, m>>].won <= Cardinality({c \in played : Solved(c, p)})
    BY DEF StatsNeverAhead
  <2> DEFINE played == {c \in Challenges : Mode[c] = m /\ EventsOf(c, p) # {}}
             won == {c \in played : Solved(c, p)}
  <2>1. played = PlayedBy(p, m, events)
    BY DEF PlayedBy, EventsOf
  <2>2. won = WonBy(p, m, events)
    BY DEF WonBy, EventsOf, Solved, SolvedBy
  <2> HIDE DEF played, won
  <2>3. /\ playerStats[<<p, m>>].played <= Cardinality(played)
        /\ playerStats[<<p, m>>].won <= Cardinality(won)
    BY <2>1, <2>2 DEF Lagging, NotAhead
  <2> QED BY <2>3 DEF played, won
<1> QED BY <1>1, <1>2, InitLagging, InvAlways, TypedAlways, PTL DEF Spec
=============================================================================
