---------------------------- MODULE TimelineProofs ----------------------------
(***************************************************************************)
(* Proofs about Timeline for every number of players, accounts, challenges *)
(* and calls, and for a clock of any range.                                *)
(***************************************************************************)
EXTENDS Timeline, FiniteSetTheorems, TLAPS

IsRun(c) == Difficulty[c] = "speedrun"

(* Players and submissions belong to at most one account, and only the     *)
(* primary player of one starts a Speedrun: why a run never moves to       *)
(* another player.                                                         *)
Owned ==
  /\ \A u \in Users : primary[u] # NoPlayer => link[primary[u]] = u
  /\ \A a \in attempts : a.user # NoUser => link[a.pl] = a.user
  /\ \A c \in Challenges, p \in Players :
       starts[<<c, p>>] # None => IsRun(c) /\ \E u \in Users : primary[u] = p

RunsStarted == \A a \in attempts : IsRun(a.ch) => starts[<<a.ch, a.pl>>] # None

SolvedOnce ==
  \A a, b \in attempts :
    a.ok /\ b.ok /\ a.ch = b.ch /\ a.pl = b.pl /\ IsRun(a.ch) => a = b

(* What a call found on its snapshot still holds while it may write. *)
CallsCurrent ==
  \A k \in Calls, i \in Input :
    call[k] = i => /\ VerdictOf(i) = "WRITE"
                   /\ i.user # NoUser => i.pl = primary[i.user]

Inv ==
  /\ TypeOK
  /\ IsFiniteSet(attempts)
  /\ Owned
  /\ RunsStarted
  /\ SolvedOnce
  /\ CallsCurrent
  /\ GivenUpUnsolved
  /\ RunsTimed
  /\ CompletionsBacked

LEMMA InitInv == Init => Inv
<1> SUFFICES ASSUME Init PROVE Inv
  OBVIOUS
<1>1. TypeOK
  BY TimelineAssumption DEF Init, TypeOK, Time
<1>2. IsFiniteSet(attempts)
  BY FS_EmptySet DEF Init
<1>3. Owned /\ RunsStarted /\ SolvedOnce /\ CompletionsBacked /\ RunsTimed
  BY DEF Init, Owned, RunsStarted, SolvedOnce, CompletionsBacked, RunsTimed
<1>4. CallsCurrent /\ GivenUpUnsolved
  BY NoneAssumption DEF Init, CallsCurrent, GivenUpUnsolved
<1> QED BY <1>1, <1>2, <1>3, <1>4 DEF Inv

-----------------------------------------------------------------------------
(* Steps that leave the tables alone. *)

LEMMA VerdictUnchanged ==
  ASSUME UNCHANGED <<attempts, starts>>, NEW i \in Input
  PROVE  VerdictOf(i)' = VerdictOf(i)
  BY DEF VerdictOf, AttemptVerdict, GiveUpVerdict, StartVerdict, Solved, AttemptsOf,
         SameAttempt, Limit

LEMMA QuietInv ==
  ASSUME Inv, UNCHANGED <<attempts, starts, completed, link, primary>>,
         now' \in Time, call' \in [Calls -> Input \cup {None}],
         \A k \in Calls, i \in Input :
           call'[k] = i => \/ call[k] = i
                          \/ /\ VerdictOf(i) = "WRITE"
                             /\ i.user # NoUser => i.pl = primary[i.user]
  PROVE  Inv'
<1>1. TypeOK' /\ IsFiniteSet(attempts')
  BY DEF Inv, TypeOK
<1>2. Owned' /\ RunsStarted' /\ SolvedOnce' /\ CompletionsBacked' /\ RunsTimed'
  BY DEF Inv, Owned, RunsStarted, SolvedOnce, CompletionsBacked, RunsTimed
<1>3. GivenUpUnsolved'
  BY DEF Inv, GivenUpUnsolved, Solved, AttemptsOf
<1>4. CallsCurrent'
  BY VerdictUnchanged DEF Inv, CallsCurrent
<1> QED BY <1>1, <1>2, <1>3, <1>4 DEF Inv

LEMMA SnapshotInv ==
  ASSUME Inv, NEW k \in Calls, NEW i \in Input, Snapshot(k, i)
  PROVE  Inv'
<1>1. UNCHANGED <<attempts, starts, completed, link, primary>> /\ now' \in Time
  BY DEF Snapshot, Tables, Inv, TypeOK
<1>2. call' \in [Calls -> Input \cup {None}]
  BY DEF Snapshot, Inv, TypeOK
<1>3. \A j \in Calls : call'[j] = IF j = k THEN i ELSE call[j]
  BY DEF Snapshot, Inv, TypeOK
<1>4. VerdictOf(i) = "WRITE" /\ (i.user # NoUser => i.pl = primary[i.user])
  BY DEF Snapshot
<1> QED BY <1>1, <1>2, <1>3, <1>4, QuietInv

LEMMA RollBackInv ==
  ASSUME Inv, NEW k \in Calls, RollBack(k)
  PROVE  Inv'
<1>1. UNCHANGED <<attempts, starts, completed, link, primary>> /\ now' \in Time
  BY DEF RollBack, Tables, Inv, TypeOK
<1>2. call' \in [Calls -> Input \cup {None}]
  BY DEF RollBack, Inv, TypeOK
<1>3. \A j \in Calls : call'[j] = IF j = k THEN None ELSE call[j]
  BY DEF RollBack, Inv, TypeOK
<1> QED BY <1>1, <1>2, <1>3, QuietInv, NoneAssumption

LEMMA TickInv ==
  ASSUME Inv, Tick
  PROVE  Inv'
<1>1. now' \in Time
  BY TimelineAssumption DEF Tick, Time, Inv, TypeOK
<1>2. /\ UNCHANGED <<attempts, starts, completed, link, primary>>
      /\ call' = call /\ call' \in [Calls -> Input \cup {None}]
  BY DEF Tick, Inv, TypeOK
<1> QED BY <1>1, <1>2, QuietInv

-----------------------------------------------------------------------------
(* Steps that commit: no other call stays open. *)

LEMMA CommitCalls ==
  ASSUME NEW k \in Calls, Commit(k)
  PROVE  call' \in [Calls -> Input \cup {None}] /\ CallsCurrent'
  BY NoneAssumption DEF Commit, CallsCurrent

LEMMA StartInv ==
  ASSUME Inv, NEW k \in Calls, WriteStart(k)
  PROVE  Inv'
<1> DEFINE i == call[k]
<1> DEFINE key == <<i.ch, i.pl>>
<1>1. i \in Input /\ i.kind = "start"
  BY DEF WriteStart, Inv, TypeOK
<1>2. i.ch \in Challenges /\ i.pl \in Players /\ i.user \in Users
  BY <1>1 DEF Input
<1>3. /\ starts' = [starts EXCEPT ![key] = StartedRow(starts[key])]
      /\ UNCHANGED <<attempts, completed, link, primary, now>> /\ Commit(k)
  BY DEF WriteStart
<1>4. StartedRow(starts[key]) \in Start /\ key \in Challenges \X Players
  BY <1>2 DEF StartedRow, Start, Inv, TypeOK
<1>5. \A x \in Challenges \X Players :
        /\ starts'[x] = IF x = key THEN StartedRow(starts[key]) ELSE starts[x]
        /\ starts[x] # None => starts'[x] = starts[x]
  BY <1>3, <1>4 DEF Inv, TypeOK, StartedRow
<1>6. TypeOK' /\ IsFiniteSet(attempts') /\ CallsCurrent'
  BY <1>3, <1>4, CommitCalls DEF Inv, TypeOK
<1>7. Owned'
  <2>1. i.pl = primary[i.user]
    BY <1>1, <1>2, TimelineAssumption DEF Inv, CallsCurrent
  <2>2. IsRun(i.ch)
    BY <1>1 DEF Inv, CallsCurrent, VerdictOf, StartVerdict, IsRun
  <2> QED BY <1>2, <1>3, <1>5, <2>1, <2>2 DEF Inv, Owned
<1>8. RunsStarted' /\ RunsTimed'
  BY <1>3, <1>5 DEF Inv, RunsStarted, RunsTimed, TypeOK, Attempt
<1>9. SolvedOnce' /\ CompletionsBacked'
  BY <1>3 DEF Inv, SolvedOnce, CompletionsBacked
<1>10. GivenUpUnsolved'
  <2> SUFFICES ASSUME NEW c \in Challenges, NEW p \in Players,
                      starts'[<<c, p>>] # None, starts'[<<c, p>>].gaveUp # None
               PROVE  ~Solved(c, p)'
    BY DEF GivenUpUnsolved
  <2>1. starts[<<c, p>>] # None
    BY <1>5 DEF StartedRow
  <2>2. starts'[<<c, p>>] = starts[<<c, p>>]
    BY <1>5, <2>1
  <2> QED BY <2>1, <2>2, <1>3 DEF Inv, GivenUpUnsolved, Solved, AttemptsOf
<1> QED BY <1>6, <1>7, <1>8, <1>9, <1>10 DEF Inv

LEMMA GiveUpInv ==
  ASSUME Inv, NEW k \in Calls, WriteGiveUp(k)
  PROVE  Inv'
<1> DEFINE i == call[k]
<1> DEFINE key == <<i.ch, i.pl>>
<1>1. CASE starts[key] = None
  BY <1>1, RollBackInv DEF WriteGiveUp
<1>2. CASE starts[key] # None
  <2>1. i \in Input /\ i.kind = "give up"
    BY DEF WriteGiveUp, Inv, TypeOK
  <2>2. key \in Challenges \X Players /\ i.ch \in Challenges /\ i.pl \in Players
    BY <2>1 DEF Input
  <2>3. ~Solved(i.ch, i.pl)
    BY <2>1 DEF Inv, CallsCurrent, VerdictOf, GiveUpVerdict
  <2>4. /\ starts' = [starts EXCEPT ![key].gaveUp = IF @ = None THEN now ELSE @]
        /\ UNCHANGED <<attempts, completed, link, primary, now>> /\ Commit(k)
    BY <1>2 DEF WriteGiveUp
  <2>5. starts[key] \in Start /\ now \in Time
    BY <1>2, <2>2 DEF Inv, TypeOK
  <2>6. /\ starts'[key] \in Start /\ starts'[key].at = starts[key].at
        /\ \A x \in Challenges \X Players : x # key => starts'[x] = starts[x]
    BY <2>2, <2>4, <2>5 DEF Inv, TypeOK, Start
  <2>7. starts' \in [Challenges \X Players -> Start \cup {None}]
    BY <2>2, <2>4, <2>5 DEF Inv, TypeOK, Start
  <2>8. TypeOK' /\ IsFiniteSet(attempts') /\ CallsCurrent'
    BY <2>4, <2>7, CommitCalls DEF Inv, TypeOK
  <2>9. \A c \in Challenges, p \in Players :
          (starts'[<<c, p>>] # None) <=> (starts[<<c, p>>] # None)
    BY <1>2, <2>6, NoneAssumption
  <2>10. Owned' /\ RunsStarted'
    <3>1. Owned'
      BY <2>4, <2>9 DEF Inv, Owned
    <3>2. ASSUME NEW a \in attempts, IsRun(a.ch) PROVE starts'[<<a.ch, a.pl>>] # None
      <4>1. a.ch \in Challenges /\ a.pl \in Players
        BY DEF Inv, TypeOK, Attempt
      <4>2. starts[<<a.ch, a.pl>>] # None
        BY <3>2 DEF Inv, RunsStarted
      <4> QED BY <2>9, <4>1, <4>2
    <3> QED BY <2>4, <3>1, <3>2 DEF RunsStarted
  <2>11. RunsTimed'
    <3>1. \A a \in attempts : <<a.ch, a.pl>> \in Challenges \X Players
      BY DEF Inv, TypeOK, Attempt
    <3>2. \A x \in Challenges \X Players : starts[x] # None =>
            starts'[x] # None /\ starts'[x].at = starts[x].at
      BY <2>6, NoneAssumption
    <3> HIDE DEF key, i
    <3> QED BY <2>4, <3>1, <3>2 DEF Inv, RunsTimed
  <2>12. SolvedOnce' /\ CompletionsBacked'
    BY <2>4 DEF Inv, SolvedOnce, CompletionsBacked
  <2>13. GivenUpUnsolved'
    <3> SUFFICES ASSUME NEW c \in Challenges, NEW p \in Players,
                        starts'[<<c, p>>] # None, starts'[<<c, p>>].gaveUp # None
                 PROVE  ~Solved(c, p)'
      BY DEF GivenUpUnsolved
    <3>1. Solved(c, p)' = Solved(c, p)
      BY <2>4 DEF Solved, AttemptsOf
    <3>2. CASE <<c, p>> = key
      BY <2>3, <3>1, <3>2
    <3>3. CASE <<c, p>> # key
      BY <2>6, <3>1, <3>3 DEF Inv, GivenUpUnsolved
    <3> QED BY <3>2, <3>3
  <2> QED BY <2>8, <2>10, <2>11, <2>12, <2>13 DEF Inv
<1> QED BY <1>1, <1>2

(* What an open submission may rely on when it writes. *)
LEMMA OpenAttempt ==
  ASSUME Inv, NEW k \in Calls, WriteAttempt(k)
  PROVE  /\ call[k] \in Input /\ call[k].kind = "attempt"
         /\ AttemptVerdict(call[k]) = "WRITE"
         /\ ~Solved(call[k].ch, call[k].pl)
         /\ call[k].user # NoUser => call[k].pl = primary[call[k].user]
<1>1. call[k] \in Input /\ call[k].kind = "attempt"
  BY DEF WriteAttempt, Inv, TypeOK
<1>2. /\ AttemptVerdict(call[k]) = "WRITE"
      /\ call[k].user # NoUser => call[k].pl = primary[call[k].user]
  BY <1>1 DEF Inv, CallsCurrent, VerdictOf
<1> QED BY <1>1, <1>2 DEF AttemptVerdict

LEMMA AttemptInv ==
  ASSUME Inv, NEW k \in Calls, WriteAttempt(k)
  PROVE  Inv'
<1> DEFINE i == call[k]
<1> DEFINE key == <<i.ch, i.pl>>
<1> DEFINE new == NewAttempt(i)
<1>1. CASE RunVerdict(i) # "OK" \/ Conflicts(new)
  BY <1>1, RollBackInv DEF WriteAttempt
<1>2. CASE RunVerdict(i) = "OK" /\ ~Conflicts(new)
  <2>1. /\ i \in Input /\ i.kind = "attempt" /\ ~Solved(i.ch, i.pl)
        /\ i.user # NoUser => i.pl = primary[i.user]
    BY OpenAttempt
  <2>2. /\ i.ch \in Challenges /\ i.pl \in Players /\ i.user \in Users \cup {NoUser}
        /\ i.req \in Requests /\ i.order \in Orders /\ key \in Challenges \X Players
    BY <2>1 DEF Input
  <2>3. /\ attempts' = attempts \cup {new}
        /\ completed' = IF new.ok /\ i.user # NoUser
                          THEN completed \cup {<<i.user, i.ch>>} ELSE completed
        /\ Commit(k) /\ UNCHANGED <<starts, link, primary, now>>
    BY <1>2 DEF WriteAttempt
  <2>4. IsRun(i.ch) => /\ starts[key] # None /\ starts[key] \in Start
                       /\ starts[key].gaveUp = None
    BY <1>2, <2>2 DEF RunVerdict, IsRun, Inv, TypeOK
  <2>5. /\ new.ch = i.ch /\ new.pl = i.pl /\ new.user = i.user /\ new.at = now
        /\ new.ok \in BOOLEAN
        /\ IsRun(i.ch) /\ new.ok => new.time = now - starts[key].at
    BY DEF NewAttempt, IsRun
  <2>6. new \in Attempt
    <3>1. Cardinality(AttemptsOf(i.ch, i.pl)) + 1 \in Nat \ {0}
      BY FS_Subset, FS_CardinalityType DEF AttemptsOf, Inv
    <3>2. now \in Time /\ now \in Int
      BY DEF Inv, TypeOK, Time
    <3>3. IsRun(i.ch) => now - starts[key].at \in Int
      BY <2>4, <3>2 DEF Start, Time
    <3> QED BY <2>2, <3>1, <3>2, <3>3 DEF NewAttempt, Attempt, IsRun
  <2>7. TypeOK' /\ IsFiniteSet(attempts') /\ CallsCurrent'
    BY <2>2, <2>3, <2>6, CommitCalls, FS_AddElement DEF Inv, TypeOK
  <2> HIDE DEF i, key, new
  <2>8. Owned'
    <3>1. i.user # NoUser => link[i.pl] = i.user
      BY <2>1, <2>2, TimelineAssumption DEF Inv, Owned
    <3> QED BY <2>3, <2>5, <3>1 DEF Inv, Owned
  <2>9. RunsStarted'
    BY <2>3, <2>4, <2>5 DEF Inv, RunsStarted, key
  <2>10. SolvedOnce'
    BY <2>1, <2>3, <2>5 DEF Inv, SolvedOnce, Solved, AttemptsOf
  <2>11. GivenUpUnsolved'
    <3> SUFFICES ASSUME NEW c \in Challenges, NEW p \in Players,
                        starts[<<c, p>>] # None, starts[<<c, p>>].gaveUp # None
                 PROVE  ~Solved(c, p)'
      BY <2>3 DEF GivenUpUnsolved
    <3>1. IsRun(c) /\ ~Solved(c, p)
      BY DEF Inv, Owned, GivenUpUnsolved
    <3>2. ~(new.ch = c /\ new.pl = p)
      BY <2>4, <2>5, <3>1 DEF key
    <3> QED BY <2>3, <3>1, <3>2 DEF Solved, AttemptsOf
  <2>12. RunsTimed'
    BY <2>3, <2>4, <2>5 DEF Inv, RunsTimed, IsRun, key
  <2>13. CompletionsBacked'
    BY <2>3, <2>5 DEF Inv, CompletionsBacked
  <2> QED BY <2>7, <2>8, <2>9, <2>10, <2>11, <2>12, <2>13 DEF Inv
<1> QED BY <1>1, <1>2

-----------------------------------------------------------------------------
(* The merge: a function of the submissions that keeps everything but      *)
(* their owners and numbers.                                               *)

LEMMA MergeInv ==
  ASSUME Inv, NEW u \in Users, NEW p \in Players, Sync(u, p),
         NEW F \in [attempts -> Attempt], attempts' = {F[a] : a \in attempts},
         \A a \in attempts :
           /\ F[a].ch = a.ch /\ F[a].ok = a.ok /\ F[a].at = a.at /\ F[a].time = a.time
           /\ F[a].pl = IF a.pl = p THEN PrimaryFor(u, p) ELSE a.pl
           /\ F[a].user = IF a.pl = p /\ a.user = NoUser THEN u ELSE a.user
  PROVE  Inv'
<1> DEFINE q == PrimaryFor(u, p)
<1>1. /\ link[p] \in {u, NoUser} /\ link' = [link EXCEPT ![p] = u]
      /\ primary' = [primary EXCEPT ![u] = q]
      /\ completed' \subseteq completed \cup SolvedBy(u, attempts')
      /\ completed \subseteq completed'
      /\ call' = [k \in Calls |-> None] /\ UNCHANGED <<starts, now>>
  BY DEF Sync, MayLink
<1>2. q \in Players /\ (primary[u] # NoPlayer => q = primary[u]) /\ (q # p => q = primary[u])
  BY DEF PrimaryFor, Inv, TypeOK
<1>3. q # p => primary[u] # NoPlayer /\ link[q] = u
  BY <1>2, TimelineAssumption DEF Inv, Owned
<1>4. \A v \in Users : primary[v] = p => v = u /\ q = p
  BY <1>1, <1>2, TimelineAssumption DEF Inv, Owned
<1>5. \A a \in attempts :
        /\ a \in Attempt /\ a.ch \in Challenges /\ a.pl \in Players /\ F[a] \in Attempt
        /\ a.user \in Users \cup {NoUser}
  BY DEF Inv, TypeOK, Attempt
<1>6. \A a \in attempts : IsRun(a.ch) => F[a].pl = a.pl
  <2> SUFFICES ASSUME NEW a \in attempts, IsRun(a.ch), a.pl = p
               PROVE  q = p
    OBVIOUS
  <2>1. starts[<<a.ch, a.pl>>] # None
    BY DEF Inv, RunsStarted
  <2>2. PICK v \in Users : primary[v] = a.pl
    BY <1>5, <2>1 DEF Inv, Owned
  <2> QED BY <1>4, <2>2
<1>7. TypeOK'
  <2>1. attempts' \subseteq Attempt
    OBVIOUS
  <2>2. completed' \subseteq Users \X Challenges
    BY <1>1, <2>1 DEF Inv, TypeOK, SolvedBy, Attempt
  <2> QED BY <1>1, <1>2, <2>1, <2>2 DEF Inv, TypeOK
<1>8. IsFiniteSet(attempts')
  <2>1. F \in Surjection(attempts, attempts')
    BY DEF Surjection
  <2> QED BY <2>1, FS_Surjection DEF Inv
<1>9. CallsCurrent'
  BY <1>1, NoneAssumption DEF CallsCurrent
<1> HIDE DEF q
<1>10. Owned'
  <2>1. \A r \in Players : link'[r] = IF r = p THEN u ELSE link[r]
    BY <1>1 DEF Inv, TypeOK
  <2>2. \A v \in Users : primary'[v] = IF v = u THEN q ELSE primary[v]
    BY <1>1 DEF Inv, TypeOK
  <2>3. link'[q] = u
    BY <1>2, <1>3, <2>1
  <2>4. \A v \in Users : primary'[v] # NoPlayer => link'[primary'[v]] = v
    <3> SUFFICES ASSUME NEW v \in Users, v # u, primary[v] # NoPlayer
                 PROVE  link'[primary[v]] = v
      BY <2>2, <2>3
    <3>1. primary[v] \in Players /\ primary[v] # p /\ link[primary[v]] = v
      BY <1>4 DEF Inv, TypeOK, Owned
    <3> QED BY <2>1, <3>1
  <2>5. \A a \in attempts : F[a].user # NoUser => link'[F[a].pl] = F[a].user
    <3> SUFFICES ASSUME NEW a \in attempts, F[a].user # NoUser
                 PROVE  link'[F[a].pl] = F[a].user
      OBVIOUS
    <3>1. CASE a.pl = p
      <4>1. F[a].pl = q /\ F[a].user = u
        BY <1>1, <3>1 DEF Inv, Owned, q
      <4> QED BY <2>3, <4>1
    <3>2. CASE a.pl # p
      BY <1>5, <2>1, <3>2 DEF Inv, Owned
    <3> QED BY <3>1, <3>2
  <2>6. \A c \in Challenges, r \in Players :
          starts'[<<c, r>>] # None => IsRun(c) /\ \E v \in Users : primary'[v] = r
    <3> SUFFICES ASSUME NEW c \in Challenges, NEW r \in Players, starts[<<c, r>>] # None
                 PROVE  IsRun(c) /\ \E v \in Users : primary'[v] = r
      BY <1>1
    <3>1. IsRun(c)
      BY DEF Inv, Owned
    <3>2. PICK v \in Users : primary[v] = r
      BY DEF Inv, Owned
    <3>3. primary'[v] = r
      BY <1>2, <2>2, <3>2, TimelineAssumption
    <3> QED BY <3>1, <3>3
  <2> QED BY <2>4, <2>5, <2>6 DEF Owned
<1>11. RunsStarted' /\ SolvedOnce' /\ RunsTimed'
  BY <1>1, <1>6 DEF Inv, RunsStarted, SolvedOnce, RunsTimed, IsRun
<1>12. GivenUpUnsolved'
  <2> SUFFICES ASSUME NEW c \in Challenges, NEW r \in Players,
                      starts[<<c, r>>] # None, starts[<<c, r>>].gaveUp # None,
                      NEW a \in attempts, F[a].ch = c, F[a].pl = r, F[a].ok
               PROVE  FALSE
    BY <1>1 DEF GivenUpUnsolved, Solved, AttemptsOf
  <2>1. IsRun(c) /\ ~Solved(c, r)
    BY DEF Inv, Owned, GivenUpUnsolved
  <2>2. a.ch = c /\ a.ok /\ a.pl = r
    BY <1>6, <2>1
  <2> QED BY <2>1, <2>2 DEF Solved, AttemptsOf
<1>13. CompletionsBacked'
  <2> SUFFICES ASSUME NEW d \in completed'
               PROVE  \E b \in attempts' : b.user = d[1] /\ b.ch = d[2] /\ b.ok
    BY DEF CompletionsBacked
  <2>1. CASE d \in completed
    <3>1. PICK a \in attempts : a.user = d[1] /\ a.ch = d[2] /\ a.ok
      BY <2>1 DEF Inv, CompletionsBacked
    <3>2. a.user # NoUser
      BY <2>1, <3>1, TimelineAssumption DEF Inv, TypeOK
    <3> QED BY <3>1, <3>2
  <2>2. CASE d \in SolvedBy(u, attempts')
    BY <2>2 DEF SolvedBy
  <2> QED BY <1>1, <2>1, <2>2
<1> QED BY <1>7, <1>8, <1>9, <1>10, <1>11, <1>12, <1>13 DEF Inv

LEMMA SyncInv ==
  ASSUME Inv, NEW u \in Users, NEW p \in Players, Sync(u, p)
  PROVE  Inv'
<1> DEFINE q == PrimaryFor(u, p)
<1> DEFINE moved == MovedAttempts(u, p, q)
<1> DEFINE Mv(a) == IF a.pl = p THEN [a EXCEPT !.pl = q, !.user = IF @ = NoUser THEN u ELSE @]
                    ELSE a
<1>1. q \in Players
  BY DEF PrimaryFor, Inv, TypeOK
<1>2. moved = {Mv(a) : a \in attempts}
  BY DEF MovedAttempts
<1>3. \A a \in attempts :
        /\ Mv(a) \in Attempt
        /\ Mv(a).ch = a.ch /\ Mv(a).ok = a.ok /\ Mv(a).at = a.at /\ Mv(a).time = a.time
        /\ Mv(a).pl = IF a.pl = p THEN q ELSE a.pl
        /\ Mv(a).user = IF a.pl = p /\ a.user = NoUser THEN u ELSE a.user
  BY <1>1 DEF Inv, TypeOK, Attempt
<1> HIDE DEF q, moved, Mv
<1>4. CASE p = q
  <2> DEFINE F == [a \in attempts |-> Mv(a)]
  <2>1. attempts' = {F[a] : a \in attempts}
    BY <1>2, <1>4 DEF Sync, moved, q
  <2>2. F \in [attempts -> Attempt]
    BY <1>3
  <2>3. \A a \in attempts : F[a] = Mv(a)
    OBVIOUS
  <2> HIDE DEF F
  <2> QED BY <1>3, <2>1, <2>2, <2>3, MergeInv DEF q
<1>5. CASE p # q
  <2> DEFINE of == {a \in moved : a.pl = q}
  <2>1. PICK rank \in Renumberings(of) : attempts' = MergedAttempts(moved, q, rank)
    BY <1>5 DEF Sync, moved, q
  <2> DEFINE Num(m) == IF m.pl = q THEN [m EXCEPT !.num = rank[m]] ELSE m
  <2> DEFINE F == [a \in attempts |-> Num(Mv(a))]
  <2>2. attempts' = {F[a] : a \in attempts}
    BY <1>2, <2>1 DEF MergedAttempts
  <2>3. IsFiniteSet(of)
    <3> DEFINE G == [a \in attempts |-> Mv(a)]
    <3>1. G \in Surjection(attempts, moved)
      BY <1>2 DEF Surjection
    <3> QED BY <3>1, FS_Surjection, FS_Subset DEF Inv
  <2>4. \A m \in of : rank[m] \in Nat \ {0}
    BY <2>1, <2>3, FS_CardinalityType DEF Renumberings
  <2>5. \A m \in moved : m \in Attempt =>
          /\ Num(m) \in Attempt
          /\ Num(m).ch = m.ch /\ Num(m).ok = m.ok /\ Num(m).at = m.at
          /\ Num(m).time = m.time /\ Num(m).pl = m.pl /\ Num(m).user = m.user
    BY <2>4 DEF Attempt
  <2>6. \A a \in attempts : Mv(a) \in moved /\ F[a] = Num(Mv(a))
    BY <1>2
  <2>7. F \in [attempts -> Attempt]
    BY <1>3, <2>5, <2>6
  <2> HIDE DEF F, Num, of
  <2> QED BY <1>3, <2>2, <2>5, <2>6, <2>7, MergeInv DEF q
<1> QED BY <1>4, <1>5

-----------------------------------------------------------------------------
(* The invariant and what follows from it. *)

LEMMA NextInv == Inv /\ [Next]_vars => Inv'
<1> SUFFICES ASSUME Inv, [Next]_vars PROVE Inv'
  OBVIOUS
<1>1. ASSUME NEW k \in Calls, NEW i \in Input, Snapshot(k, i) PROVE Inv'
  BY <1>1, SnapshotInv
<1>2. ASSUME NEW k \in Calls, WriteAttempt(k) PROVE Inv'
  BY <1>2, AttemptInv
<1>3. ASSUME NEW k \in Calls, WriteStart(k) PROVE Inv'
  BY <1>3, StartInv
<1>4. ASSUME NEW k \in Calls, WriteGiveUp(k) PROVE Inv'
  BY <1>4, GiveUpInv
<1>5. ASSUME NEW k \in Calls, RollBack(k) PROVE Inv'
  BY <1>5, RollBackInv
<1>6. ASSUME NEW u \in Users, NEW p \in Players, Sync(u, p) PROVE Inv'
  BY <1>6, SyncInv
<1>7. CASE Tick
  BY <1>7, TickInv
<1>8. CASE UNCHANGED vars
  <2>1. UNCHANGED <<attempts, starts, completed, link, primary, now, call>>
    BY <1>8 DEF vars
  <2> QED BY <2>1, QuietInv DEF Inv, TypeOK
<1> QED BY <1>1, <1>2, <1>3, <1>4, <1>5, <1>6, <1>7, <1>8 DEF Next, Write

(* The invariant holds in every state the server reaches. *)
THEOREM Invariance == Spec => []Inv
  BY InitInv, NextInv, PTL DEF Spec

(* The variables have their types. *)
THEOREM TypeCorrect == Spec => []TypeOK
<1>1. Inv => TypeOK
  BY DEF Inv
<1> QED BY <1>1, Invariance, PTL

(* No run is both given up and solved (timeline_speedrun_starts.gave_up_at *)
(* and timeline_attempts.is_correct), whatever calls and merges interleave. *)
THEOREM NeverBoth == Spec => []GivenUpUnsolved
<1>1. Inv => GivenUpUnsolved
  BY DEF Inv
<1> QED BY <1>1, Invariance, PTL

(* The time of a solved Speedrun is the time since its stored start. *)
THEOREM TimesRight == Spec => []RunsTimed
<1>1. Inv => RunsTimed
  BY DEF Inv
<1> QED BY <1>1, Invariance, PTL

(* An account has at most one solved run of a Speedrun: runs are started   *)
(* by primary players alone, an account has one, and a player is solved    *)
(* once.                                                                   *)
THEOREM LeaderboardUnique == Spec => []OneRunPerAccount
<1>1. ASSUME Inv PROVE OneRunPerAccount
  <2> SUFFICES ASSUME NEW a \in attempts, NEW b \in attempts, a.ok, b.ok, a.ch = b.ch,
                      a.user = b.user, a.user # NoUser, IsRun(a.ch)
               PROVE  a = b
    BY DEF OneRunPerAccount, IsRun
  <2>1. ASSUME NEW d \in attempts, IsRun(d.ch), d.user # NoUser
        PROVE  primary[d.user] = d.pl
    <3>1. d.ch \in Challenges /\ d.pl \in Players /\ starts[<<d.ch, d.pl>>] # None
      BY <1>1, <2>1 DEF Inv, TypeOK, Attempt, RunsStarted
    <3>2. PICK v \in Users : primary[v] = d.pl
      BY <1>1, <3>1 DEF Inv, Owned
    <3>3. link[d.pl] = v /\ link[d.pl] = d.user
      BY <1>1, <2>1, <3>1, <3>2, TimelineAssumption DEF Inv, Owned
    <3> QED BY <3>2, <3>3
  <2>2. a.pl = b.pl
    BY <2>1
  <2> QED BY <1>1, <2>2 DEF Inv, SolvedOnce
<1> QED BY <1>1, Invariance, PTL

(* What an account is recorded to have completed it has solved. *)
THEOREM CompletionsKept == Spec => []CompletionsBacked
<1>1. Inv => CompletionsBacked
  BY DEF Inv
<1> QED BY <1>1, Invariance, PTL

(* A submission is accepted only in a game that is still on, although its  *)
(* checks were made on an older snapshot.                                  *)
THEOREM AcceptanceChecked == Spec => AcceptedInPlay
<1> DEFINE InPlay(i) ==
       LET of == AttemptsOf(i.ch, i.pl)
           row == starts[<<i.ch, i.pl>>]
       IN  /\ ~Solved(i.ch, i.pl)
           /\ Limit(i.ch) # None => Cardinality(of) < Limit(i.ch)
           /\ Difficulty[i.ch] = "speedrun" => row # None /\ row.gaveUp = None
<1> DEFINE A == \A k \in Calls : WriteAttempt(k) /\ attempts' # attempts => InPlay(call[k])
<1>1. ASSUME Inv, NEW k \in Calls, WriteAttempt(k), attempts' # attempts
      PROVE  InPlay(call[k])
  <2> DEFINE i == call[k]
  <2>1. AttemptVerdict(i) = "WRITE" /\ ~Solved(i.ch, i.pl) /\ i \in Input
    BY <1>1, OpenAttempt
  <2>2. RunVerdict(i) = "OK"
    BY <1>1 DEF WriteAttempt, RollBack, Tables
  <2>3. Limit(i.ch) # None => Cardinality(AttemptsOf(i.ch, i.pl)) < Limit(i.ch)
    <3> SUFFICES ASSUME Limit(i.ch) # None
                 PROVE  Cardinality(AttemptsOf(i.ch, i.pl)) < Limit(i.ch)
      OBVIOUS
    <3>1. ~(Cardinality(AttemptsOf(i.ch, i.pl)) >= Limit(i.ch))
      BY <2>1 DEF AttemptVerdict
    <3>2. Limit(i.ch) \in Nat
      BY TimelineAssumption DEF Limit
    <3>3. Cardinality(AttemptsOf(i.ch, i.pl)) \in Nat
      BY <1>1, FS_Subset, FS_CardinalityType DEF AttemptsOf, Inv
    <3> QED BY <3>1, <3>2, <3>3
  <2> QED BY <2>1, <2>2, <2>3 DEF RunVerdict
<1>2. Inv /\ [Next]_vars => [A]_vars
  BY <1>1
<1> QED BY <1>2, Invariance, PTL DEF Spec, AcceptedInPlay

-----------------------------------------------------------------------------
(* The submissions of a game stay numbered 1, 2, 3 ... in the order they   *)
(* were made: a new one counts those before it, and a merge ranks again.   *)

GameIn(set, c, p) == {a \in set : a.ch = c /\ a.pl = p}

InOrder(game) ==
  /\ {a.num : a \in game} = 1..Cardinality(game)
  /\ \A a, b \in game : a.num < b.num => a.at <= b.at

(* The clock does not go back. *)
MadeBefore == \A a \in attempts : a.at <= now

NumbersInv == NumbersSequential /\ MadeBefore

LEMMA SequentialGames ==
  NumbersSequential <=> \A c \in Challenges, p \in Players : InOrder(GameIn(attempts, c, p))
  BY DEF NumbersSequential, InOrder, GameIn, AttemptsOf

LEMMA SequentialGamesNext ==
  NumbersSequential' <=> \A c \in Challenges, p \in Players : InOrder(GameIn(attempts', c, p))
  BY DEF NumbersSequential, InOrder, GameIn, AttemptsOf

LEMMA GameSubset ==
  ASSUME NEW set, IsFiniteSet(set), NEW c, NEW p
  PROVE  IsFiniteSet(GameIn(set, c, p)) /\ Cardinality(GameIn(set, c, p)) \in Nat
<1>1. GameIn(set, c, p) \subseteq set
  BY DEF GameIn
<1> QED BY <1>1, FS_Subset, FS_CardinalityType

(* n submissions with the numbers 1 .. n: each number is that of one.      *)
LEMMA NumbersUnique ==
  ASSUME NEW game, IsFiniteSet(game), InOrder(game),
         NEW a \in game, NEW b \in game, a.num = b.num
  PROVE  a = b
<1> DEFINE n == Cardinality(game)
           number == [x \in game |-> x.num]
<1>1. n \in Nat
  BY FS_CardinalityType
<1>2. number \in Surjection(game, 1..n)
  BY DEF InOrder, Surjection
<1>3. Cardinality(1..n) = n
  BY <1>1, FS_Interval
<1>4. number \in Injection(game, 1..n)
  BY <1>2, <1>3, FS_Surjection
<1> QED BY <1>4 DEF Injection, IsInjective

(* Changes that keep number and time keep the order, and merge no two.     *)
LEMMA MapKeepsOrder ==
  ASSUME NEW game, IsFiniteSet(game), InOrder(game), NEW F,
         F = [a \in game |-> F[a]],
         \A a \in game : F[a].num = a.num /\ F[a].at = a.at
  PROVE  InOrder({F[a] : a \in game})
<1> DEFINE image == {F[a] : a \in game}
<1>1. F \in Surjection(game, image)
  BY DEF Surjection
<1>2. F \in Injection(game, image)
  BY NumbersUnique DEF Injection, IsInjective
<1>3. Cardinality(image) = Cardinality(game)
  BY <1>1, <1>2, FS_Surjection
<1>4. {x.num : x \in image} = {a.num : a \in game}
  OBVIOUS
<1> HIDE DEF image
<1>5. \A x, y \in image : x.num < y.num => x.at <= y.at
  BY DEF InOrder, image
<1> QED BY <1>3, <1>4, <1>5 DEF InOrder, image

(* The next number, and no earlier time. *)
LEMMA AppendKeepsOrder ==
  ASSUME NEW game, IsFiniteSet(game), InOrder(game), NEW x, x \notin game,
         x.num = Cardinality(game) + 1, \A a \in game : a.at <= x.at,
         x.at <= x.at
  PROVE  InOrder(game \cup {x})
<1> DEFINE n == Cardinality(game)
<1>1. n \in Nat /\ Cardinality(game \cup {x}) = n + 1
  BY FS_CardinalityType, FS_AddElement
<1>2. {a.num : a \in game \cup {x}} = {a.num : a \in game} \cup {x.num}
  OBVIOUS
<1>3. 1..(n + 1) = 1..n \cup {n + 1}
  BY <1>1
<1>4. \A a \in game : a.num \in 1..n
  BY DEF InOrder
<1>5. \A a, b \in game \cup {x} : a.num < b.num => a.at <= b.at
  <2> TAKE a, b \in game \cup {x}
  <2> HAVE a.num < b.num
  <2>1. CASE a \in game /\ b \in game
    BY <2>1 DEF InOrder
  <2>2. CASE a \in game /\ b = x
    BY <2>2
  <2>3. CASE a = x /\ b \in game
    BY <1>1, <1>4, <2>3
  <2>4. CASE a = x /\ b = x
    BY <2>4
  <2> QED BY <2>1, <2>2, <2>3, <2>4
<1> HIDE DEF n
<1> QED BY <1>1, <1>2, <1>3, <1>5 DEF InOrder, n

RanksOf(game, rank) ==
  /\ \A a \in game : a \in Attempt /\ rank[a] \in 1..Cardinality(game)
  /\ \A a, b \in game : a # b => rank[a] # rank[b] /\ (a.at < b.at => rank[a] < rank[b])

Renumbered(game, rank) == {[a EXCEPT !.num = rank[a]] : a \in game}

(* Ranks in the order of time are an order, wherever they come from.       *)
LEMMA RanksAreOrder ==
  ASSUME NEW game, IsFiniteSet(game), NEW rank, RanksOf(game, rank)
  PROVE  InOrder(Renumbered(game, rank))
<1> USE DEF RanksOf
<1> DEFINE n == Cardinality(game)
           F == [a \in game |-> [a EXCEPT !.num = rank[a]]]
           image == {F[a] : a \in game}
           R == [a \in game |-> rank[a]]
<1>0. \A a \in game : a.at \in Int
  BY DEF Attempt, Time
<1>1. n \in Nat /\ Cardinality(1..n) = n /\ IsFiniteSet(1..n)
  BY FS_CardinalityType, FS_Interval
<1>2. \A a \in game : F[a].num = rank[a] /\ F[a].at = a.at
  BY DEF Attempt
<1>3. F \in Surjection(game, image)
  BY DEF Surjection
<1>4. F \in Injection(game, image)
  <2> SUFFICES ASSUME NEW a \in game, NEW b \in game, F[a] = F[b] PROVE a = b
    BY DEF Injection, IsInjective
  <2>1. rank[a] = rank[b]
    BY <1>2
  <2> QED BY <2>1
<1>5. Cardinality(image) = n
  BY <1>3, <1>4, FS_Surjection
<1>6. R \in Injection(game, 1..n)
  BY DEF Injection, IsInjective
<1>7. R \in Surjection(game, 1..n)
  BY <1>1, <1>6, FS_Injection
<1>8. {x.num : x \in image} = 1..n
  <2> HIDE DEF F
  <2>1. {x.num : x \in image} = {rank[a] : a \in game}
    BY <1>2
  <2>2. {rank[a] : a \in game} = 1..n
    BY <1>7 DEF Surjection
  <2> QED BY <2>1, <2>2
<1>9. \A x, y \in image : x.num < y.num => x.at <= y.at
  <2> HIDE DEF F
  <2> SUFFICES ASSUME NEW a \in game, NEW b \in game, rank[a] < rank[b]
               PROVE  a.at <= b.at
    BY <1>2
  <2>1. a # b /\ rank[a] \in Int /\ rank[b] \in Int
    BY <1>1
  <2>2. ~(b.at < a.at)
    BY <2>1
  <2> QED BY <1>0, <2>2
<1>10. image = Renumbered(game, rank)
  BY DEF Renumbered
<1> HIDE DEF image, n
<1> QED BY <1>5, <1>8, <1>9, <1>10 DEF InOrder, n

-----------------------------------------------------------------------------
(* Steps. *)

LEMMA InitNumbers == Init => NumbersInv
<1> SUFFICES ASSUME Init PROVE NumbersInv
  OBVIOUS
<1>1. \A c \in Challenges, p \in Players : GameIn(attempts, c, p) = {}
  BY DEF Init, GameIn
<1>2. InOrder({})
  <2>1. 1..Cardinality({}) = {}
    BY FS_EmptySet
  <2> QED BY <2>1 DEF InOrder
<1>3. NumbersSequential
  BY <1>1, <1>2, SequentialGames
<1> QED BY <1>3 DEF Init, NumbersInv, MadeBefore

LEMMA QuietNumbers ==
  ASSUME NumbersInv, Inv, UNCHANGED attempts, now' = now \/ now' = now + 1
  PROVE  NumbersInv'
<1>1. NumbersSequential'
  BY SequentialGames, SequentialGamesNext DEF NumbersInv
<1>2. \A a \in attempts : a.at \in Int /\ now \in Int
  BY DEF Inv, TypeOK, Attempt, Time
<1>3. MadeBefore'
  BY <1>2 DEF NumbersInv, MadeBefore
<1> QED BY <1>1, <1>3 DEF NumbersInv

LEMMA AttemptNumbers ==
  ASSUME NumbersInv, Inv, NEW k \in Calls, WriteAttempt(k)
  PROVE  NumbersInv'
<1> DEFINE i == call[k]
           x == NewAttempt(i)
<1>1. CASE RunVerdict(i) # "OK" \/ Conflicts(x)
  BY <1>1, QuietNumbers DEF WriteAttempt, RollBack, Tables
<1>2. CASE RunVerdict(i) = "OK" /\ ~Conflicts(x)
  <2>1. attempts' = attempts \cup {x} /\ UNCHANGED now
    BY <1>2 DEF WriteAttempt
  <2>2. /\ x.ch = i.ch /\ x.pl = i.pl /\ x.at = now
        /\ x.num = Cardinality(GameIn(attempts, i.ch, i.pl)) + 1
    BY DEF NewAttempt, GameIn, AttemptsOf
  <2>3. i.ch \in Challenges /\ i.pl \in Players
    BY OpenAttempt DEF Input
  <2>4. \A b \in attempts : b.ch = x.ch /\ b.pl = x.pl => b.num # x.num
    BY <1>2 DEF Conflicts
  <2>5. now \in Int /\ \A a \in attempts : a.at <= now
    BY DEF NumbersInv, MadeBefore, Inv, TypeOK, Time
  <2> HIDE DEF x, i
  <2>6. ASSUME NEW c \in Challenges, NEW p \in Players
        PROVE  InOrder(GameIn(attempts', c, p))
    <3>1. InOrder(GameIn(attempts, c, p)) /\ IsFiniteSet(GameIn(attempts, c, p))
      BY SequentialGames, GameSubset DEF NumbersInv, Inv
    <3>2. CASE c = i.ch /\ p = i.pl
      <4>1. GameIn(attempts', c, p) = GameIn(attempts, c, p) \cup {x}
        BY <2>1, <2>2, <3>2 DEF GameIn
      <4>2. x \notin GameIn(attempts, c, p)
        BY <2>2, <2>4, <3>2 DEF GameIn
      <4>3. \A a \in GameIn(attempts, c, p) : a.at <= x.at
        BY <2>2, <2>5 DEF GameIn
      <4>4. x.at <= x.at
        BY <2>2, <2>5
      <4>5. x.num = Cardinality(GameIn(attempts, c, p)) + 1
        BY <2>2, <3>2
      <4> QED BY <3>1, <4>1, <4>2, <4>3, <4>4, <4>5, AppendKeepsOrder
    <3>3. CASE ~(c = i.ch /\ p = i.pl)
      <4>1. GameIn(attempts', c, p) = GameIn(attempts, c, p)
        BY <2>1, <2>2, <3>3 DEF GameIn
      <4> QED BY <3>1, <4>1
    <3> QED BY <3>2, <3>3
  <2>7. NumbersSequential'
    BY <2>6, SequentialGamesNext
  <2>8. MadeBefore'
    BY <2>1, <2>2, <2>5 DEF MadeBefore
  <2> QED BY <2>7, <2>8 DEF NumbersInv
<1> QED BY <1>1, <1>2

(* A merge: a player other than the two keeps its games, the device has    *)
(* none left, and the games of the primary player are ranked.              *)
LEMMA SyncNumbers ==
  ASSUME NumbersInv, Inv, NEW u \in Users, NEW p \in Players, Sync(u, p)
  PROVE  NumbersInv'
<1> DEFINE q == PrimaryFor(u, p)
           moved == MovedAttempts(u, p, q)
           Mv(a) == IF a.pl = p THEN [a EXCEPT !.pl = q, !.user = IF @ = NoUser THEN u ELSE @]
                    ELSE a
<1>1. q \in Players
  BY DEF PrimaryFor, Inv, TypeOK
<1>2. moved = {Mv(a) : a \in attempts}
  BY DEF MovedAttempts
<1>3. \A a \in attempts :
        /\ Mv(a) \in Attempt
        /\ Mv(a).ch = a.ch /\ Mv(a).at = a.at /\ Mv(a).num = a.num
        /\ Mv(a).pl = IF a.pl = p THEN q ELSE a.pl
        /\ a.pl # p => Mv(a) = a
  BY <1>1 DEF Inv, TypeOK, Attempt
<1>4. /\ p = q => attempts' = moved
      /\ p # q => \E rank \in Renumberings({a \in moved : a.pl = q}) :
                    attempts' = MergedAttempts(moved, q, rank)
      /\ UNCHANGED now
  BY DEF Sync
<1>5. IsFiniteSet(moved)
  <2> DEFINE G == [a \in attempts |-> Mv(a)]
  <2>1. G \in Surjection(attempts, moved)
    BY <1>2 DEF Surjection
  <2> QED BY <2>1, FS_Surjection DEF Inv
<1> HIDE DEF q, moved, Mv
<1>6. \A c \in Challenges, r \in Players :
        /\ InOrder(GameIn(attempts, c, r)) /\ IsFiniteSet(GameIn(attempts, c, r))
  BY SequentialGames, GameSubset DEF NumbersInv, Inv
<1>7. \A a \in moved : a \in Attempt /\ a.at <= now
  BY <1>2, <1>3 DEF NumbersInv, MadeBefore
<1>8. CASE p = q
  <2>1. attempts' = moved
    BY <1>4, <1>8
  <2>2. ASSUME NEW c \in Challenges, NEW r \in Players
        PROVE  InOrder(GameIn(attempts', c, r))
    <3> DEFINE game == GameIn(attempts, c, r)
               F == [a \in game |-> Mv(a)]
    <3>1. GameIn(attempts', c, r) = {F[a] : a \in game}
      <4>1. GameIn(attempts', c, r) = {Mv(a) : a \in game}
        BY <1>2, <1>3, <1>8, <2>1 DEF GameIn
      <4>2. \A a \in game : F[a] = Mv(a)
        OBVIOUS
      <4> HIDE DEF game, F
      <4> QED BY <4>1, <4>2
    <3>2. \A a \in game : F[a].num = a.num /\ F[a].at = a.at
      BY <1>3 DEF GameIn
    <3>3. F = [a \in game |-> F[a]]
      OBVIOUS
    <3>4. IsFiniteSet(game) /\ InOrder(game)
      BY <1>6
    <3> HIDE DEF game, F
    <3> QED BY <3>1, <3>2, <3>3, <3>4, MapKeepsOrder
  <2>3. MadeBefore'
    BY <1>4, <1>7, <2>1 DEF MadeBefore
  <2> QED BY <2>2, <2>3, SequentialGamesNext DEF NumbersInv
<1>9. CASE p # q
  <2> DEFINE of == {a \in moved : a.pl = q}
  <2>1. PICK rank \in Renumberings(of) : attempts' = MergedAttempts(moved, q, rank)
    BY <1>4, <1>9
  <2> DEFINE Num(a) == IF a.pl = q THEN [a EXCEPT !.num = rank[a]] ELSE a
  <2>2. attempts' = {Num(a) : a \in moved}
    BY <2>1 DEF MergedAttempts
  <2>3. \A a \in moved :
          /\ Num(a).ch = a.ch /\ Num(a).pl = a.pl /\ Num(a).at = a.at
          /\ a.pl = q => Num(a) = [a EXCEPT !.num = rank[a]]
          /\ a.pl # q => Num(a) = a
    BY <1>7 DEF Attempt
  <2> HIDE DEF Num
  <2>4. ASSUME NEW c \in Challenges
        PROVE  InOrder(GameIn(attempts', c, q))
    <3> DEFINE game == GameIn(moved, c, q)
    <3>1. game = {b \in of : b.ch = c} /\ IsFiniteSet(game)
      <4>1. IsFiniteSet(game)
        BY <1>5, GameSubset
      <4>2. game = {b \in of : b.ch = c}
        BY DEF GameIn
      <4> QED BY <4>1, <4>2
    <3>2. \A a \in game : /\ a \in of /\ rank[a] \in 1..Cardinality(of)
                          /\ rank[a] <= Cardinality({b \in of : b.ch = a.ch})
                          /\ a.ch = c
      BY <2>1, <3>1 DEF Renumberings
    <3>3. \A a \in game : a \in Attempt /\ rank[a] \in 1..Cardinality(game)
      <4>1. IsFiniteSet(of) /\ Cardinality(of) \in Nat /\ Cardinality(game) \in Nat
        BY <1>5, <3>1, FS_Subset, FS_CardinalityType
      <4>2. \A a \in game : rank[a] <= Cardinality(game)
        BY <3>1, <3>2
      <4>3. \A a \in game : a \in Attempt
        BY <1>7 DEF GameIn
      <4>4. ASSUME NEW a \in game PROVE rank[a] \in 1..Cardinality(game)
        <5>1. rank[a] \in 1..Cardinality(of) /\ rank[a] <= Cardinality(game)
          BY <3>2, <4>2
        <5> DEFINE r == rank[a]
                   m == Cardinality(of)
                   n == Cardinality(game)
        <5>2. r \in 1..m /\ r <= n /\ m \in Nat /\ n \in Nat
          BY <4>1, <5>1
        <5> HIDE DEF r, m, n
        <5>3. r \in 1..n
          BY <5>2
        <5> QED BY <5>3 DEF r, n
      <4> QED BY <4>3, <4>4
    <3>4. \A a, b \in game :
            a # b => rank[a] # rank[b] /\ (a.at < b.at => rank[a] < rank[b])
      BY <2>1, <3>1 DEF Renumberings
    <3>5. GameIn(attempts', c, q) = Renumbered(game, rank)
      <4>1. \A a \in game : Num(a) = [a EXCEPT !.num = rank[a]]
        BY <2>3 DEF GameIn
      <4>2. GameIn(attempts', c, q) = {Num(a) : a \in game}
        BY <2>2, <2>3 DEF GameIn
      <4> HIDE DEF game
      <4> QED BY <4>1, <4>2 DEF Renumbered
    <3>6. IsFiniteSet(game) /\ RanksOf(game, rank)
      BY <3>1, <3>3, <3>4 DEF RanksOf
    <3> HIDE DEF game, of
    <3>7. InOrder(Renumbered(game, rank))
      BY <3>6, RanksAreOrder
    <3> QED BY <3>5, <3>7
  <2>5. ASSUME NEW c \in Challenges, NEW r \in Players, r # q
        PROVE  InOrder(GameIn(attempts', c, r))
    <3>1. GameIn(attempts', c, r) = GameIn(moved, c, r)
      BY <2>2, <2>3, <2>5 DEF GameIn
    <3>2. CASE r = p
      <4>1. GameIn(moved, c, r) = {}
        BY <1>2, <1>3, <1>9, <3>2 DEF GameIn
      <4>2. 1..Cardinality({}) = {}
        BY FS_EmptySet
      <4> QED BY <3>1, <4>1, <4>2 DEF InOrder
    <3>3. CASE r # p
      <4>1. GameIn(moved, c, r) = GameIn(attempts, c, r)
        BY <1>2, <1>3, <2>5, <3>3 DEF GameIn
      <4> QED BY <1>6, <3>1, <4>1
    <3> QED BY <3>2, <3>3
  <2>6. MadeBefore'
    BY <1>4, <1>7, <2>2, <2>3 DEF MadeBefore
  <2>7. NumbersSequential'
    BY <2>4, <2>5, SequentialGamesNext
  <2> QED BY <2>6, <2>7 DEF NumbersInv
<1> QED BY <1>8, <1>9

(* The submissions of a player to a challenge are numbered without gaps    *)
(* in the order they were made, however many devices are merged into the   *)
(* player and in whatever order equal times are ranked.                    *)
THEOREM NumbersInOrder == Spec => []NumbersSequential
<1>1. NumbersInv /\ Inv /\ [Next]_vars => NumbersInv'
  <2> SUFFICES ASSUME NumbersInv, Inv, [Next]_vars PROVE NumbersInv'
    OBVIOUS
  <2>1. ASSUME NEW k \in Calls, NEW i \in Input, Snapshot(k, i) PROVE NumbersInv'
    BY <2>1, QuietNumbers DEF Snapshot, Tables
  <2>2. ASSUME NEW k \in Calls, WriteAttempt(k) PROVE NumbersInv'
    BY <2>2, AttemptNumbers
  <2>3. ASSUME NEW k \in Calls, WriteStart(k) \/ WriteGiveUp(k) \/ RollBack(k)
        PROVE  NumbersInv'
    BY <2>3, QuietNumbers DEF WriteStart, WriteGiveUp, RollBack, Tables
  <2>4. ASSUME NEW u \in Users, NEW p \in Players, Sync(u, p) PROVE NumbersInv'
    BY <2>4, SyncNumbers
  <2>5. CASE Tick
    BY <2>5, QuietNumbers DEF Tick
  <2>6. CASE UNCHANGED vars
    BY <2>6, QuietNumbers DEF vars
  <2> QED BY <2>1, <2>2, <2>3, <2>4, <2>5, <2>6 DEF Next, Write
<1>2. NumbersInv => NumbersSequential
  BY DEF NumbersInv
<1> QED BY <1>1, <1>2, InitNumbers, Invariance, PTL DEF Spec
=============================================================================
