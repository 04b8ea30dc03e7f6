------------------------ MODULE DailyChallengeProofs ------------------------
(***************************************************************************)
(* OneChallengeADay, GivenIsStored, InsertedIsFound and AnswersRest of     *)
(* DailyChallenge, for any number of requests, days, pools and sizes.      *)
(***************************************************************************)
EXTENDS DailyChallenge, FiniteSetTheorems, WellFoundedInduction, TLAPS

Stored(d) == challenges[d] # None

(* Ids are not used again. *)
RowsOld == \A d \in Days : Stored(d) => challenges[d].id <= made

(* What a request is about to do with the challenge of its day, whatever   *)
(* others did since it looked: it deletes only a Timeline of another size, *)
(* and replaces only a Logo that is gone, once.                            *)
Prepared(h) ==
  LET d == handler[h].day
  IN  /\ handler[h].phase = "insert" =>
           /\ handler[h].answer \in Models /\ handler[h].pool \in Pools
           /\ kind = "logo" => handler[h].answer \in pool
      /\ handler[h].phase \in {"select", "insert"} => (Stored(d) => Fits(challenges[d]))
      /\ handler[h].phase = "again" => Stored(d) /\ Fits(challenges[d])
      /\ handler[h].phase = "delete" =>
           /\ kind = "timeline" /\ handler[h].id <= made
           /\ Stored(d) => (Fits(challenges[d]) <=> challenges[d].id # handler[h].id)
      /\ handler[h].phase = "replace" =>
           /\ kind = "logo" /\ Stored(d) /\ challenges[d].id = handler[h].id
           /\ challenges[d].answer \notin pool \/ challenges[d].answer = First[pool]

(* An answer that was given is that of the challenge, as long as it has to *)
(* be.                                                                     *)
Held(g) ==
  /\ g.release <= release
  /\ kind # "timeline" => Stored(g.day) /\ challenges[g.day].id = g.id
  /\ kind \in {"classic", "emoji"} => challenges[g.day].answer = g.answer
  /\ g.release = release =>
       /\ Stored(g.day) /\ challenges[g.day].id = g.id /\ challenges[g.day].answer = g.answer
       /\ Fits(challenges[g.day])

Inv ==
  /\ TypeOK /\ RowsOld
  /\ \A h \in Handlers : Prepared(h)
  /\ \A g \in given : Held(g)
  /\ OneChallengeADay
-----------------------------------------------------------------------------
LEMMA InitInv ==
  ASSUME DailyChallengeAssumption, Init
  PROVE  Inv
<1>1. 1 \in Days
  BY DEF DailyChallengeAssumption, Days
<1>2. shape \in Shapes
  BY DEF DailyChallengeAssumption, Init
<1>3. Idle \in [phase : Phases, day : Days, pool : Pools \cup {{}},
                answer : Models \cup {None}, id : Nat]
  BY <1>1 DEF Idle, Phases
<1>4. TypeOK
  BY <1>1, <1>2, <1>3 DEF TypeOK, Init
<1>5. \A h \in Handlers : Prepared(h)
  BY DEF Init, Prepared, Idle
<1> QED BY <1>4, <1>5 DEF Inv, Init, RowsOld, Stored, OneChallengeADay

(* A step of one request that leaves the challenges as they are.           *)
LEMMA LooksInv ==
  ASSUME Inv, NEW h \in Handlers, TypeOK', Prepared(h)',
         UNCHANGED <<kind, pool, shape, challenges, made, release, given>>,
         \A k \in Handlers \ {h} : handler'[k] = handler[k]
  PROVE  Inv'
<1>1. RowsOld'
  BY DEF Inv, RowsOld, Stored
<1>2. ASSUME NEW k \in Handlers PROVE Prepared(k)'
  <2>1. CASE k = h
    BY <2>1
  <2>2. CASE k # h
    <3>1. handler'[k] = handler[k] /\ Prepared(k)
      BY <2>2 DEF Inv
    <3> QED BY <3>1 DEF Prepared, Stored, Fits
  <2> QED BY <2>1, <2>2
<1>3. \A g \in given' : Held(g)'
  BY DEF Inv, Held, Stored, Fits
<1>4. OneChallengeADay'
  BY DEF Inv, OneChallengeADay
<1> QED BY <1>1, <1>2, <1>3, <1>4 DEF Inv

(* Other requests do not change.                                           *)
LEMMA OthersKept ==
  ASSUME NEW h \in Handlers, NEW x, handler' = [handler EXCEPT ![h] = x], TypeOK
  PROVE  handler'[h] = x /\ \A k \in Handlers \ {h} : handler'[k] = handler[k]
BY DEF TypeOK

LEMMA IdlePrepared ==
  ASSUME NEW h \in Handlers, handler'[h].phase \in {"idle", "pool", "find"}
  PROVE  Prepared(h)'
BY DEF Prepared

HandlerType == [phase : Phases, day : Days, pool : Pools \cup {{}},
                answer : Models \cup {None}, id : Nat]

LEMMA EndInv ==
  ASSUME DailyChallengeAssumption, Inv, NEW h \in Handlers, End(h),
         UNCHANGED <<kind, today, pool, shape, challenges, made, release, history>>
  PROVE  Inv'
<1>1. handler'[h] = Idle /\ \A k \in Handlers \ {h} : handler'[k] = handler[k]
  BY OthersKept DEF End, Inv
<1>2. Idle \in HandlerType
  BY DEF Idle, HandlerType, Phases, Days, DailyChallengeAssumption
<1>3. TypeOK'
  BY <1>2 DEF TypeOK, Inv, End, history, HandlerType
<1>4. Prepared(h)'
  BY <1>1, IdlePrepared DEF Idle
<1> QED BY <1>1, <1>3, <1>4, LooksInv DEF history
LEMMA BeginInv ==
  ASSUME DailyChallengeAssumption, Inv, NEW h \in Handlers, Begin(h)
  PROVE  Inv'
<1> DEFINE x == [Idle EXCEPT !.phase = IF kind = "classic" THEN "pool" ELSE "find", !.day = today]
<1>1. x \in HandlerType /\ x.phase \in {"pool", "find"}
  BY DEF Idle, HandlerType, Phases, Inv, TypeOK
<1>2. handler' = [handler EXCEPT ![h] = x]
  BY DEF Begin
<1> HIDE DEF x
<1>3. handler'[h] = x /\ \A k \in Handlers \ {h} : handler'[k] = handler[k]
  BY <1>2, OthersKept DEF Inv
<1>4. TypeOK'
  BY <1>1, <1>2 DEF TypeOK, Inv, Begin, history, HandlerType
<1>5. Prepared(h)'
  BY <1>1, <1>3, IdlePrepared
<1> QED BY <1>3, <1>4, <1>5, LooksInv DEF Begin, history

LEMMA ReadPoolInv ==
  ASSUME Inv, NEW h \in Handlers, ReadPool(h)
  PROVE  Inv'
<1> DEFINE x == [handler[h] EXCEPT !.pool = pool, !.phase = "find"]
<1>1. x \in HandlerType /\ x.phase = "find"
  BY DEF HandlerType, Phases, Inv, TypeOK
<1>2. handler' = [handler EXCEPT ![h] = x]
  BY DEF ReadPool, Inv, TypeOK
<1> HIDE DEF x
<1>3. handler'[h] = x /\ \A k \in Handlers \ {h} : handler'[k] = handler[k]
  BY <1>2, OthersKept DEF Inv
<1>4. TypeOK'
  BY <1>1, <1>2 DEF TypeOK, Inv, ReadPool, history, HandlerType
<1>5. Prepared(h)'
  BY <1>1, <1>3, IdlePrepared
<1> QED BY <1>3, <1>4, <1>5, LooksInv DEF ReadPool, history

(* Giving the challenge of a day, when it can be played.                   *)
LEMMA AnswerInv ==
  ASSUME DailyChallengeAssumption, Inv, NEW h \in Handlers,
         Stored(handler[h].day), Fits(challenges[handler[h].day]),
         Answer(h, challenges[handler[h].day]),
         UNCHANGED <<kind, today, pool, shape, challenges, made, release, changes, straddling>>
  PROVE  Inv'
<1> DEFINE d == handler[h].day
           g0 == [day |-> d, id |-> challenges[d].id, answer |-> challenges[d].answer,
                  release |-> release]
<1>1. d \in Days /\ challenges[d] \in Row
  BY DEF Inv, TypeOK, Stored
<1>2. given' = given \cup {g0} /\ End(h)
  BY DEF Answer
<1>3. g0 \in [day : Days, id : Nat, answer : Models, release : Nat]
  BY <1>1 DEF Row, Inv, TypeOK
<1>4. Held(g0)
  BY DEF Held, Stored, Inv, TypeOK
<1>5. g0.day = d /\ g0.id = challenges[d].id /\ g0.answer = challenges[d].answer /\ g0.release = release
  OBVIOUS
<1> HIDE DEF g0
<1>6. handler'[h] = Idle /\ \A k \in Handlers \ {h} : handler'[k] = handler[k]
  BY <1>2, OthersKept DEF End, Inv
<1>7. Idle \in HandlerType
  BY DEF Idle, HandlerType, Phases, Days, DailyChallengeAssumption
<1>8. TypeOK'
  BY <1>2, <1>3, <1>7 DEF TypeOK, Inv, End, HandlerType
<1>9. RowsOld'
  BY DEF Inv, RowsOld, Stored
<1>10. ASSUME NEW k \in Handlers PROVE Prepared(k)'
  <2>1. CASE k = h
    BY <2>1, <1>6, IdlePrepared DEF Idle
  <2>2. CASE k # h
    BY <2>2, <1>6 DEF Prepared, Stored, Fits, Inv
  <2> QED BY <2>1, <2>2
<1>11. ASSUME NEW g \in given' PROVE Held(g)'
  <2>1. Held(g)
    BY <1>2, <1>4 DEF Inv
  <2> QED BY <2>1 DEF Held, Stored, Fits
<1>12. OneChallengeADay'
  <2>1. ASSUME NEW g \in given, g.day = d
        PROVE  /\ kind # "timeline" => g.id = g0.id
               /\ (kind \in {"classic", "emoji"} \/ g.release = release) =>
                    (g.id = g0.id /\ g.answer = g0.answer)
    BY <2>1, <1>5 DEF Inv, Held
  <2> QED BY <2>1, <1>2, <1>5 DEF OneChallengeADay, Inv
<1> QED BY <1>8, <1>9, <1>10, <1>11, <1>12 DEF Inv

LEMMA FindInv ==
  ASSUME DailyChallengeAssumption, Inv, NEW h \in Handlers, Find(h)
  PROVE  Inv'
<1> DEFINE d == handler[h].day
           row == challenges[d]
<1>1. d \in Days /\ row \in Row \cup {None}
  BY DEF Inv, TypeOK
<1>2. CASE row # None /\ Fits(row) /\ Answer(h, row)
  BY <1>2, AnswerInv DEF Find, Stored
<1>3. CASE row = None /\ Goto(h, "select") /\ UNCHANGED given
  <2> DEFINE x == [handler[h] EXCEPT !.phase = "select"]
  <2>1. x \in HandlerType /\ x.phase = "select" /\ x.day = d
    BY DEF HandlerType, Phases, Inv, TypeOK
  <2>2. handler' = [handler EXCEPT ![h] = x]
    BY <1>3 DEF Goto, Inv, TypeOK
  <2> HIDE DEF x
  <2>3. handler'[h] = x /\ \A k \in Handlers \ {h} : handler'[k] = handler[k]
    BY <2>2, OthersKept DEF Inv
  <2>4. TypeOK'
    BY <1>3, <2>1, <2>2 DEF TypeOK, Inv, Find, HandlerType
  <2>5. Prepared(h)'
    BY <1>3, <2>1, <2>3 DEF Prepared, Stored, Find
  <2> QED BY <1>3, <2>3, <2>4, <2>5, LooksInv DEF Find
<1>4. CASE /\ row # None /\ ~Fits(row)
           /\ handler' = [handler EXCEPT ![h].phase = IF kind = "logo" THEN "replace" ELSE "delete",
                                         ![h].id = row.id]
           /\ UNCHANGED given
  <2> DEFINE x == [handler[h] EXCEPT !.phase = IF kind = "logo" THEN "replace" ELSE "delete",
                                     !.id = row.id]
  <2>0. row \in Row /\ row.id <= made
    BY <1>1, <1>4 DEF Inv, RowsOld, Stored
  <2>1. x \in HandlerType /\ x.day = d /\ x.id = row.id
    BY <2>0, ZenonT(60) DEF HandlerType, Phases, Inv, TypeOK, Row
  <2>2. \/ kind = "logo" /\ x.phase = "replace" /\ row.answer \notin pool
        \/ kind = "timeline" /\ x.phase = "delete" /\ row.shape # shape
    BY <1>4 DEF Fits, Inv, TypeOK
  <2>3. handler' = [handler EXCEPT ![h] = x]
    BY <1>4 DEF Inv, TypeOK
  <2> HIDE DEF x
  <2>4. handler'[h] = x /\ \A k \in Handlers \ {h} : handler'[k] = handler[k]
    BY <2>3, OthersKept DEF Inv
  <2>5. TypeOK'
    <3>1. handler' \in [Handlers -> HandlerType]
      BY <2>1, <2>3 DEF TypeOK, Inv, HandlerType
    <3>2. UNCHANGED <<kind, today, pool, shape, challenges, made, release, given, straddling>>
      BY <1>4 DEF Find
    <3> QED BY <3>1, <3>2 DEF TypeOK, Inv, HandlerType
  <2>6. Prepared(h)'
    <3>1. UNCHANGED <<kind, pool, shape, challenges, made>>
      BY DEF Find
    <3> QED BY <1>4, <2>0, <2>1, <2>2, <2>4, <3>1 DEF Prepared, Stored, Fits
  <2> QED BY <1>4, <2>4, <2>5, <2>6, LooksInv DEF Find
<1> QED BY <1>2, <1>3, <1>4 DEF Find

(* Going on to the next phase with nothing but the day.                    *)
LEMMA Forgotten ==
  ASSUME TypeOK, NEW h \in Handlers, NEW phase \in Phases, Forget(h, phase)
  PROVE  /\ handler' \in [Handlers -> HandlerType]
         /\ handler'[h].phase = phase /\ handler'[h].day = handler[h].day
         /\ \A k \in Handlers \ {h} : handler'[k] = handler[k]
<1> DEFINE x == [Idle EXCEPT !.phase = phase, !.day = handler[h].day]
<1>1. x \in HandlerType /\ x.phase = phase /\ x.day = handler[h].day
  BY DEF Idle, HandlerType, TypeOK
<1>2. handler' = [handler EXCEPT ![h] = x]
  BY DEF Forget
<1> HIDE DEF x
<1> QED BY <1>1, <1>2 DEF TypeOK, HandlerType

(* The Timeline of another size that a request deletes is not one that     *)
(* another request waits for, or that was given since the server started.  *)
LEMMA DeleteInv ==
  ASSUME DailyChallengeAssumption, Inv, NEW h \in Handlers, Delete(h)
  PROVE  Inv'
<1> DEFINE d == handler[h].day
<1>1. /\ d \in Days /\ kind = "timeline" /\ challenges[d] \in Row \cup {None}
      /\ Stored(d) => (Fits(challenges[d]) <=> challenges[d].id # handler[h].id)
  BY DEF Delete, Inv, Prepared, TypeOK
<1>2. /\ challenges' \in [Days -> Row \cup {None}]
      /\ \A e \in Days \ {d} : challenges'[e] = challenges[e]
      /\ challenges'[d] # None => challenges'[d] = challenges[d] /\ Fits(challenges[d])
      /\ Stored(d) /\ Fits(challenges[d]) => challenges'[d] = challenges[d]
  <2> DEFINE new == IF challenges[d] # None /\ challenges[d].id = handler[h].id THEN None ELSE challenges[d]
  <2>1. challenges' = [challenges EXCEPT ![d] = new]
    BY DEF Delete
  <2>2. new \in Row \cup {None}
    BY <1>1
  <2>3. /\ new # None => new = challenges[d] /\ Fits(challenges[d])
        /\ Stored(d) /\ Fits(challenges[d]) => new = challenges[d]
    BY <1>1 DEF Stored
  <2> HIDE DEF new
  <2>4. challenges'[d] = new /\ \A e \in Days \ {d} : challenges'[e] = challenges[e]
    BY <1>1, <2>1 DEF Inv, TypeOK
  <2>5. challenges' \in [Days -> Row \cup {None}]
    BY <1>1, <2>1, <2>2 DEF Inv, TypeOK
  <2> QED BY <2>3, <2>4, <2>5 DEF Stored
<1>3. /\ handler' \in [Handlers -> HandlerType]
      /\ handler'[h].phase = "select" /\ handler'[h].day = d
      /\ \A k \in Handlers \ {h} : handler'[k] = handler[k]
  <2>1. "select" \in Phases /\ Forget(h, "select") /\ TypeOK
    BY DEF Delete, Inv, Phases
  <2> QED BY <2>1, Forgotten
<1>4. \A r : Fits(r)' <=> Fits(r)
  BY DEF Fits, Delete
<1>5. TypeOK'
  BY <1>2, <1>3 DEF TypeOK, Inv, Delete, history, HandlerType
<1>6. RowsOld'
  BY <1>2 DEF RowsOld, Inv, Stored, Delete
<1>7. ASSUME NEW k \in Handlers, k # h PROVE Prepared(k)'
  <2>1. Prepared(k) /\ handler'[k] = handler[k] /\ handler[k].day \in Days
    BY <1>3, <1>7 DEF Inv, TypeOK
  <2>2. handler[k].phase # "replace" /\ UNCHANGED <<kind, pool, shape, made>>
    <3>1. UNCHANGED <<kind, pool, shape, made>>
      BY DEF Delete
    <3> QED BY <1>1, <2>1, <3>1 DEF Prepared
  <2>3. CASE handler[k].day = d
    BY <1>2, <1>4, <2>1, <2>2, <2>3 DEF Prepared, Stored
  <2>4. CASE handler[k].day # d
    BY <1>2, <1>4, <2>1, <2>2, <2>4 DEF Prepared, Stored
  <2> QED BY <2>3, <2>4
<1>8. Prepared(h)'
  BY <1>2, <1>3, <1>4 DEF Prepared, Stored
<1>9. ASSUME NEW g \in given PROVE Held(g)'
  <2>1. Held(g) /\ g.day \in Days
    BY DEF Inv, TypeOK
  <2> QED BY <1>1, <1>2, <2>1 DEF Held, Stored, Fits, Delete, history
<1>10. OneChallengeADay'
  BY DEF Inv, OneChallengeADay, Delete, history
<1> QED BY <1>5, <1>6, <1>7, <1>8, <1>9, <1>10 DEF Inv, Delete, history

(* Two requests of one server replace a Logo with the same one, so what    *)
(* the first was answered with stays.                                      *)
LEMMA ReplaceInv ==
  ASSUME DailyChallengeAssumption, Inv, NEW h \in Handlers, Replace(h), First[pool] # None
  PROVE  Inv'
<1> DEFINE d == handler[h].day
           new == [challenges[d] EXCEPT !.answer = First[pool]]
<1>1. /\ d \in Days /\ kind = "logo" /\ challenges[d] \in Row /\ challenges[d] # None /\ challenges[d].id = handler[h].id
      /\ challenges[d].answer \notin pool \/ challenges[d].answer = First[pool]
  BY DEF Replace, Inv, Prepared, TypeOK, Stored
<1>2. First[pool] \in pool /\ First[pool] \in Models
  BY DEF DailyChallengeAssumption, Inv, TypeOK
<1>3. /\ new \in Row /\ new # None /\ new.answer = First[pool] /\ new.id = challenges[d].id
      /\ challenges[d].answer \in pool => new.answer = challenges[d].answer
  BY <1>1, <1>2 DEF Row, DailyChallengeAssumption
<1>4. challenges' = [challenges EXCEPT ![d] = new]
  BY <1>1 DEF Replace, Row, DailyChallengeAssumption
<1> HIDE DEF new
<1>5. /\ challenges' \in [Days -> Row \cup {None}] /\ challenges'[d] = new
      /\ \A e \in Days \ {d} : challenges'[e] = challenges[e]
  BY <1>1, <1>3, <1>4 DEF Inv, TypeOK
<1>6. /\ handler' \in [Handlers -> HandlerType]
      /\ handler'[h].phase = "again" /\ handler'[h].day = d
      /\ \A k \in Handlers \ {h} : handler'[k] = handler[k]
  <2>1. "again" \in Phases /\ Forget(h, "again") /\ TypeOK
    BY DEF Replace, Inv, Phases
  <2> QED BY <2>1, Forgotten
<1>7. UNCHANGED <<kind, today, pool, shape, made, release, given>> /\ straddling' \subseteq Days
  BY <1>1 DEF Replace, Inv, TypeOK
<1>8. TypeOK'
  BY <1>5, <1>6, <1>7 DEF TypeOK, Inv, HandlerType
<1>9. RowsOld'
  <2> SUFFICES ASSUME NEW e \in Days, challenges'[e] # None
               PROVE  challenges'[e].id <= made'
    BY DEF RowsOld, Stored
  <2>1. challenges[e] # None => challenges[e].id <= made
    BY DEF Inv, RowsOld, Stored
  <2>2. CASE e = d
    BY <1>1, <1>3, <1>5, <1>7, <2>1, <2>2
  <2>3. CASE e # d
    BY <1>5, <1>7, <2>1, <2>3
  <2> QED BY <2>2, <2>3
<1>10. \A r : (Fits(r)' <=> Fits(r)) /\ (Fits(r) <=> r.answer \in pool)
  BY <1>1, <1>7 DEF Fits
<1>11. ASSUME NEW k \in Handlers PROVE Prepared(k)'
  <2>1. CASE k = h
    BY <1>2, <1>3, <1>5, <1>6, <1>10, <2>1 DEF Prepared, Stored
  <2>2. CASE k # h
    <3>1. Prepared(k) /\ handler'[k] = handler[k] /\ handler[k].day \in Days
      BY <1>6, <2>2 DEF Inv, TypeOK
    <3>2. handler[k].phase # "delete"
      BY <1>1, <3>1 DEF Prepared
    <3>3. CASE handler[k].day = d
      BY <1>1, <1>2, <1>3, <1>5, <1>7, <1>10, <3>1, <3>2, <3>3 DEF Prepared, Stored
    <3>4. CASE handler[k].day # d
      BY <1>5, <1>7, <1>10, <3>1, <3>2, <3>4 DEF Prepared, Stored
    <3> QED BY <3>3, <3>4
  <2> QED BY <2>1, <2>2
<1>12. ASSUME NEW g \in given PROVE Held(g)'
  <2>1. Held(g) /\ g.day \in Days
    BY DEF Inv, TypeOK
  <2>2. CASE g.day = d
    BY <1>1, <1>2, <1>3, <1>5, <1>7, <1>10, <2>1, <2>2 DEF Held, Stored
  <2>3. CASE g.day # d
    BY <1>5, <1>7, <1>10, <2>1, <2>3 DEF Held, Stored
  <2> QED BY <2>2, <2>3
<1>13. OneChallengeADay'
  BY <1>7 DEF Inv, OneChallengeADay
<1> QED BY <1>7, <1>8, <1>9, <1>11, <1>12, <1>13 DEF Inv

LEMMA SelectInv ==
  ASSUME DailyChallengeAssumption, Inv, NEW h \in Handlers, Select(h)
  PROVE  Inv'
<1> DEFINE models == IF kind = "classic" THEN handler[h].pool ELSE pool
<1>1. CASE End(h)
  BY <1>1, EndInv DEF Select
<1>2. CASE \E m \in Candidates(models) :
             handler' = [handler EXCEPT ![h].phase = "insert", ![h].answer = m, ![h].pool = models]
  <2>1. PICK m \in Candidates(models) :
          handler' = [handler EXCEPT ![h].phase = "insert", ![h].answer = m, ![h].pool = models]
    BY <1>2
  <2>2. m \in models
    BY DEF Candidates, LeastRecent
  <2>3. models \in Pools
    BY <2>2 DEF Inv, TypeOK
  <2>4. m \in Models
    BY <2>2, <2>3 DEF DailyChallengeAssumption
  <2>5. kind = "logo" => m \in pool
    BY <2>2
  <2> HIDE DEF models
  <2> DEFINE x == [handler[h] EXCEPT !.phase = "insert", !.answer = m, !.pool = models]
  <2>6. x \in HandlerType /\ x.phase = "insert" /\ x.answer = m /\ x.pool = models /\ x.day = handler[h].day
    BY <2>3, <2>4 DEF HandlerType, Phases, Inv, TypeOK
  <2>7. handler' = [handler EXCEPT ![h] = x]
    BY <2>1 DEF Inv, TypeOK
  <2> HIDE DEF x
  <2>8. handler'[h] = x /\ \A k \in Handlers \ {h} : handler'[k] = handler[k]
    BY <2>7, OthersKept DEF Inv
  <2>9. UNCHANGED <<kind, today, pool, shape, challenges, made, release, given, straddling>>
    BY DEF Select, history
  <2>10. TypeOK'
    BY <2>6, <2>7, <2>9 DEF TypeOK, Inv, HandlerType
  <2>11. Prepared(h)'
    <3>1. Stored(handler[h].day) => Fits(challenges[handler[h].day])
      BY DEF Select, Inv, Prepared
    <3> QED BY <2>3, <2>4, <2>5, <2>6, <2>8, <2>9, <3>1 DEF Prepared, Stored, Fits
  <2> QED BY <2>8, <2>9, <2>10, <2>11, LooksInv
<1> QED BY <1>1, <1>2 DEF Select

(* A challenge is inserted only where there is none; with a new id, and    *)
(* one that can be played.                                                 *)
LEMMA InsertInv ==
  ASSUME DailyChallengeAssumption, Inv, NEW h \in Handlers, Insert(h)
  PROVE  Inv'
<1> DEFINE d == handler[h].day
           new == [id |-> made + 1, answer |-> handler[h].answer, shape |-> shape,
                   from |-> handler[h].pool]
<1>1. /\ d \in Days /\ handler[h].answer \in Models /\ handler[h].pool \in Pools
      /\ kind = "logo" => handler[h].answer \in pool
      /\ challenges[d] # None => Fits(challenges[d])
      /\ made \in Nat /\ shape \in Shapes
  BY DEF Insert, Inv, Prepared, TypeOK, Stored
<1>2. new \in Row /\ new.id = made + 1 /\ Fits(new)
  BY <1>1 DEF Row, Fits
<1>3. new # None
  BY <1>2 DEF Row, DailyChallengeAssumption
<1>4. CASE challenges[d] # None
  <2> DEFINE x == [Idle EXCEPT !.phase = "again", !.day = d]
  <2>1. x \in HandlerType /\ x.phase = "again" /\ x.day = d
    BY <1>1 DEF Idle, HandlerType, Phases
  <2>2. handler' = [handler EXCEPT ![h] = x]
    BY DEF Insert, Forget
  <2> HIDE DEF x
  <2>3. handler'[h] = x /\ \A k \in Handlers \ {h} : handler'[k] = handler[k]
    BY <2>2, OthersKept DEF Inv
  <2>4. UNCHANGED <<kind, today, pool, shape, challenges, made, release, given, straddling>>
    BY <1>4 DEF Insert
  <2>5. TypeOK'
    BY <2>1, <2>2, <2>4 DEF TypeOK, Inv, HandlerType
  <2>6. Prepared(h)'
    BY <1>1, <1>4, <2>1, <2>3, <2>4 DEF Prepared, Stored, Fits
  <2> QED BY <2>3, <2>4, <2>5, <2>6, LooksInv
<1>5. CASE challenges[d] = None
  <2>1. made' = made + 1 /\ challenges' = [challenges EXCEPT ![d] = new]
    BY <1>5 DEF Insert
  <2>2. /\ UNCHANGED <<kind, today, pool, shape, release, given>>
        /\ straddling' \subseteq Days
    BY <1>1, <1>5 DEF Insert, Inv, TypeOK
  <2> HIDE DEF new
  <2>3. /\ challenges' \in [Days -> Row \cup {None}] /\ challenges'[d] = new
        /\ \A e \in Days \ {d} : challenges'[e] = challenges[e]
    BY <1>1, <1>2, <2>1 DEF Inv, TypeOK
  <2>4. /\ handler' \in [Handlers -> HandlerType]
        /\ handler'[h].phase = "again" /\ handler'[h].day = d
        /\ \A k \in Handlers \ {h} : handler'[k] = handler[k]
    <3>1. "again" \in Phases /\ Forget(h, "again") /\ TypeOK
      BY DEF Insert, Inv, Phases
    <3> QED BY <3>1, Forgotten
  <2>5. TypeOK'
    BY <1>1, <2>1, <2>2, <2>3, <2>4 DEF TypeOK, Inv, HandlerType
  <2>6. RowsOld'
    <3> SUFFICES ASSUME NEW e \in Days, challenges'[e] # None
                 PROVE  challenges'[e].id <= made'
      BY DEF RowsOld, Stored
    <3>1. CASE e = d
      BY <1>1, <1>2, <2>1, <2>3, <3>1
    <3>2. CASE e # d
      <4>1. challenges'[e] = challenges[e] /\ challenges[e].id <= made /\ challenges[e].id \in Nat
        BY <2>3, <3>2 DEF Inv, RowsOld, Stored, TypeOK, Row
      <4> QED BY <1>1, <2>1, <4>1
    <3> QED BY <3>1, <3>2
  <2>7. \A r : Fits(r)' <=> Fits(r)
    BY <2>2 DEF Fits
  <2>8. ASSUME NEW k \in Handlers PROVE Prepared(k)'
    <3>1. CASE k = h
      BY <1>2, <1>3, <2>3, <2>4, <2>7, <3>1 DEF Prepared, Stored
    <3>2. CASE k # h
      <4>1. Prepared(k) /\ handler'[k] = handler[k] /\ handler[k].day \in Days /\ handler[k].id \in Nat
        BY <2>4, <3>2 DEF Inv, TypeOK
      <4>2. handler[k].phase = "delete" => handler[k].id <= made /\ handler[k].id # made + 1
        BY <1>1, <4>1 DEF Prepared
      <4>3. handler[k].phase = "delete" => handler[k].id <= made'
        BY <1>1, <2>1, <4>1, <4>2
      <4>4. CASE handler[k].day = d
        BY <1>2, <1>3, <1>5, <2>2, <2>3, <2>7, <4>1, <4>2, <4>3, <4>4 DEF Prepared, Stored
      <4>5. CASE handler[k].day # d
        BY <2>2, <2>3, <2>7, <4>1, <4>3, <4>5 DEF Prepared, Stored
      <4> QED BY <4>4, <4>5
    <3> QED BY <3>1, <3>2
  <2>9. ASSUME NEW g \in given PROVE Held(g)'
    <3>1. Held(g) /\ g.day \in Days
      BY DEF Inv, TypeOK
    <3>2. CASE g.day = d
      <4>1. kind = "timeline" /\ g.release # release /\ g.release <= release
        BY <1>5, <3>1, <3>2 DEF Held, Stored, Inv, TypeOK
      <4> QED BY <2>2, <4>1 DEF Held
    <3>3. CASE g.day # d
      BY <2>2, <2>3, <2>7, <3>1, <3>3 DEF Held, Stored
    <3> QED BY <3>2, <3>3
  <2>10. OneChallengeADay'
    BY <2>2 DEF Inv, OneChallengeADay
  <2> QED BY <2>2, <2>5, <2>6, <2>8, <2>9, <2>10 DEF Inv
<1> QED BY <1>4, <1>5

LEMMA AgainInv ==
  ASSUME DailyChallengeAssumption, Inv, NEW h \in Handlers, Again(h)
  PROVE  Inv'
<1>1. Stored(handler[h].day) /\ Fits(challenges[handler[h].day])
  BY DEF Again, Inv, Prepared
<1> QED BY <1>1, AnswerInv DEF Again, Stored

(* Midnight, and a seed under requests of Classic and Timeline.            *)
LEMMA AroundInv ==
  ASSUME DailyChallengeAssumption, Inv,
         UNCHANGED <<kind, shape, challenges, handler, made, release, given, straddling>>,
         today' \in Days, pool' \in Pools, pool' = pool \/ kind # "logo"
  PROVE  Inv'
<1>1. \A r : Fits(r)' <=> Fits(r)
  BY DEF Fits
<1>2. TypeOK'
  BY DEF Inv, TypeOK
<1>3. RowsOld' /\ OneChallengeADay'
  BY DEF Inv, RowsOld, Stored, OneChallengeADay
<1>4. \A h \in Handlers : Prepared(h)'
  BY <1>1 DEF Inv, Prepared, Stored
<1>5. \A g \in given : Held(g)'
  BY <1>1 DEF Inv, Held, Stored
<1> QED BY <1>2, <1>3, <1>4, <1>5 DEF Inv

(* A server that starts knows nothing of the requests of the last one, and *)
(* owes its answers only what no size and no catalogue can change.         *)
LEMMA RestartInv ==
  ASSUME DailyChallengeAssumption, Inv, NEW models \in Pools, NEW sizes \in Shapes,
         Restart(models, sizes)
  PROVE  Inv'
<1>1. /\ UNCHANGED <<kind, today, challenges, made, given, straddling>>
      /\ release' = release + 1 /\ pool' = models /\ shape' = sizes
      /\ handler' = [h \in Handlers |-> Idle]
  BY DEF Restart, history
<1>2. Idle \in HandlerType
  BY DEF Idle, HandlerType, Phases, Days, DailyChallengeAssumption
<1>3. TypeOK'
  BY <1>1, <1>2 DEF Inv, TypeOK, HandlerType
<1>4. RowsOld' /\ OneChallengeADay'
  BY <1>1 DEF Inv, RowsOld, Stored, OneChallengeADay
<1>5. ASSUME NEW h \in Handlers PROVE Prepared(h)'
  <2>1. handler'[h].phase = "idle"
    BY <1>1 DEF Idle
  <2> QED BY <2>1, IdlePrepared
<1>6. ASSUME NEW g \in given PROVE Held(g)'
  <2>1. Held(g) /\ g.release \in Nat /\ release \in Nat
    BY DEF Inv, TypeOK
  <2>2. g.release <= release' /\ g.release # release'
    BY <1>1, <2>1 DEF Held
  <2> QED BY <1>1, <2>1, <2>2 DEF Held, Stored
<1> QED BY <1>1, <1>3, <1>4, <1>5, <1>6 DEF Inv

LEMMA NextInv ==
  ASSUME DailyChallengeAssumption, Inv, [Next]_vars
  PROVE  Inv'
<1>1. ASSUME NEW h \in Handlers, Begin(h) \/ Handle(h) \/ Drop(h) PROVE Inv'
  <2>1. CASE Begin(h) \/ ReadPool(h) \/ Find(h) \/ Delete(h)
    BY <2>1, BeginInv, ReadPoolInv, FindInv, DeleteInv
  <2>2. CASE Select(h) \/ Insert(h) \/ Again(h)
    BY <2>2, SelectInv, InsertInv, AgainInv
  <2>3. CASE Drop(h)
    BY <2>3, EndInv DEF Drop
  <2>4. CASE Replace(h) /\ First[pool] # None
    BY <2>4, ReplaceInv
  <2>5. CASE Replace(h) /\ First[pool] = None
    BY <2>5, EndInv DEF Replace, history
  <2> QED BY <1>1, <2>1, <2>2, <2>3, <2>4, <2>5 DEF Handle
<1>2. CASE Tick
  <2>1. today' \in Days
    BY <1>2 DEF Tick, Inv, TypeOK, Days, DailyChallengeAssumption
  <2>2. pool \in Pools
    BY DEF Inv, TypeOK
  <2> QED BY <1>2, <2>1, <2>2, AroundInv DEF Tick, history
<1>3. ASSUME NEW p \in Pools, Seed(p) PROVE Inv'
  <2>1. today \in Days
    BY DEF Inv, TypeOK
  <2> QED BY <1>3, <2>1, AroundInv DEF Seed, history
<1>4. ASSUME NEW p \in Pools, NEW s \in Shapes, Restart(p, s) PROVE Inv'
  BY <1>4, RestartInv
<1>5. CASE UNCHANGED vars
  <2>1. today \in Days /\ pool \in Pools
    BY DEF Inv, TypeOK
  <2> QED BY <1>5, <2>1, AroundInv DEF vars, history
<1> QED BY <1>1, <1>2, <1>3, <1>4, <1>5 DEF Next

LEMMA InvGivesProperties ==
  ASSUME Inv
  PROVE  GivenIsStored /\ InsertedIsFound
<1>1. GivenIsStored
  BY DEF Inv, Held, Stored, GivenIsStored
<1>2. InsertedIsFound
  BY DEF Inv, Prepared, Stored, InsertedIsFound
<1> QED BY <1>1, <1>2

(* All requests of a day are answered with one challenge, whichever of     *)
(* them select, insert, delete or replace beside each other, with seeds,   *)
(* midnights and restarts between their statements, for any number of      *)
(* requests, days, models and sizes.                                       *)
THEOREM OneChallengeADayAlways ==
  ASSUME DailyChallengeAssumption
  PROVE  Spec => []OneChallengeADay
<1>1. Init => Inv
  BY InitInv
<1>2. Inv /\ [Next]_vars => Inv'
  BY NextInv
<1>3. Inv => OneChallengeADay
  BY DEF Inv
<1> QED BY <1>1, <1>2, <1>3, PTL DEF Spec

(* What a running server answered stays the challenge its guesses are      *)
(* checked with, and can be played; and a request that selected one finds  *)
(* one when it reads again.                                                *)
THEOREM GivenIsStoredAlways ==
  ASSUME DailyChallengeAssumption
  PROVE  Spec => [](GivenIsStored /\ InsertedIsFound)
<1>1. Init => Inv
  BY InitInv
<1>2. Inv /\ [Next]_vars => Inv'
  BY NextInv
<1>3. Inv => GivenIsStored /\ InsertedIsFound
  BY InvGivesProperties
<1> QED BY <1>1, <1>2, <1>3, PTL DEF Spec
-----------------------------------------------------------------------------
(* That answers rest.  Before(d) are the days whose answers that of d is   *)
(* compared with.                                                          *)
Between(d, e) == {f \in Days : d < f /\ f < e /\ Stored(f)}
Before(d) == {e \in Days : Stored(e) /\ e < d /\ Cardinality(Between(e, d)) < Cooldown}

(* The answer rested, or nothing of the pool it was selected of had rested *)
(* longer.                                                                 *)
Rested(d, answer, from) ==
  answer \in Answers(Before(d)) =>
    /\ from \subseteq Answers(Before(d))
    /\ kind = "classic" =>
         \A m \in from : LastUsed(answer, Before(d)) <= LastUsed(m, Before(d))

(* No challenge is of a day to come, and no request is. *)
DaysPast ==
  /\ \A d \in Days : Stored(d) => d <= today
  /\ \A h \in Handlers : handler[h].day <= today

RestedRows ==
  \A d \in Days : Stored(d) /\ (Before(d) \cup {d}) \cap straddling = {} =>
    Rested(d, challenges[d].answer, challenges[d].from)

(* What a request of today has selected will have rested when it is        *)
(* inserted: whatever is inserted meanwhile is late, or today's.           *)
RestedNext ==
  \A h \in Handlers :
    /\ handler[h].phase = "insert" /\ handler[h].day = today
    /\ ~Stored(today) /\ Before(today) \cap straddling = {}
    => Rested(today, handler[h].answer, handler[h].pool)

RestInv == DaysPast /\ (kind # "timeline" => RestedRows /\ RestedNext)

(* The last of some days. *)
LEMMA LastDayOf ==
  ASSUME DailyChallengeAssumption, NEW S \in SUBSET Days, S # {}
  PROVE  \E d \in S : \A e \in S : e <= d
<1> DEFINE T == {LastDay - d : d \in S}
           R == OpToRel(<, Nat)
<1>1. T \subseteq Nat /\ T # {}
  <2>1. \A d \in S : LastDay - d \in Nat
    BY DEF Days, DailyChallengeAssumption
  <2> QED BY <2>1
<1>2. IsWellFoundedOn(R, Nat)
  BY NatLessThanWellFounded
<1>3. \A m, n \in Nat : m < n => <<m, n>> \in R
  BY DEF OpToRel
<1> HIDE DEF R
<1>4. PICK n \in T : \A m \in T : ~(<<m, n>> \in R)
  <2> HIDE DEF T
  <2> QED BY <1>1, <1>2, WFMin
<1>5. PICK d \in S : n = LastDay - d
  BY <1>4
<1>6. ASSUME NEW e \in S PROVE e <= d
  <2>1. LastDay - e \in T /\ LastDay - e \in Nat /\ n \in Nat
    BY <1>1, <1>4
  <2>2. ~(LastDay - e < n)
    BY <1>3, <1>4, <2>1
  <2>3. e \in Nat /\ d \in Nat /\ LastDay \in Nat
    BY DEF Days, DailyChallengeAssumption
  <2> QED BY <1>5, <2>2, <2>3
<1> QED BY <1>6

(* LastUsed, of any table. *)
LastOf(table, m, days) ==
  CHOOSE d \in days : table[d].answer = m /\ \A e \in days : table[e].answer = m => e <= d

LEMMA LastUsedIs ==
  ASSUME DailyChallengeAssumption, NEW table, NEW days \in SUBSET Days, NEW m,
         \E d \in days : table[d].answer = m
  PROVE  /\ LastOf(table, m, days) \in days /\ table[LastOf(table, m, days)].answer = m
         /\ \A e \in days : table[e].answer = m => e <= LastOf(table, m, days)
<1> DEFINE S == {d \in days : table[d].answer = m}
<1>1. S \in SUBSET Days /\ S # {}
  OBVIOUS
<1>2. \E d \in S : \A e \in S : e <= d
  <2> HIDE DEF S
  <2> QED BY <1>1, LastDayOf
<1>3. \E d \in days : table[d].answer = m /\ \A e \in days : table[e].answer = m => e <= d
  BY <1>2
<1> QED BY <1>3 DEF LastOf

(* Of tables with the same answers it is the same day. *)
LEMMA LastUsedSame ==
  ASSUME DailyChallengeAssumption, NEW c, NEW t, NEW days \in SUBSET Days,
         \A d \in days : t[d].answer = c[d].answer, NEW m, \E d \in days : c[d].answer = m
  PROVE  LastOf(t, m, days) = LastOf(c, m, days)
<1> DEFINE x == LastOf(t, m, days)
           y == LastOf(c, m, days)
<1>1. /\ y \in days /\ c[y].answer = m
      /\ \A e \in days : c[e].answer = m => e <= y
  BY LastUsedIs
<1>2. \E d \in days : t[d].answer = m
  OBVIOUS
<1>3. /\ x \in days /\ t[x].answer = m
      /\ \A e \in days : t[e].answer = m => e <= x
  BY <1>2, LastUsedIs
<1> HIDE DEF x, y
<1>4. x <= y /\ y <= x
  BY <1>1, <1>3
<1>5. x \in Nat /\ y \in Nat
  BY <1>1, <1>3 DEF Days
<1>6. x = y
  BY <1>4, <1>5
<1> QED BY <1>6 DEF x, y

(* Days change only with the challenges before them. *)
LEMMA BeforeSame ==
  ASSUME NEW d \in Days, \A e \in Days : e < d => (Stored(e)' <=> Stored(e))
  PROVE  Before(d)' = Before(d)
<1>1. \A e \in Days : Between(e, d)' = Between(e, d)
  BY DEF Between
<1> QED BY <1>1 DEF Before

(* A challenge that is inserted and is not among those before a day leaves *)
(* them as they are.                                                       *)
LEMMA BeforeInserted ==
  ASSUME DailyChallengeAssumption, NEW d \in Days, NEW e \in Days, ~Stored(e), Stored(e)',
         \A x \in Days \ {e} : Stored(x)' <=> Stored(x), e \notin Before(d)'
  PROVE  Before(d)' = Before(d)
<1>1. CASE ~(e < d)
  <2>1. \A x \in Days : x < d => (Stored(x)' <=> Stored(x))
    BY <1>1
  <2> QED BY <2>1, BeforeSame
<1>2. CASE e < d
  <2>1. d \in Nat /\ e \in Nat /\ Days \subseteq Nat
    BY DEF Days
  <2>2. ~(Cardinality(Between(e, d)') < Cooldown)
    BY <1>2 DEF Before
  <2>0. \A x \in Days : x > e => (Stored(x)' <=> Stored(x))
    <3> TAKE x \in Days
    <3>1. x > e => x \in Days \ {e}
      BY <2>1
    <3> QED BY <3>1
  <2>3. Between(e, d)' = Between(e, d)
    BY <2>0, <2>1 DEF Between
  <2>4. ASSUME NEW x \in Days, x > e, x < d PROVE Between(x, d)' = Between(x, d)
    <3>1. \A f \in Days : f > x => f > e
      BY <2>1, <2>4
    <3> QED BY <2>0, <2>1, <3>1 DEF Between
  <2>5. ASSUME NEW x \in Days, x < e
        PROVE  /\ ~(Cardinality(Between(x, d)) < Cooldown)
               /\ ~(Cardinality(Between(x, d)') < Cooldown)
    <3>1. Between(e, d) \in SUBSET Between(x, d) /\ Between(e, d)' \in SUBSET Between(x, d)'
      <4>1. \A f \in Days : e < f => x < f
        BY <2>1, <2>5
      <4> QED BY <4>1 DEF Between
    <3>2. IsFiniteSet(Days)
      BY FS_Interval DEF Days, DailyChallengeAssumption
    <3>3. IsFiniteSet(Between(x, d)) /\ IsFiniteSet(Between(x, d)')
      <4>1. Between(x, d) \in SUBSET Days /\ Between(x, d)' \in SUBSET Days
        BY DEF Between
      <4> QED BY <3>2, <4>1, FS_Subset
    <3>4. /\ Cardinality(Between(e, d)) <= Cardinality(Between(x, d))
          /\ Cardinality(Between(e, d)') <= Cardinality(Between(x, d)')
      BY <3>1, <3>3, FS_Subset
    <3>5. /\ Cardinality(Between(e, d)) \in Nat /\ Cardinality(Between(x, d)) \in Nat
          /\ Cardinality(Between(e, d)') \in Nat /\ Cardinality(Between(x, d)') \in Nat
      <4>1. IsFiniteSet(Between(e, d)) /\ IsFiniteSet(Between(e, d)')
        BY <3>1, <3>3, FS_Subset
      <4> QED BY <3>3, <4>1, FS_CardinalityType
    <3> QED BY <2>2, <2>3, <3>4, <3>5 DEF DailyChallengeAssumption
  <2>6. \A x \in Days : x \in Before(d)' <=> x \in Before(d)
    <3> TAKE x \in Days
    <3>1. CASE x > e /\ x < d
      BY <2>4, <3>1, <2>1 DEF Before
    <3>2. CASE x < e
      BY <2>5, <3>2 DEF Before
    <3>3. CASE x = e
      BY <3>3 DEF Before
    <3>4. CASE ~(x < d)
      BY <3>4 DEF Before
    <3> QED BY <2>1, <3>1, <3>2, <3>3, <3>4
  <2> QED BY <2>6 DEF Before
<1> QED BY <1>1, <1>2

(* An answer that rested stays so, while the answers before it stay.       *)
LEMMA RestedSame ==
  ASSUME DailyChallengeAssumption, NEW d \in Days, NEW answer, NEW from,
         kind' = kind, Before(d)' = Before(d),
         \A e \in Before(d) : challenges'[e].answer = challenges[e].answer,
         Rested(d, answer, from)
  PROVE  Rested(d, answer, from)'
<1> DEFINE B == Before(d)
<1>1. B \in SUBSET Days
  BY DEF Before
<1>2. Answers(B)' = Answers(B)
  BY DEF Answers
<1>3. ASSUME NEW m \in Answers(B) PROVE LastUsed(m, B)' = LastUsed(m, B)
  <2>1. \E e \in B : challenges[e].answer = m
    BY <1>3 DEF Answers
  <2>2. LastOf(challenges', m, B) = LastOf(challenges, m, B)
    <3>1. \A e \in B : challenges'[e].answer = challenges[e].answer
      OBVIOUS
    <3> HIDE DEF B
    <3> QED BY <1>1, <2>1, <3>1, LastUsedSame
  <2> QED BY <2>2 DEF LastUsed, LastOf
<1> QED BY <1>2, <1>3 DEF Rested

(* A step of a request that leaves the challenges as they are, and selects *)
(* nothing.                                                                *)
LEMMA RestFrame ==
  ASSUME DailyChallengeAssumption, RestInv, today \in Days,
         UNCHANGED <<kind, today, challenges, straddling>>,
         \A k \in Handlers : /\ handler'[k].day <= today
                             /\ handler'[k].phase = "insert" => handler'[k] = handler[k]
  PROVE  RestInv'
<1>1. \A d \in Days : Stored(d)' <=> Stored(d)
  BY DEF Stored
<1>2. ASSUME NEW d \in Days PROVE Before(d)' = Before(d)
  BY <1>1, BeforeSame
<1>3. ASSUME NEW d \in Days, NEW answer, NEW from, Rested(d, answer, from)
      PROVE  Rested(d, answer, from)'
  <2>1. \A e \in Before(d) : challenges'[e].answer = challenges[e].answer
    OBVIOUS
  <2> QED BY <1>2, <1>3, <2>1, RestedSame
<1>4. DaysPast'
  BY <1>1 DEF RestInv, DaysPast
<1>5. ASSUME kind # "timeline" PROVE RestedRows'
  BY <1>1, <1>2, <1>3, <1>5 DEF RestInv, RestedRows
<1>6. ASSUME kind # "timeline" PROVE RestedNext'
  BY <1>1, <1>2, <1>3, <1>6 DEF RestInv, RestedNext
<1> QED BY <1>4, <1>5, <1>6 DEF RestInv

(* One request has gone on, without a selection. *)
LEMMA RestStep ==
  ASSUME DailyChallengeAssumption, Inv, RestInv, NEW h \in Handlers, NEW x,
         UNCHANGED <<kind, today, challenges, straddling>>,
         handler' = [handler EXCEPT ![h] = x], x.day <= today, x.phase # "insert"
  PROVE  RestInv'
<1>1. handler'[h] = x /\ \A k \in Handlers \ {h} : handler'[k] = handler[k]
  BY OthersKept DEF Inv
<1>2. \A k \in Handlers : /\ handler'[k].day <= today
                          /\ handler'[k].phase = "insert" => handler'[k] = handler[k]
  BY <1>1 DEF RestInv, DaysPast
<1> QED BY <1>2, RestFrame DEF Inv, TypeOK

(* On a day without a challenge, the newest ones are those before it. *)
LEMMA NewestAreBefore ==
  ASSUME TypeOK, DaysPast, ~Stored(today)
  PROVE  Newest(Cooldown) = Before(today)
<1>1. today \in Nat /\ today \in Days /\ Days \subseteq Nat
  BY DEF TypeOK, Days
<1>2. \A e \in Days : Stored(e) => e < today
  <2> SUFFICES ASSUME NEW e \in Days, Stored(e) PROVE e < today
    OBVIOUS
  <2>1. e <= today
    BY DEF DaysPast
  <2>2. e # today
    OBVIOUS
  <2>3. e \in Nat
    BY <1>1
  <2> HIDE DEF Days
  <2> QED BY <1>1, <2>1, <2>2, <2>3
<1>3. ASSUME NEW d \in Days
      PROVE  {e \in Days : e > d /\ challenges[e] # None} = Between(d, today)
  BY <1>1, <1>2 DEF Between, Stored
<1> QED BY <1>2, <1>3 DEF Newest, Before, Stored

(* One more day to look back changes nothing about the answers of the      *)
(* others.                                                                 *)
LEMMA LookingBack ==
  ASSUME DailyChallengeAssumption, NEW m \in Answers(Newest(Cooldown))
  PROVE  LastUsed(m, Newest(Cooldown + 1)) = LastUsed(m, Newest(Cooldown))
<1> DEFINE N == Newest(Cooldown)
           M == Newest(Cooldown + 1)
           After(d) == {e \in Days : e > d /\ challenges[e] # None}
           x == LastOf(challenges, m, N)
           y == LastOf(challenges, m, M)
<1>1. Days \subseteq Nat /\ Cooldown \in Nat /\ IsFiniteSet(Days)
  BY FS_Interval DEF Days, DailyChallengeAssumption
<1>2. ASSUME NEW d \in Days
      PROVE  IsFiniteSet(After(d)) /\ Cardinality(After(d)) \in Nat
  <2>1. After(d) \in SUBSET Days
    OBVIOUS
  <2>2. IsFiniteSet(After(d))
    BY <1>1, <2>1, FS_Subset
  <2> QED BY <2>2, FS_CardinalityType
<1>3. ASSUME NEW d \in Days
      PROVE  /\ d \in N <=> (challenges[d] # None /\ Cardinality(After(d)) < Cooldown)
             /\ d \in M <=> (challenges[d] # None /\ Cardinality(After(d)) < Cooldown + 1)
  BY DEF Newest
<1>4. N \in SUBSET Days /\ M \in SUBSET Days
  BY DEF Newest
<1>5. N \subseteq M
  <2> SUFFICES ASSUME NEW d \in N PROVE d \in M
    OBVIOUS
  <2> HIDE DEF N, M, After
  <2> QED BY <1>1, <1>2, <1>3, <1>4
<1>6. \E d \in N : challenges[d].answer = m
  BY DEF Answers
<1>7. \E d \in M : challenges[d].answer = m
  BY <1>5, <1>6
<1> HIDE DEF N, M
<1>8. /\ x \in N /\ challenges[x].answer = m
      /\ \A e \in N : challenges[e].answer = m => e <= x
  BY <1>4, <1>6, LastUsedIs
<1>9. /\ y \in M /\ challenges[y].answer = m
      /\ \A e \in M : challenges[e].answer = m => e <= y
  BY <1>4, <1>7, LastUsedIs
<1> HIDE DEF x, y
<1>10. x \in Days /\ y \in Days /\ x \in Nat /\ y \in Nat
  BY <1>1, <1>4, <1>8, <1>9
<1>11. x <= y
  BY <1>5, <1>8, <1>9
<1>12. ASSUME x < y PROVE FALSE
  <2>1. After(y) \in SUBSET After(x)
    <3>1. \A e \in Days : e > y => e > x
      BY <1>1, <1>10, <1>12
    <3> QED BY <3>1
  <2>2. IsFiniteSet(After(x)) /\ Cardinality(After(x)) \in Nat /\ Cardinality(After(y)) \in Nat
    BY <1>2, <1>10
  <2>3. Cardinality(After(y)) <= Cardinality(After(x))
    BY <2>1, <2>2, FS_Subset
  <2>4. Cardinality(After(x)) < Cooldown /\ challenges[y] # None
    BY <1>3, <1>8, <1>9, <1>10
  <2>5. Cardinality(After(y)) < Cooldown
    <3> HIDE DEF After
    <3> QED BY <1>1, <2>2, <2>3, <2>4
  <2>6. y \in N
    BY <1>3, <1>10, <2>4, <2>5
  <2> QED BY <1>8, <1>9, <1>10, <1>12, <2>6
<1>13. x = y
  BY <1>10, <1>11, <1>12
<1> QED BY <1>13 DEF x, y, N, M, LastUsed, LastOf

(* What is selected today rests, or had rested longest of the pool. *)
LEMMA SelectedRests ==
  ASSUME DailyChallengeAssumption, Inv, DaysPast, kind # "timeline", ~Stored(today),
         NEW models, NEW m \in Candidates(models)
  PROVE  Rested(today, m, models)
<1>1. Newest(Cooldown) = Before(today)
  BY NewestAreBefore DEF Inv
<1> DEFINE B == Before(today)
           fresh == models \ Answers(B)
<1>2. CASE fresh # {}
  <2>1. m \in fresh
    BY <1>1, <1>2 DEF Candidates
  <2> QED BY <2>1 DEF Rested
<1>3. CASE fresh = {}
  <2>1. models \subseteq Answers(B)
    BY <1>3
  <2>2. ASSUME kind = "classic", NEW n \in models
        PROVE  LastUsed(m, B) <= LastUsed(n, B)
    <3>1. m \in LeastRecent(models)
      BY <1>1, <1>3, <2>2 DEF Candidates
    <3>2. m \in models /\ LastUsed(m, Newest(Cooldown + 1)) <= LastUsed(n, Newest(Cooldown + 1))
      BY <2>2, <3>1 DEF LeastRecent
    <3>3. m \in Answers(Newest(Cooldown)) /\ n \in Answers(Newest(Cooldown))
      BY <1>1, <2>1, <2>2, <3>2
    <3>4. /\ LastUsed(m, Newest(Cooldown + 1)) = LastUsed(m, B)
          /\ LastUsed(n, Newest(Cooldown + 1)) = LastUsed(n, B)
      BY <1>1, <3>3, LookingBack
    <3> QED BY <3>2, <3>4
  <2> QED BY <2>1, <2>2 DEF Rested
<1> QED BY <1>2, <1>3

LEMMA RestSelect ==
  ASSUME DailyChallengeAssumption, Inv, RestInv, NEW h \in Handlers, Select(h)
  PROVE  RestInv'
<1> DEFINE models == IF kind = "classic" THEN handler[h].pool ELSE pool
<1>1. UNCHANGED <<kind, today, challenges, straddling>> /\ today \in Days /\ handler[h].day <= today
  BY DEF Select, history, Inv, TypeOK, RestInv, DaysPast
<1>2. CASE End(h)
  <2>1. Idle.day <= today /\ Idle.phase # "insert"
    BY <1>1 DEF Idle, Days
  <2> QED BY <1>1, <1>2, <2>1, RestStep DEF End
<1>3. ASSUME NEW m \in Candidates(models),
             handler' = [handler EXCEPT ![h].phase = "insert", ![h].answer = m, ![h].pool = models]
      PROVE  RestInv'
  <2> DEFINE x == [handler[h] EXCEPT !.phase = "insert", !.answer = m, !.pool = models]
  <2>1. x.phase = "insert" /\ x.answer = m /\ x.pool = models /\ x.day = handler[h].day
    BY DEF Inv, TypeOK
  <2>2. handler' = [handler EXCEPT ![h] = x]
    BY <1>3 DEF Inv, TypeOK
  <2>3. kind # "timeline" /\ ~Stored(today) => Rested(today, m, models)
    BY SelectedRests DEF RestInv
  <2> HIDE DEF x, models
  <2>4. handler'[h] = x /\ \A k \in Handlers \ {h} : handler'[k] = handler[k]
    BY <2>2, OthersKept DEF Inv
  <2>5. \A d \in Days : Stored(d)' <=> Stored(d)
    BY <1>1 DEF Stored
  <2>6. ASSUME NEW d \in Days PROVE Before(d)' = Before(d)
    BY <2>5, BeforeSame
  <2>7. ASSUME NEW d \in Days, NEW answer, NEW from, Rested(d, answer, from)
        PROVE  Rested(d, answer, from)'
    <3>1. \A e \in Before(d) : challenges'[e].answer = challenges[e].answer
      BY <1>1
    <3> QED BY <1>1, <2>6, <2>7, <3>1, RestedSame
  <2>8. DaysPast'
    BY <1>1, <2>1, <2>4, <2>5 DEF RestInv, DaysPast
  <2>9. ASSUME kind # "timeline" PROVE RestedRows'
    BY <1>1, <2>5, <2>6, <2>7, <2>9 DEF RestInv, RestedRows
  <2>10. ASSUME kind # "timeline", NEW k \in Handlers,
                handler'[k].phase = "insert", handler'[k].day = today,
                ~Stored(today), Before(today) \cap straddling = {}
         PROVE  Rested(today, handler'[k].answer, handler'[k].pool)
    <3>1. CASE k = h
      BY <2>1, <2>3, <2>4, <2>10, <3>1
    <3>2. CASE k # h
      BY <2>4, <2>10, <3>2 DEF RestInv, RestedNext
    <3> QED BY <3>1, <3>2
  <2>11. ASSUME kind # "timeline" PROVE RestedNext'
    <3> SUFFICES ASSUME NEW k \in Handlers,
                        handler'[k].phase = "insert", handler'[k].day = today',
                        ~Stored(today)', Before(today)' \cap straddling' = {}
                 PROVE  Rested(today, handler[k].answer, handler[k].pool)'
      BY DEF RestedNext
    <3>1. ~Stored(today) /\ Before(today) \cap straddling = {}
      BY <1>1, <2>5, <2>6
    <3>2. Rested(today, handler'[k].answer, handler'[k].pool)
      BY <1>1, <2>10, <2>11, <3>1
    <3>3. \A d \in Days : Before(d)' = Before(d) /\ (d = today => Before(today)' = Before(d))
      BY <1>1, <2>6
    <3> QED BY <1>1, <2>7, <3>2
  <2> QED BY <1>1, <2>8, <2>9, <2>11 DEF RestInv
<1> QED BY <1>2, <1>3 DEF Select

(* A day whose days before it are untouched keeps them, and their answers. *)
LEMMA UntouchedBefore ==
  ASSUME DailyChallengeAssumption, NEW d \in Days, NEW x \in Days, x # d, kind' = kind,
         Stored(d)', \A e \in Days \ {d} : challenges'[e] = challenges[e],
         d < x => d \in straddling', straddling \subseteq straddling',
         Before(x)' \cap straddling' = {}
  PROVE  /\ Before(x)' = Before(x) /\ Before(x) \cap straddling = {}
         /\ \A answer, from : Rested(x, answer, from) => Rested(x, answer, from)'
<1>1. d \notin Before(x)'
  BY DEF Before
<1>2. \A e \in Days \ {d} : Stored(e)' <=> Stored(e)
  BY DEF Stored
<1>3. Before(x)' = Before(x)
  <2>1. CASE Stored(d)
    <3>1. \A e \in Days : Stored(e)' <=> Stored(e)
      BY <1>2, <2>1
    <3> QED BY <3>1, BeforeSame
  <2>2. CASE ~Stored(d)
    BY <1>1, <1>2, <2>2, BeforeInserted
  <2> QED BY <2>1, <2>2
<1>4. \A e \in Before(x) : challenges'[e].answer = challenges[e].answer
  <2>1. \A e \in Before(x) : e \in Days \ {d}
    BY <1>1, <1>3 DEF Before
  <2> QED BY <2>1
<1>5. \A answer, from : Rested(x, answer, from) => Rested(x, answer, from)'
  BY <1>3, <1>4, RestedSame
<1> QED BY <1>3, <1>5

(* A challenge is inserted on a day that has none. *)
LEMMA RestNewRow ==
  ASSUME DailyChallengeAssumption, Inv, RestInv, NEW h \in Handlers, NEW d \in Days, NEW new,
         d = handler[h].day, handler[h].phase = "insert", handler'[h].phase = "again",
         handler'[h].day = d, \A k \in Handlers \ {h} : handler'[k] = handler[k],
         UNCHANGED <<kind, today>>, challenges[d] = None, new # None,
         new.answer = handler[h].answer, new.from = handler[h].pool,
         challenges' = [challenges EXCEPT ![d] = new],
         straddling' = IF today > d THEN straddling \cup {d} ELSE straddling
  PROVE  RestInv'
<1>1. today \in Days /\ d <= today /\ today \in Nat /\ Days \subseteq Nat
  BY DEF Inv, TypeOK, RestInv, DaysPast, Days
<1>2. challenges'[d] = new /\ \A e \in Days \ {d} : challenges'[e] = challenges[e]
  BY <1>1 DEF Inv, TypeOK
<1>3. ~Stored(d) /\ Stored(d)' /\ \A e \in Days \ {d} : Stored(e)' <=> Stored(e)
  BY <1>2 DEF Stored
<1>4. straddling \subseteq straddling' /\ (d < today => d \in straddling')
  BY <1>1
<1>5. ASSUME NEW e \in Days, e # d, e <= today, Before(e)' \cap straddling' = {}
      PROVE  /\ Before(e)' = Before(e) /\ Before(e) \cap straddling = {}
             /\ \A answer, from : Rested(e, answer, from) => Rested(e, answer, from)'
  <2>1. d < e => d \in straddling'
    BY <1>1, <1>4, <1>5
  <2> QED BY <1>1, <1>2, <1>3, <1>4, <1>5, <2>1, UntouchedBefore
<1>6. DaysPast'
  <2>1. ASSUME NEW e \in Days, Stored(e)' PROVE e <= today
    <3>1. CASE e = d
      BY <1>1, <3>1
    <3>2. CASE e # d
      BY <1>3, <2>1, <3>2 DEF RestInv, DaysPast
    <3> QED BY <3>1, <3>2
  <2> QED BY <1>1, <2>1 DEF RestInv, DaysPast
<1>7. ASSUME kind # "timeline", NEW e \in Days, Stored(e)', (Before(e)' \cup {e}) \cap straddling' = {}
      PROVE  Rested(e, challenges[e].answer, challenges[e].from)'
  <2>1. CASE e = d
    <3>1. d = today /\ straddling' = straddling
      BY <1>1, <1>4, <1>7, <2>1
    <3>2. Before(d)' = Before(d)
      <4>1. \A f \in Days : f < d => (Stored(f)' <=> Stored(f))
        BY <1>1, <1>3
      <4> QED BY <1>1, <4>1, BeforeSame
    <3>3. Before(today) \cap straddling = {}
      BY <1>7, <2>1, <3>1, <3>2
    <3>4. Rested(d, new.answer, new.from)
      BY <1>1, <1>3, <1>7, <3>1, <3>3 DEF RestInv, RestedNext
    <3>5. \A f \in Before(d) : challenges'[f].answer = challenges[f].answer
      BY <1>1, <1>2 DEF Before
    <3>6. Rested(d, new.answer, new.from)'
      <4> DEFINE a == new.answer
                 p == new.from
      <4>1. Rested(d, a, p)
        BY <3>4
      <4> QED BY <1>1, <3>2, <3>5, <4>1, RestedSame
    <3> QED BY <1>2, <2>1, <3>6
  <2>2. CASE e # d
    <3>1. Stored(e) /\ e <= today /\ challenges'[e] = challenges[e]
      BY <1>2, <1>3, <1>7, <2>2 DEF RestInv, DaysPast
    <3>2. Before(e)' \cap straddling' = {} /\ e \notin straddling
      BY <1>4, <1>7
    <3>3. Rested(e, challenges[e].answer, challenges[e].from)
      BY <1>5, <1>7, <2>2, <3>1, <3>2 DEF RestInv, RestedRows
    <3>4. \A answer, from : Rested(e, answer, from) => Rested(e, answer, from)'
      BY <1>5, <2>2, <3>1, <3>2
    <3> QED BY <3>1, <3>3, <3>4
  <2> QED BY <2>1, <2>2
<1>8. ASSUME kind # "timeline", NEW k \in Handlers,
             handler'[k].phase = "insert", handler'[k].day = today,
             ~Stored(today)', Before(today)' \cap straddling' = {}
      PROVE  Rested(today, handler[k].answer, handler[k].pool)'
  <2>1. k # h /\ handler'[k] = handler[k]
    BY <1>8
  <2>2. today # d /\ ~Stored(today)
    BY <1>1, <1>3, <1>8
  <2>3. Before(today) \cap straddling = {}
    BY <1>1, <1>5, <1>8, <2>2
  <2>4. Rested(today, handler[k].answer, handler[k].pool)
    BY <1>8, <2>1, <2>2, <2>3 DEF RestInv, RestedNext
  <2> QED BY <1>1, <1>5, <1>8, <2>1, <2>2, <2>4
<1> QED BY <1>1, <1>6, <1>7, <1>8 DEF RestInv, RestedRows, RestedNext

LEMMA RestInsert ==
  ASSUME DailyChallengeAssumption, Inv, RestInv, NEW h \in Handlers, Insert(h)
  PROVE  RestInv'
<1>1. PICK d \in Days : d = handler[h].day
  BY DEF Inv, TypeOK
<1>2. /\ UNCHANGED <<kind, today>> /\ handler[h].phase = "insert"
      /\ d <= today
  BY <1>1 DEF Insert, RestInv, DaysPast
<1> DEFINE x == [Idle EXCEPT !.phase = "again", !.day = d]
<1>3. handler' = [handler EXCEPT ![h] = x] /\ x.day = d /\ x.phase = "again"
  BY <1>1 DEF Insert, Forget, Idle
<1> HIDE DEF x
<1>4. handler'[h] = x /\ \A k \in Handlers \ {h} : handler'[k] = handler[k]
  BY <1>3, OthersKept DEF Inv
<1>5. CASE challenges[d] # None
  <2>1. UNCHANGED <<challenges, straddling>>
    BY <1>1, <1>5 DEF Insert
  <2> QED BY <1>2, <1>3, <2>1, RestStep
<1>6. CASE challenges[d] = None
  <2>1. PICK new : new = [id |-> made + 1, answer |-> handler[h].answer, shape |-> shape,
                          from |-> handler[h].pool]
    OBVIOUS
  <2>2. /\ challenges' = [challenges EXCEPT ![d] = new]
        /\ straddling' = IF today > d THEN straddling \cup {d} ELSE straddling
    BY <1>1, <1>6, <2>1 DEF Insert
  <2>3. new.answer = handler[h].answer /\ new.from = handler[h].pool /\ new # None
    <3>1. new \in Row
      BY <2>1 DEF Insert, Inv, Prepared, TypeOK, Row
    <3> QED BY <2>1, <3>1 DEF Row, DailyChallengeAssumption
  <2> QED BY <1>1, <1>2, <1>3, <1>4, <1>6, <2>2, <2>3, RestNewRow
<1> QED BY <1>5, <1>6

(* A replaced answer marks its day, so no other day's depends on it. *)
LEMMA RestReplace ==
  ASSUME DailyChallengeAssumption, Inv, RestInv, NEW h \in Handlers, Replace(h),
         First[pool] # None
  PROVE  RestInv'
<1>1. PICK d \in Days : d = handler[h].day
  BY DEF Inv, TypeOK
<1>2. PICK new : new = [challenges[d] EXCEPT !.answer = First[pool]]
  OBVIOUS
<1>3. /\ kind = "logo" /\ challenges[d] \in Row /\ challenges[d] # None
      /\ challenges[d].id = handler[h].id
  BY <1>1 DEF Replace, Inv, Prepared, TypeOK, Stored
<1>4. First[pool] \in Models
  BY DEF DailyChallengeAssumption, Inv, TypeOK
<1>5. new # None
  <2>1. new \in Row
    BY <1>2, <1>3, <1>4 DEF Row
  <2> QED BY <2>1 DEF Row, DailyChallengeAssumption
<1>6. /\ challenges' = [challenges EXCEPT ![d] = new]
      /\ straddling' = straddling \cup {d} /\ UNCHANGED <<kind, today>>
      /\ d <= today /\ today \in Days
  <2>1. challenges' = [challenges EXCEPT ![d] = [challenges[d] EXCEPT !.answer = First[pool]]]
    BY <1>1, <1>3 DEF Replace
  <2>2. straddling' = straddling \cup {d} /\ UNCHANGED <<kind, today>>
    BY <1>1 DEF Replace
  <2> QED BY <1>1, <1>2, <2>1, <2>2 DEF RestInv, DaysPast, Inv, TypeOK
<1>7. challenges'[d] = new /\ \A e \in Days \ {d} : challenges'[e] = challenges[e]
  BY <1>6 DEF Inv, TypeOK
<1>8. Stored(d)' /\ \A e \in Days : Stored(e)' <=> Stored(e)
  BY <1>3, <1>5, <1>7 DEF Stored
<1> DEFINE x == [Idle EXCEPT !.phase = "again", !.day = d]
<1>9. handler' = [handler EXCEPT ![h] = x] /\ x.day = d /\ x.phase = "again"
  BY <1>1 DEF Replace, Forget, Idle
<1> HIDE DEF x
<1>10. handler'[h] = x /\ \A k \in Handlers \ {h} : handler'[k] = handler[k]
  BY <1>9, OthersKept DEF Inv
<1>11. ASSUME NEW e \in Days, e # d, Before(e)' \cap straddling' = {}
       PROVE  /\ Before(e)' = Before(e) /\ Before(e) \cap straddling = {}
              /\ \A answer, from : Rested(e, answer, from) => Rested(e, answer, from)'
  <2>1. d \in straddling' /\ straddling \subseteq straddling'
    BY <1>6
  <2> QED BY <1>6, <1>7, <1>8, <1>11, <2>1, UntouchedBefore
<1>12. DaysPast'
  BY <1>6, <1>8, <1>9, <1>10 DEF RestInv, DaysPast
<1>13. ASSUME NEW e \in Days, Stored(e)', (Before(e)' \cup {e}) \cap straddling' = {}
       PROVE  Rested(e, challenges[e].answer, challenges[e].from)'
  <2>1. e # d /\ e \notin straddling /\ Before(e)' \cap straddling' = {}
    BY <1>6, <1>13
  <2>2. Stored(e) /\ challenges'[e] = challenges[e]
    BY <1>7, <1>8, <1>13, <2>1
  <2>3. Rested(e, challenges[e].answer, challenges[e].from)
    BY <1>3, <1>11, <2>1, <2>2 DEF RestInv, RestedRows
  <2>4. \A answer, from : Rested(e, answer, from) => Rested(e, answer, from)'
    BY <1>11, <2>1
  <2> QED BY <2>2, <2>3, <2>4
<1>14. ASSUME NEW k \in Handlers,
              handler'[k].phase = "insert", handler'[k].day = today,
              ~Stored(today)', Before(today)' \cap straddling' = {}
       PROVE  Rested(today, handler[k].answer, handler[k].pool)'
  <2>1. k # h /\ handler'[k] = handler[k]
    BY <1>9, <1>10, <1>14
  <2>2. today # d /\ ~Stored(today)
    BY <1>6, <1>8, <1>14
  <2>3. Before(today) \cap straddling = {}
    BY <1>6, <1>11, <1>14, <2>2
  <2>4. Rested(today, handler[k].answer, handler[k].pool)
    BY <1>3, <1>14, <2>1, <2>2, <2>3 DEF RestInv, RestedNext
  <2> QED BY <1>6, <1>11, <1>14, <2>1, <2>2, <2>4
<1> QED BY <1>6, <1>12, <1>13, <1>14 DEF RestInv, RestedRows, RestedNext

(* Only a Timeline is deleted. *)
LEMMA RestDelete ==
  ASSUME DailyChallengeAssumption, Inv, RestInv, NEW h \in Handlers, Delete(h)
  PROVE  RestInv'
<1>1. PICK d \in Days : d = handler[h].day
  BY DEF Inv, TypeOK
<1>2. kind = "timeline" /\ UNCHANGED <<kind, today>>
  BY DEF Delete, Inv, Prepared
<1>3. \A e \in Days : Stored(e)' => Stored(e)
  BY <1>1 DEF Delete, Stored, Inv, TypeOK
<1>4. \A k \in Handlers : handler'[k].day = handler[k].day
  <2>1. "select" \in Phases /\ Forget(h, "select") /\ TypeOK
    BY DEF Delete, Inv, Phases
  <2> QED BY <2>1, Forgotten
<1>5. DaysPast'
  BY <1>2, <1>3, <1>4 DEF RestInv, DaysPast
<1> QED BY <1>2, <1>5 DEF RestInv

(* A day that is over selects nothing more that counts. *)
LEMMA RestTick ==
  ASSUME DailyChallengeAssumption, Inv, RestInv, Tick
  PROVE  RestInv'
<1>1. /\ UNCHANGED <<kind, challenges, handler, straddling>> /\ today' = today + 1
      /\ today \in Nat /\ today \in Days /\ Days \subseteq Nat
  BY DEF Tick, history, Inv, TypeOK, Days
<1>2. \A d \in Days : Stored(d)' <=> Stored(d)
  BY <1>1 DEF Stored
<1>3. ASSUME NEW d \in Days PROVE Before(d)' = Before(d)
  BY <1>2, BeforeSame
<1>4. ASSUME NEW d \in Days, NEW answer, NEW from, Rested(d, answer, from)
      PROVE  Rested(d, answer, from)'
  <2>1. \A e \in Before(d) : challenges'[e].answer = challenges[e].answer
    BY <1>1
  <2> QED BY <1>1, <1>3, <1>4, <2>1, RestedSame
<1>5. \A h \in Handlers : handler[h].day \in Nat
  BY <1>1 DEF Inv, TypeOK
<1>6. DaysPast'
  <2>1. \A n \in Nat : n <= today => n <= today'
    BY <1>1
  <2>2. \A h \in Handlers : handler'[h].day = handler[h].day
    BY <1>1
  <2>3. \A d \in Days : Stored(d)' => d <= today'
    BY <1>1, <1>2, <2>1 DEF RestInv, DaysPast
  <2> QED BY <1>5, <2>1, <2>2, <2>3 DEF RestInv, DaysPast
<1>7. ASSUME kind # "timeline" PROVE RestedRows'
  BY <1>1, <1>2, <1>3, <1>4, <1>7 DEF RestInv, RestedRows
<1>8. RestedNext'
  <2>1. \A h \in Handlers : handler[h].day # today'
    BY <1>1, <1>5 DEF RestInv, DaysPast
  <2> QED BY <1>1, <2>1 DEF RestedNext
<1> QED BY <1>1, <1>6, <1>7, <1>8 DEF RestInv

LEMMA RestInit ==
  ASSUME DailyChallengeAssumption, Init
  PROVE  RestInv
<1>1. today = 1 /\ (\A d \in Days : ~Stored(d)) /\ (\A h \in Handlers : handler[h] = Idle)
  BY DEF Init, Stored
<1> QED BY <1>1 DEF RestInv, DaysPast, RestedRows, RestedNext, Idle

LEMMA RestNext ==
  ASSUME DailyChallengeAssumption, Inv, RestInv, [Next]_vars
  PROVE  RestInv'
<1>0. today \in Days /\ 1 <= today
  BY DEF Inv, TypeOK, Days
<1>1. ASSUME NEW h \in Handlers, Begin(h) \/ Handle(h) \/ Drop(h) PROVE RestInv'
  <2>0. PICK r : r = handler[h]
    OBVIOUS
  <2>1. r.day <= today /\ r \in HandlerType
    BY <2>0 DEF RestInv, DaysPast, Inv, TypeOK, HandlerType
  <2>2. CASE End(h) /\ UNCHANGED <<kind, today, challenges, straddling>>
    <3>1. Idle.day <= today /\ Idle.phase # "insert"
      BY <1>0 DEF Idle
    <3> QED BY <2>2, <3>1, RestStep DEF End
  <2>3. CASE Begin(h)
    <3> DEFINE x == [Idle EXCEPT !.phase = IF kind = "classic" THEN "pool" ELSE "find", !.day = today]
    <3>1. x.day <= today /\ x.phase # "insert"
      BY <1>0 DEF Idle, Days
    <3>2. handler' = [handler EXCEPT ![h] = x] /\ UNCHANGED <<kind, today, challenges, straddling>>
      BY <2>3 DEF Begin, history
    <3> HIDE DEF x
    <3> QED BY <3>1, <3>2, RestStep
  <2>4. CASE ReadPool(h)
    <3> DEFINE x == [r EXCEPT !.pool = pool, !.phase = "find"]
    <3>1. x.day <= today /\ x.phase # "insert"
      BY <2>1 DEF HandlerType
    <3>2. handler' = [handler EXCEPT ![h] = x] /\ UNCHANGED <<kind, today, challenges, straddling>>
      BY <2>0, <2>4 DEF ReadPool, history, Inv, TypeOK
    <3> HIDE DEF x
    <3> QED BY <3>1, <3>2, RestStep
  <2>5. CASE Find(h) /\ ~End(h)
    <3> DEFINE x == [r EXCEPT !.phase = "select"]
               y == [r EXCEPT !.phase = IF kind = "logo" THEN "replace" ELSE "delete",
                              !.id = challenges[r.day].id]
    <3>1. x.day <= today /\ x.phase # "insert" /\ y.day <= today /\ y.phase # "insert"
      BY <2>1 DEF HandlerType
    <3>2. handler' = [handler EXCEPT ![h] = x] \/ handler' = [handler EXCEPT ![h] = y]
      BY <2>0, <2>5 DEF Find, Answer, Goto, Inv, TypeOK
    <3>3. UNCHANGED <<kind, today, challenges, straddling>>
      BY <2>5 DEF Find
    <3> HIDE DEF x, y
    <3> QED BY <3>1, <3>2, <3>3, RestStep
  <2>6. CASE Delete(h)
    BY <2>6, RestDelete
  <2>7. CASE Replace(h) /\ First[pool] # None
    BY <2>7, RestReplace
  <2>8. CASE Select(h)
    BY <2>8, RestSelect
  <2>9. CASE Insert(h)
    BY <2>9, RestInsert
  <2>10. CASE Find(h) /\ End(h)
    BY <2>2, <2>10 DEF Find
  <2>11. CASE Replace(h) /\ First[pool] = None
    BY <2>2, <2>11 DEF Replace
  <2>12. CASE Again(h)
    BY <2>2, <2>12 DEF Again, Answer
  <2>13. CASE Drop(h)
    BY <2>2, <2>13 DEF Drop, history
  <2> QED BY <1>1, <2>3, <2>4, <2>5, <2>6, <2>7, <2>8, <2>9, <2>10, <2>11, <2>12, <2>13 DEF Handle
<1>2. CASE Tick
  BY <1>2, RestTick
<1>3. ASSUME NEW p \in Pools, Seed(p) PROVE RestInv'
  BY <1>0, <1>3, RestFrame DEF Seed, history, RestInv, DaysPast
<1>4. ASSUME NEW p \in Pools, NEW s \in Shapes, Restart(p, s) PROVE RestInv'
  <2>1. \A k \in Handlers : handler'[k] = Idle
    BY <1>4 DEF Restart
  <2>2. \A k \in Handlers : handler'[k].day <= today /\ handler'[k].phase # "insert"
    BY <1>0, <2>1 DEF Idle
  <2>3. UNCHANGED <<kind, today, challenges, straddling>>
    BY <1>4 DEF Restart, history
  <2> QED BY <1>0, <2>2, <2>3, RestFrame
<1>5. CASE UNCHANGED vars
  BY <1>0, <1>5, RestFrame DEF vars, history, RestInv, DaysPast
<1> QED BY <1>1, <1>2, <1>3, <1>4, <1>5 DEF Next

LEMMA RestGivesProperty ==
  ASSUME RestInv
  PROVE  AnswersRest
<1> DEFINE B(d) == {e \in Days : challenges[e] # None /\ e < d
                      /\ Cardinality({f \in Days : e < f /\ f < d /\ challenges[f] # None}) < Cooldown}
<1>1. ASSUME NEW d \in Days PROVE B(d) = Before(d)
  BY DEF Before, Between, Stored
<1>2. ASSUME NEW d \in Days, challenges[d] # None, kind # "timeline",
             (Before(d) \cup {d}) \cap straddling = {}, challenges[d].answer \in Answers(Before(d))
      PROVE  /\ challenges[d].from \subseteq Answers(Before(d))
             /\ kind = "classic" =>
                  \A m \in challenges[d].from :
                    LastUsed(challenges[d].answer, Before(d)) <= LastUsed(m, Before(d))
  BY <1>2 DEF RestInv, RestedRows, Rested, Stored
<1> HIDE DEF B
<1>3. \A d \in Days :
        (/\ challenges[d] # None /\ kind # "timeline"
         /\ (B(d) \cup {d}) \cap straddling = {} /\ challenges[d].answer \in Answers(B(d))) =>
          /\ challenges[d].from \subseteq Answers(B(d))
          /\ kind = "classic" =>
               \A m \in challenges[d].from :
                 LastUsed(challenges[d].answer, B(d)) <= LastUsed(m, B(d))
  BY <1>1, <1>2
<1> QED BY <1>3 DEF AnswersRest, B

(* An answer of the last Cooldown challenges comes back only when the pool *)
(* had nothing else, and in Classic only the one that rested longest,      *)
(* whatever requests select beside each other and however often the pool   *)
(* changes; days that were late or replaced apart.                         *)
THEOREM AnswersRestAlways ==
  ASSUME DailyChallengeAssumption
  PROVE  Spec => []AnswersRest
<1>1. Init => Inv /\ RestInv
  BY InitInv, RestInit
<1>2. Inv /\ RestInv /\ [Next]_vars => (Inv /\ RestInv)'
  BY NextInv, RestNext
<1>3. RestInv => AnswersRest
  BY RestGivesProperty
<1> QED BY <1>1, <1>2, <1>3, PTL DEF Spec

-----------------------------------------------------------------------------
(* What requests hold, what is stored and what was given are of the days,  *)
(* models and pools there are, whichever requests, seeds and midnights.    *)
THEOREM TypeOKAlways ==
  ASSUME DailyChallengeAssumption
  PROVE  Spec => []TypeOK
<1>1. Init => Inv
  BY InitInv
<1>2. Inv /\ [Next]_vars => Inv'
  BY NextInv
<1>3. Inv => TypeOK
  BY DEF Inv
<1> QED BY <1>1, <1>2, <1>3, PTL DEF Spec
=============================================================================
