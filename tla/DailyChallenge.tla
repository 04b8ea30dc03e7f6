--------------------------- MODULE DailyChallenge ---------------------------
(***************************************************************************)
(* The challenge of a day: found, or selected, inserted and read again by  *)
(* the first requests of the day (ensure_daily_challenge_for_models,       *)
(* ensure_challenge of Emoji and of Logo, ensure_timeline_challenge), each *)
(* in statements of their own, beside each other, past midnight, and with  *)
(* the catalogue changing.                                                 *)
(*                                                                         *)
(* kind is the generator, with one mode.  The rankings by hash are any     *)
(* choice among the candidates, a Timeline puzzle is named by one of its   *)
(* items, Emoji variants are left out, all Logos are eligible, as in the   *)
(* seed, and Cooldown stands for the numbers of challenges that Classic,   *)
(* Emoji and Logo look back.                                               *)
(*                                                                         *)
(* given, straddling and release are history variables: the challenges     *)
(* that requests were answered with, the days whose challenge was made     *)
(* after them or had its answer replaced, and how often the server was     *)
(* started; so is the field from of a challenge, the pool it was selected  *)
(* of.                                                                     *)
(***************************************************************************)
EXTENDS Integers, FiniteSets

CONSTANTS
  Kinds,       \* the generators: "classic", "emoji", "logo", "timeline"
  Models,      \* models, entities, logos or items
  Pools,       \* the sets of them that a catalogue may have eligible
  First,       \* [Pools -> Models or None]: the first of a catalogue
  Shapes,      \* TimelineDifficultyConfig: the numbers of cards and anchors
  Handlers,    \* requests the server handles at the same time
  Cooldown,
  None,
  LastDay, MaxChanges   \* the bounds of this instance

DailyChallengeAssumption ==
  /\ Kinds \subseteq {"classic", "emoji", "logo", "timeline"}
  /\ Pools \subseteq SUBSET Models
  /\ \A p \in Pools : IF p = {} THEN First[p] = None ELSE First[p] \in p
  /\ Shapes # {} /\ Cooldown \in Nat /\ LastDay \in Nat \ {0} /\ MaxChanges \in Nat
  /\ None \notin Models /\ None \notin [id : Nat, answer : Models, shape : Shapes, from : Pools]

VARIABLES
  kind,
  today,        \* current_utc_date
  pool, shape,  \* what is eligible; the sizes this process was built with
  challenges,   \* the table: by day, None for none
  handler,      \* [phase, day, pool, answer, id]
  made,         \* how many ids were made
  release, changes, given, straddling

history == <<given, straddling>>
vars == <<kind, today, pool, shape, challenges, handler, made, release, changes, history>>

Days == 1..LastDay

Row == [id : Nat, answer : Models, shape : Shapes, from : Pools]

Idle == [phase |-> "idle", day |-> 1, pool |-> {}, answer |-> None, id |-> 0]

Goto(h, phase) == handler' = [handler EXCEPT ![h].phase = phase]

End(h) == handler' = [handler EXCEPT ![h] = Idle]

(* What was selected or is to be deleted is forgotten. *)
Forget(h, phase) ==
  handler' = [handler EXCEPT ![h] = [Idle EXCEPT !.phase = phase, !.day = handler[h].day]]

Answer(h, row) ==
  /\ given' = given \cup {[day |-> handler[h].day, id |-> row.id, answer |-> row.answer,
                           release |-> release]}
  /\ End(h)

-----------------------------------------------------------------------------
(* Selection. *)

(* The n newest challenges, whatever day they are of. *)
Newest(n) ==
  {d \in Days : challenges[d] # None
                /\ Cardinality({e \in Days : e > d /\ challenges[e] # None}) < n}

Answers(days) == {challenges[d].answer : d \in days}

(* last_used_by_model: the newest of the days that have the answer. *)
LastUsed(m, days) ==
  CHOOSE d \in days : challenges[d].answer = m /\ \A e \in days : challenges[e].answer = m => e <= d

(* select_daily_model once every candidate is blocked. *)
LeastRecent(models) ==
  LET days == Newest(Cooldown + 1)
  IN  {m \in models : \A n \in models : LastUsed(m, days) <= LastUsed(n, days)}

Candidates(models) ==
  LET fresh == models \ Answers(Newest(Cooldown))
  IN  IF kind = "timeline" THEN models
      ELSE IF fresh # {} THEN fresh
      ELSE IF kind = "classic" THEN LeastRecent(models)
      ELSE models

Fits(row) ==
  /\ kind = "timeline" => row.shape = shape
  /\ kind = "logo" => row.answer \in pool

-----------------------------------------------------------------------------
(* One request: the statements of a generator. *)

(* classic_game reads its pool before it looks for the challenge. *)
Begin(h) ==
  /\ handler[h].phase = "idle"
  /\ handler' = [handler EXCEPT ![h] =
       [Idle EXCEPT !.phase = IF kind = "classic" THEN "pool" ELSE "find", !.day = today]]
  /\ UNCHANGED <<kind, today, pool, shape, challenges, made, release, changes, history>>

ReadPool(h) ==
  /\ handler[h].phase = "pool"
  /\ handler' = [handler EXCEPT ![h].pool = pool, ![h].phase = "find"]
  /\ UNCHANGED <<kind, today, pool, shape, challenges, made, release, changes, history>>

(* A Timeline of another size is to be deleted, by its id, and made again; *)
(* a Logo the catalogue no longer has is to be replaced.                   *)
Find(h) ==
  LET row == challenges[handler[h].day]
  IN  /\ handler[h].phase = "find"
      /\ \/ row = None /\ Goto(h, "select") /\ UNCHANGED given
         \/ row # None /\ Fits(row) /\ Answer(h, row)
         \/ /\ row # None /\ ~Fits(row)
            /\ handler' = [handler EXCEPT ![h].phase = IF kind = "logo" THEN "replace" ELSE "delete",
                                          ![h].id = row.id]
            /\ UNCHANGED given
      /\ UNCHANGED <<kind, today, pool, shape, challenges, made, release, changes, straddling>>

Delete(h) ==
  LET d == handler[h].day
  IN  /\ handler[h].phase = "delete"
      /\ challenges' = [challenges EXCEPT ![d] = IF @ # None /\ @.id = handler[h].id THEN None ELSE @]
      /\ Forget(h, "select")
      /\ UNCHANGED <<kind, today, pool, shape, made, release, changes, history>>

(* Without a logo to replace it with, the request fails. *)
Replace(h) ==
  LET d == handler[h].day
  IN  /\ handler[h].phase = "replace"
      /\ IF First[pool] = None
         THEN End(h) /\ UNCHANGED <<challenges, straddling>>
         ELSE /\ challenges' = [challenges EXCEPT ![d] =
                   IF @ # None /\ @.id = handler[h].id THEN [@ EXCEPT !.answer = First[pool]] ELSE @]
              /\ straddling' = straddling \cup {d}
              /\ Forget(h, "again")
      /\ UNCHANGED <<kind, today, pool, shape, made, release, changes, given>>

(* The recent answers, or Timeline's candidates, are read and the answer   *)
(* selected; an empty pool fails the request.                              *)
Select(h) ==
  LET models == IF kind = "classic" THEN handler[h].pool ELSE pool
  IN  /\ handler[h].phase = "select"
      /\ \/ models = {} /\ End(h)
         \/ \E m \in Candidates(models) :
              handler' = [handler EXCEPT ![h].phase = "insert", ![h].answer = m, ![h].pool = models]
      /\ UNCHANGED <<kind, today, pool, shape, challenges, made, release, changes, history>>

\* MUTANT: the later of two first requests replaces the challenge.
Insert_Over(h) ==
  LET d == handler[h].day
  IN  /\ handler[h].phase = "insert"
      /\ made' = made + 1
      /\ challenges' = [challenges EXCEPT ![d] =
           [id |-> made', answer |-> handler[h].answer, shape |-> shape, from |-> handler[h].pool]]
      /\ straddling' = IF today > d THEN straddling \cup {d} ELSE straddling
      /\ Forget(h, "again")
      /\ UNCHANGED <<kind, today, pool, shape, release, changes, given>>

(* ON CONFLICT DO NOTHING *)
Insert(h) ==
  LET d == handler[h].day
  IN  /\ handler[h].phase = "insert"
      /\ IF challenges[d] = None
         THEN /\ made' = made + 1
              /\ challenges' = [challenges EXCEPT ![d] =
                   [id |-> made', answer |-> handler[h].answer, shape |-> shape, from |-> handler[h].pool]]
              /\ straddling' = IF today > d THEN straddling \cup {d} ELSE straddling
         ELSE UNCHANGED <<made, challenges, straddling>>
      /\ Forget(h, "again")
      /\ UNCHANGED <<kind, today, pool, shape, release, changes, given>>

(* The challenge is read again and answered, whoever inserted it.          *)
Again(h) ==
  LET row == challenges[handler[h].day]
  IN  /\ handler[h].phase = "again"
      /\ IF row = None THEN End(h) /\ UNCHANGED given ELSE Answer(h, row)
      /\ UNCHANGED <<kind, today, pool, shape, challenges, made, release, changes, straddling>>

(* The timeout drops the handler.                                          *)
Drop(h) ==
  /\ handler[h].phase # "idle"
  /\ End(h)
  /\ UNCHANGED <<kind, today, pool, shape, challenges, made, release, changes, history>>

-----------------------------------------------------------------------------
(* Around the requests. *)

Tick ==
  /\ today < LastDay /\ today' = today + 1
  /\ UNCHANGED <<kind, pool, shape, challenges, handler, made, release, changes, history>>

(* A seed changes the tables that Classic and Timeline read, under their   *)
(* requests.                                                               *)
Seed(models) ==
  /\ kind \in {"classic", "timeline"} /\ changes < MaxChanges /\ changes' = changes + 1
  /\ models # pool /\ pool' = models
  /\ UNCHANGED <<kind, today, shape, challenges, handler, made, release, history>>

(* The server stops and another starts: Emoji and Logo load their files    *)
(* then, and Timeline may have other sizes.                                *)
Restart(models, sizes) ==
  /\ changes < MaxChanges /\ changes' = changes + 1
  /\ release' = release + 1
  /\ kind \in {"classic", "timeline"} => models = pool
  /\ kind # "timeline" => sizes = shape
  /\ pool' = models /\ shape' = sizes
  /\ handler' = [h \in Handlers |-> Idle]
  /\ UNCHANGED <<kind, today, challenges, made, history>>

Init ==
  /\ kind \in Kinds /\ today = 1 /\ pool \in Pools
  /\ shape \in IF kind = "timeline" THEN Shapes ELSE {CHOOSE s \in Shapes : TRUE}
  /\ challenges = [d \in Days |-> None]
  /\ handler = [h \in Handlers |-> Idle]
  /\ made = 0 /\ release = 0 /\ changes = 0 /\ given = {} /\ straddling = {}

Handle(h) ==
  \/ ReadPool(h) \/ Find(h) \/ Delete(h) \/ Replace(h)
  \/ Select(h) \/ Insert(h) \/ Again(h)

Next ==
  \/ \E h \in Handlers : Begin(h) \/ Handle(h) \/ Drop(h)
  \/ Tick
  \/ \E p \in Pools : Seed(p)
  \/ \E p \in Pools, s \in Shapes : Restart(p, s)

Spec == Init /\ [][Next]_vars
-----------------------------------------------------------------------------
(* Properties. *)

Phases == {"idle", "pool", "find", "delete", "replace", "select", "insert", "again"}

(* A challenge, a handler and an answer are of the shapes above. *)
TypeOK ==
  /\ kind \in Kinds /\ today \in Days /\ pool \in Pools /\ shape \in Shapes
  /\ challenges \in [Days -> Row \cup {None}]
  /\ handler \in [Handlers -> [phase : Phases, day : Days, pool : Pools \cup {{}},
                               answer : Models \cup {None}, id : Nat]]
  /\ made \in Nat /\ release \in Nat
  /\ given \subseteq [day : Days, id : Nat, answer : Models, release : Nat]
  /\ straddling \subseteq Days

(* All requests of a day are answered with one challenge: for good in      *)
(* Classic and Emoji, under one id in Logo, and until the server is        *)
(* started with other sizes, or without the logo, in Timeline and Logo.    *)
OneChallengeADay ==
  \A g, h \in given : g.day = h.day =>
    /\ kind # "timeline" => g.id = h.id
    /\ (kind \in {"classic", "emoji"} \/ g.release = h.release) =>
         (g.id = h.id /\ g.answer = h.answer)

(* What was answered is the challenge that guesses will be checked with,   *)
(* and can be played by the server that is running.                        *)
GivenIsStored ==
  \A g \in given : g.release = release =>
    /\ challenges[g.day] # None
    /\ challenges[g.day].id = g.id /\ challenges[g.day].answer = g.answer
    /\ Fits(challenges[g.day])

(* A handler that has inserted finds a challenge when it reads again: the  *)
(* deletion of a Timeline of another size takes no new one with it.        *)
InsertedIsFound ==
  \A h \in Handlers : handler[h].phase = "again" => challenges[handler[h].day] # None

(* An answer rests: one of the last Cooldown answers comes back only when  *)
(* the pool had no other, and in Classic only the one that rested longest; *)
(* unless a challenge was made after its day, or had its answer replaced.  *)
AnswersRest ==
  LET Before(d) == {e \in Days : challenges[e] # None /\ e < d
                      /\ Cardinality({f \in Days : e < f /\ f < d /\ challenges[f] # None}) < Cooldown}
      Repeats(d) == challenges[d].answer \in Answers(Before(d))
  IN  \A d \in Days :
        (/\ challenges[d] # None /\ kind # "timeline"
         /\ (Before(d) \cup {d}) \cap straddling = {} /\ Repeats(d)) =>
          /\ challenges[d].from \subseteq Answers(Before(d))
          /\ kind = "classic" =>
               \A m \in challenges[d].from :
                 LastUsed(challenges[d].answer, Before(d)) <= LastUsed(m, Before(d))
=============================================================================
