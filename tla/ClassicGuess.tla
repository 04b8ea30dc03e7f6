----------------------------- MODULE ClassicGuess -----------------------------
(***************************************************************************)
(* The Classic guess handler under contention (repository::process_guess). *)
(*                                                                         *)
(* A call runs a deferred SQLite transaction in WAL mode: its first read   *)
(* fixes a snapshot, on which all its early returns are decided, and its   *)
(* first write upgrades it.  The upgrade fails with SQLITE_BUSY_SNAPSHOT   *)
(* when another connection has committed since the snapshot, and with      *)
(* SQLITE_BUSY when another connection keeps the write lock past the busy  *)
(* timeout; either way the whole transaction is tried again, MaxTries      *)
(* times in all.  From the upgrade on the transaction holds the only write *)
(* lock, so its writes and its COMMIT are one step here.                   *)
(*                                                                         *)
(* The request timeout drops the handler's future wherever it awaits, and  *)
(* a crash ends every call: an open transaction rolls back, a committed    *)
(* one stays, and the client, which saw no answer, may send the request    *)
(* again.                                                                  *)
(***************************************************************************)
EXTENDS ClassicTables

CONSTANTS
  Calls,     \* guess requests the server handles at the same time
  MaxTries,  \* transactions process_guess begins before it gives up
  Idle       \* the input of a call that is not running

ASSUME CallsAssumption ==
  /\ IsFiniteSet(Calls)
  /\ MaxTries \in Nat \ {0}
  /\ Idle \notin Input

VARIABLE call  \* the guess requests in flight

vars == <<tables, pool, call>>

Phases == {"idle", "begin", "write", "answered"}

Statuses == {"OK", "REQUEST_ID_REUSED", "NOT_FOUND", "UNAVAILABLE",
             "CHALLENGE_COMPLETED", "INELIGIBLE", "ATTEMPT_LIMIT_REACHED",
             "BAD_ATTEMPT_NUMBER", "DUPLICATE_GUESS", "BUSY"}

Result == [status : Statuses, num : Attempts \cup {0}, ok : BOOLEAN]

Failed(status) == [status |-> status, num |-> 0, ok |-> FALSE]

Accepted(e) == [status |-> "OK", num |-> e.num, ok |-> e.ok]

NoCall == [phase |-> "idle", in |-> Idle, stale |-> FALSE, tries |-> 0,
           out |-> Failed("BUSY")]

CallType == [phase : Phases, in : Input \cup {Idle}, stale : BOOLEAN,
             tries : 0..MaxTries, out : Result]

CallOK(r) ==
  /\ r.phase # "idle" => r.in \in Input
  /\ r.phase \in {"begin", "write"} => r.tries < MaxTries

TypeOK ==
  /\ TablesType
  /\ call \in [Calls -> CallType]
  /\ \A k \in Calls : CallOK(call[k])

Init ==
  /\ TablesInit
  /\ call = [k \in Calls |-> NoCall]

-----------------------------------------------------------------------------

Answered(k, result) ==
  [call[k] EXCEPT !.phase = "answered", !.stale = FALSE, !.out = result]

Receive(k, i) ==
  /\ call[k].phase = "idle"
  /\ call' = [call EXCEPT ![k] = [NoCall EXCEPT !.phase = "begin", !.in = i]]
  /\ UNCHANGED <<tables, pool>>

(* The result of a replay is the stored row's, not the request's. *)
Stored(i) ==
  CHOOSE e \in events : e.req = i.req \/ ((~\E f \in events : f.req = i.req) /\ SameGuess(e, i))

(* BEGIN, and every read up to the first write.  A call that returns early *)
(* ends here: it has written nothing, so its commit or rollback is moot.   *)
Snapshot(k) ==
  LET verdict == Verdict(call[k].in)
  IN  /\ call[k].phase = "begin"
      /\ call' = [call EXCEPT ![k] =
                    CASE verdict = "ACCEPT" -> [call[k] EXCEPT !.phase = "write", !.stale = FALSE]
                      [] verdict = "REPLAY" -> Answered(k, Accepted(Stored(call[k].in)))
                      [] OTHER              -> Answered(k, Failed(verdict))]
      /\ UNCHANGED <<tables, pool>>

(* MUTANT: a transaction writes although its snapshot is out of date. *)
MayUpgrade_Always(k) == call[k].phase = "write"

MayUpgrade(k) == call[k].phase = "write" /\ ~call[k].stale

(* A commit puts every other open snapshot out of date. *)
Overtaken(j) ==
  IF call[j].phase = "write" THEN [call[j] EXCEPT !.stale = TRUE] ELSE call[j]

(* MUTANT: other transactions do not notice the commit. *)
CommitBy_Unnoticed(k, result) ==
  call' = [call EXCEPT ![k] = Answered(k, result)]

CommitBy(k, result) ==
  call' = [j \in Calls |-> IF j = k THEN Answered(k, result) ELSE Overtaken(j)]

(* What the call answers when its INSERT hits a unique index: the row      *)
(* stored under the same request id, or DUPLICATE_GUESS.                   *)
RefusedInsert(i) ==
  IF \E e \in events : e.req = i.req
    THEN IF Verdict(i) = "REPLAY" THEN Accepted(Stored(i)) ELSE Failed(Verdict(i))
    ELSE Failed("DUPLICATE_GUESS")

(* The first write upgrades the snapshot, and the transaction goes through *)
(* to its COMMIT; a refused INSERT leaves no row behind.                   *)
Write(k) ==
  LET i == call[k].in
  IN  /\ MayUpgrade(k)
      /\ IF InsertConflicts(i)
           THEN /\ call' = [call EXCEPT ![k] = Answered(k, RefusedInsert(i))]
                /\ UNCHANGED tables
           ELSE /\ AcceptGuess(i)
                /\ CommitBy(k, Accepted(NewEvent(i)))
      /\ UNCHANGED pool

(* MUTANT: one transaction too many. *)
Retried_OneMore(k) ==
  IF call[k].tries < MaxTries
    THEN [call[k] EXCEPT !.phase = "begin", !.stale = FALSE, !.tries = call[k].tries + 1]
    ELSE Answered(k, Failed("BUSY"))

(* MUTANT: the retry loop forgets to count. *)
Retried_Forever(k) == [call[k] EXCEPT !.phase = "begin", !.stale = FALSE]

Retried(k) ==
  IF call[k].tries + 1 < MaxTries
    THEN [call[k] EXCEPT !.phase = "begin", !.stale = FALSE, !.tries = call[k].tries + 1]
    ELSE Answered(k, Failed("BUSY"))

(* The upgrade failed: another writer committed first, or one outside this *)
(* module (a session, a rate limit, another game) holds the write lock.    *)
Busy(k) ==
  /\ call[k].phase = "write"
  /\ call' = [call EXCEPT ![k] = Retried(k)]
  /\ UNCHANGED <<tables, pool>>

(* The client receives the answer. *)
Deliver(k) ==
  /\ call[k].phase = "answered"
  /\ call' = [call EXCEPT ![k] = NoCall]
  /\ UNCHANGED <<tables, pool>>

(* The request timeout, a lost connection or a crash of the server. *)
Drop(k) ==
  /\ call[k].phase # "idle"
  /\ call' = [call EXCEPT ![k] = NoCall]
  /\ UNCHANGED <<tables, pool>>

(* The seed command, run beside the server, moves models in or out of the  *)
(* pool of a mode: a commit like any other.                                *)
Seed(m, models) ==
  /\ pool' = [pool EXCEPT ![m] = models]
  /\ call' = [j \in Calls |-> Overtaken(j)]
  /\ UNCHANGED tables

Serve(k) == Snapshot(k) \/ Write(k) \/ Busy(k) \/ Deliver(k)

Next ==
  \/ \E k \in Calls :
       \/ \E i \in Input : Receive(k, i)
       \/ Serve(k)
       \/ Drop(k)
  \/ \E m \in Modes, models \in Pools : Seed(m, models)

Spec == Init /\ [][Next]_vars

(* A handler that can run does: the runtime polls every ready future, and  *)
(* the busy timeout bounds every wait for the write lock.  Nothing is      *)
(* assumed of clients, and nothing of Drop.                                *)
FairSpec == Spec /\ \A k \in Calls : WF_vars(Serve(k))

-----------------------------------------------------------------------------
(* Safety. *)

(* No guess is accepted past the size of the pool the challenge has at     *)
(* that moment, on a model outside it, after the solve, or with a number   *)
(* other than the next one, even when the pool changes, or the player's    *)
(* other call commits, between the checks and the write.                   *)
AcceptedWithinPool ==
  [][\A e \in events' \ events :
       /\ e.md \in PoolOf(e.ch)
       /\ e.num <= Cardinality(PoolOf(e.ch))
       /\ ~Solved(e.ch, e.pl)
       /\ e.num = Cardinality(EventsOf(e.ch, e.pl)) + 1]_vars

(* While a transaction may still upgrade, what it decided on its snapshot  *)
(* is still true: the guess it is about to insert would be accepted now,   *)
(* so the INSERT cannot hit a unique index and the code after              *)
(* `inserted == 0` never runs.                                             *)
SnapshotCurrent ==
  \A k \in Calls :
    call[k].phase = "write" /\ ~call[k].stale =>
      /\ Verdict(call[k].in) = "ACCEPT"
      /\ ~InsertConflicts(call[k].in)

(* A call answered OK is backed by a stored event of that player, that     *)
(* challenge and that model, with the attempt number and the outcome the   *)
(* answer shows: a retry of a guess that was accepted answers what the     *)
(* first answer said (replay_guess).                                       *)
AnswersBacked ==
  \A k \in Calls :
    call[k].phase = "answered" /\ call[k].out.status = "OK" =>
      \E e \in events : /\ SameGuess(e, call[k].in)
                        /\ e.num = call[k].out.num
                        /\ e.ok = call[k].out.ok

(* Refinement. *)

(* A player's board: the models of its events, by attempt number. *)
BoardOf(c, p) ==
  [n \in 1..Cardinality(EventsOf(c, p)) |->
     (CHOOSE e \in EventsOf(c, p) : e.num = n).md]

Ledger == INSTANCE GuessLedger WITH
  board <- [b \in Challenges \X Players |-> BoardOf(b[1], b[2])],
  solvers <- completions

(* The handler with its overlapping transactions, retries, replays and     *)
(* dropped calls implements the ledger: every committed transaction is one *)
(* accepted guess of it, and every other step changes nothing it shows.    *)
ImplementsLedger == Ledger!Spec

(* Liveness. *)

(* A call that began is answered, or its future is dropped: contention can *)
(* send it round the retry loop MaxTries times and no more.                *)
CallsEnd ==
  \A k \in Calls : call[k].phase = "begin" ~> call[k].phase \in {"answered", "idle"}
=============================================================================
