------------------------------- MODULE Timeline -------------------------------
(***************************************************************************)
(* The Timeline game (repository/timeline.rs): submissions of an order of  *)
(* items, the start and the surrender of a Speedrun, and the merge of a    *)
(* device's submissions into an account.                                   *)
(*                                                                         *)
(* Every call is one deferred SQLite transaction, as in ClassicGuess: what *)
(* it reads before its first write comes from a snapshot, the first write  *)
(* fails when another transaction has committed since.  Such a transaction *)
(* has no other end, and it ends here with the commit that outdates it.  A *)
(* submission is then tried again from the start, which is no other than a *)
(* new call; a start or a surrender answers with the error.                *)
(*                                                                         *)
(* A signed-in call works on the account's primary player.  Deleting an    *)
(* account, which frees its players, and replacing a challenge of a wrong  *)
(* size, which deletes its submissions, are not in this module.            *)
(***************************************************************************)
EXTENDS Integers, FiniteSets

CONSTANTS
  Players,       \* anonymous_players.id
  Users,         \* users.id
  Challenges,    \* the challenge ids a request can name
  Orders,        \* the orders of items a submission can carry
  Requests,      \* request ids chosen by clients
  NoUser,        \* timeline_attempts.user_id IS NULL
  NoPlayer,      \* the account has no primary player
  None,          \* an absent value: no row, no limit, no time
  Difficulty,    \* timeline_challenges.difficulty, None for an unknown id
  Solution,      \* the order that is right
  Valid,         \* the orders that name every item once and keep the anchors
  AttemptLimit,  \* submissions of a Hardcore challenge
  Unlocked,      \* the users with Hardcore access
  Calls,         \* requests the server handles at the same time
  MaxTime        \* the bound of the clock in this instance

ASSUME TimelineAssumption ==
  /\ NoUser \notin Users /\ NoPlayer \notin Players
  /\ Difficulty \in [Challenges -> {"normal", "challenge", "speedrun", "hardcore", None}]
  /\ Valid \in [Challenges -> SUBSET Orders]
  /\ \A c \in Challenges : Solution[c] \in Valid[c]
  /\ AttemptLimit \in Nat \ {0} /\ MaxTime \in Nat
  /\ Unlocked \subseteq Users

VARIABLES
  attempts,   \* timeline_attempts
  starts,     \* timeline_speedrun_starts, by challenge and player
  completed,  \* timeline_user_completions: pairs of a user and a challenge
  link,       \* user_player_links: the user of a player
  primary,    \* user_progress_profiles.primary_player_id
  now,        \* the server's clock
  call        \* the requests that have passed their checks and are to write

vars == <<attempts, starts, completed, link, primary, now, call>>

Time == 0..MaxTime

Attempt == [req : Requests, ch : Challenges, pl : Players, user : Users \cup {NoUser},
            order : Orders, num : Nat \ {0}, ok : BOOLEAN,
            time : Int \cup {None}, at : Time]

Start == [at : Time, gaveUp : Time \cup {None}]

(* Starting and giving up a Speedrun need an account. *)
Input ==
  [kind : {"attempt"}, req : Requests, ch : Challenges, pl : Players,
   user : Users \cup {NoUser}, order : Orders]
  \cup [kind : {"start", "give up"}, ch : Challenges, pl : Players, user : Users]

ASSUME NoneAssumption == None \notin Int /\ None \notin Start /\ None \notin Input

TypeOK ==
  /\ attempts \subseteq Attempt
  /\ starts \in [Challenges \X Players -> Start \cup {None}]
  /\ completed \subseteq Users \X Challenges
  /\ link \in [Players -> Users \cup {NoUser}]
  /\ primary \in [Users -> Players \cup {NoPlayer}]
  /\ now \in Time
  /\ call \in [Calls -> Input \cup {None}]

Init ==
  /\ attempts = {}
  /\ starts = [k \in Challenges \X Players |-> None]
  /\ completed = {}
  /\ link = [p \in Players |-> NoUser]
  /\ primary = [u \in Users |-> NoPlayer]
  /\ now = 0
  /\ call = [k \in Calls |-> None]

AttemptsOf(c, p) == {a \in attempts : a.ch = c /\ a.pl = p}

Solved(c, p) == \E a \in AttemptsOf(c, p) : a.ok

Limit(c) == IF Difficulty[c] = "hardcore" THEN AttemptLimit ELSE None

-----------------------------------------------------------------------------
(* Calls. *)

Tables == <<attempts, starts, completed, link, primary, now>>

(* replay_attempt *)
SameAttempt(a, i) == a.ch = i.ch /\ a.pl = i.pl /\ a.order = i.order

(* The early returns of process_timeline_attempt_once before its first     *)
(* write, in the order of the code.                                        *)
AttemptVerdict(i) ==
  IF Difficulty[i.ch] = None THEN "NOT_FOUND"
  ELSE IF \E a \in attempts : a.req = i.req
    THEN IF \E a \in attempts : a.req = i.req /\ SameAttempt(a, i)
           THEN "REPLAY" ELSE "REQUEST_ID_REUSED"
  ELSE IF Difficulty[i.ch] = "hardcore" /\ i.user \notin Unlocked THEN "FORBIDDEN"
  ELSE IF i.order \notin Valid[i.ch] THEN "INVALID_ORDER"
  ELSE IF Solved(i.ch, i.pl) THEN "COMPLETED"
  ELSE IF Limit(i.ch) # None /\ Cardinality(AttemptsOf(i.ch, i.pl)) >= Limit(i.ch)
    THEN "LIMIT_REACHED"
  ELSE "WRITE"

GiveUpVerdict(i) ==
  IF Difficulty[i.ch] # "speedrun" THEN "INVALID"
  ELSE IF Solved(i.ch, i.pl) THEN "COMPLETED"
  ELSE "WRITE"

StartVerdict(i) == IF Difficulty[i.ch] # "speedrun" THEN "INVALID" ELSE "WRITE"

VerdictOf(i) ==
  CASE i.kind = "attempt" -> AttemptVerdict(i)
    [] i.kind = "give up" -> GiveUpVerdict(i)
    [] i.kind = "start"   -> StartVerdict(i)

(* BEGIN and the reads up to the first write: a call that returns early    *)
(* leaves nothing behind.  A signed-out call works on the player of the    *)
(* device's cookie, a signed-in one on the primary player, which never     *)
(* changes once there is one.                                              *)
Snapshot(k, i) ==
  /\ call[k] = None
  /\ i.user # NoUser => i.pl = primary[i.user]
  /\ VerdictOf(i) = "WRITE"
  /\ call' = [call EXCEPT ![k] = i]
  /\ UNCHANGED Tables

(* MUTANT: an open transaction does not notice the commit. *)
Commit_Unnoticed(k) == call' = [call EXCEPT ![k] = None]

Commit(k) == call' = [j \in Calls |-> None]

(* An error after the upgrade, a failed upgrade, the request timeout, a    *)
(* lost connection or a crash.                                             *)
RollBack(k) ==
  /\ call[k] # None
  /\ call' = [call EXCEPT ![k] = None]
  /\ UNCHANGED Tables

-----------------------------------------------------------------------------
(* Submissions. *)

NewAttempt(i) ==
  LET num == Cardinality(AttemptsOf(i.ch, i.pl)) + 1
      ok == i.order = Solution[i.ch]
  IN  [req |-> i.req, ch |-> i.ch, pl |-> i.pl, user |-> i.user, order |-> i.order,
       num |-> num, ok |-> ok, at |-> now,
       time |-> IF Difficulty[i.ch] = "speedrun" /\ ok
                  THEN now - starts[<<i.ch, i.pl>>].at ELSE None]

(* The start of a Speedrun is read after the upgrade. *)
RunVerdict(i) ==
  IF Difficulty[i.ch] # "speedrun" THEN "OK"
  ELSE IF starts[<<i.ch, i.pl>>] = None THEN "NOT_STARTED"
  ELSE IF starts[<<i.ch, i.pl>>].gaveUp # None THEN "GIVEN_UP"
  ELSE "OK"

(* UNIQUE(request_id) and UNIQUE(challenge_id, player_id, attempt_number). *)
Conflicts(a) ==
  \E b \in attempts : b.req = a.req \/ (b.ch = a.ch /\ b.pl = a.pl /\ b.num = a.num)

WriteAttempt(k) ==
  LET i == call[k]
  IN  /\ call[k] # None /\ i.kind = "attempt"
      /\ IF RunVerdict(i) # "OK" \/ Conflicts(NewAttempt(i)) THEN RollBack(k)
         ELSE /\ attempts' = attempts \cup {NewAttempt(i)}
              /\ completed' = IF NewAttempt(i).ok /\ i.user # NoUser
                                THEN completed \cup {<<i.user, i.ch>>} ELSE completed
              /\ Commit(k)
              /\ UNCHANGED <<starts, link, primary, now>>

(* The Speedrun clock. *)

(* MUTANT: starting again starts the clock again. *)
StartedRow_Again(row) == [at |-> now, gaveUp |-> None]

(* INSERT ... ON CONFLICT DO NOTHING *)
StartedRow(row) == IF row = None THEN [at |-> now, gaveUp |-> None] ELSE row

WriteStart(k) ==
  LET i == call[k]
  IN  /\ call[k] # None /\ i.kind = "start"
      /\ starts' = [starts EXCEPT ![<<i.ch, i.pl>>] = StartedRow(@)]
      /\ Commit(k)
      /\ UNCHANGED <<attempts, completed, link, primary, now>>

WriteGiveUp(k) ==
  LET i == call[k]
      row == starts[<<i.ch, i.pl>>]
  IN  /\ call[k] # None /\ i.kind = "give up"
      /\ IF row = None THEN RollBack(k)
         ELSE /\ starts' = [starts EXCEPT ![<<i.ch, i.pl>>].gaveUp =
                              IF @ = None THEN now ELSE @]
              /\ Commit(k)
              /\ UNCHANGED <<attempts, completed, link, primary, now>>

-----------------------------------------------------------------------------
(* progress::synchronize, what it does to the Timeline tables. *)

PrimaryFor(u, p) == IF primary[u] = NoPlayer THEN p ELSE primary[u]

(* MUTANT: a device is taken over from the account it is linked to. *)
MayLink_Any(u, p) == TRUE

MayLink(u, p) == link[p] \in {u, NoUser}

(* The submissions of p, claimed for u and moved to its primary player q. *)
MovedAttempts(u, p, q) ==
  {IF a.pl = p THEN [a EXCEPT !.pl = q, !.user = IF @ = NoUser THEN u ELSE @] ELSE a :
     a \in attempts}

(* The ranks by (created_at, id) within a challenge: ids are random, so    *)
(* submissions of the same millisecond are in either order.                *)
Renumberings(of) ==
  {rank \in [of -> 1..Cardinality(of)] :
     \A a \in of :
       /\ rank[a] <= Cardinality({b \in of : b.ch = a.ch})
       /\ \A b \in of \ {a} :
            b.ch = a.ch => rank[a] # rank[b] /\ (a.at < b.at => rank[a] < rank[b])}

(* MUTANT: the ranks are counted from zero. *)
MergedAttempts_FromZero(moved, q, rank) ==
  {IF a.pl = q THEN [a EXCEPT !.num = rank[a] - 1] ELSE a : a \in moved}

(* MUTANT: moved submissions keep their numbers. *)
MergedAttempts_KeepNumbers(moved, q, rank) == moved

MergedAttempts(moved, q, rank) ==
  {IF a.pl = q THEN [a EXCEPT !.num = rank[a]] ELSE a : a \in moved}

(* MUTANT: every claimed submission completes its challenge. *)
SolvedBy_Any(u, set) == {<<u, a.ch>> : a \in {a \in set : a.user = u}}

SolvedBy(u, set) == {<<u, a.ch>> : a \in {a \in set : a.user = u /\ a.ok}}

Sync(u, p) ==
  LET q == PrimaryFor(u, p)
      moved == MovedAttempts(u, p, q)
  IN  /\ MayLink(u, p)
      /\ link' = [link EXCEPT ![p] = u]
      /\ primary' = [primary EXCEPT ![u] = q]
      /\ IF p = q THEN attempts' = moved
         ELSE \E rank \in Renumberings({a \in moved : a.pl = q}) :
                attempts' = MergedAttempts(moved, q, rank)
      /\ completed' = IF link[p] = NoUser
                        THEN completed \cup SolvedBy(u, attempts') ELSE completed
      /\ call' = [k \in Calls |-> None]
      /\ UNCHANGED <<starts, now>>

Tick ==
  /\ now < MaxTime
  /\ now' = now + 1
  /\ UNCHANGED <<attempts, starts, completed, link, primary, call>>

Write(k) == WriteAttempt(k) \/ WriteStart(k) \/ WriteGiveUp(k)

Next ==
  \/ \E k \in Calls : (\E i \in Input : Snapshot(k, i)) \/ Write(k) \/ RollBack(k)
  \/ \E u \in Users, p \in Players : Sync(u, p)
  \/ Tick

Spec == Init /\ [][Next]_vars

-----------------------------------------------------------------------------
(* Safety. *)

(* The submissions of a player to a challenge are numbered 1, 2, 3 and so  *)
(* on in the order they were made, also after another device's have been   *)
(* merged in between (the renumbering in synchronize).                     *)
NumbersSequential ==
  \A c \in Challenges, p \in Players :
    LET of == AttemptsOf(c, p)
    IN  /\ {a.num : a \in of} = 1..Cardinality(of)
        /\ \A a, b \in of : a.num < b.num => a.at <= b.at

(* A run is never both given up and solved, whichever of the two calls     *)
(* commits first and whatever is merged afterwards.                        *)
GivenUpUnsolved ==
  \A c \in Challenges, p \in Players :
    starts[<<c, p>>] # None /\ starts[<<c, p>>].gaveUp # None => ~Solved(c, p)

(* The time of a solved Speedrun is counted from the stored start of its   *)
(* player, which starting again does not move.                             *)
RunsTimed ==
  \A a \in attempts :
    a.ok /\ Difficulty[a.ch] = "speedrun" =>
      /\ starts[<<a.ch, a.pl>>] # None
      /\ a.time = a.at - starts[<<a.ch, a.pl>>].at

(* The leaderboard of a Speedrun lists an account once: no two solves of   *)
(* a challenge belong to one account, however many devices it has played   *)
(* on, signed in or out.                                                   *)
OneRunPerAccount ==
  \A a, b \in attempts :
    /\ a.ok /\ b.ok /\ a.ch = b.ch /\ a.user = b.user /\ a.user # NoUser
    /\ Difficulty[a.ch] = "speedrun"
    => a = b

(* A completion of an account is backed by a stored right submission of    *)
(* that account, also when it was recorded by a merge.                     *)
CompletionsBacked ==
  \A d \in completed : \E a \in attempts : a.user = d[1] /\ a.ch = d[2] /\ a.ok

(* A submission is accepted only in a game that is still on: not solved,   *)
(* below the limit, and for a Speedrun started and not given up, whatever  *)
(* another call or a merge commits after the checks.                       *)
AcceptedInPlay ==
  [][\A k \in Calls :
       WriteAttempt(k) /\ attempts' # attempts =>
         LET i == call[k]
             of == AttemptsOf(i.ch, i.pl)
             row == starts[<<i.ch, i.pl>>]
         IN  /\ ~Solved(i.ch, i.pl)
             /\ Limit(i.ch) # None => Cardinality(of) < Limit(i.ch)
             /\ Difficulty[i.ch] = "speedrun" => row # None /\ row.gaveUp = None]_vars
=============================================================================
