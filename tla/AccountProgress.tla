--------------------------- MODULE AccountProgress ---------------------------
(***************************************************************************)
(* Accounts over the Classic tables: guesses of signed-in players, the     *)
(* reconciliation that links a device to an account and merges its game    *)
(* records into the account's first player, and a moderator's removal of a *)
(* guess.                                                                  *)
(*                                                                         *)
(* Each handler runs several transactions and single statements one after  *)
(* the other; the steps of this module are those transactions.  That a     *)
(* guess transaction may be one step is what ClassicGuess shows.  Between  *)
(* two steps another handler may run, the request timeout may drop the     *)
(* handler, or the server may crash: what has been committed stays.        *)
(***************************************************************************)
EXTENDS ClassicTables

CONSTANTS
  Tasks,       \* handlers that run at the same time
  NoPlayer,    \* the account has no user_progress_profiles row
  Category,    \* the category of a challenge whose mode is classic:%:challenge
  NoCategory,  \* the mode is another one
  MayDrop,     \* whether handlers may be dropped in this instance
  MayModerate  \* whether a moderator removes guesses in this instance

ASSUME AccountAssumption ==
  /\ NoPlayer \notin Players
  /\ MayDrop \in BOOLEAN /\ MayModerate \in BOOLEAN

VARIABLES
  link,      \* user_player_links: the user of a player
  primary,   \* user_progress_profiles.primary_player_id
  done,      \* user_challenge_completions: pairs of a user and a challenge
  progress,  \* user_game_progress, Classic challenges: pairs of a user and a category
  unlocked,  \* user_unlocks: the users with Hardcore access
  task,      \* the handlers in flight
  sent       \* the request ids used so far: each is used once, which bounds
             \* the guesses of an instance

accounts == <<link, primary, done, progress, unlocked, sent>>
vars == <<tables, pool, accounts, task>>

Categories == {Category[c] : c \in Challenges} \ {NoCategory}

(* user, pl: whose records the handler works on; ch, md, req: the guess;   *)
(* todo: the modes still to rebuild; row: the row to store for mode;       *)
(* then: where the handler goes on once Hardcore access has been checked.  *)
NoTask == [phase |-> "idle", user |-> NoUser, pl |-> NoPlayer, ch |-> NoRow,
           md |-> NoRow, req |-> NoRow, todo |-> {}, mode |-> NoMode,
           row |-> NoRow, then |-> "idle"]

Phases == {"idle", "canonical", "guess", "record", "sync", "modes", "read",
           "store", "check", "grant"}

TypeOK ==
  /\ TablesType
  /\ link \in [Players -> Users \cup {NoUser}]
  /\ primary \in [Users -> Players \cup {NoPlayer}]
  /\ done \subseteq Users \X Challenges
  /\ progress \subseteq Users \X Categories
  /\ unlocked \subseteq Users
  /\ sent \subseteq Requests
  /\ \A t \in Tasks :
       /\ task[t].phase \in Phases
       /\ task[t].user \in Users \cup {NoUser}
       /\ task[t].pl \in Players \cup {NoPlayer}
       /\ task[t].todo \subseteq Modes
       /\ task[t].row \in PlayerStatsRow \cup {NoRow}

Init ==
  /\ TablesInit
  /\ link = [p \in Players |-> NoUser]
  /\ primary = [u \in Users |-> NoPlayer]
  /\ done = {}
  /\ progress = {}
  /\ unlocked = {}
  /\ sent = {}
  /\ task = [t \in Tasks |-> NoTask]

Goto(t, phase) == task' = [task EXCEPT ![t].phase = phase]

Finish(t) == task' = [task EXCEPT ![t] = NoTask]

(* A handler drops out with an error, its open transaction rolled back.    *)
Fail(t) == Finish(t) /\ UNCHANGED <<tables, pool, accounts>>

UserSolved(u, c) == \E e \in events : e.user = u /\ e.ch = c /\ e.ok

-----------------------------------------------------------------------------
(* progress::synchronize, the transaction. *)

(* MUTANT: no profile row is created. *)
PrimaryFor_NoProfile(u, p) == primary[u]

(* The account's first player stays its primary one. *)
PrimaryFor(u, p) == IF primary[u] = NoPlayer THEN p ELSE primary[u]

(* The player's events without a user become the user's. *)
Claimed(u, p) ==
  {IF e.pl = p /\ e.user = NoUser THEN [e EXCEPT !.user = u] ELSE e : e \in events}

(* MUTANT: the duplicates are moved too. *)
Merged_WithDuplicates(evs, p, q) ==
  {IF e.pl = p THEN [e EXCEPT !.pl = q] ELSE e : e \in evs}

(* The events of p go to q, except those of which q has one for the same   *)
(* challenge and model; p = q leaves all as it is.                         *)
Merged(evs, p, q) ==
  LET duplicate(e) == /\ e.pl = p /\ p # q
                      /\ \E f \in evs : f.pl = q /\ f.ch = e.ch /\ f.md = e.md
  IN  {IF e.pl = p THEN [e EXCEPT !.pl = q] ELSE e : e \in {e \in evs : ~duplicate(e)}}

(* The rows of challenge_guess_stats recomputed from the events. *)
RecountedStats(evs, c, m) ==
  LET of == {e \in evs : e.ch = c /\ e.md = m}
  IN  [total |-> Cardinality(of),
       players |-> Cardinality({e.pl : e \in of}),
       correct |-> Cardinality({e \in of : e.ok})]

(* MUTANT: only the account's own players are counted. *)
Solvers_OfUser(evs, c, u) == Cardinality({e.pl : e \in {e \in evs : e.ch = c /\ e.ok /\ e.user = u}})

Solvers(evs, c, u) == Cardinality({e.pl : e \in {e \in evs : e.ch = c /\ e.ok}})

(* MUTANT: only the primary player's rows are dropped. *)
DroppedStats_PrimaryOnly(p, q) ==
  [k \in Players \X Modes |-> IF k[1] = q THEN NoRow ELSE playerStats[k]]

DroppedStats(p, q) ==
  [k \in Players \X Modes |-> IF k[1] \in {p, q} THEN NoRow ELSE playerStats[k]]

CategoriesOf(u, solved) == {<<u, Category[d[2]]>> : d \in {d \in solved : d[1] = u}}
                             \ {<<u, NoCategory>>}

(* Aggregates are recomputed for the challenges the user has events of,    *)
(* and completion records written only by the sync that creates the link.  *)
SyncTables(u, p) ==
  LET q == PrimaryFor(u, p)
      evs == Merged(Claimed(u, p), p, q)
      touched == {e.ch : e \in {e \in evs : e.user = u}}
      solved == {<<u, e.ch>> : e \in {e \in evs : e.user = u /\ e.ok}}
  IN  /\ link' = [link EXCEPT ![p] = u]
      /\ primary' = [primary EXCEPT ![u] = q]
      /\ events' = evs
      /\ IF p = q
           THEN UNCHANGED <<playerStats, guessStats, completions>>
           ELSE /\ playerStats' = DroppedStats(p, q)
                /\ guessStats' = [k \in Challenges \X Models |->
                     IF k[1] \in touched /\ guessStats[k] # NoRow
                       THEN RecountedStats(evs, k[1], k[2]) ELSE guessStats[k]]
                /\ completions' = [c \in Challenges |->
                     IF c \in touched /\ completions[c] # 0
                       THEN Solvers(evs, c, u) ELSE completions[c]]
      /\ IF link[p] = NoUser
           THEN /\ done' = done \cup solved
                /\ progress' = progress \cup CategoriesOf(u, done')
           ELSE UNCHANGED <<done, progress>>
      /\ UNCHANGED <<pool, unlocked, sent>>

(* MUTANT: a device is taken over from the account it is linked to. *)
LinkedElsewhere_Never(u, p) == FALSE

(* PLAYER_ALREADY_LINKED. *)
LinkedElsewhere(u, p) == link[p] \notin {u, NoUser}

(* PUT /auth/progress. *)
StartSync(t, u, p) ==
  /\ task[t].phase = "idle"
  /\ task' = [task EXCEPT ![t] = [NoTask EXCEPT !.phase = "sync", !.user = u, !.pl = p]]
  /\ UNCHANGED <<tables, pool, accounts>>

Sync(t) ==
  LET u == task[t].user
      p == task[t].pl
      q == PrimaryFor(u, p)
  IN  /\ task[t].phase = "sync"
      /\ IF LinkedElsewhere(u, p) THEN Fail(t)
         ELSE /\ SyncTables(u, p)
              /\ task' = [task EXCEPT ![t].phase = IF p = q THEN "check" ELSE "modes",
                                      ![t].pl = q]

-----------------------------------------------------------------------------
(* rebuild_primary_player_stats and rebuild_player_stats: single statements *)
(* outside the transaction.                                                *)

(* The modes the player has events in. *)
ReadModes(t) ==
  /\ task[t].phase = "modes"
  /\ LET modes == {Mode[e.ch] : e \in {e \in events : e.pl = task[t].pl}}
     IN  task' = [task EXCEPT ![t].todo = modes,
                              ![t].phase = IF modes = {} THEN "check" ELSE "read"]
  /\ UNCHANGED <<tables, pool, accounts>>

(* update_streak folded over the solved days in order. *)
StreakOver(days) ==
  LET upTo[n \in 0..Cardinality(days)] ==
        IF n = 0 THEN Streak(FreshStats)
        ELSE UpdateStreak(upTo[n - 1],
               CHOOSE d \in days : Cardinality({x \in days : x <= d}) = n)
  IN  upTo[Cardinality(days)]

(* The row the events give.  The distribution counts the stored guesses of *)
(* a solved game, where an accepted guess counts its attempt number.       *)
RebuiltRow(p, m) ==
  LET played == {c \in Challenges : Mode[c] = m /\ EventsOf(c, p) # {}}
      won == {c \in played : Solved(c, p)}
      streak == StreakOver({Day[c] : c \in won})
      guesses(c) == Cardinality(EventsOf(c, p))
      last == CHOOSE d \in {Day[c] : c \in played} : \A c \in played : Day[c] <= d
  IN  IF played = {} THEN NoRow
      ELSE [current |-> streak.current, best |-> streak.best,
            lastSolved |-> streak.lastSolved,
            played |-> Cardinality(played), won |-> Cardinality(won),
            lastPlayed |-> last,
            dist |-> [n \in Attempts |-> Cardinality({c \in won : guesses(c) = n})]]

ReadRows(t) ==
  /\ task[t].phase = "read"
  /\ \E m \in task[t].todo :
       task' = [task EXCEPT ![t].phase = "store", ![t].mode = m,
                            ![t].row = RebuiltRow(task[t].pl, m)]
  /\ UNCHANGED <<tables, pool, accounts>>

(* The row read before is written, whatever was accepted in between.       *)
StoreRow(t) ==
  LET rest == task[t].todo \ {task[t].mode}
  IN  /\ task[t].phase = "store"
      /\ playerStats' = [playerStats EXCEPT ![<<task[t].pl, task[t].mode>>] = task[t].row]
      /\ IF rest # {}
           THEN task' = [task EXCEPT ![t].todo = rest, ![t].row = NoRow, ![t].phase = "read"]
           ELSE IF task[t].user = NoUser THEN Finish(t)
           ELSE task' = [task EXCEPT ![t].todo = {}, ![t].row = NoRow, ![t].phase = "check"]
      /\ UNCHANGED <<events, guessStats, completions, pool, accounts>>

-----------------------------------------------------------------------------
(* Hardcore access: the categories are counted, then the unlock is stored. *)

CheckAccess(t) ==
  LET complete == \A g \in Categories : <<task[t].user, g>> \in progress
  IN  /\ task[t].phase = "check"
      /\ IF complete THEN Goto(t, "grant")
         ELSE IF task[t].then = "idle" THEN Finish(t)
         ELSE Goto(t, task[t].then)
      /\ UNCHANGED <<tables, pool, accounts>>

Grant(t) ==
  /\ task[t].phase = "grant"
  /\ unlocked' = unlocked \cup {task[t].user}
  /\ IF task[t].then = "idle" THEN Finish(t) ELSE Goto(t, task[t].then)
  /\ UNCHANGED <<tables, pool, link, primary, done, progress, sent>>

-----------------------------------------------------------------------------
(* api::v1::classic::guess. *)

(* A retry of the same request id is the subject of ClassicGuess; the same *)
(* guess under another id takes the same replay here.                      *)
StartGuess(t, u, p, c, m, r) ==
  /\ task[t].phase = "idle"
  /\ r \notin sent
  /\ sent' = sent \cup {r}
  /\ task' = [task EXCEPT ![t] =
       [NoTask EXCEPT !.phase = IF u = NoUser THEN "guess" ELSE "canonical",
                      !.user = u, !.pl = p, !.ch = c, !.md = m, !.req = r]]
  /\ UNCHANGED <<tables, pool, link, primary, done, progress, unlocked>>

(* canonical_player_id: a signed-in guess goes to the account's primary    *)
(* player; an account without one is reconciled with the device first, and *)
(* asked again.                                                            *)
Canonical(t) ==
  LET first == primary[task[t].user]
  IN  /\ task[t].phase = "canonical"
      /\ task' = IF first = NoPlayer
                   THEN [task EXCEPT ![t].phase = "sync", ![t].then = "canonical"]
                   ELSE [task EXCEPT ![t].phase = "guess", ![t].pl = first]
      /\ UNCHANGED <<tables, pool, accounts>>

GuessInput(t, num) ==
  [req |-> task[t].req, ch |-> task[t].ch, pl |-> task[t].pl,
   user |-> task[t].user, md |-> task[t].md, num |-> num]

(* After the solve of a signed-in player, the completion is recorded. *)
AfterGuess(t, ok) ==
  IF ok /\ task[t].user # NoUser
    THEN task' = [task EXCEPT ![t].phase = "record", ![t].then = "idle"]
    ELSE Finish(t)

Guess(t) ==
  /\ task[t].phase = "guess"
  /\ \E num \in Attempts :
       LET i == GuessInput(t, num)
           verdict == Verdict(i)
       IN  CASE verdict = "ACCEPT" -> AcceptGuess(i) /\ AfterGuess(t, NewEvent(i).ok)
             [] verdict = "REPLAY" -> /\ AfterGuess(t, i.md = Answer[i.ch])
                                      /\ UNCHANGED tables
             [] OTHER              -> Finish(t) /\ UNCHANGED tables
  /\ UNCHANGED <<pool, accounts>>

(* MUTANT: the completion is recorded without looking for the solve. *)
RecordedFor_Unchecked(u, c, evs) == done \cup {<<u, c>>}

(* MUTANT: the completion is looked for before the events are claimed. *)
RecordedFor_BeforeClaim(u, c, evs) == IF UserSolved(u, c) THEN done \cup {<<u, c>>} ELSE done

RecordedFor(u, c, evs) ==
  IF \E e \in evs : e.user = u /\ e.ch = c /\ e.ok THEN done \cup {<<u, c>>} ELSE done

(* record_authenticated_classic_completion, the transaction: the category  *)
(* is stored whether or not a completion was.                              *)
Record(t) ==
  LET u == task[t].user
      c == task[t].ch
  IN  /\ task[t].phase = "record"
      /\ events' = {IF e.ch = c /\ e.pl = primary[u] THEN [e EXCEPT !.user = u] ELSE e :
                      e \in events}
      /\ done' = RecordedFor(u, c, events')
      /\ progress' = progress \cup CategoriesOf(u, {<<u, c>>})
      /\ Goto(t, "check")
      /\ UNCHANGED <<guessStats, completions, playerStats, pool, link, primary, unlocked, sent>>

-----------------------------------------------------------------------------
(* POST /classic/hardcore/access. *)
StartAccess(t, u) ==
  /\ task[t].phase = "idle"
  /\ u \notin unlocked
  /\ task' = [task EXCEPT ![t] = [NoTask EXCEPT !.phase = "check", !.user = u]]
  /\ UNCHANGED <<tables, pool, accounts>>

(* admin::delete_guess: the guess goes, the aggregates of the challenge    *)
(* and the account's records are derived again from what is left, and the  *)
(* player's row is rebuilt after the commit.  The completion count is not  *)
(* among the aggregates, and unlocks are kept.                             *)
RemoveGuess(t, e) ==
  LET u == e.user
      left == events \ {e}
      solved == \E f \in left : f.user = u /\ f.ch = e.ch /\ f.ok
  IN  /\ task[t].phase = "idle"
      /\ u # NoUser
      /\ events' = left
      /\ guessStats' = [k \in Challenges \X Models |->
           IF k[1] # e.ch THEN guessStats[k]
           ELSE IF \E f \in left : f.ch = k[1] /\ f.md = k[2]
             THEN RecountedStats(left, k[1], k[2]) ELSE NoRow]
      /\ done' = IF solved THEN done ELSE done \ {<<u, e.ch>>}
      /\ progress' = {g \in progress : g[1] # u} \cup CategoriesOf(u, done')
      /\ task' = [task EXCEPT ![t] = [NoTask EXCEPT !.phase = "read", !.pl = e.pl,
                                                    !.todo = {Mode[e.ch]}]]
      /\ UNCHANGED <<completions, playerStats, pool, link, primary, unlocked, sent>>

(* The request timeout or a crash. *)
Drop(t) ==
  /\ task[t].phase # "idle"
  /\ Fail(t)

Request(t) ==
  \/ \E u \in Users \cup {NoUser}, p \in Players, c \in Challenges,
        m \in Models, r \in Requests : StartGuess(t, u, p, c, m, r)
  \/ \E u \in Users, p \in Players : StartSync(t, u, p)
  \/ \E u \in Users : StartAccess(t, u)
  \/ MayModerate /\ \E e \in events : RemoveGuess(t, e)

Step(t) ==
  \/ Sync(t) \/ ReadModes(t) \/ ReadRows(t) \/ StoreRow(t)
  \/ CheckAccess(t) \/ Grant(t)
  \/ Canonical(t) \/ Guess(t) \/ Record(t)

Next == \E t \in Tasks : Request(t) \/ Step(t) \/ (MayDrop /\ Drop(t))

Spec == Init /\ [][Next]_vars

-----------------------------------------------------------------------------
(* Safety. *)

(* An event belongs to an account only through a link of its player: no    *)
(* step of an overlapping guess, reconciliation and record attributes a    *)
(* guess to an account the device was not linked to.                       *)
EventsOwned ==
  \A e \in events : e.user # NoUser => link[e.pl] = e.user

(* An account completion is backed by an accepted correct guess of the     *)
(* account, also when a moderator removes the guess between the guess      *)
(* transaction and the record transaction.                                 *)
CompletionsBacked ==
  \A d \in done : UserSolved(d[1], d[2])

(* The published completion count of a challenge never falls below the     *)
(* number of players who have solved it: merges recount it, and nothing    *)
(* else lowers it.                                                         *)
SolversCounted ==
  \A c \in Challenges : completions[c] >= Cardinality({p \in Players : Solved(c, p)})

(* A statistics row never shows more games played or won than the player   *)
(* has stored events for: rows emptied by a merge, counted up by a guess   *)
(* and overwritten by a late rebuild can only lag.                         *)
StatsNeverAhead ==
  \A p \in Players, m \in Modes :
    LET row == playerStats[<<p, m>>]
        played == {c \in Challenges : Mode[c] = m /\ EventsOf(c, p) # {}}
    IN  row # NoRow => /\ row.played <= Cardinality(played)
                       /\ row.won <= Cardinality({c \in played : Solved(c, p)})

(* Hardcore access is earned: while no guess is ever removed, each category *)
(* an unlocked account needed is backed by a completion of the account.    *)
UnlockEarned ==
  \A u \in unlocked : \A g \in Categories :
    \E d \in done : d[1] = u /\ Category[d[2]] = g

-----------------------------------------------------------------------------
(* What the documentation says, and the code does not do. *)

(* "New anonymous progress still triggers reconciliation so accepted       *)
(* device activity can be linked safely": a reconciliation that commits    *)
(* leaves a completion for every challenge the account's events solve.     *)
(* synchronize records completions only with the first link of a device.   *)
DeviceActivityRecorded ==
  [][\A t \in Tasks, u \in Users :
       task[t].user = u /\ Sync(t) /\ link'[task[t].pl] = u =>
         \A e \in events' : e.user = u /\ e.ok => <<u, e.ch>> \in done']_vars

(* "keeps solved games solved": a challenge that the account's device or   *)
(* its primary player has solved is solved for the account afterwards.     *)
(* The merge prefers the primary player's duplicate of a guess, which may  *)
(* belong to no account.                                                   *)
SyncKeepsSolves ==
  [][\A t \in Tasks, u \in Users, c \in Challenges :
       /\ task[t].user = u /\ Sync(t) /\ link'[task[t].pl] = u
       /\ Solved(c, task[t].pl)
       => \E e \in events' : e.user = u /\ e.ch = c /\ e.ok]_vars

(* "recalculates Classic saved-game statistics": once nothing runs, the    *)
(* statistics row of a player and mode counts the games its events show.   *)
(* The rows are emptied in the transaction and rebuilt after it, from      *)
(* events read before other guesses were accepted.                         *)
StatsRecalculated ==
  (\A t \in Tasks : task[t].phase = "idle") =>
    \A p \in Players, m \in Modes :
      LET row == playerStats[<<p, m>>]
          played == {c \in Challenges : Mode[c] = m /\ EventsOf(c, p) # {}}
      IN  played # {} =>
            /\ row # NoRow
            /\ row.played = Cardinality(played)
            /\ row.won = Cardinality({c \in played : Solved(c, p)})

=============================================================================
