---------------------------- MODULE ClassicTables ----------------------------
(***************************************************************************)
(* The database tables behind the Classic game, the order in which a guess *)
(* transaction takes its early returns, and the rows an accepted guess     *)
(* writes.  ClassicGuess adds the concurrency of the guess handler;        *)
(* AccountProgress adds accounts, merges and moderation.                   *)
(*                                                                         *)
(* A day is a positive number (0 stands for SQL NULL), a guess is a member *)
(* of Models, a challenge carries its date, mode, answer and pool as       *)
(* constants: a row of daily_challenges is never updated.                  *)
(***************************************************************************)
EXTENDS Integers, FiniteSets

CONSTANTS
  Players,      \* anonymous_players.id
  Users,        \* users.id
  Models,       \* models.id, the ones the catalogue no longer offers included
  Challenges,   \* the challenge ids a request can name
  Modes,        \* the values of daily_challenges.mode that are Classic modes
  Requests,     \* request ids chosen by clients
  NoUser,       \* guess_events.user_id IS NULL
  NoMode,       \* the mode of an id that names no Classic challenge
  NoRow,        \* a table has no row under this key
  Mode,         \* daily_challenges.mode
  Day,          \* daily_challenges.challenge_date
  Answer,       \* daily_challenges.answer_model_id
  Guessable,    \* models with is_guessable = 1 and status 'active'
  Pools         \* the pools a seed run can leave a category and difficulty with

ASSUME TablesAssumption ==
  /\ IsFiniteSet(Models) /\ IsFiniteSet(Players) /\ IsFiniteSet(Challenges)
  /\ NoUser \notin Users
  /\ NoMode \notin Modes
  /\ NoRow \notin [current : Nat, best : Nat, played : Nat, won : Nat,
                   lastSolved : Nat, lastPlayed : Nat,
                   dist : [1..Cardinality(Models) -> Nat]]
  /\ NoRow \notin [total : Nat, players : Nat, correct : Nat]
  /\ Mode \in [Challenges -> Modes \cup {NoMode}]
  /\ Day \in [Challenges -> Nat \ {0}]
  /\ \A c, d \in Challenges :
       Mode[c] # NoMode /\ Mode[c] = Mode[d] /\ Day[c] = Day[d] => c = d
  /\ Answer \in [Challenges -> Models]
  /\ Guessable \subseteq Models
  /\ Pools \subseteq SUBSET Guessable

VARIABLES
  events,       \* guess_events
  guessStats,   \* challenge_guess_stats, by challenge and guessed model
  completions,  \* challenge_completion_counts (an absent row reads as 0)
  playerStats,  \* player_mode_stats, by player and mode
  pool          \* the models a mode's category and difficulty admit

tables == <<events, guessStats, completions, playerStats>>

Attempts == 1..Cardinality(Models)

Input == [req : Requests, ch : Challenges, pl : Players,
          user : Users \cup {NoUser}, md : Models, num : Attempts]

Event == [req : Requests, ch : Challenges, pl : Players,
          user : Users \cup {NoUser}, md : Models, num : Attempts, ok : BOOLEAN]

GuessStatsRow == [total : Nat, players : Nat, correct : Nat]

PlayerStatsRow == [current : Nat, best : Nat, played : Nat, won : Nat,
                   lastSolved : Nat, lastPlayed : Nat, dist : [Attempts -> Nat]]

TablesType ==
  /\ events \subseteq Event
  /\ guessStats \in [Challenges \X Models -> GuessStatsRow \cup {NoRow}]
  /\ completions \in [Challenges -> Nat]
  /\ playerStats \in [Players \X Modes -> PlayerStatsRow \cup {NoRow}]
  /\ pool \in [Modes -> Pools]

TablesInit ==
  /\ events = {}
  /\ guessStats = [k \in Challenges \X Models |-> NoRow]
  /\ completions = [c \in Challenges |-> 0]
  /\ playerStats = [k \in Players \X Modes |-> NoRow]
  /\ pool \in [Modes -> Pools]

-----------------------------------------------------------------------------
(* What a transaction reads. *)

EventsOf(c, p) == {e \in events : e.ch = c /\ e.pl = p}

SameGuess(e, i) == e.ch = i.ch /\ e.pl = i.pl /\ e.md = i.md

Solved(c, p) == \E e \in EventsOf(c, p) : e.ok

(* MUTANT: only the guess that is the answer counts as the solve. *)
AlreadyCompleted_SameModel(i) == \E e \in EventsOf(i.ch, i.pl) : e.ok /\ e.md = i.md

AlreadyCompleted(i) == Solved(i.ch, i.pl)

(* The eligible models of a challenge, as the catalogue has them now: a    *)
(* player may have spent guesses on models that have left since.           *)
PoolOf(c) == pool[Mode[c]]

(* MUTANT: off by one. *)
LimitReached_Plus(i) == Cardinality(EventsOf(i.ch, i.pl)) > Cardinality(PoolOf(i.ch))

LimitReached(i) == Cardinality(EventsOf(i.ch, i.pl)) >= Cardinality(PoolOf(i.ch))

ExpectedAttempt(i) == Cardinality(EventsOf(i.ch, i.pl)) + 1

(* MUTANT: a request id answers for whatever guess it comes with. *)
SameRequest_AnyGuess(e, i) == e.req = i.req /\ e.num = i.num

SameRequest(e, i) == e.req = i.req /\ SameGuess(e, i) /\ e.num = i.num

(* A stored guess is answered with the player's statistics row, so it      *)
(* cannot be answered while that row is missing.                           *)
Replay(i) ==
  IF Mode[i.ch] # NoMode /\ playerStats[<<i.pl, Mode[i.ch]>>] # NoRow
    THEN "REPLAY" ELSE "UNAVAILABLE"

(* The early returns of process_guess_once, in the order of the code. *)
Verdict(i) ==
  IF \E e \in events : e.req = i.req
    THEN IF \E e \in events : SameRequest(e, i) THEN Replay(i) ELSE "REQUEST_ID_REUSED"
  ELSE IF Mode[i.ch] = NoMode               THEN "NOT_FOUND"
  ELSE IF \E e \in events : SameGuess(e, i) THEN Replay(i)
  ELSE IF AlreadyCompleted(i)               THEN "CHALLENGE_COMPLETED"
  ELSE IF i.md \notin Guessable             THEN "NOT_FOUND"
  ELSE IF i.md \notin PoolOf(i.ch)          THEN "INELIGIBLE"
  ELSE IF LimitReached(i)                   THEN "ATTEMPT_LIMIT_REACHED"
  ELSE IF i.num # ExpectedAttempt(i)        THEN "BAD_ATTEMPT_NUMBER"
  ELSE "ACCEPT"

-----------------------------------------------------------------------------
(* What an accepted guess writes. *)

Larger(a, b) == IF a > b THEN a ELSE b

FreshStats == [current |-> 0, best |-> 0, played |-> 0, won |-> 0,
               lastSolved |-> 0, lastPlayed |-> 0, dist |-> [n \in Attempts |-> 0]]

Bit(b) == IF b THEN 1 ELSE 0

Streak(s) == [current |-> s.current, best |-> s.best, lastSolved |-> s.lastSolved]

(* MUTANT: a solve of an earlier day restarts the streak. *)
UpdateStreak_AnyDay(s, day) ==
  LET run == IF s.lastSolved + 1 = day THEN s.current + 1 ELSE 1
  IN  [current |-> run, best |-> Larger(s.best, run), lastSolved |-> day]

(* domain::streak::update_streak: a day that is not after the last solved  *)
(* one changes nothing, the next day extends the run, a later one restarts *)
(* it.  s is any record with current, best and lastSolved.                 *)
UpdateStreak(s, day) ==
  LET run == IF s.lastSolved # 0 /\ s.lastSolved + 1 = day THEN s.current + 1 ELSE 1
  IN  IF s.lastSolved # 0 /\ day <= s.lastSolved
        THEN Streak(s)
        ELSE [current |-> run, best |-> Larger(s.best, run), lastSolved |-> day]

(* MUTANT: games played are counted when they are won. *)
GamesPlayed_OnWin(old, first, ok) == old.played + Bit(ok)

GamesPlayed(old, first, ok) == old.played + Bit(first)

(* update_player_stats: the row an accepted guess leaves behind. *)
NextPlayerStats(row, i, first, ok) ==
  LET old == IF row = NoRow THEN FreshStats ELSE row
      streak == IF ok THEN UpdateStreak(old, Day[i.ch]) ELSE Streak(old)
  IN  [current |-> streak.current, best |-> streak.best, lastSolved |-> streak.lastSolved,
       played |-> GamesPlayed(old, first, ok),
       won |-> old.won + Bit(ok),
       lastPlayed |-> Larger(old.lastPlayed, Day[i.ch]),
       dist |-> [n \in Attempts |-> old.dist[n] + Bit(ok /\ n = i.num)]]

(* MUTANT: a conflicting row starts again. *)
NextGuessStats_Reset(row, ok) == [total |-> 1, players |-> 1, correct |-> Bit(ok)]

(* The upsert of challenge_guess_stats: the conflict branch leaves         *)
(* unique_player_count as it is.                                           *)
NextGuessStats(row, ok) ==
  IF row = NoRow
    THEN [total |-> 1, players |-> 1, correct |-> Bit(ok)]
    ELSE [total |-> row.total + 1, players |-> row.players, correct |-> row.correct + Bit(ok)]

NewEvent(i) ==
  [req |-> i.req, ch |-> i.ch, pl |-> i.pl, user |-> i.user, md |-> i.md,
   num |-> i.num, ok |-> (i.md = Answer[i.ch])]

(* MUTANT: the aggregate is bumped for every accepted guess. *)
AcceptGuess_CountAll(i) ==
  /\ events' = events \cup {NewEvent(i)}
  /\ guessStats' = [guessStats EXCEPT ![<<i.ch, i.md>>] = NextGuessStats(@, NewEvent(i).ok)]
  /\ playerStats' = [playerStats EXCEPT ![<<i.pl, Mode[i.ch]>>] =
                       NextPlayerStats(@, i, EventsOf(i.ch, i.pl) = {}, NewEvent(i).ok)]
  /\ completions' = [completions EXCEPT ![i.ch] = @ + 1]

(* The writes between the INSERT into guess_events and the COMMIT; the     *)
(* catalogue is only read.                                                 *)
AcceptGuess(i) ==
  /\ events' = events \cup {NewEvent(i)}
  /\ guessStats' = [guessStats EXCEPT ![<<i.ch, i.md>>] = NextGuessStats(@, NewEvent(i).ok)]
  /\ playerStats' = [playerStats EXCEPT ![<<i.pl, Mode[i.ch]>>] =
                       NextPlayerStats(@, i, EventsOf(i.ch, i.pl) = {}, NewEvent(i).ok)]
  /\ completions' = [completions EXCEPT ![i.ch] = @ + Bit(NewEvent(i).ok)]

(* The unique indexes of guess_events a new row could violate. *)
InsertConflicts(i) == \E e \in events : e.req = i.req \/ SameGuess(e, i)

-----------------------------------------------------------------------------
(* What the tables should say of the games played. *)

(* The attempt numbers a player's events carry on a challenge are 1, 2, 3  *)
(* and so on without a gap or a repeat, whatever two calls overlap         *)
(* (expected_attempt in process_guess_once).                               *)
AttemptsSequential ==
  \A c \in Challenges, p \in Players :
    {e.num : e \in EventsOf(c, p)} = 1..Cardinality(EventsOf(c, p))

(* A player solves a challenge at most once, and nothing is accepted after *)
(* the solve (the CHALLENGE_COMPLETED return).                             *)
SolveEndsGame ==
  \A e, f \in events :
    e.ch = f.ch /\ e.pl = f.pl /\ e.ok => f.num <= e.num /\ (f.ok => f = e)

(* The published completion count of a challenge is the number of players  *)
(* whose accepted events solve it (increment_completion_count).            *)
CompletionsExact ==
  \A c \in Challenges : completions[c] = Cardinality({p \in Players : Solved(c, p)})

(* No two stored events share a request id, or a player, challenge and     *)
(* model: what the two unique indexes of guess_events say, kept by the     *)
(* checks of a guess and by the merge of two players' records alike.       *)
UniqueGuesses ==
  \A e, f \in events : e.req = f.req \/ SameGuess(e, f) => e = f
(* The aggregate row of a guessed model counts exactly its accepted events *)
(* (the upsert of challenge_guess_stats).                                  *)
GuessStatsExact ==
  \A c \in Challenges, m \in Models :
    LET of == {e \in events : e.ch = c /\ e.md = m}
    IN  IF of = {} THEN guessStats[<<c, m>>] = NoRow
        ELSE /\ guessStats[<<c, m>>].total = Cardinality(of)
             /\ guessStats[<<c, m>>].correct = Cardinality({e \in of : e.ok})

PlayedIn(p, m) == {c \in Challenges : Mode[c] = m /\ EventsOf(c, p) # {}}

SolvedIn(p, m) == {c \in Challenges : Mode[c] = m /\ Solved(c, p)}

(* The statistics row of a player in a mode says what the events say: the  *)
(* games played and won, the number of wins by guesses needed, the last    *)
(* day played; it exists as soon as there is an event, which is why a      *)
(* replay never finds it missing (update_player_stats).                    *)
PlayerStatsExact ==
  \A p \in Players, m \in Modes :
    LET row == playerStats[<<p, m>>]
        lastNum(c) == CHOOSE n \in Attempts : \E e \in EventsOf(c, p) : e.ok /\ e.num = n
    IN  IF PlayedIn(p, m) = {} THEN row = NoRow
        ELSE /\ row # NoRow
             /\ row.played = Cardinality(PlayedIn(p, m))
             /\ row.won = Cardinality(SolvedIn(p, m))
             /\ \A n \in Attempts :
                  row.dist[n] = Cardinality({c \in SolvedIn(p, m) : lastNum(c) = n})
             /\ \E c \in PlayedIn(p, m) : row.lastPlayed = Day[c]
             /\ \A c \in PlayedIn(p, m) : row.lastPlayed >= Day[c]

Run(days, last) ==
  CHOOSE n \in 1..last : (last - n + 1)..last \subseteq days /\ last - n \notin days

(* A streak is never overstated, in whatever order old and new challenges  *)
(* are solved: the current one is at most the run of solved days up to the *)
(* last solved day, which is the latest of them, and the best one at most  *)
(* the longest run (update_streak; solving an old day late can only leave  *)
(* a streak shorter than the run).                                         *)
StreaksNeverOverstated ==
  \A p \in Players, m \in Modes :
    LET days == {Day[c] : c \in SolvedIn(p, m)}
        row == playerStats[<<p, m>>]
    IN  /\ row # NoRow /\ days = {} => row.current = 0 /\ row.best = 0
        /\ days # {} =>
             /\ row.lastSolved \in days /\ \A d \in days : d <= row.lastSolved
             /\ row.current \in 1..Run(days, row.lastSolved)
             /\ row.best >= row.current
             /\ \E d \in days : row.best <= Run(days, d)
=============================================================================
