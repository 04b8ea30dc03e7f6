----------------------------- MODULE EmojiScreen -----------------------------
(***************************************************************************)
(* The Emoji page (use-emoji-game.ts, EmojiGame.tsx): its boards, one for  *)
(* each difficulty, the cache of those that were shown, the history of the *)
(* player's guesses and the guesses being sent.                            *)
(*                                                                         *)
(* One day, one player, one browser tab.  The search, the completion       *)
(* dialog and its timer are left out.  A board's clues are their number.   *)
(* The server handles a guess when it is sent, and reads a history at some *)
(* moment before its answer.                                               *)
(*                                                                         *)
(* unsettled is a history variable: the boards the page may show wrongly   *)
(* until it is loaded again, as a guess's answer was lost, a history could *)
(* not be read, one came that was older than a guess or met the answer to  *)
(* one, or another board's was put on the board shown.                     *)
(***************************************************************************)
EXTENDS Integers, Sequences

CONSTANTS
  Difficulties,    \* "hardcore" among them
  Entities,
  Answer,          \* [Difficulties -> Entities]
  None,
  Bounds           \* of this instance: see Bounded

Guess == [entity : Entities, ok : BOOLEAN]

Boards == [guesses : Seq(Guess), clues : Nat \cup {None}]

Replies == [ok : BOOLEAN, clues : Nat \cup {None}]

Calls == [entity : Entities, reply : Replies \cup {None}]

EmojiScreenAssumption ==
  /\ "hardcore" \in Difficulties /\ \A d \in Difficulties : Answer[d] \in Entities
  /\ None \notin Difficulties \cup Entities /\ None \notin BOOLEAN /\ None \notin Nat
  /\ None \notin Boards \cup Replies \cup Calls
  /\ Bounds \subseteq [switches : Nat, guesses : Nat, retries : Nat, reloads : Nat]

VARIABLES
  difficulty,
  status,              \* hardcore.unlocked: None until the API has answered
  asking,              \* hardcoreStatus calls in flight
  access,              \* what they answer
  screen,              \* game, guesses and the state of loading
  cache,               \* gameCache
  call, failures,      \* the guess being sent; the entity that failed last
  hydrated, histories,
  record,              \* the server: the player's guesses on each board
  switches, retries, reloads, unsettled

vars == <<difficulty, status, asking, access, screen, cache, call, failures, hydrated, histories,
          record, switches, retries, reloads, unsettled>>

Solved(guesses) == \E i \in DOMAIN guesses : guesses[i].ok

(* The clues a player has earned: all of them (None) once the board is     *)
(* solved, one more for each wrong guess before.                           *)
Clues(guesses) == IF Solved(guesses) THEN None ELSE Len(guesses)

Unloaded ==
  [game |-> None, guesses |-> <<>>, clues |-> 0, fetch |-> None, loading |-> TRUE, error |-> FALSE,
   key |-> None, failed |-> FALSE]

-----------------------------------------------------------------------------
(* MUTANT: a board of the cache is shown without its guesses. *)
FromCache_NoGuesses(s, d) ==
  [s EXCEPT !.game = d, !.clues = cache[d].clues, !.error = FALSE, !.loading = FALSE,
            !.fetch = None]

(* MUTANT: the guesses of the cache are shown under the game there is. *)
FromCache_OldGame(s, d) ==
  [s EXCEPT !.guesses = cache[d].guesses, !.clues = cache[d].clues, !.error = FALSE,
            !.loading = FALSE, !.fetch = None]

(* setGame, setGuesses, setClues with what the cache has of a difficulty. *)
FromCache(s, d) ==
  [s EXCEPT !.game = d, !.guesses = cache[d].guesses, !.clues = cache[d].clues, !.error = FALSE,
            !.loading = FALSE, !.fetch = None]

(* The load effect, for the difficulty and the status given. *)
Load(s, d, unlocked) ==
  IF d = "hardcore" /\ unlocked # TRUE
    THEN [s EXCEPT !.game = None, !.loading = FALSE, !.fetch = None]
  ELSE IF cache[d] # None THEN FromCache(s, d)
  ELSE [Unloaded EXCEPT !.fetch = d, !.key = d, !.failed = s.failed /\ s.key = d]

AskHistory ==
  LET d == screen'.game
  IN  IF d = None \/ d \in hydrated
        THEN UNCHANGED <<hydrated, histories>>
        ELSE /\ hydrated' = hydrated \cup {d}
             /\ histories' = [histories EXCEPT ![d] = Len(record[d])]

StatusAnswer ==
  /\ asking > 0
  /\ asking' = asking - 1
  /\ status' = access
  /\ screen' = IF status = access THEN screen ELSE Load(screen, difficulty, access)
  /\ AskHistory
  /\ UNCHANGED <<difficulty, access, cache, call, failures, record, switches, retries, reloads,
                 unsettled>>

StatusFails ==
  /\ asking > 0
  /\ asking' = asking - 1
  /\ screen' = [screen EXCEPT !.error = TRUE]
  /\ UNCHANGED <<difficulty, status, access, cache, call, failures, hydrated, histories, record,
                 switches, retries, reloads, unsettled>>

(* The switch is disabled while a guess is sent or a board is loaded, and  *)
(* offers Hardcore to who has unlocked it.                                 *)
ChangeDifficulty(d) ==
  /\ call = None /\ ~screen.loading
  /\ d # difficulty /\ (d = "hardcore" => status = TRUE)
  /\ switches' = switches + 1
  /\ difficulty' = d
  /\ screen' = Load(screen, d, status)
  /\ AskHistory
  /\ UNCHANGED <<status, asking, access, cache, call, failures, record, retries, reloads, unsettled>>

LoadAnswer ==
  LET d == screen.fetch
  IN  /\ d # None
      /\ cache' = [cache EXCEPT ![d] = [guesses |-> <<>>, clues |-> 0]]
      /\ screen' = [screen EXCEPT !.game = d, !.clues = 0, !.fetch = None, !.loading = FALSE,
                                  !.failed = FALSE]
      /\ AskHistory
      /\ UNCHANGED <<difficulty, status, asking, access, call, failures, record, switches, retries,
                     reloads, unsettled>>

(* The first failure of a board, when the API is unavailable, is tried     *)
(* again, and the status asked for with it.                                *)
LoadFails ==
  /\ screen.fetch # None
  /\ \/ /\ ~screen.failed
        /\ screen' = [screen EXCEPT !.failed = TRUE]
        /\ asking' = asking + 1
     \/ /\ screen' = [screen EXCEPT !.error = TRUE, !.fetch = None, !.loading = FALSE]
        /\ UNCHANGED asking
  /\ UNCHANGED <<difficulty, status, access, cache, call, failures, hydrated, histories, record,
                 switches, retries, reloads, unsettled>>

(* "Try again" *)
TryAgain ==
  /\ screen.error
  /\ retries' = retries + 1
  /\ asking' = asking + 1
  /\ screen' = Load(screen, difficulty, status)
  /\ AskHistory
  /\ UNCHANGED <<difficulty, status, access, cache, call, failures, record, switches, reloads,
                 unsettled>>

(* The board is not the one shown, or no guess is about to be added to it. *)
Undisturbed(d) ==
  \/ difficulty # d
  \/ screen.game = d /\ (call = None \/ call.reply = None)

(* The history replaces the guesses that are shown, whichever board they   *)
(* are of, and those and the clues of its own board in the cache.          *)
HistoryAnswer(d) ==
  /\ histories[d] # None
  /\ \E n \in histories[d]..Len(record[d]) :
       LET guesses == SubSeq(record[d], 1, n)
       IN  /\ screen' = [screen EXCEPT !.guesses = guesses,
                                       !.clues = IF screen.game = d THEN Clues(guesses) ELSE @]
           /\ cache' = [cache EXCEPT ![d] = [guesses |-> guesses, clues |-> Clues(guesses)]]
           /\ unsettled' = (unsettled
                \cup (IF n = Len(record[d]) /\ Undisturbed(d) THEN {} ELSE {d})
                \cup (IF difficulty = d THEN {} ELSE {difficulty}))
  /\ histories' = [histories EXCEPT ![d] = None]
  /\ UNCHANGED <<difficulty, status, asking, access, call, failures, hydrated, record, switches,
                 retries, reloads>>

(* A history that cannot be read is not asked for again. *)
HistoryFails(d) ==
  /\ histories[d] # None
  /\ histories' = [histories EXCEPT ![d] = None]
  /\ unsettled' = unsettled \cup (IF record[d] = <<>> THEN {} ELSE {d})
  /\ UNCHANGED <<difficulty, status, asking, access, screen, cache, call, failures, hydrated,
                 record, switches, retries, reloads>>

-----------------------------------------------------------------------------
(* process_guess_once of repository/emoji.rs, for one player.              *)
Accepted(d, e, num) ==
  /\ \A i \in DOMAIN record[d] : record[d][i].entity # e
  /\ ~Solved(record[d])
  /\ num = Len(record[d]) + 1

(* choose, up to its await; a guess may be lost on its way, and so may its *)
(* answer.                                                                 *)
Choose(e) ==
  LET d == screen.game
      accepted == Accepted(d, e, Len(screen.guesses) + 1)
      after == Append(record[d], [entity |-> e, ok |-> e = Answer[d]])
  IN  /\ d # None /\ ~screen.loading /\ call = None /\ ~Solved(screen.guesses)
      /\ \A i \in DOMAIN screen.guesses : screen.guesses[i].entity # e
      /\ \E out \in {"answered", "unanswered", "unsent"} :
           /\ record' = IF accepted /\ out # "unsent" THEN [record EXCEPT ![d] = after] ELSE record
           /\ call' = [entity |-> e,
                       reply |-> IF accepted /\ out = "answered"
                                   THEN [ok |-> e = Answer[d], clues |-> Clues(after)] ELSE None]
           /\ unsettled' = unsettled \cup (IF accepted /\ out = "unanswered" THEN {d} ELSE {})
      /\ screen' = [screen EXCEPT !.error = FALSE]
      /\ UNCHANGED <<difficulty, status, asking, access, cache, failures, hydrated, histories,
                     switches, retries, reloads>>

(* The answer is added to the board shown, and to the cache under the      *)
(* difficulty it was sent with, which is still the page's.                 *)
Answered ==
  /\ call # None /\ call.reply # None
  /\ LET guesses == Append(screen.guesses, [entity |-> call.entity, ok |-> call.reply.ok])
     IN  /\ screen' = [screen EXCEPT !.guesses = guesses,
                                     !.clues = IF screen.game = None THEN @ ELSE call.reply.clues]
         /\ cache' = IF cache[difficulty] = None THEN cache
                     ELSE [cache EXCEPT ![difficulty] = [guesses |-> guesses,
                                                         clues |-> call.reply.clues]]
  /\ call' = None /\ failures' = None
  /\ UNCHANGED <<difficulty, status, asking, access, hydrated, histories, record, switches,
                 retries, reloads, unsettled>>

ChooseFails ==
  /\ call # None /\ call.reply = None
  /\ call' = None /\ failures' = call.entity
  /\ screen' = [screen EXCEPT !.error = @ \/ failures = call.entity]
  /\ UNCHANGED <<difficulty, status, asking, access, cache, hydrated, histories, record, switches,
                 retries, reloads, unsettled>>

Nothing == [d \in Difficulties |-> None]

(* The page is loaded again; the difficulty is kept in localStorage. *)
Reload ==
  /\ reloads' = reloads + 1
  /\ status' = None /\ asking' = 1 /\ cache' = Nothing
  /\ screen' = IF difficulty = "hardcore" THEN [Unloaded EXCEPT !.loading = FALSE]
               ELSE [Unloaded EXCEPT !.fetch = difficulty, !.key = difficulty]
  /\ call' = None /\ failures' = None /\ hydrated' = {} /\ histories' = Nothing
  /\ unsettled' = {}
  /\ UNCHANGED <<difficulty, access, record, switches, retries>>

Init ==
  /\ difficulty \in Difficulties /\ access \in BOOLEAN
  /\ status = None /\ asking = 1 /\ cache = Nothing
  /\ screen = IF difficulty = "hardcore" THEN [Unloaded EXCEPT !.loading = FALSE]
              ELSE [Unloaded EXCEPT !.fetch = difficulty, !.key = difficulty]
  /\ call = None /\ failures = None /\ hydrated = {} /\ histories = Nothing
  /\ record = [d \in Difficulties |-> <<>>]
  /\ switches = 0 /\ retries = 0 /\ reloads = 0 /\ unsettled = {}

(* The bounds of the instance: no more of each than one of Bounds has. *)
Bounded ==
  \E b \in Bounds :
    /\ switches <= b.switches /\ retries <= b.retries /\ reloads <= b.reloads
    /\ \A d \in Difficulties : Len(record[d]) <= b.guesses

Step ==
  \/ StatusAnswer \/ StatusFails
  \/ \E d \in Difficulties : ChangeDifficulty(d) \/ HistoryAnswer(d) \/ HistoryFails(d)
  \/ LoadAnswer \/ LoadFails \/ TryAgain
  \/ \E e \in Entities : Choose(e)
  \/ Answered \/ ChooseFails
  \/ Reload

Next == Step /\ Bounded'

Spec == Init /\ [][Next]_vars
-----------------------------------------------------------------------------
(* Properties. *)

TypeOK ==
  /\ difficulty \in Difficulties /\ status \in {None, access} /\ access \in BOOLEAN
  /\ asking \in Nat
  /\ screen \in [game : {None, difficulty}, guesses : Seq(Guess), clues : Nat \cup {None},
                 fetch : {None, difficulty}, loading : BOOLEAN, error : BOOLEAN,
                 key : Difficulties \cup {None}, failed : BOOLEAN]
  /\ screen.loading => screen.fetch = difficulty
  /\ cache \in [Difficulties -> Boards \cup {None}]
  /\ call \in Calls \cup {None} /\ failures \in Entities \cup {None}
  /\ hydrated \subseteq Difficulties /\ histories \in [Difficulties -> Nat \cup {None}]
  /\ record \in [Difficulties -> Seq(Guess)]
  /\ switches \in Nat /\ retries \in Nat /\ reloads \in Nat
  /\ unsettled \subseteq Difficulties

(* Once its history is there and no guess is being sent, the page shows    *)
(* the server's guesses and clues for its difficulty, in their order,      *)
(* through switches, failures, the cache and every reload, but for the     *)
(* boards that are unsettled; a history that comes after a switch leaves   *)
(* its own board right.  Hardcore is shown only to who has it.             *)
BoardIsServers ==
  LET d == screen.game
  IN  /\ d = "hardcore" => access
      /\ d # None /\ histories[d] = None /\ call = None /\ d \notin unsettled =>
           /\ screen.guesses = record[d]
           /\ screen.clues = Clues(record[d])
=============================================================================
