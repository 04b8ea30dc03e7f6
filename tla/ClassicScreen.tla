---------------------------- MODULE ClassicScreen ----------------------------
(***************************************************************************)
(* The Classic page: which board it loads (use-classic-game-loader.ts,     *)
(* ClassicPage.tsx) and what it does with guesses and with the history of  *)
(* the player's guesses (ClassicGame.tsx).                                 *)
(*                                                                         *)
(* One day, one player, whose account may be playing on another device     *)
(* too.  A board is a category with a difficulty; Hardcore, a page of its  *)
(* own, is left out.  So are dialogs, animations and how-to-play notes.    *)
(* The server handles a guess when it is sent, and reads a history at some *)
(* moment before its answer.                                               *)
(*                                                                         *)
(* blanked and raced are history variables: the page was rendered with a   *)
(* difficulty its loader had already loaded; a guess may be on its board   *)
(* and in a history under different requests or at different times, as it  *)
(* was answered from one stored under another request, or was brought back *)
(* by a history while it was being sent or waiting to be sent again.       *)
(***************************************************************************)
EXTENDS Integers, FiniteSets, Sequences, Functions

CONSTANTS
  Categories, Difficulties,
  Pool,      \* [Boards -> SUBSET Model]: the models that may be guessed
  Answer,    \* [Boards -> Model]
  First,     \* the board that localStorage names when the page is first opened
  None,
  MaxSwitches, MaxRequests, MaxReloads   \* the bounds of this instance

Boards == Categories \X Difficulties

Models == UNION {Pool[b] : b \in Boards}

Entry == [req : Nat, model : Models, num : Nat, ok : BOOLEAN]

Game == [guesses : Seq(Entry), solved : BOOLEAN, won : Nat]

Replies == [ok : BOOLEAN]

Picks == [board : Boards, req : Nat, model : Models, num : Nat, reply : Replies \cup {None}]

Retries == [req : Nat, model : Models]

Loader == [selected : Difficulties, shown : Boards \cup {None}, ref : Difficulties,
           error : BOOLEAN, loading : BOOLEAN, fetch : Boards \cup {None},
           key : Boards \cup {None}, failed : BOOLEAN]

ClassicScreenAssumption ==
  /\ \A b \in Boards : Answer[b] \in Pool[b]
  /\ First \in Boards
  /\ None \notin Boards /\ None \notin Models /\ None \notin Nat
  /\ None \notin Replies \cup Picks \cup Retries
  /\ MaxSwitches \in Nat /\ MaxRequests \in Nat /\ MaxReloads \in Nat

VARIABLES
  category, difficulty,      \* the properties of ClassicGame
  preference,                \* the difficulty in localStorage
  loader,                    \* the state of useClassicGameLoader
  cache,                     \* its boards that were loaded
  games,                     \* the progress: guesses and status of each board
  pick, retry,               \* the guess being sent, the one offered again
  failures,                  \* the model of the last failed guess, and how often
  hydrated, histories,       \* boards whose history was asked for, and from when
  record,                    \* the server: the guesses of the player
  switches, requests, reloads, blanked, raced

page == <<category, difficulty, preference, loader, cache>>
board == <<games, pick, retry, failures>>
asked == <<hydrated, histories>>
vars == <<page, board, asked, record, switches, requests, reloads, blanked, raced>>

-----------------------------------------------------------------------------
(* use-classic-game-loader.ts.  shown is the challenge, with the           *)
(* difficulty it was loaded for; fetch is the request that is not aborted. *)

(* The load effect. *)
Load(l, c) ==
  LET b == <<c, l.selected>>
      l1 == [l EXCEPT !.key = b, !.failed = @ /\ l.key = b, !.error = FALSE]
  IN  IF b \in cache
        THEN [l1 EXCEPT !.shown = b, !.ref = l.selected, !.loading = FALSE, !.fetch = None]
        ELSE [l1 EXCEPT !.fetch = b, !.loading = TRUE]

(* The route effect; it also sets the selection, which Load does not see. *)
Route(l) == [l EXCEPT !.shown = None, !.error = FALSE]

(* The loader of a page that was just opened. *)
Fresh(c, d) ==
  [selected |-> d, shown |-> None, ref |-> d, error |-> FALSE, loading |-> TRUE,
   fetch |-> <<c, d>>, key |-> <<c, d>>, failed |-> FALSE]

(* Both effects when ClassicGame is given c and d: the load effect runs    *)
(* for another category, with the old selection, and for another selection.*)
Rendered(l, c, d) ==
  LET new == <<c, d>> # <<category, difficulty>>
      l1 == IF new THEN Route(l) ELSE l
      l2 == IF c # category THEN Load(l1, c) ELSE l1
  IN  IF new /\ d # l.selected THEN Load([l2 EXCEPT !.selected = d], c) ELSE l2

(* The history of a board is asked for when it is first shown. *)
AskHistory ==
  LET b == loader'.shown
  IN  IF b = None \/ b \in hydrated
        THEN UNCHANGED asked
        ELSE /\ hydrated' = hydrated \cup {b}
             /\ histories' = [histories EXCEPT ![b] = Len(record[b])]

StillBlank == blanked' = (blanked /\ loader'.shown = None)

(* A link of the category navigation, the current one's included, or an    *)
(* answer about the session: ClassicPage is rendered, with the difficulty  *)
(* in localStorage.                                                        *)
Render(c) ==
  /\ switches < MaxSwitches
  /\ <<c, preference>> # <<category, difficulty>>
  /\ switches' = switches + 1
  /\ category' = c /\ difficulty' = preference
  /\ loader' = Rendered(loader, c, preference)
  /\ blanked' = (c = category /\ preference = loader.selected /\ loader.fetch = None)
  /\ AskHistory
  /\ UNCHANGED <<preference, cache, board, record, requests, reloads, raced>>

(* selectDifficulty; the buttons are disabled while a board is loaded. *)
SelectDifficulty(d) ==
  /\ switches < MaxSwitches /\ ~loader.loading /\ d # loader.selected
  /\ switches' = switches + 1
  /\ preference' = d
  /\ loader' = Load([loader EXCEPT !.selected = d], category)
  /\ AskHistory /\ StillBlank
  /\ UNCHANGED <<category, difficulty, cache, board, record, requests, reloads, raced>>

LoadAnswer ==
  /\ loader.fetch # None
  /\ cache' = cache \cup {loader.fetch}
  /\ loader' = [loader EXCEPT !.shown = loader.fetch, !.ref = loader.selected, !.failed = FALSE,
                              !.fetch = None, !.loading = FALSE]
  /\ AskHistory /\ StillBlank
  /\ UNCHANGED <<category, difficulty, preference, board, record, switches, requests, reloads,
                 raced>>

(* MUTANT: the selection stays at the difficulty that could not be loaded. *)
GivenUp_Keep(l) == [l EXCEPT !.fetch = None, !.loading = FALSE, !.error = TRUE]

(* The selection goes back to the difficulty the loader had before; when   *)
(* that is another one its load effect forgets the error.                  *)
GivenUp(l) ==
  LET back == [l EXCEPT !.fetch = None, !.loading = FALSE, !.error = TRUE, !.selected = l.ref]
  IN  IF l.selected = l.ref THEN back ELSE Load(back, category)

(* The first failure of a board, when the API is unavailable, is tried     *)
(* again.                                                                  *)
LoadFails ==
  /\ loader.fetch # None
  /\ \/ ~loader.failed /\ loader' = [loader EXCEPT !.failed = TRUE]
     \/ loader' = GivenUp(loader)
  /\ AskHistory /\ StillBlank
  /\ UNCHANGED <<category, difficulty, preference, cache, board, record, switches, requests,
                 reloads, raced>>

(* "Try again", when no board is shown. *)
LoadAgain ==
  /\ loader.shown = None /\ loader.error /\ switches < MaxSwitches
  /\ switches' = switches + 1
  /\ loader' = Load(loader, category)
  /\ AskHistory /\ StillBlank
  /\ UNCHANGED <<category, difficulty, preference, cache, board, record, requests, reloads, raced>>

-----------------------------------------------------------------------------
(* ClassicGame.tsx *)

ModelsOf(guesses) == {guesses[i].model : i \in DOMAIN guesses}

RequestsOf(guesses) == {guesses[i].req : i \in DOMAIN guesses}

Correct(guesses) == \E i \in DOMAIN guesses : guesses[i].ok

(* The models the search does not offer. *)
Guessed ==
  ModelsOf(games[loader.shown].guesses)
    \cup (IF pick = None THEN {} ELSE {pick.model})
    \cup (IF retry = None THEN {} ELSE {retry.model})

(* process_guess_once for one player: what it answers, or None.  A stored  *)
(* guess is looked for by its request first, then by its model.            *)
Served(b, req, m, num) ==
  LET reused == \E c \in Boards : req \in RequestsOf(record[c])
      same == \E i \in DOMAIN record[b] : record[b][i].req = req /\ record[b][i].model = m
      next == ~Correct(record[b]) /\ m \in Pool[b] /\ num = Len(record[b]) + 1
  IN  IF IF reused THEN same ELSE m \in ModelsOf(record[b]) \/ next
        THEN [ok |-> m = Answer[b]] ELSE None

(* The guess is recorded when it is accepted and was not stored before. *)
Recorded(b, req, m, num) ==
  IF Served(b, req, m, num) # None /\ m \notin ModelsOf(record[b])
    THEN [record EXCEPT ![b] = Append(@, [req |-> req, model |-> m, num |-> num,
                                          ok |-> m = Answer[b]])]
    ELSE record

(* pick, up to its await; the answer may be lost on either way. *)
Send(m, req) ==
  LET b == loader.shown
      num == Len(games[b].guesses) + 1
  IN  /\ pick = None /\ ~games[b].solved
      /\ retry' = None
      /\ loader' = [loader EXCEPT !.error = FALSE]
      /\ \E out \in {"answered", "unanswered", "unsent"} :
           /\ record' = IF out = "unsent" THEN record ELSE Recorded(b, req, m, num)
           /\ pick' = [board |-> b, req |-> req, model |-> m, num |-> num,
                       reply |-> IF out = "answered" THEN Served(b, req, m, num) ELSE None]
      /\ UNCHANGED <<category, difficulty, preference, cache, games, failures, asked, switches,
                     reloads, blanked, raced>>

(* A model is chosen in the search, which is disabled while a guess is     *)
(* sent or a board loaded.                                                 *)
Pick(m) ==
  /\ loader.shown # None /\ ~loader.loading
  /\ m \in Pool[loader.shown] \ Guessed
  /\ requests < MaxRequests
  /\ requests' = requests + 1
  /\ Send(m, requests + 1)

(* "Try again", when a guess has failed twice: the same request. *)
PickAgain ==
  /\ loader.shown # None /\ loader.error /\ retry # None
  /\ Send(retry.model, retry.req)
  /\ UNCHANGED requests

(* MUTANT: the answer goes to the board that is shown when it arrives. *)
AnsweredBoard_Shown == IF loader.shown = None THEN pick.board ELSE loader.shown

AnsweredBoard == pick.board

PickAnswer ==
  LET b == AnsweredBoard
      entry == [req |-> pick.req, model |-> pick.model, num |-> pick.num, ok |-> pick.reply.ok]
  IN  /\ pick # None /\ pick.reply # None
      /\ games' = [games EXCEPT ![b] = [guesses |-> Append(@.guesses, entry),
                                        solved |-> entry.ok,
                                        won |-> IF entry.ok THEN @.won + 1 ELSE @.won]]
      /\ pick' = None
      /\ failures' = [model |-> None, count |-> 0]
      /\ raced' = (raced \/ entry.req \notin RequestsOf(record[b]))
      /\ UNCHANGED <<page, retry, asked, record, switches, requests, reloads, blanked>>

(* The second failure in a row of a model offers to send it again.  More   *)
(* failures are counted as two.                                            *)
PickFails ==
  LET again == failures.model = pick.model
  IN  /\ pick # None /\ pick.reply = None
      /\ pick' = None
      /\ failures' = [model |-> pick.model, count |-> IF again THEN 2 ELSE 1]
      /\ IF again
           THEN /\ retry' = [req |-> pick.req, model |-> pick.model]
                /\ loader' = [loader EXCEPT !.error = TRUE]
           ELSE UNCHANGED <<retry, loader>>
      /\ UNCHANGED <<category, difficulty, preference, cache, games, asked, record, switches,
                     requests, reloads, blanked, raced>>

(* The guesses of s at the positions kept, sorted by their numbers: the     *)
(* sequence there is, as equals stay in their order (Array.prototype.sort).*)
ByNumber(s, kept) ==
  LET Before(i, j) == s[i].num < s[j].num \/ (s[i].num = s[j].num /\ i < j)
  IN  {[k \in DOMAIN p |-> s[p[k]]] :
         p \in {q \in Bijection(1..Cardinality(kept), kept) :
                  \A k \in DOMAIN q : k > 1 => Before(q[k - 1], q[k])}}

(* MUTANT: what the browser has already is restored again. *)
Restored_All(history, guesses) == DOMAIN history

(* Where a history has guesses that the browser has not. *)
Restored(history, guesses) ==
  {i \in DOMAIN history : history[i].req \notin RequestsOf(guesses)}

(* The server read the history at some moment since it was asked for. *)
HistoryAnswer(b) ==
  /\ histories[b] # None
  /\ \E n \in histories[b]..Len(record[b]) :
       LET old == games[b].guesses
           history == SubSeq(record[b], 1, n)
           new == Restored(history, old)
           kept == DOMAIN old \cup {Len(old) + i : i \in new}
           waiting == (IF pick = None THEN {} ELSE {pick.model})
                        \cup (IF retry = None THEN {} ELSE {retry.model})
       IN  /\ \/ new = {} /\ games' = games
              \/ /\ new # {}
                 /\ \E all \in ByNumber(old \o history, kept) :
                      games' = [games EXCEPT ![b] = [@ EXCEPT !.guesses = all,
                                                              !.solved = Correct(all)]]
           /\ raced' = (raced \/ \E i \in new : history[i].model \in waiting)
  /\ histories' = [histories EXCEPT ![b] = None]
  /\ UNCHANGED <<page, pick, retry, failures, hydrated, record, switches, requests, reloads,
                 blanked>>

(* A history that cannot be read is not asked for again. *)
HistoryFails(b) ==
  /\ histories[b] # None
  /\ histories' = [histories EXCEPT ![b] = None]
  /\ UNCHANGED <<page, board, hydrated, record, switches, requests, reloads, blanked, raced>>

(* The player's account guesses on another device. *)
Elsewhere(b, m) ==
  /\ requests < MaxRequests
  /\ requests' = requests + 1
  /\ Recorded(b, requests', m, Len(record[b]) + 1) # record
  /\ record' = Recorded(b, requests', m, Len(record[b]) + 1)
  /\ UNCHANGED <<page, board, asked, switches, reloads, blanked, raced>>

NothingAsked == hydrated' = {} /\ histories' = [b \in Boards |-> None]

(* The page is loaded again: the games and the preference are kept. *)
Reload ==
  /\ reloads < MaxReloads
  /\ reloads' = reloads + 1
  /\ difficulty' = preference /\ cache' = {}
  /\ loader' = Fresh(category, preference)
  /\ pick' = None /\ retry' = None /\ failures' = [model |-> None, count |-> 0]
  /\ NothingAsked
  /\ blanked' = FALSE
  /\ UNCHANGED <<category, preference, games, record, switches, requests, raced>>

Init ==
  /\ category = First[1] /\ difficulty = First[2]
  /\ preference = difficulty /\ cache = {}
  /\ loader = Fresh(category, difficulty)
  /\ games = [b \in Boards |-> [guesses |-> <<>>, solved |-> FALSE, won |-> 0]]
  /\ pick = None /\ retry = None /\ failures = [model |-> None, count |-> 0]
  /\ hydrated = {} /\ histories = [b \in Boards |-> None]
  /\ record = [b \in Boards |-> <<>>]
  /\ switches = 0 /\ requests = 0 /\ reloads = 0 /\ blanked = FALSE /\ raced = FALSE

Next ==
  \/ \E c \in Categories : Render(c)
  \/ \E d \in Difficulties : SelectDifficulty(d)
  \/ LoadAnswer \/ LoadFails \/ LoadAgain
  \/ \E m \in Models : Pick(m)
  \/ PickAgain \/ PickAnswer \/ PickFails
  \/ \E b \in Boards : HistoryAnswer(b) \/ HistoryFails(b)
  \/ \E b \in Boards : \E m \in Models : Elsewhere(b, m)
  \/ Reload

Spec == Init /\ [][Next]_vars
-----------------------------------------------------------------------------
(* Properties. *)

TypeOK ==
  /\ category \in Categories /\ difficulty \in Difficulties /\ preference \in Difficulties
  /\ loader \in Loader /\ cache \subseteq Boards
  /\ loader.loading <=> loader.fetch # None
  /\ games \in [Boards -> Game] /\ record \in [Boards -> Seq(Entry)]
  /\ pick \in Picks \cup {None} /\ retry \in Retries \cup {None}
  /\ failures \in [model : Models \cup {None}, count : 0..2]
  /\ retry # None => failures = [model |-> retry.model, count |-> 2]
  /\ hydrated \subseteq Boards /\ histories \in [Boards -> Nat \cup {None}]
  /\ switches \in Nat /\ requests \in Nat /\ reloads \in Nat
  /\ blanked \in BOOLEAN /\ raced \in BOOLEAN

(* When nothing is being loaded the page shows the selected board of its   *)
(* category, or that it cannot be loaded; only a page rendered again with  *)
(* the difficulty it has already loaded shows nothing.                     *)
SettledShowsSelected ==
  loader.fetch = None =>
    \/ loader.shown = <<category, loader.selected>>
    \/ loader.shown = None /\ (loader.error \/ blanked)

(* Each guess of each board is one the server recorded for that board,     *)
(* marked as the server marked it, whichever board was shown when its      *)
(* answer arrived and however often it was sent.                           *)
BoardBacked ==
  \A b \in Boards : \A i \in DOMAIN games[b].guesses :
    LET g == games[b].guesses[i]
    IN  \E j \in DOMAIN record[b] : record[b][j].model = g.model /\ record[b][j].ok = g.ok

(* A board has a model once and is solved exactly when its answer is       *)
(* among the guesses, and its victory counts once.  A history that meets a *)
(* guess still being sent, or stored under another request, may repeat it  *)
(* (raced); even then a board is only solved by its answer.                *)
GuessShownOnce ==
  \A b \in Boards :
    LET guesses == games[b].guesses
    IN  /\ games[b].won <= 1
        /\ games[b].solved => Correct(guesses)
        /\ raced \/ /\ \A i, j \in DOMAIN guesses : guesses[i].model = guesses[j].model => i = j
                    /\ Correct(guesses) => games[b].solved
=============================================================================
