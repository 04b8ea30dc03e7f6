--------------------------- MODULE TimelineScreen ---------------------------
(***************************************************************************)
(* The Timeline page of the browser (TimelineGame.tsx and its hook         *)
(* use-timeline-game.ts): the board a player arranges by dragging,         *)
(* clicking or the keyboard, the game it was loaded from, the copies kept  *)
(* in memory and in localStorage, and the calls in flight.                 *)
(*                                                                         *)
(* The server handles a call when it is sent; the answer comes later, and  *)
(* either may be lost.  A load can also be handled just before its answer. *)
(* A challenge is named by its difficulty (one day), the results 0 and 2   *)
(* are both "wrong", and times are left out.  The account's primary player *)
(* is the browser's: that an account which has another is served its own   *)
(* submissions, while the cache has those of before, is left out.          *)
(*                                                                         *)
(* overtaken and sent are history variables: whether an answer was ever    *)
(* applied to another board than the one it was asked for, and what each   *)
(* request id was sent with.                                               *)
(***************************************************************************)
EXTENDS Integers, FiniteSets

CONSTANTS
  Difficulties,  \* the difficulties there are
  Size,          \* positions of a challenge
  Anchor,        \* the cards shown in their places
  Movable,       \* the other cards
  Solution,      \* the right order
  Limit,         \* submissions of a challenge, None for any number
  Junk,          \* a text dropped on the page that is no card
  None,
  Earlier,       \* orders submitted before, from here or elsewhere
  MaxMoves, MaxSubmits, MaxShows   \* the bounds of this instance

Slots(d) == 1..Size[d]

Anchors(d) == DOMAIN Anchor[d]

Cards(d) == Movable[d] \cup {Anchor[d][p] : p \in Anchors(d)}

AllSlots == UNION {Slots(d) : d \in Difficulties}

AllCards == UNION {Cards(d) : d \in Difficulties}

VARIABLES
  account,     \* user and hardcoreUnlocked
  difficulty,
  game,        \* the payload on the page, None before the first
  board,       \* positions: the card, Junk or None of a slot
  marks,       \* placements, None for none
  accepted,    \* acceptedAttempts
  remaining,   \* attemptsRemaining
  solved, started, gaveUp,
  selected,    \* selectedModelId
  drag,        \* the card under the pointer
  busy, cooldown,
  pending,     \* pendingRequestId
  load,        \* the load whose controller is not aborted
  call,        \* the submission or surrender in flight
  start,       \* the start in flight; speedrunStartPromise
  reveal,      \* the load that follows a solve
  cache,       \* gameCache, by difficulty
  saved,       \* localStorage, by challenge
  server,      \* what is stored for this player, by challenge
  moves, shows, nextId, overtaken, sent

shown == <<game, board, marks, accepted, remaining, solved, started, gaveUp, selected>>
play == <<drag, busy, cooldown, pending>>
calls == <<load, call, start, reveal>>
vars == <<account, difficulty, shown, play, calls, cache, saved, server,
          moves, shows, nextId, overtaken, sent>>

-----------------------------------------------------------------------------
(* timeline-arrangement.ts *)

Tray == 0   \* null as a target, -1 as a position
Nowhere == -1

Position(b, c) ==
  IF \E p \in DOMAIN b : b[p] = c THEN CHOOSE p \in DOMAIN b : b[p] = c ELSE Tray

At(b, p) == IF p \in DOMAIN b THEN b[p] ELSE None

(* MUTANT: the displaced card stays where it was as well. *)
Moved_Copy(b, anchors, c, target) ==
  LET source == Position(b, c)
  IN  IF source \in anchors \/ target \in anchors \/ source = target THEN b
      ELSE IF target = Tray THEN [b EXCEPT ![source] = None]
      ELSE [p \in DOMAIN b \cup 1..target |-> IF p = target THEN c ELSE At(b, p)]

(* moveTimelineModel; a target beyond the board makes it longer. *)
Moved(b, anchors, c, target) ==
  LET source == Position(b, c)
  IN  IF source \in anchors \/ target \in anchors \/ source = target THEN b
      ELSE IF target = Tray THEN [b EXCEPT ![source] = None]
      ELSE [p \in DOMAIN b \cup 1..target |->
              IF p = target THEN c ELSE IF p = source THEN At(b, target) ELSE At(b, p)]

NoCardTwice(b) == \A p, q \in DOMAIN b : b[p] = b[q] /\ b[p] # None => p = q

AnchorsHold(d, b) == \A p \in Anchors(d) : b[p] = Anchor[d][p]

(* The anchors come with the slots, the other cards with movableModels. *)
Expected(g) == g.cards \cup {Anchor[g.ch][p] : p \in Anchors(g.ch)}

Initial(d) == [p \in Slots(d) |-> IF p \in Anchors(d) THEN Anchor[d][p] ELSE None]

Restore(g, b) ==
  IF /\ DOMAIN b = Slots(g.ch)
     /\ NoCardTwice(b)
     /\ {b[p] : p \in DOMAIN b} \subseteq Expected(g) \cup {None}
     /\ AnchorsHold(g.ch, b)
    THEN b ELSE None

Complete(b, expected) ==
  /\ NoCardTwice(b)
  /\ {b[p] : p \in DOMAIN b} = expected

(* What the server takes for an arrangement of a challenge. *)
ValidOrder(d, b) == DOMAIN b = Slots(d) /\ Complete(b, Cards(d)) /\ AnchorsHold(d, b)

Adjacent(p, direction, size, anchors) ==
  LET beyond == {q \in 1..size : (q - p) * direction > 0 /\ q \notin anchors}
  IN  IF beyond = {} THEN p
      ELSE CHOOSE q \in beyond : \A r \in beyond : (r - q) * direction >= 0

-----------------------------------------------------------------------------
(* Boards, marks, and what a copy and a submission keep of them. *)
Boards(d) == [Slots(d) -> AllCards \cup {Junk, None}]

Markings(d) == [Slots(d) -> {"right", "wrong", "none"}]

Copies(d) ==
  [board : Boards(d), marks : Markings(d) \cup {None}, accepted : Nat, solved : BOOLEAN]

Lasts(d) == [order : Boards(d), marks : Markings(d), num : Nat]

AllLasts == UNION {Lasts(d) : d \in Difficulties}

Payloads ==
  [ch : Difficulties, solved : BOOLEAN, remaining : Nat \cup {None}, started : BOOLEAN,
   gaveUp : BOOLEAN, last : AllLasts \cup {None},
   cards : SUBSET AllCards]

(* A board of some game: a late answer may put another game beside it. *)
AnyBoards == UNION {[1..n -> AllCards \cup {Junk, None}] : n \in AllSlots \cup {0}}

Codes == {"ACCEPT", "REPLAY", "REQUEST_ID_REUSED", "INVALID", "COMPLETED",
          "ATTEMPT_LIMIT_REACHED", "NOT_RUNNING", "NETWORK"}

Answers ==
  [ok : {FALSE}, code : Codes] \cup [ok : {TRUE}]
  \cup [ok : {TRUE}, marks : UNION {Markings(d) : d \in Difficulties}, left : Nat \cup {None}]

(* The submission or surrender in flight. *)
PlayerCalls ==
  [kind : {"submit"}, of : Payloads, order : AnyBoards, diff : Difficulties, num : Nat,
   shows : Nat, answer : Answers]
  \cup [kind : {"give up"}, of : Payloads, order : AnyBoards, diff : Difficulties,
        shows : Nat, answer : Answers]

(* Solutions are arrangements, and what was submitted before was accepted. *)
TimelineScreenAssumption ==
  /\ MaxShows \in Nat \ {0} /\ MaxSubmits \in Nat
  /\ "normal" \in Difficulties
  /\ Difficulties \subseteq {"normal", "challenge", "speedrun", "hardcore"}
  /\ Size \in [Difficulties -> Nat]
  /\ \A d \in Difficulties :
       /\ Anchors(d) \subseteq Slots(d)
       /\ \A p, q \in Anchors(d) : Anchor[d][p] = Anchor[d][q] => p = q
       /\ Solution[d] \in Boards(d)
       /\ \A o \in Earlier[d] : o \in Boards(d) /\ ValidOrder(d, o)
       /\ Limit[d] \in Nat \cup {None}
       /\ None \notin Boards(d) /\ None \notin Copies(d) /\ None \notin Lasts(d)
  /\ None \notin PlayerCalls
  /\ None \notin Payloads /\ None \notin Nat /\ None \notin AllCards /\ Junk \notin AllCards /\ Junk # None

-----------------------------------------------------------------------------
(* The server, as the page uses it (the module Timeline is about it). *)

Fresh == [num |-> 0, last |-> None, solved |-> FALSE, started |-> FALSE, gaveUp |-> FALSE,
          ids |-> {}]

Marking(d, b) == [p \in Slots(d) |-> IF b[p] = Solution[d][p] THEN "right" ELSE "wrong"]

(* One submission was stored before the page is opened. *)
After(d, order) ==
  [Fresh EXCEPT !.num = 1, !.solved = order = Solution[d], !.started = d = "speedrun",
                !.last = [order |-> order, marks |-> Marking(d, order), num |-> 1]]

Befores(d) == {Fresh} \cup {After(d, o) : o \in Earlier[d]}

Left(d, num) == IF Limit[d] = None THEN None ELSE IF num > Limit[d] THEN 0 ELSE Limit[d] - num

Payload(d, s) ==
  [ch |-> d, solved |-> s.solved, remaining |-> Left(d, s.num),
   started |-> s.started, gaveUp |-> s.gaveUp, last |-> s.last,
   cards |-> IF d = "speedrun" /\ ~s.started /\ ~s.solved THEN {} ELSE Movable[d]]

Verdict(d, id, b) ==
  IF [id |-> id, order |-> b] \in server[d].ids THEN "REPLAY"
  ELSE IF \E e \in Difficulties : \E r \in server[e].ids : r.id = id THEN "REQUEST_ID_REUSED"
  ELSE IF ~ValidOrder(d, b) THEN "INVALID"
  ELSE IF server[d].solved THEN "COMPLETED"
  ELSE IF Left(d, server[d].num) = 0 THEN "ATTEMPT_LIMIT_REACHED"
  ELSE IF d = "speedrun" /\ (~server[d].started \/ server[d].gaveUp) THEN "NOT_RUNNING"
  ELSE "ACCEPT"

Stored(d, id, b) ==
  IF Verdict(d, id, b) # "ACCEPT" THEN server[d]
  ELSE [server[d] EXCEPT !.num = @ + 1, !.solved = b = Solution[d],
                         !.ids = @ \cup {[id |-> id, order |-> b]},
                         !.last = [order |-> b, marks |-> Marking(d, b), num |-> server[d].num + 1]]

Answered(d, id, b) ==
  IF Verdict(d, id, b) \in {"ACCEPT", "REPLAY"}
    THEN [ok |-> TRUE, marks |-> Marking(d, b), left |-> Left(d, Stored(d, id, b).num)]
    ELSE [ok |-> FALSE, code |-> Verdict(d, id, b)]

NoAnswer == [ok |-> FALSE, code |-> "NETWORK"]

(* What becomes of a call: handled and answered, handled only, neither. *)
Outcomes == {"answered", "answer lost", "not sent"}

-----------------------------------------------------------------------------
(* use-timeline-game.ts *)

(* MUTANT: the server's arrangement is preferred as soon as there is one.  *)
UseSaved_Newer(g, copy) ==
  /\ ~g.solved /\ copy # None /\ Restore(g, copy.board) # None
  /\ copy.accepted > (IF g.last = None THEN 0 ELSE g.last.num)

UseSaved(g, copy) ==
  /\ ~g.solved /\ copy # None /\ Restore(g, copy.board) # None
  /\ copy.accepted >= (IF g.last = None THEN 0 ELSE g.last.num)

Larger(m, n) == IF m > n THEN m ELSE n

(* hydrateGame and the setters that follow it. *)
Show(g) ==
  LET copy == saved[g.ch]
      use == UseSaved(g, copy)
      order == IF g.last = None THEN None ELSE Restore(g, g.last.order)
  IN  /\ game' = g /\ shows' = shows + 1
      /\ board' = IF use THEN copy.board ELSE IF order # None THEN order ELSE Initial(g.ch)
      /\ marks' = IF use THEN copy.marks ELSE IF g.last = None THEN None ELSE g.last.marks
      /\ accepted' = Larger(IF copy = None THEN 0 ELSE copy.accepted,
                            IF g.last = None THEN 0 ELSE g.last.num)
      /\ remaining' = g.remaining
      /\ solved' = (g.solved \/ (use /\ copy.solved))
      /\ started' = g.started /\ gaveUp' = g.gaveUp
      /\ selected' = None

(* The saving effect. *)
Save ==
  saved' = IF game' # None /\ DOMAIN board' = Slots(game'.ch)
             THEN [saved EXCEPT ![game'.ch] =
                     [board |-> board', marks |-> marks', accepted |-> accepted',
                      solved |-> solved']]
             ELSE saved

Allowed(d, known) == IF d \in {"speedrun", "hardcore"} /\ ~known THEN "normal" ELSE d

(* The loading effect: the load before it is aborted. *)
LoadEffect(wanted, known, kept) ==
  LET d == Allowed(wanted, known)
  IN  /\ shows < MaxShows
      /\ difficulty' = d /\ account' = known /\ cache' = kept
      /\ IF kept[d] # None
           THEN Show(kept[d]) /\ load' = None
           ELSE load' = [ch |-> d, then |-> server[d]] /\ UNCHANGED <<shown, shows>>
      /\ Save
      /\ UNCHANGED <<play, call, start, reveal, server, moves, nextId, overtaken, sent>>

(* The switch is disabled while a call is busy or a game is loading. *)
SelectDifficulty(d) ==
  /\ d # difficulty /\ ~busy /\ load = None
  /\ d = "hardcore" => account
  /\ d = "speedrun" => account
  /\ LoadEffect(d, account, cache)

(* The account is known, or lost, after the page has been drawn. *)
AccountChanged == LoadEffect(difficulty, ~account, cache)

(* The countdown ends, or the player retries after an error. *)
LoadAgain == LoadEffect(difficulty, account, [cache EXCEPT ![difficulty] = None])

LoadAnswer ==
  /\ load # None
  /\ \E s \in {load.then, server[load.ch]} :
       /\ Show(Payload(load.ch, s))
       /\ cache' = [cache EXCEPT ![difficulty] = Payload(load.ch, s)]
  /\ load' = None
  /\ UNCHANGED <<account, difficulty, play, call, start, reveal, server, moves, nextId,
                 overtaken, sent>>
  /\ Save

LoadFails ==
  /\ load # None
  /\ load' = None
  /\ UNCHANGED <<account, difficulty, shown, play, call, start, reveal, cache, saved, server,
                 moves, shows, nextId, overtaken, sent>>

(* The page is left and opened again: what is in memory is gone. *)
Reopen ==
  /\ shows < MaxShows
  /\ \E d \in Difficulties : difficulty' = Allowed(d, account)
  /\ game' = None /\ board' = <<>> /\ marks' = None /\ accepted' = 0 /\ remaining' = None
  /\ solved' = FALSE /\ started' = FALSE /\ gaveUp' = FALSE /\ selected' = None
  /\ drag' = None /\ busy' = FALSE /\ cooldown' = FALSE /\ pending' = None
  /\ load' = [ch |-> difficulty', then |-> server[difficulty']]
  /\ call' = None /\ reveal' = None
  /\ start' = [promise |-> FALSE, asked |-> None]
  /\ cache' = [d \in Difficulties |-> None]
  /\ UNCHANGED <<account, saved, server, moves, shows, nextId, overtaken, sent>>

-----------------------------------------------------------------------------
(* Moving cards. *)

MarkAt(p) == IF marks # None /\ p \in DOMAIN marks THEN marks[p] ELSE "none"

Locked(p) == MarkAt(p) = "right"

Unfinished == difficulty = "speedrun" /\ gaveUp

Covered == difficulty = "speedrun" /\ ~started

(* MUTANT: a move leaves the id of a failed submission. *)
MoveModel_KeepId(c, target) ==
  LET next == Moved(board, Anchors(game.ch), c, target)
      source == Position(board, c)
  IN  IF solved \/ Unfinished \/ Locked(source) \/ Locked(target) \/ next = board
        THEN UNCHANGED <<board, marks, selected, pending>>
        ELSE /\ board' = next
             /\ marks' = IF marks = None THEN None
                         ELSE [p \in DOMAIN marks |->
                                 IF p \in {source, target} THEN "none" ELSE marks[p]]
             /\ selected' = None
             /\ UNCHANGED pending

(* moveModel *)
MoveModel(c, target) ==
  LET next == Moved(board, Anchors(game.ch), c, target)
      source == Position(board, c)
  IN  IF solved \/ Unfinished \/ Locked(source) \/ Locked(target) \/ next = board
        THEN UNCHANGED <<board, marks, selected, pending>>
        ELSE /\ board' = next
             /\ marks' = IF marks = None THEN None
                         ELSE [p \in DOMAIN marks |->
                                 IF p \in {source, target} THEN "none" ELSE marks[p]]
             /\ selected' = None
             /\ pending' = None

MayMove == moves < MaxMoves /\ game # None

Hand ==
  /\ moves' = moves + 1
  /\ UNCHANGED <<account, difficulty, game, accepted, remaining, solved, started, gaveUp,
                 busy, cooldown, calls, cache, server, shows, nextId, overtaken, sent>>
  /\ Save

(* Cards that are drawn as buttons: on the board, and those in the tray.   *)
OnBoard(c) == Position(board, c) \in Slots(game.ch) \ Anchors(game.ch) /\ c \in Expected(game)

InTray(c) == c \in game.cards /\ Position(board, c) = Tray /\ ~solved

Targets == Slots(game.ch) \cup {Tray}

(* pointerdown and pointerup in one step: what changes while a card is     *)
(* held is in the next three actions.                                      *)
Tap(c) ==
  /\ MayMove
  /\ OnBoard(c) => ~Covered
  /\ OnBoard(c) \/ InTray(c)
  /\ ~Unfinished
  /\ IF OnBoard(c) /\ selected \notin {None, c}
       THEN MoveModel(selected, Position(board, c))
       ELSE /\ selected' = IF OnBoard(c) /\ Locked(Position(board, c)) THEN selected
                           ELSE IF selected = c THEN None ELSE c
            /\ UNCHANGED <<board, marks, pending>>
  /\ UNCHANGED drag
  /\ Hand

TapEmpty(p) ==
  /\ MayMove
  /\ p \in Slots(game.ch) \ Anchors(game.ch) /\ At(board, p) \notin Expected(game)
  /\ selected # None
  /\ MoveModel(selected, p)
  /\ UNCHANGED drag
  /\ Hand

Key(c, direction) ==
  /\ MayMove
  /\ OnBoard(c) /\ ~Covered /\ ~Unfinished
  /\ LET p == Position(board, c)
     IN  MoveModel(c, Adjacent(p, direction, Cardinality(DOMAIN board), Anchors(game.ch)))
  /\ UNCHANGED drag
  /\ Hand

(* startPointerDrag *)
Grab(c) ==
  /\ MayMove
  /\ (OnBoard(c) /\ ~Covered) \/ InTray(c)
  /\ ~Unfinished /\ ~Locked(Position(board, c))
  /\ drag' = c
  /\ UNCHANGED <<account, difficulty, shown, busy, cooldown, pending, calls, cache, saved,
                 server, moves, shows, nextId, overtaken, sent>>

(* pointerup over a slot or the tray moves the card there; elsewhere, and  *)
(* at pointercancel, it goes back.  The animation that follows is left out.*)
Release(target) ==
  /\ MayMove
  /\ drag # None
  /\ IF target \in Targets THEN MoveModel(drag, target)
     ELSE UNCHANGED <<board, marks, selected, pending>>
  /\ drag' = None
  /\ Hand

(* A drop event: a card is not draggable that way, but a text is. *)
DropText(p) ==
  /\ MayMove
  /\ p \in Targets
  /\ MoveModel(Junk, p)
  /\ drag' = None
  /\ Hand

-----------------------------------------------------------------------------
(* Calls of the player. *)

CanSubmit ==
  /\ game # None /\ Complete(board, Expected(game))
  /\ ~busy /\ ~solved /\ ~Unfinished /\ remaining # 0
  /\ ~(difficulty = "speedrun" /\ cooldown)
  /\ ~Covered     \* startSpeedrun would be refused for such a game

Submit ==
  /\ CanSubmit /\ (pending = None => nextId < MaxSubmits)
  /\ \E out \in Outcomes :
       LET id == IF pending = None THEN nextId + 1 ELSE pending
           ch == game.ch
       IN  /\ pending' = id
           /\ nextId' = IF pending = None THEN id ELSE nextId
           /\ sent' = sent \cup {[id |-> id, ch |-> ch, order |-> board, shows |-> shows]}
           /\ server' = IF out = "not sent" THEN server
                        ELSE [server EXCEPT ![ch] = Stored(ch, id, board)]
           /\ call' = [kind |-> "submit", of |-> game, order |-> board, diff |-> difficulty,
                       num |-> accepted, shows |-> shows,
                       answer |-> IF out = "answered" THEN Answered(ch, id, board) ELSE NoAnswer]
  /\ busy' = TRUE
  /\ UNCHANGED <<account, difficulty, shown, drag, cooldown, load, start, reveal, cache, saved,
                 moves, shows, overtaken>>

(* The page is still as it was when the call in flight was made. *)
Current == board = call.order /\ shows = call.shows /\ call.of.ch = call.diff

(* MUTANT: one right card is enough. *)
Won_Some(result) == \E p \in DOMAIN result : result[p] = "right"

Won(result) == \A p \in DOMAIN result : result[p] = "right"

SubmitAnswer ==
  /\ call # None /\ call.kind = "submit" /\ call.answer.ok
  /\ LET won == Won(call.answer.marks)
     IN  /\ marks' = call.answer.marks
         /\ remaining' = call.answer.left
         /\ accepted' = accepted + 1
         /\ solved' = won
         /\ cooldown' = (cooldown \/ (~won /\ call.diff = "speedrun"))
         /\ cache' = [cache EXCEPT ![call.diff] =
              [call.of EXCEPT !.solved = won, !.remaining = call.answer.left,
                 !.last = [order |-> call.order, marks |-> call.answer.marks,
                           num |-> call.num + 1]]]
         /\ reveal' = IF won THEN [ch |-> call.of.ch, diff |-> call.diff, shows |-> shows]
                      ELSE reveal
  /\ game' = call.of
  /\ pending' = None /\ busy' = FALSE /\ call' = None
  /\ overtaken' = (overtaken \/ ~Current)
  /\ UNCHANGED <<account, difficulty, board, started, gaveUp, selected, drag, load, start,
                 server, moves, shows, nextId, sent>>
  /\ Save

CallFails ==
  /\ call # None /\ ~call.answer.ok
  /\ remaining' = IF call.kind = "submit" /\ call.answer.code = "ATTEMPT_LIMIT_REACHED"
                    THEN 0 ELSE remaining
  /\ busy' = FALSE /\ call' = None
  /\ UNCHANGED <<account, difficulty, game, board, marks, accepted, solved, started, gaveUp,
                 selected, drag, cooldown, pending, load, start, reveal, cache, saved, server,
                 moves, shows, nextId, overtaken, sent>>

CooldownEnds ==
  /\ cooldown
  /\ cooldown' = FALSE
  /\ UNCHANGED <<account, difficulty, shown, drag, busy, pending, calls, cache, saved, server,
                 moves, shows, nextId, overtaken, sent>>

(* The load that shows every date of a solved game. *)
RevealAnswer ==
  /\ reveal # None
  /\ cache' = [cache EXCEPT ![reveal.diff] = Payload(reveal.ch, server[reveal.ch])]
  /\ game' = Payload(reveal.ch, server[reveal.ch])
  /\ reveal' = None
  /\ overtaken' = (overtaken \/ shows # reveal.shows)
  /\ UNCHANGED <<account, difficulty, board, marks, accepted, remaining, solved, started, gaveUp,
                 selected, play, load, call, start, server, moves, shows, nextId, sent>>
  /\ Save

RevealFails ==
  /\ reveal # None
  /\ reveal' = None
  /\ UNCHANGED <<account, difficulty, shown, play, load, call, start, cache, saved, server,
                 moves, shows, nextId, overtaken, sent>>

(* startSpeedrun: one promise for as long as the page is open, unless it   *)
(* fails.                                                                  *)
StartRun ==
  /\ difficulty = "speedrun" /\ game # None /\ ~solved /\ ~started /\ ~gaveUp
  /\ ~start.promise
  /\ \E out \in Outcomes :
       /\ start' = [promise |-> TRUE,
                    asked |-> [ok |-> out = "answered" /\ game.ch = "speedrun", shows |-> shows]]
       /\ server' = IF out = "not sent" \/ game.ch # "speedrun" THEN server
                    ELSE [server EXCEPT !["speedrun"].started = TRUE]
  /\ UNCHANGED <<account, difficulty, shown, play, load, call, reveal, cache, saved, moves,
                 shows, nextId, overtaken, sent>>

StartAnswer ==
  /\ start.asked # None /\ start.asked.ok
  /\ cache' = IF cache["speedrun"] = None THEN cache
              ELSE [cache EXCEPT !["speedrun"].cards = Movable["speedrun"],
                                 !["speedrun"].started = TRUE]
  /\ game' = IF game = None THEN None
             ELSE [game EXCEPT !.cards = Movable["speedrun"], !.started = TRUE]
  /\ started' = TRUE
  /\ overtaken' = (overtaken \/ shows # start.asked.shows)
  /\ start' = [start EXCEPT !.asked = None]
  /\ UNCHANGED <<account, difficulty, board, marks, accepted, remaining, solved, gaveUp, selected,
                 play, load, call, reveal, server, moves, shows, nextId, sent>>
  /\ Save

StartFails ==
  /\ start.asked # None /\ ~start.asked.ok
  /\ start' = [promise |-> FALSE, asked |-> None]
  /\ UNCHANGED <<account, difficulty, shown, play, load, call, reveal, cache, saved, server,
                 moves, shows, nextId, overtaken, sent>>

(* giveUpSpeedrun, behind its dialog. *)
GiveUp ==
  /\ difficulty = "speedrun" /\ game # None /\ started /\ ~gaveUp /\ ~solved /\ ~busy
  /\ \E out \in Outcomes :
       LET fits == game.ch = "speedrun" /\ ~server["speedrun"].solved
                     /\ server["speedrun"].started
       IN  /\ server' = IF out # "not sent" /\ fits
                          THEN [server EXCEPT !["speedrun"].gaveUp = TRUE] ELSE server
           /\ call' = [kind |-> "give up", of |-> game, order |-> board, diff |-> difficulty,
                       shows |-> shows,
                       answer |-> IF out = "answered" /\ fits
                                    THEN [ok |-> TRUE] ELSE NoAnswer]
  /\ busy' = TRUE
  /\ UNCHANGED <<account, difficulty, shown, drag, cooldown, pending, load, start, reveal, cache,
                 saved, moves, shows, nextId, overtaken, sent>>

GiveUpAnswer ==
  /\ call # None /\ call.kind = "give up" /\ call.answer.ok
  /\ LET unfinished == [call.of EXCEPT !.gaveUp = TRUE]
     IN  game' = unfinished /\ cache' = [cache EXCEPT ![call.diff] = unfinished]
  /\ gaveUp' = TRUE /\ selected' = None
  /\ overtaken' = (overtaken \/ shows # call.shows)
  /\ busy' = FALSE /\ call' = None
  /\ UNCHANGED <<account, difficulty, board, marks, accepted, remaining, solved, started, drag,
                 cooldown, pending, load, start, reveal, server, moves, shows, nextId, sent>>
  /\ Save

-----------------------------------------------------------------------------
Init ==
  /\ account \in BOOLEAN
  /\ \E d \in Difficulties : difficulty = Allowed(d, account)
  /\ game = None /\ board = <<>> /\ marks = None /\ accepted = 0 /\ remaining = None
  /\ solved = FALSE /\ started = FALSE /\ gaveUp = FALSE /\ selected = None
  /\ drag = None /\ busy = FALSE /\ cooldown = FALSE /\ pending = None
  /\ server \in [Difficulties -> UNION {Befores(d) : d \in Difficulties}]
  /\ \A d \in Difficulties : server[d] \in Befores(d)
  /\ load = [ch |-> difficulty, then |-> server[difficulty]] /\ call = None /\ reveal = None
  /\ start = [promise |-> FALSE, asked |-> None]
  /\ cache = [d \in Difficulties |-> None]
  /\ saved = [d \in Difficulties |-> None]
  /\ moves = 0 /\ shows = 0 /\ nextId = 0 /\ overtaken = FALSE /\ sent = {}

Loading ==
  \/ \E d \in Difficulties : SelectDifficulty(d)
  \/ AccountChanged \/ LoadAgain \/ LoadAnswer \/ LoadFails \/ Reopen

Moving ==
  \/ \E c \in AllCards : Tap(c) \/ Grab(c) \/ Key(c, -1) \/ Key(c, 1)
  \/ \E p \in AllSlots \cup {Tray} : TapEmpty(p) \/ DropText(p) \/ Release(p)
  \/ Release(Nowhere)

Calling ==
  \/ Submit \/ SubmitAnswer \/ CallFails \/ CooldownEnds
  \/ RevealAnswer \/ RevealFails
  \/ StartRun \/ StartAnswer \/ StartFails \/ GiveUp \/ GiveUpAnswer

Next == Loading \/ Moving \/ Calling

Spec == Init /\ [][Next]_vars
-----------------------------------------------------------------------------
(* Properties. *)

OrNone(S) == S \cup {None}

(* Every field of the page holds a value of its kind. *)
TypeOK ==
  /\ account \in BOOLEAN /\ difficulty \in Difficulties
  /\ game = None \/ game.ch \in Difficulties
  /\ DOMAIN board \subseteq Nat
  /\ accepted \in Nat /\ shows \in 0..MaxShows /\ nextId \in 0..MaxSubmits
  /\ pending \in OrNone(1..nextId)
  /\ solved \in BOOLEAN /\ started \in BOOLEAN /\ gaveUp \in BOOLEAN
  /\ busy = (call # None)

(* A card is in one slot at most, whatever is dragged, typed or dropped    *)
(* and whichever game, saved copy or late answer is put on the page.       *)
BoardHoldsACardOnce == NoCardTwice(board)

(* Until an answer is applied to another page than the one it was asked    *)
(* from, a slot marked right holds the right card, and a board is shown    *)
(* as solved only if the server has it solved.                             *)
ShownResultIsServers ==
  ~overtaken /\ game # None =>
    /\ \A p \in DOMAIN board : Locked(p) => board[p] = Solution[game.ch][p]
    /\ solved => server[game.ch].solved

(* A failed submission that is sent again is the same submission, only     *)
(* while its game stays shown: until another is loaded or selected, a      *)
(* request id never carries two orders (the server refuses the second with *)
(* REQUEST_ID_REUSED), although the board may have been moved in between.  *)
(* After a switch the id is kept, and goes with the other game's order.    *)
RetryKeepsOrder ==
  \A r, s \in sent : r.id = s.id /\ r.shows = s.shows => r.order = s.order

(* The page opened again shows the arrangement and marks it showed before, *)
(* as long as every submission the server stored has been answered to this *)
(* page, and its cards are those the server shows.                         *)
ReopenKeepsBoard ==
  LET ch == game.ch
      g == Payload(ch, server[ch])
  IN  (/\ ~overtaken /\ game # None
       /\ {board[p] : p \in DOMAIN board} \subseteq Expected(g) \cup {None}
       /\ accepted >= server[ch].num /\ solved = server[ch].solved)
      => /\ IF UseSaved(g, saved[ch]) THEN saved[ch].board = board /\ saved[ch].marks = marks
            ELSE g.last # None /\ g.last.order = board /\ g.last.marks = marks
=============================================================================
