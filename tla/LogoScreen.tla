----------------------------- MODULE LogoScreen -----------------------------
(***************************************************************************)
(* The Logo page (use-logo-game.ts, LogoGame.tsx): its game, the history   *)
(* it reads before it shows the board, the guess being sent, and the       *)
(* history it reads again when the server refuses a guess.                 *)
(*                                                                         *)
(* One day, one player, who may also guess elsewhere.  The search, the     *)
(* image, the clues and the completion dialog are left out.  The server    *)
(* handles a guess when it is sent, and reads a history or the player's    *)
(* progress at some moment before its answer.                              *)
(*                                                                         *)
(* stale is a history variable: since the page last read a history, some-  *)
(* thing happened that it was not told of.                                 *)
(***************************************************************************)
EXTENDS Integers, Sequences

CONSTANTS Models, Answer, None,
  MaxElsewhere, MaxLoads, MaxReloads   \* the bounds of this instance

(* A guess being sent, or the history that restores the board. *)
Calls ==
  [model : Models, from : Nat, is : {"lost", "accepted", "refused", "restoring"}]

Errors == {"DUPLICATE_GUESS", "CHALLENGE_COMPLETED", "STALE_GUESS_STATE"}

LogoScreenAssumption ==
  /\ Answer \in Models /\ None \notin Models \cup Calls \cup Errors
  /\ {MaxElsewhere, MaxLoads, MaxReloads} \subseteq Nat

VARIABLES
  game,         \* whether a game is shown, and its progress.solved
  guesses,
  load,         \* the load effect: what it waits for, and since how many of the record
  error, hydrated,
  call,         \* the guess being sent, or the history that restores the board
  record,       \* the server: the player's guesses
  elsewhere, loads, reloads, stale

vars == <<game, guesses, load, error, hydrated, call, record, elsewhere, loads, reloads, stale>>

HasCorrect(gs) == \E i \in DOMAIN gs : gs[i] = Answer
Some(n) == SubSeq(record, 1, n)
Since(n) == n..Len(record)

-----------------------------------------------------------------------------
(* process_guess_once of repository/logo.rs, for one player: the error or  *)
(* None.                                                                   *)
Refusal(m, num) ==
  IF \E i \in DOMAIN record : record[i] = m THEN "DUPLICATE_GUESS"
  ELSE IF HasCorrect(record) THEN "CHALLENGE_COMPLETED"
  ELSE IF num # Len(record) + 1 THEN "STALE_GUESS_STATE"
  ELSE None

(* The load effect: the answer of the load it replaces is dropped. *)
StartLoad ==
  /\ loads < MaxLoads /\ loads' = loads + 1
  /\ load' = [waits |-> "game", from |-> Len(record)]
  /\ error' = FALSE
  /\ UNCHANGED <<game, guesses, hydrated, call, record, elsewhere, reloads, stale>>

(* The player id of the browser changes while the page is open. *)
PlayerChanges == StartLoad

(* "Try again" of the error that is shown. *)
TryAgain == error /\ StartLoad

(* The game's answer: the history is read next, unless it was before. *)
GameAnswer ==
  /\ load # None /\ load.waits = "game"
  /\ \E n \in Since(load.from) : game' = [solved |-> HasCorrect(Some(n))]
  /\ load' = IF hydrated THEN None ELSE [waits |-> "history", from |-> Len(record)]
  /\ UNCHANGED <<guesses, error, hydrated, call, record, elsewhere, loads, reloads, stale>>

(* A history that was read shows n guesses. *)
ShowHistory(n) ==
  /\ guesses' = Some(n)
  /\ game' = [solved |-> HasCorrect(Some(n))]

LoadHistory ==
  /\ load # None /\ load.waits = "history"
  /\ \E n \in Since(load.from) :
       /\ ShowHistory(n)
       /\ stale' = (n # Len(record) \/ call # None)
  /\ load' = None /\ hydrated' = TRUE
  /\ UNCHANGED <<error, call, record, elsewhere, loads, reloads>>

LoadFails ==
  /\ load # None
  /\ load' = None /\ error' = TRUE
  /\ UNCHANGED <<game, guesses, hydrated, call, record, elsewhere, loads, reloads, stale>>

(* choose, up to its first await; the guess or its answer may be lost. *)
Choose(m) ==
  LET refusal == Refusal(m, Len(guesses) + 1)
      sent == refusal = None
  IN  /\ game # None /\ load = None /\ call = None /\ ~game.solved
      /\ \A i \in DOMAIN guesses : guesses[i] # m
      /\ \E lost \in {"nothing", "answer", "guess"} :
           /\ record' = IF sent /\ lost # "guess" THEN Append(record, m) ELSE record
           /\ call' = [model |-> m, from |-> Len(record),
                       is |-> IF lost # "nothing" THEN "lost"
                              ELSE IF sent THEN "accepted" ELSE "refused"]
           /\ stale' = (stale \/ (sent /\ lost = "answer"))
      /\ error' = FALSE
      /\ UNCHANGED <<game, guesses, load, hydrated, elsewhere, loads, reloads>>

ChooseAnswer ==
  /\ call # None /\ call.is = "accepted"
  /\ guesses' = Append(guesses, call.model)
  /\ game' = [solved |-> call.model = Answer]
  /\ call' = None
  /\ UNCHANGED <<load, error, hydrated, record, elsewhere, loads, reloads, stale>>

(* A refused guess reads the history, which restores the board or fails. *)
ChooseRefused ==
  /\ call # None /\ call.is = "refused"
  /\ call' = [call EXCEPT !.is = "restoring", !.from = Len(record)]
  /\ UNCHANGED <<game, guesses, load, error, hydrated, record, elsewhere, loads, reloads, stale>>

(* MUTANT: the progress is restored, the guesses are not. *)
Restored_Progress ==
  /\ call # None /\ call.is = "restoring"
  /\ \E n \in Since(call.from) :
       /\ game' = [solved |-> HasCorrect(Some(n))]
       /\ stale' = (n # Len(record) \/ load # None)
  /\ call' = None
  /\ UNCHANGED <<guesses, load, error, hydrated, record, elsewhere, loads, reloads>>

Restored ==
  /\ call # None /\ call.is = "restoring"
  /\ \E n \in Since(call.from) : ShowHistory(n) /\ stale' = (n # Len(record) \/ load # None)
  /\ call' = None
  /\ UNCHANGED <<load, error, hydrated, record, elsewhere, loads, reloads>>

(* The guess's answer or the history is lost: the page says so. *)
ChooseFails ==
  /\ call # None /\ call.is \in {"lost", "restoring"}
  /\ call' = None
  /\ UNCHANGED <<game, guesses, load, error, hydrated, record, elsewhere, loads, reloads, stale>>

(* The player guesses in another tab or on another device. *)
Elsewhere(m) ==
  /\ elsewhere < MaxElsewhere /\ elsewhere' = elsewhere + 1
  /\ Refusal(m, Len(record) + 1) = None
  /\ record' = Append(record, m)
  /\ stale' = TRUE
  /\ UNCHANGED <<game, guesses, load, error, hydrated, call, loads, reloads>>

Reload ==
  /\ reloads < MaxReloads /\ reloads' = reloads + 1
  /\ game' = None /\ guesses' = <<>> /\ load' = [waits |-> "game", from |-> Len(record)]
  /\ error' = FALSE /\ hydrated' = FALSE /\ call' = None /\ stale' = TRUE
  /\ UNCHANGED <<record, elsewhere, loads>>

Init ==
  /\ game = None /\ guesses = <<>> /\ load = [waits |-> "game", from |-> 0]
  /\ error = FALSE /\ hydrated = FALSE /\ call = None /\ stale = TRUE
  /\ record = <<>> /\ elsewhere = 0 /\ loads = 0 /\ reloads = 0

Next ==
  \/ PlayerChanges \/ TryAgain \/ GameAnswer \/ LoadHistory \/ LoadFails
  \/ \E m \in Models : Choose(m) \/ Elsewhere(m)
  \/ ChooseAnswer \/ ChooseRefused \/ Restored \/ ChooseFails
  \/ Reload

Spec == Init /\ [][Next]_vars
-----------------------------------------------------------------------------
(* Properties. *)

TypeOK ==
  /\ guesses \in Seq(Models) /\ record \in Seq(Models)
  /\ game \in [solved : BOOLEAN] \cup {None}
  /\ hydrated => game \in [solved : BOOLEAN]
  /\ error \in BOOLEAN /\ hydrated \in BOOLEAN /\ stale \in BOOLEAN

(* A page that was told of everything since its last history shows the     *)
(* server's guesses, in their order, and whether the day is solved: a      *)
(* refused guess restores a board that had missed some.                    *)
BoardIsServers ==
  ~stale /\ call = None /\ load = None =>
    /\ guesses = record
    /\ game.solved = HasCorrect(record)
=============================================================================
