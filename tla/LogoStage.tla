----------------------------- MODULE LogoStage -----------------------------
(***************************************************************************)
(* What the Logo page shows of the progress its hook has (LogoGame.tsx,    *)
(* LogoClues.tsx, use-logo-clue-views.ts, LogoShareButton.tsx): the image, *)
(* the clues, those the player has opened, and the dialog of a solved day. *)
(*                                                                         *)
(* The progress itself, and the answers it comes from, are LogoScreen's:   *)
(* here it is any progress the page may be given, at any time.  A scope is *)
(* an account or a browser's player id, with the challenge.                *)
(*                                                                         *)
(* seen is a history variable: the clues opened under each scope.          *)
(***************************************************************************)
EXTENDS Integers, Sequences, FiniteSets

CONSTANTS
  After,               \* the wrong guesses each clue needs
  MaxRevision,         \* MAX_REVEAL_REVISION
  Scopes, None,
  MaxWrong, MaxScopes, MaxArrivals   \* the bounds of this instance

Progress == [wrong : 0..MaxWrong, solved : BOOLEAN]

(* progress_response of api/v1/logo.rs: the image is one of each revision, *)
(* and the whole one once the day is solved.                               *)
Whole == -1
Images == [src : {Whole} \cup 0..MaxRevision, solved : BOOLEAN, failed : BOOLEAN]

LogoStageAssumption ==
  /\ After \in Seq(Nat) /\ None \notin Scopes /\ None \notin 1..Len(After)
  /\ None \notin Progress \cup Images
  /\ MaxRevision \in Nat /\ MaxWrong \in Nat /\ {MaxScopes, MaxArrivals} \subseteq Nat

VARIABLES
  progress,     \* None while the page loads
  image,        \* ProgressiveImage: what is displayed, and a failure's text
  preload,      \* the image being fetched, or None
  scope, views, saved, stored,   \* useLogoClueViews, and its local storage
  selected,     \* the clue whose dialog is open
  timer, dialog, shared,
  changes, arrivals, seen

vars == <<progress, image, preload, scope, views, saved, stored, selected, timer, dialog,
          shared, changes, arrivals, seen>>

stage == <<progress, image, preload>>
clues == <<scope, views, saved, stored, selected, changes, seen>>
completion == <<timer, dialog, shared>>

-----------------------------------------------------------------------------
ImageUrl(p) == IF p.solved THEN Whole
               ELSE IF p.wrong < MaxRevision THEN p.wrong ELSE MaxRevision
Clues(p) == {i \in DOMAIN After : After[i] <= p.wrong}

(* readViews *)
ReadViews(kept, s) == IF kept # None /\ kept.scope = s THEN kept.indices ELSE {}
Indices == IF views.scope = scope THEN views.indices ELSE saved

(* Only the clues the progress has now are counted. *)
UsedClueCount == Cardinality(Indices \cap Clues(progress))

-----------------------------------------------------------------------------
(* The image.  A mounted one shows its progress at once. *)
Mounted(p) ==
  /\ image' = [src |-> ImageUrl(p), solved |-> p.solved, failed |-> FALSE]
  /\ preload' = None

(* MUTANT: the look of a solved day does not wait for its image. *)
ImageEffect_Early(p) ==
  IF ImageUrl(p) = image.src
  THEN image' = [image EXCEPT !.solved = p.solved] /\ preload' = None
  ELSE image' = [image EXCEPT !.solved = p.solved]
       /\ preload' = [src |-> ImageUrl(p), solved |-> p.solved, failed |-> FALSE]

(* The effect of ProgressiveImage: it drops the fetch it replaces, and     *)
(* shows the new image when that has come.                                 *)
ImageEffect(p) ==
  IF ImageUrl(p) = image.src
  THEN image' = [image EXCEPT !.solved = p.solved] /\ preload' = None
  ELSE /\ UNCHANGED image
       /\ preload' = [src |-> ImageUrl(p), solved |-> p.solved, failed |-> FALSE]

(* The page has another progress: of a guess, a history or a load.  The    *)
(* dialog of the guess that solves the day opens after its animation.      *)
Arrives(p, byGuess) ==
  /\ arrivals < MaxArrivals /\ arrivals' = arrivals + 1
  /\ p # progress /\ progress' = p
  /\ byGuess => progress # None /\ ~progress.solved
  /\ IF progress = None THEN Mounted(p)
     ELSE IF ImageUrl(p) = ImageUrl(progress) THEN UNCHANGED <<image, preload>>
     ELSE ImageEffect(p)
  /\ timer' = (timer \/ (byGuess /\ p.solved))
  /\ UNCHANGED <<clues, dialog, shared>>

(* The page loads again: the stage is taken down. *)
Loading ==
  /\ progress # None
  /\ progress' = None /\ image' = None /\ preload' = None /\ selected' = None
  /\ UNCHANGED <<scope, views, saved, stored, changes, seen, completion, arrivals>>

Fetching == preload # None /\ ~preload.failed

ImageLoads ==
  /\ Fetching
  /\ image' = [src |-> preload.src, solved |-> preload.solved, failed |-> FALSE]
  /\ preload' = None
  /\ UNCHANGED <<progress, clues, completion, arrivals>>

(* An image that fails is not fetched again before the progress changes. *)
ImageFails ==
  /\ Fetching
  /\ image' = [image EXCEPT !.failed = TRUE]
  /\ preload' = [preload EXCEPT !.failed = TRUE]
  /\ UNCHANGED <<progress, clues, completion, arrivals>>

(* onLoad and onError of the image displayed. *)
DisplayedLoads(loaded) ==
  /\ image # None
  /\ image' = [image EXCEPT !.failed = ~loaded]
  /\ UNCHANGED <<progress, preload, clues, completion, arrivals>>

-----------------------------------------------------------------------------
(* The clues *)

(* A clue is opened: markViewed keeps the views of one scope; without      *)
(* storage the page has them alone.                                        *)
MarkViewed(i) ==
  IF i \in Indices THEN UNCHANGED <<views, stored>>
  ELSE LET next == [scope |-> scope, indices |-> Indices \cup {i}]
       IN  views' = next /\ stored' \in {stored, next}

OpenClue(i) ==
  /\ progress # None /\ i \in Clues(progress)
  /\ selected' = i
  /\ MarkViewed(i)
  /\ seen' = [seen EXCEPT ![scope] = @ \cup {i}]
  /\ UNCHANGED <<stage, scope, saved, changes, completion, arrivals>>

CloseClue ==
  /\ selected # None /\ selected' = None
  /\ UNCHANGED <<stage, scope, views, saved, stored, changes, seen, completion, arrivals>>

(* MUTANT: the storage's views are anyone's. *)
ScopeChanges_Anyone(s) ==
  /\ changes < MaxScopes /\ changes' = changes + 1
  /\ s # scope /\ scope' = s
  /\ saved' = IF stored = None THEN {} ELSE stored.indices
  /\ selected' = None
  /\ UNCHANGED <<stage, views, stored, seen, completion, arrivals>>

(* The player signs in or out, or the browser has another player id. *)
ScopeChanges(s) ==
  /\ changes < MaxScopes /\ changes' = changes + 1
  /\ s # scope /\ scope' = s
  /\ saved' = ReadViews(stored, s)
  /\ selected' = None
  /\ UNCHANGED <<stage, views, stored, seen, completion, arrivals>>

-----------------------------------------------------------------------------
(* The dialog *)

TimerFires ==
  /\ timer /\ timer' = FALSE /\ dialog' = TRUE
  /\ UNCHANGED <<stage, clues, shared, arrivals>>

Solved == progress # None /\ progress.solved

ShowWinningGuess ==
  /\ Solved /\ ~dialog /\ dialog' = TRUE
  /\ UNCHANGED <<stage, clues, timer, shared, arrivals>>

CloseDialog ==
  /\ Solved /\ dialog /\ dialog' = FALSE
  /\ UNCHANGED <<stage, clues, timer, shared, arrivals>>

(* MUTANT: the clues of a later day's progress count too. *)
Share_All ==
  /\ Solved /\ dialog
  /\ shared' = [scope |-> scope, guesses |-> progress.wrong + 1, clue |-> Clues(progress) # {}]
  /\ UNCHANGED <<stage, clues, timer, dialog, arrivals>>

(* copy: the guesses, and whether a clue was used. *)
Share ==
  /\ Solved /\ dialog
  /\ shared' = [scope |-> scope, guesses |-> progress.wrong + 1, clue |-> UsedClueCount > 0]
  /\ UNCHANGED <<stage, clues, timer, dialog, arrivals>>

Init ==
  /\ progress = None /\ image = None /\ preload = None
  /\ scope \in Scopes /\ views = [scope |-> scope, indices |-> {}] /\ saved = {}
  /\ stored = None /\ selected = None
  /\ timer = FALSE /\ dialog = FALSE /\ shared = None
  /\ changes = 0 /\ arrivals = 0 /\ seen = [s \in Scopes |-> {}]

Next ==
  \/ \E p \in Progress, byGuess \in BOOLEAN : Arrives(p, byGuess)
  \/ Loading \/ ImageLoads \/ ImageFails
  \/ \E loaded \in BOOLEAN : DisplayedLoads(loaded)
  \/ \E i \in DOMAIN After : OpenClue(i)
  \/ CloseClue
  \/ \E s \in Scopes : ScopeChanges(s)
  \/ TimerFires \/ ShowWinningGuess \/ CloseDialog \/ Share

Spec == Init /\ [][Next]_vars
-----------------------------------------------------------------------------
(* Properties. *)

TypeOK ==
  /\ progress \in Progress \cup {None}
  /\ (image = None) = (progress = None)
  /\ scope \in Scopes /\ saved \subseteq DOMAIN After
  /\ selected \in DOMAIN After \cup {None}
  /\ timer \in BOOLEAN /\ dialog \in BOOLEAN

(* The image displayed is the progress's, or that one is being fetched or  *)
(* has failed; and the look of a solved day is the whole image's alone.    *)
ImageIsOfProgress ==
  progress # None =>
    /\ image.src = ImageUrl(progress) \/ (preload # None /\ preload.src = ImageUrl(progress))
    /\ image.solved = (image.src = Whole)

(* A clue shown as viewed, counted in the dialog or in the text a player   *)
(* shares was opened under the account or player id it is shown to, and    *)
(* a clue that is open counts.                                             *)
ViewsAreOfScope ==
  /\ Indices \subseteq seen[scope]
  /\ selected # None => selected \in Indices
  /\ shared # None /\ shared.clue => seen[shared.scope] # {}
=============================================================================
