--------------------------- MODULE BrowserSession ---------------------------
(***************************************************************************)
(* The progress a browser keeps, and what signing in, reconciling, editing *)
(* preferences, playing, signing out, clearing and reloading do to it      *)
(* (local-progress-store.ts, cloud-progress.ts, ProgressSync.tsx,          *)
(* AuthProvider.tsx, ClassicGame.tsx and the profile page), with what the  *)
(* server makes of its calls.                                              *)
(*                                                                         *)
(* The server knows a browser by the player id in its cookie aaidle_player *)
(* and ignores the one in localStorage, which is left out.  It gives the   *)
(* cookie with the first answer to a call of a game or a reconciliation,   *)
(* and nothing in the browser takes it away: neither signing out nor       *)
(* clearing the data does.  That it expires after a year is left out.      *)
(*                                                                         *)
(* One tab at a time, whose storage accepts every write.  A game is a      *)
(* Classic game, numbered in the order in which games are started, and in  *)
(* a progress once it was played there; guesses, dates, statistics and the *)
(* list of games in progress a reconciliation sends are left out, and of   *)
(* the preferences hell and auto stand for those the account keeps and     *)
(* those it turns on.  Every account has Hardcore access.  The server      *)
(* handles a call when it is sent; its answer may be lost.  Answers other  *)
(* than those of the reconciliation, of entering the Inner Circle and of   *)
(* writing preferences are there before anything else happens.             *)
(*                                                                         *)
(* played, lostEdit, edits and players are history variables: under which  *)
(* account, if any, a game was played, whether an edit of the preferences  *)
(* was dropped, and how many edits and ids of players there were.          *)
(***************************************************************************)
EXTENDS Integers, Sequences, FiniteSets

CONSTANTS
  Users, Games,
  None,
  CacheLimit,            \* 64: games in the session's copy, and in an answer
  MaxPlayers, MaxEdits   \* the bounds of this instance

VARIABLES
  \* localStorage: the progress, the Inner Circle preferences and the last
  \* signed-in user; sessionStorage: the copy of an account's progress
  local, inner, known, copy,
  \* the store's module variables
  snapshot, storageMode, activeUserId,
  \* the page: the user, the synchronization and its calls
  user, cloudReady, lastSynced, timer, queue, reconciling, entering,
  \* the cookies: the session's user and the player; the server: the accounts'
  \* profiles, the links of players to users and the games it has recorded
  cookie, player, profile, link, record,
  players, edits, played, lostEdit

storage == <<local, inner, known, copy>>
store == <<snapshot, storageMode, activeUserId>>
sync == <<cloudReady, lastSynced, timer, queue, reconciling>>
server == <<cookie, player, profile, link, record>>
history == <<players, edits, played, lostEdit>>
vars == <<storage, store, user, sync, entering, server, history>>

Preferences == [unlocked : BOOLEAN, hell : BOOLEAN, auto : BOOLEAN, edit : Nat]

(* Those an account stores; edit numbers the change they come from. *)
SyncedPreferences == [hell : BOOLEAN, auto : BOOLEAN, edit : Nat]

Progress == [games : SUBSET Games, prefs : Preferences]

(* An account's primary player; that of a device elsewhere has the name of *)
(* the account.                                                            *)
Profiles == [player : Nat \cup Users, prefs : SyncedPreferences]

BrowserSessionAssumption ==
  /\ Games \subseteq Nat /\ Users \cap Nat = {}
  /\ "device" \notin Users
  /\ None \notin Users \cup Nat \cup {"device"}
  /\ None \notin Progress \cup Profiles \cup SyncedPreferences
  /\ CacheLimit \in Nat /\ MaxPlayers \in Nat /\ MaxEdits \in Nat

Synced(prefs) == [hell |-> prefs.hell, auto |-> prefs.auto, edit |-> prefs.edit]

SameSynced(p, q) == p.hell = q.hell /\ p.auto = q.auto

NoPreferences == [unlocked |-> FALSE, hell |-> FALSE, auto |-> FALSE, edit |-> 0]

-----------------------------------------------------------------------------
(* local-progress-store.ts and cloud-progress.ts *)

Either(p, q) ==
  [p EXCEPT !.unlocked = @ \/ q.unlocked, !.hell = @ \/ q.hell, !.auto = @ \/ q.auto]

(* saveInnerCirclePreferences *)
InnerAfter(prefs, before) == IF prefs.unlocked \/ prefs.auto THEN prefs ELSE before

FreshProgress == [games |-> {}, prefs |-> [inner EXCEPT !.hell = FALSE]]

(* readProgress, of the progress in the storage *)
ReadProgress(stored) ==
  LET progress == IF stored = None THEN FreshProgress ELSE stored
  IN  [progress EXCEPT !.prefs = Either(@, inner)]

(* readAuthenticatedProgress *)
CachedFor(u) == IF copy = None \/ copy.user # u THEN None ELSE copy.progress

(* saveAuthenticatedProgress *)
Newest(games) == {g \in games : Cardinality({h \in games : h > g}) < CacheLimit}

CopyOf(u, progress) == [user |-> u, progress |-> [progress EXCEPT !.games = Newest(@)]]

ServerGames(u, rec) == {g \in Games : rec[g] # None /\ rec[g].user = u}

(* The answers there may be, depending on the days the account's games are *)
(* of: those of the last week, as many as the limit.                       *)
ServerAnswers(u, prof, rec) ==
  {[games |-> games, prefs |-> prof[u].prefs] :
     games \in {gs \in SUBSET ServerGames(u, rec) : Cardinality(gs) <= CacheLimit}}

(* MUTANT: the answer replaces what is in the browser. *)
MergedWithServer_Replace(answer, current) ==
  [answer EXCEPT !.prefs = [unlocked |-> current.prefs.unlocked, hell |-> @.hell,
                            auto |-> @.auto, edit |-> @.edit]]

(* mergeServerProgress: all games, the account's preferences. *)
MergedWithServer(answer, current) ==
  [games |-> answer.games \cup current.games,
   prefs |-> [unlocked |-> current.prefs.unlocked, hell |-> answer.prefs.hell,
              auto |-> answer.prefs.auto, edit |-> answer.prefs.edit]]

(* startCloudProgress, with progress as the snapshot. *)
StartCloud(u, progress) ==
  LET cached == CachedFor(u)
      active == IF cached = None THEN progress
                ELSE [progress EXCEPT !.games = @ \cup cached.games]
  IN  /\ snapshot' = active
      /\ storageMode' = "cloud" /\ activeUserId' = u
      /\ known' = u /\ local' = None
      /\ copy' = CopyOf(u, active)
      /\ lastSynced' = Synced(active.prefs)
      /\ cloudReady' = TRUE

(* MUTANT: the copy of the session is not kept up to date. *)
Save_LocalOnly(progress) ==
  /\ inner' = InnerAfter(progress.prefs, inner)
  /\ IF storageMode = "cloud"
       THEN UNCHANGED <<copy, local>>
       ELSE local' = progress /\ UNCHANGED copy

Save(progress) ==
  /\ inner' = InnerAfter(progress.prefs, inner)
  /\ IF storageMode = "cloud"
       THEN copy' = CopyOf(activeUserId, progress) /\ UNCHANGED local
       ELSE local' = progress /\ UNCHANGED copy

(* MUTANT: an edit does not restart the timer of the one before. *)
PreferenceEffect_KeepTimer(next) ==
  IF ~cloudReady \/ SameSynced(next.prefs, snapshot.prefs) \/ timer # None
    THEN UNCHANGED <<timer, lostEdit>>
    ELSE /\ timer' = IF SameSynced(next.prefs, lastSynced) THEN None ELSE Synced(next.prefs)
         /\ lostEdit' = (lostEdit \/ (SameSynced(next.prefs, lastSynced) /\ queue # <<>>))

(* The preference effect of ProgressSync, when the snapshot becomes next.  *)
PreferenceEffect(next) ==
  IF ~cloudReady \/ SameSynced(next.prefs, snapshot.prefs)
    THEN UNCHANGED <<timer, lostEdit>>
    ELSE /\ timer' = IF SameSynced(next.prefs, lastSynced) THEN None ELSE Synced(next.prefs)
         /\ lostEdit' = (lostEdit \/ (SameSynced(next.prefs, lastSynced) /\ queue # <<>>))

(* updateProgress *)
UpdateProgress(progress) ==
  /\ snapshot' = progress
  /\ Save(progress)
  /\ PreferenceEffect(progress)
  /\ UNCHANGED <<storageMode, activeUserId, known>>

-----------------------------------------------------------------------------
(* The server: who calls, and what becomes of a player's games when the    *)
(* account reconciles (AccountProgress is about that).                     *)

(* What becomes of a call: handled and answered, handled only, neither. *)
Outcomes == {"answered", "answer lost", "not sent"}

(* anonymous_player_identity: whom the server takes the browser for *)
Caller == IF player = None THEN players + 1 ELSE player

(* An answer brings the cookie of a new player. *)
Identified(out) ==
  /\ players' = IF player = None /\ out # "not sent" THEN players + 1 ELSE players
  /\ players' <= MaxPlayers
  /\ player' = IF out = "answered" THEN Caller ELSE player

(* MUTANT: a player linked to another account is linked again. *)
Linked_Anyone(u, p) == TRUE

Linked(u, p) == link[p] \in {None, u}

(* What p played signed out becomes u's; all of p is u's primary's. *)
Claimed(u, p, primary) ==
  [g \in Games |->
     IF record[g] = None \/ record[g].player # p THEN record[g]
     ELSE [player |-> primary, user |-> IF record[g].user = None THEN u ELSE record[g].user]]

Linking(u, p, prefs) ==
  /\ link' = [link EXCEPT ![p] = u]
  /\ profile' = [profile EXCEPT ![u] =
                   IF @ = None THEN [player |-> p, prefs |-> Synced(prefs)]
                   ELSE [@ EXCEPT !.prefs.auto = profile[u].prefs.auto \/ prefs.auto]]

(* progress::synchronize *)
Synchronized(u, p, prefs) ==
  /\ Linking(u, p, prefs)
  /\ record' = Claimed(u, p, profile'[u].player)

(* canonical_player_id, and the game recorded for that player: an account  *)
(* without a profile gets one, of the cookie's player.                     *)
Recorded(g) ==
  LET Under(rec, p) == [rec EXCEPT ![g] = [player |-> p, user |-> cookie]]
  IN  \/ /\ cookie = None
         /\ record' = Under(record, player)
         /\ UNCHANGED <<profile, link>>
      \/ /\ cookie # None /\ profile[cookie] # None
         /\ record' = Under(record, profile[cookie].player)
         /\ UNCHANGED <<profile, link>>
      \/ /\ cookie # None /\ profile[cookie] = None /\ Linked(cookie, player)
         /\ Linking(cookie, player, NoPreferences)
         /\ record' = Under(Claimed(cookie, player, player), player)

-----------------------------------------------------------------------------
(* ProgressSync.tsx *)

NoAnswer == [ok |-> FALSE]

HasAnonymousState == snapshot.games # {} \/ snapshot.prefs.hell \/ snapshot.prefs.auto

(* The call of the reconciliation: the account's progress when the browser *)
(* has nothing to add and has seen the user, its own otherwise or when the *)
(* account has none.                                                       *)
Ask(u, out) ==
  LET asks == ~HasAnonymousState /\ known = u /\ profile[u] # None
      done == out # "not sent" /\ (asks \/ Linked(u, Caller))
  IN  /\ Identified(out)
      /\ IF done /\ ~asks THEN Synchronized(u, Caller, snapshot.prefs)
         ELSE UNCHANGED <<link, record, profile>>
      /\ reconciling' \in
           IF done /\ out = "answered"
             THEN {[ok |-> TRUE, progress |-> answer] :
                     answer \in ServerAnswers(u, profile', record')}
             ELSE {NoAnswer}

AskServer(u) ==
  /\ \E out \in Outcomes : Ask(u, out)
  /\ UNCHANGED <<storage, store, cloudReady, lastSynced>>

(* AuthenticatedProgressSync is mounted for u: its first effect. *)
Mount(u) ==
  /\ user' = u
  /\ timer' = None /\ queue' = <<>>
  /\ IF CachedFor(u) # None /\ ~HasAnonymousState
       THEN /\ StartCloud(u, CachedFor(u))
            /\ reconciling' = None
            /\ UNCHANGED <<inner, player, link, record, profile, players>>
       ELSE AskServer(u)

ReconcileAnswer ==
  /\ reconciling # None /\ reconciling.ok
  /\ StartCloud(user, MergedWithServer(reconciling.progress, snapshot))
  /\ reconciling' = None
  /\ UNCHANGED <<inner, user, timer, queue, entering, server, history>>

(* The call is not repeated before the page is loaded again. *)
ReconcileFails ==
  /\ reconciling # None /\ ~reconciling.ok
  /\ reconciling' = None
  /\ UNCHANGED <<storage, store, user, cloudReady, lastSynced, timer, queue, entering, server,
                 history>>

(* 250 ms after the last edit the preferences are queued. *)
TimerFires ==
  /\ timer # None
  /\ queue' = Append(queue, [prefs |-> timer, tries |-> 0])
  /\ timer' = None
  /\ UNCHANGED <<storage, store, user, cloudReady, lastSynced, reconciling, entering, server,
                 history>>

Retries == 2

(* MUTANT: a failed write goes to the end of the queue. *)
AfterFailure_Requeue(q) ==
  IF Head(q).tries = Retries THEN Tail(q)
  ELSE Append(Tail(q), [Head(q) EXCEPT !.tries = @ + 1])

(* A failed write is tried again before the next one, twice. *)
AfterFailure(q) ==
  IF Head(q).tries = Retries THEN Tail(q)
  ELSE <<[Head(q) EXCEPT !.tries = @ + 1]>> \o Tail(q)

WritePreferences ==
  /\ queue # <<>>
  /\ \E out \in Outcomes :
       LET done == out # "not sent" /\ cookie = user /\ profile[user] # None
       IN  /\ profile' = IF done THEN [profile EXCEPT ![user].prefs = Head(queue).prefs]
                         ELSE profile
           /\ IF done /\ out = "answered"
                THEN /\ lastSynced' = Head(queue).prefs
                     /\ queue' = Tail(queue)
                     /\ UNCHANGED lostEdit
                ELSE /\ queue' = AfterFailure(queue)
                     /\ lostEdit' = (lostEdit \/ Head(queue).tries = Retries)
                     /\ UNCHANGED lastSynced
  /\ UNCHANGED <<storage, store, user, cloudReady, timer, reconciling, entering, cookie, player,
                 link, record, players, edits, played>>

-----------------------------------------------------------------------------
(* The pages. *)

(* The first call of a game, unless the reconciliation was first. *)
OpenGame ==
  /\ player = None
  /\ Identified("answered")
  /\ UNCHANGED <<storage, store, user, sync, entering, cookie, profile, link, record, edits,
                 played, lostEdit>>

(* A game is played: the server records it for the session's user or the   *)
(* cookie's player, and the page adds it to its progress when the answer   *)
(* is there.                                                               *)
Play(g) ==
  /\ player # None
  /\ played[g] = None /\ \A h \in Games : h < g => played[h] # None
  /\ Recorded(g)
  /\ played' = [played EXCEPT ![g] = IF storageMode = "cloud" THEN activeUserId ELSE "device"]
  /\ \/ UpdateProgress([snapshot EXCEPT !.games = @ \cup {g}])
     \/ UNCHANGED <<storage, store, timer, lostEdit>>
  /\ UNCHANGED <<user, cloudReady, lastSynced, queue, reconciling, entering, cookie, player,
                 players, edits>>

(* The Classic page adds what guess_history answers: the guesses of the    *)
(* cookie's player, whoever is signed in.                                  *)
ReadHistory(g) ==
  /\ record[g] # None /\ record[g].player = player
  /\ UpdateProgress([snapshot EXCEPT !.games = @ \cup {g}])
  /\ UNCHANGED <<user, cloudReady, lastSynced, queue, reconciling, entering, server, players,
                 edits, played>>

(* setHellMode, and the soundtrack's first play. *)
Edit(field) ==
  /\ user # None /\ edits < MaxEdits
  /\ field = "auto" => ~snapshot.prefs.auto
  /\ edits' = edits + 1
  /\ UpdateProgress([snapshot EXCEPT !.prefs[field] = ~@, !.prefs.edit = edits'])
  /\ UNCHANGED <<user, cloudReady, lastSynced, queue, reconciling, entering, server, players,
                 played>>

(* enterInnerCircle keeps the progress it was called with. *)
EnterInnerCircle ==
  /\ user # None /\ entering = None /\ edits < MaxEdits /\ ~snapshot.prefs.unlocked
  /\ entering' = [snapshot EXCEPT !.prefs.unlocked = TRUE]
  /\ UNCHANGED <<storage, store, user, sync, server, history>>

EnterAnswer ==
  /\ entering # None
  /\ entering' = None
  /\ \/ /\ edits' = edits + 1
        /\ UpdateProgress([entering EXCEPT !.prefs.edit = edits'])
     \/ UNCHANGED <<storage, store, timer, lostEdit, edits>>     \* the call failed
  /\ UNCHANGED <<user, cloudReady, lastSynced, queue, reconciling, server, players,
                 played>>

-----------------------------------------------------------------------------
(* The page is loaded again; what was in memory and in flight is gone.     *)

Load(stored) ==
  LET progress == ReadProgress(stored)
  IN  /\ snapshot' = progress
      /\ storageMode' = "local" /\ activeUserId' = None
      /\ inner' = InnerAfter(progress.prefs, inner)
      /\ user' = None /\ cloudReady' = FALSE /\ lastSynced' = None /\ timer' = None
      /\ queue' = <<>> /\ reconciling' = None /\ entering' = None
      /\ lostEdit' = (lostEdit \/ timer # None \/ queue # <<>>)
      /\ UNCHANGED <<player, profile, link, record, players, edits, played>>

(* In the tab it was in, or in a new one, which has no copy *)
Reload ==
  /\ Load(local)
  /\ copy' \in {copy, None}
  /\ UNCHANGED <<local, known, cookie>>

(* resetProgressAfterSignOut, and the page loaded again. *)
Reset ==
  /\ Load(None)
  /\ copy' = None /\ known' = None
  /\ local' = snapshot'

(* signOut; when the answer is lost the page goes on as before. *)
SignOut ==
  /\ user # None
  /\ Reset
  /\ cookie' = None

SessionEnds ==
  /\ cookie # None
  /\ cookie' = None
  /\ UNCHANGED <<storage, store, user, sync, entering, player, profile, link, record,
                 history>>

(* The profile page's "Clear local data". *)
ClearLocalData ==
  /\ Reset
  /\ UNCHANGED cookie

(* The check of AuthProvider after the page is loaded. *)
CheckAuthentication ==
  /\ user = None /\ cookie # None
  /\ UNCHANGED <<entering, cookie, edits, played, lostEdit>>
  /\ Mount(cookie)

Login(u) ==
  /\ user = None /\ cookie = None
  /\ cookie' = u
  /\ Mount(u)
  /\ UNCHANGED <<entering, edits, played, lostEdit>>

(* A new browser; some accounts have played elsewhere. *)
Init ==
  /\ local = None /\ inner = NoPreferences /\ known = None /\ copy = None
  /\ snapshot = [games |-> {}, prefs |-> NoPreferences]
  /\ storageMode = "local" /\ activeUserId = None
  /\ user = None /\ cloudReady = FALSE /\ lastSynced = None /\ timer = None /\ queue = <<>>
  /\ reconciling = None /\ entering = None
  /\ cookie = None /\ player = None
  /\ \E elsewhere \in SUBSET Users :
       profile = [u \in Users |-> IF u \in elsewhere
                                  THEN [player |-> u, prefs |-> Synced(NoPreferences)] ELSE None]
  /\ link = [p \in 1..MaxPlayers |-> None] /\ record = [g \in Games |-> None]
  /\ players = 0 /\ edits = 0 /\ played = [g \in Games |-> None]
  /\ lostEdit = FALSE

Next ==
  \/ ReconcileAnswer \/ ReconcileFails \/ TimerFires \/ WritePreferences
  \/ OpenGame
  \/ \E g \in Games : Play(g) \/ ReadHistory(g)
  \/ Edit("hell") \/ Edit("auto")
  \/ EnterInnerCircle \/ EnterAnswer
  \/ Reload \/ SignOut \/ SessionEnds \/ ClearLocalData
  \/ CheckAuthentication
  \/ \E u \in Users : Login(u)

Spec == Init /\ [][Next]_vars
-----------------------------------------------------------------------------
(* Properties. *)

TypeOK ==
  /\ user \in Users \cup {None} /\ cookie \in Users \cup {None}
  /\ player \in 1..players \cup {None} /\ link \in [1..MaxPlayers -> Users \cup {None}]
  /\ snapshot.games \subseteq Games /\ snapshot.prefs \in Preferences
  /\ storageMode \in {"local", "cloud"} /\ activeUserId \in Users \cup {None}
  /\ storageMode = "cloud" <=> activeUserId # None
  /\ cloudReady => user = activeUserId

(* The account the browser's player is linked to *)
Owner == IF player = None THEN None ELSE link[player]

(* What an account played is shown and stored only in a browser whose      *)
(* player is that account's: for no other account, whichever calls fail    *)
(* and whenever the session ends, the user changes or the page is loaded   *)
(* again; and it counts for no other account.                              *)
NoForeignProgress ==
  LET PlayedBy(u, games) == \A g \in games : played[g] \in {"device", u}
  IN  /\ PlayedBy(Owner, snapshot.games)
      /\ local # None => PlayedBy(Owner, local.games)
      /\ copy # None => copy.user = Owner /\ PlayedBy(Owner, copy.progress.games)
      /\ storageMode = "cloud" => activeUserId = Owner
      /\ \A u \in Users : PlayedBy(u, ServerGames(u, record))

(* The page loaded again finds what it showed: in localStorage as long as  *)
(* the progress is the browser's; in the session's copy once it is an      *)
(* account's, but for games beyond the limit of the copy.                  *)
ReloadShowsSame ==
  IF storageMode = "cloud"
    THEN copy = [user |-> activeUserId, progress |-> [snapshot EXCEPT !.games = Newest(@)]]
    ELSE LET again == ReadProgress(local)
         IN  again.games = snapshot.games /\ SameSynced(again.prefs, snapshot.prefs)

(* A game that is shown stays shown while the user stays the same and the  *)
(* data are not cleared, unless the answer to entering the Inner Circle    *)
(* puts back the progress of the moment it was asked for.                  *)
GamesStay ==
  user' = user /\ ~ClearLocalData /\ (entering' = entering \/ entering' # None)
    => snapshot.games \subseteq snapshot'.games

(* When nothing waits to be written, the account has the preferences the   *)
(* page shows, unless an edit was dropped: undone while the one before was *)
(* being written, given up after two retries, or pending at a reload.      *)
SettledPreferencesAgree ==
  cloudReady /\ timer = None /\ queue = <<>> /\ ~lostEdit =>
    profile[user] # None /\ SameSynced(profile[user].prefs, snapshot.prefs)

(* "serializes preference writes so an older request cannot overwrite a    *)
(* newer one", retries included.                                           *)
WriteIsNewer ==
  \A u \in Users : profile[u] # None => profile'[u].prefs.edit >= profile[u].prefs.edit
=============================================================================
