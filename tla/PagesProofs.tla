----------------------------- MODULE PagesProofs -----------------------------
(***************************************************************************)
(* The pages of Browser whose theorems are about any parameters and        *)
(* bounds, each an instance of its module: for each page the inductive     *)
(* invariant, in named parts, a lemma for each action or group of actions, *)
(* and the theorem of what the page promises.                              *)
(*                                                                         *)
(* A page's variables and constants are those of Browser, which extends    *)
(* this module.                                                            *)
(***************************************************************************)
EXTENDS Integers, Sequences, FiniteSets, ApiTable,
        SequenceTheorems, FiniteSetTheorems, WellFoundedInduction, TLAPS

CONSTANTS None, Absent, Missing, Bad, Blank

(* What each page is given, and the bounds of its instance. *)
CONSTANTS
  ClassicCategories, ClassicDifficulties, ClassicPool, ClassicAnswer, ClassicFirst,
  ClassicBounds,
  EmojiDifficulties, EmojiEntities, EmojiAnswer, EmojiBounds,
  LogoModels, LogoAnswer, LogoBounds,
  StageAfter, StageRevision, StageScopes, StageBounds,
  ProfileCategories, ProfileRecords, ProfileNames, ProfileTaken, ProfileUnlocked,
  ProfileBounds,
  AdminUsers, AdminQueries, AdminMatching, AdminListSize, AdminGames, AdminGamesSize,
  AdminRoles, AdminBounds,
  AccountUsers, AccountMask, AccountPasswords, FirstPassword, AccountBounds,
  ApiRacing, ApiBounds,
  EngineValues, EngineNormal, EngineServerNormal, EngineSizes, EngineDates, EngineLists,
  EditorGames, EditorCategories, EditorSeed, EditorValues, EditorBounds,
  SeedDrafts, SeedSlug, SeedAliasId(_, _), SeedMinModels, SeedMinLogos, SeedImages,
  SeedBounds

VARIABLES
  access, account, accounts, aiReview, arrivals, asked, asking, auth, baseline, before,
  blanked, busy, cache, call, canPublish, category, changes, chosen, clicks,
  cloudHistory, clue, column, data, db, detailCalls, detailId, dialog, difficulty,
  draft, drafts, edits, elsewhere, error, failures, files, flight, form, game, games,
  guesses, head, histories, historyPage, hydrated, image, item, itemId, items, jar,
  jobs, late, legacy, links, list, listCalls, listState, load, loader, loadingDetail,
  loads, merged, moves, name, nextId, outside, overlap, overtaken, page, pick, played,
  preference, preload, progress, raced, reading, reads, record, released, releases,
  reloads, remote, removals, requests, resets, retries, retry, saved, saves, scope,
  screen, seen, selected, sent, sessions, shared, stale, status, stored, stray,
  switches, timeline, timer, toast, tokens, unsettled, update, user, view, views
-----------------------------------------------------------------------------
(* The Classic page. *)
Classic == INSTANCE ClassicScreen WITH
  Categories <- ClassicCategories, Difficulties <- ClassicDifficulties,
  Pool <- ClassicPool, Answer <- ClassicAnswer, First <- ClassicFirst,
  MaxSwitches <- ClassicBounds.switches, MaxRequests <- ClassicBounds.requests,
  MaxReloads <- ClassicBounds.reloads

(* What the page is given is as its module assumes. *)
ASSUME ClassicGiven == Classic!ClassicScreenAssumption

(* What is loaded and shown is the page's category, with the difficulties  *)
(* of the loader.                                                          *)
ClassicLoads ==
  /\ loader.shown # None => loader.shown = <<category, loader.ref>>
  /\ loader.fetch # None => loader.fetch = <<category, loader.selected>>

(* The server stores a request and a model once, and nothing after the     *)
(* answer.                                                                 *)
ClassicEntries ==
  \A b \in Classic!Boards : \A j \in DOMAIN record[b] :
    /\ record[b][j].req <= requests
    /\ record[b][j].ok = (record[b][j].model = ClassicAnswer[b])
    /\ record[b][j].ok => j = Len(record[b])

(* No request is stored twice, on one board or on two, *)
ClassicRequestsOnce ==
  \A b, c \in Classic!Boards : \A j \in DOMAIN record[b] : \A k \in DOMAIN record[c] :
    record[b][j].req = record[c][k].req => b = c /\ j = k

(* and no model twice on a board. *)
ClassicModelsOnce ==
  \A b \in Classic!Boards : \A j, k \in DOMAIN record[b] :
    record[b][j].model = record[b][k].model => j = k

(* What is stored, on every board. *)
ClassicRecord == ClassicEntries /\ ClassicRequestsOnce /\ ClassicModelsOnce

(* A request is of one model, and its answer is not on the page. *)
ClassicOwn(req, model) ==
  /\ \A b \in Classic!Boards : \A j \in DOMAIN record[b] :
       record[b][j].req = req => record[b][j].model = model
  /\ ~raced => \A b \in Classic!Boards : req \notin Classic!RequestsOf(games[b].guesses)

(* A request that the page has made. *)
ClassicMade(req, model) == req <= requests /\ ClassicOwn(req, model)

(* A guess being sent is a request of the page's, of a board not yet won,  *)
(* and its answer is the server's.                                         *)
ClassicPick ==
  pick # None =>
    /\ retry = None /\ ClassicMade(pick.req, pick.model)
    /\ games[pick.board].won = 0
    /\ ~raced /\ pick.req \in Classic!RequestsOf(record[pick.board]) => ~Classic!Correct(games[pick.board].guesses)
    /\ pick.reply # None => /\ pick.model \in Classic!ModelsOf(record[pick.board])
                            /\ pick.reply.ok = (pick.model = ClassicAnswer[pick.board])

(* A guess kept to be sent again is one the page made. *)
ClassicRetry == retry # None => ClassicMade(retry.req, retry.model)

(* A guess is of a model among the entries, with the verdict it was given. *)
ClassicStored(entries, g) ==
  \E j \in DOMAIN entries : entries[j].model = g.model /\ entries[j].ok = g.ok

(* A guess is among the entries, under the request it was sent with. *)
ClassicSame(entries, g) ==
  \E j \in DOMAIN entries :
    entries[j].model = g.model /\ entries[j].ok = g.ok /\ entries[j].req = g.req

(* The guesses shown on a board are stored for it; without a race between  *)
(* two devices each is there under its own request, and no model is shown  *)
(* twice.                                                                  *)
ClassicGame(b) ==
  LET tries == games[b].guesses
  IN  /\ \A i \in DOMAIN tries :
           /\ tries[i].req <= requests
           /\ ClassicStored(record[b], tries[i])
           /\ ~raced => ClassicSame(record[b], tries[i])
      /\ games[b].won <= 1
      /\ games[b].won = 1 => games[b].solved
      /\ games[b].solved => Classic!Correct(tries)
      /\ ~raced => /\ \A i, j \in DOMAIN tries : tries[i].model = tries[j].model => i = j
                   /\ Classic!Correct(tries) => games[b].solved

(* The games of all boards. *)
ClassicGames == \A b \in Classic!Boards : ClassicGame(b)

(* What the page has loaded and shows. *)
ClassicPage == ClassicLoads /\ Classic!SettledShowsSelected

(* What the server and the boards have. *)
ClassicKept == ClassicRecord /\ ClassicPick /\ ClassicRetry /\ ClassicGames

(* The inductive invariant of the Classic page. *)
ClassicInv == Classic!TypeOK /\ ClassicPage /\ ClassicKept
-----------------------------------------------------------------------------
(* The loader. *)

LEMMA ClassicLoad ==
  ASSUME NEW l \in Classic!Loader, NEW c \in ClassicCategories, cache \subseteq Classic!Boards,
         NEW m, m = Classic!Load(l, c)
  PROVE  /\ m \in Classic!Loader
         /\ m.selected = l.selected
         /\ m.loading <=> m.fetch # None
         /\ m.fetch # None => m.fetch = <<c, l.selected>> /\ m.shown = l.shown /\ m.ref = l.ref
         /\ m.fetch = None => m.shown = <<c, l.selected>> /\ m.ref = l.selected
<1> DEFINE b == <<c, l.selected>>
           l1 == [l EXCEPT !.key = b, !.failed = @ /\ l.key = b, !.error = FALSE]
<1>1. b \in Classic!Boards
  BY DEF Classic!Loader, Classic!Boards
<1>2. b # None
  BY <1>1, ClassicGiven DEF Classic!ClassicScreenAssumption
<1> HIDE DEF b
<1>3. /\ l1 \in Classic!Loader /\ l1.selected = l.selected /\ l1.shown = l.shown /\ l1.ref = l.ref
  <2>1. (l.failed /\ l.key = b) \in BOOLEAN
    BY DEF Classic!Loader
  <2>2. l1 = [l EXCEPT !.key = b, !.failed = (l.failed /\ l.key = b), !.error = FALSE]
    BY DEF Classic!Loader
  <2> QED BY <1>1, <2>1, <2>2 DEF Classic!Loader
<1> HIDE DEF l1
<1>4. m = IF b \in cache
            THEN [l1 EXCEPT !.shown = b, !.ref = l.selected, !.loading = FALSE, !.fetch = None]
            ELSE [l1 EXCEPT !.fetch = b, !.loading = TRUE]
  BY DEF Classic!Load, b, l1
<1>5. l.selected \in ClassicDifficulties
  BY DEF Classic!Loader
<1>6. CASE b \in cache
  <2>1. m = [l1 EXCEPT !.shown = b, !.ref = l.selected, !.loading = FALSE, !.fetch = None]
    BY <1>4, <1>6
  <2>2. m \in Classic!Loader /\ m.selected = l.selected /\ m.loading = FALSE /\ m.fetch = None
        /\ m.shown = b /\ m.ref = l.selected
    BY <2>1, <1>1, <1>3, <1>5 DEF Classic!Loader
  <2> QED BY <2>2 DEF b
<1>7. CASE b \notin cache
  <2>1. m = [l1 EXCEPT !.fetch = b, !.loading = TRUE]
    BY <1>4, <1>7
  <2>2. m \in Classic!Loader /\ m.selected = l.selected /\ m.loading = TRUE /\ m.fetch = b
        /\ m.shown = l.shown /\ m.ref = l.ref
    BY <2>1, <1>1, <1>3 DEF Classic!Loader
  <2> QED BY <2>2, <1>2 DEF b
<1> QED BY <1>6, <1>7

(* A loader that begins anew shows nothing and fetches what was selected. *)
LEMMA ClassicFresh ==
  ASSUME NEW c \in ClassicCategories, NEW d \in ClassicDifficulties
  PROVE  /\ Classic!Fresh(c, d) \in Classic!Loader /\ Classic!Fresh(c, d).shown = None /\ Classic!Fresh(c, d).selected = d
         /\ Classic!Fresh(c, d).fetch = <<c, d>> /\ Classic!Fresh(c, d).fetch # None /\ Classic!Fresh(c, d).loading
<1>1. <<c, d>> \in Classic!Boards
  BY DEF Classic!Boards
<1> QED BY <1>1, ClassicGiven DEF Classic!Fresh, Classic!Loader, Classic!ClassicScreenAssumption

(* What the history effect leaves of types. *)
LEMMA ClassicAsk ==
  ASSUME Classic!TypeOK, loader' \in Classic!Loader, Classic!AskHistory
  PROVE  hydrated' \subseteq Classic!Boards /\ histories' \in [Classic!Boards -> Nat \cup {None}]
<1>1. \A b \in Classic!Boards : Len(record[b]) \in Nat
  BY LenProperties DEF Classic!TypeOK
<1>2. loader'.shown \in Classic!Boards \cup {None}
  BY DEF Classic!Loader
<1> QED BY <1>1, <1>2 DEF Classic!AskHistory, Classic!asked, Classic!TypeOK

(* A step of the loader leaves the games alone. *)
LEMMA ClassicLoaderOnly ==
  ASSUME ClassicKept, UNCHANGED <<games, pick, retry, record, requests, raced>>
  PROVE  ClassicKept'
<1>1. ClassicRecord'
  BY DEF ClassicKept, ClassicRecord, ClassicEntries, ClassicRequestsOnce, ClassicModelsOnce
<1>2. ASSUME NEW r, NEW m, ClassicMade(r, m) PROVE ClassicMade(r, m)'
  BY <1>2 DEF ClassicMade, ClassicOwn
<1>3. ClassicPick' /\ ClassicRetry'
  BY <1>2 DEF ClassicKept, ClassicPick, ClassicRetry
<1>4. ClassicGames'
  BY DEF ClassicKept, ClassicGames, ClassicGame
<1> QED BY <1>1, <1>3, <1>4 DEF ClassicKept

(* A step of the games changes no more of the loader than its error. *)
LEMMA ClassicGamesOnly ==
  ASSUME Classic!TypeOK, ClassicPage, NEW e \in BOOLEAN,
         loader' = [loader EXCEPT !.error = e], loader.fetch = None => loader.shown # None \/ e \/ blanked,
         UNCHANGED <<category, blanked>>
  PROVE  /\ loader' \in Classic!Loader /\ (loader'.loading <=> loader'.fetch # None)
         /\ ClassicPage'
<1>1. /\ loader' \in Classic!Loader /\ loader'.error = e /\ loader'.shown = loader.shown
      /\ loader'.fetch = loader.fetch /\ loader'.selected = loader.selected
      /\ loader'.ref = loader.ref /\ loader'.loading = loader.loading
  BY DEF Classic!TypeOK, Classic!Loader
<1> QED BY <1>1 DEF Classic!TypeOK, ClassicPage, ClassicLoads, Classic!SettledShowsSelected

(* A render for another category keeps what is loaded in step, and leaves  *)
(* the boards alone.                                                       *)
LEMMA ClassicRender ==
  ASSUME Classic!TypeOK, ClassicPage, NEW c \in ClassicCategories, Classic!Render(c)
  PROVE  Classic!TypeOK' /\ ClassicPage' /\ UNCHANGED <<games, pick, retry, record, requests, raced>>
<1> DEFINE d == preference
           new == <<c, d>> # <<category, difficulty>>
           l1 == IF new THEN Classic!Route(loader) ELSE loader
           l2 == IF c # category THEN Classic!Load(l1, c) ELSE l1
           l3 == [l2 EXCEPT !.selected = d]
<1>1. /\ new /\ switches' = switches + 1 /\ category' = c /\ difficulty' = d
      /\ blanked' = (c = category /\ d = loader.selected /\ loader.fetch = None)
      /\ Classic!AskHistory /\ UNCHANGED <<preference, cache, Classic!board, record, requests, reloads, raced>>
  BY DEF Classic!Render
<1>2. loader' = IF d # loader.selected THEN Classic!Load(l3, c) ELSE l2
  BY <1>1 DEF Classic!Render, Classic!Rendered
<1>3. d \in ClassicDifficulties /\ loader \in Classic!Loader /\ cache \subseteq Classic!Boards
      /\ (loader.loading <=> loader.fetch # None)
  BY DEF Classic!TypeOK
<1>4. /\ l1 \in Classic!Loader /\ l1.shown = None /\ l1.selected = loader.selected
      /\ l1.fetch = loader.fetch /\ l1.loading = loader.loading
  BY <1>1, <1>3 DEF Classic!Route, Classic!Loader
<1> HIDE DEF l1
<1>5. /\ l2 \in Classic!Loader /\ l2.selected = loader.selected
      /\ l2.loading <=> l2.fetch # None
      /\ l2.fetch # None => l2.shown = None /\ (c # category => l2.fetch = <<c, l2.selected>>)
      /\ l2.fetch # None /\ c = category => l2.fetch = loader.fetch
      /\ l2.fetch = None => IF c = category THEN l2.shown = None /\ loader.fetch = None
                            ELSE l2.shown = <<c, l2.selected>> /\ l2.ref = l2.selected
  <2>1. CASE c = category
    <3>1. l2 = l1
      BY <2>1
    <3> HIDE DEF l2
    <3> QED BY <2>1, <3>1, <1>3, <1>4
  <2>2. CASE c # category
    <3>1. l2 = Classic!Load(l1, c)
      BY <2>2
    <3> HIDE DEF l2
    <3> QED BY <2>2, <3>1, <1>3, <1>4, ClassicLoad
  <2> QED BY <2>1, <2>2
<1> HIDE DEF l2
<1>6. /\ l3 \in Classic!Loader /\ l3.selected = d /\ l3.shown = l2.shown /\ l3.ref = l2.ref
  BY <1>3, <1>5 DEF Classic!Loader
<1> HIDE DEF l3
<1>7. CASE d # loader.selected
  <2>1. loader' = Classic!Load(l3, c)
    BY <1>2, <1>7
  <2>2. /\ loader' \in Classic!Loader
        /\ loader'.selected = d
        /\ loader'.loading <=> loader'.fetch # None
        /\ loader'.fetch # None => /\ loader'.fetch = <<c, d>> /\ loader'.shown = l3.shown
                                   /\ loader'.ref = l3.ref
        /\ loader'.fetch = None => loader'.shown = <<c, d>> /\ loader'.ref = d
    BY <2>1, <1>3, <1>6, ClassicLoad
  <2>3. loader'.shown # None => loader'.shown = <<c, loader'.ref>>
    BY <2>2, <1>5, <1>6
  <2>4. ClassicPage'
    BY <2>2, <2>3, <1>1 DEF ClassicPage, ClassicLoads, Classic!SettledShowsSelected
  <2>5. hydrated' \subseteq Classic!Boards /\ histories' \in [Classic!Boards -> Nat \cup {None}]
    BY <1>1, <2>2, ClassicAsk
  <2>6. blanked' \in BOOLEAN
    BY <1>1
  <2> QED BY <1>1, <1>3, <2>2, <2>4, <2>5, <2>6 DEF Classic!TypeOK, Classic!board
<1>8. CASE d = loader.selected
  <2>1. loader' = l2
    BY <1>2, <1>8
  <2>2. loader'.shown # None => loader'.shown = <<c, loader'.ref>>
    BY <2>1, <1>5
  <2>3. loader'.fetch # None => loader'.fetch = <<c, loader'.selected>>
    BY <2>1, <1>5, <1>8 DEF ClassicPage, ClassicLoads
  <2>4. ClassicPage'
    BY <2>1, <2>2, <2>3, <1>1, <1>5, <1>8 DEF ClassicPage, ClassicLoads,
                                              Classic!SettledShowsSelected
  <2>5. hydrated' \subseteq Classic!Boards /\ histories' \in [Classic!Boards -> Nat \cup {None}]
    BY <1>1, <1>5, <2>1, ClassicAsk
  <2>6. blanked' \in BOOLEAN
    BY <1>1
  <2> QED BY <1>1, <1>3, <1>5, <2>1, <2>4, <2>5, <2>6 DEF Classic!TypeOK, Classic!board
<1> QED BY <1>7, <1>8

(* So do the steps of the loader. *)
LEMMA ClassicLoaderSteps ==
  ASSUME Classic!TypeOK, ClassicPage,
         \/ \E d \in ClassicDifficulties : Classic!SelectDifficulty(d)
         \/ Classic!LoadAnswer \/ Classic!LoadFails \/ Classic!LoadAgain
  PROVE  Classic!TypeOK' /\ ClassicPage' /\ UNCHANGED <<games, pick, retry, record, requests, raced>>
<1>0. loader \in Classic!Loader /\ cache \subseteq Classic!Boards /\ (loader.loading <=> loader.fetch # None)
      /\ category \in ClassicCategories
  BY DEF Classic!TypeOK
<1>a. ASSUME UNCHANGED <<category, difficulty, Classic!board, record, requests, raced, reloads>>,
             preference' \in ClassicDifficulties, cache' \subseteq Classic!Boards, switches' \in Nat,
             Classic!AskHistory, Classic!StillBlank, loader' \in Classic!Loader, loader'.loading <=> loader'.fetch # None
      PROVE  Classic!TypeOK' /\ UNCHANGED <<games, pick, retry, record, requests, raced>>
  <2>1. hydrated' \subseteq Classic!Boards /\ histories' \in [Classic!Boards -> Nat \cup {None}]
    BY <1>a, ClassicAsk
  <2>2. blanked' \in BOOLEAN
    BY <1>a DEF Classic!StillBlank
  <2> QED BY <1>a, <2>1, <2>2 DEF Classic!TypeOK, Classic!board
<1>1. ASSUME NEW d \in ClassicDifficulties, Classic!SelectDifficulty(d) PROVE Classic!TypeOK' /\ ClassicPage' /\ UNCHANGED <<games, pick, retry, record, requests, raced>>
  <2> DEFINE l == [loader EXCEPT !.selected = d]
  <2>0. /\ ~loader.loading /\ switches' = switches + 1 /\ preference' = d
        /\ loader' = Classic!Load(l, category) /\ Classic!AskHistory /\ Classic!StillBlank
        /\ UNCHANGED <<category, difficulty, cache, Classic!board, record, requests, reloads, raced>>
    BY <1>1 DEF Classic!SelectDifficulty
  <2>1. l \in Classic!Loader /\ l.selected = d /\ l.shown = loader.shown /\ l.ref = loader.ref
    BY <1>0 DEF Classic!Loader
  <2> HIDE DEF l
  <2>2. /\ loader' \in Classic!Loader
        /\ loader'.selected = d
        /\ loader'.loading <=> loader'.fetch # None
        /\ loader'.fetch # None => /\ loader'.fetch = <<category, d>> /\ loader'.shown = l.shown
                                   /\ loader'.ref = l.ref
        /\ loader'.fetch = None => loader'.shown = <<category, d>> /\ loader'.ref = d
    BY <2>0, <2>1, <1>0, ClassicLoad
  <2>3. ClassicPage'
    BY <2>0, <2>1, <2>2 DEF ClassicPage, ClassicLoads, Classic!SettledShowsSelected
  <2>4. switches' \in Nat /\ cache' \subseteq Classic!Boards /\ preference' \in ClassicDifficulties
    BY <2>0, <1>0 DEF Classic!TypeOK
  <2> QED BY <1>a, <2>0, <2>2, <2>3, <2>4
<1>2. CASE Classic!LoadAnswer
  <2>0. /\ loader.fetch # None /\ cache' = cache \cup {loader.fetch}
        /\ loader' = [loader EXCEPT !.shown = loader.fetch, !.ref = loader.selected,
                                    !.failed = FALSE, !.fetch = None, !.loading = FALSE]
        /\ Classic!AskHistory /\ Classic!StillBlank
        /\ UNCHANGED <<category, difficulty, preference, Classic!board, record, switches, requests, reloads,
                       raced>>
    BY <1>2 DEF Classic!LoadAnswer
  <2>1. /\ loader' \in Classic!Loader /\ loader'.shown = loader.fetch /\ loader'.ref = loader.selected
        /\ loader'.fetch = None /\ loader'.loading = FALSE /\ loader'.selected = loader.selected
        /\ loader.fetch \in Classic!Boards
    BY <2>0, <1>0 DEF Classic!Loader
  <2>2. ClassicPage'
    BY <2>0, <2>1 DEF ClassicPage, ClassicLoads, Classic!SettledShowsSelected
  <2>3. cache' \subseteq Classic!Boards /\ preference' \in ClassicDifficulties /\ switches' \in Nat
    BY <2>0, <2>1, <1>0 DEF Classic!TypeOK
  <2> QED BY <1>a, <2>0, <2>1, <2>2, <2>3
<1>3. CASE Classic!LoadFails
  <2>0. /\ loader.fetch # None
        /\ \/ loader' = [loader EXCEPT !.failed = TRUE]
           \/ loader' = Classic!GivenUp(loader)
        /\ Classic!AskHistory /\ Classic!StillBlank
        /\ UNCHANGED <<category, difficulty, preference, cache, Classic!board, record, switches, requests,
                       reloads, raced>>
    BY <1>3 DEF Classic!LoadFails
  <2>1. CASE loader' = [loader EXCEPT !.failed = TRUE]
    <3>1. /\ loader' \in Classic!Loader /\ loader'.shown = loader.shown /\ loader'.ref = loader.ref
          /\ loader'.fetch = loader.fetch /\ loader'.loading = loader.loading
          /\ loader'.selected = loader.selected
      BY <2>1, <1>0 DEF Classic!Loader
    <3>2. ClassicPage'
      BY <2>0, <3>1 DEF ClassicPage, ClassicLoads, Classic!SettledShowsSelected
    <3>3. cache' \subseteq Classic!Boards /\ preference' \in ClassicDifficulties /\ switches' \in Nat
      BY <2>0 DEF Classic!TypeOK
    <3> QED BY <1>a, <2>0, <3>1, <3>2, <3>3, <1>0
  <2>2. CASE loader' = Classic!GivenUp(loader)
    <3> DEFINE back == [loader EXCEPT !.fetch = None, !.loading = FALSE, !.error = TRUE,
                                      !.selected = loader.ref]
    <3>1. /\ back \in Classic!Loader /\ back.fetch = None /\ back.loading = FALSE /\ back.error = TRUE
          /\ back.selected = loader.ref /\ back.shown = loader.shown /\ back.ref = loader.ref
      BY <1>0 DEF Classic!Loader
    <3>2. loader' = IF loader.selected = loader.ref THEN back ELSE Classic!Load(back, category)
      BY <2>2 DEF Classic!GivenUp
    <3> HIDE DEF back
    <3>3. /\ loader' \in Classic!Loader /\ (loader'.loading <=> loader'.fetch # None)
          /\ ClassicPage'
      <4>1. CASE loader.selected = loader.ref
        <5>1. loader' = back
          BY <3>2, <4>1
        <5>2. ClassicPage'
          BY <2>0, <3>1, <5>1 DEF ClassicPage, ClassicLoads, Classic!SettledShowsSelected
        <5> QED BY <3>1, <5>1, <5>2
      <4>2. CASE loader.selected # loader.ref
        <5>1. /\ loader' \in Classic!Loader
              /\ loader'.selected = back.selected
              /\ loader'.loading <=> loader'.fetch # None
              /\ loader'.fetch # None => /\ loader'.fetch = <<category, back.selected>>
                                         /\ loader'.shown = back.shown /\ loader'.ref = back.ref
              /\ loader'.fetch = None => /\ loader'.shown = <<category, back.selected>>
                                         /\ loader'.ref = back.selected
          BY <3>1, <3>2, <4>2, <1>0, ClassicLoad
        <5>2. ClassicPage'
          BY <2>0, <3>1, <5>1 DEF ClassicPage, ClassicLoads, Classic!SettledShowsSelected
        <5> QED BY <5>1, <5>2
      <4> QED BY <4>1, <4>2
    <3>4. cache' \subseteq Classic!Boards /\ preference' \in ClassicDifficulties /\ switches' \in Nat
      BY <2>0 DEF Classic!TypeOK
    <3> QED BY <1>a, <2>0, <3>3, <3>4
  <2> QED BY <2>0, <2>1, <2>2
<1>4. CASE Classic!LoadAgain
  <2>0. /\ switches' = switches + 1 /\ loader' = Classic!Load(loader, category) /\ Classic!AskHistory /\ Classic!StillBlank
        /\ UNCHANGED <<category, difficulty, preference, cache, Classic!board, record, requests, reloads,
                       raced>>
    BY <1>4 DEF Classic!LoadAgain
  <2>1. /\ loader' \in Classic!Loader
        /\ loader'.selected = loader.selected
        /\ loader'.loading <=> loader'.fetch # None
        /\ loader'.fetch # None => /\ loader'.fetch = <<category, loader.selected>>
                                   /\ loader'.shown = loader.shown /\ loader'.ref = loader.ref
        /\ loader'.fetch = None => /\ loader'.shown = <<category, loader.selected>>
                                   /\ loader'.ref = loader.selected
    BY <2>0, <1>0, ClassicLoad
  <2>2. ClassicPage'
    BY <2>0, <2>1 DEF ClassicPage, ClassicLoads, Classic!SettledShowsSelected
  <2>3. switches' \in Nat /\ cache' \subseteq Classic!Boards /\ preference' \in ClassicDifficulties
    BY <2>0, <1>0 DEF Classic!TypeOK
  <2> QED BY <1>a, <2>0, <2>1, <2>2, <2>3
<1> QED BY <1>1, <1>2, <1>3, <1>4
-----------------------------------------------------------------------------
(* The server's record and the games. *)

LEMMA ClassicLens ==
  ASSUME Classic!TypeOK, NEW b \in Classic!Boards
  PROVE  /\ record[b] \in Seq(Classic!Entry) /\ Len(record[b]) \in Nat
         /\ DOMAIN record[b] = 1..Len(record[b])
         /\ games[b].guesses \in Seq(Classic!Entry) /\ Len(games[b].guesses) \in Nat
         /\ DOMAIN games[b].guesses = 1..Len(games[b].guesses)
         /\ \A j \in DOMAIN record[b] : record[b][j] \in Classic!Entry
         /\ \A j \in DOMAIN games[b].guesses : games[b].guesses[j] \in Classic!Entry
<1>1. record[b] \in Seq(Classic!Entry) /\ games[b].guesses \in Seq(Classic!Entry)
  BY DEF Classic!TypeOK, Classic!Game
<1>2. ASSUME NEW s \in Seq(Classic!Entry)
      PROVE  Len(s) \in Nat /\ DOMAIN s = 1..Len(s) /\ \A j \in DOMAIN s : s[j] \in Classic!Entry
  BY LenProperties, ElementOfSeq
<1> QED BY <1>1, <1>2

(* What an appended entry leaves of a sequence. *)
LEMMA ClassicAppended ==
  ASSUME NEW s \in Seq(Classic!Entry), NEW e \in Classic!Entry
  PROVE  /\ Append(s, e) \in Seq(Classic!Entry) /\ Len(s) \in Nat
         /\ Len(Append(s, e)) = Len(s) + 1
         /\ DOMAIN Append(s, e) = DOMAIN s \cup {Len(s) + 1}
         /\ DOMAIN s = 1..Len(s)
         /\ \A i \in DOMAIN s : Append(s, e)[i] = s[i]
         /\ Append(s, e)[Len(s) + 1] = e
<1>1. /\ Append(s, e) \in Seq(Classic!Entry) /\ Len(Append(s, e)) = Len(s) + 1
      /\ \A i \in 1..Len(s) : Append(s, e)[i] = s[i]
      /\ Append(s, e)[Len(s) + 1] = e
  BY AppendProperties
<1>2. Len(s) \in Nat /\ DOMAIN s = 1..Len(s) /\ DOMAIN Append(s, e) = 1..(Len(s) + 1)
  BY <1>1, LenProperties
<1>3. 1..(Len(s) + 1) = 1..Len(s) \cup {Len(s) + 1}
  BY <1>2
<1> QED BY <1>1, <1>2, <1>3

(* The entry that a guess adds to the record of its board. *)
ClassicNew(b, e) ==
  /\ record' = [record EXCEPT ![b] = Append(@, e)]
  /\ e.ok = (e.model = ClassicAnswer[b])
  /\ \A c \in Classic!Boards : e.req \notin Classic!RequestsOf(record[c])
  /\ e.model \notin Classic!ModelsOf(record[b]) /\ ~Classic!Correct(record[b])

(* The entry that the server stores for a guess. *)
ClassicEntry(b, req, m, num) == [req |-> req, model |-> m, num |-> num, ok |-> m = ClassicAnswer[b]]

(* What process_guess_once answers and records. *)
ClassicAnswers(b, req, m, num) ==
  LET s == Classic!Served(b, req, m, num)
      e == ClassicEntry(b, req, m, num)
      r == Classic!Recorded(b, req, m, num)
  IN  /\ e \in Classic!Entry /\ e.req = req /\ e.model = m /\ e.ok = (m = ClassicAnswer[b])
      /\ s \in Classic!Replies \cup {None}
      /\ s # None => s.ok = (m = ClassicAnswer[b])
      /\ \/ r = record /\ (s # None => m \in Classic!ModelsOf(record[b]))
         \/ /\ r = [record EXCEPT ![b] = Append(@, e)]
            /\ \A c \in Classic!Boards : req \notin Classic!RequestsOf(record[c])
            /\ m \notin Classic!ModelsOf(record[b]) /\ ~Classic!Correct(record[b])

(* What the server answers to a guess, in each of its cases. *)
LEMMA ClassicServed ==
  ASSUME Classic!TypeOK, NEW b \in Classic!Boards, NEW req \in Nat, NEW m \in Classic!Models, NEW num \in Nat
  PROVE  ClassicAnswers(b, req, m, num)
<1> DEFINE s == Classic!Served(b, req, m, num)
           e == ClassicEntry(b, req, m, num)
           r == Classic!Recorded(b, req, m, num)
<1> DEFINE reused == \E c \in Classic!Boards : req \in Classic!RequestsOf(record[c])
           same == \E i \in DOMAIN record[b] : record[b][i].req = req /\ record[b][i].model = m
           next == ~Classic!Correct(record[b]) /\ m \in ClassicPool[b] /\ num = Len(record[b]) + 1
           served == IF reused THEN same ELSE m \in Classic!ModelsOf(record[b]) \/ next
           yes == [ok |-> m = ClassicAnswer[b]]
<1>1. e \in Classic!Entry /\ e.req = req /\ e.model = m /\ e.ok = (m = ClassicAnswer[b])
  BY DEF Classic!Entry, ClassicEntry
<1>2. yes \in Classic!Replies /\ yes # None /\ yes.ok = (m = ClassicAnswer[b])
  <2>1. yes \in Classic!Replies
    BY DEF Classic!Replies
  <2> QED BY <2>1, ClassicGiven DEF Classic!ClassicScreenAssumption
<1>3. s = IF served THEN yes ELSE None
  BY DEF Classic!Served
<1>4. same => m \in Classic!ModelsOf(record[b])
  BY DEF Classic!ModelsOf
<1>5. r = IF s # None /\ m \notin Classic!ModelsOf(record[b])
            THEN [record EXCEPT ![b] = Append(@, e)] ELSE record
  BY DEF Classic!Recorded, ClassicEntry
<1> HIDE DEF yes, same, s, e, r
<1>6. s # None <=> served
  BY <1>2, <1>3
<1>9. /\ \/ r = record /\ (s # None => m \in Classic!ModelsOf(record[b]))
         \/ /\ r = [record EXCEPT ![b] = Append(@, e)]
            /\ \A c \in Classic!Boards : req \notin Classic!RequestsOf(record[c])
            /\ m \notin Classic!ModelsOf(record[b]) /\ ~Classic!Correct(record[b])
  <2>1. CASE s # None /\ m \notin Classic!ModelsOf(record[b])
    <3>1. ~reused /\ ~Classic!Correct(record[b])
      BY <1>4, <1>6, <2>1
    <3> QED BY <1>5, <2>1, <3>1
  <2>2. CASE ~(s # None /\ m \notin Classic!ModelsOf(record[b]))
    BY <1>5, <2>2
  <2> QED BY <2>1, <2>2
<1>10. s \in Classic!Replies \cup {None} /\ (s # None => s.ok = (m = ClassicAnswer[b]))
  BY <1>2, <1>3
<1> QED BY <1>1, <1>9, <1>10 DEF ClassicAnswers, s, e, r

(* The record grows, or stays. *)
LEMMA ClassicExtended ==
  ASSUME Classic!TypeOK, NEW b \in Classic!Boards, NEW e \in Classic!Entry, record' = record \/ ClassicNew(b, e)
  PROVE  /\ record' \in [Classic!Boards -> Seq(Classic!Entry)]
         /\ \A c \in Classic!Boards : \A j \in DOMAIN record[c] :
              j \in DOMAIN record'[c] /\ record'[c][j] = record[c][j]
         /\ \A c \in Classic!Boards : \A j \in DOMAIN record'[c] :
              \/ j \in DOMAIN record[c] /\ record'[c][j] = record[c][j]
                 /\ (c # b => record'[c] = record[c])
              \/ ClassicNew(b, e) /\ c = b /\ j = Len(record'[b]) /\ record'[c][j] = e
         /\ ClassicNew(b, e) => e.model \in Classic!ModelsOf(record'[b])
<1>1. CASE record' = record /\ ~ClassicNew(b, e)
  BY <1>1 DEF Classic!TypeOK
<1>2. CASE ClassicNew(b, e)
  <2>1. record[b] \in Seq(Classic!Entry) /\ b \in DOMAIN record
    BY DEF Classic!TypeOK
  <2>2. record' = [record EXCEPT ![b] = Append(record[b], e)]
    BY <1>2 DEF ClassicNew
  <2>3. record'[b] = Append(record[b], e) /\ \A c \in Classic!Boards : c # b => record'[c] = record[c]
    BY <2>1, <2>2 DEF Classic!TypeOK
  <2>4. /\ Append(record[b], e) \in Seq(Classic!Entry) /\ Len(record[b]) \in Nat
        /\ Len(Append(record[b], e)) = Len(record[b]) + 1
        /\ DOMAIN Append(record[b], e) = DOMAIN record[b] \cup {Len(record[b]) + 1}
        /\ DOMAIN record[b] = 1..Len(record[b])
        /\ \A i \in DOMAIN record[b] : Append(record[b], e)[i] = record[b][i]
        /\ Append(record[b], e)[Len(record[b]) + 1] = e
    BY <2>1, ClassicAppended
  <2>5. record' \in [Classic!Boards -> Seq(Classic!Entry)]
    BY <2>2, <2>4 DEF Classic!TypeOK
  <2>6. record' # record
    BY <2>3, <2>4
  <2>7. \A j \in DOMAIN record[b] : j # Len(record[b]) + 1
    BY <2>4
  <2>8. e.model \in Classic!ModelsOf(record'[b])
    <3>1. Len(record[b]) + 1 \in DOMAIN record'[b] /\ record'[b][Len(record[b]) + 1] = e
      BY <2>3, <2>4
    <3> QED BY <3>1 DEF Classic!ModelsOf
  <2>9. ASSUME NEW c \in Classic!Boards, NEW j \in DOMAIN record[c]
        PROVE  j \in DOMAIN record'[c] /\ record'[c][j] = record[c][j]
    BY <2>3, <2>4
  <2>10. ASSUME NEW c \in Classic!Boards, NEW j \in DOMAIN record'[c]
         PROVE  \/ j \in DOMAIN record[c] /\ record'[c][j] = record[c][j]
                   /\ (c # b => record'[c] = record[c])
                \/ ClassicNew(b, e) /\ c = b /\ j = Len(record'[b]) /\ record'[c][j] = e
    BY <1>2, <2>3, <2>4, <2>6, <2>7
  <2> QED BY <2>5, <2>8, <2>9, <2>10
<1> QED BY <1>1, <1>2

(* What is stored stays in order when an entry is added. *)
LEMMA ClassicRecordGrows ==
  ASSUME Classic!TypeOK, ClassicRecord, NEW b \in Classic!Boards, NEW e \in Classic!Entry,
         requests' \in Nat, requests <= requests', e.req <= requests',
         record' = record \/ ClassicNew(b, e)
  PROVE  ClassicRecord'
<1>0. ClassicEntries /\ ClassicRequestsOnce /\ ClassicModelsOnce
  BY DEF ClassicRecord
<1>a. \A c \in Classic!Boards : \A j \in DOMAIN record[c] : record[c][j].req \in Nat
  BY ClassicLens DEF Classic!Entry
<1>b. requests \in Nat /\ e.req \in Nat
  BY DEF Classic!TypeOK, Classic!Entry
<1>1. CASE record' = record
  <2>1. ClassicEntries'
    BY <1>0, <1>1, <1>a, <1>b DEF ClassicEntries
  <2>2. ClassicRequestsOnce' /\ ClassicModelsOnce'
    BY <1>0, <1>1 DEF ClassicRequestsOnce, ClassicModelsOnce
  <2> QED BY <2>1, <2>2 DEF ClassicRecord
<1>2. CASE ClassicNew(b, e)
  <2>0. /\ e.ok = (e.model = ClassicAnswer[b])
        /\ \A c \in Classic!Boards : \A j \in DOMAIN record[c] : record[c][j].req # e.req
        /\ \A j \in DOMAIN record[b] : record[b][j].model # e.model /\ ~record[b][j].ok
    BY <1>2 DEF ClassicNew, Classic!RequestsOf, Classic!ModelsOf, Classic!Correct
  <2>1. \A c \in Classic!Boards : \A j \in DOMAIN record'[c] :
          \/ j \in DOMAIN record[c] /\ record'[c][j] = record[c][j] /\ (c # b => record'[c] = record[c])
          \/ c = b /\ j = Len(record'[b]) /\ record'[c][j] = e
    BY <1>2, ClassicExtended
  <2>2. ClassicEntries'
    <3> SUFFICES ASSUME NEW c \in Classic!Boards, NEW j \in DOMAIN record'[c]
                 PROVE  /\ record'[c][j].req <= requests'
                        /\ record'[c][j].ok = (record'[c][j].model = ClassicAnswer[c])
                        /\ record'[c][j].ok => j = Len(record'[c])
      BY DEF ClassicEntries
    <3>1. CASE j \in DOMAIN record[c] /\ record'[c][j] = record[c][j] /\ (c # b => record'[c] = record[c])
      <4>1. /\ record[c][j].req <= requests /\ record[c][j].req \in Nat
            /\ record[c][j].ok = (record[c][j].model = ClassicAnswer[c])
            /\ record[c][j].ok => j = Len(record[c])
        BY <1>0, <1>a, <3>1 DEF ClassicEntries
      <4>2. c = b => ~record[c][j].ok
        BY <2>0, <3>1
      <4> QED BY <3>1, <4>1, <4>2, <1>b
    <3>2. CASE c = b /\ j = Len(record'[b]) /\ record'[c][j] = e
      BY <3>2, <2>0
    <3> QED BY <2>1, <3>1, <3>2
  <2>3. ClassicRequestsOnce'
    BY <1>0, <2>0, <2>1 DEF ClassicRequestsOnce
  <2>4. ClassicModelsOnce'
    BY <1>0, <2>0, <2>1 DEF ClassicModelsOnce
  <2> QED BY <2>2, <2>3, <2>4 DEF ClassicRecord
<1> QED BY <1>1, <1>2

(* The boards stay backed when an entry is stored. *)
LEMMA ClassicGamesGrow ==
  ASSUME Classic!TypeOK, ClassicGames, NEW b \in Classic!Boards, NEW e \in Classic!Entry,
         requests' \in Nat, requests <= requests', UNCHANGED <<games, raced>>,
         record' = record \/ ClassicNew(b, e)
  PROVE  ClassicGames'
<1>1. ASSUME NEW c \in Classic!Boards, NEW i \in DOMAIN games[c].guesses
      PROVE  /\ games[c].guesses[i].req <= requests'
             /\ ClassicStored(record'[c], games[c].guesses[i])
             /\ ~raced => ClassicSame(record'[c], games[c].guesses[i])
  <2> DEFINE g == games[c].guesses[i]
  <2>1. /\ g.req <= requests /\ ClassicStored(record[c], g)
        /\ ~raced => ClassicSame(record[c], g)
    BY DEF ClassicGames, ClassicGame
  <2>2. g.req \in Nat
    BY ClassicLens DEF Classic!Entry
  <2> HIDE DEF g
  <2>3. \A j \in DOMAIN record[c] : j \in DOMAIN record'[c] /\ record'[c][j] = record[c][j]
    BY ClassicExtended
  <2>4. g.req <= requests'
    BY <2>1, <2>2 DEF Classic!TypeOK
  <2>5. ClassicStored(record'[c], g) /\ (~raced => ClassicSame(record'[c], g))
    BY <2>1, <2>3 DEF ClassicStored, ClassicSame
  <2> QED BY <2>4, <2>5 DEF g
<1> QED BY <1>1 DEF ClassicGames, ClassicGame

(* A request of the page stays its own when another is stored. *)
LEMMA ClassicMadeGrows ==
  ASSUME Classic!TypeOK, NEW b \in Classic!Boards, NEW e \in Classic!Entry, NEW req \in Nat, NEW m, ClassicOwn(req, m),
         requests' \in Nat, req <= requests', UNCHANGED <<games, raced>>,
         record' = record \/ ClassicNew(b, e), e.req = req => e.model = m
  PROVE  ClassicMade(req, m)'
<1>1. \A c \in Classic!Boards : \A j \in DOMAIN record'[c] :
        \/ j \in DOMAIN record[c] /\ record'[c][j] = record[c][j]
        \/ record'[c][j] = e
  BY ClassicExtended
<1> QED BY <1>1 DEF ClassicMade, ClassicOwn

(* Sending a guess keeps the invariant, whatever becomes of it. *)
LEMMA ClassicSend ==
  ASSUME Classic!TypeOK, ClassicPage, ClassicKept, loader.shown # None, NEW m \in Classic!Models, NEW req \in Nat,
         requests' \in Nat, requests <= requests', req <= requests', ClassicOwn(req, m), Classic!Send(m, req)
  PROVE  Classic!TypeOK' /\ ClassicPage' /\ ClassicKept'
<1> DEFINE b == loader.shown
           num == Len(games[b].guesses) + 1
           e == ClassicEntry(b, req, m, num)
           served == Classic!Served(b, req, m, num)
           recorded == Classic!Recorded(b, req, m, num)
<1>0. /\ pick = None /\ ~games[b].solved /\ retry' = None
      /\ loader' = [loader EXCEPT !.error = FALSE]
      /\ UNCHANGED <<category, difficulty, preference, cache, games, failures, Classic!asked, switches,
                     reloads, blanked, raced>>
  BY DEF Classic!Send
<1>1. PICK out \in {"answered", "unanswered", "unsent"} :
         /\ record' = IF out = "unsent" THEN record ELSE recorded
         /\ pick' = [board |-> b, req |-> req, model |-> m, num |-> num,
                     reply |-> IF out = "answered" THEN served ELSE None]
  BY DEF Classic!Send
<1>2. b \in Classic!Boards /\ num \in Nat
  <2>1. b \in Classic!Boards
    BY DEF Classic!TypeOK, Classic!Loader
  <2> QED BY <2>1, ClassicLens
<1>3. ClassicAnswers(b, req, m, num)
  BY <1>2, ClassicServed
<1>4. /\ e \in Classic!Entry /\ e.req = req /\ e.model = m /\ e.ok = (m = ClassicAnswer[b])
      /\ served \in Classic!Replies \cup {None}
      /\ served # None => served.ok = (m = ClassicAnswer[b])
      /\ \/ recorded = record /\ (served # None => m \in Classic!ModelsOf(record[b]))
         \/ /\ recorded = [record EXCEPT ![b] = Append(@, e)]
            /\ \A c \in Classic!Boards : req \notin Classic!RequestsOf(record[c])
            /\ m \notin Classic!ModelsOf(record[b]) /\ ~Classic!Correct(record[b])
  BY <1>3 DEF ClassicAnswers
<1> HIDE DEF b, num, e, served, recorded
<1>5. /\ record' = record \/ ClassicNew(b, e)
      /\ out = "answered" /\ served # None => m \in Classic!ModelsOf(record[b]) \/ ClassicNew(b, e)
  <2>1. CASE recorded = record /\ (served # None => m \in Classic!ModelsOf(record[b]))
    BY <1>1, <2>1
  <2>2. CASE out = "unsent"
    BY <1>1, <2>2
  <2>3. CASE /\ out # "unsent"
             /\ recorded = [record EXCEPT ![b] = Append(@, e)]
             /\ \A c \in Classic!Boards : req \notin Classic!RequestsOf(record[c])
             /\ m \notin Classic!ModelsOf(record[b]) /\ ~Classic!Correct(record[b])
    <3>1. ClassicNew(b, e)
      BY <1>1, <1>4, <2>3 DEF ClassicNew
    <3> QED BY <3>1
  <2> QED BY <1>4, <2>1, <2>2, <2>3
<1>6. /\ loader' \in Classic!Loader /\ (loader'.loading <=> loader'.fetch # None)
      /\ ClassicPage'
  BY <1>0, ClassicGamesOnly
<1>7. /\ pick' \in Classic!Picks /\ pick' # None /\ pick'.board = b /\ pick'.req = req /\ pick'.model = m
      /\ pick'.reply # None => out = "answered" /\ pick'.reply = served /\ served # None
  <2>1. (IF out = "answered" THEN served ELSE None) \in Classic!Replies \cup {None}
    BY <1>4
  <2>2. pick' \in Classic!Picks
    BY <1>1, <1>2, <2>1 DEF Classic!Picks
  <2>3. pick' # None
    BY <2>2, ClassicGiven DEF Classic!ClassicScreenAssumption
  <2> QED BY <1>1, <2>2, <2>3
<1>8. record' \in [Classic!Boards -> Seq(Classic!Entry)]
  BY <1>2, <1>4, <1>5, ClassicExtended
<1>9. Classic!TypeOK'
  BY <1>0, <1>6, <1>7, <1>8 DEF Classic!TypeOK, Classic!asked
<1>10. ClassicRecord'
  BY <1>2, <1>4, <1>5, ClassicRecordGrows DEF ClassicKept
<1>11. ClassicGames'
  BY <1>0, <1>2, <1>4, <1>5, ClassicGamesGrow DEF ClassicKept
<1>12. ClassicMade(req, m)'
  BY <1>0, <1>2, <1>4, <1>5, ClassicMadeGrows
<1>13. ClassicPick'
  <2>1. ClassicGame(b) /\ games[b].won \in Nat
    BY <1>2 DEF ClassicKept, ClassicGames, Classic!TypeOK, Classic!Game
  <2>2. games[b].won = 0
    BY <2>1, <1>0 DEF ClassicGame, b
  <2>3. ~raced => ~Classic!Correct(games[b].guesses)
    BY <2>1, <1>0 DEF ClassicGame, b
  <2>4. pick'.reply # None => /\ m \in Classic!ModelsOf(record'[b])
                              /\ pick'.reply.ok = (m = ClassicAnswer[b])
    <3> SUFFICES ASSUME pick'.reply # None
                 PROVE  m \in Classic!ModelsOf(record'[b]) /\ pick'.reply.ok = (m = ClassicAnswer[b])
      OBVIOUS
    <3>0. out = "answered" /\ pick'.reply = served /\ served # None
      BY <1>7
    <3>1. /\ served.ok = (m = ClassicAnswer[b]) /\ pick'.reply = served
          /\ m \in Classic!ModelsOf(record[b]) \/ ClassicNew(b, e)
      BY <1>4, <1>5, <3>0
    <3>2. CASE ClassicNew(b, e)
      BY <1>2, <1>4, <3>1, <3>2, ClassicExtended
    <3>3. CASE m \in Classic!ModelsOf(record[b])
      <4>1. \A j \in DOMAIN record[b] : j \in DOMAIN record'[b] /\ record'[b][j] = record[b][j]
        BY <1>2, <1>4, <1>5, ClassicExtended
      <4> QED BY <3>1, <3>3, <4>1 DEF Classic!ModelsOf
    <3> QED BY <3>1, <3>2, <3>3
  <2>5. ClassicMade(pick.req, pick.model)'
    BY <1>7, <1>12 DEF ClassicMade, ClassicOwn
  <2> QED BY <1>0, <1>7, <2>2, <2>3, <2>4, <2>5 DEF ClassicPick
<1>14. ClassicRetry'
  BY <1>0 DEF ClassicRetry
<1> QED BY <1>6, <1>9, <1>10, <1>11, <1>13, <1>14 DEF ClassicKept

(* A guess of the player, or one sent again. *)
LEMMA ClassicPicks ==
  ASSUME ClassicInv, Classic!PickAgain \/ \E m \in Classic!Models : Classic!Pick(m)
  PROVE  ClassicInv'
<1>0. Classic!TypeOK /\ ClassicPage /\ ClassicKept
  BY DEF ClassicInv
<1>1. ASSUME NEW m \in Classic!Models, Classic!Pick(m) PROVE ClassicInv'
  <2>1. /\ loader.shown # None /\ requests' = requests + 1 /\ Classic!Send(m, requests + 1)
    BY <1>1 DEF Classic!Pick
  <2>2. requests \in Nat /\ requests + 1 \in Nat
    BY <1>0 DEF Classic!TypeOK
  <2>3. ASSUME NEW c \in Classic!Boards, NEW j \in DOMAIN record[c] PROVE record[c][j].req # requests + 1
    <3>1. record[c][j].req <= requests /\ record[c][j].req \in Nat
      BY <1>0, ClassicLens DEF ClassicKept, ClassicRecord, ClassicEntries, Classic!Entry
    <3> QED BY <3>1, <2>2
  <2>4. ASSUME NEW c \in Classic!Boards, NEW i \in DOMAIN games[c].guesses
        PROVE  games[c].guesses[i].req # requests + 1
    <3>1. games[c].guesses[i].req <= requests /\ games[c].guesses[i].req \in Nat
      BY <1>0, ClassicLens DEF ClassicKept, ClassicGames, ClassicGame, Classic!Entry
    <3> QED BY <3>1, <2>2
  <2>5. ClassicOwn(requests + 1, m)
    BY <2>3, <2>4 DEF ClassicOwn, Classic!RequestsOf
  <2>6. /\ requests + 1 <= requests' /\ requests <= requests' /\ requests' \in Nat
    BY <2>1, <2>2
  <2> QED BY <1>0, <2>1, <2>2, <2>5, <2>6, ClassicSend DEF ClassicInv
<1>2. CASE Classic!PickAgain
  <2>1. /\ loader.shown # None /\ retry # None /\ Classic!Send(retry.model, retry.req)
        /\ requests' = requests
    BY <1>2 DEF Classic!PickAgain
  <2>2. /\ retry.model \in Classic!Models /\ retry.req \in Nat /\ requests \in Nat
    BY <1>0, <2>1 DEF Classic!TypeOK, Classic!Retries
  <2>3. ClassicMade(retry.req, retry.model)
    BY <1>0, <2>1 DEF ClassicKept, ClassicRetry
  <2>4. retry.req <= requests' /\ requests <= requests' /\ requests' \in Nat
    BY <2>1, <2>2, <2>3 DEF ClassicMade
  <2> QED BY <1>0, <2>1, <2>2, <2>3, <2>4, ClassicSend DEF ClassicInv, ClassicMade
<1> QED BY <1>1, <1>2

(* A guess of the same player on another device. *)
LEMMA ClassicElsewhere ==
  ASSUME ClassicInv, NEW b \in Classic!Boards, NEW m \in Classic!Models, Classic!Elsewhere(b, m)
  PROVE  ClassicInv'
<1> DEFINE num == Len(record[b]) + 1
           req == requests + 1
           e == ClassicEntry(b, req, m, num)
           recorded == Classic!Recorded(b, req, m, num)
<1>0. Classic!TypeOK /\ ClassicPage /\ ClassicKept
  BY DEF ClassicInv
<1>1. /\ requests' = requests + 1 /\ recorded # record /\ record' = recorded
      /\ UNCHANGED <<Classic!page, Classic!board, Classic!asked, switches, reloads, blanked, raced>>
  BY DEF Classic!Elsewhere
<1>2. requests \in Nat /\ req \in Nat /\ num \in Nat /\ requests' \in Nat /\ requests <= requests'
  BY <1>0, <1>1, ClassicLens DEF Classic!TypeOK
<1>3. ClassicAnswers(b, req, m, num)
  BY <1>0, <1>2, ClassicServed
<1>4. /\ e \in Classic!Entry /\ e.req = req /\ e.model = m /\ e.ok = (m = ClassicAnswer[b])
      /\ \/ recorded = record
         \/ /\ recorded = [record EXCEPT ![b] = Append(@, e)]
            /\ \A c \in Classic!Boards : req \notin Classic!RequestsOf(record[c])
            /\ m \notin Classic!ModelsOf(record[b]) /\ ~Classic!Correct(record[b])
  BY <1>3 DEF ClassicAnswers
<1>5. e.req <= requests'
  BY <1>1, <1>2, <1>4
<1> HIDE DEF num, e, recorded
<1>6. ClassicNew(b, e)
  BY <1>1, <1>4 DEF ClassicNew
<1>7. record' \in [Classic!Boards -> Seq(Classic!Entry)]
  BY <1>0, <1>4, <1>6, ClassicExtended
<1>8. Classic!TypeOK'
  BY <1>0, <1>1, <1>2, <1>7 DEF Classic!TypeOK, Classic!page, Classic!board, Classic!asked
<1>9. ClassicPage'
  BY <1>0, <1>1 DEF ClassicPage, ClassicLoads, Classic!SettledShowsSelected, Classic!page
<1>10. ClassicRecord'
  BY <1>0, <1>2, <1>4, <1>5, <1>6, ClassicRecordGrows DEF ClassicKept
<1>11. UNCHANGED <<games, raced, pick, retry>>
  BY <1>1 DEF Classic!board
<1>12. ClassicGames'
  BY <1>0, <1>2, <1>4, <1>6, <1>11, ClassicGamesGrow DEF ClassicKept
<1>13. ASSUME NEW r \in Nat, NEW k, ClassicMade(r, k) PROVE ClassicMade(r, k)'
  <2>1. r # req /\ r <= requests'
    BY <1>1, <1>2, <1>13 DEF ClassicMade
  <2> QED BY <1>0, <1>2, <1>4, <1>6, <1>11, <1>13, <2>1, ClassicMadeGrows DEF ClassicMade
<1>14. ClassicRetry'
  <2>1. retry # None => retry.req \in Nat
    BY <1>0 DEF Classic!TypeOK, Classic!Retries
  <2> QED BY <1>0, <1>11, <1>13, <2>1 DEF ClassicKept, ClassicRetry
<1>15. ClassicPick'
  <2> SUFFICES ASSUME pick # None PROVE ClassicPick'
    BY <1>11 DEF ClassicPick
  <2>1. pick.req \in Nat /\ pick.board \in Classic!Boards
    BY <1>0 DEF Classic!TypeOK, Classic!Picks
  <2>2. /\ retry = None /\ ClassicMade(pick.req, pick.model)
        /\ games[pick.board].won = 0
        /\ ~raced /\ pick.req \in Classic!RequestsOf(record[pick.board]) => ~Classic!Correct(games[pick.board].guesses)
        /\ pick.reply # None => /\ pick.model \in Classic!ModelsOf(record[pick.board])
                                /\ pick.reply.ok = (pick.model = ClassicAnswer[pick.board])
    BY <1>0 DEF ClassicKept, ClassicPick
  <2>3. ClassicMade(pick.req, pick.model)'
    <3>1. ASSUME NEW r, NEW k, r = pick.req, k = pick.model PROVE ClassicMade(r, k)'
      BY <1>13, <2>1, <2>2, <3>1
    <3> QED BY <1>11, <3>1 DEF ClassicMade, ClassicOwn
  <2>4. pick.req # req
    BY <1>2, <2>1, <2>2 DEF ClassicMade
  <2>5. \A j \in DOMAIN record[pick.board] :
          j \in DOMAIN record'[pick.board] /\ record'[pick.board][j] = record[pick.board][j]
    BY <1>0, <1>4, <1>6, <2>1, ClassicExtended
  <2>6. \A j \in DOMAIN record'[pick.board] :
           \/ j \in DOMAIN record[pick.board] /\ record'[pick.board][j] = record[pick.board][j]
           \/ record'[pick.board][j] = e
    BY <1>0, <1>4, <1>6, <2>1, ClassicExtended
  <2>7. pick.req \in Classic!RequestsOf(record'[pick.board]) => pick.req \in Classic!RequestsOf(record[pick.board])
    BY <1>4, <2>4, <2>6 DEF Classic!RequestsOf
  <2>8. pick.model \in Classic!ModelsOf(record[pick.board]) => pick.model \in Classic!ModelsOf(record'[pick.board])
    BY <2>5 DEF Classic!ModelsOf
  <2> QED BY <1>11, <2>2, <2>3, <2>7, <2>8 DEF ClassicPick, ClassicMade, ClassicOwn
<1> QED BY <1>8, <1>9, <1>10, <1>12, <1>14, <1>15 DEF ClassicInv, ClassicKept

(* A guess without an answer. *)
LEMMA ClassicPickFails ==
  ASSUME ClassicInv, Classic!PickFails
  PROVE  ClassicInv'
<1>0. Classic!TypeOK /\ ClassicPage /\ ClassicKept
  BY DEF ClassicInv
<1> DEFINE again == failures.model = pick.model
<1>1. /\ pick # None /\ pick' = None
      /\ failures' = [model |-> pick.model, count |-> IF again THEN 2 ELSE 1]
      /\ IF again
           THEN /\ retry' = [req |-> pick.req, model |-> pick.model]
                /\ loader' = [loader EXCEPT !.error = TRUE]
           ELSE UNCHANGED <<retry, loader>>
      /\ UNCHANGED <<category, difficulty, preference, cache, games, Classic!asked, record, switches,
                     requests, reloads, blanked, raced>>
  BY DEF Classic!PickFails
<1> HIDE DEF again
<1>2. pick.req \in Nat /\ pick.model \in Classic!Models
  BY <1>0, <1>1 DEF Classic!TypeOK, Classic!Picks
<1>3. retry = None /\ ClassicMade(pick.req, pick.model)
  BY <1>0, <1>1 DEF ClassicKept, ClassicPick
<1>4. loader' \in Classic!Loader /\ (loader'.loading <=> loader'.fetch # None) /\ ClassicPage'
  <2>1. CASE again
    BY <1>0, <1>1, <2>1, ClassicGamesOnly
  <2>2. CASE ~again
    BY <1>0, <1>1, <2>2 DEF Classic!TypeOK, ClassicPage, ClassicLoads, Classic!SettledShowsSelected
  <2> QED BY <2>1, <2>2
<1>5. /\ retry' \in Classic!Retries \cup {None}
      /\ retry' # None => again /\ retry'.req = pick.req /\ retry'.model = pick.model
  BY <1>1, <1>2, <1>3 DEF Classic!Retries
<1>6. Classic!TypeOK'
  <2>1. failures' \in [model : Classic!Models \cup {None}, count : 0..2]
    BY <1>1, <1>2
  <2> QED BY <1>0, <1>1, <1>4, <1>5, <2>1 DEF Classic!TypeOK, Classic!asked
<1>7. ClassicRecord'
  BY <1>0, <1>1 DEF ClassicKept, ClassicRecord, ClassicEntries, ClassicRequestsOnce,
                    ClassicModelsOnce
<1>8. ClassicGames'
  BY <1>0, <1>1 DEF ClassicKept, ClassicGames, ClassicGame
<1>9. ClassicRetry'
  BY <1>1, <1>3, <1>5 DEF ClassicRetry, ClassicMade, ClassicOwn
<1> QED BY <1>1, <1>4, <1>6, <1>7, <1>8, <1>9 DEF ClassicInv, ClassicKept, ClassicPick

(* A guess that is answered. *)
LEMMA ClassicPickAnswer ==
  ASSUME ClassicInv, Classic!PickAnswer
  PROVE  ClassicInv'
<1>0. Classic!TypeOK /\ ClassicPage /\ ClassicKept
  BY DEF ClassicInv
<1>a. pick # None /\ pick.board \in Classic!Boards
  BY <1>0 DEF Classic!PickAnswer, Classic!TypeOK, Classic!Picks
<1>b. PICK b \in Classic!Boards : b = pick.board
  BY <1>a
<1> DEFINE entry == [req |-> pick.req, model |-> pick.model, num |-> pick.num, ok |-> pick.reply.ok]
           old == games[b].guesses
           all == Append(old, entry)
           won == IF entry.ok THEN games[b].won + 1 ELSE games[b].won
           one == [guesses |-> all, solved |-> entry.ok, won |-> won]
<1>1. /\ pick # None /\ pick.reply # None /\ pick' = None
      /\ games' = [games EXCEPT ![b] = one]
      /\ failures' = [model |-> None, count |-> 0]
      /\ raced' = (raced \/ entry.req \notin Classic!RequestsOf(record[b]))
      /\ UNCHANGED <<Classic!page, retry, Classic!asked, record, switches, requests, reloads, blanked>>
  BY <1>b DEF Classic!PickAnswer, Classic!AnsweredBoard
<1>2. /\ pick.req \in Nat /\ pick.model \in Classic!Models /\ pick.num \in Nat
      /\ pick.reply.ok \in BOOLEAN
  BY <1>0, <1>1 DEF Classic!TypeOK, Classic!Picks, Classic!Replies
<1>3. /\ retry = None /\ ClassicMade(pick.req, pick.model)
      /\ games[b].won = 0
      /\ ~raced /\ pick.req \in Classic!RequestsOf(record[b]) => ~Classic!Correct(old)
      /\ pick.model \in Classic!ModelsOf(record[b])
      /\ pick.reply.ok = (pick.model = ClassicAnswer[b])
  BY <1>0, <1>1, <1>b DEF ClassicKept, ClassicPick
<1>4. /\ entry \in Classic!Entry /\ entry.req = pick.req /\ entry.model = pick.model
      /\ entry.ok = (pick.model = ClassicAnswer[b]) /\ entry.ok \in BOOLEAN
  BY <1>2, <1>3 DEF Classic!Entry
<1> HIDE DEF entry
<1>5. /\ old \in Seq(Classic!Entry) /\ all \in Seq(Classic!Entry) /\ Len(old) \in Nat
      /\ DOMAIN all = DOMAIN old \cup {Len(old) + 1}
      /\ \A i \in DOMAIN old : all[i] = old[i] /\ i # Len(old) + 1
      /\ all[Len(old) + 1] = entry
  <2>1. old \in Seq(Classic!Entry)
    BY <1>0, <1>2, ClassicLens
  <2>2. /\ all \in Seq(Classic!Entry) /\ Len(old) \in Nat
        /\ DOMAIN all = DOMAIN old \cup {Len(old) + 1}
        /\ DOMAIN old = 1..Len(old)
        /\ \A i \in DOMAIN old : all[i] = old[i]
        /\ all[Len(old) + 1] = entry
    BY <1>4, <2>1, ClassicAppended
  <2> HIDE DEF old, all
  <2> QED BY <2>1, <2>2
<1>6. won \in Nat /\ won <= 1 /\ (won = 1 => entry.ok)
  BY <1>3, <1>4
<1> HIDE DEF won, all
<1>7. /\ one \in Classic!Game /\ games' \in [Classic!Boards -> Classic!Game]
      /\ games'[b] = one /\ \A c \in Classic!Boards : c # b => games'[c] = games[c]
  <2>1. one \in Classic!Game
    BY <1>4, <1>5, <1>6 DEF Classic!Game
  <2> QED BY <2>1, <1>0, <1>1, <1>2 DEF Classic!TypeOK
<1>8. Classic!TypeOK'
  BY <1>0, <1>1, <1>3, <1>7 DEF Classic!TypeOK, Classic!page, Classic!asked
<1>9. ClassicPage'
  BY <1>0, <1>1 DEF ClassicPage, ClassicLoads, Classic!SettledShowsSelected, Classic!page
<1>10. ClassicRecord'
  BY <1>0, <1>1 DEF ClassicKept, ClassicRecord, ClassicEntries, ClassicRequestsOnce,
                    ClassicModelsOnce
<1>11. ClassicPick' /\ ClassicRetry'
  BY <1>1, <1>3 DEF ClassicPick, ClassicRetry
<1>12. ~raced' => ~raced /\ pick.req \in Classic!RequestsOf(record[b])
  BY <1>1, <1>4
<1>13. /\ entry.req <= requests
       /\ ClassicStored(record[b], entry) /\ (~raced' => ClassicSame(record[b], entry))
  <2>1. entry.req <= requests
    BY <1>3, <1>4 DEF ClassicMade
  <2>2. \A j \in DOMAIN record[b] : record[b][j].model = pick.model =>
           record[b][j].ok = entry.ok /\ record[b][j].model = entry.model
    BY <1>0, <1>4 DEF ClassicKept, ClassicRecord, ClassicEntries
  <2>3. ClassicStored(record[b], entry)
    BY <1>3, <2>2 DEF Classic!ModelsOf, ClassicStored
  <2>4. ~raced' => ClassicSame(record[b], entry)
    BY <1>3, <1>4, <1>12, <2>2 DEF Classic!RequestsOf, ClassicMade, ClassicOwn, ClassicSame
  <2> QED BY <2>1, <2>3, <2>4
<1>14. UNCHANGED <<record, requests>>
  BY <1>1
<1>15. ASSUME NEW c \in Classic!Boards, c # b PROVE ClassicGame(c)'
  BY <1>0, <1>7, <1>12, <1>14, <1>15 DEF ClassicKept, ClassicGames, ClassicGame
<1>16. ClassicGame(b)'
  <2>0. ClassicGame(b)
    BY <1>0 DEF ClassicKept, ClassicGames
  <2>1. games'[b].guesses = all /\ games'[b].solved = entry.ok /\ games'[b].won = won
    BY <1>7
  <2>2. ASSUME NEW i \in DOMAIN all
        PROVE  /\ all[i].req <= requests /\ ClassicStored(record[b], all[i])
               /\ ~raced' => ClassicSame(record[b], all[i])
    <3>1. CASE i \in DOMAIN old
      BY <1>5, <1>12, <2>0, <3>1 DEF ClassicGame
    <3>2. CASE i = Len(old) + 1
      BY <1>5, <1>13, <3>2
    <3> QED BY <1>5, <3>1, <3>2
  <2>3. entry.ok => Classic!Correct(all)
    BY <1>5 DEF Classic!Correct
  <2>4. ~raced' => (Classic!Correct(all) => entry.ok)
    <3> SUFFICES ASSUME ~raced', NEW i \in DOMAIN all, all[i].ok PROVE entry.ok
      BY DEF Classic!Correct
    <3>1. i \in DOMAIN old => Classic!Correct(old)
      BY <1>5 DEF Classic!Correct
    <3> QED BY <1>3, <1>5, <1>12, <3>1
  <2>5. ~raced' => \A i \in DOMAIN old : old[i].model # entry.model
    <3> SUFFICES ASSUME ~raced', NEW i \in DOMAIN old, old[i].model = entry.model PROVE FALSE
      OBVIOUS
    <3>1. ~raced /\ pick.req \in Classic!RequestsOf(record[b])
      BY <1>12
    <3>2. PICK k \in DOMAIN record[b] : record[b][k].req = pick.req
      BY <3>1 DEF Classic!RequestsOf
    <3>3. record[b][k].model = pick.model
      BY <1>3, <3>2 DEF ClassicMade, ClassicOwn
    <3>4. PICK j \in DOMAIN record[b] : record[b][j].model = old[i].model /\ record[b][j].req = old[i].req
      BY <2>0, <3>1 DEF ClassicGame, ClassicSame
    <3>5. j = k
      BY <1>0, <1>4, <3>3, <3>4 DEF ClassicKept, ClassicRecord, ClassicModelsOnce
    <3>6. pick.req \in Classic!RequestsOf(old)
      BY <3>2, <3>4, <3>5 DEF Classic!RequestsOf
    <3> QED BY <1>3, <3>1, <3>6 DEF ClassicMade, ClassicOwn
  <2>6. ~raced' => \A i, j \in DOMAIN all : all[i].model = all[j].model => i = j
    <3> SUFFICES ASSUME ~raced', NEW i \in DOMAIN all, NEW j \in DOMAIN all, all[i].model = all[j].model
                 PROVE  i = j
      OBVIOUS
    <3>1. \A k, l \in DOMAIN old : old[k].model = old[l].model => k = l
      BY <1>12, <2>0 DEF ClassicGame
    <3> HIDE DEF old
    <3> QED BY <1>5, <2>5, <3>1
  <2> QED BY <1>6, <1>14, <2>1, <2>2, <2>3, <2>4, <2>6 DEF ClassicGame
<1>17. ClassicGames'
  BY <1>15, <1>16 DEF ClassicGames
<1> QED BY <1>8, <1>9, <1>10, <1>11, <1>17 DEF ClassicInv, ClassicKept

(* The first entries of a record. *)
LEMMA ClassicPrefix ==
  ASSUME NEW s \in Seq(Classic!Entry), NEW n \in Nat, n <= Len(s)
  PROVE  /\ SubSeq(s, 1, n) \in Seq(Classic!Entry) /\ Len(SubSeq(s, 1, n)) = n
         /\ \A i \in 1..n : SubSeq(s, 1, n)[i] = s[i]
<1>1. Len(s) \in Nat /\ \A i \in 1..Len(s) : s[i] \in Classic!Entry
  BY LenProperties, ElementOfSeq
<1>2. SubSeq(s, 1, n) = [i \in 1..n |-> s[i]]
  BY <1>1
<1>3. \A i \in 1..n : s[i] \in Classic!Entry
  BY <1>1
<1>4. SubSeq(s, 1, n) \in Seq(Classic!Entry)
  BY <1>2, <1>3, IsASeq
<1>5. Len(SubSeq(s, 1, n)) = n
  BY <1>2, <1>3, <1>4, LenProperties
<1> QED BY <1>2, <1>4, <1>5

(* The positions of the first n entries whose requests are not among the   *)
(* guesses, and the sequences they may make with the guesses.              *)
ClassicFound(old, entries, n) == {i \in 1..n : entries[i].req \notin Classic!RequestsOf(old)}

(* The guesses the page may show once a history of n entries has come. *)
ClassicMerges(old, entries, n) ==
  Classic!ByNumber(old \o SubSeq(entries, 1, n),
                   DOMAIN old \cup {Len(old) + i : i \in Classic!Restored(SubSeq(entries, 1, n), old)})

(* Each guess at the positions kept is there, once. *)
ClassicArranged(s, kept, all) ==
  \E p : /\ \A k \in DOMAIN all : p[k] \in kept /\ all[k] = s[p[k]]
         /\ \A k, l \in DOMAIN all : p[k] = p[l] => k = l
         /\ \A i \in kept : \E k \in DOMAIN all : p[k] = i

(* Sorting by number keeps the guesses that are kept, each once. *)
LEMMA ClassicSorted ==
  ASSUME NEW s \in Seq(Classic!Entry), NEW kept \in SUBSET DOMAIN s, NEW all \in Classic!ByNumber(s, kept)
  PROVE  all \in Seq(Classic!Entry) /\ ClassicArranged(s, kept, all)
<1>1. Len(s) \in Nat /\ DOMAIN s = 1..Len(s) /\ \A i \in DOMAIN s : s[i] \in Classic!Entry
  BY LenProperties, ElementOfSeq
<1>2. Cardinality(kept) \in Nat
  <2>1. IsFiniteSet(1..Len(s))
    BY <1>1, FS_Interval
  <2>2. IsFiniteSet(kept)
    BY <1>1, <2>1, FS_Subset
  <2> QED BY <2>2, FS_CardinalityType
<1> Classic!Cardinality(kept) = Cardinality(kept)
  BY DEF Classic!Cardinality, Cardinality
<1>3. PICK p \in Classic!Bijection(1..Cardinality(kept), kept) : all = [k \in DOMAIN p |-> s[p[k]]]
  BY DEF Classic!ByNumber
<1>4. /\ p \in [1..Cardinality(kept) -> kept]
      /\ \A k, l \in 1..Cardinality(kept) : p[k] = p[l] => k = l
      /\ \A i \in kept : \E k \in 1..Cardinality(kept) : p[k] = i
  BY <1>3 DEF Classic!Bijection, Classic!Injection, Classic!Surjection, Classic!IsInjective
<1>5. DOMAIN p = 1..Cardinality(kept) /\ \A k \in 1..Cardinality(kept) : p[k] \in kept
  BY <1>4
<1>6. all = [k \in 1..Cardinality(kept) |-> s[p[k]]]
  BY <1>3, <1>5
<1>7. \A k \in 1..Cardinality(kept) : s[p[k]] \in Classic!Entry
  BY <1>1, <1>5
<1>8. all \in Seq(Classic!Entry)
  BY <1>2, <1>6, <1>7, IsASeq
<1>9. DOMAIN all = 1..Cardinality(kept) /\ \A k \in DOMAIN all : all[k] = s[p[k]]
  BY <1>6
<1>10. /\ \A k \in DOMAIN all : p[k] \in kept /\ all[k] = s[p[k]]
       /\ \A k, l \in DOMAIN all : p[k] = p[l] => k = l
       /\ \A i \in kept : \E k \in DOMAIN all : p[k] = i
  BY <1>4, <1>5, <1>9
<1> QED BY <1>8, <1>10 DEF ClassicArranged

(* The guesses after that come from either, each position once. *)
ClassicJoined(old, entries, n, all) ==
  \E p : /\ \A k \in DOMAIN all :
              \/ p[k] \in DOMAIN old /\ all[k] = old[p[k]]
              \/ \E i \in ClassicFound(old, entries, n) : p[k] = Len(old) + i /\ all[k] = entries[i]
         /\ \A k, l \in DOMAIN all : p[k] = p[l] => k = l

(* A merge keeps the guesses of the page and adds those of the history that*)
(* it lacks, each once.                                                    *)
LEMMA ClassicMerged ==
  ASSUME NEW old \in Seq(Classic!Entry), NEW entries \in Seq(Classic!Entry),
         NEW n \in Nat, n <= Len(entries), NEW all \in ClassicMerges(old, entries, n)
  PROVE  /\ all \in Seq(Classic!Entry)
         /\ ClassicJoined(old, entries, n, all)
         /\ \A i \in DOMAIN old : \E k \in DOMAIN all : all[k] = old[i]
<1> DEFINE history == SubSeq(entries, 1, n)
           both == old \o history
           new == ClassicFound(old, entries, n)
           kept == DOMAIN old \cup {Len(old) + i : i \in new}
<1>1. /\ Len(entries) \in Nat /\ \A i \in 1..Len(entries) : entries[i] \in Classic!Entry
      /\ Len(old) \in Nat /\ DOMAIN old = 1..Len(old)
  BY LenProperties, ElementOfSeq
<1>2. /\ history \in Seq(Classic!Entry) /\ Len(history) = n /\ \A i \in 1..n : history[i] = entries[i]
  BY <1>1, ClassicPrefix
<1> HIDE DEF history
<1>3. DOMAIN history = 1..n
  BY <1>2, LenProperties
<1>4. Classic!Restored(history, old) = new
  BY <1>2, <1>3 DEF Classic!Restored, ClassicFound
<1>5. new \subseteq 1..n
  BY DEF ClassicFound
<1>6. all \in Classic!ByNumber(both, kept)
  BY <1>4 DEF ClassicMerges, history
<1> HIDE DEF new
<1>7. /\ both \in Seq(Classic!Entry) /\ Len(both) = Len(old) + n
      /\ \A i \in 1..(Len(old) + n) : both[i] = IF i <= Len(old) THEN old[i] ELSE history[i - Len(old)]
  BY <1>2, ConcatProperties
<1> HIDE DEF both
<1>8. \A i \in DOMAIN old : both[i] = old[i]
  BY <1>1, <1>7
<1>9. \A i \in 1..n : both[Len(old) + i] = entries[i]
  <2> SUFFICES ASSUME NEW i \in 1..n PROVE both[Len(old) + i] = entries[i]
    OBVIOUS
  <2>1. Len(old) + i \in 1..(Len(old) + n) /\ ~(Len(old) + i <= Len(old)) /\ Len(old) + i - Len(old) = i
    BY <1>1
  <2>2. both[Len(old) + i] = history[Len(old) + i - Len(old)]
    BY <1>7, <2>1
  <2> QED BY <1>2, <2>1, <2>2
<1>10. kept \in SUBSET DOMAIN both
  <2>1. DOMAIN both = 1..(Len(old) + n)
    BY <1>7, LenProperties
  <2> QED BY <1>1, <1>5, <2>1
<1> HIDE DEF kept
<1>11. all \in Seq(Classic!Entry) /\ ClassicArranged(both, kept, all)
  BY <1>6, <1>7, <1>10, ClassicSorted
<1>12. PICK p : /\ \A k \in DOMAIN all : p[k] \in kept /\ all[k] = both[p[k]]
                /\ \A k, l \in DOMAIN all : p[k] = p[l] => k = l
                /\ \A i \in kept : \E k \in DOMAIN all : p[k] = i
  BY <1>11 DEF ClassicArranged
<1>13. \A i : i \in kept <=> i \in DOMAIN old \/ \E j \in new : i = Len(old) + j
  BY DEF kept
<1>14. ASSUME NEW k \in DOMAIN all
       PROVE  \/ p[k] \in DOMAIN old /\ all[k] = old[p[k]]
              \/ \E i \in new : p[k] = Len(old) + i /\ all[k] = entries[i]
  <2>1. p[k] \in kept /\ all[k] = both[p[k]]
    BY <1>12
  <2> QED BY <2>1, <1>5, <1>8, <1>9, <1>13
<1>15. ASSUME NEW i \in DOMAIN old PROVE \E k \in DOMAIN all : all[k] = old[i]
  BY <1>8, <1>12, <1>13
<1>16. \E q : /\ \A k \in DOMAIN all : \/ q[k] \in DOMAIN old /\ all[k] = old[q[k]]
                                       \/ \E i \in new : q[k] = Len(old) + i /\ all[k] = entries[i]
              /\ \A k, l \in DOMAIN all : q[k] = q[l] => k = l
  BY <1>12, <1>14
<1> QED BY <1>11, <1>15, <1>16 DEF new, ClassicJoined

(* A request that is not on the page is not brought by a history that      *)
(* meets no guess being sent.                                              *)
LEMMA ClassicHistoryAnswer ==
  ASSUME ClassicInv, NEW b \in Classic!Boards, Classic!HistoryAnswer(b)
  PROVE  ClassicInv'
<1>0. Classic!TypeOK /\ ClassicPage /\ ClassicKept
  BY DEF ClassicInv
<1> DEFINE old == games[b].guesses
           entries == record[b]
           waiting == (IF pick = None THEN {} ELSE {pick.model})
                        \cup (IF retry = None THEN {} ELSE {retry.model})
           Changed(all) == games' = [games EXCEPT ![b] = [@ EXCEPT !.guesses = all, !.solved = Classic!Correct(all)]]
<1>1. /\ old \in Seq(Classic!Entry) /\ Len(old) \in Nat /\ entries \in Seq(Classic!Entry) /\ Len(entries) \in Nat
      /\ DOMAIN entries = 1..Len(entries) /\ \A i \in DOMAIN entries : entries[i] \in Classic!Entry
  BY <1>0, ClassicLens
<1>2. histories[b] \in Nat
  BY <1>0 DEF Classic!HistoryAnswer, Classic!TypeOK
<1>3. PICK n \in histories[b]..Len(entries) :
        LET history == SubSeq(entries, 1, n)
            new == Classic!Restored(history, old)
        IN  /\ \/ new = {} /\ games' = games
               \/ /\ new # {}
                  /\ \E all \in ClassicMerges(old, entries, n) : Changed(all)
            /\ raced' = (raced \/ \E i \in new : history[i].model \in waiting)
  BY DEF Classic!HistoryAnswer, ClassicMerges
<1>4. n \in Nat /\ n <= Len(entries)
  BY <1>1, <1>2
<1> DEFINE new == ClassicFound(old, entries, n)
<1>5. \A i \in new : i \in DOMAIN entries /\ entries[i].req \notin Classic!RequestsOf(old) /\ i \in 1..n
  BY <1>1, <1>4 DEF ClassicFound
<1>6. /\ Classic!Restored(SubSeq(entries, 1, n), old) = new
      /\ \A i \in new : SubSeq(entries, 1, n)[i] = entries[i]
  <2> DEFINE history == SubSeq(entries, 1, n)
  <2>1. /\ history \in Seq(Classic!Entry) /\ Len(history) = n /\ \A i \in 1..n : history[i] = entries[i]
    BY <1>1, <1>4, ClassicPrefix
  <2> HIDE DEF history
  <2>2. DOMAIN history = 1..n
    BY <2>1, LenProperties
  <2>3. Classic!Restored(history, old) = new
    BY <2>1, <2>2 DEF Classic!Restored, ClassicFound
  <2> QED BY <1>5, <2>1, <2>3 DEF history
<1>7. /\ \/ new = {} /\ games' = games
         \/ \E all \in ClassicMerges(old, entries, n) : Changed(all)
      /\ raced' = (raced \/ \E i \in new : entries[i].model \in waiting)
  <2> HIDE DEF Changed, old, entries, waiting, new
  <2> QED BY <1>3, <1>6
<1>8. /\ histories' = [histories EXCEPT ![b] = None]
      /\ UNCHANGED <<Classic!page, pick, retry, failures, hydrated, record, switches, requests, reloads,
                     blanked>>
  BY DEF Classic!HistoryAnswer
<1>9. histories' \in [Classic!Boards -> Nat \cup {None}] /\ raced' \in BOOLEAN
  BY <1>0, <1>7, <1>8 DEF Classic!TypeOK
<1>10. ClassicPage'
  BY <1>0, <1>8 DEF ClassicPage, ClassicLoads, Classic!SettledShowsSelected, Classic!page
<1>11. CASE new = {} /\ games' = games
  <2>1. raced' = raced
    BY <1>0, <1>7, <1>11 DEF Classic!TypeOK
  <2>2. ClassicKept'
    BY <1>0, <1>8, <1>11, <2>1, ClassicLoaderOnly
  <2>3. Classic!TypeOK'
    BY <1>0, <1>8, <1>9, <1>11 DEF Classic!TypeOK, Classic!page
  <2> QED BY <1>10, <2>2, <2>3 DEF ClassicInv
<1>12. CASE \E all \in ClassicMerges(old, entries, n) : Changed(all)
  <2>1. PICK all \in ClassicMerges(old, entries, n) : Changed(all)
    BY <1>12
  <2>2. /\ all \in Seq(Classic!Entry) /\ ClassicJoined(old, entries, n, all)
        /\ \A i \in DOMAIN old : \E k \in DOMAIN all : all[k] = old[i]
    BY <1>1, <1>4, ClassicMerged
  <2>3. PICK p : /\ \A k \in DOMAIN all :
                       \/ p[k] \in DOMAIN old /\ all[k] = old[p[k]]
                       \/ \E i \in new : p[k] = Len(old) + i /\ all[k] = entries[i]
                 /\ \A k, l \in DOMAIN all : p[k] = p[l] => k = l
    BY <2>2 DEF ClassicJoined
  <2> HIDE DEF new
  <2>4. /\ games' \in [Classic!Boards -> Classic!Game]
        /\ games'[b].guesses = all /\ games'[b].solved = Classic!Correct(all) /\ games'[b].won = games[b].won
        /\ \A c \in Classic!Boards : c # b => games'[c] = games[c]
    <3> DEFINE one == [games[b] EXCEPT !.guesses = all, !.solved = Classic!Correct(all)]
    <3>1. games[b] \in Classic!Game
      BY <1>0 DEF Classic!TypeOK
    <3>2. Classic!Correct(all) \in BOOLEAN
      BY DEF Classic!Correct
    <3>3. /\ one \in Classic!Game /\ one.guesses = all /\ one.solved = Classic!Correct(all)
          /\ one.won = games[b].won
      BY <2>2, <3>1, <3>2 DEF Classic!Game
    <3>4. games' = [games EXCEPT ![b] = one]
      BY <2>1
    <3> HIDE DEF one
    <3> QED BY <1>0, <3>3, <3>4 DEF Classic!TypeOK
  <2>5. Classic!TypeOK'
    BY <1>0, <1>8, <1>9, <2>4 DEF Classic!TypeOK, Classic!page
  <2>6. ClassicRecord'
    BY <1>0, <1>8 DEF ClassicKept, ClassicRecord, ClassicEntries, ClassicRequestsOnce,
                      ClassicModelsOnce
  <2>7. \A k \in DOMAIN all : \/ \E i \in DOMAIN old : all[k] = old[i]
                              \/ \E i \in new : all[k] = entries[i]
    BY <2>3
  <2>8. ~raced' => ~raced
    BY <1>7
  <2>a. ClassicGame(b) /\ ClassicRecord
    BY <1>0 DEF ClassicKept, ClassicGames
  <2>b. UNCHANGED <<record, requests, pick, retry>>
    BY <1>8
  <2>9. ASSUME NEW r, NEW m, ClassicMade(r, m), m \in waiting
        PROVE  ClassicMade(r, m)'
    <3>1. ~raced' => r \notin Classic!RequestsOf(all)
      <4> SUFFICES ASSUME ~raced', NEW k \in DOMAIN all, all[k].req = r PROVE FALSE
        BY DEF Classic!RequestsOf
      <4>1. r \notin Classic!RequestsOf(old)
        BY <2>8, <2>9 DEF ClassicMade, ClassicOwn
      <4>2. PICK i \in new : all[k] = entries[i]
        BY <2>7, <4>1 DEF Classic!RequestsOf
      <4>3. entries[i].model = m
        BY <1>5, <2>9, <4>2 DEF ClassicMade, ClassicOwn
      <4> QED BY <1>7, <2>9, <4>3
    <3>2. ~raced' => \A c \in Classic!Boards : r \notin Classic!RequestsOf(games'[c].guesses)
      BY <2>4, <2>8, <2>9, <3>1 DEF ClassicMade, ClassicOwn
    <3> QED BY <2>9, <2>b, <3>2 DEF ClassicMade, ClassicOwn
  <2>10. ClassicRetry'
    <3> SUFFICES ASSUME retry # None PROVE ClassicMade(retry.req, retry.model)'
      BY <2>b DEF ClassicRetry
    <3>1. ASSUME NEW r, NEW m, r = retry.req, m = retry.model PROVE ClassicMade(r, m)'
      BY <1>0, <2>9, <3>1 DEF ClassicKept, ClassicRetry
    <3> QED BY <2>b, <3>1 DEF ClassicMade, ClassicOwn
  <2>11. ClassicPick'
    <3> SUFFICES ASSUME pick # None
                 PROVE  /\ retry = None /\ ClassicMade(pick.req, pick.model)'
                        /\ games'[pick.board].won = 0
                        /\ ~raced' /\ pick.req \in Classic!RequestsOf(record[pick.board])
                             => ~Classic!Correct(games'[pick.board].guesses)
                        /\ pick.reply # None => /\ pick.model \in Classic!ModelsOf(record[pick.board])
                                                /\ pick.reply.ok = (pick.model = ClassicAnswer[pick.board])
      BY <2>b DEF ClassicPick
    <3>1. /\ pick.board \in Classic!Boards /\ retry = None /\ ClassicMade(pick.req, pick.model)
          /\ games[pick.board].won = 0
          /\ ~raced /\ pick.req \in Classic!RequestsOf(record[pick.board])
               => ~Classic!Correct(games[pick.board].guesses)
          /\ pick.reply # None => /\ pick.model \in Classic!ModelsOf(record[pick.board])
                                  /\ pick.reply.ok = (pick.model = ClassicAnswer[pick.board])
      BY <1>0 DEF ClassicKept, ClassicPick, Classic!TypeOK, Classic!Picks
    <3>2. ClassicMade(pick.req, pick.model)'
      <4>1. ASSUME NEW r, NEW m, r = pick.req, m = pick.model PROVE ClassicMade(r, m)'
        BY <2>9, <3>1, <4>1
      <4> QED BY <2>b, <4>1 DEF ClassicMade, ClassicOwn
    <3>3. games'[pick.board].won = 0
      BY <2>4, <3>1
    <3>4. ~raced' /\ pick.req \in Classic!RequestsOf(record[pick.board]) => ~Classic!Correct(games'[pick.board].guesses)
      <4>1. CASE pick.board # b
        BY <2>4, <2>8, <3>1, <4>1
      <4>2. CASE pick.board = b
        <5> SUFFICES ASSUME ~raced', pick.req \in Classic!RequestsOf(entries), NEW k \in DOMAIN all, all[k].ok
                     PROVE  FALSE
          BY <2>4, <4>2 DEF Classic!Correct
        <5>1. ~Classic!Correct(old)
          BY <2>8, <3>1, <4>2
        <5>2. PICK i \in new : all[k] = entries[i]
          BY <2>7, <5>1 DEF Classic!Correct
        <5>3. i = Len(entries) /\ i \in 1..n
          BY <1>5, <2>a, <5>2 DEF ClassicRecord, ClassicEntries
        <5>4. PICK j \in DOMAIN entries : entries[j].req = pick.req
          BY DEF Classic!RequestsOf
        <5>5. j \in 1..n
          BY <1>1, <1>4, <5>3
        <5>6. pick.req \notin Classic!RequestsOf(old)
          BY <2>8, <3>1 DEF ClassicMade, ClassicOwn
        <5>7. j \in new
          BY <5>4, <5>5, <5>6 DEF new, ClassicFound
        <5>8. entries[j].model = pick.model
          BY <3>1, <5>4 DEF ClassicMade, ClassicOwn
        <5> QED BY <1>7, <5>7, <5>8
      <4> QED BY <4>1, <4>2
    <3> QED BY <3>1, <3>2, <3>3, <3>4
  <2>12. ASSUME NEW c \in Classic!Boards, c # b PROVE ClassicGame(c)'
    <3>1. ClassicGame(c)
      BY <1>0 DEF ClassicKept, ClassicGames
    <3> QED BY <2>4, <2>8, <2>12, <2>b, <3>1 DEF ClassicGame
  <2>13. ClassicGame(b)'
    <3>1. ASSUME NEW k \in DOMAIN all
          PROVE  /\ all[k].req <= requests /\ ClassicStored(entries, all[k])
                 /\ ~raced' => ClassicSame(entries, all[k])
      <4>1. CASE \E i \in DOMAIN old : all[k] = old[i]
        BY <2>8, <2>a, <4>1 DEF ClassicGame
      <4>2. CASE \E i \in new : all[k] = entries[i]
        <5>1. PICK i \in DOMAIN entries : all[k] = entries[i]
          BY <1>5, <4>2
        <5> QED BY <2>a, <5>1 DEF ClassicRecord, ClassicEntries, ClassicStored, ClassicSame
      <4> QED BY <2>7, <4>1, <4>2
    <3>2. Classic!Correct(old) => Classic!Correct(all)
      BY <2>2 DEF Classic!Correct
    <3>3. games[b].won <= 1 /\ (games[b].won = 1 => Classic!Correct(all))
      BY <2>a, <3>2 DEF ClassicGame
    <3>4. ASSUME ~raced', NEW i \in DOMAIN old, NEW j \in new PROVE old[i].model # entries[j].model
      <4> SUFFICES ASSUME old[i].model = entries[j].model PROVE FALSE
        OBVIOUS
      <4>1. PICK q \in DOMAIN entries : entries[q].model = old[i].model /\ entries[q].req = old[i].req
        BY <2>8, <2>a, <3>4 DEF ClassicGame, ClassicSame
      <4>2. q = j
        BY <1>5, <2>a, <4>1 DEF ClassicRecord, ClassicModelsOnce
      <4> QED BY <1>5, <4>1, <4>2 DEF Classic!RequestsOf
    <3>5. ASSUME ~raced', NEW k \in DOMAIN all, NEW l \in DOMAIN all, all[k].model = all[l].model
          PROVE  k = l
      <4>1. \A i, j \in DOMAIN old : old[i].model = old[j].model => i = j
        BY <2>8, <2>a, <3>5 DEF ClassicGame
      <4>2. \A i, j \in new : entries[i].model = entries[j].model => i = j
        BY <1>5, <2>a DEF ClassicRecord, ClassicModelsOnce
      <4> HIDE DEF old, entries
      <4>3. p[k] = p[l]
        BY <2>3, <3>4, <3>5, <4>1, <4>2
      <4> QED BY <2>3, <4>3
    <3> QED BY <2>4, <2>b, <3>1, <3>3, <3>5 DEF ClassicGame
  <2>14. ClassicGames'
    BY <2>12, <2>13 DEF ClassicGames
  <2> QED BY <1>10, <2>5, <2>6, <2>10, <2>11, <2>14 DEF ClassicInv, ClassicKept
<1> QED BY <1>7, <1>11, <1>12

(* A history that does not come. *)
LEMMA ClassicHistoryFails ==
  ASSUME ClassicInv, NEW b \in Classic!Boards, Classic!HistoryFails(b)
  PROVE  ClassicInv'
<1>1. Classic!TypeOK /\ ClassicPage /\ ClassicKept
  BY DEF ClassicInv
<1>2. /\ histories' = [histories EXCEPT ![b] = None]
      /\ UNCHANGED <<Classic!page, Classic!board, hydrated, record, switches, requests, reloads, blanked, raced>>
  BY DEF Classic!HistoryFails
<1>3. histories' \in [Classic!Boards -> Nat \cup {None}]
  BY <1>1, <1>2 DEF Classic!TypeOK
<1>4. Classic!TypeOK'
  BY <1>1, <1>2, <1>3 DEF Classic!TypeOK, Classic!page, Classic!board
<1>5. ClassicPage'
  BY <1>1, <1>2 DEF ClassicPage, ClassicLoads, Classic!SettledShowsSelected, Classic!page
<1>6. ClassicKept'
  BY <1>1, <1>2, ClassicLoaderOnly DEF Classic!board
<1> QED BY <1>4, <1>5, <1>6 DEF ClassicInv

(* A reload of the page. *)
LEMMA ClassicReload ==
  ASSUME ClassicInv, Classic!Reload
  PROVE  ClassicInv'
<1>1. Classic!TypeOK /\ ClassicKept
  BY DEF ClassicInv
<1>2. /\ reloads' = reloads + 1
      /\ difficulty' = preference /\ cache' = {} /\ loader' = Classic!Fresh(category, preference)
      /\ pick' = None /\ retry' = None /\ failures' = [model |-> None, count |-> 0]
      /\ hydrated' = {} /\ histories' = [b \in Classic!Boards |-> None] /\ blanked' = FALSE
      /\ UNCHANGED <<category, preference, games, record, switches, requests, raced>>
  BY DEF Classic!Reload, Classic!NothingAsked
<1>3. /\ loader' \in Classic!Loader /\ loader'.shown = None /\ loader'.selected = preference
      /\ loader'.fetch = <<category, preference>> /\ loader'.fetch # None /\ loader'.loading
  BY <1>1, <1>2, ClassicFresh DEF Classic!TypeOK
<1>4. Classic!TypeOK'
  <2>1. /\ histories' \in [Classic!Boards -> Nat \cup {None}] /\ hydrated' \subseteq Classic!Boards
        /\ cache' \subseteq Classic!Boards /\ reloads' \in Nat
        /\ failures' \in [model : Classic!Models \cup {None}, count : 0..2]
    BY <1>1, <1>2 DEF Classic!TypeOK
  <2> QED BY <1>1, <1>2, <1>3, <2>1 DEF Classic!TypeOK
<1>5. ClassicPage'
  BY <1>2, <1>3 DEF ClassicPage, ClassicLoads, Classic!SettledShowsSelected
<1>6. ClassicRecord'
  BY <1>1, <1>2 DEF ClassicKept, ClassicRecord, ClassicEntries, ClassicRequestsOnce,
                    ClassicModelsOnce
<1>7. ClassicGames'
  BY <1>1, <1>2 DEF ClassicKept, ClassicGames, ClassicGame
<1> QED BY <1>2, <1>4, <1>5, <1>6, <1>7 DEF ClassicInv, ClassicKept, ClassicPick, ClassicRetry

(* Initially. *)
LEMMA ClassicInit == Classic!Init => ClassicInv
<1> SUFFICES ASSUME Classic!Init PROVE ClassicInv
  OBVIOUS
<1>1. /\ category = ClassicFirst[1] /\ difficulty = ClassicFirst[2]
      /\ preference = difficulty /\ cache = {} /\ loader = Classic!Fresh(category, difficulty)
      /\ games = [b \in Classic!Boards |-> [guesses |-> <<>>, solved |-> FALSE, won |-> 0]]
      /\ pick = None /\ retry = None /\ failures = [model |-> None, count |-> 0]
      /\ hydrated = {} /\ histories = [b \in Classic!Boards |-> None]
      /\ record = [b \in Classic!Boards |-> <<>>]
      /\ switches = 0 /\ requests = 0 /\ reloads = 0 /\ blanked = FALSE /\ raced = FALSE
  BY DEF Classic!Init
<1>2. category \in ClassicCategories /\ difficulty \in ClassicDifficulties
  BY <1>1, ClassicGiven DEF Classic!ClassicScreenAssumption, Classic!Boards
<1>3. /\ loader \in Classic!Loader /\ loader.shown = None /\ loader.selected = difficulty
      /\ loader.fetch = <<category, difficulty>> /\ loader.fetch # None /\ loader.loading
  BY <1>1, <1>2, ClassicFresh
<1>4. <<>> \in Seq(Classic!Entry) /\ DOMAIN <<>> = {}
  BY EmptySeq
<1>5. games \in [Classic!Boards -> Classic!Game] /\ record \in [Classic!Boards -> Seq(Classic!Entry)]
  BY <1>1, <1>4 DEF Classic!Game
<1>6. Classic!TypeOK
  <2>1. failures \in [model : Classic!Models \cup {None}, count : 0..2]
    BY <1>1
  <2>2. histories \in [Classic!Boards -> Nat \cup {None}]
    BY <1>1
  <2> QED BY <1>1, <1>2, <1>3, <1>5, <2>1, <2>2 DEF Classic!TypeOK
<1>7. ClassicPage
  BY <1>1, <1>3 DEF ClassicPage, ClassicLoads, Classic!SettledShowsSelected
<1>8. ClassicRecord
  BY <1>1, <1>4 DEF ClassicRecord, ClassicEntries, ClassicRequestsOnce, ClassicModelsOnce
<1>9. ASSUME NEW b \in Classic!Boards PROVE ClassicGame(b)
  <2>1. games[b].guesses = <<>> /\ games[b].solved = FALSE /\ games[b].won = 0
    BY <1>1
  <2> QED BY <1>4, <2>1 DEF ClassicGame, Classic!Correct
<1> QED BY <1>1, <1>6, <1>7, <1>8, <1>9 DEF ClassicInv, ClassicKept, ClassicPick, ClassicRetry,
                                            ClassicGames

(* Every step of the page keeps the invariant. *)
LEMMA ClassicStep == ClassicInv /\ [Classic!Next]_(Classic!vars) => ClassicInv'
<1> SUFFICES ASSUME ClassicInv, [Classic!Next]_(Classic!vars) PROVE ClassicInv'
  OBVIOUS
<1>0. Classic!TypeOK /\ ClassicPage /\ ClassicKept
  BY DEF ClassicInv
<1>1. ASSUME NEW c \in ClassicCategories, Classic!Render(c) PROVE ClassicInv'
  BY <1>0, <1>1, ClassicRender, ClassicLoaderOnly DEF ClassicInv
<1>2. CASE \/ \E d \in ClassicDifficulties : Classic!SelectDifficulty(d)
           \/ Classic!LoadAnswer \/ Classic!LoadFails \/ Classic!LoadAgain
  BY <1>0, <1>2, ClassicLoaderSteps, ClassicLoaderOnly DEF ClassicInv
<1>3. CASE (\E m \in Classic!Models : Classic!Pick(m)) \/ Classic!PickAgain
  BY <1>3, ClassicPicks
<1>4. CASE Classic!PickAnswer
  BY <1>4, ClassicPickAnswer
<1>5. CASE Classic!PickFails
  BY <1>5, ClassicPickFails
<1>6. ASSUME NEW b \in Classic!Boards, Classic!HistoryAnswer(b) \/ Classic!HistoryFails(b) PROVE ClassicInv'
  BY <1>6, ClassicHistoryAnswer, ClassicHistoryFails
<1>7. ASSUME NEW b \in Classic!Boards, NEW m \in Classic!Models, Classic!Elsewhere(b, m) PROVE ClassicInv'
  BY <1>7, ClassicElsewhere
<1>8. CASE Classic!Reload
  BY <1>8, ClassicReload
<1>9. CASE UNCHANGED Classic!vars
  <2>1. UNCHANGED <<Classic!page, Classic!board, Classic!asked, record, switches, requests, reloads, blanked, raced>>
    BY <1>9 DEF Classic!vars
  <2>2. Classic!TypeOK'
    BY <1>0, <2>1 DEF Classic!TypeOK, Classic!page, Classic!board, Classic!asked
  <2>3. ClassicPage'
    BY <1>0, <2>1 DEF ClassicPage, ClassicLoads, Classic!SettledShowsSelected, Classic!page
  <2>4. ClassicKept'
    BY <1>0, <2>1, ClassicLoaderOnly DEF Classic!board
  <2> QED BY <2>2, <2>3, <2>4 DEF ClassicInv
<1> QED BY <1>1, <1>2, <1>3, <1>4, <1>5, <1>6, <1>7, <1>8, <1>9 DEF Classic!Next

(* What the invariant says of what is shown. *)
LEMMA ClassicShows ==
  ClassicInv => Classic!TypeOK /\ Classic!SettledShowsSelected /\ Classic!BoardBacked /\ Classic!GuessShownOnce
<1> SUFFICES ASSUME ClassicInv PROVE Classic!TypeOK /\ Classic!SettledShowsSelected /\ Classic!BoardBacked /\ Classic!GuessShownOnce
  OBVIOUS
<1>1. Classic!TypeOK /\ Classic!SettledShowsSelected /\ ClassicGames
  BY DEF ClassicInv, ClassicPage, ClassicKept
<1>2. Classic!BoardBacked
  BY <1>1 DEF ClassicGames, ClassicGame, ClassicStored, Classic!BoardBacked
<1>3. Classic!GuessShownOnce
  BY <1>1 DEF ClassicGames, ClassicGame, Classic!GuessShownOnce
<1> QED BY <1>1, <1>2, <1>3

(* The Classic page shows, once it is settled, what was selected; its      *)
(* boards show guesses that the server stored, and no guess twice.         *)
THEOREM ClassicBoardAlways ==
  Classic!Spec => [](Classic!TypeOK /\ Classic!SettledShowsSelected /\ Classic!BoardBacked /\ Classic!GuessShownOnce)
<1> QED BY ClassicInit, ClassicStep, ClassicShows, PTL DEF Classic!Spec

-----------------------------------------------------------------------------
(* The Emoji page. *)
Emoji == INSTANCE EmojiScreen WITH
  Difficulties <- EmojiDifficulties, Entities <- EmojiEntities, Answer <- EmojiAnswer,
  Bounds <- EmojiBounds

(* What the page is given is as its module assumes. *)
ASSUME EmojiGiven == Emoji!EmojiScreenAssumption

(* A board of the cache whose history is there: it lacks at most the guess *)
(* whose answer is on its way.                                             *)
EmojiBoard(d) ==
  IF d = difficulty /\ call # None /\ call.reply # None
    THEN /\ record[d] = Append(cache[d].guesses, [entity |-> call.entity, ok |-> call.reply.ok])
         /\ call.reply.clues = Emoji!Clues(record[d])
    ELSE cache[d].guesses = record[d] /\ cache[d].clues = Emoji!Clues(record[d])

(* A difficulty's board and its history are loaded together, and what the  *)
(* page keeps of it is what the server has, unless the board is unsettled. *)
EmojiKept(d) ==
  /\ d \in hydrated <=> cache[d] # None
  /\ histories[d] # None => d \in hydrated /\ histories[d] <= Len(record[d])
  /\ d \in hydrated \ unsettled /\ (histories[d] = None \/ record[d] = <<>>) => EmojiBoard(d)

(* What is shown is what the cache has. *)
EmojiShown ==
  /\ screen.game # None =>
       /\ difficulty \in hydrated /\ (difficulty = "hardcore" => status = TRUE)
       /\ difficulty \notin unsettled => /\ screen.guesses = cache[difficulty].guesses
                                         /\ screen.clues = cache[difficulty].clues
  /\ screen.fetch # None =>
       /\ screen.game = None /\ screen.loading /\ difficulty \notin hydrated
       /\ difficulty = "hardcore" => status = TRUE
       /\ difficulty \notin unsettled => screen.guesses = <<>>
  /\ call # None => screen.game # None

(* The inductive invariant of the Emoji page. *)
EmojiInv == Emoji!TypeOK /\ (\A d \in EmojiDifficulties : EmojiKept(d)) /\ EmojiShown

(* The screens of a difficulty. *)
EmojiScreens(d) ==
  [game : {None, d}, guesses : Seq(Emoji!Guess), clues : Nat \cup {None}, fetch : {None, d},
   loading : BOOLEAN, error : BOOLEAN, key : EmojiDifficulties \cup {None}, failed : BOOLEAN]

(* How many clues a game shows is a number, or all of them. *)
LEMMA EmojiClues == ASSUME NEW s \in Seq(Emoji!Guess) PROVE Emoji!Clues(s) \in Nat \cup {None}
  BY LenProperties DEF Emoji!Clues

(* What an appended guess leaves of a sequence. *)
LEMMA EmojiAppend ==
  ASSUME NEW s \in Seq(Emoji!Guess), NEW g \in Emoji!Guess
  PROVE  /\ Append(s, g) \in Seq(Emoji!Guess) /\ Append(s, g) # <<>>
         /\ Len(Append(s, g)) = Len(s) + 1 /\ Len(s) \in Nat
  BY AppendProperties, LenProperties

(* A game begins with its first clue only. *)
LEMMA EmojiNoClues == Emoji!Clues(<<>>) = 0
<1>1. Len(<<>>) = 0 /\ DOMAIN <<>> = {}
  BY EmptySeq
<1> QED BY <1>1 DEF Emoji!Clues, Emoji!Solved

(* A screen on which nothing is loaded. *)
LEMMA EmojiUnloaded ==
  ASSUME NEW d \in EmojiDifficulties
  PROVE  /\ Emoji!Unloaded \in EmojiScreens(d)
         /\ Emoji!Unloaded.game = None /\ Emoji!Unloaded.fetch = None /\ Emoji!Unloaded.guesses = <<>>
         /\ Emoji!Unloaded.loading
  BY EmptySeq DEF Emoji!Unloaded, EmojiScreens

(* A screen after the load effect, for a difficulty and a status. *)
EmojiFits(s, d, u) ==
  /\ s \in EmojiScreens(d)
  /\ s.loading => s.fetch = d
  /\ s.game # None => /\ cache[d] # None /\ (d = "hardcore" => u = TRUE)
                      /\ s.guesses = cache[d].guesses /\ s.clues = cache[d].clues
  /\ s.fetch # None => /\ s.game = None /\ s.loading /\ cache[d] = None
                       /\ d = "hardcore" => u = TRUE
                       /\ s.guesses = <<>>
  /\ cache[d] # None /\ (d = "hardcore" => u = TRUE) => s.game # None

(* Loading a difficulty takes its board from the cache, or begins a fetch. *)
LEMMA EmojiLoad ==
  ASSUME Emoji!TypeOK, NEW d \in EmojiDifficulties, NEW u
  PROVE  EmojiFits(Emoji!Load(screen, d, u), d, u)
<1> DEFINE s == Emoji!Load(screen, d, u)
<1> HIDE DEF s
<1> SUFFICES EmojiFits(s, d, u)
  BY DEF s
<1>0. d # None
  BY EmojiGiven DEF Emoji!EmojiScreenAssumption
<1>1. CASE d = "hardcore" /\ u # TRUE
  <2>1. s = [screen EXCEPT !.game = None, !.loading = FALSE, !.fetch = None]
    BY <1>1 DEF s, Emoji!Load
  <2> QED BY <1>1, <2>1 DEF Emoji!TypeOK, EmojiScreens, EmojiFits
<1>2. CASE ~(d = "hardcore" /\ u # TRUE) /\ cache[d] # None
  <2>1. s = [screen EXCEPT !.game = d, !.guesses = cache[d].guesses, !.clues = cache[d].clues,
                           !.error = FALSE, !.loading = FALSE, !.fetch = None]
    BY <1>2 DEF s, Emoji!Load, Emoji!FromCache
  <2>2. cache[d].guesses \in Seq(Emoji!Guess) /\ cache[d].clues \in Nat \cup {None}
    BY <1>2 DEF Emoji!TypeOK, Emoji!Boards
  <2> QED BY <1>0, <1>2, <2>1, <2>2 DEF Emoji!TypeOK, EmojiScreens, EmojiFits
<1>3. CASE ~(d = "hardcore" /\ u # TRUE) /\ cache[d] = None
  <2>1. s = [Emoji!Unloaded EXCEPT !.fetch = d, !.key = d, !.failed = screen.failed /\ screen.key = d]
    BY <1>3 DEF s, Emoji!Load
  <2>2. (screen.failed /\ screen.key = d) \in BOOLEAN
    BY DEF Emoji!TypeOK
  <2> QED BY <1>0, <1>3, <2>1, <2>2, EmojiUnloaded DEF EmojiScreens, EmojiFits
<1> QED BY <1>1, <1>2, <1>3

(* A load effect shows the board of the cache, or asks for it. *)
LEMMA EmojiLoaded ==
  ASSUME EmojiInv, NEW d \in EmojiDifficulties, NEW u \in {None, access},
         screen' = Emoji!Load(screen, d, u), difficulty' = d, status' = u, access' = access,
         Emoji!AskHistory, UNCHANGED <<cache, record, call, unsettled>>,
         call # None => d = difficulty /\ (status = TRUE => u = TRUE)
  PROVE  /\ screen' \in EmojiScreens(difficulty')
         /\ screen'.loading => screen'.fetch = difficulty'
         /\ UNCHANGED <<hydrated, histories>>
         /\ \A e \in EmojiDifficulties : EmojiKept(e)'
         /\ EmojiShown'
<1> USE DEF EmojiInv
<1>1. /\ screen' \in EmojiScreens(d)
      /\ screen'.loading => screen'.fetch = d
      /\ screen'.game # None => /\ cache[d] # None /\ (d = "hardcore" => u = TRUE)
                                /\ screen'.guesses = cache[d].guesses
                                /\ screen'.clues = cache[d].clues
      /\ screen'.fetch # None => /\ screen'.game = None /\ screen'.loading /\ cache[d] = None
                                 /\ d = "hardcore" => u = TRUE
                                 /\ screen'.guesses = <<>>
      /\ cache[d] # None /\ (d = "hardcore" => u = TRUE) => screen'.game # None
  <2>1. EmojiFits(screen', d, u)
    BY EmojiLoad
  <2> QED BY <2>1 DEF EmojiFits
<1>2. screen'.game \in {None, d} /\ (cache[d] # None <=> d \in hydrated)
  BY <1>1 DEF EmojiScreens, EmojiKept
<1>3. UNCHANGED <<hydrated, histories>>
  BY <1>1, <1>2 DEF Emoji!AskHistory
<1>4. call # None => screen'.game # None
  <2> SUFFICES ASSUME call # None PROVE screen'.game # None
    OBVIOUS
  <2>1. difficulty \in hydrated /\ (difficulty = "hardcore" => status = TRUE) /\ d = difficulty
    BY DEF EmojiShown
  <2> QED BY <1>1, <1>2, <2>1
<1>5. ASSUME NEW e \in EmojiDifficulties PROVE EmojiKept(e)'
  <2>1. EmojiKept(e)
    OBVIOUS
  <2>2. EmojiBoard(e) => EmojiBoard(e)'
    BY DEF EmojiBoard
  <2> QED BY <2>1, <2>2, <1>3 DEF EmojiKept
<1>6. EmojiShown'
  BY <1>1, <1>2, <1>3, <1>4 DEF EmojiShown
<1> QED BY <1>1, <1>3, <1>5, <1>6

(* Every step of the page keeps the invariant. *)
LEMMA EmojiInvStep == EmojiInv /\ [Emoji!Step]_(Emoji!vars) => EmojiInv'
<1> SUFFICES ASSUME EmojiInv, [Emoji!Step]_(Emoji!vars) PROVE EmojiInv'
  OBVIOUS
<1>a. Emoji!TypeOK /\ (\A d \in EmojiDifficulties : EmojiKept(d)) /\ EmojiShown
  BY DEF EmojiInv
<1> USE DEF EmojiInv
<1>0. \A d \in EmojiDifficulties : Len(record[d]) \in Nat
  BY LenProperties DEF Emoji!TypeOK
<1>1. CASE Emoji!StatusAnswer
  <2>0. /\ asking' = asking - 1 /\ asking > 0 /\ status' = access /\ Emoji!AskHistory
        /\ screen' = IF status = access THEN screen ELSE Emoji!Load(screen, difficulty, access)
        /\ UNCHANGED <<difficulty, access, cache, call, failures, record, switches, retries, reloads,
                       unsettled>>
    BY <1>1 DEF Emoji!StatusAnswer
  <2>1. CASE status = access
    <3>1. UNCHANGED <<screen, status>>
      BY <2>0, <2>1
    <3>2. UNCHANGED <<hydrated, histories>>
      BY <2>0, <3>1 DEF Emoji!AskHistory, EmojiShown, Emoji!TypeOK
    <3>3. Emoji!TypeOK'
      BY <2>0, <3>1, <3>2 DEF Emoji!TypeOK
    <3>4. ASSUME NEW e \in EmojiDifficulties PROVE EmojiKept(e)'
      BY <2>0, <3>1, <3>2 DEF EmojiKept, EmojiBoard
    <3>5. EmojiShown'
      BY <2>0, <3>1, <3>2 DEF EmojiShown
    <3> QED BY <3>3, <3>4, <3>5
  <2>2. CASE status # access
    <3>1. status = None /\ status # TRUE
      BY <2>2, EmojiGiven DEF Emoji!TypeOK, Emoji!EmojiScreenAssumption
    <3>2. /\ screen' \in EmojiScreens(difficulty')
          /\ screen'.loading => screen'.fetch = difficulty'
          /\ UNCHANGED <<hydrated, histories>>
          /\ \A e \in EmojiDifficulties : EmojiKept(e)'
          /\ EmojiShown'
      BY <2>0, <2>2, <3>1, EmojiLoaded DEF Emoji!TypeOK
    <3>3. Emoji!TypeOK'
      BY <2>0, <3>2 DEF Emoji!TypeOK, EmojiScreens
    <3> QED BY <3>2, <3>3
  <2> QED BY <2>1, <2>2
<1>2. CASE Emoji!StatusFails
  <2>0. screen' \in EmojiScreens(difficulty) /\ screen'.loading = screen.loading
        /\ screen'.fetch = screen.fetch
    BY <1>2 DEF Emoji!StatusFails, Emoji!TypeOK, EmojiScreens
  <2>1. Emoji!TypeOK'
    BY <1>2, <2>0 DEF Emoji!StatusFails, Emoji!TypeOK, EmojiScreens
  <2>2. ASSUME NEW e \in EmojiDifficulties PROVE EmojiKept(e)'
    BY <1>2 DEF Emoji!StatusFails, EmojiKept, EmojiBoard
  <2>3. EmojiShown'
    BY <1>2 DEF Emoji!StatusFails, EmojiShown, Emoji!TypeOK
  <2> QED BY <2>1, <2>2, <2>3
<1>3. ASSUME NEW d \in EmojiDifficulties, Emoji!ChangeDifficulty(d) PROVE EmojiInv'
  <2>0. /\ call = None /\ switches' = switches + 1 /\ difficulty' = d /\ Emoji!AskHistory
        /\ screen' = Emoji!Load(screen, d, status)
        /\ UNCHANGED <<status, asking, access, cache, call, failures, record, retries, reloads,
                       unsettled>>
    BY <1>3 DEF Emoji!ChangeDifficulty
  <2>1. /\ screen' \in EmojiScreens(difficulty')
        /\ screen'.loading => screen'.fetch = difficulty'
        /\ UNCHANGED <<hydrated, histories>>
        /\ \A e \in EmojiDifficulties : EmojiKept(e)'
        /\ EmojiShown'
    BY <2>0, EmojiLoaded DEF Emoji!TypeOK
  <2>2. Emoji!TypeOK'
    BY <2>0, <2>1 DEF Emoji!TypeOK, EmojiScreens
  <2> QED BY <2>1, <2>2
<1>4. ASSUME NEW d \in EmojiDifficulties, Emoji!HistoryAnswer(d) PROVE EmojiInv'
  <2>0. histories[d] # None /\ histories[d] \in Nat /\ histories[d] <= Len(record[d]) /\ d \in hydrated
        /\ cache[d] # None
    BY <1>4 DEF Emoji!HistoryAnswer, EmojiKept, Emoji!TypeOK
  <2>1. PICK n \in histories[d]..Len(record[d]) :
          /\ screen' = [screen EXCEPT !.guesses = SubSeq(record[d], 1, n),
                          !.clues = IF screen.game = d THEN Emoji!Clues(SubSeq(record[d], 1, n)) ELSE @]
          /\ cache' = [cache EXCEPT ![d] = [guesses |-> SubSeq(record[d], 1, n),
                                            clues |-> Emoji!Clues(SubSeq(record[d], 1, n))]]
          /\ unsettled' = (unsettled
               \cup (IF n = Len(record[d]) /\ Emoji!Undisturbed(d)
                     THEN {} ELSE {d})
               \cup (IF difficulty = d THEN {} ELSE {difficulty}))
    BY <1>4, Zenon DEF Emoji!HistoryAnswer
  <2> DEFINE s == SubSeq(record[d], 1, n)
  <2>2. s \in Seq(Emoji!Guess) /\ Emoji!Clues(s) \in Nat \cup {None}
    <3>1. n \in Nat /\ n <= Len(record[d]) /\ record[d] \in Seq(Emoji!Guess)
      BY <2>0, <2>1, <1>0 DEF Emoji!TypeOK
    <3>2. s \in Seq(Emoji!Guess)
      BY <3>1, SubSeqProperties
    <3> QED BY <3>2, EmojiClues
  <2>3. n = Len(record[d]) => s = record[d]
    BY SubSeqFull DEF Emoji!TypeOK
  <2>4. /\ histories' = [histories EXCEPT ![d] = None]
        /\ UNCHANGED <<difficulty, status, asking, access, call, failures, hydrated, record,
                       switches, retries, reloads>>
    BY <1>4 DEF Emoji!HistoryAnswer
  <2>5. cache'[d] = [guesses |-> s, clues |-> Emoji!Clues(s)] /\ cache'[d] \in Emoji!Boards /\ cache'[d] # None
        /\ \A e \in EmojiDifficulties : e # d => cache'[e] = cache[e]
    <3>1. cache'[d] = [guesses |-> s, clues |-> Emoji!Clues(s)]
      BY <2>1 DEF Emoji!TypeOK
    <3>2. [guesses |-> s, clues |-> Emoji!Clues(s)] \in Emoji!Boards
      BY <2>2 DEF Emoji!Boards
    <3> HIDE DEF s
    <3> QED BY <2>1, <3>1, <3>2, EmojiGiven DEF Emoji!EmojiScreenAssumption, Emoji!TypeOK
  <2>6. /\ screen'.game = screen.game /\ screen'.fetch = screen.fetch
        /\ screen'.loading = screen.loading /\ screen'.guesses = s
        /\ screen'.clues = (IF screen.game = d THEN Emoji!Clues(s) ELSE screen.clues)
        /\ screen' \in EmojiScreens(difficulty)
    BY <2>1, <2>2 DEF Emoji!TypeOK, EmojiScreens
  <2>7. unsettled \subseteq unsettled' /\ unsettled' \subseteq EmojiDifficulties
        /\ (d \notin unsettled' =>
              n = Len(record[d])
              /\ (difficulty = d => screen.game = d /\ (call = None \/ call.reply = None)))
        /\ (difficulty \notin unsettled' => difficulty = d)
    BY <2>1 DEF Emoji!TypeOK, Emoji!Undisturbed
  <2> HIDE DEF s
  <2>8. Emoji!TypeOK'
    <3>1. cache' \in [EmojiDifficulties -> Emoji!Boards \cup {None}]
      BY <2>1, <2>5 DEF Emoji!TypeOK
    <3>2. histories' \in [EmojiDifficulties -> Nat \cup {None}]
      BY <2>4 DEF Emoji!TypeOK
    <3> QED BY <2>4, <2>6, <2>7, <3>1, <3>2 DEF Emoji!TypeOK, EmojiScreens
  <2>9. ASSUME NEW e \in EmojiDifficulties PROVE EmojiKept(e)'
    <3>1. CASE e = d
      <4>1. e \notin unsettled' => EmojiBoard(e)'
        BY <3>1, <2>3, <2>4, <2>5, <2>7 DEF EmojiBoard
      <4> QED BY <3>1, <4>1, <2>0, <2>4, <2>5 DEF EmojiKept, Emoji!TypeOK
    <3>2. CASE e # d
      <4>1. EmojiBoard(e) => EmojiBoard(e)'
        BY <3>2, <2>4, <2>5 DEF EmojiBoard
      <4>2. histories'[e] = histories[e]
        BY <3>2, <2>4 DEF Emoji!TypeOK
      <4> QED BY <4>1, <4>2, <3>2, <2>4, <2>5, <2>7 DEF EmojiKept
    <3> QED BY <3>1, <3>2
  <2>10. EmojiShown'
    BY <2>0, <2>4, <2>5, <2>6, <2>7 DEF EmojiShown, Emoji!TypeOK
  <2> QED BY <2>8, <2>9, <2>10
<1>5. ASSUME NEW d \in EmojiDifficulties, Emoji!HistoryFails(d) PROVE EmojiInv'
  <2>0. /\ histories[d] # None /\ histories' = [histories EXCEPT ![d] = None]
        /\ unsettled' = unsettled \cup (IF record[d] = <<>> THEN {} ELSE {d})
        /\ UNCHANGED <<difficulty, status, asking, access, screen, cache, call, failures, hydrated,
                       record, switches, retries, reloads>>
    BY <1>5 DEF Emoji!HistoryFails
  <2>1. Emoji!TypeOK'
    BY <2>0 DEF Emoji!TypeOK
  <2>2. ASSUME NEW e \in EmojiDifficulties PROVE EmojiKept(e)'
    <3>1. EmojiBoard(e) => EmojiBoard(e)'
      BY <2>0 DEF EmojiBoard
    <3>2. e # d => histories'[e] = histories[e]
      BY <2>0 DEF Emoji!TypeOK
    <3>3. histories'[d] = None
      BY <2>0 DEF Emoji!TypeOK
    <3> QED BY <2>0, <3>1, <3>2, <3>3 DEF EmojiKept
  <2>3. EmojiShown'
    BY <2>0 DEF EmojiShown
  <2> QED BY <2>1, <2>2, <2>3
<1>6. CASE Emoji!LoadAnswer
  <2> DEFINE d == screen.fetch
             b == [guesses |-> <<>>, clues |-> 0]
  <2>0. /\ d # None /\ cache' = [cache EXCEPT ![d] = b]
        /\ screen' = [screen EXCEPT !.game = d, !.clues = 0, !.fetch = None, !.loading = FALSE,
                                    !.failed = FALSE]
        /\ Emoji!AskHistory
        /\ UNCHANGED <<difficulty, status, asking, access, call, failures, record, switches, retries,
                       reloads, unsettled>>
    BY <1>6 DEF Emoji!LoadAnswer
  <2>1. d = difficulty /\ d \in EmojiDifficulties /\ d \notin hydrated /\ call = None
        /\ (d = "hardcore" => status = TRUE) /\ (d \notin unsettled => screen.guesses = <<>>)
    BY <2>0 DEF Emoji!TypeOK, EmojiShown
  <2>2. /\ screen'.game = d /\ screen'.guesses = screen.guesses /\ screen'.clues = 0
        /\ screen'.fetch = None /\ screen'.loading = FALSE
        /\ screen' \in EmojiScreens(difficulty)
    BY <2>0, <2>1 DEF Emoji!TypeOK, EmojiScreens
  <2>3. /\ hydrated' = hydrated \cup {d}
        /\ histories' = [histories EXCEPT ![d] = Len(record[d])]
    BY <2>0, <2>1, <2>2 DEF Emoji!AskHistory
  <2>4. b \in Emoji!Boards /\ b # None /\ b.guesses = <<>> /\ b.clues = 0
    <3>1. b \in Emoji!Boards
      BY EmptySeq DEF Emoji!Boards
    <3> QED BY <3>1, EmojiGiven DEF Emoji!EmojiScreenAssumption
  <2>5. cache'[d] = b /\ \A e \in EmojiDifficulties : e # d => cache'[e] = cache[e]
    BY <2>0, <2>1 DEF Emoji!TypeOK
  <2> HIDE DEF d, b
  <2>6. Emoji!TypeOK'
    <3>1. cache' \in [EmojiDifficulties -> Emoji!Boards \cup {None}]
      BY <2>0, <2>1, <2>4 DEF Emoji!TypeOK
    <3>2. histories' \in [EmojiDifficulties -> Nat \cup {None}]
      BY <2>1, <2>3, <1>0 DEF Emoji!TypeOK
    <3>3. hydrated' \subseteq EmojiDifficulties
      BY <2>1, <2>3 DEF Emoji!TypeOK
    <3> QED BY <2>0, <2>2, <3>1, <3>2, <3>3 DEF Emoji!TypeOK, EmojiScreens
  <2>7. ASSUME NEW e \in EmojiDifficulties PROVE EmojiKept(e)'
    <3>1. CASE e = d
      <4>1. histories'[e] = Len(record[e])
        BY <2>3, <3>1 DEF Emoji!TypeOK
      <4>2. histories'[e] # None
        BY <4>1, <1>0, EmojiGiven DEF Emoji!EmojiScreenAssumption
      <4>3. record[e] = <<>> => EmojiBoard(e)'
        BY <2>0, <2>1, <2>4, <2>5, <3>1, EmojiNoClues DEF EmojiBoard
      <4>4. record' = record
        BY <2>0
      <4> QED BY <2>3, <2>4, <2>5, <3>1, <4>1, <4>2, <4>3, <4>4, <1>0 DEF EmojiKept
    <3>2. CASE e # d
      <4>1. EmojiBoard(e) => EmojiBoard(e)'
        BY <2>0, <2>1, <2>5, <3>2 DEF EmojiBoard
      <4>2. histories'[e] = histories[e]
        BY <2>3, <3>2 DEF Emoji!TypeOK
      <4> QED BY <2>0, <2>3, <2>5, <3>2, <4>1, <4>2 DEF EmojiKept
    <3> QED BY <3>1, <3>2
  <2>8. EmojiShown'
    BY <2>0, <2>1, <2>2, <2>3, <2>4, <2>5 DEF EmojiShown
  <2> QED BY <2>6, <2>7, <2>8
<1>7. CASE Emoji!LoadFails
  <2>0. /\ screen.fetch # None
        /\ \/ screen' = [screen EXCEPT !.failed = TRUE] /\ asking' = asking + 1
           \/ /\ screen' = [screen EXCEPT !.error = TRUE, !.fetch = None, !.loading = FALSE]
              /\ asking' = asking
        /\ UNCHANGED <<difficulty, status, access, cache, call, failures, hydrated, histories, record,
                       switches, retries, reloads, unsettled>>
    BY <1>7 DEF Emoji!LoadFails
  <2>1. /\ screen'.game = screen.game /\ screen'.guesses = screen.guesses
        /\ screen'.clues = screen.clues
        /\ screen'.fetch # None => screen'.fetch = screen.fetch /\ screen'.loading = screen.loading
        /\ screen'.loading => screen'.fetch = screen.fetch /\ screen.loading
        /\ screen' \in EmojiScreens(difficulty)
    BY <2>0 DEF Emoji!TypeOK, EmojiScreens
  <2>2. Emoji!TypeOK'
    BY <2>0, <2>1 DEF Emoji!TypeOK, EmojiScreens
  <2>3. ASSUME NEW e \in EmojiDifficulties PROVE EmojiKept(e)'
    BY <2>0 DEF EmojiKept, EmojiBoard
  <2>4. EmojiShown'
    BY <2>0, <2>1 DEF EmojiShown
  <2> QED BY <2>2, <2>3, <2>4
<1>8. CASE Emoji!TryAgain
  <2>0. /\ retries' = retries + 1 /\ asking' = asking + 1 /\ Emoji!AskHistory
        /\ screen' = Emoji!Load(screen, difficulty, status)
        /\ UNCHANGED <<difficulty, status, access, cache, call, failures, record, switches, reloads,
                       unsettled>>
    BY <1>8 DEF Emoji!TryAgain
  <2>1. /\ screen' \in EmojiScreens(difficulty')
        /\ screen'.loading => screen'.fetch = difficulty'
        /\ UNCHANGED <<hydrated, histories>>
        /\ \A e \in EmojiDifficulties : EmojiKept(e)'
        /\ EmojiShown'
    BY <2>0, EmojiLoaded DEF Emoji!TypeOK
  <2>2. Emoji!TypeOK'
    BY <2>0, <2>1 DEF Emoji!TypeOK, EmojiScreens
  <2> QED BY <2>1, <2>2
<1>9. ASSUME NEW x \in EmojiEntities, Emoji!Choose(x) PROVE EmojiInv'
  <2> DEFINE d == screen.game
             accepted == Emoji!Accepted(d, x, Len(screen.guesses) + 1)
             guess == [entity |-> x, ok |-> x = EmojiAnswer[d]]
             after == Append(record[d], guess)
  <2>0. /\ d # None /\ call = None
        /\ screen' = [screen EXCEPT !.error = FALSE]
        /\ UNCHANGED <<difficulty, status, asking, access, cache, failures, hydrated, histories,
                       switches, retries, reloads>>
    BY <1>9 DEF Emoji!Choose
  <2>1. PICK out \in {"answered", "unanswered", "unsent"} :
           /\ record' = IF accepted /\ out # "unsent" THEN [record EXCEPT ![d] = after] ELSE record
           /\ call' = [entity |-> x,
                       reply |-> IF accepted /\ out = "answered"
                                   THEN [ok |-> x = EmojiAnswer[d], clues |-> Emoji!Clues(after)] ELSE None]
           /\ unsettled' = unsettled \cup (IF accepted /\ out = "unanswered" THEN {d} ELSE {})
    BY <1>9 DEF Emoji!Choose
  <2>2. d = difficulty /\ d \in EmojiDifficulties
    BY <2>0 DEF Emoji!TypeOK
  <2>3. guess \in Emoji!Guess /\ (x = EmojiAnswer[d]) \in BOOLEAN
    BY DEF Emoji!Guess
  <2> HIDE DEF guess
  <2>4. after \in Seq(Emoji!Guess) /\ after # <<>> /\ Emoji!Clues(after) \in Nat \cup {None}
    <3>1. record[d] \in Seq(Emoji!Guess)
      BY <2>2 DEF Emoji!TypeOK
    <3>2. after \in Seq(Emoji!Guess) /\ after # <<>> /\ Len(after) = Len(record[d]) + 1
      BY <2>3, <3>1, EmojiAppend
    <3> QED BY <3>2, EmojiClues
  <2>5. [ok |-> x = EmojiAnswer[d], clues |-> Emoji!Clues(after)] \in Emoji!Replies
        /\ [ok |-> x = EmojiAnswer[d], clues |-> Emoji!Clues(after)] # None
    <3>1. [ok |-> x = EmojiAnswer[d], clues |-> Emoji!Clues(after)] \in Emoji!Replies
      BY <2>4, <2>3 DEF Emoji!Replies
    <3> QED BY <3>1, EmojiGiven DEF Emoji!EmojiScreenAssumption
  <2> DEFINE answered == accepted /\ out = "answered"
  <2>6. /\ call'.entity = x
        /\ call'.reply # None => answered /\ call'.reply.ok = (x = EmojiAnswer[d])
                                 /\ call'.reply.clues = Emoji!Clues(after)
        /\ answered => call'.reply # None
        /\ call' \in Emoji!Calls /\ call' # None
    <3>1. call'.reply \in Emoji!Replies \cup {None} /\ call'.entity = x
      BY <2>1, <2>5
    <3>2. call' \in Emoji!Calls
      BY <2>1, <2>5 DEF Emoji!Calls
    <3> QED BY <2>1, <2>5, <3>1, <3>2, EmojiGiven DEF Emoji!EmojiScreenAssumption
  <2>7. answered => record' = [record EXCEPT ![d] = after] /\ unsettled' = unsettled
    BY <2>1
  <2>8. ~answered => record' = record \/ (record' = [record EXCEPT ![d] = after] /\ d \in unsettled')
    BY <2>1
  <2>9. unsettled \subseteq unsettled' /\ unsettled' \subseteq EmojiDifficulties
    BY <2>1, <2>2 DEF Emoji!TypeOK
  <2>10. /\ screen'.game = screen.game /\ screen'.fetch = screen.fetch /\ screen'.clues = screen.clues
         /\ screen'.loading = screen.loading /\ screen'.guesses = screen.guesses
         /\ screen' \in EmojiScreens(difficulty)
    BY <2>0 DEF Emoji!TypeOK, EmojiScreens
  <2> HIDE DEF accepted, answered
  <2>11. /\ record' \in [EmojiDifficulties -> Seq(Emoji!Guess)]
         /\ \A e \in EmojiDifficulties : e # d => record'[e] = record[e]
         /\ answered => record'[d] = after
         /\ \/ record'[d] = record[d] \/ record'[d] = after
         /\ ~answered /\ d \notin unsettled' => record'[d] = record[d]
    BY <2>2, <2>4, <2>7, <2>8 DEF Emoji!TypeOK
  <2>12. \A e \in EmojiDifficulties : Len(record[e]) <= Len(record'[e])
    <3>1. Len(after) = Len(record[d]) + 1 /\ Len(record[d]) \in Nat
      BY <2>2, <2>3, EmojiAppend DEF Emoji!TypeOK
    <3> HIDE DEF d, after
    <3> SUFFICES ASSUME NEW e \in EmojiDifficulties PROVE Len(record[e]) <= Len(record'[e])
      OBVIOUS
    <3>2. CASE record'[e] = record[e]
      BY <3>2, <1>0, Z3
    <3>3. CASE e = d /\ record'[e] = after
      BY <3>1, <3>3, Z3
    <3> QED BY <2>11, <3>2, <3>3
  <2>13. Emoji!TypeOK'
    BY <2>0, <2>6, <2>9, <2>10, <2>11 DEF Emoji!TypeOK, EmojiScreens
  <2>14. ASSUME NEW e \in EmojiDifficulties PROVE EmojiKept(e)'
    <3>0. EmojiKept(e)
      OBVIOUS
    <3>1. /\ cache'[e] = cache[e] /\ histories'[e] = histories[e] /\ hydrated' = hydrated
          /\ difficulty' = difficulty
      BY <2>0
    <3>2. /\ e \in hydrated' <=> cache'[e] # None
          /\ histories'[e] # None => e \in hydrated' /\ histories'[e] <= Len(record'[e])
      <4>1. histories[e] # None => histories[e] \in Nat
        BY DEF Emoji!TypeOK
      <4>2. Len(record'[e]) \in Nat
        BY <2>11, LenProperties
      <4>3. Len(record[e]) \in Nat /\ Len(record[e]) <= Len(record'[e])
        BY <1>0, <2>12
      <4>4. /\ e \in hydrated <=> cache[e] # None
            /\ histories[e] # None => e \in hydrated /\ histories[e] <= Len(record[e])
        BY <3>0 DEF EmojiKept
      <4> QED BY <3>1, <4>1, <4>2, <4>3, <4>4, Z3
    <3>3. ASSUME e \in hydrated' \ unsettled', histories'[e] = None \/ record'[e] = <<>>
          PROVE  EmojiBoard(e)'
      <4>1. CASE e # d
        <5>1. record'[e] = record[e] /\ EmojiBoard(e)
          BY <2>9, <2>11, <3>0, <3>1, <3>3, <4>1 DEF EmojiKept
        <5> QED BY <5>1, <2>2, <3>1, <4>1 DEF EmojiBoard
      <4>2. CASE e = d /\ ~answered
        <5>1. record'[e] = record[e] /\ EmojiBoard(e)
          BY <2>9, <2>11, <3>0, <3>1, <3>3, <4>2 DEF EmojiKept
        <5> QED BY <5>1, <2>0, <2>6, <3>1, <4>2 DEF EmojiBoard
      <4>3. CASE e = d /\ answered
        <5>1. record'[e] = after /\ EmojiBoard(e)
          BY <2>4, <2>9, <2>11, <3>0, <3>1, <3>3, <4>3 DEF EmojiKept
        <5>2. cache[e].guesses = record[e]
          BY <5>1, <2>0 DEF EmojiBoard
        <5> QED BY <5>1, <5>2, <2>2, <2>6, <3>1, <4>3 DEF EmojiBoard, guess
      <4> QED BY <4>1, <4>2, <4>3
    <3> QED BY <3>2, <3>3 DEF EmojiKept
  <2>15. EmojiShown'
    BY <2>0, <2>2, <2>9, <2>10 DEF EmojiShown
  <2> QED BY <2>13, <2>14, <2>15
<1>10. CASE Emoji!Answered
  <2> DEFINE d == difficulty
             tries == Append(screen.guesses, [entity |-> call.entity, ok |-> call.reply.ok])
             b == [guesses |-> tries, clues |-> call.reply.clues]
  <2>0. /\ call # None /\ call.reply # None
        /\ screen' = [screen EXCEPT !.guesses = tries,
                                    !.clues = IF screen.game = None THEN @ ELSE call.reply.clues]
        /\ cache' = IF cache[d] = None THEN cache ELSE [cache EXCEPT ![d] = b]
        /\ call' = None /\ failures' = None
        /\ UNCHANGED <<difficulty, status, asking, access, hydrated, histories, record, switches,
                       retries, reloads, unsettled>>
    BY <1>10 DEF Emoji!Answered
  <2>1. /\ screen.game # None /\ d \in hydrated /\ d \in EmojiDifficulties /\ cache[d] # None
        /\ (d = "hardcore" => status = TRUE)
        /\ d \notin unsettled => screen.guesses = cache[d].guesses
    BY <2>0 DEF EmojiShown, EmojiKept, Emoji!TypeOK
  <2>2. call.entity \in EmojiEntities /\ call.reply.ok \in BOOLEAN /\ call.reply.clues \in Nat \cup {None}
    BY <2>0 DEF Emoji!TypeOK, Emoji!Calls, Emoji!Replies
  <2>3. tries \in Seq(Emoji!Guess) /\ b \in Emoji!Boards /\ b # None
    <3>1. [entity |-> call.entity, ok |-> call.reply.ok] \in Emoji!Guess
      BY <2>2 DEF Emoji!Guess
    <3>2. tries \in Seq(Emoji!Guess)
      BY <3>1, AppendProperties DEF Emoji!TypeOK
    <3>3. b \in Emoji!Boards
      BY <3>2, <2>2 DEF Emoji!Boards
    <3> QED BY <3>2, <3>3, EmojiGiven DEF Emoji!EmojiScreenAssumption
  <2>4. cache'[d] = b /\ \A e \in EmojiDifficulties : e # d => cache'[e] = cache[e]
    BY <2>0, <2>1 DEF Emoji!TypeOK
  <2>5. b.guesses = tries /\ b.clues = call.reply.clues
    OBVIOUS
  <2> HIDE DEF tries, b
  <2>6. /\ screen'.game = screen.game /\ screen'.fetch = screen.fetch
        /\ screen'.clues = call.reply.clues
        /\ screen'.loading = screen.loading /\ screen'.guesses = tries
        /\ screen' \in EmojiScreens(difficulty)
    BY <2>0, <2>1, <2>2, <2>3 DEF Emoji!TypeOK, EmojiScreens
  <2>7. Emoji!TypeOK'
    <3>1. cache' \in [EmojiDifficulties -> Emoji!Boards \cup {None}]
      BY <2>0, <2>3 DEF Emoji!TypeOK
    <3> QED BY <2>0, <2>6, <3>1 DEF Emoji!TypeOK, EmojiScreens
  <2>8. ASSUME NEW e \in EmojiDifficulties PROVE EmojiKept(e)'
    <3>1. CASE e = d
      <4>1. EmojiBoard(e) /\ d \notin unsettled => EmojiBoard(e)'
        <5> SUFFICES ASSUME EmojiBoard(e), d \notin unsettled PROVE EmojiBoard(e)'
          OBVIOUS
        <5>1. /\ record[d] = Append(cache[d].guesses, [entity |-> call.entity, ok |-> call.reply.ok])
              /\ call.reply.clues = Emoji!Clues(record[d])
          BY <2>0, <3>1 DEF EmojiBoard
        <5>2. record[d] = tries
          BY <5>1, <2>1 DEF tries
        <5> QED BY <5>1, <5>2, <2>0, <2>4, <2>5, <3>1 DEF EmojiBoard
      <4> QED BY <2>0, <2>1, <2>3, <2>4, <3>1, <4>1 DEF EmojiKept
    <3>2. CASE e # d
      <4>1. EmojiBoard(e) => EmojiBoard(e)'
        BY <2>0, <2>4, <3>2 DEF EmojiBoard
      <4> QED BY <2>0, <2>4, <3>2, <4>1 DEF EmojiKept
    <3> QED BY <3>1, <3>2
  <2>9. EmojiShown'
    BY <2>0, <2>1, <2>4, <2>5, <2>6 DEF EmojiShown
  <2> QED BY <2>7, <2>8, <2>9
<1>11. CASE Emoji!ChooseFails
  <2>0. /\ call # None /\ call.reply = None /\ call' = None /\ failures' = call.entity
        /\ screen' = [screen EXCEPT !.error = @ \/ failures = call.entity]
        /\ UNCHANGED <<difficulty, status, asking, access, cache, hydrated, histories, record,
                       switches, retries, reloads, unsettled>>
    BY <1>11 DEF Emoji!ChooseFails
  <2>1. /\ screen'.game = screen.game /\ screen'.fetch = screen.fetch /\ screen'.clues = screen.clues
        /\ screen'.loading = screen.loading /\ screen'.guesses = screen.guesses
        /\ screen' \in EmojiScreens(difficulty)
    BY <2>0 DEF Emoji!TypeOK, EmojiScreens
  <2>2. call.entity \in EmojiEntities
    BY <2>0 DEF Emoji!TypeOK, Emoji!Calls
  <2>3. Emoji!TypeOK'
    BY <2>0, <2>1, <2>2 DEF Emoji!TypeOK, EmojiScreens
  <2>4. ASSUME NEW e \in EmojiDifficulties PROVE EmojiKept(e)'
    BY <2>0 DEF EmojiKept, EmojiBoard
  <2>5. EmojiShown'
    BY <2>0, <2>1 DEF EmojiShown
  <2> QED BY <2>3, <2>4, <2>5
<1>12. CASE Emoji!Reload
  <2>1. /\ screen'.game = None /\ screen'.guesses = <<>>
        /\ screen' \in EmojiScreens(difficulty)
        /\ screen'.fetch # None => screen'.loading /\ difficulty # "hardcore"
        /\ screen'.loading => screen'.fetch = difficulty
    BY <1>12, EmojiUnloaded DEF Emoji!Reload, Emoji!TypeOK, EmojiScreens
  <2>2. /\ reloads' = reloads + 1 /\ status' = None /\ asking' = 1 /\ cache' = Emoji!Nothing
        /\ call' = None /\ failures' = None /\ hydrated' = {} /\ histories' = Emoji!Nothing
        /\ unsettled' = {}
        /\ UNCHANGED <<difficulty, access, record, switches, retries>>
    BY <1>12 DEF Emoji!Reload
  <2>3. Emoji!TypeOK'
    BY <2>1, <2>2 DEF Emoji!TypeOK, EmojiScreens, Emoji!Nothing
  <2>4. ASSUME NEW e \in EmojiDifficulties PROVE EmojiKept(e)'
    BY <2>2 DEF EmojiKept, Emoji!Nothing
  <2>5. EmojiShown'
    BY <2>1, <2>2 DEF EmojiShown
  <2> QED BY <2>3, <2>4, <2>5
<1>13. CASE UNCHANGED Emoji!vars
  <2>1. Emoji!TypeOK'
    BY <1>13 DEF Emoji!vars, Emoji!TypeOK
  <2>2. ASSUME NEW e \in EmojiDifficulties PROVE EmojiKept(e)'
    BY <1>13 DEF Emoji!vars, EmojiKept, EmojiBoard
  <2>3. EmojiShown'
    BY <1>13 DEF Emoji!vars, EmojiShown
  <2> QED BY <2>1, <2>2, <2>3
<1> QED BY <1>1, <1>2, <1>3, <1>4, <1>5, <1>6, <1>7, <1>8, <1>9, <1>10, <1>11, <1>12, <1>13
          DEF Emoji!Step

(* The Emoji page, once its history is there, shows the server's guesses   *)
(* and clues, whatever is switched, repeated or reloaded, but for boards   *)
(* that an answer lost, a stale history or another board's has unsettled,  *)
(* until they are loaded again; and Hardcore only to who has it.           *)
THEOREM EmojiBoardAlways == Emoji!Spec => [](Emoji!TypeOK /\ Emoji!BoardIsServers)
<1>1. Emoji!Init => EmojiInv
  <2> SUFFICES ASSUME Emoji!Init PROVE EmojiInv
    OBVIOUS
  <2>1. /\ screen.game = None /\ screen.guesses = <<>>
        /\ screen \in EmojiScreens(difficulty)
        /\ screen.fetch # None => screen.loading /\ difficulty # "hardcore"
        /\ screen.loading => screen.fetch = difficulty
    BY EmojiUnloaded DEF Emoji!Init, EmojiScreens
  <2>2. Emoji!TypeOK
    BY <2>1, EmptySeq DEF Emoji!Init, Emoji!TypeOK, EmojiScreens, Emoji!Nothing
  <2>3. ASSUME NEW e \in EmojiDifficulties PROVE EmojiKept(e)
    BY DEF Emoji!Init, EmojiKept, Emoji!Nothing
  <2>4. EmojiShown
    BY <2>1 DEF Emoji!Init, EmojiShown
  <2> QED BY <2>2, <2>3, <2>4 DEF EmojiInv
<1>2. EmojiInv => Emoji!TypeOK /\ Emoji!BoardIsServers
  <2> SUFFICES ASSUME EmojiInv PROVE Emoji!BoardIsServers
    BY DEF EmojiInv
  <2>1. Emoji!TypeOK /\ EmojiShown
    BY DEF EmojiInv
  <2>2. CASE screen.game = None
    BY <2>2, EmojiGiven DEF Emoji!BoardIsServers, Emoji!EmojiScreenAssumption
  <2>3. CASE screen.game # None
    <3>1. screen.game = difficulty /\ difficulty \in hydrated /\ EmojiKept(difficulty)
      BY <2>1, <2>3 DEF Emoji!TypeOK, EmojiShown, EmojiInv
    <3>2. difficulty = "hardcore" => access
      <4>1. (difficulty = "hardcore" => status = TRUE) /\ status \in {None, access}
        BY <2>1, <2>3 DEF EmojiShown, Emoji!TypeOK
      <4>2. None # TRUE
        BY EmojiGiven DEF Emoji!EmojiScreenAssumption
      <4> QED BY <4>1, <4>2, Zenon
    <3>3. ASSUME histories[difficulty] = None, call = None, difficulty \notin unsettled
          PROVE  /\ screen.guesses = record[difficulty]
                 /\ screen.clues = Emoji!Clues(record[difficulty])
      BY <2>1, <2>3, <3>1, <3>3 DEF EmojiKept, EmojiBoard, EmojiShown
    <3> QED BY <3>1, <3>2, <3>3 DEF Emoji!BoardIsServers
  <2> QED BY <2>2, <2>3
<1>3. EmojiInv /\ [Emoji!Next]_(Emoji!vars) => EmojiInv'
  BY EmojiInvStep DEF Emoji!Next
<1> QED BY <1>1, <1>2, <1>3, PTL DEF Emoji!Spec

-----------------------------------------------------------------------------
(* The Logo page. *)
Logo == INSTANCE LogoScreen WITH
  Models <- LogoModels, Answer <- LogoAnswer, MaxElsewhere <- LogoBounds.elsewhere,
  MaxLoads <- LogoBounds.loads, MaxReloads <- LogoBounds.reloads

(* What the page is given is as its module assumes. *)
ASSUME LogoGiven == Logo!LogoScreenAssumption

(* What the page waits for is no newer than the record, and a page that    *)
(* was told of everything lacks at most the guess whose answer is on its   *)
(* way.                                                                    *)
LogoWaits ==
  /\ load # None => /\ load.waits \in {"game", "history"}
                    /\ load.from \in Nat /\ load.from <= Len(record)
                    /\ ~stale => load.from = Len(record)
  /\ call # None => /\ call \in Logo!Calls
                    /\ call.from <= Len(record)

(* The page shows what the server has, or has it within the answer to come,*)
(* unless the player changed or a guess was made elsewhere.                *)
LogoTold ==
  ~stale =>
    /\ game \in [solved : BOOLEAN]
    /\ IF call # None /\ call.is = "accepted"
         THEN /\ record = Append(guesses, call.model)
              /\ Logo!HasCorrect(record) <=> call.model = LogoAnswer
         ELSE /\ guesses = record
              /\ game.solved = Logo!HasCorrect(record)

(* The inductive invariant of the Logo page. *)
LogoInv == Logo!TypeOK /\ LogoWaits /\ LogoTold

(* One more guess is correct, or a guess before it. *)
LEMMA LogoHasCorrectAppend ==
  ASSUME NEW s \in Seq(LogoModels), NEW m \in LogoModels
  PROVE  Logo!HasCorrect(Append(s, m)) <=> Logo!HasCorrect(s) \/ m = LogoAnswer
  BY AppendProperties DEF Logo!HasCorrect

(* A history of all entries is all that is stored. *)
LEMMA LogoAll ==
  ASSUME Logo!TypeOK PROVE Logo!Some(Len(record)) = record
  BY SubSeqFull DEF Logo!TypeOK, Logo!Some

(* A history is a beginning of what is stored. *)
LEMMA LogoSome ==
  ASSUME Logo!TypeOK, NEW k \in Nat, NEW n \in Logo!Since(k)
  PROVE  /\ Logo!Some(n) \in Seq(LogoModels)
         /\ n \in Nat
         /\ n <= Len(record)
         /\ k = Len(record) => Logo!Some(n) = record
<1>1. n \in Nat /\ k <= n /\ n <= Len(record)
  BY LenProperties DEF Logo!Since, Logo!TypeOK
<1>2. Logo!Some(n) \in Seq(LogoModels)
  BY <1>1, SubSeqProperties DEF Logo!Some, Logo!TypeOK
<1> QED BY <1>1, <1>2, LogoAll, LenProperties DEF Logo!TypeOK

(* Every step of the page keeps the invariant. *)
LEMMA LogoInvNext == LogoInv /\ [Logo!Next]_(Logo!vars) => LogoInv'
<1> SUFFICES ASSUME Logo!TypeOK, LogoWaits, LogoTold, [Logo!Next]_(Logo!vars) PROVE Logo!TypeOK' /\ LogoWaits' /\ LogoTold'
  BY DEF LogoInv
<1>0. Len(record) \in Nat
  BY LenProperties DEF Logo!TypeOK
<1>1. CASE Logo!StartLoad
  <2>1. Logo!TypeOK'
    BY <1>1 DEF Logo!StartLoad, Logo!TypeOK
  <2>2. LogoWaits'
    BY <1>0, <1>1 DEF Logo!StartLoad, LogoWaits
  <2>3. LogoTold'
    BY <1>1 DEF Logo!StartLoad, LogoTold
  <2> QED BY <2>1, <2>2, <2>3
<1>2. CASE Logo!GameAnswer
  <2>1. PICK n \in Logo!Since(load.from) : game' = [solved |-> Logo!HasCorrect(Logo!Some(n))]
    BY <1>2 DEF Logo!GameAnswer
  <2>2. Logo!HasCorrect(Logo!Some(n)) \in BOOLEAN
    BY DEF Logo!HasCorrect
  <2>3. ~stale => Logo!Some(n) = record
    BY <2>1, <1>2, LogoSome DEF LogoWaits, Logo!GameAnswer
  <2>4. Logo!TypeOK'
    BY <1>2, <2>1, <2>2 DEF Logo!GameAnswer, Logo!TypeOK
  <2>5. LogoWaits'
    BY <1>0, <1>2 DEF Logo!GameAnswer, LogoWaits
  <2>6. LogoTold'
    BY <1>2, <2>1, <2>2, <2>3 DEF Logo!GameAnswer, LogoTold
  <2> QED BY <2>4, <2>5, <2>6
<1>3. CASE Logo!LoadHistory
  <2>1. PICK n \in Logo!Since(load.from) : Logo!ShowHistory(n) /\ stale' = (n # Len(record) \/ call # None)
    BY <1>3 DEF Logo!LoadHistory
  <2>2. Logo!HasCorrect(Logo!Some(n)) \in BOOLEAN
    BY DEF Logo!HasCorrect
  <2>3. Logo!Some(n) \in Seq(LogoModels) /\ Logo!Some(Len(record)) = record
    BY <1>3, LogoSome, LogoAll DEF LogoWaits, Logo!LoadHistory
  <2>4. Logo!TypeOK'
    BY <1>3, <2>1, <2>2, <2>3 DEF Logo!LoadHistory, Logo!ShowHistory, Logo!TypeOK
  <2>5. LogoWaits'
    BY <1>0, <1>3 DEF Logo!LoadHistory, LogoWaits
  <2>6. LogoTold'
    BY <1>3, <2>1, <2>2, <2>3 DEF Logo!LoadHistory, Logo!ShowHistory, LogoTold
  <2> QED BY <2>4, <2>5, <2>6
<1>4. CASE Logo!LoadFails
  BY <1>4 DEF Logo!LoadFails, Logo!TypeOK, LogoWaits, LogoTold
<1>5. ASSUME NEW m \in LogoModels, Logo!Choose(m) PROVE Logo!TypeOK' /\ LogoWaits' /\ LogoTold'
  <2> DEFINE refusal == Logo!Refusal(m, Len(guesses) + 1)
             sending == refusal = None
  <2>1. PICK lost \in {"nothing", "answer", "guess"} :
           /\ record' = IF sending /\ lost # "guess" THEN Append(record, m) ELSE record
           /\ call' = [model |-> m, from |-> Len(record),
                       is |-> IF lost # "nothing" THEN "lost"
                              ELSE IF sending THEN "accepted" ELSE "refused"]
           /\ stale' = (stale \/ (sending /\ lost = "answer"))
    BY <1>5 DEF Logo!Choose
  <2>2. /\ game # None /\ load = None /\ call = None
        /\ error' = FALSE
        /\ UNCHANGED <<game, guesses, load, hydrated>>
    BY <1>5 DEF Logo!Choose
  <2>3. sending => ~Logo!HasCorrect(record)
    <3> SUFFICES ASSUME sending, Logo!HasCorrect(record) PROVE FALSE
      OBVIOUS
    <3> QED BY LogoGiven, ZenonT(30) DEF Logo!Refusal, Logo!LogoScreenAssumption, Logo!Errors
  <2>4. record' \in Seq(LogoModels) /\ Len(record') >= Len(record) /\ Len(record') \in Nat
    BY <2>1, <1>0, AppendProperties DEF Logo!TypeOK
  <2>5. Logo!TypeOK'
    <3>1. stale' \in BOOLEAN
      BY <2>1 DEF Logo!TypeOK
    <3> QED BY <3>1, <2>2, <2>4 DEF Logo!TypeOK
  <2>6. call' \in Logo!Calls /\ call'.from = Len(record) /\ call' # None
    BY <2>1, <1>0, LogoGiven DEF Logo!Calls, Logo!LogoScreenAssumption
  <2>8. LogoWaits'
    BY <2>6, <2>2, <2>4, <1>0 DEF LogoWaits
  <2>7. LogoTold'
    <3> SUFFICES ASSUME ~stale' PROVE LogoTold'
      BY DEF LogoTold
    <3>1. ~stale /\ guesses = record /\ game.solved = Logo!HasCorrect(record) /\ game \in [solved : BOOLEAN]
      BY <2>1, <2>2 DEF LogoTold
    <3>2. CASE call'.is = "accepted"
      <4>1. record' = Append(guesses, m) /\ sending
        BY <2>1, <3>1, <3>2
      <4>2. Logo!HasCorrect(Append(record, m)) <=> m = LogoAnswer
        BY <4>1, <2>3, LogoHasCorrectAppend DEF Logo!TypeOK
      <4>3. Logo!HasCorrect(record') <=> m = LogoAnswer
        BY <4>1, <4>2, <3>1
      <4>4. call'.model = m
        BY <2>1
      <4> QED BY <4>1, <4>3, <4>4, <2>6, <3>1, <3>2, <2>2 DEF LogoTold
    <3>3. CASE call'.is # "accepted"
      <4>1. record' = record
        BY <2>1, <3>3
      <4> QED BY <4>1, <3>1, <3>3, <2>2 DEF LogoTold
    <3> QED BY <3>2, <3>3
  <2> QED BY <2>5, <2>8, <2>7
<1>6. CASE Logo!ChooseAnswer
  <2>1. call # None /\ call \in Logo!Calls
    BY <1>6 DEF Logo!ChooseAnswer, LogoWaits
  <2>2. Append(guesses, call.model) \in Seq(LogoModels)
    BY <2>1, AppendProperties DEF Logo!TypeOK, Logo!Calls
  <2>3. Logo!TypeOK'
    BY <1>6, <2>2 DEF Logo!ChooseAnswer, Logo!TypeOK
  <2>4. LogoWaits'
    BY <1>6 DEF Logo!ChooseAnswer, LogoWaits
  <2>5. Logo!HasCorrect(record) \in BOOLEAN
    BY DEF Logo!HasCorrect
  <2>6. LogoTold'
    BY <1>6, <2>5 DEF Logo!ChooseAnswer, LogoTold
  <2> QED BY <2>3, <2>4, <2>6
<1>7. CASE Logo!ChooseRefused
  <2>1. /\ call' \in Logo!Calls /\ call'.is = "restoring" /\ call'.from = Len(record)
        /\ call # None /\ call \in Logo!Calls /\ call.is = "refused"
    BY <1>7, <1>0 DEF Logo!ChooseRefused, LogoWaits, Logo!Calls
  <2>2. UNCHANGED <<game, guesses, load, error, hydrated, record, stale>>
    BY <1>7 DEF Logo!ChooseRefused
  <2>3. Logo!TypeOK'
    BY <2>2 DEF Logo!TypeOK
  <2>4. LogoWaits'
    BY <1>0, <2>1, <2>2 DEF LogoWaits
  <2>5. LogoTold'
    BY <2>1, <2>2 DEF LogoTold
  <2> QED BY <2>3, <2>4, <2>5
<1>8. CASE Logo!Restored
  <2>1. PICK n \in Logo!Since(call.from) : Logo!ShowHistory(n) /\ stale' = (n # Len(record) \/ load # None)
    BY <1>8 DEF Logo!Restored
  <2>2. Logo!HasCorrect(Logo!Some(n)) \in BOOLEAN
    BY DEF Logo!HasCorrect
  <2>3. Logo!Some(n) \in Seq(LogoModels) /\ Logo!Some(Len(record)) = record
    BY <1>8, LogoSome, LogoAll DEF LogoWaits, Logo!Restored, Logo!Calls
  <2>4. Logo!TypeOK'
    BY <1>8, <2>1, <2>2, <2>3 DEF Logo!Restored, Logo!ShowHistory, Logo!TypeOK
  <2>5. LogoWaits'
    BY <1>8, <2>1 DEF Logo!Restored, LogoWaits
  <2>6. LogoTold'
    BY <1>8, <2>1, <2>2, <2>3 DEF Logo!Restored, Logo!ShowHistory, LogoTold
  <2> QED BY <2>4, <2>5, <2>6
<1>9. CASE Logo!ChooseFails
  BY <1>9 DEF Logo!ChooseFails, Logo!TypeOK, LogoWaits, LogoTold
<1>10. ASSUME NEW m \in LogoModels, Logo!Elsewhere(m) PROVE Logo!TypeOK' /\ LogoWaits' /\ LogoTold'
  <2>1. record' \in Seq(LogoModels) /\ Len(record') = Len(record) + 1 /\ stale'
    BY <1>10, AppendProperties DEF Logo!Elsewhere, Logo!TypeOK
  <2>2. UNCHANGED <<game, guesses, load, error, hydrated, call>>
    BY <1>10 DEF Logo!Elsewhere
  <2>3. Logo!TypeOK'
    BY <1>10, <2>1, <2>2 DEF Logo!Elsewhere, Logo!TypeOK
  <2>4. LogoWaits'
    BY <1>0, <2>1, <2>2 DEF LogoWaits, Logo!Calls
  <2> QED BY <2>1, <2>3, <2>4 DEF LogoTold
<1>11. CASE Logo!Reload
  <2>1. Logo!TypeOK'
    BY <1>11, EmptySeq DEF Logo!Reload, Logo!TypeOK
  <2>2. LogoWaits'
    BY <1>0, <1>11 DEF Logo!Reload, LogoWaits
  <2> QED BY <1>11, <2>1, <2>2 DEF Logo!Reload, LogoTold
<1>12. CASE UNCHANGED Logo!vars
  BY <1>12 DEF Logo!vars, Logo!TypeOK, LogoWaits, LogoTold
<1> QED BY <1>1, <1>2, <1>3, <1>4, <1>5, <1>6, <1>7, <1>8, <1>9, <1>10, <1>11, <1>12
        DEF Logo!Next, Logo!PlayerChanges, Logo!TryAgain

(* A Logo page that was told of everything shows the server's guesses, in  *)
(* their order, and whether the day is solved.                             *)
THEOREM LogoBoardAlways == Logo!Spec => [](Logo!TypeOK /\ Logo!BoardIsServers)
<1>1. Logo!Init => LogoInv
  <2> SUFFICES ASSUME Logo!Init PROVE LogoInv
    OBVIOUS
  <2>1. Logo!TypeOK
    BY EmptySeq DEF Logo!Init, Logo!TypeOK
  <2>2. LogoWaits
    BY EmptySeq DEF Logo!Init, LogoWaits
  <2> QED BY <2>1, <2>2 DEF Logo!Init, LogoInv, LogoTold
<1>2. LogoInv => Logo!TypeOK /\ Logo!BoardIsServers
  BY DEF LogoInv, LogoTold, Logo!BoardIsServers
<1> QED BY <1>1, <1>2, LogoInvNext, PTL DEF Logo!Spec

-----------------------------------------------------------------------------
(* The Logo's image, its clues and its dialogs. *)
Stage == INSTANCE LogoStage WITH
  After <- StageAfter, MaxRevision <- StageRevision, Scopes <- StageScopes,
  MaxWrong <- StageBounds.wrong, MaxScopes <- StageBounds.scopes,
  MaxArrivals <- StageBounds.arrivals

(* What the page is given is as its module assumes. *)
ASSUME StageGiven == Stage!LogoStageAssumption

(* What is displayed or fetched is the progress's, and looks like it. *)
StageImages ==
  /\ progress \in Stage!Progress \cup {None}
  /\ progress = None => image = None /\ preload = None
  /\ progress # None =>
       /\ image \in Stage!Images /\ image.solved = (image.src = Stage!Whole)
       /\ preload = None => image.src = Stage!ImageUrl(progress)
       /\ preload # None => /\ preload \in Stage!Images
                            /\ preload.src = Stage!ImageUrl(progress)
                            /\ preload.solved = (preload.src = Stage!Whole)

(* Views, wherever they are kept, were opened under their scope. *)
StageViews ==
  /\ scope \in StageScopes /\ seen \in [StageScopes -> SUBSET DOMAIN StageAfter]
  /\ views \in [scope : StageScopes, indices : SUBSET DOMAIN StageAfter]
  /\ views.indices \subseteq seen[views.scope]
  /\ stored # None => /\ stored \in [scope : StageScopes, indices : SUBSET DOMAIN StageAfter]
                      /\ stored.indices \subseteq seen[stored.scope]
  /\ saved \subseteq seen[scope]
  /\ selected \in DOMAIN StageAfter \cup {None}
  /\ selected # None => selected \in Stage!Indices
  /\ shared # None => shared.scope \in StageScopes /\ (shared.clue => seen[shared.scope] # {})

(* The timer runs or not, the dialog is open or not. *)
StageFlags == timer \in BOOLEAN /\ dialog \in BOOLEAN

(* The page's Cardinality is the library's. *)
LEMMA StageCardinality ==
  ASSUME NEW S PROVE Stage!Cardinality(S) = Cardinality(S)
  BY DEF Stage!Cardinality, Cardinality

(* The image of a progress is a crop of some revision, or the whole logo   *)
(* when it is solved.                                                      *)
LEMMA StageUrl ==
  ASSUME NEW p \in Stage!Progress
  PROVE  /\ Stage!ImageUrl(p) \in {Stage!Whole} \cup 0..StageRevision
         /\ (Stage!ImageUrl(p) = Stage!Whole) = p.solved
  BY StageGiven DEF Stage!LogoStageAssumption, Stage!Progress, Stage!ImageUrl, Stage!Whole

(* Every step keeps the images those of the progress. *)
LEMMA StageImagesNext == StageImages /\ [Stage!Next]_(Stage!vars) => StageImages'
<1> SUFFICES ASSUME StageImages, [Stage!Next]_(Stage!vars) PROVE StageImages'
  OBVIOUS
<1>0. None \notin Stage!Progress /\ None \notin Stage!Images
  BY StageGiven DEF Stage!LogoStageAssumption
<1>1. ASSUME NEW p \in Stage!Progress, NEW byGuess \in BOOLEAN, Stage!Arrives(p, byGuess) PROVE StageImages'
  <2>1. /\ Stage!ImageUrl(p) \in {Stage!Whole} \cup 0..StageRevision
        /\ (Stage!ImageUrl(p) = Stage!Whole) = p.solved /\ p.solved \in BOOLEAN /\ p # None
        /\ progress' = p
    BY <1>0, <1>1, StageUrl DEF Stage!Arrives, Stage!Progress
  <2>2. CASE progress = None
    <3>1. image' = [src |-> Stage!ImageUrl(p), solved |-> p.solved, failed |-> FALSE] /\ preload' = None
      BY <1>1, <2>2 DEF Stage!Arrives, Stage!Mounted
    <3>2. image' \in Stage!Images /\ image'.src = Stage!ImageUrl(p) /\ image'.solved = p.solved
      BY <2>1, <3>1 DEF Stage!Images
    <3> QED BY <2>1, <3>1, <3>2 DEF StageImages
  <2>3. CASE progress # None /\ Stage!ImageUrl(p) = Stage!ImageUrl(progress)
    BY <1>1, <2>1, <2>3 DEF Stage!Arrives, StageImages
  <2>4. CASE progress # None /\ Stage!ImageUrl(p) # Stage!ImageUrl(progress)
    <3>1. Stage!ImageEffect(p)
      BY <1>1, <2>4 DEF Stage!Arrives
    <3>2. CASE Stage!ImageUrl(p) = image.src
      <4>1. image' = [image EXCEPT !.solved = p.solved] /\ preload' = None
        BY <3>1, <3>2 DEF Stage!ImageEffect
      <4>2. image' \in Stage!Images /\ image'.src = image.src /\ image'.solved = p.solved
        BY <2>1, <2>4, <4>1 DEF Stage!Images, StageImages
      <4> QED BY <2>1, <3>2, <4>1, <4>2 DEF StageImages
    <3>3. CASE Stage!ImageUrl(p) # image.src
      <4>1. /\ image' = image
            /\ preload' = [src |-> Stage!ImageUrl(p), solved |-> p.solved, failed |-> FALSE]
        BY <3>1, <3>3 DEF Stage!ImageEffect
      <4>2. preload' \in Stage!Images /\ preload'.src = Stage!ImageUrl(p) /\ preload'.solved = p.solved
        BY <2>1, <4>1 DEF Stage!Images
      <4> QED BY <1>0, <2>1, <2>4, <4>1, <4>2 DEF StageImages
    <3> QED BY <3>2, <3>3
  <2> QED BY <2>2, <2>3, <2>4
<1>2. CASE Stage!Loading
  BY <1>2 DEF Stage!Loading, StageImages
<1>3. CASE Stage!ImageLoads
  <2>1. /\ preload # None /\ preload' = None /\ progress' = progress
        /\ image' = [src |-> preload.src, solved |-> preload.solved, failed |-> FALSE]
    BY <1>3 DEF Stage!ImageLoads, Stage!Fetching
  <2>2. progress # None /\ preload \in Stage!Images
    BY <2>1 DEF StageImages
  <2>3. image' \in Stage!Images /\ image'.src = preload.src /\ image'.solved = preload.solved
    BY <2>1, <2>2 DEF Stage!Images
  <2> QED BY <2>1, <2>2, <2>3 DEF StageImages
<1>4. CASE Stage!ImageFails
  <2>1. /\ preload # None /\ progress' = progress
        /\ image' = [image EXCEPT !.failed = TRUE] /\ preload' = [preload EXCEPT !.failed = TRUE]
    BY <1>4 DEF Stage!ImageFails, Stage!Fetching
  <2>2. progress # None /\ preload \in Stage!Images /\ image \in Stage!Images
    BY <2>1 DEF StageImages
  <2>3. /\ image' \in Stage!Images /\ image'.src = image.src /\ image'.solved = image.solved
        /\ preload' \in Stage!Images /\ preload'.src = preload.src /\ preload'.solved = preload.solved
    BY <2>1, <2>2 DEF Stage!Images
  <2>4. preload' # None
    BY <1>0, <2>3
  <2> QED BY <2>1, <2>2, <2>3, <2>4 DEF StageImages
<1>5. ASSUME NEW loaded \in BOOLEAN, Stage!DisplayedLoads(loaded) PROVE StageImages'
  <2>1. /\ image # None /\ UNCHANGED <<progress, preload>>
        /\ image' = [image EXCEPT !.failed = ~loaded]
    BY <1>5 DEF Stage!DisplayedLoads
  <2>2. progress # None /\ image \in Stage!Images
    BY <2>1 DEF StageImages
  <2>3. image' \in Stage!Images /\ image'.src = image.src /\ image'.solved = image.solved
    BY <2>1, <2>2 DEF Stage!Images
  <2> QED BY <2>1, <2>2, <2>3 DEF StageImages
<1>6. ASSUME UNCHANGED Stage!stage PROVE StageImages'
  BY <1>6 DEF Stage!stage, StageImages
<1>7. CASE \E i \in DOMAIN StageAfter : Stage!OpenClue(i)
  BY <1>6, <1>7 DEF Stage!OpenClue, Stage!stage
<1>8. CASE \E s \in StageScopes : Stage!ScopeChanges(s)
  BY <1>6, <1>8 DEF Stage!ScopeChanges, Stage!stage
<1>9. CASE Stage!CloseClue \/ Stage!TimerFires \/ Stage!ShowWinningGuess \/ Stage!CloseDialog \/ Stage!Share
  BY <1>6, <1>9 DEF Stage!CloseClue, Stage!TimerFires, Stage!ShowWinningGuess, Stage!CloseDialog,
                    Stage!Share, Stage!stage
<1>10. CASE UNCHANGED Stage!vars
  BY <1>6, <1>10 DEF Stage!vars, Stage!stage
<1> QED BY <1>1, <1>2, <1>3, <1>4, <1>5, <1>7, <1>8, <1>9, <1>10 DEF Stage!Next

(* Every step keeps the clues viewed, stored and shown those of their      *)
(* scope.                                                                  *)
LEMMA StageViewsNext == StageViews /\ [Stage!Next]_(Stage!vars) => StageViews'
<1> SUFFICES ASSUME StageViews, [Stage!Next]_(Stage!vars) PROVE StageViews'
  OBVIOUS
<1>1. ASSUME NEW i \in DOMAIN StageAfter, Stage!OpenClue(i) PROVE StageViews'
  <2>1. /\ selected' = i /\ Stage!MarkViewed(i) /\ UNCHANGED <<scope, saved, shared>>
        /\ seen' = [seen EXCEPT ![scope] = @ \cup {i}]
    BY <1>1 DEF Stage!OpenClue, Stage!completion
  <2>2. Stage!Indices \subseteq seen[scope]
    BY DEF StageViews, Stage!Indices
  <2>3. /\ seen' \in [StageScopes -> SUBSET DOMAIN StageAfter]
        /\ i \in seen'[scope]
        /\ \A s \in StageScopes : seen[s] \subseteq seen'[s]
    BY <2>1 DEF StageViews
  <2>4. CASE i \in Stage!Indices
    <3>1. views' = views /\ stored' = stored
      BY <2>1, <2>4 DEF Stage!MarkViewed
    <3>2. Stage!Indices' = Stage!Indices
      BY <2>1, <3>1 DEF Stage!Indices
    <3> QED BY <2>1, <2>3, <2>4, <3>1, <3>2 DEF StageViews
  <2>5. CASE i \notin Stage!Indices
    <3> DEFINE next == [scope |-> scope, indices |-> Stage!Indices \cup {i}]
    <3>1. views' = next /\ (stored' = stored \/ stored' = next)
      BY <2>1, <2>5 DEF Stage!MarkViewed
    <3>2. /\ next \in [scope : StageScopes, indices : SUBSET DOMAIN StageAfter]
          /\ next.scope = scope /\ next.indices \subseteq seen'[scope] /\ i \in next.indices
      <4>1. seen[scope] \subseteq DOMAIN StageAfter
        BY DEF StageViews
      <4> QED BY <2>2, <2>3, <4>1 DEF StageViews
    <3> HIDE DEF next
    <3>3. i \in Stage!Indices'
      BY <2>1, <3>1, <3>2 DEF Stage!Indices
    <3>4. scope' \in StageScopes /\ views'.indices \subseteq seen'[views'.scope]
      BY <2>1, <3>1, <3>2 DEF StageViews
    <3>5. stored' # None => /\ stored' \in [scope : StageScopes, indices : SUBSET DOMAIN StageAfter]
                            /\ stored'.indices \subseteq seen'[stored'.scope]
      BY <2>3, <3>1, <3>2 DEF StageViews
    <3>6. saved' \subseteq seen'[scope']
      BY <2>1, <2>3 DEF StageViews
    <3>7. shared' # None => shared'.scope \in StageScopes /\ (shared'.clue => seen'[shared'.scope] # {})
      BY <2>1, <2>3 DEF StageViews
    <3> QED BY <2>1, <2>3, <3>1, <3>2, <3>3, <3>4, <3>5, <3>6, <3>7 DEF StageViews
  <2> QED BY <2>4, <2>5
<1>2. ASSUME NEW s \in StageScopes, Stage!ScopeChanges(s) PROVE StageViews'
  BY <1>2 DEF Stage!ScopeChanges, StageViews, Stage!ReadViews, Stage!completion
<1>3. CASE Stage!Share
  <2>1. /\ shared' = [scope |-> scope, guesses |-> progress.wrong + 1, clue |-> Stage!UsedClueCount > 0]
        /\ UNCHANGED Stage!clues
    BY <1>3 DEF Stage!Share
  <2>2. Stage!Indices \subseteq seen[scope]
    BY DEF StageViews, Stage!Indices
  <2>3. Stage!UsedClueCount > 0 => Stage!Indices # {}
    <3> SUFFICES ASSUME Stage!Indices = {} PROVE Stage!UsedClueCount = 0
      OBVIOUS
    <3>1. Stage!Indices \cap Stage!Clues(progress) = {}
      OBVIOUS
    <3> QED BY <3>1, FS_EmptySet, StageCardinality DEF Stage!UsedClueCount
  <2>4. shared'.scope = scope /\ shared'.clue = (Stage!UsedClueCount > 0)
    BY <2>1
  <2>5. Stage!Indices' = Stage!Indices
    BY <2>1 DEF Stage!Indices, Stage!clues
  <2> QED BY <2>1, <2>2, <2>3, <2>4, <2>5 DEF StageViews, Stage!clues
<1>4. CASE Stage!Loading \/ Stage!CloseClue
  <2>1. UNCHANGED <<scope, views, saved, stored, seen, shared>> /\ selected' = None
    BY <1>4 DEF Stage!Loading, Stage!CloseClue, Stage!completion
  <2> QED BY <2>1 DEF StageViews
<1>5. ASSUME UNCHANGED <<Stage!clues, shared>> PROVE StageViews'
  <2>1. Stage!Indices' = Stage!Indices
    BY <1>5 DEF Stage!Indices, Stage!clues
  <2> QED BY <1>5, <2>1 DEF Stage!clues, StageViews
<1>6. CASE \E p \in Stage!Progress, byGuess \in BOOLEAN : Stage!Arrives(p, byGuess)
  BY <1>5, <1>6 DEF Stage!Arrives
<1>7. CASE \E loaded \in BOOLEAN : Stage!DisplayedLoads(loaded)
  BY <1>5, <1>7 DEF Stage!DisplayedLoads, Stage!completion
<1>8. CASE Stage!ImageLoads \/ Stage!ImageFails \/ Stage!TimerFires \/ Stage!ShowWinningGuess \/ Stage!CloseDialog
  BY <1>5, <1>8 DEF Stage!ImageLoads, Stage!ImageFails, Stage!TimerFires, Stage!ShowWinningGuess,
                    Stage!CloseDialog, Stage!completion
<1>9. CASE UNCHANGED Stage!vars
  BY <1>5, <1>9 DEF Stage!vars, Stage!clues
<1> QED BY <1>1, <1>2, <1>3, <1>4, <1>6, <1>7, <1>8, <1>9 DEF Stage!Next

(* Every step keeps the flags flags. *)
LEMMA StageFlagsNext == StageFlags /\ [Stage!Next]_(Stage!vars) => StageFlags'
  BY DEF StageFlags, Stage!Next, Stage!vars, Stage!Arrives, Stage!Loading, Stage!ImageLoads,
         Stage!ImageFails, Stage!DisplayedLoads, Stage!OpenClue,
         Stage!CloseClue, Stage!ScopeChanges, Stage!TimerFires, Stage!ShowWinningGuess,
         Stage!CloseDialog, Stage!Share, Stage!completion, Stage!Progress

(* The Logo's image is that of its progress or one that is on its way, and *)
(* what is counted as viewed was opened under the account or player it is  *)
(* shown to.                                                               *)
THEOREM StageAlways == Stage!Spec => [](Stage!TypeOK /\ Stage!ImageIsOfProgress /\ Stage!ViewsAreOfScope)
<1> DEFINE Inv == StageImages /\ StageViews /\ StageFlags
<1>1. Stage!Init => Inv
  <2> SUFFICES ASSUME Stage!Init PROVE Inv
    OBVIOUS
  <2>1. StageImages
    BY DEF Stage!Init, StageImages
  <2>2. StageViews
    BY DEF Stage!Init, StageViews
  <2> QED BY <2>1, <2>2 DEF Stage!Init, StageFlags
<1>2. Inv /\ [Stage!Next]_(Stage!vars) => Inv'
  BY StageImagesNext, StageViewsNext, StageFlagsNext
<1>3. Inv => Stage!TypeOK /\ Stage!ImageIsOfProgress /\ Stage!ViewsAreOfScope
  <2> SUFFICES ASSUME Inv PROVE Stage!TypeOK /\ Stage!ImageIsOfProgress /\ Stage!ViewsAreOfScope
    OBVIOUS
  <2>1. None \notin Stage!Images
    BY StageGiven DEF Stage!LogoStageAssumption
  <2>2. Stage!ImageIsOfProgress /\ ((image = None) = (progress = None))
    BY <2>1 DEF StageImages, Stage!ImageIsOfProgress
  <2>3. Stage!ViewsAreOfScope
    BY DEF StageViews, Stage!Indices, Stage!ViewsAreOfScope
  <2> QED BY <2>2, <2>3 DEF StageImages, StageViews, StageFlags, Stage!TypeOK
<1> HIDE DEF Inv
<1> QED BY <1>1, <1>2, <1>3, PTL DEF Stage!Spec

-----------------------------------------------------------------------------
(* The profile page. *)
Profile == INSTANCE ProfileScreen WITH
  Categories <- ProfileCategories, Records <- ProfileRecords, Names <- ProfileNames,
  Taken <- ProfileTaken, Unlocked <- ProfileUnlocked, MaxReads <- ProfileBounds.reads,
  MaxSaves <- ProfileBounds.saves

(* What the page is given is as its module assumes. *)
ASSUME ProfileGiven == Profile!ProfileScreenAssumption

(* The larger and the smaller of two numbers. *)
LEMMA ProfileBetween ==
  ASSUME NEW a \in Int, NEW b \in Int
  PROVE  /\ Profile!Max({a, b}) = IF a >= b THEN a ELSE b
         /\ Profile!Min({a, b}) = IF a <= b THEN a ELSE b
<1>1. \E x \in {a, b} : \A y \in {a, b} : x >= y
  OBVIOUS
<1>2. \E x \in {a, b} : \A y \in {a, b} : x =< y
  OBVIOUS
<1>3. Profile!Max({a, b}) \in {a, b} /\ \A y \in {a, b} : Profile!Max({a, b}) >= y
  BY <1>1 DEF Profile!Max
<1>4. Profile!Min({a, b}) \in {a, b} /\ \A y \in {a, b} : Profile!Min({a, b}) =< y
  BY <1>2 DEF Profile!Min
<1>5. Profile!Max({a, b}) = IF a >= b THEN a ELSE b
  BY <1>3
<1>6. Profile!Min({a, b}) = IF a <= b THEN a ELSE b
  BY <1>4
<1> QED BY <1>5, <1>6

(* The read in flight is of what is asked; those before it are cancelled,  *)
(* and what is shown is the answer.                                        *)
ProfileCloud ==
  /\ reading \subseteq Profile!Reads /\ late \subseteq Profile!Reads /\ reads \in Nat
  /\ \A r, s \in reading : r = s
  /\ \A r \in reading \cup late : r.id <= reads
  /\ \A r \in reading, l \in late : l.id < r.id
  /\ \A r \in reading : r.asked = Profile!Asked
  /\ cloudHistory # None => cloudHistory = Profile!History(Profile!Asked)
  /\ user = None => reading = {} /\ cloudHistory = None

(* The tab is one of those there are, and the page of the history within   *)
(* its pages.                                                              *)
ProfileTabs ==
  /\ played \in ProfileRecords
  /\ game \in Profile!StatsGames /\ category \in ProfileCategories /\ difficulty \in Profile!TimelineDifficulties
  /\ historyPage \in Nat \ {0}
  /\ user = None => historyPage <= Profile!TotalPages

(* The form's name is being saved, or the name shown is the account's. *)
ProfileNaming ==
  /\ user \in Profile!Accounts \cup {None} /\ saves \in Nat
  /\ form \in Profile!Texts /\ name \in Profile!Texts /\ busy \in Profile!Outcomes \cup {None}
  /\ toast \in Profile!Toasts \cup {None}
  /\ user = None => busy = None
  /\ busy # None /\ busy.is = "saved" => busy.name = name
  /\ Profile!NameIsAccounts

(* The inductive invariant of the profile page. *)
ProfileInv == ProfileCloud /\ ProfileTabs /\ ProfileNaming

(* How many games there are of a tab, on the device. *)
LEMMA ProfileCounts ==
  ASSUME played \in ProfileRecords, NEW g \in Profile!StatsGames, NEW c \in ProfileCategories, NEW d \in Profile!TimelineDifficulties
  PROVE  Len(Profile!LocalHistory(g, Profile!ActiveTopic(g, c, d))) \in Nat
<1> DEFINE gs == played[<<g, Profile!ActiveTopic(g, c, d)>>]
<1>1. <<g, Profile!ActiveTopic(g, c, d)>> \in Profile!Tabs
  BY DEF Profile!ActiveTopic, Profile!Tabs, Profile!StatsGames
<1>2. gs \in Seq(Profile!Range(gs))
  BY <1>1, ProfileGiven DEF Profile!ProfileScreenAssumption
<1> HIDE DEF gs
<1>3. Len(gs) \in Nat /\ DOMAIN gs = 1..Len(gs)
  BY <1>2
<1>4. DOMAIN Profile!ByDay(gs) = DOMAIN gs
  BY DEF Profile!ByDay
<1>5. Len(Profile!ByDay(gs)) \in Nat
  BY <1>3, <1>4
<1>6. Profile!LocalHistory(g, Profile!ActiveTopic(g, c, d)) \in {<<>>, Profile!ByDay(gs)}
  BY DEF Profile!LocalHistory, gs
<1>7. Len(<<>>) = 0
  OBVIOUS
<1> QED BY <1>5, <1>6, <1>7

(* and of the account. *)
LEMMA ProfileServed ==
  ASSUME played \in ProfileRecords, NEW q \in Profile!Asks, Profile!History(q) # None
  PROVE  \E gs : Len(gs) \in Nat /\ Profile!History(q).games = Profile!PageOf(gs, q.page) /\ Profile!History(q).total = Len(gs)
<1> DEFINE gs == played[<<q.game, q.topic>>]
           sorted == Profile!ServerOrder(gs)
<1>1. Profile!Known(q.game, q.topic) /\ Profile!History(q).games = Profile!PageOf(sorted, q.page) /\ Profile!History(q).total = Len(sorted)
  BY DEF Profile!History
<1>2. q.game \in Profile!StatsGames
  BY DEF Profile!Asks
<1>3. <<q.game, q.topic>> \in Profile!Tabs
  BY <1>1, <1>2 DEF Profile!Known, Profile!Tabs, Profile!StatsGames, Profile!TimelineDifficulties,
                    Profile!Difficulties
<1>4. gs \in Seq(Profile!Range(gs))
  BY <1>3, ProfileGiven DEF Profile!ProfileScreenAssumption
<1> HIDE DEF gs
<1>5. Len(gs) \in Nat /\ DOMAIN gs = 1..Len(gs)
  BY <1>4
<1>6. DOMAIN Profile!ServerOrder(gs) = DOMAIN gs
  BY DEF Profile!ServerOrder
<1>7. Len(sorted) \in Nat
  BY <1>5, <1>6
<1> QED BY <1>1, <1>7

(* The pages of so many games. *)
ProfilePagesOf(n) == Profile!Max({1, (n + Profile!HistoryPageSize - 1) \div Profile!HistoryPageSize})

(* A page that begins within the games is one of the pages. *)
LEMMA ProfilePages ==
  ASSUME NEW n \in Nat
  PROVE  /\ ProfilePagesOf(n) \in Nat \ {0}
         /\ \A p \in Nat \ {0} : p * 3 - 2 <= n => p <= ProfilePagesOf(n)
<1> DEFINE k == (n + 3 - 1) \div 3
<1>1. k \in Nat /\ k * 3 <= n + 2 /\ n + 2 <= k * 3 + 2
  OBVIOUS
<1>2. ProfilePagesOf(n) = Profile!Max({1, k})
  BY DEF ProfilePagesOf, Profile!HistoryPageSize
<1> HIDE DEF k
<1>3. ProfilePagesOf(n) = IF 1 >= k THEN 1 ELSE k
  BY <1>1, <1>2, ProfileBetween
<1> QED BY <1>1, <1>3

(* A page with games is a page there is. *)
LEMMA ProfilePage ==
  ASSUME NEW gs, Len(gs) \in Nat, NEW pageNo \in Nat \ {0}, Profile!PageOf(gs, pageNo) # <<>>
  PROVE  pageNo * 3 - 2 <= Len(gs)
<1> DEFINE start == (pageNo - 1) * 3 + 1
           end == Profile!Min({pageNo * 3, Len(gs)})
<1>1. pageNo * 3 \in Int /\ Len(gs) \in Int /\ start = pageNo * 3 - 2 /\ start \in Int
  OBVIOUS
<1>2. end = IF pageNo * 3 <= Len(gs) THEN pageNo * 3 ELSE Len(gs)
  BY <1>1, ProfileBetween
<1>3. Profile!PageOf(gs, pageNo) = SubSeq(gs, start, end)
  BY DEF Profile!PageOf, Profile!HistoryPageSize
<1>4. end \in Int /\ end <= Len(gs)
  BY <1>1, <1>2
<1> HIDE DEF start, end
<1>5. ~(end < start)
  BY <1>1, <1>3, <1>4, SubSeqEmpty
<1> QED BY <1>1, <1>4, <1>5

(* There is a page, and where there are games the page shown is the page   *)
(* chosen.                                                                 *)
LEMMA ProfileTotal ==
  ASSUME ProfileInv
  PROVE  Profile!TotalPages \in Nat \ {0} /\ (Profile!HistoryGames # <<>> => Profile!ShownPage = historyPage)
<1>0. /\ ProfileCloud /\ ProfileTabs
      /\ game \in Profile!StatsGames /\ category \in ProfileCategories /\ difficulty \in Profile!TimelineDifficulties
      /\ played \in ProfileRecords /\ historyPage \in Nat \ {0}
  BY DEF ProfileInv, ProfileTabs
<1>1. Profile!TotalPages = ProfilePagesOf(Profile!HistoryCount)
  BY DEF Profile!TotalPages, ProfilePagesOf
<1>2. ASSUME Profile!TotalPages \in Nat \ {0}, Profile!HistoryGames # <<>> => historyPage <= Profile!TotalPages
      PROVE  Profile!TotalPages \in Nat \ {0} /\ (Profile!HistoryGames # <<>> => Profile!ShownPage = historyPage)
  <2>1. Profile!ShownPage = IF historyPage <= Profile!TotalPages THEN historyPage ELSE Profile!TotalPages
    <3>1. historyPage \in Int /\ Profile!TotalPages \in Int
      BY <1>0, <1>2
    <3>2. Profile!ShownPage = Profile!Min({historyPage, Profile!TotalPages})
      BY DEF Profile!ShownPage
    <3> QED BY <3>1, <3>2, ProfileBetween
  <2> QED BY <1>2, <2>1
<1>3. CASE user = None
  <2>1. Profile!HistoryCount \in Nat
    BY <1>0, <1>3, ProfileCounts DEF Profile!HistoryCount
  <2> QED BY <1>0, <1>1, <1>2, <1>3, <2>1, ProfilePages DEF ProfileTabs
<1>4. CASE user # None /\ cloudHistory = None
  <2>1. Profile!HistoryCount = 0 /\ Profile!HistoryGames = <<>>
    BY <1>4 DEF Profile!HistoryCount, Profile!HistoryGames
  <2> QED BY <1>1, <1>2, <2>1, ProfilePages
<1>5. CASE user # None /\ cloudHistory # None
  <2>1. cloudHistory = Profile!History(Profile!Asked)
    BY <1>0, <1>5 DEF ProfileCloud
  <2>2. Profile!Asked \in Profile!Asks /\ Profile!Asked.page = historyPage
    BY <1>0 DEF Profile!Asked, Profile!Asks, Profile!ActiveTopic
  <2>3. PICK gs : /\ Len(gs) \in Nat /\ Profile!History(Profile!Asked).games = Profile!PageOf(gs, historyPage)
                  /\ Profile!History(Profile!Asked).total = Len(gs)
    BY <1>0, <1>5, <2>1, <2>2, ProfileServed
  <2>4. Profile!HistoryCount = Len(gs) /\ Profile!HistoryGames = Profile!PageOf(gs, historyPage)
    BY <1>5, <2>1, <2>3 DEF Profile!HistoryCount, Profile!HistoryGames
  <2>5. Profile!HistoryGames # <<>> => historyPage * 3 - 2 <= Len(gs)
    BY <1>0, <2>3, <2>4, ProfilePage
  <2> QED BY <1>0, <1>1, <1>2, <2>3, <2>4, <2>5, ProfilePages
<1> QED BY <1>3, <1>4, <1>5

(* The effect reads what is asked from then on. *)
LEMMA ProfileRead ==
  ASSUME ProfileCloud, NEW who, NEW asks \in Profile!Asks, Profile!ReadHistory(who, asks),
         Profile!Asked' = asks, who = None <=> user' = None
  PROVE  ProfileCloud'
<1>1. /\ cloudHistory' = None /\ late' = late \cup reading
  BY DEF Profile!ReadHistory
<1>2. late' \subseteq Profile!Reads /\ reads \in Nat /\ \A r \in late' : r.id <= reads
  BY <1>1 DEF ProfileCloud
<1>3. CASE who = None
  <2>1. reading' = {} /\ reads' = reads
    BY <1>3 DEF Profile!ReadHistory
  <2> QED BY <1>1, <1>2, <2>1 DEF ProfileCloud
<1>4. CASE who # None
  <2> DEFINE new == [id |-> reads', asked |-> asks]
  <2>1. reads' = reads + 1 /\ reading' = {new}
    BY <1>4 DEF Profile!ReadHistory
  <2>2. new \in Profile!Reads /\ new.id = reads + 1 /\ new.asked = asks
    BY <1>2, <2>1 DEF Profile!Reads
  <2> HIDE DEF new
  <2>3. \A r \in late' : r.id \in Nat
    BY <1>2 DEF Profile!Reads
  <2>4. /\ reads' \in Nat /\ \A r \in reading' \cup late' : r.id <= reads'
        /\ \A r \in reading', l \in late' : l.id < r.id
    BY <1>2, <2>1, <2>2, <2>3
  <2>5. /\ reading' \subseteq Profile!Reads /\ \A r, s \in reading' : r = s
        /\ \A r \in reading' : r.asked = Profile!Asked'
    BY <2>1, <2>2
  <2> QED BY <1>1, <1>2, <1>4, <2>4, <2>5 DEF ProfileCloud
<1> QED BY <1>3, <1>4

(* A tab and a page that are shown. *)
LEMMA ProfileShow ==
  ASSUME ProfileInv, NEW g \in Profile!StatsGames, NEW c \in ProfileCategories, NEW d \in Profile!TimelineDifficulties,
         NEW pageNo \in Nat \ {0}, Profile!ShowTab(g, c, d, pageNo),
         user = None => pageNo <= ProfilePagesOf(Len(Profile!LocalHistory(g, Profile!ActiveTopic(g, c, d))))
  PROVE  ProfileInv'
<1> DEFINE asks == [game |-> g, topic |-> Profile!ActiveTopic(g, c, d), page |-> pageNo]
<1>0. ProfileCloud /\ ProfileTabs /\ ProfileNaming
  BY DEF ProfileInv
<1>1. /\ game' = g /\ category' = c /\ difficulty' = d /\ historyPage' = pageNo
      /\ IF asks = Profile!Asked THEN UNCHANGED Profile!cloud ELSE Profile!ReadHistory(user, asks)
      /\ UNCHANGED <<played, user, Profile!naming>>
  BY DEF Profile!ShowTab
<1>2. Profile!ActiveTopic(g, c, d) \in ProfileCategories \cup Profile!TimelineDifficulties
  BY DEF Profile!ActiveTopic
<1>3. asks \in Profile!Asks
  BY <1>2 DEF Profile!Asks
<1>4. Profile!Asked' = asks
  BY <1>1 DEF Profile!Asked
<1> HIDE DEF asks
<1>5. ProfileCloud'
  <2>1. CASE asks = Profile!Asked
    <3>1. UNCHANGED <<cloudHistory, reading, late, reads, user>> /\ Profile!Asked' = Profile!Asked
      BY <1>1, <1>4, <2>1 DEF Profile!cloud
    <3>2. Profile!History(Profile!Asked)' = Profile!History(Profile!Asked)
      BY <1>1, <3>1 DEF Profile!History
    <3> QED BY <1>0, <3>1, <3>2 DEF ProfileCloud
  <2>2. CASE asks # Profile!Asked
    <3>1. Profile!ReadHistory(user, asks) /\ user' = user
      BY <1>1, <2>2
    <3> QED BY <1>0, <1>3, <1>4, <3>1, ProfileRead
  <2> QED BY <2>1, <2>2
<1>6. ProfileTabs'
  <2>1. user' = None => historyPage' <= Profile!TotalPages'
    <3>1. user' = None => Profile!HistoryCount' = Len(Profile!LocalHistory(g, Profile!ActiveTopic(g, c, d)))
      BY <1>1 DEF Profile!HistoryCount, Profile!LocalHistory, Profile!ActiveTopic
    <3>2. Profile!TotalPages' = ProfilePagesOf(Profile!HistoryCount')
      BY DEF Profile!TotalPages, ProfilePagesOf
    <3> QED BY <1>1, <3>1, <3>2
  <2> QED BY <1>0, <1>1, <2>1 DEF ProfileTabs
<1>7. ProfileNaming'
  BY <1>0, <1>1 DEF ProfileNaming, Profile!NameIsAccounts, Profile!naming
<1> QED BY <1>5, <1>6, <1>7 DEF ProfileInv

(* Choosing a tab or turning a page. *)
LEMMA ProfileTabSteps ==
  ASSUME ProfileInv
  PROVE  /\ \A g \in Profile!StatsGames : Profile!ChooseGame(g) => ProfileInv'
         /\ \A c \in ProfileCategories : Profile!ChooseCategory(c) => ProfileInv'
         /\ \A d \in Profile!TimelineDifficulties : Profile!ChooseDifficulty(d) => ProfileInv'
         /\ Profile!PreviousPage \/ Profile!NextPage => ProfileInv'
<1>0. /\ game \in Profile!StatsGames /\ category \in ProfileCategories /\ difficulty \in Profile!TimelineDifficulties
      /\ played \in ProfileRecords /\ historyPage \in Nat \ {0}
      /\ user = None => historyPage <= Profile!TotalPages
  BY DEF ProfileInv, ProfileTabs
<1>1. ASSUME NEW g \in Profile!StatsGames, NEW c \in ProfileCategories, NEW d \in Profile!TimelineDifficulties,
             Profile!ShowTab(g, c, d, 1)
      PROVE  ProfileInv'
  <2> DEFINE n == Len(Profile!LocalHistory(g, Profile!ActiveTopic(g, c, d)))
  <2>1. n \in Nat
    BY <1>0, ProfileCounts
  <2> HIDE DEF n
  <2>2. 1 \in Nat \ {0} /\ 1 <= ProfilePagesOf(n)
    BY <2>1, ProfilePages
  <2> QED BY <1>1, <2>2, ProfileShow DEF n
<1>2. ASSUME NEW g \in Profile!StatsGames, Profile!ChooseGame(g) PROVE ProfileInv'
  <2> DEFINE d == IF g = "emoji" /\ difficulty \notin Profile!Difficulties THEN "normal" ELSE difficulty
  <2>1. d \in Profile!TimelineDifficulties /\ Profile!ShowTab(g, category, d, 1)
    BY <1>0, <1>2 DEF Profile!ChooseGame, Profile!TimelineDifficulties, Profile!Difficulties
  <2> HIDE DEF d
  <2> QED BY <1>0, <1>1, <2>1
<1>3. ASSUME NEW c \in ProfileCategories, Profile!ChooseCategory(c) PROVE ProfileInv'
  BY <1>0, <1>1, <1>3 DEF Profile!ChooseCategory
<1>4. ASSUME NEW d \in Profile!TimelineDifficulties, Profile!ChooseDifficulty(d) PROVE ProfileInv'
  BY <1>0, <1>1, <1>4 DEF Profile!ChooseDifficulty
<1> DEFINE n == Len(Profile!LocalHistory(game, Profile!ActiveTopic(game, category, difficulty)))
<1>5. n \in Nat
  BY <1>0, ProfileCounts
<1>6. user = None => Profile!HistoryCount = n
  BY DEF Profile!HistoryCount
<1>7. Profile!TotalPages = ProfilePagesOf(Profile!HistoryCount)
  BY DEF Profile!TotalPages, ProfilePagesOf
<1> HIDE DEF n
<1>8. ProfilePagesOf(n) \in Nat \ {0}
  BY <1>5, ProfilePages
<1>9. ASSUME NEW pageNo \in Nat \ {0}, Profile!ShowTab(game, category, difficulty, pageNo),
             user = None => pageNo <= ProfilePagesOf(n)
      PROVE  ProfileInv'
  BY <1>0, <1>9, ProfileShow DEF n
<1>10. ASSUME Profile!PreviousPage PROVE ProfileInv'
  <2> DEFINE pageNo == Profile!Max({1, historyPage - 1})
  <2>1. pageNo = IF 1 >= historyPage - 1 THEN 1 ELSE historyPage - 1
    BY <1>0, ProfileBetween
  <2>2. Profile!ShowTab(game, category, difficulty, pageNo)
    BY <1>10 DEF Profile!PreviousPage
  <2> HIDE DEF pageNo
  <2>3. pageNo \in Nat \ {0} /\ pageNo <= historyPage
    BY <1>0, <2>1
  <2> QED BY <1>0, <1>6, <1>7, <1>8, <1>9, <2>2, <2>3
<1>11. ASSUME Profile!NextPage PROVE ProfileInv'
  <2> DEFINE pageNo == Profile!Min({Profile!TotalPages, historyPage + 1})
  <2>1. Profile!TotalPages \in Nat \ {0} /\ Profile!TotalPages \in Int /\ historyPage + 1 \in Int
    BY <1>0, ProfileTotal
  <2>2. pageNo = IF Profile!TotalPages <= historyPage + 1 THEN Profile!TotalPages ELSE historyPage + 1
    BY <2>1, ProfileBetween
  <2>3. Profile!ShowTab(game, category, difficulty, pageNo)
    BY <1>11 DEF Profile!NextPage
  <2> HIDE DEF pageNo
  <2>4. pageNo \in Nat \ {0} /\ pageNo <= Profile!TotalPages
    BY <1>0, <2>1, <2>2
  <2> QED BY <1>6, <1>7, <1>9, <2>3, <2>4
<1> QED BY <1>2, <1>3, <1>4, <1>10, <1>11

(* Histories that answer, in time or late. *)
LEMMA ProfileCloudSteps ==
  ASSUME ProfileInv
  PROVE  /\ \A r \in reading : Profile!HistoryAnswer(r) => ProfileInv'
         /\ \A r \in late : Profile!LateAnswer(r) => ProfileInv'
<1>0. ProfileCloud /\ ProfileTabs /\ ProfileNaming
  BY DEF ProfileInv
<1>1. ASSUME NEW r \in reading, Profile!HistoryAnswer(r) PROVE ProfileInv'
  <2>1. /\ reading' = {} /\ cloudHistory' \in {Profile!History(r.asked), None}
        /\ UNCHANGED <<played, user, Profile!tabs, late, reads, Profile!naming>>
    BY <1>1 DEF Profile!HistoryAnswer
  <2>2. r.asked = Profile!Asked /\ user # None
    BY <1>0 DEF ProfileCloud
  <2>3. Profile!Asked' = Profile!Asked /\ Profile!History(Profile!Asked)' = Profile!History(Profile!Asked)
    BY <2>1 DEF Profile!Asked, Profile!History, Profile!tabs
  <2>4. ProfileCloud'
    BY <1>0, <2>1, <2>2, <2>3 DEF ProfileCloud
  <2>5. ProfileTabs' /\ ProfileNaming'
    BY <1>0, <2>1, <2>2 DEF ProfileTabs, ProfileNaming, Profile!NameIsAccounts, Profile!tabs,
                            Profile!naming
  <2> QED BY <2>4, <2>5 DEF ProfileInv
<1>2. ASSUME NEW r \in late, Profile!LateAnswer(r) PROVE ProfileInv'
  <2>1. /\ late' \subseteq late
        /\ UNCHANGED <<played, user, Profile!tabs, cloudHistory, reading, reads, Profile!naming>>
    BY <1>2 DEF Profile!LateAnswer
  <2>2. Profile!Asked' = Profile!Asked /\ Profile!History(Profile!Asked)' = Profile!History(Profile!Asked) /\ (user = None => Profile!TotalPages' = Profile!TotalPages)
    BY <2>1 DEF Profile!Asked, Profile!History, Profile!tabs, Profile!TotalPages,
                Profile!HistoryCount, Profile!LocalHistory, Profile!ActiveTopic
  <2>3. ProfileCloud'
    BY <1>0, <2>1, <2>2 DEF ProfileCloud
  <2>4. ProfileTabs' /\ ProfileNaming'
    BY <1>0, <2>1, <2>2 DEF ProfileTabs, ProfileNaming, Profile!NameIsAccounts, Profile!tabs,
                            Profile!naming
  <2> QED BY <2>3, <2>4 DEF ProfileInv
<1> QED BY <1>1, <1>2

(* The user name. *)
LEMMA ProfileNameSteps ==
  ASSUME ProfileInv
  PROVE  /\ \A n \in Profile!Texts : Profile!EditName(n) => ProfileInv'
         /\ Profile!SubmitName => ProfileInv'
         /\ Profile!NameSaved => ProfileInv'
         /\ Profile!NameFailed => ProfileInv'
<1>0. ProfileCloud /\ ProfileTabs /\ ProfileNaming
  BY DEF ProfileInv
<1>1. ASSUME UNCHANGED <<played, user, Profile!tabs, Profile!cloud>>
      PROVE  ProfileCloud' /\ ProfileTabs'
  <2>1. Profile!Asked' = Profile!Asked /\ Profile!History(Profile!Asked)' = Profile!History(Profile!Asked) /\ Profile!TotalPages' = Profile!TotalPages
    BY <1>1 DEF Profile!Asked, Profile!History, Profile!tabs, Profile!cloud, Profile!TotalPages,
                Profile!HistoryCount, Profile!LocalHistory, Profile!ActiveTopic
  <2>2. ProfileCloud'
    BY <1>0, <1>1, <2>1 DEF ProfileCloud, Profile!cloud
  <2>3. ProfileTabs'
    BY <1>0, <1>1, <2>1 DEF ProfileTabs, Profile!tabs
  <2> QED BY <2>2, <2>3
<1>2. ASSUME NEW n \in Profile!Texts, Profile!EditName(n) PROVE ProfileInv'
  <2>1. ProfileCloud' /\ ProfileTabs'
    BY <1>1, <1>2 DEF Profile!EditName
  <2>2. ProfileNaming'
    BY <1>0, <1>2 DEF Profile!EditName, ProfileNaming, Profile!NameIsAccounts
  <2> QED BY <2>1, <2>2 DEF ProfileInv
<1>3. ASSUME Profile!SubmitName PROVE ProfileInv'
  <2>1. ProfileCloud' /\ ProfileTabs'
    BY <1>1, <1>3 DEF Profile!SubmitName
  <2>2. user # None /\ user' = user /\ form' = form /\ busy = None
    BY <1>3 DEF Profile!SubmitName
  <2>3. CASE form = user.name
    <3>1. toast' = "unchanged" /\ UNCHANGED <<busy, name, saves>>
      BY <1>3, <2>3 DEF Profile!SubmitName
    <3> QED BY <1>0, <2>1, <2>2, <3>1 DEF ProfileInv, ProfileNaming, Profile!NameIsAccounts,
                                          Profile!Toasts
  <2>4. CASE form # user.name
    <3>1. /\ saves' = saves + 1 /\ toast' = None
          /\ \/ busy' = [is |-> "failed"] /\ name' \in {name, form}
             \/ busy' = [is |-> "saved", name |-> form] /\ name' = form
      BY <1>3, <2>4 DEF Profile!SubmitName
    <3>2. None # "saved"
      BY ProfileGiven DEF Profile!ProfileScreenAssumption, Profile!Toasts
    <3>3. form \in Profile!Texts /\ name \in Profile!Texts /\ saves \in Nat
      BY <1>0 DEF ProfileNaming
    <3>4. busy' \in Profile!Outcomes /\ (busy'.is = "saved" => busy'.name = name') /\ name' \in Profile!Texts
      BY <3>1, <3>3 DEF Profile!Outcomes
    <3>5. saves' \in Nat /\ Profile!NameIsAccounts'
      BY <3>1, <3>2, <3>3 DEF Profile!NameIsAccounts
    <3>6. ProfileNaming'
      BY <1>0, <2>2, <3>1, <3>3, <3>4, <3>5 DEF ProfileNaming
    <3> QED BY <2>1, <3>6 DEF ProfileInv
  <2> QED BY <2>3, <2>4
<1>4. ASSUME Profile!NameSaved PROVE ProfileInv'
  <2>1. /\ busy # None /\ busy.is = "saved" /\ user' = [name |-> busy.name] /\ form' = busy.name
        /\ busy' = None /\ toast' = "saved" /\ Profile!ReadHistory(user', Profile!Asked)
        /\ UNCHANGED <<played, Profile!tabs, name, saves>>
    BY <1>4 DEF Profile!NameSaved
  <2>2. user # None /\ busy.name = name /\ name \in Profile!Texts
    BY <1>0, <2>1 DEF ProfileNaming
  <2>3. user' \in Profile!Accounts /\ user' # None
    BY <2>1, <2>2, ProfileGiven DEF Profile!Accounts, Profile!ProfileScreenAssumption
  <2>4. Profile!Asked \in Profile!Asks /\ Profile!Asked' = Profile!Asked
    BY <1>0, <2>1 DEF Profile!Asked, Profile!Asks, Profile!ActiveTopic, ProfileTabs, Profile!tabs
  <2>5. ProfileCloud'
    BY <1>0, <2>1, <2>4, ProfileRead
  <2>6. ProfileTabs'
    BY <1>0, <2>1, <2>3 DEF ProfileTabs, Profile!tabs
  <2>7. ProfileNaming'
    BY <1>0, <2>1, <2>2, <2>3 DEF ProfileNaming, Profile!NameIsAccounts, Profile!Toasts
  <2> QED BY <2>5, <2>6, <2>7 DEF ProfileInv
<1>5. ASSUME Profile!NameFailed PROVE ProfileInv'
  <2>1. ProfileCloud' /\ ProfileTabs'
    BY <1>1, <1>5 DEF Profile!NameFailed
  <2>2. ProfileNaming'
    BY <1>0, <1>5 DEF Profile!NameFailed, ProfileNaming, Profile!NameIsAccounts, Profile!Toasts
  <2> QED BY <2>1, <2>2 DEF ProfileInv
<1> QED BY <1>2, <1>3, <1>4, <1>5

(* Initially. *)
LEMMA ProfileInit == Profile!Init => ProfileInv
<1> SUFFICES ASSUME Profile!Init PROVE ProfileInv
  OBVIOUS
<1>1. /\ played \in ProfileRecords
      /\ game = "classic" /\ category = "llm" /\ difficulty = "normal" /\ historyPage = 1
      /\ name \in (ProfileNames \ ProfileTaken) \cup {None} /\ user \in {None, [name |-> name]}
      /\ form = IF user = None THEN None ELSE name
      /\ busy = None /\ toast = None /\ saves = 0
      /\ cloudHistory = None /\ late = {}
      /\ reads = IF user = None THEN 0 ELSE 1
      /\ reading = IF user = None THEN {}
                   ELSE {[id |-> 1, asked |-> [game |-> "classic", topic |-> "llm", page |-> 1]]}
  BY DEF Profile!Init
<1>2. /\ category \in ProfileCategories /\ game \in Profile!StatsGames /\ difficulty \in Profile!TimelineDifficulties
  BY <1>1, ProfileGiven DEF Profile!ProfileScreenAssumption, Profile!StatsGames,
                            Profile!TimelineDifficulties, Profile!Difficulties
<1>3. Profile!Asked = [game |-> "classic", topic |-> "llm", page |-> 1] /\ Profile!Asked \in Profile!Asks
  BY <1>1, <1>2 DEF Profile!Asked, Profile!ActiveTopic, Profile!Asks
<1>4. ProfileCloud
  <2>1. CASE user = None
    BY <1>1, <2>1 DEF ProfileCloud
  <2>2. CASE user # None
    <3> DEFINE new == [id |-> 1, asked |-> Profile!Asked]
    <3>1. new \in Profile!Reads /\ new.id = 1 /\ new.asked = Profile!Asked
      BY <1>3 DEF Profile!Reads
    <3>2. reading = {new} /\ reads = 1 /\ late = {} /\ cloudHistory = None
      BY <1>1, <1>3, <2>2
    <3> HIDE DEF new
    <3> QED BY <2>2, <3>1, <3>2 DEF ProfileCloud
  <2> QED BY <2>1, <2>2
<1>5. ProfileTabs
  <2>1. user = None => Profile!TotalPages \in Nat \ {0}
    <3>1. user = None => Profile!HistoryCount \in Nat
      BY <1>1, <1>2, ProfileCounts DEF Profile!HistoryCount
    <3>2. Profile!TotalPages = ProfilePagesOf(Profile!HistoryCount)
      BY DEF Profile!TotalPages, ProfilePagesOf
    <3> QED BY <3>1, <3>2, ProfilePages
  <2> QED BY <1>1, <1>2, <2>1 DEF ProfileTabs
<1>6. ProfileNaming
  <2>1. name \in Profile!Texts /\ form \in Profile!Texts
    BY <1>1 DEF Profile!Texts
  <2>2. user \in Profile!Accounts \cup {None}
    BY <1>1, <2>1 DEF Profile!Accounts
  <2>3. None # "saved"
    BY ProfileGiven DEF Profile!ProfileScreenAssumption, Profile!Toasts
  <2> QED BY <1>1, <2>1, <2>2, <2>3 DEF ProfileNaming, Profile!NameIsAccounts
<1> QED BY <1>4, <1>5, <1>6 DEF ProfileInv

(* Every step of the page keeps the invariant. *)
LEMMA ProfileStep == ProfileInv /\ [Profile!Next]_(Profile!vars) => ProfileInv'
<1> SUFFICES ASSUME ProfileInv, [Profile!Next]_(Profile!vars) PROVE ProfileInv'
  OBVIOUS
<1>1. CASE UNCHANGED Profile!vars
  <2>1. ProfileCloud /\ ProfileTabs /\ ProfileNaming
    BY DEF ProfileInv
  <2>2. UNCHANGED <<played, user, Profile!tabs, Profile!cloud, Profile!naming>>
    BY <1>1 DEF Profile!vars
  <2>3. Profile!Asked' = Profile!Asked /\ Profile!History(Profile!Asked)' = Profile!History(Profile!Asked) /\ Profile!TotalPages' = Profile!TotalPages
    BY <2>2 DEF Profile!Asked, Profile!History, Profile!tabs, Profile!cloud, Profile!TotalPages,
                Profile!HistoryCount, Profile!LocalHistory, Profile!ActiveTopic
  <2>4. ProfileCloud'
    BY <2>1, <2>2, <2>3 DEF ProfileCloud, Profile!cloud
  <2>5. ProfileTabs'
    BY <2>1, <2>2, <2>3 DEF ProfileTabs, Profile!tabs
  <2>6. ProfileNaming'
    BY <2>1, <2>2 DEF ProfileNaming, Profile!NameIsAccounts, Profile!naming
  <2> QED BY <2>4, <2>5, <2>6 DEF ProfileInv
<1>2. CASE Profile!Next
  <2>1. CASE \/ \E r \in reading : Profile!HistoryAnswer(r)
             \/ \E r \in late : Profile!LateAnswer(r)
    BY <2>1, ProfileCloudSteps
  <2>2. CASE \/ \E g \in Profile!StatsGames : Profile!ChooseGame(g)
             \/ \E c \in ProfileCategories : Profile!ChooseCategory(c)
             \/ \E d \in Profile!TimelineDifficulties : Profile!ChooseDifficulty(d)
             \/ Profile!PreviousPage \/ Profile!NextPage
    BY <2>2, ProfileTabSteps
  <2>3. CASE \/ \E n \in Profile!Texts : Profile!EditName(n)
             \/ Profile!SubmitName \/ Profile!NameSaved \/ Profile!NameFailed
    BY <2>3, ProfileNameSteps
  <2> QED BY <1>2, <2>1, <2>2, <2>3 DEF Profile!Next
<1> QED BY <1>1, <1>2

(* The page's Cardinality is the library's. *)
LEMMA ProfileCardinality ==
  ASSUME NEW S PROVE Profile!Cardinality(S) = Cardinality(S)
  BY DEF Profile!Cardinality, Cardinality

(* What the invariant says of what is shown. *)
LEMMA ProfileShows == ProfileInv => Profile!TypeOK /\ Profile!HistoryIsOfTab /\ Profile!NameIsAccounts
<1> SUFFICES ASSUME ProfileInv PROVE Profile!TypeOK /\ Profile!HistoryIsOfTab /\ Profile!NameIsAccounts
  OBVIOUS
<1>0. ProfileCloud /\ ProfileTabs /\ ProfileNaming
  BY DEF ProfileInv
<1>1. Cardinality(reading) <= 1
  <2>1. CASE reading = {}
    BY <2>1, FS_EmptySet
  <2>2. CASE reading # {}
    <3>1. PICK r \in reading : TRUE
      BY <2>2
    <3>2. reading = {r}
      BY <1>0 DEF ProfileCloud
    <3>3. Cardinality({r}) = 1
      BY FS_Singleton
    <3> QED BY <3>2, <3>3
  <2> QED BY <2>1, <2>2
<1>2. late \cap reading = {}
  <2>1. \A r \in reading, l \in late : l.id < r.id /\ l.id \in Nat
    BY <1>0 DEF ProfileCloud, Profile!Reads
  <2> QED BY <2>1
<1>3. Profile!TypeOK
  BY <1>0, <1>1, <1>2, ProfileCardinality DEF Profile!TypeOK, ProfileCloud, ProfileTabs,
                                              ProfileNaming
<1>4. Profile!HistoryIsOfTab
  BY <1>0, ProfileTotal DEF Profile!HistoryIsOfTab, ProfileCloud
<1> QED BY <1>0, <1>3, <1>4 DEF ProfileNaming

(* The account's history shown is of the tab and the page that are         *)
(* selected, in any order of answers; after a save the name shown is the   *)
(* account's.                                                              *)
THEOREM ProfileAlways == Profile!Spec => [](Profile!TypeOK /\ Profile!HistoryIsOfTab /\ Profile!NameIsAccounts)
BY ProfileInit, ProfileStep, ProfileShows, PTL DEF Profile!Spec

-----------------------------------------------------------------------------
(* The administrator's page. *)
Admin == INSTANCE AdminScreen WITH
  Users <- AdminUsers, Queries <- AdminQueries, Matching <- AdminMatching,
  ListSize <- AdminListSize, Games <- AdminGames, GamesSize <- AdminGamesSize,
  Roles <- AdminRoles, MaxLimit <- AdminBounds.limit, MaxClicks <- AdminBounds.clicks

(* What the page is given is as its module assumes. *)
ASSUME AdminGiven == Admin!AdminScreenAssumption

(* The larger and the smaller of two numbers. *)
LEMMA AdminBetween ==
  ASSUME NEW a \in Int, NEW b \in Int
  PROVE  /\ Admin!Max({a, b}) = IF a >= b THEN a ELSE b
         /\ Admin!Min({a, b}) = IF a <= b THEN a ELSE b
<1>1. \E x \in {a, b} : \A y \in {a, b} : x >= y
  OBVIOUS
<1>2. \E x \in {a, b} : \A y \in {a, b} : x =< y
  OBVIOUS
<1>3. Admin!Max({a, b}) \in {a, b} /\ \A y \in {a, b} : Admin!Max({a, b}) >= y
  BY <1>1 DEF Admin!Max
<1>4. Admin!Min({a, b}) \in {a, b} /\ \A y \in {a, b} : Admin!Min({a, b}) =< y
  BY <1>2 DEF Admin!Min
<1>5. Admin!Max({a, b}) = IF a >= b THEN a ELSE b
  BY <1>3
<1>6. Admin!Min({a, b}) = IF a <= b THEN a ELSE b
  BY <1>4
<1> QED BY <1>5, <1>6

(* The least of some numbers is one of them. *)
LEMMA AdminLeast ==
  ASSUME NEW S, S \subseteq Nat, S # {}
  PROVE  Admin!Min(S) \in S
<1> DEFINE R == OpToRel(<, Nat)
<1>1. IsWellFoundedOn(R, Nat)
  BY NatLessThanWellFounded
<1>2. \A m, n \in Nat : m < n => <<m, n>> \in R
  BY DEF OpToRel
<1> HIDE DEF R
<1>3. PICK n \in S : \A m \in S : ~(<<m, n>> \in R)
  BY <1>1, WFMin
<1>4. ASSUME NEW m \in S PROVE n =< m
  <2>1. m \in Nat /\ n \in Nat
    OBVIOUS
  <2>2. ~(m < n)
    BY <1>2, <1>3, <2>1
  <2> QED BY <2>1, <2>2
<1> QED BY <1>4 DEF Admin!Min

(* A page of the list begins within what is listed. *)
LEMMA AdminPages ==
  ASSUME NEW n \in Nat, NEW size \in Nat \ {0}
  PROVE  /\ Admin!PagesFor(n, size) \in Nat \ {0}
         /\ \A p \in Nat \ {0} : n # 0 /\ p <= Admin!PagesFor(n, size) => p * size - size + 1 <= n
<1> DEFINE k == (n + size - 1) \div size
<1>1. k \in Nat /\ k * size <= n + size - 1
  OBVIOUS
<1> HIDE DEF k
<1>2. Admin!PagesFor(n, size) = IF 1 >= k THEN 1 ELSE k
  BY <1>1, AdminBetween DEF Admin!PagesFor, k
<1>3. Admin!PagesFor(n, size) \in Nat \ {0}
  BY <1>1, <1>2
<1>4. ASSUME NEW p \in Nat \ {0}, n # 0, p <= Admin!PagesFor(n, size) PROVE p * size - size + 1 <= n
  <2>1. CASE p = 1
    BY <2>1, <1>4
  <2>2. CASE p # 1
    <3>1. p <= k
      BY <2>2, <1>1, <1>2, <1>4
    <3>2. p * size <= k * size
      BY <3>1, <1>1
    <3>3. p * size \in Nat /\ k * size \in Nat
      BY <1>1
    <3> QED BY <1>1, <3>2, <3>3
  <2> QED BY <2>1, <2>2
<1> QED BY <1>3, <1>4

(* A call whose effect was not cleaned up asks for what is asked.          *)
AdminList ==
  /\ asked \in Admin!Lists /\ list \in Admin!Lists \cup {None}
  /\ listCalls \subseteq [query : AdminQueries, page : Nat \ {0}, active : BOOLEAN]
  /\ listState \in {"loading", "shown", "failed"}
  /\ \A c \in listCalls : c.active => asked = [query |-> c.query, page |-> c.page]
  /\ Admin!ListIsAsked

(* The latest call is of the account last clicked.                         *)
AdminDetail ==
  /\ detailId \in Nat /\ detailCalls \subseteq [id : Nat, user : AdminUsers]
  /\ selected \in Admin!Account \cup {None} /\ loadingDetail \in BOOLEAN
  /\ chosen \in AdminUsers \cup {None} /\ overtaken \in BOOLEAN
  /\ account \in [AdminUsers -> Admin!Account] /\ \A u \in AdminUsers : account[u].user = u
  /\ \A c \in detailCalls : c.id <= detailId /\ (c.id = detailId => chosen = c.user)
  /\ Admin!ChosenIsShown

(* The panel keeps something while it is mounted, and drafts for the       *)
(* account it shows.                                                       *)
AdminPanel ==
  /\ draft \in Admin!Drafts \cup {None} /\ view \in Admin!Views \cup {None}
  /\ draft # None <=> Admin!Mounted(selected, loadingDetail)
  /\ view # None <=> Admin!Mounted(selected, loadingDetail)
  /\ draft # None => draft.on = selected.user

(* What is being saved is a change of one field, of an account, and what   *)
(* was drafted.                                                            *)
AdminChanges ==
  /\ update = None \/ \E field \in Admin!Fields : update \in Admin!Updates(field)
  /\ removals \subseteq [user : AdminUsers, id : Nat] /\ clicks \in Nat
  /\ Admin!SavedIsDrafted

(* The inductive invariant of the administrator's page. *)
AdminInv == AdminList /\ AdminDetail /\ AdminPanel /\ AdminChanges

(* Nothing is none of the things the page has. *)
LEMMA AdminApart ==
  /\ \A u \in AdminUsers : u # None
  /\ \A a \in Admin!Account : a # None
  /\ \A l \in Admin!Lists : l # None
  /\ \A d \in Admin!Drafts : d # None
  /\ \A v \in Admin!Views : v # None
  /\ \A field \in Admin!Fields : \A u \in Admin!Updates(field) : u # None
BY AdminGiven DEF Admin!AdminScreenAssumption

(* The fields of the things the page has. *)
LEMMA AdminTypes ==
  /\ \A a \in Admin!Account : /\ a.user \in AdminUsers /\ a.role \in AdminRoles /\ a.disabled \in BOOLEAN
                              /\ a.limit \in 0..AdminBounds.limit
  /\ \A l \in Admin!Lists : l.query \in AdminQueries /\ l.page \in Nat \ {0}
  /\ \A d \in Admin!Drafts : d.role \in AdminRoles /\ d.limit \in 0..AdminBounds.limit /\ d.on \in AdminUsers
  /\ \A v \in Admin!Views : v.page \in Nat \ {0}
BY DEF Admin!Account, Admin!Lists, Admin!Drafts, Admin!Views

(* A search or a page that is asked for is the one that is asked.          *)
LEMMA AdminAsk ==
  ASSUME AdminList, NEW q \in AdminQueries, NEW pageNo \in Nat \ {0}, Admin!Ask(q, pageNo)
  PROVE  AdminList'
<1> DEFINE new == [query |-> q, page |-> pageNo, active |-> TRUE]
<1>1. asked' = [query |-> q, page |-> pageNo] /\ asked' \in Admin!Lists /\ list' = list
  BY DEF Admin!Ask, Admin!Lists
<1>2. CASE asked' = asked
  <2>1. listCalls' = listCalls /\ listState' = listState /\ asked' = asked /\ list' = list
    BY <1>1, <1>2 DEF Admin!Ask
  <2> QED BY <2>1 DEF AdminList, Admin!ListIsAsked
<1>3. CASE asked' # asked
  <2>1. /\ listCalls' = {[c EXCEPT !.active = FALSE] : c \in listCalls} \cup {new}
        /\ listState' = "loading"
    BY <1>1, <1>3 DEF Admin!Ask
  <2>2. \A c \in listCalls : /\ [c EXCEPT !.active = FALSE].active = FALSE
                             /\ [c EXCEPT !.active = FALSE] \in
                                  [query : AdminQueries, page : Nat \ {0}, active : BOOLEAN]
    BY DEF AdminList
  <2>3. /\ new \in [query : AdminQueries, page : Nat \ {0}, active : BOOLEAN]
        /\ new.query = q /\ new.page = pageNo
    OBVIOUS
  <2>4. \A c \in listCalls' : /\ c \in [query : AdminQueries, page : Nat \ {0}, active : BOOLEAN]
                              /\ c.active => asked' = [query |-> c.query, page |-> c.page]
    <3> HIDE DEF new
    <3> QED BY <1>1, <2>1, <2>2, <2>3
  <2> QED BY <1>1, <2>1, <2>4 DEF AdminList, Admin!ListIsAsked
<1> QED BY <1>2, <1>3

(* What is drafted and viewed after a render.                              *)
LEMMA AdminRender ==
  ASSUME AdminDetail, AdminPanel, NEW a, NEW loading, Admin!Render(a, loading),
         a \in Admin!Account \cup {None}, loading \in BOOLEAN,
         selected' = a, loadingDetail' = loading
  PROVE  AdminPanel'
<1>1. CASE ~Admin!Mounted(a, loading)
  <2>1. draft' = None /\ view' = None /\ ~Admin!Mounted(selected, loadingDetail)'
    BY <1>1 DEF Admin!Render, Admin!Mounted
  <2> QED BY <2>1 DEF AdminPanel
<1>2. CASE Admin!Mounted(a, loading)
  <2> DEFINE fresh == ~Admin!Mounted(selected, loadingDetail) \/ Admin!Watched(a) # Admin!Watched(selected)
  <2>1. a \in Admin!Account /\ Admin!Mounted(selected, loadingDetail)'
    BY <1>2 DEF Admin!Mounted
  <2>2. /\ draft' = IF fresh THEN Admin!FreshDraft(a) ELSE draft
        /\ view' = IF Admin!Mounted(selected, loadingDetail) THEN view ELSE Admin!FreshView
    BY <1>2 DEF Admin!Render
  <2>3. Admin!FreshDraft(a) \in Admin!Drafts /\ Admin!FreshDraft(a).on = a.user
    BY <2>1, AdminTypes DEF Admin!FreshDraft, Admin!Drafts
  <2>4. Admin!FreshView \in Admin!Views
    BY DEF Admin!FreshView, Admin!Views
  <2>5. view' \in Admin!Views
    BY <2>2, <2>4 DEF AdminPanel
  <2>6. draft' \in Admin!Drafts /\ draft'.on = a.user
    <3>1. CASE fresh
      BY <2>2, <2>3, <3>1
    <3>2. CASE ~fresh
      <4>1. draft # None /\ draft \in Admin!Drafts /\ draft' = draft
        BY <2>2, <3>2 DEF AdminPanel
      <4>2. draft.on = selected.user /\ selected.user = a.user
        BY <3>2, <4>1 DEF AdminPanel, Admin!Watched
      <4> QED BY <4>1, <4>2
    <3> QED BY <3>1, <3>2
  <2>7. draft' # None /\ view' # None
    BY <2>5, <2>6, AdminApart
  <2> QED BY <2>1, <2>5, <2>6, <2>7 DEF AdminPanel
<1> QED BY <1>1, <1>2

(* Searching, turning pages, and lists that arrive or do not. *)
LEMMA AdminListSteps ==
  ASSUME AdminInv
  PROVE  /\ \A q \in AdminQueries : Admin!Search(q) => AdminInv'
         /\ \A pageNo \in {asked.page - 1, asked.page + 1} : Admin!TurnPage(pageNo) => AdminInv'
         /\ \A c \in listCalls : Admin!ListAnswered(c) \/ Admin!ListFails(c) => AdminInv'
<1>0. /\ AdminList /\ AdminDetail /\ AdminPanel /\ AdminChanges
      /\ asked \in Admin!Lists /\ clicks \in Nat /\ detailId \in Nat
  BY DEF AdminInv, AdminList, AdminChanges, AdminDetail
<1>1. ASSUME NEW q \in AdminQueries, Admin!Search(q) PROVE AdminInv'
  <2>1. /\ Admin!Ask(q, 1) /\ Admin!Render(None, loadingDetail) /\ clicks' = clicks + 1
        /\ detailId' = detailId + 1 /\ selected' = None /\ chosen' = None /\ overtaken' = FALSE
        /\ detailCalls' = detailCalls /\ loadingDetail' = loadingDetail
        /\ update' = update /\ removals' = removals /\ account' = account
    BY <1>1 DEF Admin!Search, Admin!Click, Admin!changes
  <2>2. AdminList'
    BY <1>0, <2>1, AdminAsk
  <2>3. loadingDetail \in BOOLEAN
    BY <1>0 DEF AdminDetail
  <2>4. AdminPanel'
    BY <1>0, <2>1, <2>3, AdminRender
  <2>5. detailId' \in Nat /\ \A c \in detailCalls : c.id <= detailId' /\ c.id # detailId'
    BY <1>0, <2>1 DEF AdminDetail
  <2>6. AdminDetail'
    BY <1>0, <2>1, <2>5 DEF AdminDetail, Admin!ChosenIsShown, Admin!Mounted
  <2>7. AdminChanges'
    BY <1>0, <2>1 DEF AdminChanges, Admin!SavedIsDrafted
  <2> QED BY <2>2, <2>4, <2>6, <2>7 DEF AdminInv
<1>2. ASSUME NEW pageNo \in {asked.page - 1, asked.page + 1}, Admin!TurnPage(pageNo) PROVE AdminInv'
  <2>1. /\ Admin!Ask(asked.query, pageNo) /\ clicks' = clicks + 1 /\ (pageNo = asked.page - 1 => asked.page # 1)
        /\ UNCHANGED <<detailId, detailCalls, selected, loadingDetail, draft, view, update,
                       removals, account, chosen, overtaken>>
    <3>1. \/ pageNo = asked.page - 1 /\ asked.page # 1
          \/ pageNo = asked.page + 1 /\ asked.page # Admin!TotalPages
      BY <1>2 DEF Admin!TurnPage
    <3>2. asked.page \in Nat \ {0}
      BY <1>0, AdminTypes
    <3> QED BY <1>2, <3>1, <3>2 DEF Admin!TurnPage, Admin!Click, Admin!detail, Admin!panel,
                                    Admin!changes
  <2>2. pageNo \in Nat \ {0} /\ asked.query \in AdminQueries
    BY <1>0, <2>1, AdminTypes
  <2>3. AdminList'
    BY <1>0, <2>1, <2>2, AdminAsk
  <2>4. AdminDetail' /\ AdminPanel'
    BY <1>0, <2>1 DEF AdminDetail, AdminPanel, Admin!ChosenIsShown, Admin!Mounted
  <2>5. AdminChanges'
    BY <1>0, <2>1 DEF AdminChanges, Admin!SavedIsDrafted
  <2> QED BY <2>3, <2>4, <2>5 DEF AdminInv
<1>3. ASSUME NEW c \in listCalls, Admin!ListAnswered(c) \/ Admin!ListFails(c) PROVE AdminInv'
  <2>1. /\ UNCHANGED <<asked, detailId, detailCalls, selected, loadingDetail, draft, view, update,
                       removals, account, clicks, chosen, overtaken>>
        /\ listCalls' \subseteq listCalls
    BY <1>3 DEF Admin!ListAnswered, Admin!ListFails, Admin!detail, Admin!panel, Admin!changes
  <2>2. AdminDetail' /\ AdminPanel' /\ AdminChanges'
    BY <1>0, <2>1 DEF AdminDetail, AdminPanel, Admin!ChosenIsShown, Admin!Mounted, AdminChanges,
                      Admin!SavedIsDrafted
  <2>3. \/ list' = list /\ listState' = listState
        \/ c.active /\ list' = [query |-> c.query, page |-> c.page] /\ listState' = "shown"
        \/ list' = list /\ listState' = "failed"
    BY <1>3 DEF Admin!ListAnswered, Admin!ListFails, Admin!ListAnswer
  <2>4. c.active => asked = [query |-> c.query, page |-> c.page]
    BY <1>0 DEF AdminList
  <2>5. AdminList'
    BY <1>0, <2>1, <2>3, <2>4 DEF AdminList, Admin!ListIsAsked
  <2> QED BY <2>2, <2>5 DEF AdminInv
<1> QED BY <1>1, <1>2, <1>3

(* A record that is loaded, or loaded no more. *)
LEMMA AdminDetailSteps ==
  ASSUME AdminInv
  PROVE  /\ \A u \in AdminUsers : Admin!SelectUser(u) => AdminInv'
         /\ \A c \in detailCalls : Admin!DetailAnswer(c) \/ Admin!DetailFails(c) => AdminInv'
<1>0. /\ AdminList /\ AdminDetail /\ AdminPanel /\ AdminChanges
      /\ clicks \in Nat /\ detailId \in Nat
  BY DEF AdminInv, AdminChanges, AdminDetail
<1>1. ASSUME NEW u \in AdminUsers, Admin!SelectUser(u) PROVE AdminInv'
  <2>1. /\ detailId' = detailId + 1 /\ detailCalls' = detailCalls \cup {[id |-> detailId + 1, user |-> u]}
        /\ loadingDetail' = TRUE /\ selected' = selected /\ Admin!Render(selected, TRUE)
        /\ chosen' = u /\ overtaken' = FALSE /\ clicks' = clicks + 1
        /\ UNCHANGED <<asked, listCalls, list, listState, update, removals, account>>
    BY <1>1 DEF Admin!SelectUser, Admin!Click, Admin!listed, Admin!changes
  <2>2. AdminList' /\ AdminChanges'
    BY <1>0, <2>1 DEF AdminList, AdminChanges, Admin!ListIsAsked, Admin!SavedIsDrafted
  <2>3. selected \in Admin!Account \cup {None}
    BY <1>0 DEF AdminDetail
  <2>4. AdminPanel'
    BY <1>0, <2>1, <2>3, AdminRender
  <2>5. \A c \in detailCalls' : c \in [id : Nat, user : AdminUsers] /\ c.id <= detailId'
                                /\ (c.id = detailId' => c.user = u)
    BY <1>0, <2>1 DEF AdminDetail
  <2>6. detailId' \in Nat /\ detailCalls' \subseteq [id : Nat, user : AdminUsers]
    BY <1>0, <2>1, <2>5
  <2>7. Admin!ChosenIsShown'
    BY <2>1 DEF Admin!ChosenIsShown, Admin!Mounted
  <2>8. /\ account' \in [AdminUsers -> Admin!Account] /\ \A v \in AdminUsers : account'[v].user = v
        /\ loadingDetail' \in BOOLEAN /\ overtaken' \in BOOLEAN
    BY <1>0, <2>1 DEF AdminDetail
  <2>9. AdminDetail'
    BY <2>1, <2>3, <2>5, <2>6, <2>7, <2>8 DEF AdminDetail
  <2> QED BY <2>2, <2>4, <2>9 DEF AdminInv
<1>2. ASSUME NEW c \in detailCalls, Admin!DetailAnswer(c) \/ Admin!DetailFails(c) PROVE AdminInv'
  <2>1. /\ UNCHANGED <<asked, listCalls, list, listState, detailId, update, removals, account,
                       clicks, chosen>>
        /\ detailCalls' \subseteq detailCalls
    BY <1>2 DEF Admin!DetailAnswer, Admin!DetailFails, Admin!listed, Admin!changes
  <2>2. AdminList' /\ AdminChanges'
    BY <1>0, <2>1 DEF AdminList, AdminChanges, Admin!ListIsAsked, Admin!SavedIsDrafted
  <2>3. CASE c.id # detailId
    <3>1. UNCHANGED <<selected, loadingDetail, draft, view, overtaken>>
      BY <1>2, <2>3 DEF Admin!DetailAnswer, Admin!DetailFails, Admin!panel
    <3>2. AdminDetail' /\ AdminPanel'
      BY <1>0, <2>1, <3>1 DEF AdminDetail, AdminPanel, Admin!ChosenIsShown, Admin!Mounted
    <3> QED BY <2>2, <3>2 DEF AdminInv
  <2>4. CASE c.id = detailId
    <3> DEFINE a == IF Admin!DetailAnswer(c) THEN account[c.user] ELSE None
    <3>1. /\ selected' = a /\ loadingDetail' = FALSE /\ Admin!Render(a, FALSE)
          /\ overtaken' \in {FALSE, overtaken}
      <4>1. CASE Admin!DetailAnswer(c)
        BY <2>4, <4>1 DEF Admin!DetailAnswer
      <4>2. CASE ~Admin!DetailAnswer(c)
        BY <1>2, <2>4, <4>2 DEF Admin!DetailFails
      <4> QED BY <4>1, <4>2
    <3>2. c.user \in AdminUsers /\ chosen = c.user
      BY <1>0, <2>4 DEF AdminDetail
    <3>3. a \in Admin!Account \cup {None} /\ (a # None => a.user = chosen)
      BY <1>0, <3>2 DEF AdminDetail
    <3> HIDE DEF a
    <3>4. AdminPanel'
      BY <1>0, <3>1, <3>3, AdminRender
    <3>5. AdminDetail'
      BY <1>0, <2>1, <3>1, <3>3 DEF AdminDetail, Admin!ChosenIsShown, Admin!Mounted
    <3> QED BY <2>2, <3>4, <3>5 DEF AdminInv
  <2> QED BY <2>3, <2>4
<1> QED BY <1>1, <1>2

(* What is drafted, and sent. *)
LEMMA AdminDraftSteps ==
  ASSUME AdminInv
  PROVE  /\ \A r \in AdminRoles : Admin!ChooseRole(r) => AdminInv'
         /\ \A n \in 0..AdminBounds.limit : Admin!StepLimit(n) => AdminInv'
         /\ Admin!SaveRole \/ Admin!SaveLimit \/ Admin!SetDisabled => AdminInv'
<1>0. /\ AdminList /\ AdminDetail /\ AdminPanel /\ AdminChanges /\ clicks \in Nat
  BY DEF AdminInv, AdminChanges
<1>a. draft # None => /\ draft \in Admin!Drafts /\ selected \in Admin!Account /\ draft.on = selected.user
                      /\ selected # None
  BY <1>0 DEF AdminPanel, AdminDetail, Admin!Mounted
<1>1. ASSUME NEW field \in {"role", "limit"}, NEW new \in Admin!Drafts, draft # None, new.on = draft.on,
             draft' = new, clicks' = clicks + 1,
             UNCHANGED <<Admin!listed, Admin!detail, view, Admin!changes, chosen, overtaken>>
      PROVE  AdminInv'
  <2>1. AdminList' /\ AdminDetail' /\ AdminChanges'
    BY <1>0, <1>1 DEF AdminList, AdminDetail, AdminChanges, Admin!ListIsAsked,
                      Admin!ChosenIsShown, Admin!Mounted,
                      Admin!SavedIsDrafted, Admin!listed, Admin!detail, Admin!changes
  <2>2. AdminPanel'
    BY <1>0, <1>1, AdminApart DEF AdminPanel, Admin!Mounted, Admin!detail
  <2> QED BY <2>1, <2>2 DEF AdminInv
<1>2. ASSUME NEW r \in AdminRoles, Admin!ChooseRole(r) PROVE AdminInv'
  <2> DEFINE new == [draft EXCEPT !.role = r]
  <2>1. draft # None /\ draft \in Admin!Drafts
    BY <1>2, <1>a DEF Admin!ChooseRole, Admin!Tools
  <2>2. new \in Admin!Drafts /\ new.on = draft.on
    BY <2>1 DEF Admin!Drafts
  <2>3. draft' = new /\ clicks' = clicks + 1 /\ UNCHANGED <<Admin!listed, Admin!detail, view, Admin!changes, chosen, overtaken>>
    BY <1>2 DEF Admin!ChooseRole, Admin!Click
  <2> HIDE DEF new
  <2> QED BY <1>1, <2>1, <2>2, <2>3
<1>3. ASSUME NEW n \in 0..AdminBounds.limit, Admin!StepLimit(n) PROVE AdminInv'
  <2> DEFINE new == [draft EXCEPT !.limit = n]
  <2>1. draft # None /\ draft \in Admin!Drafts
    BY <1>3, <1>a DEF Admin!StepLimit, Admin!Tools
  <2>2. new \in Admin!Drafts /\ new.on = draft.on
    BY <2>1 DEF Admin!Drafts
  <2>3. draft' = new /\ clicks' = clicks + 1 /\ UNCHANGED <<Admin!listed, Admin!detail, view, Admin!changes, chosen, overtaken>>
    BY <1>3 DEF Admin!StepLimit, Admin!Click
  <2> HIDE DEF new
  <2> QED BY <1>1, <2>1, <2>2, <2>3
<1>4. ASSUME NEW field \in Admin!Fields, NEW value \in Admin!Values(field), draft # None, clicks' = clicks + 1,
             Admin!Send([field |-> field, value |-> value])
      PROVE  AdminInv'
  <2>1. /\ update' = [user |-> selected.user, drafted |-> draft.on,
                      change |-> [field |-> field, value |-> value], answer |-> None]
        /\ UNCHANGED <<Admin!listed, Admin!detail, Admin!panel, removals, account, chosen, overtaken>>
    BY <1>4 DEF Admin!Send
  <2>2. AdminList' /\ AdminDetail' /\ AdminPanel'
    BY <1>0, <2>1 DEF AdminList, AdminDetail, AdminPanel, Admin!ListIsAsked, Admin!ChosenIsShown,
                      Admin!Mounted,
                      Admin!listed, Admin!detail, Admin!panel
  <2>3. selected.user \in AdminUsers /\ draft.on = selected.user
    BY <1>4, <1>a, AdminTypes
  <2>4. update' \in Admin!Updates(field) /\ update'.drafted = update'.user
    BY <2>1, <2>3 DEF Admin!Updates
  <2>5. AdminChanges'
    BY <1>0, <1>4, <2>1, <2>4 DEF AdminChanges, Admin!SavedIsDrafted
  <2> QED BY <2>2, <2>5 DEF AdminInv
<1>5. draft # None => /\ draft.role \in Admin!Values("role") /\ draft.limit \in Admin!Values("limit")
                      /\ (~selected.disabled) \in Admin!Values("disabled")
  BY <1>a, AdminTypes DEF Admin!Values
<1>6. {"role", "limit", "disabled"} = Admin!Fields
  BY DEF Admin!Fields
<1>7. Admin!SaveRole => AdminInv'
  BY <1>4, <1>5, <1>6 DEF Admin!SaveRole, Admin!Click, Admin!Tools
<1>8. Admin!SaveLimit => AdminInv'
  BY <1>4, <1>5, <1>6 DEF Admin!SaveLimit, Admin!Click, Admin!Tools
<1>9. Admin!SetDisabled => AdminInv'
  BY <1>4, <1>5, <1>6 DEF Admin!SetDisabled, Admin!Click, Admin!Tools
<1> QED BY <1>2, <1>3, <1>7, <1>8, <1>9

(* The answer of an update or a removal is shown. *)
LEMMA AdminShown ==
  ASSUME AdminInv, NEW a \in Admin!Account, Admin!Shown(a),
         UNCHANGED <<account, chosen>>
  PROVE  AdminDetail' /\ AdminPanel'
<1>0. AdminDetail /\ AdminPanel
  BY DEF AdminInv
<1>1. /\ selected' = a /\ loadingDetail' = loadingDetail /\ Admin!Render(a, loadingDetail)
      /\ overtaken' = (overtaken \/ a.user # chosen)
      /\ detailId' = detailId /\ detailCalls' = detailCalls
  BY DEF Admin!Shown
<1>2. loadingDetail \in BOOLEAN /\ overtaken \in BOOLEAN
  BY <1>0 DEF AdminDetail
<1>3. AdminPanel'
  BY <1>0, <1>1, <1>2, AdminRender
<1>4. overtaken' \in BOOLEAN
  BY <1>1, <1>2
<1>5. Admin!ChosenIsShown'
  BY <1>1 DEF Admin!ChosenIsShown
<1>6. AdminDetail'
  BY <1>0, <1>1, <1>4, <1>5 DEF AdminDetail
<1> QED BY <1>3, <1>6

(* What the server makes of an update. *)
LEMMA AdminServer ==
  ASSUME AdminInv, Admin!ServerUpdates
  PROVE  AdminInv'
<1>0. AdminList /\ AdminDetail /\ AdminPanel /\ AdminChanges
  BY DEF AdminInv
<1>1. PICK field \in Admin!Fields : update \in Admin!Updates(field)
  BY <1>0 DEF AdminChanges, Admin!ServerUpdates
<1> DEFINE u == update.user
           value == update.change.value
           new == [account[u] EXCEPT ![field] = value]
<1>2. u \in AdminUsers /\ update.change.field = field /\ value \in Admin!Values(field)
  BY <1>1 DEF Admin!Updates
<1>3. /\ account' = [account EXCEPT ![u] = new]
      /\ update' = [update EXCEPT !.answer = account'[u]]
      /\ UNCHANGED <<Admin!listed, Admin!detail, Admin!panel, removals, clicks, chosen, overtaken>>
  BY <1>2 DEF Admin!ServerUpdates
<1>4. account[u] \in Admin!Account /\ account[u].user = u
  BY <1>0, <1>2 DEF AdminDetail
<1>5. new \in Admin!Account /\ new.user = u
  <2>1. CASE field = "role"
    BY <1>2, <1>4, <2>1 DEF Admin!Account, Admin!Values
  <2>2. CASE field = "limit"
    BY <1>2, <1>4, <2>2 DEF Admin!Account, Admin!Values
  <2>3. CASE field = "disabled"
    BY <1>2, <1>4, <2>3 DEF Admin!Account, Admin!Values
  <2> QED BY <2>1, <2>2, <2>3 DEF Admin!Fields
<1> HIDE DEF new, value
<1>6. account' \in [AdminUsers -> Admin!Account] /\ \A v \in AdminUsers : account'[v].user = v
  BY <1>0, <1>2, <1>3, <1>5 DEF AdminDetail
<1>7. update' \in Admin!Updates(field) /\ update'.drafted = update.drafted /\ update'.user = u
  <2>1. account'[u] \in Admin!Account
    BY <1>2, <1>6
  <2> QED BY <1>1, <1>3, <2>1 DEF Admin!Updates
<1>8. update # None /\ update.drafted = u
  BY <1>0 DEF AdminChanges, Admin!SavedIsDrafted, Admin!ServerUpdates
<1>9. AdminChanges'
  BY <1>0, <1>3, <1>7, <1>8 DEF AdminChanges, Admin!SavedIsDrafted
<1>10. AdminDetail'
  BY <1>0, <1>3, <1>6 DEF AdminDetail, Admin!ChosenIsShown, Admin!Mounted, Admin!detail
<1>11. AdminList' /\ AdminPanel'
  BY <1>0, <1>3 DEF AdminList, Admin!ListIsAsked, AdminPanel, Admin!Mounted, Admin!listed,
                    Admin!detail, Admin!panel
<1> QED BY <1>9, <1>10, <1>11 DEF AdminInv

(* Changes and removals that are answered or fail. *)
LEMMA AdminAnswers ==
  ASSUME AdminInv
  PROVE  /\ Admin!UpdateAnswer \/ Admin!UpdateFails => AdminInv'
         /\ \A r \in removals : Admin!RemovalAnswer(r) \/ Admin!RemovalFails(r) => AdminInv'
<1>0. AdminList /\ AdminDetail /\ AdminPanel /\ AdminChanges
  BY DEF AdminInv
<1>1. CASE Admin!UpdateAnswer
  <2>1. /\ update # None /\ update.answer # None /\ update' = None /\ Admin!Shown(update.answer)
        /\ UNCHANGED <<Admin!listed, removals, account, clicks, chosen>>
    BY <1>1 DEF Admin!UpdateAnswer
  <2>2. update.answer \in Admin!Account
    BY <1>0, <2>1 DEF AdminChanges, Admin!Updates
  <2>3. AdminDetail' /\ AdminPanel'
    BY <2>1, <2>2, AdminShown
  <2>4. AdminList' /\ AdminChanges'
    BY <1>0, <2>1 DEF AdminList, Admin!ListIsAsked, AdminChanges, Admin!SavedIsDrafted, Admin!listed
  <2> QED BY <2>3, <2>4 DEF AdminInv
<1>2. CASE Admin!UpdateFails
  <2>1. /\ AdminList' /\ AdminDetail' /\ AdminPanel'
    BY <1>0, <1>2 DEF Admin!UpdateFails, AdminList, Admin!ListIsAsked, AdminDetail,
                      Admin!ChosenIsShown, Admin!Mounted,
                      AdminPanel, Admin!listed, Admin!detail, Admin!panel
  <2>2. AdminChanges'
    BY <1>0, <1>2 DEF Admin!UpdateFails, AdminChanges, Admin!SavedIsDrafted
  <2> QED BY <2>1, <2>2 DEF AdminInv
<1>3. ASSUME NEW r \in removals, Admin!RemovalAnswer(r) PROVE AdminInv'
  <2>1. /\ Admin!Shown(account[r.user]) /\ removals' \subseteq removals
        /\ UNCHANGED <<Admin!listed, update, account, clicks, chosen>>
    BY <1>3 DEF Admin!RemovalAnswer
  <2>2. account[r.user] \in Admin!Account
    BY <1>0 DEF AdminChanges, AdminDetail
  <2>3. AdminDetail' /\ AdminPanel'
    BY <2>1, <2>2, AdminShown
  <2>4. AdminList' /\ AdminChanges'
    BY <1>0, <2>1 DEF AdminList, Admin!ListIsAsked, AdminChanges, Admin!SavedIsDrafted, Admin!listed
  <2> QED BY <2>3, <2>4 DEF AdminInv
<1>4. ASSUME NEW r \in removals, Admin!RemovalFails(r) PROVE AdminInv'
  <2>1. /\ AdminList' /\ AdminDetail' /\ AdminPanel'
    BY <1>0, <1>4 DEF Admin!RemovalFails, AdminList, Admin!ListIsAsked, AdminDetail,
                      Admin!ChosenIsShown, Admin!Mounted,
                      AdminPanel, Admin!listed, Admin!detail, Admin!panel
  <2>2. AdminChanges'
    BY <1>0, <1>4 DEF Admin!RemovalFails, AdminChanges, Admin!SavedIsDrafted
  <2> QED BY <2>1, <2>2 DEF AdminInv
<1> QED BY <1>1, <1>2, <1>3, <1>4

(* The numbers of a finite set can be counted off.                         *)
LEMMA AdminNth ==
  ASSUME NEW S, S \subseteq Nat, IsFiniteSet(S), NEW n \in 1..Cardinality(S)
  PROVE  \E d \in S : Cardinality({x \in S : x <= d}) = n
<1> DEFINE N == Cardinality(S)
           upTo(d) == {x \in S : x <= d}
           place == [d \in S |-> Cardinality(upTo(d))]
<1>1. N \in Nat
  BY FS_CardinalityType
<1>2. ASSUME NEW d \in S
      PROVE  IsFiniteSet(upTo(d)) /\ place[d] = Cardinality(upTo(d)) /\ place[d] \in 1..N
  <2>1. upTo(d) \subseteq S /\ {d} \subseteq upTo(d)
    OBVIOUS
  <2>2. IsFiniteSet(upTo(d)) /\ Cardinality(upTo(d)) <= N
    BY <2>1, FS_Subset
  <2>3. Cardinality(upTo(d)) \in Nat
    BY <2>2, FS_CardinalityType
  <2>4. Cardinality({d}) = 1 /\ Cardinality({d}) <= Cardinality(upTo(d))
    BY <2>1, <2>2, FS_Subset, FS_Singleton
  <2>5. place[d] = Cardinality(upTo(d))
    OBVIOUS
  <2> HIDE DEF place, upTo, N
  <2> QED BY <1>1, <2>2, <2>3, <2>4, <2>5
<1>3. ASSUME NEW d \in S, NEW e \in S, d < e
      PROVE  place[d] # place[e]
  <2>1. \A x \in S : x <= d => x <= e /\ x # e
    BY <1>3
  <2>2. e <= e /\ ~(e <= d)
    BY <1>3
  <2>3. upTo(d) \subseteq upTo(e) /\ e \in upTo(e) /\ e \notin upTo(d)
    BY <2>1, <2>2
  <2>4. Cardinality(upTo(d)) # Cardinality(upTo(e))
    <3> HIDE DEF upTo
    <3> QED BY <1>2, <2>3, FS_Subset
  <2> QED BY <1>2, <2>4
<1>4. place \in Injection(S, 1..N)
  <2>1. place \in [S -> 1..N]
    BY <1>2
  <2>2. \A d, e \in S : place[d] = place[e] => d = e
    <3> TAKE d \in S, e \in S
    <3>1. d < e \/ e < d \/ d = e
      OBVIOUS
    <3> HIDE DEF place
    <3> QED BY <1>3, <3>1
  <2> HIDE DEF place
  <2> QED BY <2>1, <2>2 DEF Injection, IsInjective
<1>5. IsFiniteSet(1..N) /\ Cardinality(1..N) = N
  BY <1>1, FS_Interval
<1>6. place \in Surjection(S, 1..N)
  <2> HIDE DEF place
  <2> QED BY <1>4, <1>5, FS_Injection
<1>7. PICK d \in S : place[d] = n
  <2> HIDE DEF place
  <2> QED BY <1>6 DEF Surjection
<1> QED BY <1>7

(* The active mode has a game as long as there is one, and the games of    *)
(* the mode are the account's.                                             *)
(* The page's Cardinality is the library's. *)
LEMMA AdminCardinality ==
  ASSUME NEW S PROVE Admin!Cardinality(S) = Cardinality(S)
  BY DEF Admin!Cardinality, Cardinality

(* The games of a mode are the user's, of that mode, and some where the    *)
(* user has games.                                                         *)
LEMMA AdminOfMode ==
  ASSUME NEW u \in AdminUsers
  PROVE  /\ Admin!GamesOfMode(u) \in Seq(Admin!Range(AdminGames[u])) /\ (AdminGames[u] # <<>> => Len(Admin!GamesOfMode(u)) # 0)
         /\ \A n \in 1..Len(Admin!GamesOfMode(u)) : Admin!GamesOfMode(u)[n].mode = Admin!ActiveMode(u)
<1>1. /\ Len(AdminGames[u]) \in Nat /\ DOMAIN AdminGames[u] = 1..Len(AdminGames[u])
      /\ AdminGames[u] # <<>> => 1 \in DOMAIN AdminGames[u]
      /\ \A i \in DOMAIN AdminGames[u] : AdminGames[u][i] \in Admin!Range(AdminGames[u])
  <2>1. AdminGames[u] \in Seq(Admin!Range(AdminGames[u]))
    BY AdminGiven DEF Admin!AdminScreenAssumption
  <2> QED BY <2>1 DEF Admin!Range
<1> DEFINE places == {k \in DOMAIN AdminGames[u] : AdminGames[u][k].mode = Admin!ActiveMode(u)}
           N == Admin!Cardinality(places)
           nth(n) == CHOOSE k \in places : Admin!Cardinality({j \in places : j <= k}) = n
<1>2. AdminGames[u] # <<>> => places # {}
  <2> SUFFICES ASSUME AdminGames[u] # <<>> PROVE places # {}
    OBVIOUS
  <2>1. Admin!ActiveMode(u) \in Admin!Modes(u)
    BY <1>1 DEF Admin!ActiveMode, Admin!Modes
  <2>2. PICK g \in Admin!Range(AdminGames[u]) : g.mode = Admin!ActiveMode(u)
    BY <2>1 DEF Admin!Modes
  <2>3. PICK i \in DOMAIN AdminGames[u] : AdminGames[u][i] = g
    BY DEF Admin!Range
  <2> QED BY <2>2, <2>3
<1>3. IsFiniteSet(places) /\ N \in Nat /\ (places # {} => N # 0)
  <2>1. Len(AdminGames[u]) \in Int /\ 1 \in Int
    BY <1>1
  <2>2. IsFiniteSet(1..Len(AdminGames[u])) /\ places \subseteq 1..Len(AdminGames[u])
    BY <1>1, <2>1, FS_Interval
  <2> HIDE DEF places
  <2>3. IsFiniteSet(places)
    BY <2>2, FS_Subset
  <2> QED BY <2>3, FS_EmptySet, FS_CardinalityType, AdminCardinality
<1>4. places \subseteq Nat
  BY <1>1
<1>5. Admin!GamesOfMode(u) = [n \in 1..N |-> AdminGames[u][nth(n)]]
  BY DEF Admin!GamesOfMode
<1>6. \A k \in places : AdminGames[u][k] \in Admin!Range(AdminGames[u]) /\ AdminGames[u][k].mode = Admin!ActiveMode(u)
  BY <1>1
<1>7. ASSUME NEW n \in 1..N PROVE nth(n) \in places
  <2>1. \E k \in places : Admin!Cardinality({j \in places : j <= k}) = n
    <3> HIDE DEF places
    <3>1. Cardinality(places) = N
      BY AdminCardinality
    <3>2. PICK k \in places : Cardinality({j \in places : j <= k}) = n
      BY <1>3, <1>4, <3>1, AdminNth
    <3> QED BY <3>2, AdminCardinality
  <2> HIDE DEF places
  <2> QED BY <2>1
<1> HIDE DEF nth, N, places
<1>8. Len(Admin!GamesOfMode(u)) = N /\ Admin!GamesOfMode(u) \in Seq(Admin!Range(AdminGames[u]))
  <2>1. Admin!GamesOfMode(u) \in Seq(Admin!Range(AdminGames[u])) /\ DOMAIN Admin!GamesOfMode(u) = 1..N
    BY <1>3, <1>5, <1>6, <1>7, IsASeq
  <2> QED BY <1>3, <2>1
<1>9. \A n \in 1..N : Admin!GamesOfMode(u)[n].mode = Admin!ActiveMode(u)
  BY <1>5, <1>6, <1>7
<1> QED BY <1>2, <1>3, <1>8, <1>9

(* The games shown are some of them. *)
LEMMA AdminVisible ==
  ASSUME NEW u \in AdminUsers, view.page \in Nat \ {0}
  PROVE  /\ DOMAIN Admin!VisibleGames(u) \subseteq Nat /\ (AdminGames[u] # <<>> => 1 \in DOMAIN Admin!VisibleGames(u))
         /\ \A i \in DOMAIN Admin!VisibleGames(u) : /\ Admin!VisibleGames(u)[i] \in Admin!Range(AdminGames[u])
                                                    /\ Admin!VisibleGames(u)[i].mode = Admin!ActiveMode(u)
<1> DEFINE plays == Admin!GamesOfMode(u)
           n == Len(plays)
           last == Admin!VisiblePage(u) * AdminGamesSize
           end == Admin!Min({last, n})
           start == last - AdminGamesSize + 1
           len == end - start + 1
<1>1. /\ plays \in Seq(Admin!Range(AdminGames[u])) /\ n \in Nat /\ (AdminGames[u] # <<>> => n # 0)
      /\ \A i \in 1..n : plays[i] \in Admin!Range(AdminGames[u]) /\ plays[i].mode = Admin!ActiveMode(u)
  BY AdminOfMode
<1>2. AdminGamesSize \in Nat \ {0}
  BY AdminGiven DEF Admin!AdminScreenAssumption
<1>3. Admin!PagesFor(n, AdminGamesSize) \in Nat \ {0}
  BY <1>1, <1>2, AdminPages
<1>4. Admin!VisiblePage(u) \in Nat \ {0} /\ Admin!VisiblePage(u) <= Admin!PagesFor(n, AdminGamesSize)
  <2> DEFINE pages == Admin!PagesFor(n, AdminGamesSize)
             pageNo == view.page
  <2>1. pageNo \in Int /\ pages \in Int /\ pageNo \in Nat \ {0} /\ pages \in Nat \ {0}
    BY <1>3
  <2>2. Admin!VisiblePage(u) = Admin!Min({pageNo, pages})
    BY DEF Admin!VisiblePage
  <2> HIDE DEF pages, pageNo
  <2>3. Admin!VisiblePage(u) = IF pageNo <= pages THEN pageNo ELSE pages
    BY <2>1, <2>2, AdminBetween
  <2>4. Admin!VisiblePage(u) \in Nat \ {0} /\ Admin!VisiblePage(u) <= pages
    BY <2>1, <2>3
  <2> QED BY <2>4 DEF pages
<1> HIDE DEF plays, n
<1>5. n # 0 => start <= n
  BY <1>1, <1>2, <1>4, AdminPages
<1>6. last \in Nat /\ start \in Nat \ {0} /\ start <= last
  <2>1. last >= AdminGamesSize
    BY <1>2, <1>4
  <2>2. last \in Nat
    BY <1>2, <1>4
  <2> HIDE DEF last
  <2> QED BY <2>1, <2>2, <1>2
<1>7. Admin!VisibleGames(u) = SubSeq(plays, start, end)
  BY DEF Admin!VisibleGames, plays, n, last
<1> HIDE DEF last
<1>8. end = IF last <= n THEN last ELSE n
  <2>1. last \in Int /\ n \in Int
    BY <1>1, <1>6
  <2> QED BY <2>1, AdminBetween
<1> HIDE DEF end, start
<1>9. /\ start \in Int /\ end \in Int /\ end <= n /\ len \in Int
      /\ n # 0 => start <= end
      /\ \A i \in 1..len : start + i - 1 \in 1..n
  BY <1>1, <1>5, <1>6, <1>8
<1>10. DOMAIN Admin!VisibleGames(u) = 1..len /\ \A i \in 1..len : Admin!VisibleGames(u)[i] = plays[start + i - 1]
  <2>1. CASE start <= end
    BY <1>1, <1>6, <1>7, <1>9, <2>1, SubSeqProperties DEF n
  <2>2. CASE ~(start <= end)
    <3>1. Admin!VisibleGames(u) = << >>
      BY <1>1, <1>6, <1>7, <1>9, <2>2, SubSeqProperties
    <3> QED BY <1>9, <2>2, <3>1
  <2> QED BY <2>1, <2>2
<1>11. AdminGames[u] # <<>> => 1 \in 1..len
  BY <1>1, <1>9
<1> HIDE DEF len
<1>12. \A i \in 1..len : /\ Admin!VisibleGames(u)[i] \in Admin!Range(AdminGames[u])
                         /\ Admin!VisibleGames(u)[i].mode = Admin!ActiveMode(u)
  BY <1>1, <1>9, <1>10
<1>13. 1..len \subseteq Nat
  BY <1>9
<1> QED BY <1>10, <1>11, <1>12, <1>13

(* Of an account with saved games one of the active mode is shown. *)
LEMMA AdminRecord ==
  ASSUME NEW u \in AdminUsers, AdminGames[u] # <<>>, view.page \in Nat \ {0}
  PROVE  Admin!SelectedGame(u) # None /\ Admin!SelectedGame(u).mode = Admin!ActiveMode(u)
<1> DEFINE picked == {i \in DOMAIN Admin!VisibleGames(u) : Admin!VisibleGames(u)[i].key = view.key}
<1>1. /\ DOMAIN Admin!VisibleGames(u) \subseteq Nat /\ 1 \in DOMAIN Admin!VisibleGames(u)
      /\ \A i \in DOMAIN Admin!VisibleGames(u) : /\ Admin!VisibleGames(u)[i] \in Admin!Range(AdminGames[u])
                                                 /\ Admin!VisibleGames(u)[i].mode = Admin!ActiveMode(u)
  BY AdminVisible
<1>2. Admin!VisibleGames(u) # <<>>
  BY <1>1
<1>3. picked # {} => Admin!Min(picked) \in DOMAIN Admin!VisibleGames(u)
  <2>1. picked \subseteq Nat
    BY <1>1
  <2> HIDE DEF picked
  <2>2. picked # {} => Admin!Min(picked) \in picked
    BY <2>1, AdminLeast
  <2> QED BY <2>2 DEF picked
<1>4. Admin!SelectedGame(u) = IF picked = {} THEN Admin!VisibleGames(u)[1] ELSE Admin!VisibleGames(u)[Admin!Min(picked)]
  BY <1>2 DEF Admin!SelectedGame
<1>5. \A g \in Admin!Range(AdminGames[u]) : g # None
  BY AdminGiven DEF Admin!AdminScreenAssumption
<1> HIDE DEF picked
<1> QED BY <1>1, <1>3, <1>4, <1>5

(* What is looked at, of the saved games. *)
LEMMA AdminViewed ==
  ASSUME AdminInv, NEW new \in Admin!Views, view # None, view' = new, clicks' = clicks + 1,
         UNCHANGED <<Admin!listed, Admin!detail, draft, Admin!changes, chosen, overtaken>>
  PROVE  AdminInv'
<1>0. AdminList /\ AdminDetail /\ AdminPanel /\ AdminChanges
  BY DEF AdminInv
<1>1. AdminList' /\ AdminDetail' /\ AdminChanges'
  BY <1>0 DEF AdminList, AdminDetail, AdminChanges, Admin!ListIsAsked, Admin!ChosenIsShown,
              Admin!Mounted,
              Admin!SavedIsDrafted, Admin!listed, Admin!detail, Admin!changes
<1>2. AdminPanel'
  BY <1>0, AdminApart DEF AdminPanel, Admin!Mounted, Admin!detail
<1> QED BY <1>1, <1>2 DEF AdminInv

(* Choosing among the games of the record. *)
LEMMA AdminViewSteps ==
  ASSUME AdminInv
  PROVE  /\ selected # None /\ (\E m \in Admin!Modes(selected.user) : Admin!ChooseMode(m)) => AdminInv'
         /\ (\E i \in 1..AdminGamesSize : Admin!ChooseGame(i)) => AdminInv'
         /\ selected # None /\ (\E pageNo \in 1..Len(AdminGames[selected.user]) : Admin!TurnGames(pageNo))
              => AdminInv'
         /\ Admin!RemoveGuess => AdminInv'
<1>0. AdminList /\ AdminDetail /\ AdminPanel /\ AdminChanges
  BY DEF AdminInv
<1>a. view # None => /\ view \in Admin!Views /\ selected \in Admin!Account /\ selected.user \in AdminUsers
                     /\ view.page \in Nat \ {0}
  BY <1>0, AdminTypes DEF AdminPanel, AdminDetail, Admin!Mounted
<1>1. ASSUME NEW m, m \in Admin!Modes(selected.user), Admin!ChooseMode(m) PROVE AdminInv'
  <2> DEFINE new == [page |-> 1, mode |-> m, key |-> None]
  <2>1. /\ view # None /\ view' = new /\ clicks' = clicks + 1
        /\ UNCHANGED <<Admin!listed, Admin!detail, draft, Admin!changes, chosen, overtaken>>
    BY <1>1 DEF Admin!ChooseMode, Admin!Click
  <2>2. m \in Admin!SavedModes
    BY <1>a, <1>1, <2>1 DEF Admin!SavedModes, Admin!Saved, Admin!Modes
  <2>3. new \in Admin!Views
    BY <2>2 DEF Admin!Views
  <2> HIDE DEF new
  <2> QED BY <2>1, <2>3, AdminViewed
<1>2. ASSUME NEW i \in 1..AdminGamesSize, Admin!ChooseGame(i) PROVE AdminInv'
  <2> DEFINE key == Admin!VisibleGames(selected.user)[i].key
             new == [view EXCEPT !.key = key]
  <2>1. /\ view # None /\ view' = new /\ clicks' = clicks + 1
        /\ UNCHANGED <<Admin!listed, Admin!detail, draft, Admin!changes, chosen, overtaken>>
        /\ i \in DOMAIN Admin!VisibleGames(selected.user)
    BY <1>2 DEF Admin!ChooseGame, Admin!Click
  <2>2. Admin!VisibleGames(selected.user)[i] \in Admin!Range(AdminGames[selected.user])
    BY <1>a, <2>1, AdminVisible
  <2>3. key \in Admin!SavedKeys
    BY <1>a, <2>1, <2>2 DEF Admin!SavedKeys, Admin!Saved
  <2> HIDE DEF key
  <2>4. new \in Admin!Views
    BY <1>a, <2>1, <2>3 DEF Admin!Views
  <2> HIDE DEF new
  <2> QED BY <2>1, <2>4, AdminViewed
<1>3. ASSUME NEW pageNo, Admin!TurnGames(pageNo) PROVE AdminInv'
  <2> DEFINE new == [view EXCEPT !.page = pageNo]
             pages == Admin!PagesFor(Len(Admin!GamesOfMode(selected.user)), AdminGamesSize)
  <2>1. /\ view # None /\ view' = new /\ clicks' = clicks + 1
        /\ UNCHANGED <<Admin!listed, Admin!detail, draft, Admin!changes, chosen, overtaken>>
        /\ pageNo \in 1..pages
    BY <1>3 DEF Admin!TurnGames, Admin!Click
  <2>2. pageNo \in Nat \ {0}
    BY <2>1
  <2> HIDE DEF pages
  <2>3. new \in Admin!Views
    BY <1>a, <2>1, <2>2 DEF Admin!Views
  <2> HIDE DEF new
  <2> QED BY <2>1, <2>3, AdminViewed
<1>4. ASSUME Admin!RemoveGuess PROVE AdminInv'
  <2>1. /\ view # None /\ removals' = removals \cup {[user |-> selected.user, id |-> clicks]}
        /\ clicks' = clicks + 1
        /\ UNCHANGED <<Admin!listed, Admin!detail, Admin!panel, update, account, chosen, overtaken>>
    BY <1>4 DEF Admin!RemoveGuess, Admin!Click
  <2>2. AdminList' /\ AdminDetail' /\ AdminPanel'
    BY <1>0, <2>1 DEF AdminList, AdminDetail, AdminPanel, Admin!ListIsAsked, Admin!ChosenIsShown,
                      Admin!Mounted,
                      Admin!listed, Admin!detail, Admin!panel
  <2>3. AdminChanges'
    BY <1>0, <1>a, <2>1 DEF AdminChanges, Admin!SavedIsDrafted
  <2> QED BY <2>2, <2>3 DEF AdminInv
<1> QED BY <1>1, <1>2, <1>3, <1>4

(* Initially. *)
LEMMA AdminInit == Admin!Init => AdminInv
<1> SUFFICES ASSUME Admin!Init PROVE AdminInv
  OBVIOUS
<1>1. /\ asked \in [query : {CHOOSE q \in AdminQueries : TRUE}, page : {1}]
      /\ listCalls = {[query |-> asked.query, page |-> 1, active |-> TRUE]}
      /\ list = None /\ listState = "loading"
      /\ detailId = 0 /\ detailCalls = {} /\ selected = None /\ loadingDetail = FALSE
      /\ draft = None /\ view = None /\ update = None /\ removals = {}
      /\ account = [u \in AdminUsers |-> [user |-> u, role |-> CHOOSE r \in AdminRoles : TRUE,
                                     disabled |-> FALSE, limit |-> AdminBounds.limit]]
      /\ clicks = 0 /\ chosen = None /\ overtaken = FALSE
  BY DEF Admin!Init
<1>2. (CHOOSE q \in AdminQueries : TRUE) \in AdminQueries /\ (CHOOSE r \in AdminRoles : TRUE) \in AdminRoles
      /\ AdminBounds.limit \in 0..AdminBounds.limit
  BY AdminGiven DEF Admin!AdminScreenAssumption
<1>3. asked.query \in AdminQueries /\ asked.page = 1 /\ asked = [query |-> asked.query, page |-> asked.page]
  BY <1>1, <1>2
<1>4. AdminList
  BY <1>1, <1>3 DEF AdminList, Admin!ListIsAsked, Admin!Lists
<1>5. account \in [AdminUsers -> Admin!Account] /\ \A u \in AdminUsers : account[u].user = u
  BY <1>1, <1>2 DEF Admin!Account
<1>6. AdminDetail
  BY <1>1, <1>5 DEF AdminDetail, Admin!ChosenIsShown, Admin!Mounted
<1>7. AdminPanel
  BY <1>1 DEF AdminPanel, Admin!Mounted
<1>8. AdminChanges
  BY <1>1 DEF AdminChanges, Admin!SavedIsDrafted
<1> QED BY <1>4, <1>6, <1>7, <1>8 DEF AdminInv

(* Every step of the page keeps the invariant. *)
LEMMA AdminStep == AdminInv /\ [Admin!Next]_(Admin!vars) => AdminInv'
<1> SUFFICES ASSUME AdminInv, [Admin!Next]_(Admin!vars) PROVE AdminInv'
  OBVIOUS
<1>1. CASE UNCHANGED Admin!vars
  <2>1. AdminList /\ AdminDetail /\ AdminPanel /\ AdminChanges
    BY DEF AdminInv
  <2>2. AdminList' /\ AdminDetail'
    BY <1>1, <2>1 DEF AdminList, AdminDetail, Admin!ListIsAsked, Admin!ChosenIsShown, Admin!Mounted,
                      Admin!vars, Admin!listed, Admin!detail, Admin!changes
  <2>3. AdminPanel' /\ AdminChanges'
    BY <1>1, <2>1 DEF AdminPanel, AdminChanges, Admin!SavedIsDrafted, Admin!Mounted, Admin!vars,
                      Admin!detail, Admin!panel, Admin!changes
  <2> QED BY <2>2, <2>3 DEF AdminInv
<1>2. CASE Admin!Next
  <2>1. CASE \/ \E q \in AdminQueries : Admin!Search(q)
             \/ \E pageNo \in {asked.page - 1, asked.page + 1} : Admin!TurnPage(pageNo)
             \/ \E c \in listCalls : Admin!ListAnswered(c) \/ Admin!ListFails(c)
    BY <2>1, AdminListSteps
  <2>2. CASE \/ \E u \in AdminUsers : Admin!SelectUser(u)
             \/ \E c \in detailCalls : Admin!DetailAnswer(c) \/ Admin!DetailFails(c)
    BY <2>2, AdminDetailSteps
  <2>3. CASE \/ \E r \in AdminRoles : Admin!ChooseRole(r)
             \/ \E n \in 0..AdminBounds.limit : Admin!StepLimit(n)
             \/ Admin!SaveRole \/ Admin!SaveLimit \/ Admin!SetDisabled
    BY <2>3, AdminDraftSteps
  <2>4. CASE Admin!ServerUpdates
    BY <2>4, AdminServer
  <2>5. CASE \/ Admin!UpdateAnswer \/ Admin!UpdateFails
             \/ \E r \in removals : Admin!RemovalAnswer(r) \/ Admin!RemovalFails(r)
    BY <2>5, AdminAnswers
  <2>6. CASE \/ selected # None /\ \E m \in Admin!Modes(selected.user) : Admin!ChooseMode(m)
             \/ \E i \in 1..AdminGamesSize : Admin!ChooseGame(i)
             \/ selected # None /\ \E pageNo \in 1..Len(AdminGames[selected.user]) : Admin!TurnGames(pageNo)
             \/ Admin!RemoveGuess
    BY <2>6, AdminViewSteps
  <2> QED BY <1>2, <2>1, <2>2, <2>3, <2>4, <2>5, <2>6 DEF Admin!Next
<1> QED BY <1>1, <1>2

(* What the invariant says of what is shown. *)
LEMMA AdminShows ==
  AdminInv => Admin!TypeOK /\ Admin!ListIsAsked /\ Admin!ChosenIsShown /\ Admin!SavedIsDrafted /\ Admin!RecordShowsGame
<1> SUFFICES ASSUME AdminInv
             PROVE  Admin!TypeOK /\ Admin!ListIsAsked /\ Admin!ChosenIsShown /\ Admin!SavedIsDrafted /\ Admin!RecordShowsGame
  OBVIOUS
<1>0. AdminList /\ AdminDetail /\ AdminPanel /\ AdminChanges
  BY DEF AdminInv
<1>1. Admin!TypeOK
  <2>1. \A field \in Admin!Fields : \A u \in Admin!Updates(field) : u.change.field = field
    BY DEF Admin!Updates
  <2> QED BY <1>0, <2>1 DEF AdminList, AdminDetail, AdminPanel, AdminChanges, Admin!TypeOK
<1>2. ASSUME view # None, AdminGames[selected.user] # <<>>
      PROVE  /\ Admin!SelectedGame(selected.user) # None
             /\ Admin!SelectedGame(selected.user).mode = Admin!ActiveMode(selected.user)
  <2>1. view.page \in Nat \ {0} /\ selected.user \in AdminUsers
    BY <1>0, <1>2, AdminTypes DEF AdminPanel, AdminDetail, Admin!Mounted
  <2> QED BY <1>2, <2>1, AdminRecord
<1>3. Admin!RecordShowsGame
  BY <1>2 DEF Admin!RecordShowsGame
<1> QED BY <1>0, <1>1, <1>3 DEF AdminList, AdminDetail, AdminChanges

(* The administrator sees the list asked for, the record of the account    *)
(* chosen with one of its games, and saves what was drafted on that        *)
(* account.                                                                *)
THEOREM AdminAlways ==
  Admin!Spec => [](Admin!TypeOK /\ Admin!ListIsAsked /\ Admin!ChosenIsShown /\ Admin!SavedIsDrafted /\ Admin!RecordShowsGame)
BY AdminInit, AdminStep, AdminShows, PTL DEF Admin!Spec

-----------------------------------------------------------------------------
(* Accounts, sessions and mailed links. *)
Accounts == INSTANCE AccountScreens WITH
  Users <- AccountUsers, Passwords <- AccountPasswords, Mask <- AccountMask,
  Bounds <- AccountBounds

(* What the pages are given is as their module assumes. *)
ASSUME AccountGiven == Accounts!AccountScreensAssumption

(* The server's part of the invariant, and the tab's. *)
AccountRows ==
  /\ accounts \in [AccountUsers -> Accounts!Account \cup {None}] /\ resets \in [AccountUsers -> Nat] /\ nextId \in Nat
  /\ tokens \subseteq Accounts!Tokens /\ links \subseteq Accounts!Tokens /\ \A l \in links : l.id <= nextId
  /\ sessions \subseteq Accounts!Sessions

(* What the server has of accounts. *)
AccountServer == AccountRows /\ Accounts!ResetEndsSessions /\ Accounts!OnlyNewestLinkWorks /\ Accounts!NothingOfDeleted

(* The call under way is one of an operation, with its arguments. *)
AccountCall == call # None => call.op \in DOMAIN Accounts!Args /\ call \in Accounts!Calls(call.op)

(* What the browser's tab has, and the session elsewhere. *)
AccountTab ==
  /\ jar \in Accounts!Jars /\ page \in Accounts!Paths /\ form \in Accounts!Forms
  /\ auth \in [loading : BOOLEAN, user : Accounts!Known \cup {None}]
  /\ AccountCall
  /\ remote \in Accounts!Refs \cup {None}

(* The inductive invariant of the account pages. *)
AccountInv == AccountServer /\ AccountTab /\ outside \in Nat
-----------------------------------------------------------------------------
(* The server's tables. *)

LEMMA AccountSame == ASSUME AccountServer, UNCHANGED Accounts!server PROVE AccountServer'
BY DEF AccountServer, AccountRows, Accounts!ResetEndsSessions, Accounts!OnlyNewestLinkWorks,
       Accounts!NothingOfDeleted, Accounts!server

(* The account of a row exists. *)
LEMMA AccountOfRow ==
  ASSUME AccountServer, NEW r \in sessions \cup tokens
  PROVE  r.user \in AccountUsers /\ accounts[r.user] \in Accounts!Account /\ accounts[r.user].made = r.made
         /\ accounts[r.user] # None
<1>1. r.user \in AccountUsers /\ accounts[r.user] # None /\ accounts[r.user].made = r.made
  BY DEF AccountServer, AccountRows, Accounts!NothingOfDeleted, Accounts!Sessions, Accounts!Tokens
<1> QED BY <1>1 DEF AccountServer, AccountRows

(* A new token is the only one of its kind, and no link is newer. *)
LEMMA AccountIssue ==
  ASSUME AccountServer, NEW u \in AccountUsers, NEW purpose \in Accounts!Purposes, Accounts!Issue(u, purpose),
         UNCHANGED <<sessions, resets>>,
         \/ accounts[u] # None /\ accounts' = accounts
         \/ /\ accounts[u] = None
            /\ accounts' = [accounts EXCEPT ![u] = [password |-> FirstPassword,
                                                    verified |-> FALSE, disabled |-> FALSE,
                                                    made |-> nextId + 1]]
  PROVE  AccountServer'
<1> DEFINE token == Accounts!Token(u, purpose)
<1>1. /\ nextId' = nextId + 1
      /\ tokens' = Accounts!Others(u, purpose) \cup {token}
      /\ links' = links \cup {token} \/ links' = links
  BY DEF Accounts!Issue, Accounts!NewId
<1>2. nextId \in Nat /\ tokens \subseteq Accounts!Tokens /\ links \subseteq Accounts!Tokens /\ sessions \subseteq Accounts!Sessions
      /\ (\A l \in links : l.id <= nextId) /\ accounts \in [AccountUsers -> Accounts!Account \cup {None}]
      /\ resets \in [AccountUsers -> Nat]
  BY DEF AccountServer, AccountRows
<1>3. /\ token \in Accounts!Tokens /\ token.id = nextId + 1 /\ token.user = u /\ token.purpose = purpose
      /\ token.made = IF accounts[u] = None THEN nextId + 1 ELSE accounts[u].made
  BY <1>2 DEF Accounts!Token, Accounts!Tokens, Accounts!Account
<1> HIDE DEF token
<1>4. accounts' \in [AccountUsers -> Accounts!Account \cup {None}]
      /\ accounts'[u] # None /\ accounts'[u].made = token.made
      /\ \A v \in AccountUsers : accounts[v] # None => accounts'[v] = accounts[v]
  <2>1. CASE accounts[u] # None /\ accounts' = accounts
    BY <1>2, <1>3, <2>1
  <2>2. CASE /\ accounts[u] = None
             /\ accounts' = [accounts EXCEPT ![u] = [password |-> FirstPassword,
                                                     verified |-> FALSE, disabled |-> FALSE,
                                                     made |-> nextId + 1]]
    <3> DEFINE new == [password |-> FirstPassword, verified |-> FALSE, disabled |-> FALSE,
                       made |-> nextId + 1]
    <3>1. new \in Accounts!Account /\ new.made = nextId + 1
      BY <1>2, AccountGiven DEF Accounts!Account, Accounts!AccountScreensAssumption
    <3>2. accounts' = [accounts EXCEPT ![u] = new]
      BY <2>2
    <3> HIDE DEF new
    <3>3. new # None
      BY <3>1, AccountGiven DEF Accounts!AccountScreensAssumption
    <3>4. /\ accounts' \in [AccountUsers -> Accounts!Account \cup {None}] /\ accounts'[u] = new
          /\ \A v \in AccountUsers : v # u => accounts'[v] = accounts[v]
      BY <1>2, <3>1, <3>2
    <3> QED BY <1>3, <2>2, <3>1, <3>3, <3>4
  <2> QED BY <2>1, <2>2
<1>5. \A t \in tokens' : (t \in tokens /\ (t.user # u \/ t.purpose # purpose)) \/ t = token
  BY <1>1 DEF Accounts!Others
<1>6. \A l \in links' : l \in links \/ l = token
  BY <1>1
<1>7. AccountRows'
  <2>1. tokens' \subseteq Accounts!Tokens /\ links' \subseteq Accounts!Tokens
    BY <1>2, <1>3, <1>5, <1>6
  <2>2. \A l \in links' : l.id <= nextId'
    BY <1>1, <1>2, <1>3, <1>6 DEF Accounts!Tokens
  <2> QED BY <1>1, <1>2, <1>4, <2>1, <2>2 DEF AccountRows
<1>8. Accounts!ResetEndsSessions'
  BY DEF AccountServer, Accounts!ResetEndsSessions
<1>9. Accounts!OnlyNewestLinkWorks'
  <2> SUFFICES ASSUME NEW t \in tokens', NEW l \in links', t.user = l.user, t.purpose = l.purpose
               PROVE  l.id <= t.id
    BY DEF Accounts!OnlyNewestLinkWorks
  <2>1. CASE t = token
    BY <1>2, <1>3, <1>6, <2>1 DEF Accounts!Tokens
  <2>2. CASE t # token
    <3>1. t \in tokens /\ (t.user # u \/ t.purpose # purpose)
      BY <1>5, <2>2
    <3>2. l \in links
      BY <1>3, <1>6, <3>1
    <3> QED BY <3>1, <3>2 DEF AccountServer, Accounts!OnlyNewestLinkWorks
  <2> QED BY <2>1, <2>2
<1>10. Accounts!NothingOfDeleted'
  <2> SUFFICES ASSUME NEW r \in sessions' \cup tokens'
               PROVE  accounts'[r.user] # None /\ accounts'[r.user].made = r.made
    BY DEF Accounts!NothingOfDeleted
  <2>1. CASE r = token
    BY <1>3, <1>4, <2>1
  <2>2. CASE r # token
    <3>1. r \in sessions \cup tokens
      BY <1>5, <2>2
    <3> QED BY <1>4, <3>1, AccountOfRow
  <2> QED BY <2>1, <2>2
<1> QED BY <1>7, <1>8, <1>9, <1>10 DEF AccountServer

(* A session is opened for an account that exists. *)
LEMMA AccountRotate ==
  ASSUME AccountServer, NEW ref \in Accounts!Refs, NEW old, Accounts!Exists(ref), Accounts!Rotate(ref, old),
         UNCHANGED <<accounts, tokens, links, resets>>
  PROVE  AccountServer'
<1> DEFINE new == [id |-> nextId', user |-> ref.email, made |-> ref.made,
                   recent |-> TRUE, resets |-> resets[ref.email]]
<1>1. nextId' = nextId + 1 /\ sessions' = {s \in sessions : s.id # old} \cup {new}
  BY DEF Accounts!Rotate, Accounts!NewId
<1>2. nextId \in Nat /\ tokens \subseteq Accounts!Tokens /\ links \subseteq Accounts!Tokens /\ sessions \subseteq Accounts!Sessions
      /\ (\A l \in links : l.id <= nextId) /\ accounts \in [AccountUsers -> Accounts!Account \cup {None}]
      /\ resets \in [AccountUsers -> Nat]
  BY DEF AccountServer, AccountRows
<1>3. ref.email \in AccountUsers /\ ref.made \in Nat
  BY DEF Accounts!Refs
<1>4. new \in Accounts!Sessions /\ new.user = ref.email /\ new.made = ref.made /\ new.resets = resets[ref.email]
  BY <1>1, <1>2, <1>3 DEF Accounts!Sessions
<1> HIDE DEF new
<1>5. \A s \in sessions' : s \in sessions \/ s = new
  BY <1>1
<1>6. AccountRows'
  <2>1. \A l \in links' : l.id <= nextId'
    BY <1>1, <1>2 DEF Accounts!Tokens
  <2> QED BY <1>1, <1>2, <1>4, <1>5, <2>1 DEF AccountRows
<1>7. Accounts!ResetEndsSessions'
  BY <1>4, <1>5 DEF AccountServer, Accounts!ResetEndsSessions
<1>8. Accounts!OnlyNewestLinkWorks'
  BY DEF AccountServer, Accounts!OnlyNewestLinkWorks
<1>9. Accounts!NothingOfDeleted'
  BY <1>4, <1>5 DEF AccountServer, Accounts!NothingOfDeleted, Accounts!Exists
<1> QED BY <1>6, <1>7, <1>8, <1>9 DEF AccountServer

(* What takes rows away, and changes no more of an account than its        *)
(* password and its marks, leaves rows of the same accounts.               *)
LEMMA AccountFewer ==
  ASSUME AccountServer, tokens' \subseteq tokens, UNCHANGED <<links, nextId>>,
         sessions' \subseteq sessions,
         accounts' \in [AccountUsers -> Accounts!Account \cup {None}], resets' \in [AccountUsers -> Nat],
         \A r \in sessions' \cup tokens' : accounts'[r.user] # None /\ accounts'[r.user].made = r.made,
         \A s \in sessions' : resets'[s.user] = resets[s.user]
  PROVE  AccountServer'
<1>1. AccountRows'
  BY DEF AccountServer, AccountRows
<1>2. Accounts!ResetEndsSessions'
  BY DEF AccountServer, Accounts!ResetEndsSessions
<1>3. Accounts!OnlyNewestLinkWorks'
  BY DEF AccountServer, Accounts!OnlyNewestLinkWorks
<1>4. Accounts!NothingOfDeleted'
  BY DEF Accounts!NothingOfDeleted
<1> QED BY <1>1, <1>2, <1>3, <1>4 DEF AccountServer

(* An account that stays the one it was. *)
LEMMA AccountChanged ==
  ASSUME AccountServer, NEW u \in AccountUsers, NEW a \in Accounts!Account, accounts[u] # None,
         a.made = accounts[u].made,
         accounts' = [accounts EXCEPT ![u] = a]
  PROVE  /\ accounts' \in [AccountUsers -> Accounts!Account \cup {None}]
         /\ \A r \in sessions \cup tokens : accounts'[r.user] # None /\ accounts'[r.user].made = r.made
<1>1. a # None
  BY AccountGiven DEF Accounts!AccountScreensAssumption
<1>2. accounts \in [AccountUsers -> Accounts!Account \cup {None}]
  BY DEF AccountServer, AccountRows
<1>3. ASSUME NEW r \in sessions \cup tokens
      PROVE  accounts'[r.user] # None /\ accounts'[r.user].made = r.made
  BY <1>1, <1>2, AccountOfRow
<1> QED BY <1>2, <1>3

(* The token of a link or of a cookie, while it works. *)
LEMMA AccountRenewed ==
  ASSUME AccountServer, NEW t \in tokens, NEW password \in AccountPasswords,
         Accounts!Renewed(t.user, password), tokens' \subseteq tokens, UNCHANGED <<links, nextId>>
  PROVE  AccountServer'
<1> DEFINE u == t.user
           a == [accounts[u] EXCEPT !.password = password]
<1>1. u \in AccountUsers /\ accounts[u] # None /\ accounts[u] \in Accounts!Account
  BY AccountOfRow
<1>2. a \in Accounts!Account /\ a.made = accounts[u].made
  BY <1>1 DEF Accounts!Account
<1>3. /\ accounts' = [accounts EXCEPT ![u] = a]
      /\ sessions' = {s \in sessions : s.user # u}
      /\ resets' = [resets EXCEPT ![u] = @ + 1]
  BY DEF Accounts!Renewed
<1> HIDE DEF u, a
<1>4. /\ accounts' \in [AccountUsers -> Accounts!Account \cup {None}]
      /\ \A r \in sessions \cup tokens : accounts'[r.user] # None /\ accounts'[r.user].made = r.made
  BY <1>1, <1>2, <1>3, AccountChanged
<1>5. resets \in [AccountUsers -> Nat] /\ sessions \subseteq Accounts!Sessions
  BY DEF AccountServer, AccountRows
<1>6. resets' \in [AccountUsers -> Nat] /\ \A s \in sessions' : resets'[s.user] = resets[s.user]
  BY <1>1, <1>3, <1>5 DEF Accounts!Sessions
<1> QED BY <1>3, <1>4, <1>6, AccountFewer
-----------------------------------------------------------------------------
(* The tab. *)

LEMMA AccountLoad ==
  ASSUME NEW path \in Accounts!Paths, Accounts!Load(path)
  PROVE  /\ page' \in Accounts!Paths /\ form' \in Accounts!Forms /\ AccountCall'
         /\ auth' \in [loading : BOOLEAN, user : Accounts!Known \cup {None}]
BY DEF Accounts!Load, Accounts!Fresh, Accounts!Forms, AccountCall

(* A call as it is sent. *)
LEMMA AccountSends ==
  ASSUME AccountServer, AccountTab, NEW op \in DOMAIN Accounts!Args, NEW args \in Accounts!Args[op], Accounts!Call(op, args)
  PROVE  /\ AccountServer' /\ AccountCall'
         /\ UNCHANGED <<jar, page, auth, remote>>
<1>1. /\ call' = [op |-> op, args |-> args, jar |-> jar, answer |-> None, opened |-> None,
                  disabled |-> FALSE]
      /\ UNCHANGED Accounts!server /\ UNCHANGED <<jar, page, auth, remote>>
  BY DEF Accounts!Call
<1>2. call'.op = op /\ call' \in Accounts!Calls(op)
  BY <1>1 DEF AccountTab, Accounts!Calls, Accounts!Replies, Accounts!Ids
<1> QED BY <1>1, <1>2, AccountSame DEF AccountCall

(* A call that is handled or answered. *)
LEMMA AccountCallIs ==
  ASSUME AccountTab, call # None
  PROVE  /\ call.op \in DOMAIN Accounts!Args /\ call.args \in Accounts!Args[call.op] /\ call.jar \in Accounts!Jars
         /\ call.answer \in Accounts!Replies(call.op) /\ call.opened \in Accounts!Ids /\ call.disabled \in BOOLEAN
         /\ \A answer \in Accounts!Replies(call.op) :
              [call EXCEPT !.answer = answer].op = call.op
              /\ [call EXCEPT !.answer = answer] \in Accounts!Calls(call.op)
<1>1. call.op \in DOMAIN Accounts!Args /\ call \in Accounts!Calls(call.op)
  BY DEF AccountTab, AccountCall
<1> HIDE DEF Accounts!Args
<1>2. ASSUME NEW answer \in Accounts!Replies(call.op)
      PROVE  [call EXCEPT !.answer = answer].op = call.op
             /\ [call EXCEPT !.answer = answer] \in Accounts!Calls(call.op)
  BY <1>1 DEF Accounts!Calls
<1> QED BY <1>1, <1>2 DEF Accounts!Calls

(* An answer is of the operation it answers. *)
LEMMA AccountAnswers ==
  ASSUME AccountTab, call # None, NEW answer \in Accounts!Replies(call.op),
         call' = [call EXCEPT !.answer = answer], Accounts!ServerDone
  PROVE  AccountTab'
<1>1. call'.op = call.op /\ call' \in Accounts!Calls(call.op) /\ call.op \in DOMAIN Accounts!Args
  BY AccountCallIs
<1> QED BY <1>1 DEF AccountTab, AccountCall, Accounts!ServerDone

(* What a form says of its answer. *)
LEMMA AccountSaid ==
  ASSUME AccountTab, NEW change \in Accounts!Forms, Accounts!Said(change), UNCHANGED remote
  PROVE  AccountTab'
BY DEF AccountTab, AccountCall, Accounts!Said

(* The changes of a form. *)
LEMMA AccountForm ==
  ASSUME NEW f \in Accounts!Forms
  PROVE  /\ \A e \in BOOLEAN : [f EXCEPT !.error = e] \in Accounts!Forms
         /\ \A u \in AccountUsers, e \in BOOLEAN : [f EXCEPT !.email = u, !.error = e] \in Accounts!Forms
         /\ \A u \in AccountUsers : [f EXCEPT !.success = u] \in Accounts!Forms
         /\ \A m \in Accounts!Masks : [f EXCEPT !.masked = m] \in Accounts!Forms
         /\ \A c \in Accounts!Confirmations \cup {None} : [f EXCEPT !.confirmation = c] \in Accounts!Forms
         /\ \A x, e \in BOOLEAN : [f EXCEPT !.sent = x, !.error = e] \in Accounts!Forms
         /\ [f EXCEPT !.confirmation = None, !.sent = FALSE, !.error = FALSE] \in Accounts!Forms
<1>1. \A e \in BOOLEAN : [f EXCEPT !.error = e] \in Accounts!Forms
  BY DEF Accounts!Forms
<1>2. \A u \in AccountUsers, e \in BOOLEAN : [f EXCEPT !.email = u, !.error = e] \in Accounts!Forms
  BY DEF Accounts!Forms
<1>3. \A u \in AccountUsers : [f EXCEPT !.success = u] \in Accounts!Forms
  BY DEF Accounts!Forms
<1>4. \A m \in Accounts!Masks : [f EXCEPT !.masked = m] \in Accounts!Forms
  BY DEF Accounts!Forms
<1>5. \A c \in Accounts!Confirmations \cup {None} : [f EXCEPT !.confirmation = c] \in Accounts!Forms
  BY DEF Accounts!Forms
<1>6. \A x, e \in BOOLEAN : [f EXCEPT !.sent = x, !.error = e] \in Accounts!Forms
  BY DEF Accounts!Forms
<1>7. [f EXCEPT !.confirmation = None, !.sent = FALSE, !.error = FALSE] \in Accounts!Forms
  BY DEF Accounts!Forms
<1> QED BY <1>1, <1>2, <1>3, <1>4, <1>5, <1>6, <1>7
-----------------------------------------------------------------------------
(* The actions. *)

LEMMA AccountPress ==
  ASSUME AccountServer, AccountTab, Accounts!Press
  PROVE  AccountServer' /\ AccountTab'
<1>0. /\ form \in Accounts!Forms /\ jar \in Accounts!Jars /\ page \in Accounts!Paths /\ AccountCall
      /\ auth \in [loading : BOOLEAN, user : Accounts!Known \cup {None}]
      /\ remote \in Accounts!Refs \cup {None}
  BY DEF AccountTab
<1>s. ASSUME NEW op \in DOMAIN Accounts!Args, NEW args \in Accounts!Args[op], Accounts!Call(op, args), form' \in Accounts!Forms
      PROVE  AccountServer' /\ AccountTab'
  BY <1>0, <1>s, AccountSends DEF AccountTab
<1>f. ASSUME form' \in Accounts!Forms, UNCHANGED <<Accounts!server, jar, page, auth, call, remote>>
      PROVE  AccountServer' /\ AccountTab'
  BY <1>0, <1>f, AccountSame DEF AccountTab, AccountCall
<1>1. ASSUME NEW u \in AccountUsers, Accounts!Edit(u) PROVE AccountServer' /\ AccountTab'
  <2>1. form.error \in BOOLEAN
    BY <1>0 DEF Accounts!Forms
  <2>2. form' = [form EXCEPT !.email = u, !.error = IF page = "/login" THEN FALSE ELSE form.error]
    BY <1>0, <1>1 DEF Accounts!Edit, Accounts!Forms
  <2>3. form' \in Accounts!Forms
    BY <1>0, <2>1, <2>2, AccountForm
  <2> QED BY <1>1, <1>f, <2>3 DEF Accounts!Edit
<1>2. CASE Accounts!Register
  <2>1. form.email \in Accounts!Args["register"] /\ "register" \in DOMAIN Accounts!Args
    BY <1>0, <1>2 DEF Accounts!Register, Accounts!Forms, Accounts!Args
  <2> QED BY <1>0, <1>2, <1>s, <2>1 DEF Accounts!Register
<1>3. CASE Accounts!ResendActivation
  <2>1. auth.user.id \in Accounts!Args["resend"] /\ "resend" \in DOMAIN Accounts!Args
    BY <1>0, <1>3 DEF Accounts!ResendActivation, Accounts!Known, Accounts!Args
  <2> QED BY <1>0, <1>3, <1>s, <2>1 DEF Accounts!ResendActivation
<1>4. CASE Accounts!SignOut
  <2>1. None \in Accounts!Args["logout"] /\ "logout" \in DOMAIN Accounts!Args
    BY DEF Accounts!Args
  <2> QED BY <1>0, <1>4, <1>s, <2>1 DEF Accounts!SignOut
<1>5. CASE Accounts!ForgotPassword
  <2>1. form.email \in Accounts!Args["forgot"] /\ "forgot" \in DOMAIN Accounts!Args
    BY <1>0, <1>5 DEF Accounts!ForgotPassword, Accounts!Forms, Accounts!Args
  <2> QED BY <1>0, <1>5, <1>s, <2>1 DEF Accounts!ForgotPassword
<1>6. ASSUME NEW p \in AccountPasswords, Accounts!SignIn(p) PROVE AccountServer' /\ AccountTab'
  <2>1. [user |-> form.email, password |-> p] \in Accounts!Args["login"] /\ "login" \in DOMAIN Accounts!Args
    BY <1>0, <1>6 DEF Accounts!SignIn, Accounts!Forms, Accounts!Args
  <2>2. form' \in Accounts!Forms
    BY <1>0, <1>6, AccountForm DEF Accounts!SignIn
  <2> QED BY <1>6, <1>s, <2>1, <2>2 DEF Accounts!SignIn
<1>7. ASSUME NEW p \in AccountPasswords, Accounts!ResetPassword(p) PROVE AccountServer' /\ AccountTab'
  <2>1. p \in Accounts!Args["reset"] /\ "reset" \in DOMAIN Accounts!Args
    BY DEF Accounts!Args
  <2> QED BY <1>0, <1>7, <1>s, <2>1 DEF Accounts!ResetPassword
<1>8. ASSUME NEW c \in Accounts!Confirmations, Accounts!OpenDanger(c) PROVE AccountServer' /\ AccountTab'
  <2>1. form' \in Accounts!Forms
    BY <1>0, <1>8, AccountForm DEF Accounts!OpenDanger
  <2> QED BY <1>8, <1>f, <2>1 DEF Accounts!OpenDanger
<1>9. CASE Accounts!ContinueToSignIn
  <2>1. form' \in Accounts!Forms
    BY <1>0, <1>9 DEF Accounts!ContinueToSignIn, Accounts!Fresh, Accounts!Forms
  <2>2. page' \in Accounts!Paths
    BY <1>9 DEF Accounts!ContinueToSignIn, Accounts!Paths
  <2>3. auth' \in [loading : BOOLEAN, user : Accounts!Known \cup {None}]
    BY <1>9 DEF Accounts!ContinueToSignIn
  <2> QED BY <1>0, <1>9, <2>1, <2>2, <2>3, AccountSame DEF Accounts!ContinueToSignIn, AccountTab,
                                                           AccountCall
<1>10. CASE Accounts!CancelDeletion
  <2>1. form' \in Accounts!Forms /\ page' \in Accounts!Paths
    BY <1>10 DEF Accounts!CancelDeletion, Accounts!Fresh, Accounts!Forms, Accounts!Paths
  <2> QED BY <1>0, <1>10, <2>1, AccountSame DEF Accounts!CancelDeletion, AccountTab, AccountCall
<1>11. CASE Accounts!CloseDanger
  <2>1. form' \in Accounts!Forms
    BY <1>0, <1>11, AccountForm DEF Accounts!CloseDanger
  <2> QED BY <1>11, <1>f, <2>1 DEF Accounts!CloseDanger
<1>12. CASE Accounts!Escape
  <2>1. form' \in Accounts!Forms
    BY <1>0, <1>12, AccountForm DEF Accounts!Escape
  <2> QED BY <1>12, <1>f, <2>1 DEF Accounts!Escape
<1>13. CASE Accounts!RequestDeletion
  <2>1. None \in Accounts!Args["deletion"] /\ "deletion" \in DOMAIN Accounts!Args
    BY DEF Accounts!Args
  <2>2. form' \in Accounts!Forms
    BY <1>0, <1>13, AccountForm DEF Accounts!RequestDeletion
  <2> QED BY <1>13, <1>s, <2>1, <2>2 DEF Accounts!RequestDeletion
<1>14. CASE Accounts!AskStatus
  <2>1. None \in Accounts!Args["status"] /\ "status" \in DOMAIN Accounts!Args
    BY DEF Accounts!Args
  <2> QED BY <1>0, <1>14, <1>s, <2>1 DEF Accounts!AskStatus
<1>15. CASE Accounts!DeleteAccount
  <2>1. form.masked \in Accounts!Args["delete"] /\ "delete" \in DOMAIN Accounts!Args
    BY <1>0, <1>15 DEF Accounts!DeleteAccount, Accounts!Forms, Accounts!Args
  <2> QED BY <1>0, <1>15, <1>s, <2>1 DEF Accounts!DeleteAccount
<1> QED BY <1>1, <1>2, <1>3, <1>4, <1>5, <1>6, <1>7, <1>8, <1>9, <1>10, <1>11, <1>12, <1>13,
           <1>14, <1>15 DEF Accounts!Press

(* What the answer of the handler of a call may be. *)
LEMMA AccountHandled ==
  ASSUME AccountTab, NEW op, Accounts!Handled(op)
  PROVE  /\ call # None /\ call.op = op /\ op \in DOMAIN Accounts!Args /\ call.args \in Accounts!Args[op]
         /\ call.jar \in Accounts!Jars
         /\ op # "status" => {"ok", "failed", "refused", "wrong"} \subseteq Accounts!Replies(call.op)
<1>1. call # None /\ call.op = op
  BY DEF Accounts!Handled
<1> HIDE DEF Accounts!Args
<1>2. call.op \in DOMAIN Accounts!Args /\ call.args \in Accounts!Args[call.op] /\ call.jar \in Accounts!Jars
  BY <1>1, AccountCallIs
<1> QED BY <1>1, <1>2 DEF Accounts!Replies

(* A mailed link replaces the links of its purpose. *)
LEMMA AccountMails ==
  ASSUME AccountServer, AccountTab, NEW op, Accounts!Handled(op), op # "status", NEW u \in AccountUsers,
         accounts[u] # None, NEW purpose \in Accounts!Purposes, Accounts!Issue(u, purpose),
         UNCHANGED <<accounts, sessions, resets>>, Accounts!ServerDone
  PROVE  AccountServer' /\ AccountTab'
<1>1. AccountServer'
  BY AccountIssue
<1>2. PICK answer \in {"ok", "failed"} : call' = [call EXCEPT !.answer = answer]
  BY DEF Accounts!Issue
<1>3. answer \in Accounts!Replies(call.op) /\ call # None
  BY AccountHandled
<1> QED BY <1>1, <1>2, <1>3, AccountAnswers

(* An answer that leaves the tables alone. *)
LEMMA AccountReplies ==
  ASSUME AccountServer, AccountTab, NEW op, Accounts!Handled(op), op # "status",
         NEW answer \in {"ok", "failed", "refused", "wrong"}, Accounts!Answers(answer),
         Accounts!ServerDone
  PROVE  AccountTab' /\ (UNCHANGED Accounts!server => AccountServer')
<1>1. answer \in Accounts!Replies(call.op) /\ call # None
  BY AccountHandled
<1>2. AccountTab'
  BY <1>1, AccountAnswers DEF Accounts!Answers
<1> QED BY <1>2, AccountSame

(* A session that is begun ends the ones before it that it must end. *)
LEMMA AccountOpens ==
  ASSUME AccountServer, AccountTab, NEW op, Accounts!Handled(op), op \in {"rotate", "renewed"},
         NEW old, Accounts!Exists(call.args), Accounts!Rotate(call.args, old), Accounts!AnswersSession,
         UNCHANGED <<accounts, tokens, links, resets>>, Accounts!ServerDone
  PROVE  AccountServer' /\ AccountTab'
<1>1. call # None /\ call.op = op /\ op \in DOMAIN Accounts!Args /\ call.args \in Accounts!Args[op]
  BY AccountHandled
<1>2. call.args \in Accounts!Refs
  BY <1>1 DEF Accounts!Args
<1>3. AccountServer'
  BY <1>2, AccountRotate
<1>4. nextId' \in Accounts!Ids
  BY <1>3 DEF AccountServer, AccountRows, Accounts!Ids
<1>5. call' = [call EXCEPT !.answer = "ok", !.opened = nextId']
  BY DEF Accounts!AnswersSession
<1>6. call \in Accounts!Calls(op) /\ "ok" \in Accounts!Replies(op)
  BY <1>1 DEF AccountTab, AccountCall, Accounts!Replies
<1>7. call'.op = op /\ call' \in Accounts!Calls(op)
  <2> HIDE DEF Accounts!Args
  <2> QED BY <1>4, <1>5, <1>6 DEF Accounts!Calls
<1>8. AccountTab'
  BY <1>1, <1>7 DEF AccountTab, AccountCall, Accounts!ServerDone
<1> QED BY <1>3, <1>8

(* Each operation of the server, whatever is asked. *)
LEMMA AccountServe ==
  ASSUME AccountServer, AccountTab, Accounts!Serve
  PROVE  AccountServer' /\ AccountTab'
<1>1. CASE Accounts!ServerRegisters
  <2>1. /\ Accounts!Handled("register") /\ Accounts!ServerDone
    BY <1>1 DEF Accounts!ServerRegisters
  <2>2. call.args \in Accounts!Args["register"] /\ call # None
    BY <2>1, AccountHandled
  <2>3. PICK u \in AccountUsers : u = call.args
    BY <2>2 DEF Accounts!Args
  <2>4. CASE accounts[u] # None
    <3>1. UNCHANGED Accounts!server /\ Accounts!Answers("ok")
      BY <1>1, <2>3, <2>4 DEF Accounts!ServerRegisters
    <3> QED BY <2>1, <3>1, AccountReplies
  <2>5. CASE accounts[u] = None
    <3>1. /\ accounts' = [accounts EXCEPT ![u] = [password |-> FirstPassword,
                                                  verified |-> FALSE, disabled |-> FALSE,
                                                  made |-> nextId + 1]]
          /\ Accounts!Issue(u, "email-verification")
          /\ UNCHANGED <<sessions, resets>>
      BY <1>1, <2>3, <2>5 DEF Accounts!ServerRegisters
    <3>2. "email-verification" \in Accounts!Purposes
      BY DEF Accounts!Purposes
    <3>3. AccountServer'
      BY <2>5, <3>1, <3>2, AccountIssue
    <3>4. PICK answer \in {"ok", "failed"} : call' = [call EXCEPT !.answer = answer]
      BY <3>1 DEF Accounts!Issue
    <3>5. answer \in Accounts!Replies(call.op)
      BY <2>1, AccountHandled
    <3> QED BY <2>1, <2>2, <3>3, <3>4, <3>5, AccountAnswers
  <2> QED BY <2>4, <2>5
<1>2. CASE Accounts!ServerResends
  <2>1. /\ Accounts!Handled("resend") /\ Accounts!ServerDone
    BY <1>2 DEF Accounts!ServerResends
  <2>2. call.args \in Accounts!Args["resend"]
    BY <2>1, AccountHandled
  <2>3. PICK u \in AccountUsers : u = call.args
    BY <2>2 DEF Accounts!Args
  <2>4. CASE accounts[u] = None \/ accounts[u].verified
    <3>1. UNCHANGED Accounts!server /\ Accounts!Answers("ok")
      BY <1>2, <2>3, <2>4 DEF Accounts!ServerResends
    <3> QED BY <2>1, <3>1, AccountReplies
  <2>5. CASE ~(accounts[u] = None \/ accounts[u].verified)
    <3>1. Accounts!Issue(u, "email-verification") /\ UNCHANGED <<accounts, sessions, resets>>
      BY <1>2, <2>3, <2>5 DEF Accounts!ServerResends
    <3>2. "email-verification" \in Accounts!Purposes
      BY DEF Accounts!Purposes
    <3> QED BY <2>1, <2>5, <3>1, <3>2, AccountMails
  <2> QED BY <2>4, <2>5
<1>3. CASE Accounts!ServerVerifies
  <2>1. Accounts!Handled("login") /\ Accounts!ServerDone /\ UNCHANGED Accounts!server
        /\ call' = IF Accounts!Matches(call.args.user, call.args.password)
                   THEN [call EXCEPT !.op = "rotate", !.args = Accounts!Ref(@.user),
                                     !.disabled = accounts[call.args.user].disabled]
                   ELSE [call EXCEPT !.answer = "wrong"]
    BY <1>3 DEF Accounts!ServerVerifies
  <2>2. call.args \in Accounts!Args["login"] /\ call # None /\ call.op = "login" /\ "login" \in DOMAIN Accounts!Args
        /\ call.answer = None
    BY <2>1, AccountHandled DEF Accounts!Handled
  <2>3. call.args.user \in AccountUsers /\ call.args.password \in AccountPasswords
    BY <2>2 DEF Accounts!Args
  <2>4. CASE ~Accounts!Matches(call.args.user, call.args.password)
    <3>1. Accounts!Answers("wrong")
      BY <2>1, <2>4 DEF Accounts!Answers
    <3> QED BY <2>1, <3>1, AccountReplies
  <2>5. CASE Accounts!Matches(call.args.user, call.args.password)
    <3>1. accounts[call.args.user] \in Accounts!Account
      BY <2>3, <2>5 DEF Accounts!Matches, AccountServer, AccountRows
    <3>2. Accounts!Ref(call.args.user) \in Accounts!Refs /\ accounts[call.args.user].disabled \in BOOLEAN
      BY <2>3, <3>1 DEF Accounts!Ref, Accounts!Refs, Accounts!Account
    <3>3. call \in Accounts!Calls("login")
      BY <2>2 DEF AccountTab, AccountCall
    <3>4. call' = [call EXCEPT !.op = "rotate", !.args = Accounts!Ref(call.args.user),
                               !.disabled = accounts[call.args.user].disabled]
      BY <2>1, <2>5, <3>3 DEF Accounts!Calls
    <3>5. Accounts!Args["rotate"] = Accounts!Refs /\ "rotate" \in DOMAIN Accounts!Args /\ None \in Accounts!Replies("rotate")
      BY DEF Accounts!Args, Accounts!Replies
    <3>6. call'.op = "rotate" /\ call' \in Accounts!Calls("rotate")
      <4> HIDE DEF Accounts!Args
      <4> QED BY <2>2, <3>2, <3>3, <3>4, <3>5 DEF Accounts!Calls
    <3>7. AccountTab'
      BY <2>1, <3>5, <3>6 DEF AccountTab, AccountCall, Accounts!ServerDone
    <3> QED BY <2>1, <3>7, AccountSame
  <2> QED BY <2>4, <2>5
<1>4. CASE Accounts!ServerRotates
  <2>1. Accounts!Handled("rotate") /\ Accounts!ServerDone
    BY <1>4 DEF Accounts!ServerRotates
  <2>2. CASE ~Accounts!Exists(call.args)
    <3>1. UNCHANGED Accounts!server /\ Accounts!Answers("failed")
      BY <1>4, <2>2 DEF Accounts!ServerRotates
    <3> QED BY <2>1, <3>1, AccountReplies
  <2>3. CASE Accounts!Exists(call.args)
    <3>1. /\ Accounts!Rotate(call.args, call.jar.session) /\ Accounts!AnswersSession
          /\ UNCHANGED <<accounts, tokens, links, resets>>
      BY <1>4, <2>3 DEF Accounts!ServerRotates
    <3> QED BY <2>1, <2>3, <3>1, AccountOpens
  <2> QED BY <2>2, <2>3
<1>5. CASE Accounts!ServerSignsOut
  <2>1. /\ Accounts!Handled("logout") /\ Accounts!ServerDone /\ Accounts!Answers("ok")
        /\ sessions' \subseteq sessions
        /\ UNCHANGED <<accounts, tokens, links, resets, nextId>>
    BY <1>5 DEF Accounts!ServerSignsOut
  <2>2. AccountServer'
    BY <2>1, AccountFewer DEF AccountServer, AccountRows, Accounts!NothingOfDeleted
  <2> QED BY <2>1, <2>2, AccountReplies
<1>6. CASE Accounts!ServerForgets
  <2>1. /\ Accounts!Handled("forgot") /\ Accounts!ServerDone
    BY <1>6 DEF Accounts!ServerForgets
  <2>2. call.args \in Accounts!Args["forgot"]
    BY <2>1, AccountHandled
  <2>3. PICK u \in AccountUsers : u = call.args
    BY <2>2 DEF Accounts!Args
  <2>4. CASE accounts[u] = None
    <3>1. UNCHANGED Accounts!server /\ Accounts!Answers("ok")
      BY <1>6, <2>3, <2>4 DEF Accounts!ServerForgets
    <3> QED BY <2>1, <3>1, AccountReplies
  <2>5. CASE accounts[u] # None
    <3>1. Accounts!Issue(u, "password-reset") /\ UNCHANGED <<accounts, sessions, resets>>
      BY <1>6, <2>3, <2>5 DEF Accounts!ServerForgets
    <3>2. "password-reset" \in Accounts!Purposes
      BY DEF Accounts!Purposes
    <3> QED BY <2>1, <2>5, <3>1, <3>2, AccountMails
  <2> QED BY <2>4, <2>5
<1>7. CASE Accounts!ServerResets
  <2> DEFINE found == Accounts!Live(call.jar.reset, "password-reset")
  <2>1. /\ Accounts!Handled("reset") /\ Accounts!ServerDone
    BY <1>7 DEF Accounts!ServerResets
  <2>2. call.args \in Accounts!Args["reset"] /\ call # None /\ call.op = "reset" /\ call.answer = None
    BY <2>1, AccountHandled DEF Accounts!Handled
  <2>3. call.args \in AccountPasswords
    BY <2>2 DEF Accounts!Args
  <2>4. CASE found = {}
    <3>1. UNCHANGED Accounts!server /\ Accounts!Answers("failed")
      BY <1>7, <2>4 DEF Accounts!ServerResets
    <3> QED BY <2>1, <3>1, AccountReplies
  <2>5. CASE found # {}
    <3>1. PICK t \in found : t = CHOOSE x \in found : TRUE
      BY <2>5
    <3>2. t \in tokens
      BY <3>1 DEF Accounts!Live
    <3>3. /\ Accounts!Renewed(t.user, call.args) /\ tokens' = tokens \ found
          /\ call' = [call EXCEPT !.op = "renewed", !.args = Accounts!Ref(t.user)]
          /\ UNCHANGED <<links, nextId>>
      BY <1>7, <2>5, <3>1 DEF Accounts!ServerResets
    <3>4. AccountServer'
      BY <2>3, <3>2, <3>3, AccountRenewed
    <3>5. Accounts!Ref(t.user) \in Accounts!Refs
      BY <3>2, AccountOfRow DEF Accounts!Ref, Accounts!Refs, Accounts!Account
    <3>6. Accounts!Args["renewed"] = Accounts!Refs /\ "renewed" \in DOMAIN Accounts!Args /\ None \in Accounts!Replies("renewed")
      BY DEF Accounts!Args, Accounts!Replies
    <3>7. call \in Accounts!Calls("reset")
      BY <2>2 DEF AccountTab, AccountCall
    <3>8. call'.op = "renewed" /\ call' \in Accounts!Calls("renewed")
      <4> HIDE DEF Accounts!Args
      <4> QED BY <2>2, <3>3, <3>5, <3>6, <3>7 DEF Accounts!Calls
    <3>9. AccountTab'
      BY <2>1, <3>6, <3>8 DEF AccountTab, AccountCall, Accounts!ServerDone
    <3> QED BY <3>4, <3>9
  <2> QED BY <2>4, <2>5
<1>8. CASE Accounts!ServerOpensSession
  <2>1. Accounts!Handled("renewed") /\ Accounts!ServerDone
    BY <1>8 DEF Accounts!ServerOpensSession
  <2>2. CASE ~Accounts!Exists(call.args)
    <3>1. UNCHANGED Accounts!server /\ Accounts!Answers("failed")
      BY <1>8, <2>2 DEF Accounts!ServerOpensSession
    <3> QED BY <2>1, <3>1, AccountReplies
  <2>3. CASE Accounts!Exists(call.args)
    <3>1. /\ Accounts!Rotate(call.args, None) /\ Accounts!AnswersSession
          /\ UNCHANGED <<accounts, tokens, links, resets>>
      BY <1>8, <2>3 DEF Accounts!ServerOpensSession
    <3> QED BY <2>1, <2>3, <3>1, AccountOpens
  <2> QED BY <2>2, <2>3
<1>9. CASE Accounts!ServerMailsDeletion
  <2>1. Accounts!Handled("deletion") /\ Accounts!ServerDone
    BY <1>9 DEF Accounts!ServerMailsDeletion
  <2>2. CASE Accounts!Recent(call.jar.session) = {}
    <3>1. UNCHANGED Accounts!server /\ Accounts!Answers("refused")
      BY <1>9, <2>2 DEF Accounts!ServerMailsDeletion
    <3> QED BY <2>1, <3>1, AccountReplies
  <2>3. CASE Accounts!Recent(call.jar.session) # {}
    <3>1. PICK u \in Accounts!Recent(call.jar.session) : Accounts!Issue(u, "account-deletion")
      BY <1>9, <2>3 DEF Accounts!ServerMailsDeletion
    <3>2. UNCHANGED <<accounts, sessions, resets>>
      BY <1>9, <2>3 DEF Accounts!ServerMailsDeletion
    <3>3. u \in AccountUsers /\ accounts[u] # None
      BY AccountOfRow DEF Accounts!Recent
    <3>4. "account-deletion" \in Accounts!Purposes
      BY DEF Accounts!Purposes
    <3> QED BY <2>1, <3>1, <3>2, <3>3, <3>4, AccountMails
  <2> QED BY <2>2, <2>3
<1>10. CASE Accounts!ServerStatus
  <2> DEFINE allowed == Accounts!Authorized(call.jar)
             answer == IF allowed = {} THEN "refused" ELSE AccountMask[CHOOSE u \in allowed : TRUE]
  <2>1. Accounts!Handled("status") /\ Accounts!ServerDone /\ UNCHANGED Accounts!server /\ call' = [call EXCEPT !.answer = answer]
    BY <1>10 DEF Accounts!ServerStatus, Accounts!Answers
  <2>2. call # None /\ call.op = "status"
    BY <2>1, AccountHandled
  <2>3. allowed \subseteq AccountUsers
    BY AccountOfRow DEF Accounts!Authorized, Accounts!Recent
  <2>4. answer \in Accounts!Replies(call.op)
    <3> HIDE DEF allowed
    <3> QED BY <2>2, <2>3 DEF Accounts!Replies, Accounts!Masks
  <2> HIDE DEF answer
  <2>5. AccountTab'
    BY <2>1, <2>2, <2>4, AccountAnswers
  <2> QED BY <2>1, <2>5, AccountSame
<1>11. CASE Accounts!ServerDeletes
  <2> DEFINE allowed == {u \in Accounts!Authorized(call.jar) : Accounts!PhraseIs(u, call.args)}
  <2>1. Accounts!Handled("delete") /\ Accounts!ServerDone
    BY <1>11 DEF Accounts!ServerDeletes, Accounts!ServerDone
  <2>2. CASE allowed = {}
    <3>1. UNCHANGED Accounts!server /\ Accounts!Answers("refused")
      BY <1>11, <2>2 DEF Accounts!ServerDeletes
    <3> QED BY <2>1, <3>1, AccountReplies
  <2>3. CASE allowed # {}
    <3>1. PICK u \in allowed :
            /\ accounts' = [accounts EXCEPT ![u] = None]
            /\ tokens' = {t \in tokens : t.user # u}
            /\ sessions' = {s \in sessions : s.user # u}
            /\ resets' = [resets EXCEPT ![u] = 0]
            /\ Accounts!Answers("ok")
            /\ UNCHANGED <<links, nextId>>
      BY <1>11, <2>3 DEF Accounts!ServerDeletes
    <3>2. u \in AccountUsers
      BY AccountOfRow DEF Accounts!Authorized, Accounts!Recent
    <3>3. accounts \in [AccountUsers -> Accounts!Account \cup {None}] /\ resets \in [AccountUsers -> Nat]
          /\ sessions \subseteq Accounts!Sessions /\ tokens \subseteq Accounts!Tokens
      BY DEF AccountServer, AccountRows
    <3>4. accounts' \in [AccountUsers -> Accounts!Account \cup {None}] /\ resets' \in [AccountUsers -> Nat]
      BY <3>1, <3>3
    <3>5. \A r \in sessions' \cup tokens' : r.user # u /\ r.user \in AccountUsers /\ r \in sessions \cup tokens
      BY <3>1, <3>3 DEF Accounts!Sessions, Accounts!Tokens
    <3>6. \A r \in sessions' \cup tokens' : accounts'[r.user] # None /\ accounts'[r.user].made = r.made
      BY <3>1, <3>3, <3>5 DEF AccountServer, Accounts!NothingOfDeleted
    <3>7. \A s \in sessions' : resets'[s.user] = resets[s.user]
      BY <3>1, <3>3, <3>5
    <3>8. tokens' \subseteq tokens /\ sessions' \subseteq sessions
      BY <3>1
    <3>9. AccountServer'
      BY <3>1, <3>4, <3>6, <3>7, <3>8, AccountFewer
    <3> QED BY <2>1, <3>1, <3>9, AccountReplies
  <2> QED BY <2>2, <2>3
<1> QED BY <1>1, <1>2, <1>3, <1>4, <1>5, <1>6, <1>7, <1>8, <1>9, <1>10, <1>11 DEF Accounts!Serve

(* Each answer at the browser. *)
LEMMA AccountAnswer ==
  ASSUME AccountServer, AccountTab, Accounts!Answer
  PROVE  AccountServer' /\ AccountTab'
<1>0. /\ form \in Accounts!Forms /\ jar \in Accounts!Jars /\ page \in Accounts!Paths /\ AccountCall
      /\ auth \in [loading : BOOLEAN, user : Accounts!Known \cup {None}]
      /\ remote \in Accounts!Refs \cup {None}
  BY DEF AccountTab
<1>1. UNCHANGED <<Accounts!server, remote>> /\ AccountServer'
  BY AccountSame DEF Accounts!Answer
<1> SUFFICES AccountTab'
  BY <1>1
<1>2. ASSUME NEW change \in Accounts!Forms, Accounts!Said(change) PROVE AccountTab'
  BY <1>1, <1>2, AccountSaid
<1>3. ASSUME NEW path \in Accounts!Paths, Accounts!Load(path), jar' \in Accounts!Jars PROVE AccountTab'
  BY <1>0, <1>1, <1>3, AccountLoad DEF AccountTab
<1>4. {"/", "/classic", "/account-disabled", "/profile"} \subseteq Accounts!Paths
  BY DEF Accounts!Paths
<1>5. CASE Accounts!RegisterAnswer
  <2>1. call # None /\ call.op = "register"
    BY <1>5 DEF Accounts!RegisterAnswer, Accounts!Answered
  <2>2. call.args \in AccountUsers
    BY <2>1, AccountCallIs DEF Accounts!Args
  <2>3. (IF Accounts!Ok THEN [form EXCEPT !.success = call.args] ELSE form) \in Accounts!Forms
    BY <1>0, <2>2, AccountForm
  <2> QED BY <1>2, <1>5, <2>3 DEF Accounts!RegisterAnswer
<1>6. CASE Accounts!MailAnswer
  BY <1>0, <1>2, <1>6 DEF Accounts!MailAnswer
<1>7. CASE Accounts!RefusedAnswer
  <2>1. [form EXCEPT !.error = TRUE] \in Accounts!Forms
    BY <1>0, AccountForm
  <2> QED BY <1>2, <1>7, <2>1 DEF Accounts!RefusedAnswer
<1>8. CASE Accounts!SignInAnswer \/ Accounts!ResetAnswer
  <2>1. call # None
    BY <1>8 DEF Accounts!SignInAnswer, Accounts!ResetAnswer, Accounts!Answered
  <2>2. call.opened \in Accounts!Ids
    BY <2>1, AccountCallIs
  <2>3. jar' \in Accounts!Jars
    BY <1>0, <1>8, <2>2 DEF Accounts!SignInAnswer, Accounts!ResetAnswer, Accounts!Jars, Accounts!Ids
  <2> QED BY <1>3, <1>4, <1>8, <2>3 DEF Accounts!SignInAnswer, Accounts!ResetAnswer
<1>9. CASE Accounts!SignOutAnswer
  <2>1. jar' \in Accounts!Jars
    BY <1>0, <1>9 DEF Accounts!SignOutAnswer, Accounts!Jars, Accounts!Ids
  <2> QED BY <1>3, <1>4, <1>9, <2>1 DEF Accounts!SignOutAnswer
<1>10. CASE Accounts!DeletionAnswer
  <2>1. Accounts!Ok \in BOOLEAN /\ (~Accounts!Ok) \in BOOLEAN
    BY DEF Accounts!Ok
  <2>2. [form EXCEPT !.sent = Accounts!Ok, !.error = ~Accounts!Ok] \in Accounts!Forms
    BY <1>0, <2>1, AccountForm
  <2> QED BY <1>2, <1>10, <2>2 DEF Accounts!DeletionAnswer
<1>11. CASE Accounts!StatusAnswer
  <2>1. call # None /\ call.op = "status" /\ call.answer # None
    BY <1>11 DEF Accounts!StatusAnswer, Accounts!Answered
  <2>2. call.answer \in Accounts!Masks \cup {"refused"}
    BY <2>1, AccountCallIs DEF Accounts!Replies
  <2>3. \/ Accounts!Said(form)
        \/ call.answer # "refused" /\ Accounts!Said([form EXCEPT !.masked = call.answer])
        \/ page' = "/profile" /\ form' = Accounts!Fresh /\ call' = None /\ UNCHANGED <<jar, auth>>
    BY <1>11 DEF Accounts!StatusAnswer
  <2>4. CASE Accounts!Said(form)
    BY <1>0, <1>2, <2>4
  <2>5. CASE call.answer # "refused" /\ Accounts!Said([form EXCEPT !.masked = call.answer])
    <3>1. [form EXCEPT !.masked = call.answer] \in Accounts!Forms
      BY <1>0, <2>2, <2>5, AccountForm
    <3> QED BY <1>2, <2>5, <3>1
  <2>6. CASE page' = "/profile" /\ form' = Accounts!Fresh /\ call' = None /\ UNCHANGED <<jar, auth>>
    <3>1. Accounts!Fresh \in Accounts!Forms
      BY DEF Accounts!Fresh, Accounts!Forms
    <3> QED BY <1>0, <1>1, <1>4, <2>6, <3>1 DEF AccountTab, AccountCall
  <2> QED BY <2>3, <2>4, <2>5, <2>6
<1>12. CASE Accounts!DeleteAnswer
  <2>1. CASE Accounts!Ok
    <3>1. jar' = [jar EXCEPT !.session = None, !.deletion = None] /\ Accounts!Load("/")
      BY <1>12, <2>1 DEF Accounts!DeleteAnswer
    <3>2. jar' \in Accounts!Jars
      BY <1>0, <3>1 DEF Accounts!Jars, Accounts!Ids
    <3> QED BY <1>1, <1>3, <1>4, <3>1, <3>2
  <2>2. CASE ~Accounts!Ok
    <3>1. (IF page = "/delete-account" THEN [form EXCEPT !.error = TRUE] ELSE form) \in Accounts!Forms
      BY <1>0, AccountForm
    <3> QED BY <1>1, <1>2, <1>12, <2>2, <3>1 DEF Accounts!DeleteAnswer
  <2> QED BY <2>1, <2>2
<1> QED BY <1>5, <1>6, <1>7, <1>8, <1>9, <1>10, <1>11, <1>12 DEF Accounts!Answer

(* A link opens a page, and with its token changes what it is for. *)
LEMMA AccountLinks ==
  ASSUME AccountServer, AccountTab, NEW l \in links
  PROVE  /\ l \in Accounts!Tokens /\ Accounts!Opened(l) \in Accounts!Jars /\ Accounts!Destination(l) \in Accounts!Paths
         /\ Accounts!Verified(l) => AccountServer'
<1>1. l \in Accounts!Tokens /\ l.id \in Accounts!Ids /\ l.purpose \in Accounts!Purposes
  BY DEF AccountServer, AccountRows, Accounts!Tokens, Accounts!Ids
<1>2. Accounts!Opened(l) \in Accounts!Jars /\ Accounts!Destination(l) \in Accounts!Paths
  <2>1. jar \in Accounts!Jars
    BY DEF AccountTab
  <2>2. [jar EXCEPT !.reset = l.id] \in Accounts!Jars /\ [jar EXCEPT !.deletion = l.id] \in Accounts!Jars
    BY <1>1, <2>1 DEF Accounts!Jars
  <2> QED BY <1>1, <2>1, <2>2 DEF Accounts!Opened, Accounts!Destination, Accounts!Purposes,
                                  Accounts!Paths
<1>3. ASSUME Accounts!Verified(l) PROVE AccountServer'
  <2>1. CASE l.purpose = "email-verification" /\ l \in tokens
    <3> DEFINE a == [accounts[l.user] EXCEPT !.verified = TRUE]
    <3>1. /\ tokens' = tokens \ {l} /\ accounts' = [accounts EXCEPT ![l.user] = a]
          /\ UNCHANGED <<links, sessions, resets, nextId>>
      BY <1>3, <2>1 DEF Accounts!Verified
    <3>2. l.user \in AccountUsers /\ accounts[l.user] \in Accounts!Account /\ accounts[l.user] # None
      BY <2>1, AccountOfRow
    <3>3. a \in Accounts!Account /\ a.made = accounts[l.user].made
      BY <3>2 DEF Accounts!Account
    <3> HIDE DEF a
    <3>4. /\ accounts' \in [AccountUsers -> Accounts!Account \cup {None}]
          /\ \A r \in sessions \cup tokens : accounts'[r.user] # None /\ accounts'[r.user].made = r.made
      BY <3>1, <3>2, <3>3, AccountChanged
    <3>5. resets' \in [AccountUsers -> Nat] /\ tokens' \subseteq tokens
      BY <3>1 DEF AccountServer, AccountRows
    <3> QED BY <3>1, <3>4, <3>5, AccountFewer
  <2>2. CASE ~(l.purpose = "email-verification" /\ l \in tokens)
    <3>1. UNCHANGED Accounts!server
      BY <1>3, <2>2 DEF Accounts!Verified
    <3> QED BY <3>1, AccountSame
  <2> QED BY <2>1, <2>2
<1> QED BY <1>1, <1>2, <1>3

(* What goes on elsewhere: in another browser, or in the mail. *)
LEMMA AccountOutside ==
  ASSUME AccountServer, AccountTab, Accounts!OutsideStep
  PROVE  AccountServer' /\ AccountTab'
<1>0. /\ form \in Accounts!Forms /\ jar \in Accounts!Jars /\ page \in Accounts!Paths /\ AccountCall
      /\ auth \in [loading : BOOLEAN, user : Accounts!Known \cup {None}]
      /\ remote \in Accounts!Refs \cup {None}
  BY DEF AccountTab
<1>r. /\ accounts \in [AccountUsers -> Accounts!Account \cup {None}] /\ resets \in [AccountUsers -> Nat]
      /\ sessions \subseteq Accounts!Sessions /\ tokens \subseteq Accounts!Tokens
  BY DEF AccountServer, AccountRows
<1>t. ASSUME UNCHANGED Accounts!tab, jar' \in Accounts!Jars, remote' \in Accounts!Refs \cup {None} PROVE AccountTab'
  BY <1>0, <1>t DEF Accounts!tab, AccountTab, AccountCall
<1>1. ASSUME NEW path \in Accounts!Paths, Accounts!Visit(path) PROVE AccountServer' /\ AccountTab'
  BY <1>0, <1>1, AccountLoad, AccountSame DEF Accounts!Visit, AccountTab
<1>2. CASE Accounts!CallFails
  <2> DEFINE change == IF \/ call.op \in {"resend", "forgot", "register", "logout"}
                          \/ call.op \in {"status", "delete"} /\ page # "/delete-account"
                       THEN form ELSE [form EXCEPT !.error = TRUE]
  <2>1. change \in Accounts!Forms
    BY <1>0, AccountForm
  <2>2. Accounts!Said(change) /\ UNCHANGED <<Accounts!server, remote>>
    BY <1>2 DEF Accounts!CallFails
  <2> HIDE DEF change
  <2> QED BY <2>1, <2>2, AccountSaid, AccountSame
<1>3. ASSUME NEW l \in links, Accounts!OtherTabOpens(l) PROVE AccountServer' /\ AccountTab'
  BY <1>0, <1>3, <1>t, AccountLinks, AccountSame DEF Accounts!OtherTabOpens
<1>4. ASSUME NEW u \in AccountUsers, Accounts!OtherTabSignsIn(u) PROVE AccountServer' /\ AccountTab'
  <2>1. /\ accounts[u] # None /\ Accounts!Rotate(Accounts!Ref(u), jar.session) /\ jar' = [jar EXCEPT !.session = nextId']
        /\ UNCHANGED <<accounts, tokens, links, resets, Accounts!tab, remote>>
    BY <1>4 DEF Accounts!OtherTabSignsIn
  <2>2. Accounts!Ref(u) \in Accounts!Refs /\ Accounts!Exists(Accounts!Ref(u))
    BY <1>r, <2>1 DEF Accounts!Ref, Accounts!Refs, Accounts!Exists, Accounts!Account
  <2>3. AccountServer'
    BY <2>1, <2>2, AccountRotate
  <2>4. jar' \in Accounts!Jars
    BY <1>0, <2>1, <2>3 DEF AccountServer, AccountRows, Accounts!Jars, Accounts!Ids
  <2> QED BY <1>0, <1>t, <2>1, <2>3, <2>4
<1>5. ASSUME NEW u \in AccountUsers, Accounts!Disable(u) PROVE AccountServer' /\ AccountTab'
  <2> DEFINE a == [accounts[u] EXCEPT !.disabled = TRUE]
  <2>1. /\ accounts[u] # None /\ accounts' = [accounts EXCEPT ![u] = a]
        /\ UNCHANGED <<tokens, links, sessions, resets, nextId, jar, Accounts!tab, remote>>
    BY <1>5 DEF Accounts!Disable
  <2>2. accounts[u] \in Accounts!Account
    BY <1>r, <2>1
  <2>3. a \in Accounts!Account /\ a.made = accounts[u].made
    BY <2>2 DEF Accounts!Account
  <2> HIDE DEF a
  <2>4. /\ accounts' \in [AccountUsers -> Accounts!Account \cup {None}]
        /\ \A r \in sessions \cup tokens : accounts'[r.user] # None /\ accounts'[r.user].made = r.made
    BY <2>1, <2>3, AccountChanged
  <2>5. \A s \in sessions : resets[s.user] = resets[s.user]
    OBVIOUS
  <2>6. AccountServer'
    BY <1>r, <2>1, <2>4, AccountFewer
  <2> QED BY <1>0, <1>t, <2>1, <2>6
<1>6. ASSUME NEW u \in AccountUsers, NEW p \in AccountPasswords, Accounts!RemoteVerifies(u, p)
      PROVE  AccountServer' /\ AccountTab'
  <2>1. accounts[u] # None /\ remote' = Accounts!Ref(u) /\ UNCHANGED <<Accounts!server, jar, Accounts!tab>>
    BY <1>6 DEF Accounts!RemoteVerifies, Accounts!Matches
  <2>2. Accounts!Ref(u) \in Accounts!Refs
    BY <1>r, <2>1 DEF Accounts!Ref, Accounts!Refs, Accounts!Account
  <2> QED BY <1>0, <1>t, <2>1, <2>2, AccountSame
<1>7. ASSUME NEW s \in sessions, Accounts!SessionAges(s) PROVE AccountServer' /\ AccountTab'
  <2> DEFINE old == [s EXCEPT !.recent = FALSE]
  <2>1. /\ sessions' = (sessions \ {s}) \cup {old}
        /\ UNCHANGED <<accounts, tokens, links, resets, nextId, jar, Accounts!tab, remote>>
    BY <1>7 DEF Accounts!SessionAges
  <2>2. old \in Accounts!Sessions /\ old.user = s.user /\ old.made = s.made /\ old.resets = s.resets
    BY <1>r DEF Accounts!Sessions
  <2> HIDE DEF old
  <2>3. \A r \in sessions' : r \in sessions \/ r = old
    BY <2>1
  <2>4. AccountRows'
    BY <2>1, <2>2, <2>3 DEF AccountServer, AccountRows
  <2>5. Accounts!ResetEndsSessions'
    BY <2>1, <2>2, <2>3 DEF AccountServer, Accounts!ResetEndsSessions
  <2>6. Accounts!OnlyNewestLinkWorks'
    BY <2>1 DEF AccountServer, Accounts!OnlyNewestLinkWorks
  <2>7. Accounts!NothingOfDeleted'
    BY <2>1, <2>2, <2>3 DEF AccountServer, Accounts!NothingOfDeleted
  <2> QED BY <1>0, <1>t, <2>1, <2>4, <2>5, <2>6, <2>7 DEF AccountServer
<1>8. ASSUME NEW t \in tokens, Accounts!TokenExpires(t) PROVE AccountServer' /\ AccountTab'
  <2>1. /\ tokens' \subseteq tokens
        /\ UNCHANGED <<accounts, links, sessions, resets, nextId, jar, Accounts!tab, remote>>
    BY <1>8 DEF Accounts!TokenExpires
  <2>2. \A r \in sessions' \cup tokens' : accounts'[r.user] # None /\ accounts'[r.user].made = r.made
    BY <2>1 DEF AccountServer, Accounts!NothingOfDeleted
  <2>3. AccountServer'
    BY <1>r, <2>1, <2>2, AccountFewer
  <2> QED BY <1>0, <1>t, <2>1, <2>3
<1> QED BY <1>1, <1>2, <1>3, <1>4, <1>5, <1>6, <1>7, <1>8 DEF Accounts!OutsideStep

(* The browser's other steps. *)
LEMMA AccountRest ==
  ASSUME AccountServer, AccountTab,
         Accounts!CheckAuthentication \/ Accounts!RemoteRotates \/ \E l \in links : Accounts!OpenLink(l)
  PROVE  AccountServer' /\ AccountTab'
<1>0. /\ form \in Accounts!Forms /\ jar \in Accounts!Jars /\ page \in Accounts!Paths /\ AccountCall
      /\ auth \in [loading : BOOLEAN, user : Accounts!Known \cup {None}]
      /\ remote \in Accounts!Refs \cup {None}
  BY DEF AccountTab
<1>1. CASE Accounts!CheckAuthentication
  <2>1. /\ UNCHANGED <<Accounts!server, jar, call, remote>>
        /\ Accounts!Route(Accounts!Me(jar.session)) \/ Accounts!Route(None)
    BY <1>1 DEF Accounts!CheckAuthentication
  <2>2. Accounts!Me(jar.session) \in Accounts!Known \cup {None}
    <3>1. \A u \in Accounts!UserOf(jar.session) : u \in AccountUsers /\ accounts[u] \in Accounts!Account
      BY AccountOfRow DEF Accounts!UserOf
    <3> DEFINE u == CHOOSE u \in Accounts!UserOf(jar.session) : TRUE
               me == [id |-> u, disabled |-> accounts[u].disabled, verified |-> accounts[u].verified]
    <3>2. CASE Accounts!UserOf(jar.session) # {}
      <4>1. u \in Accounts!UserOf(jar.session)
        BY <3>2
      <4>2. Accounts!Me(jar.session) = me
        BY <3>2 DEF Accounts!Me
      <4>3. me \in Accounts!Known
        <5> HIDE DEF u
        <5> QED BY <3>1, <4>1 DEF Accounts!Known, Accounts!Account
      <4> QED BY <4>2, <4>3
    <3>3. CASE Accounts!UserOf(jar.session) = {}
      BY <3>3 DEF Accounts!Me
    <3> QED BY <3>2, <3>3
  <2>3. ASSUME NEW u \in Accounts!Known \cup {None}, Accounts!Route(u) PROVE AccountTab'
    <3>1. Accounts!Guarded(page, u) \in Accounts!Paths
      <4>1. {"/", "/login", "/profile", "/account-disabled"} \subseteq Accounts!Paths
        BY DEF Accounts!Paths
      <4>2. CASE Accounts!Disabled(u)
        BY <4>1, <4>2 DEF Accounts!Guarded
      <4>3. CASE ~Accounts!Disabled(u)
        BY <1>0, <4>1, <4>3 DEF Accounts!Guarded, Accounts!PublicOnlyRoute,
                                Accounts!DisabledAccountRoute, Accounts!AuthenticatedRoute,
                                Accounts!Disabled
      <4> QED BY <4>2, <4>3
    <3>2. Accounts!Fresh \in Accounts!Forms
      BY DEF Accounts!Fresh, Accounts!Forms
    <3>3. auth' \in [loading : BOOLEAN, user : Accounts!Known \cup {None}]
      BY <2>3 DEF Accounts!Route
    <3>4. page' \in Accounts!Paths /\ form' \in Accounts!Forms
      BY <1>0, <2>3, <3>1, <3>2 DEF Accounts!Route
    <3> QED BY <1>0, <2>1, <3>3, <3>4 DEF AccountTab, AccountCall
  <2> QED BY <2>1, <2>2, <2>3, AccountSame
<1>2. CASE Accounts!RemoteRotates
  <2>1. remote # None /\ remote' = None /\ UNCHANGED <<jar, Accounts!tab>>
    BY <1>2 DEF Accounts!RemoteRotates
  <2>2. AccountTab'
    BY <1>0, <2>1 DEF Accounts!tab, AccountTab, AccountCall
  <2>3. CASE ~Accounts!Exists(remote)
    BY <1>2, <2>2, <2>3, AccountSame DEF Accounts!RemoteRotates
  <2>4. CASE Accounts!Exists(remote)
    <3>1. Accounts!Rotate(remote, None) /\ UNCHANGED <<accounts, tokens, links, resets>>
      BY <1>2, <2>4 DEF Accounts!RemoteRotates
    <3>2. AccountServer'
      BY <1>0, <2>1, <2>4, <3>1, AccountRotate
    <3> QED BY <2>2, <3>2
  <2> QED BY <2>3, <2>4
<1>3. ASSUME NEW l \in links, Accounts!OpenLink(l) PROVE AccountServer' /\ AccountTab'
  <2>1. Accounts!Verified(l) /\ jar' = Accounts!Opened(l) /\ Accounts!Load(Accounts!Destination(l)) /\ UNCHANGED <<remote>>
    BY <1>3 DEF Accounts!OpenLink
  <2>2. /\ AccountServer' /\ jar' \in Accounts!Jars /\ Accounts!Destination(l) \in Accounts!Paths
    BY <2>1, AccountLinks
  <2> QED BY <1>0, <2>1, <2>2, AccountLoad DEF AccountTab
<1> QED BY <1>1, <1>2, <1>3
-----------------------------------------------------------------------------
(* Initially. *)
LEMMA AccountInit == Accounts!Init => AccountInv
<1> SUFFICES ASSUME Accounts!Init PROVE AccountInv
  OBVIOUS
<1>1. /\ accounts = [u \in AccountUsers |-> [password |-> FirstPassword, verified |-> TRUE,
                                      disabled |-> FALSE, made |-> 0]]
      /\ tokens = {} /\ links = {} /\ sessions = {} /\ resets = [u \in AccountUsers |-> 0] /\ nextId = 0
      /\ jar = [session |-> None, reset |-> None, deletion |-> None]
      /\ page \in Accounts!Paths /\ auth = [loading |-> TRUE, user |-> None] /\ form = Accounts!Fresh /\ call = None
      /\ remote \in {None} \cup {Accounts!Ref(u) : u \in AccountUsers} /\ outside = 0
  BY DEF Accounts!Init
<1>2. accounts \in [AccountUsers -> Accounts!Account]
  BY <1>1, AccountGiven DEF Accounts!Account, Accounts!AccountScreensAssumption
<1>3. AccountServer
  BY <1>1, <1>2 DEF AccountServer, AccountRows, Accounts!ResetEndsSessions,
                    Accounts!OnlyNewestLinkWorks, Accounts!NothingOfDeleted
<1>4. \A u \in AccountUsers : Accounts!Ref(u) \in Accounts!Refs
  BY <1>2 DEF Accounts!Ref, Accounts!Refs, Accounts!Account
<1>5. jar \in Accounts!Jars
  BY <1>1 DEF Accounts!Jars, Accounts!Ids
<1>6. form \in Accounts!Forms
  BY <1>1 DEF Accounts!Forms, Accounts!Fresh
<1>7. auth \in [loading : BOOLEAN, user : Accounts!Known \cup {None}]
  BY <1>1
<1> QED BY <1>1, <1>3, <1>4, <1>5, <1>6, <1>7 DEF AccountInv, AccountTab, AccountCall

(* Every step keeps the invariant. *)
LEMMA AccountStep == AccountInv /\ [Accounts!Next]_(Accounts!vars) => AccountInv'
<1> SUFFICES ASSUME AccountInv, [Accounts!Next]_(Accounts!vars) PROVE AccountInv'
  OBVIOUS
<1>0. AccountServer /\ AccountTab /\ outside \in Nat
  BY DEF AccountInv
<1>1. CASE Accounts!Step
  <2>1. outside' \in Nat
    BY <1>0, <1>1 DEF Accounts!Step
  <2>2. AccountServer' /\ AccountTab'
    BY <1>0, <1>1, AccountPress, AccountServe, AccountAnswer, AccountOutside, AccountRest
      DEF Accounts!Step
  <2> QED BY <2>1, <2>2 DEF AccountInv
<1>2. CASE UNCHANGED Accounts!vars
  <2>1. AccountTab' /\ outside' = outside
    BY <1>0, <1>2 DEF Accounts!vars, Accounts!tab, AccountTab, AccountCall
  <2>2. UNCHANGED Accounts!server
    BY <1>2 DEF Accounts!vars
  <2> QED BY <1>0, <2>1, <2>2, AccountSame DEF AccountInv
<1> QED BY <1>1, <1>2 DEF Accounts!Next

(* What the invariant says of the properties. *)
LEMMA AccountShows ==
  AccountInv => Accounts!TypeOK /\ Accounts!ResetEndsSessions /\ Accounts!OnlyNewestLinkWorks /\ Accounts!NothingOfDeleted
BY DEF AccountInv, AccountServer, AccountRows, AccountTab, AccountCall, Accounts!TypeOK

(* A reset ends the sessions before it, only the newest link of a purpose  *)
(* works, and what is left of a deleted account never opens the one        *)
(* registered after it.                                                    *)
THEOREM AccountsAlways ==
  Accounts!Spec => [](Accounts!TypeOK /\ Accounts!ResetEndsSessions /\ Accounts!OnlyNewestLinkWorks /\ Accounts!NothingOfDeleted)
<1> QED BY AccountInit, AccountStep, AccountShows, PTL DEF Accounts!Spec

-----------------------------------------------------------------------------
(* The API client, the cookies and the router. *)
Api == INSTANCE ApiCalls WITH
  Kind <- Kinds, Racing <- ApiRacing, MaxCalls <- ApiBounds.calls,
  MaxIds <- ApiBounds.ids

(* The calls about accounts have routes that take them, *)
LEMMA ApiAccountMatches == \A c \in DOMAIN AccountCalls : Matches(AccountCalls[c])
BY SMTT(60) DEF AccountCalls, Matches, Json, Get, Routes, RequestType, Optional

(* so have those about progress, *)
LEMMA ApiProgressMatches == \A c \in DOMAIN ProgressCalls : Matches(ProgressCalls[c])
BY DEF ProgressCalls, Matches, Json, Get, Routes, RequestType, Optional, ProgressSyncPayload,
       Preferences

(* the administrator's, *)
LEMMA ApiAdminMatches == \A c \in DOMAIN AdminCalls : Matches(AdminCalls[c])
BY DEF AdminCalls, Matches, Json, Get, Routes, RequestType, Optional

(* those of the Classic game, *)
LEMMA ApiClassicMatches == \A c \in DOMAIN ClassicCalls : Matches(ClassicCalls[c])
BY DEF ClassicCalls, Matches, Json, Get, Routes, RequestType, Optional, GuessKeys

(* of its trajectory, *)
LEMMA ApiTrajectoryMatches == \A c \in DOMAIN TrajectoryCalls : Matches(TrajectoryCalls[c])
BY DEF TrajectoryCalls, Matches, Json, Get, Routes, RequestType, Optional

(* of Timeline, *)
LEMMA ApiTimelineMatches == \A c \in DOMAIN TimelineCalls : Matches(TimelineCalls[c])
BY DEF TimelineCalls, Matches, Json, Get, Routes, RequestType, Optional

(* of Emoji *)
LEMMA ApiEmojiMatches == \A c \in DOMAIN EmojiCalls : Matches(EmojiCalls[c])
BY DEF EmojiCalls, Matches, Json, Get, Routes, RequestType, Optional, GuessKeys

(* and of Logo. *)
LEMMA ApiLogoMatches == \A c \in DOMAIN LogoCalls : Matches(LogoCalls[c])
BY DEF LogoCalls, Matches, Json, Get, Routes, RequestType, Optional, GuessKeys

(* Every call of the client has a route and a request type that take it. *)
LEMMA ApiCallsRouted == \A c \in DOMAIN Calls : Routed(c)
<1>1. \A c \in DOMAIN UserCalls : Matches(UserCalls[c])
  BY ApiAccountMatches, ApiProgressMatches, ApiAdminMatches DEF UserCalls, Both
<1>2. \A c \in DOMAIN GameCalls : Matches(GameCalls[c])
  BY ApiClassicMatches, ApiTrajectoryMatches, ApiTimelineMatches, ApiEmojiMatches, ApiLogoMatches
  DEF GameCalls, Both
<1> QED BY <1>1, <1>2 DEF Calls, Both, Routed

(* What the client is given is as its module assumes. *)
ASSUME ApiGiven == Api!ApiCallsAssumption

(* A session comes with a token, but for one of before there were tokens. *)
ApiCookies(j) == j.session # None => j.csrf # None \/ j.session = 0

(* The jar has a token with its session, unless the session is older than  *)
(* tokens.                                                                 *)
ApiSession == jar.session # None => jar.csrf # None \/ (legacy /\ jar.session = 0)

(* Whether the answer gives the browser its player. *)
ApiGrants(f) == Kinds[f.call].player /\ f.jar.player = None

(* What an answer may set. *)
ApiSets(f, sets) ==
  /\ "session" \in DOMAIN sets => /\ "csrf" \in DOMAIN sets
                                  /\ sets["session"] # None => sets["csrf"] # None
  /\ "csrf" \in DOMAIN sets /\ "session" \notin DOMAIN sets => sets["csrf"] # None
  /\ "player" \in DOMAIN sets => ApiGrants(f) /\ sets["player"] # None

(* A call under way had a player where it guesses, sent the token of its   *)
(* jar, and found its route; at most one of them is to bring the player's  *)
(* cookie.                                                                 *)
ApiFlight ==
  \A f \in flight :
    /\ ApiCookies(f.jar) /\ ApiSets(f, f.answer.sets) /\ f.answer.status # "unrouted"
    /\ Kinds[f.call].guesses => f.jar.player # None
    /\ Kinds[f.call].writes => f.header = f.jar.csrf

(* One call gives the player, and all is the player's since. *)
ApiPlayer ==
  ~overlap =>
    /\ \A f, g \in flight : ApiGrants(f) /\ ApiGrants(g) => f = g
    /\ jar.player # None => \A f \in flight : ~ApiGrants(f) /\ f.jar.player \in {None, jar.player}
    /\ jar.player = None => played = {} /\ \A f \in flight : f.jar.player = None
    /\ played \subseteq {jar.player}

(* The inductive invariant of the client and the router. *)
ApiInv == Api!TypeOK /\ ApiSession /\ ApiFlight /\ ApiPlayer

(* Every call has a route and a request type that take it: ApiCallsRouted. *)
ApiRouted == \A c \in DOMAIN Kinds : Kinds[c].routed

(* The kinds of calls have the flags they are used with. *)
LEMMA ApiKinds ==
  ASSUME NEW c \in DOMAIN Kinds
  PROVE  /\ Kinds[c].writes \in BOOLEAN /\ Kinds[c].routed \in BOOLEAN /\ Kinds[c].guesses \in BOOLEAN
         /\ Kinds[c].user \in BOOLEAN /\ Kinds[c].player \in BOOLEAN
BY ApiGiven DEF Api!ApiCallsAssumption

(* The fields of a call under way. *)
LEMMA ApiCall ==
  ASSUME Api!TypeOK, NEW f \in flight
  PROVE  \E names \in SUBSET Api!Names :
           /\ f \in Api!Sent(names) /\ f.call \in DOMAIN Kinds /\ f.jar \in Api!Jars /\ f.header \in Api!Ids
           /\ f.answer \in Api!Answers(names) /\ f.answer.sets \in [names -> Api!Ids] /\ f.id \in Nat
BY DEF Api!TypeOK, Api!Sent, Api!Answers

(* The cookies of a jar. *)
LEMMA ApiJar ==
  ASSUME NEW j \in Api!Jars
  PROVE  j.session \in Api!Ids /\ j.csrf \in Api!Ids /\ j.player \in Api!Ids
BY DEF Api!Jars, Api!Names

(* A call that is sent. *)
LEMMA ApiSend ==
  ASSUME ApiInv, NEW c \in DOMAIN Kinds, Api!Send(c)
  PROVE  ApiInv'
<1> DEFINE f == [call |-> c, jar |-> jar, header |-> Api!Header(c), answer |-> Api!NoAnswer, id |-> sent]
<1>0. Api!TypeOK /\ ApiSession /\ ApiFlight /\ ApiPlayer /\ jar \in Api!Jars /\ sent \in Nat
  BY DEF ApiInv, Api!TypeOK
<1>1. /\ sent' = sent + 1
      /\ Kinds[c].guesses => jar.player # None
      /\ flight' = flight \cup {f}
      /\ overlap' = (overlap \/ (/\ Kinds[c].player /\ jar.player = None
                                 /\ \E g \in flight : Kinds[g.call].player /\ g.jar.player = None))
      /\ UNCHANGED <<jar, sessions, played, legacy, nextId>>
  BY DEF Api!Send
<1>2. jar.session \in Api!Ids /\ jar.csrf \in Api!Ids /\ jar.player \in Api!Ids
  BY <1>0, ApiJar
<1>3. /\ f \in Api!Sent({}) /\ f.call = c /\ f.jar = jar /\ f.header = Api!Header(c)
      /\ f.answer.status = None /\ f.answer.sets = Api!Nothing
  <2>1. Api!NoAnswer \in Api!Answers({}) /\ Api!NoAnswer.status = None /\ Api!NoAnswer.sets = Api!Nothing
    BY DEF Api!NoAnswer, Api!Answers, Api!Nothing
  <2>2. Api!Header(c) \in Api!Ids
    BY <1>2 DEF Api!Header, Api!Ids
  <2> QED BY <1>0, <2>1, <2>2 DEF Api!Sent
<1> HIDE DEF f
<1>4. DOMAIN Api!Nothing = {}
  BY DEF Api!Nothing
<1>5. Api!TypeOK'
  <2>1. \A g \in flight' : \E names \in SUBSET Api!Names : g \in Api!Sent(names)
    BY <1>0, <1>1, <1>3 DEF Api!TypeOK
  <2>2. overlap' \in BOOLEAN
    BY <1>0, <1>1 DEF Api!TypeOK
  <2> QED BY <1>0, <1>1, <2>1, <2>2 DEF Api!TypeOK
<1>6. ApiFlight'
  <2>1. ApiCookies(jar)
    BY <1>0 DEF ApiSession, ApiCookies
  <2>2. ApiSets(f, Api!Nothing)
    BY <1>4 DEF ApiSets
  <2>3. None # "unrouted"
    BY ApiGiven DEF Api!ApiCallsAssumption, Api!Statuses
  <2>4. Kinds[c].writes => f.header = jar.csrf
    BY <1>3 DEF Api!Header
  <2> QED BY <1>0, <1>1, <1>3, <2>1, <2>2, <2>3, <2>4 DEF ApiFlight
<1>7. ApiPlayer'
  <2> SUFFICES ASSUME ~overlap' PROVE ApiPlayer'
    BY DEF ApiPlayer
  <2>1. ~overlap /\ (ApiGrants(f) => \A g \in flight : ~ApiGrants(g))
    BY <1>0, <1>1, <1>3 DEF ApiGrants, Api!TypeOK
  <2>2. \A g, h \in flight' : ApiGrants(g) /\ ApiGrants(h) => g = h
    BY <1>0, <1>1, <2>1 DEF ApiPlayer
  <2>3. jar.player # None => ~ApiGrants(f)
    BY <1>3 DEF ApiGrants
  <2> QED BY <1>0, <1>1, <1>3, <2>1, <2>2, <2>3 DEF ApiPlayer
<1>8. ApiSession'
  BY <1>0, <1>1 DEF ApiSession
<1> QED BY <1>5, <1>6, <1>7, <1>8 DEF ApiInv

(* What the server answers. *)
LEMMA ApiAnswer ==
  ASSUME Api!TypeOK, ApiFlight, ApiRouted, NEW f \in flight
  PROVE  /\ \E names \in SUBSET Api!Names : Api!Answer(f) \in Api!Answers(names)
         /\ Api!Answer(f).status # "unrouted" /\ ApiSets(f, Api!Answer(f).sets)
<1> DEFINE given == Api!PlayerCookie(f)
           taken == IF Api!Status(f) = "ok" THEN Api!AuthCookies(f) ELSE Api!Nothing
           sets == Api!Over(given, taken)
<1>1. f.call \in DOMAIN Kinds /\ nextId \in Nat
  BY ApiCall DEF Api!TypeOK
<1>n. nextId \in Api!Ids /\ nextId # None /\ None \in Api!Ids
  BY <1>1, ApiGiven DEF Api!ApiCallsAssumption, Api!Ids
<1>2. Api!Status(f) \in Api!Statuses /\ Api!Status(f) # "unrouted"
  BY <1>1 DEF Api!Status, Api!Statuses, ApiRouted
<1>3. \/ given = [player |-> nextId] /\ ApiGrants(f)
      \/ given = Api!Nothing
  BY DEF Api!PlayerCookie, ApiGrants
<1>4. \/ taken = [session |-> nextId, csrf |-> nextId]
      \/ taken = [session |-> None, csrf |-> None]
      \/ taken = [csrf |-> nextId]
      \/ taken = Api!Nothing
  BY DEF Api!AuthCookies
<1> HIDE DEF given, taken
<1>5. DOMAIN sets = DOMAIN given \cup DOMAIN taken
      /\ \A called \in DOMAIN sets : sets[called] = IF called \in DOMAIN given THEN given[called] ELSE taken[called]
  BY DEF Api!Over
<1>6. DOMAIN Api!Nothing = {}
  BY DEF Api!Nothing
<1>7. /\ DOMAIN given \subseteq {"player"} /\ \A called \in DOMAIN given : given[called] = nextId
      /\ "player" \in DOMAIN given => ApiGrants(f)
  BY <1>3, <1>6
<1>8. /\ DOMAIN taken \subseteq {"session", "csrf"} /\ \A called \in DOMAIN taken : taken[called] \in {nextId, None}
      /\ "session" \in DOMAIN taken => "csrf" \in DOMAIN taken /\ taken["session"] = taken["csrf"]
      /\ "csrf" \in DOMAIN taken /\ "session" \notin DOMAIN taken => taken["csrf"] = nextId
  BY <1>4, <1>6
<1>9. sets \in [DOMAIN sets -> Api!Ids] /\ DOMAIN sets \in SUBSET Api!Names
  <2>1. sets = [called \in DOMAIN given \cup DOMAIN taken |->
                  IF called \in DOMAIN given THEN given[called] ELSE taken[called]]
    BY DEF Api!Over
  <2>2. \A called \in DOMAIN given \cup DOMAIN taken :
          (IF called \in DOMAIN given THEN given[called] ELSE taken[called]) \in Api!Ids
    BY <1>n, <1>7, <1>8
  <2>3. DOMAIN given \cup DOMAIN taken \subseteq Api!Names
    BY <1>7, <1>8 DEF Api!Names
  <2> HIDE DEF sets
  <2> QED BY <2>1, <2>2, <2>3
<1>10. ApiSets(f, sets)
  <2> HIDE DEF sets
  <2> QED BY <1>n, <1>5, <1>7, <1>8 DEF ApiSets
<1>11. Api!Answer(f) = [status |-> Api!Status(f), sets |-> sets]
  BY DEF Api!Answer, given, taken
<1> HIDE DEF sets
<1>12. Api!Answer(f) \in Api!Answers(DOMAIN sets) /\ Api!Answer(f).status = Api!Status(f) /\ Api!Answer(f).sets = sets
  BY <1>2, <1>9, <1>11 DEF Api!Answers
<1> QED BY <1>2, <1>9, <1>10, <1>12

(* A call that the server handles. *)
LEMMA ApiHandle ==
  ASSUME ApiInv, ApiRouted, NEW f \in flight, Api!Handle(f)
  PROVE  ApiInv'
<1> DEFINE g == [f EXCEPT !.answer = Api!Answer(f)]
<1>0. Api!TypeOK /\ ApiSession /\ ApiFlight /\ ApiPlayer
  BY DEF ApiInv
<1>1. /\ flight' = (flight \ {f}) \cup {g}
      /\ nextId' \in {nextId, nextId + 1}
      /\ sessions' \subseteq sessions \cup {nextId}
      /\ \/ played' = played
         \/ Kinds[f.call].guesses /\ played' = played \cup {Api!PlayerOf(f)}
      /\ UNCHANGED <<jar, legacy, sent, overlap>>
  BY DEF Api!Handle
<1>2. PICK names \in SUBSET Api!Names : Api!Answer(f) \in Api!Answers(names)
  BY <1>0, ApiAnswer
<1>3. /\ f.call \in DOMAIN Kinds /\ f.jar \in Api!Jars /\ f.header \in Api!Ids /\ f.id \in Nat
      /\ \E old \in SUBSET Api!Names : f \in Api!Sent(old)
  BY <1>0, ApiCall
<1>4. /\ g \in Api!Sent(names) /\ g.call = f.call /\ g.jar = f.jar /\ g.header = f.header
      /\ g.answer = Api!Answer(f)
  BY <1>2, <1>3 DEF Api!Sent
<1> HIDE DEF g
<1>5. nextId \in Nat
  BY <1>0 DEF Api!TypeOK
<1>6. Kinds[f.call].guesses => Api!PlayerOf(f) = f.jar.player /\ f.jar.player # None
  BY <1>0 DEF ApiFlight, Api!PlayerOf
<1>7. f.jar.player \in Api!Ids
  BY <1>3, ApiJar
<1>8. Api!TypeOK'
  <2>1. \A h \in flight' : \E ns \in SUBSET Api!Names : h \in Api!Sent(ns)
    BY <1>0, <1>1, <1>4 DEF Api!TypeOK
  <2>2. played' \subseteq Api!Ids /\ sessions' \subseteq Nat /\ nextId' \in Nat
    BY <1>0, <1>1, <1>5, <1>6, <1>7 DEF Api!TypeOK
  <2> QED BY <1>0, <1>1, <2>1, <2>2 DEF Api!TypeOK
<1>9. ApiFlight'
  <2>1. Api!Answer(f).status # "unrouted" /\ ApiSets(f, Api!Answer(f).sets)
    BY <1>0, ApiAnswer
  <2>2. ApiSets(g, Api!Answer(f).sets)
    BY <1>4, <2>1 DEF ApiSets, ApiGrants
  <2> QED BY <1>0, <1>1, <1>4, <2>1, <2>2 DEF ApiFlight
<1>10. ApiPlayer'
  <2> SUFFICES ASSUME ~overlap PROVE ApiPlayer'
    BY <1>1 DEF ApiPlayer
  <2>1. ApiGrants(g) <=> ApiGrants(f)
    BY <1>4 DEF ApiGrants
  <2>2. \A h, i \in flight' : ApiGrants(h) /\ ApiGrants(i) => h = i
    BY <1>0, <1>1, <2>1 DEF ApiPlayer
  <2>3. jar.player # None => \A h \in flight' : ~ApiGrants(h) /\ h.jar.player \in {None, jar.player}
    BY <1>0, <1>1, <1>4, <2>1 DEF ApiPlayer
  <2>4. jar.player = None => ~Kinds[f.call].guesses
    BY <1>0, <1>6 DEF ApiPlayer
  <2>5. jar.player = None => played' = {} /\ \A h \in flight' : h.jar.player = None
    BY <1>0, <1>1, <1>4, <2>4 DEF ApiPlayer
  <2>6. Kinds[f.call].guesses => f.jar.player = jar.player
    BY <1>0, <1>6, <2>4 DEF ApiPlayer
  <2>7. played' \subseteq {jar.player}
    BY <1>0, <1>1, <1>6, <2>6 DEF ApiPlayer
  <2> QED BY <1>1, <2>2, <2>3, <2>5, <2>7 DEF ApiPlayer
<1>11. ApiSession'
  BY <1>0, <1>1 DEF ApiSession
<1> QED BY <1>8, <1>9, <1>10, <1>11 DEF ApiInv

(* An answer that arrives, with its cookies. *)
LEMMA ApiArrive ==
  ASSUME ApiInv, NEW f \in flight, Api!Arrive(f)
  PROVE  ApiInv'
<1> DEFINE sets == f.answer.sets
<1>0. Api!TypeOK /\ ApiSession /\ ApiFlight /\ ApiPlayer /\ jar \in Api!Jars
  BY DEF ApiInv, Api!TypeOK
<1>1. /\ flight' = flight \ {f} /\ jar' = Api!Over(sets, jar)
      /\ legacy' = (legacy /\ "csrf" \notin DOMAIN sets)
      /\ UNCHANGED <<sessions, played, nextId, sent, overlap>>
  BY DEF Api!Arrive
<1>2. PICK names \in SUBSET Api!Names : sets \in [names -> Api!Ids]
  BY <1>0, ApiCall
<1>3. ApiSets(f, sets)
  BY <1>0 DEF ApiFlight
<1> HIDE DEF sets
<1>4. DOMAIN jar = Api!Names /\ DOMAIN sets = names /\ \A k \in names : sets[k] \in Api!Ids
  BY <1>0, <1>2 DEF Api!Jars
<1>5. jar' = [k \in Api!Names |-> IF k \in names THEN sets[k] ELSE jar[k]]
  <2>1. names \cup Api!Names = Api!Names
    OBVIOUS
  <2> QED BY <1>1, <1>4, <2>1 DEF Api!Over
<1>6. jar' \in Api!Jars
  BY <1>0, <1>4, <1>5 DEF Api!Jars
<1>7. /\ jar'.session = IF "session" \in names THEN sets["session"] ELSE jar.session
      /\ jar'.csrf = IF "csrf" \in names THEN sets["csrf"] ELSE jar.csrf
      /\ jar'.player = IF "player" \in names THEN sets["player"] ELSE jar.player
  BY <1>5 DEF Api!Names
<1>8. Api!TypeOK'
  <2>1. legacy' \in BOOLEAN /\ \A g \in flight' : g \in flight
    BY <1>0, <1>1 DEF Api!TypeOK
  <2> QED BY <1>0, <1>1, <1>6, <2>1 DEF Api!TypeOK
<1>9. ApiSession'
  BY <1>0, <1>1, <1>3, <1>4, <1>7 DEF ApiSession, ApiSets
<1>10. ApiFlight'
  BY <1>0, <1>1 DEF ApiFlight
<1>11. ApiPlayer'
  <2> SUFFICES ASSUME ~overlap PROVE ApiPlayer'
    BY <1>1 DEF ApiPlayer
  <2>1. \A g, h \in flight' : ApiGrants(g) /\ ApiGrants(h) => g = h
    BY <1>0, <1>1 DEF ApiPlayer
  <2>2. CASE "player" \in names
    <3>1. ApiGrants(f) /\ jar'.player # None /\ jar.player = None
      BY <1>0, <1>3, <1>4, <1>7, <2>2 DEF ApiSets, ApiPlayer
    <3>2. \A g \in flight' : ~ApiGrants(g) /\ g.jar.player = None
      BY <1>0, <1>1, <3>1 DEF ApiPlayer
    <3>3. played' = {}
      BY <1>0, <1>1, <3>1 DEF ApiPlayer
    <3> QED BY <2>1, <3>1, <3>2, <3>3 DEF ApiPlayer
  <2>3. CASE "player" \notin names
    <3>1. jar'.player = jar.player
      BY <1>7, <2>3
    <3> QED BY <1>0, <1>1, <2>1, <3>1 DEF ApiPlayer
  <2> QED BY <2>2, <2>3
<1> QED BY <1>8, <1>9, <1>10, <1>11 DEF ApiInv

(* Every step keeps the invariant. *)
LEMMA ApiStep == ApiRouted /\ ApiInv /\ [Api!Next]_(Api!vars) => ApiInv'
<1> SUFFICES ASSUME ApiRouted, ApiInv, [Api!Next]_(Api!vars) PROVE ApiInv'
  OBVIOUS
<1>1. ASSUME NEW c \in DOMAIN Kinds, Api!Send(c) PROVE ApiInv'
  BY <1>1, ApiSend
<1>2. ASSUME NEW f \in flight, Api!Handle(f) PROVE ApiInv'
  BY <1>2, ApiHandle
<1>3. ASSUME NEW f \in flight, Api!Arrive(f) PROVE ApiInv'
  BY <1>3, ApiArrive
<1>4. CASE \/ \E f \in flight : Api!Lost(f)
           \/ \E s \in sessions : Api!Expires(s)
           \/ UNCHANGED Api!vars
  <2>1. /\ flight' \subseteq flight /\ sessions' \subseteq sessions
        /\ UNCHANGED <<jar, played, legacy, nextId, sent, overlap>>
    BY <1>4 DEF Api!Lost, Api!Expires, Api!vars
  <2>2. Api!TypeOK'
    BY <2>1 DEF ApiInv, Api!TypeOK
  <2>3. ApiSession' /\ ApiFlight'
    BY <2>1 DEF ApiInv, ApiSession, ApiFlight
  <2>4. ApiPlayer'
    BY <2>1 DEF ApiInv, ApiPlayer
  <2> QED BY <2>2, <2>3, <2>4 DEF ApiInv
<1> QED BY <1>1, <1>2, <1>3, <1>4 DEF Api!Next

(* Initially. *)
LEMMA ApiInit == Api!Init => ApiInv
<1> SUFFICES ASSUME Api!Init PROVE ApiInv
  OBVIOUS
<1>1. /\ legacy \in BOOLEAN
      /\ jar = [session |-> IF legacy THEN 0 ELSE None, csrf |-> None, player |-> None]
      /\ sessions = IF legacy THEN {0} ELSE {}
      /\ flight = {} /\ played = {} /\ nextId = 1 /\ sent = 0 /\ overlap = FALSE
  BY DEF Api!Init
<1>2. jar \in Api!Jars
  BY <1>1 DEF Api!Jars, Api!Names, Api!Ids
<1>2a. sessions \subseteq Nat
  <2>1. 0 \in Nat
    OBVIOUS
  <2>2. CASE legacy
    BY <2>1, <2>2, <1>1
  <2>3. CASE ~legacy
    BY <2>3, <1>1
  <2> QED BY <2>2, <2>3
<1>2b. played \subseteq Api!Ids /\ overlap \in BOOLEAN
  BY <1>1, Zenon
<1>2c. nextId \in Nat /\ sent \in Nat
  BY <1>1
<1>3. sessions \subseteq Nat /\ played \subseteq Api!Ids /\ nextId \in Nat /\ sent \in Nat /\ overlap \in BOOLEAN
  BY <1>2a, <1>2b, <1>2c
<1>4. Api!TypeOK
  BY <1>1, <1>2, <1>3 DEF Api!TypeOK
<1> QED BY <1>1, <1>4 DEF ApiInv, ApiSession, ApiFlight, ApiPlayer

(* What the invariant says of the properties. *)
LEMMA ApiShows == ApiInv => Api!TypeOK /\ Api!CallsPass /\ Api!OnePlayer
<1> SUFFICES ASSUME ApiInv PROVE Api!TypeOK /\ Api!CallsPass /\ Api!OnePlayer
  OBVIOUS
<1>0. Api!TypeOK /\ ApiSession /\ ApiFlight /\ ApiPlayer
  BY DEF ApiInv
<1>1. Api!OnePlayer
  BY <1>0 DEF ApiPlayer, Api!OnePlayer
<1>2. ASSUME NEW f \in flight, Api!SignedIn(f), ~Api!TokenHolds(f), Kinds[f.call].writes PROVE f.jar.session = 0
  <2>1. f.jar.session # None
    BY <1>0, <1>2, ApiGiven DEF Api!SignedIn, Api!TypeOK, Api!ApiCallsAssumption
  <2>2. f.jar.csrf = None
    BY <1>0, <1>2 DEF Api!TokenHolds, ApiFlight
  <2> QED BY <1>0, <2>1, <2>2 DEF ApiFlight, ApiCookies
<1>3. Api!CallsPass
  BY <1>0, <1>2 DEF Api!CallsPass, ApiFlight, ApiSession
<1> QED BY <1>0, <1>1, <1>3

(* Every call finds its handler and, signed in, has the token that the     *)
(* handler asks for; the guesses a browser makes signed out are one        *)
(* player's when its first game call was answered before its second was    *)
(* sent.                                                                   *)
THEOREM ApiAlways == Api!Spec => [](Api!TypeOK /\ Api!CallsPass /\ Api!OnePlayer)
<1>1. ApiRouted
  BY ApiCallsRouted DEF ApiRouted, Kinds
<1>2. ApiInv /\ [Api!Next]_(Api!vars) => ApiInv'
  BY <1>1, ApiStep
<1> QED BY <1>2, ApiInit, ApiShows, PTL DEF Api!Spec

-----------------------------------------------------------------------------
(* The two engines of clues. *)
Engines == INSTANCE ClueEngines WITH
  Values <- EngineValues, Normal <- EngineNormal, ServerNormal <- EngineServerNormal,
  Sizes <- EngineSizes, Dates <- EngineDates, Lists <- EngineLists

(* What the engines is given is as its module assumes. *)
ASSUME EnginesGiven == Engines!ClueEnginesAssumption

(* The kinds of columns. *)
EngineKinds == {"scalar", "boolean", "toolUse", "number", "release", "set"}

(* What Columns says of a column: only lists are looked up along more than *)
(* one of the details, and only a list can lack its key.                   *)
EngineColumn(col) ==
  /\ col.name \in DOMAIN Engines!Columns
  /\ col.kind \in EngineKinds
  /\ Len(col.chain) \in 1..4
  /\ col.kind # "set" => Len(col.chain) = 1 /\ col.name # "architecture"

(* Columns says of each column what EngineColumn asks. *)
LEMMA EngineColumns ==
  ASSUME NEW c \in DOMAIN Engines!Columns
  PROVE  /\ Engines!Columns[c].kind \in EngineKinds
         /\ Len(Engines!Columns[c].chain) \in 1..4
         /\ Engines!Columns[c].kind # "set" => Len(Engines!Columns[c].chain) = 1 /\ c # "architecture"
  BY DEF Engines!Columns, Engines!Col, Engines!General, EngineKinds, Engines!LM, Engines!CV,
         Engines!OD, Engines!ML

(* A guess has the clues that each engine gives it. *)
EnginesGuess(g) ==
  /\ g.guess \in Engines!Model(column) /\ g.answer \in Engines!Model(column)
  /\ g.browser = Engines!Compare(column.kind, Engines!Attribute(g.guess), Engines!Attribute(g.answer))
  /\ g.server = Engines!ServerCompare(column.kind, Engines!ServerAttribute(g.guess), Engines!ServerAttribute(g.answer))

(* The inductive invariant of the two engines. *)
EnginesInv ==
  /\ column # None => EngineColumn(column)
  /\ clue # None => column # None /\ EnginesGuess(clue)

(* Every step keeps the invariant. *)
LEMMA EnginesSteps == EnginesInv /\ [Engines!Next]_(Engines!vars) => EnginesInv'
<1> SUFFICES ASSUME EnginesInv, [Engines!Next]_(Engines!vars) PROVE EnginesInv'
  OBVIOUS
<1>1. ASSUME NEW c \in DOMAIN Engines!Columns, Engines!ChooseColumn(c) PROVE EnginesInv'
  <2>1. EngineColumn(column')
    BY <1>1, EngineColumns DEF Engines!ChooseColumn, EngineColumn
  <2>2. clue = None /\ clue' = None
    BY <1>1 DEF Engines!ChooseColumn, EnginesInv
  <2> QED BY <2>1, <2>2 DEF EnginesInv, EngineColumn
<1>2. ASSUME column # None, clue = None, NEW g \in Engines!Model(column), NEW a \in Engines!Model(column), Engines!Guess(g, a)
      PROVE  EnginesInv'
  <2>1. column' = column
    BY <1>2 DEF Engines!Guess
  <2>2. EnginesGuess(clue')
    BY <1>2 DEF Engines!Guess, EnginesGuess
  <2>3. EnginesGuess(clue)'
    BY <2>1, <2>2 DEF EnginesGuess
  <2> QED BY <1>2, <2>1, <2>3 DEF EnginesInv
<1>3. CASE UNCHANGED Engines!vars
  BY <1>3 DEF Engines!vars, EnginesInv, EnginesGuess
<1> QED BY <1>1, <1>2, <1>3 DEF Engines!Next

(* The first detail that says something is one of the details. *)
LEMMA EnginesFirst ==
  ASSUME NEW n \in 1..4, NEW cell, DOMAIN cell = 1..n, NEW skipped
  PROVE  /\ Engines!FirstOf(cell, skipped) = None
            \/ \E i \in 1..n : Engines!FirstOf(cell, skipped) = cell[i] /\ cell[i] \notin skipped
         /\ n = 1 => Engines!FirstOf(cell, skipped) = IF cell[1] \in skipped THEN None ELSE cell[1]
<1> DEFINE said == {i \in DOMAIN cell : cell[i] \notin skipped}
<1>1. Engines!FirstOf(cell, skipped) = IF said = {} THEN None ELSE cell[Engines!Min(said)]
  BY DEF Engines!FirstOf
<1>2. said # {} => Engines!Min(said) \in said
  <2> SUFFICES ASSUME said # {} PROVE Engines!Min(said) \in said
    OBVIOUS
  <2>1. said \subseteq 1..4
    OBVIOUS
  <2> HIDE DEF said
  <2>2. \E x \in said : \A y \in said : x =< y
    <3>1. CASE 1 \in said
      BY <2>1, <3>1
    <3>2. CASE 1 \notin said /\ 2 \in said
      BY <2>1, <3>2
    <3>3. CASE 1 \notin said /\ 2 \notin said /\ 3 \in said
      BY <2>1, <3>3
    <3>4. CASE 1 \notin said /\ 2 \notin said /\ 3 \notin said
      <4>1. \A x \in said : x = 4
        BY <2>1, <3>4
      <4> QED BY <4>1
    <3> QED BY <3>1, <3>2, <3>3, <3>4
  <2> QED BY <2>2 DEF Engines!Min
<1>3. n = 1 => (said = IF cell[1] \in skipped THEN {} ELSE {1})
  OBVIOUS
<1> QED BY <1>1, <1>2, <1>3

(* What is compared, by the kind of the column. *)
EngineSays(kind) ==
  CASE kind = "scalar" -> EngineValues
    [] kind \in {"boolean", "toolUse"} -> BOOLEAN
    [] kind = "number" -> EngineSizes
    [] kind = "release" -> EngineDates
    [] kind = "set" -> SUBSET EngineValues

(* What a cell says is of its column's kind. *)
LEMMA EnginesCells ==
  ASSUME NEW col, EngineColumn(col), NEW cell \in Engines!Model(col), NEW i \in 1..Len(col.chain)
  PROVE  /\ DOMAIN cell = 1..Len(col.chain)
         /\ cell[i] \in EngineSays(col.kind) \cup Engines!Unsaid
         /\ col.kind # "set" => cell[i] # Missing
         /\ col.kind = "set" => cell[i] # None
<1>1. DOMAIN cell = 1..Len(col.chain) /\ cell[i] \in Engines!Cells(col, i)
  BY DEF Engines!Model
<1>2. \/ cell[i] \in Engines!Said(col.kind, Len(col.chain))
      \/ cell[i] = Absent
      \/ cell[i] = Missing /\ col.name = "architecture"
  BY <1>1 DEF Engines!Cells
<1>3. ASSUME cell[i] \in Engines!Said(col.kind, Len(col.chain))
      PROVE  /\ cell[i] \in EngineSays(col.kind) \cup {None}
             /\ col.kind # "set" => cell[i] # Missing
             /\ col.kind = "set" => cell[i] # None
  <2>0. col.kind \in EngineKinds /\ Len(col.chain) \in 1..4
    BY DEF EngineColumn
  <2>1. CASE col.kind = "scalar"
    BY <1>3, <2>1, EnginesGiven DEF Engines!Said, EngineSays, Engines!ClueEnginesAssumption,
                                    Engines!Unsaid
  <2>2. CASE col.kind \in {"boolean", "toolUse"}
    <3>1. Engines!Said(col.kind, Len(col.chain)) = BOOLEAN \cup {None} /\ EngineSays(col.kind) = BOOLEAN
      BY <2>2 DEF Engines!Said, EngineSays
    <3>2. Missing \notin BOOLEAN /\ None # Missing
      BY EnginesGiven DEF Engines!ClueEnginesAssumption, Engines!Unsaid
    <3> QED BY <1>3, <2>2, <3>1, <3>2, Zenon
  <2>3. CASE col.kind = "number"
    BY <1>3, <2>3, EnginesGiven DEF Engines!Said, EngineSays, Engines!ClueEnginesAssumption,
                                    Engines!Unsaid
  <2>4. CASE col.kind = "release"
    BY <1>3, <2>4, EnginesGiven DEF Engines!Said, EngineSays, Engines!ClueEnginesAssumption,
                                    Engines!Unsaid
  <2>5. CASE col.kind = "set"
    BY <1>3, <2>0, <2>5, EnginesGiven DEF Engines!Said, EngineSays, Engines!ClueEnginesAssumption,
                                          Engines!Unsaid
  <2> QED BY <2>0, <2>1, <2>2, <2>3, <2>4, <2>5 DEF EngineKinds
<1>4. None # Absent /\ None # Missing /\ Absent # Missing
  BY EnginesGiven DEF Engines!ClueEnginesAssumption
<1> QED BY <1>1, <1>2, <1>3, <1>4 DEF EngineColumn, Engines!Unsaid

(* Where only one of the details is looked up, both engines find the same. *)
LEMMA EnginesSame ==
  ASSUME NEW col, EngineColumn(col), col.kind # "set", NEW cell \in Engines!Model(col)
  PROVE  /\ Engines!ServerAttribute(cell) = Engines!Attribute(cell)
         /\ Engines!Attribute(cell) = IF cell[1] \in {Absent, None} THEN None ELSE cell[1]
         /\ Engines!Attribute(cell) \in EngineSays(col.kind) \cup {None}
<1>1. Len(col.chain) = 1 /\ DOMAIN cell = 1..1 /\ cell[1] # Missing
      /\ cell[1] \in EngineSays(col.kind) \cup Engines!Unsaid
  BY EnginesCells DEF EngineColumn
<1>2. Engines!Attribute(cell) = IF cell[1] \in {Absent, Missing, None} THEN None ELSE cell[1]
  BY <1>1, EnginesFirst DEF Engines!Attribute
<1>3. Engines!FirstOf(cell, {Absent}) = IF cell[1] \in {Absent} THEN None ELSE cell[1]
  BY <1>1, EnginesFirst
<1>4. None # Missing
  BY EnginesGiven DEF Engines!ClueEnginesAssumption
<1>5. Engines!ServerAttribute(cell) = Engines!FirstOf(cell, {Absent})
  BY <1>1, <1>3, <1>4 DEF Engines!ServerAttribute
<1> QED BY <1>1, <1>2, <1>3, <1>5 DEF Engines!Unsaid

(* A list, to either engine, has values of lists. *)
LEMMA EnginesLists ==
  ASSUME NEW col, EngineColumn(col), col.kind = "set", NEW cell \in Engines!Model(col)
  PROVE  /\ Engines!Attribute(cell) \in (SUBSET EngineValues) \cup {None}
         /\ Engines!ServerAttribute(cell) \in (SUBSET EngineValues) \cup {None}
<1>1. /\ Len(col.chain) \in 1..4 /\ DOMAIN cell = 1..Len(col.chain)
      /\ \A i \in 1..Len(col.chain) : cell[i] \in (SUBSET EngineValues) \cup Engines!Unsaid /\ cell[i] # None
  <2>1. Len(col.chain) \in 1..4 /\ EngineSays(col.kind) = SUBSET EngineValues
    BY DEF EngineColumn, EngineSays
  <2>2. ASSUME NEW i \in 1..Len(col.chain)
        PROVE  cell[i] \in (SUBSET EngineValues) \cup Engines!Unsaid /\ cell[i] # None
    BY <2>1, EnginesCells
  <2>3. DOMAIN cell = 1..Len(col.chain)
    BY DEF Engines!Model
  <2> QED BY <2>1, <2>2, <2>3
<1>2. Engines!Attribute(cell) \in (SUBSET EngineValues) \cup {None}
  BY <1>1, EnginesFirst DEF Engines!Attribute, Engines!Unsaid
<1>3. Engines!FirstOf(cell, {Absent}) \in (SUBSET EngineValues) \cup {None, Missing}
  BY <1>1, EnginesFirst DEF Engines!Unsaid
<1> QED BY <1>2, <1>3 DEF Engines!ServerAttribute

(* The clues there are. *)
Verdicts == {"correct", "partial", "incorrect", "higher", "lower", "unknown"}

(* Either engine gives one of these clues. *)
LEMMA EnginesVerdicts ==
  ASSUME NEW kind \in EngineKinds, NEW a, NEW b
  PROVE  Engines!Compare(kind, a, b) \in Verdicts /\ Engines!ServerCompare(kind, a, b) \in Verdicts
<1>1. Engines!CompareScalar(a, b) \in Verdicts /\ Engines!ServerScalar(a, b) \in Verdicts
  BY DEF Engines!CompareScalar, Engines!ServerScalar, Engines!Neither, Verdicts
<1>2. Engines!CompareNullableBoolean(a, b) \in Verdicts /\ Engines!CompareToolUse(a, b) \in Verdicts
  BY DEF Engines!CompareNullableBoolean, Engines!CompareToolUse, Engines!Neither, Verdicts
<1>3. Engines!CompareSets(a, b) \in Verdicts /\ Engines!ServerSets(a, b) \in Verdicts
  BY DEF Engines!CompareSets, Engines!ServerSets, Engines!Neither, Verdicts
<1>4. \A x, y : Engines!CompareNumber(x, y) \in Verdicts
  BY DEF Engines!CompareNumber, Engines!Neither, Verdicts
<1> QED BY <1>1, <1>2, <1>3, <1>4 DEF Engines!Compare, Engines!ServerCompare, EngineKinds

(* Two lists that both engines find, and normalise alike. *)
LEMMA EnginesFull ==
  ASSUME NEW a \in SUBSET EngineValues, NEW b \in SUBSET EngineValues, a \notin {None, {}}, b \notin {None, {}},
         \A v \in a \cup b : EngineNormal[v] = EngineServerNormal[v]
  PROVE  Engines!CompareSets(a, b) = Engines!ServerSets(a, b)
<1>1. \A c \in SUBSET (a \cup b) : Engines!NormalizedAll(c) = Engines!ServerNormalizedAll(c)
  BY DEF Engines!NormalizedAll, Engines!ServerNormalizedAll
<1>2. /\ Engines!NormalizedAll(a) = Engines!ServerNormalizedAll(a) /\ Engines!NormalizedAll(b) = Engines!ServerNormalizedAll(b)
      /\ Engines!NormalizedAll(a \cup b) = Engines!ServerNormalizedAll(a \cup b)
  BY <1>1
<1> QED BY <1>2 DEF Engines!CompareSets, Engines!ServerSets, Engines!Empty

(* Two lists that both engines read alike, if they are lists. *)
LEMMA EnginesSets ==
  ASSUME NEW a \in (SUBSET EngineValues) \cup {None}, NEW b \in (SUBSET EngineValues) \cup {None},
         {a, b} # {None, {}},
         \A c \in {a, b} : c # None => \A v \in c : EngineNormal[v] = EngineServerNormal[v]
  PROVE  Engines!CompareSets(a, b) = Engines!ServerSets(a, b)
<1>1. CASE a \notin {None, {}} /\ b \notin {None, {}}
  <2>1. \A v \in a \cup b : EngineNormal[v] = EngineServerNormal[v]
    BY <1>1
  <2> QED BY <1>1, <2>1, EnginesFull
<1>2. CASE a \in {None, {}} \/ b \in {None, {}}
  <2>1. a \in {None, {}} /\ b \in {None, {}} => a = b
    OBVIOUS
  <2> QED BY <1>2, <2>1 DEF Engines!CompareSets, Engines!ServerSets, Engines!Empty, Engines!Neither
<1> QED BY <1>1, <1>2

(* The engines agree: kind by kind. *)
LEMMA EnginesAlike == EnginesInv => Engines!EnginesAgree
<1> SUFFICES ASSUME EnginesInv, clue # None,
                    ~Engines!KnownDifference(column.kind, clue.guess, clue.answer)
             PROVE  clue.server = clue.browser
  BY DEF Engines!EnginesAgree
<1> DEFINE g == clue.guess
           a == clue.answer
<1>1. /\ EngineColumn(column) /\ g \in Engines!Model(column) /\ a \in Engines!Model(column)
      /\ ~Engines!ReadDifferently(column.kind, g) /\ ~Engines!ReadDifferently(column.kind, a)
      /\ column.kind = "set" => {Engines!Attribute(g), Engines!Attribute(a)} # {None, {}}
      /\ clue.browser = Engines!Compare(column.kind, Engines!Attribute(g), Engines!Attribute(a))
      /\ clue.server = Engines!ServerCompare(column.kind, Engines!ServerAttribute(g), Engines!ServerAttribute(a))
  BY DEF EnginesInv, EnginesGuess, Engines!KnownDifference
<1>2. column.kind \in EngineKinds
  BY <1>1 DEF EngineColumn
<1> HIDE DEF g, a
<1>3. CASE column.kind \in {"boolean", "toolUse", "number"}
  <2>1. Engines!ServerAttribute(g) = Engines!Attribute(g) /\ Engines!ServerAttribute(a) = Engines!Attribute(a)
    BY <1>1, <1>3, EnginesSame
  <2> QED BY <1>1, <1>3, <2>1 DEF Engines!Compare, Engines!ServerCompare
<1>4. CASE column.kind = "release"
  <2>1. ASSUME NEW c \in Engines!Model(column), ~Engines!ReadDifferently(column.kind, c)
        PROVE  /\ Engines!ServerAttribute(c) = Engines!Attribute(c)
               /\ Engines!ServerQuarter(Engines!Attribute(c)) = Engines!ReleaseQuarter(Engines!Attribute(c))
    <3>1. /\ Engines!ServerAttribute(c) = Engines!Attribute(c)
          /\ Engines!Attribute(c) = IF c[1] \in {Absent, None} THEN None ELSE c[1]
      BY <1>1, <1>4, EnginesSame
    <3>2. c[1] # None => c[1].month # 0
      BY <1>4, <2>1 DEF Engines!ReadDifferently
    <3> QED BY <3>1, <3>2 DEF Engines!ServerQuarter, Engines!ReleaseQuarter
  <2>2. /\ Engines!ServerAttribute(g) = Engines!Attribute(g) /\ Engines!ServerAttribute(a) = Engines!Attribute(a)
        /\ Engines!ServerQuarter(Engines!Attribute(g)) = Engines!ReleaseQuarter(Engines!Attribute(g))
        /\ Engines!ServerQuarter(Engines!Attribute(a)) = Engines!ReleaseQuarter(Engines!Attribute(a))
    BY <1>1, <2>1
  <2> QED BY <1>1, <1>4, <2>2 DEF Engines!Compare, Engines!ServerCompare
<1>5. CASE column.kind = "scalar"
  <2>1. ASSUME NEW c \in Engines!Model(column), ~Engines!ReadDifferently(column.kind, c)
        PROVE  /\ Engines!ServerAttribute(c) = Engines!Attribute(c)
               /\ Engines!Attribute(c) = None \/ EngineNormal[Engines!Attribute(c)] = EngineServerNormal[Engines!Attribute(c)]
    <3>1. /\ Engines!ServerAttribute(c) = Engines!Attribute(c)
          /\ Engines!Attribute(c) = IF c[1] \in {Absent, None} THEN None ELSE c[1]
          /\ Engines!Attribute(c) \in EngineValues \cup {None}
      BY <1>1, <1>5, EnginesSame DEF EngineSays
    <3>2. c[1] \in EngineValues => EngineNormal[c[1]] = EngineServerNormal[c[1]]
      BY <1>5, <2>1 DEF Engines!ReadDifferently
    <3> QED BY <3>1, <3>2
  <2>2. /\ Engines!ServerAttribute(g) = Engines!Attribute(g) /\ Engines!ServerAttribute(a) = Engines!Attribute(a)
        /\ Engines!Attribute(g) = None \/ EngineNormal[Engines!Attribute(g)] = EngineServerNormal[Engines!Attribute(g)]
        /\ Engines!Attribute(a) = None \/ EngineNormal[Engines!Attribute(a)] = EngineServerNormal[Engines!Attribute(a)]
    BY <1>1, <2>1
  <2>3. Engines!CompareScalar(Engines!Attribute(g), Engines!Attribute(a)) = Engines!ServerScalar(Engines!Attribute(g), Engines!Attribute(a))
    BY <2>2 DEF Engines!CompareScalar, Engines!ServerScalar
  <2> QED BY <1>1, <1>5, <2>2, <2>3 DEF Engines!Compare, Engines!ServerCompare
<1>6. CASE column.kind = "set"
  <2>1. ASSUME NEW c \in Engines!Model(column), ~Engines!ReadDifferently(column.kind, c)
        PROVE  /\ Engines!ServerAttribute(c) = Engines!Attribute(c)
               /\ Engines!Attribute(c) \in (SUBSET EngineValues) \cup {None}
               /\ Engines!Attribute(c) # None =>
                    \A v \in Engines!Attribute(c) : EngineNormal[v] = EngineServerNormal[v]
    BY <1>1, <1>6, <2>1, EnginesLists DEF Engines!ReadDifferently
  <2>2. Engines!CompareSets(Engines!Attribute(g), Engines!Attribute(a)) = Engines!ServerSets(Engines!Attribute(g), Engines!Attribute(a))
    BY <1>1, <1>6, <2>1, EnginesSets
  <2> QED BY <1>1, <1>6, <2>1, <2>2 DEF Engines!Compare, Engines!ServerCompare
<1> QED BY <1>2, <1>3, <1>4, <1>5, <1>6 DEF EngineKinds

(* The answer matches itself, where it is known. *)
LEMMA EnginesMatch == EnginesInv => Engines!AnswerMatchesItself
<1> SUFFICES ASSUME EnginesInv, clue # None, clue.guess = clue.answer
             PROVE  /\ \/ clue.browser = "correct"
                       \/ column.kind = "set" /\ Engines!PartlyKnown(Engines!NormalizedAll(Engines!Attribute(clue.answer)))
                    /\ \/ clue.server = "correct"
                       \/ column.kind = "set"
                          /\ Engines!PartlyKnown(Engines!ServerNormalizedAll(Engines!ServerAttribute(clue.answer)))
  BY DEF Engines!AnswerMatchesItself
<1> DEFINE a == clue.answer
           said == Engines!Attribute(a)
           serverSaid == Engines!ServerAttribute(a)
<1>1. /\ EngineColumn(column) /\ a \in Engines!Model(column)
      /\ clue.browser = Engines!Compare(column.kind, said, said)
      /\ clue.server = Engines!ServerCompare(column.kind, serverSaid, serverSaid)
  BY DEF EnginesInv, EnginesGuess
<1>2. column.kind \in EngineKinds
  BY <1>1 DEF EngineColumn
<1> HIDE DEF a
<1>3. CASE column.kind # "set"
  <2>1. \A x : Engines!CompareScalar(x, x) = "correct" /\ Engines!ServerScalar(x, x) = "correct"
    BY DEF Engines!CompareScalar, Engines!ServerScalar, Engines!Neither
  <2>2. \A x : Engines!CompareNullableBoolean(x, x) = "correct" /\ Engines!CompareToolUse(x, x) = "correct"
    BY DEF Engines!CompareNullableBoolean, Engines!CompareToolUse, Engines!Neither
  <2>3. \A x : Engines!CompareNumber(x, x) = "correct"
    BY DEF Engines!CompareNumber, Engines!Neither
  <2> HIDE DEF said, serverSaid
  <2> QED BY <1>1, <1>2, <1>3, <2>1, <2>2, <2>3 DEF Engines!Compare, Engines!ServerCompare,
                                                    EngineKinds
<1>4. CASE column.kind = "set"
  <2>1. clue.browser = Engines!CompareSets(said, said) /\ clue.server = Engines!ServerSets(serverSaid, serverSaid)
    BY <1>1, <1>4 DEF Engines!Compare, Engines!ServerCompare
  <2>2. said \in (SUBSET EngineValues) \cup {None} /\ serverSaid \in (SUBSET EngineValues) \cup {None}
    BY <1>1, <1>4, EnginesLists
  <2> HIDE DEF said, serverSaid
  <2>3. said \cup said = said /\ serverSaid \cup serverSaid = serverSaid
    OBVIOUS
  <2>4. Engines!CompareSets(said, said) = "correct" \/ Engines!PartlyKnown(Engines!NormalizedAll(said))
    <3>1. CASE Engines!Empty(said)
      BY <3>1 DEF Engines!CompareSets
    <3>2. CASE ~Engines!Empty(said)
      BY <2>3, <3>2 DEF Engines!CompareSets, Engines!PartlyKnown
    <3> QED BY <3>1, <3>2
  <2>5. Engines!ServerSets(serverSaid, serverSaid) = "correct" \/ Engines!PartlyKnown(Engines!ServerNormalizedAll(serverSaid))
    <3>1. CASE serverSaid = None \/ serverSaid = {}
      BY <3>1 DEF Engines!ServerSets, Engines!Neither
    <3>2. CASE serverSaid # None /\ serverSaid # {}
      BY <2>3, <3>2 DEF Engines!ServerSets, Engines!PartlyKnown
    <3> QED BY <3>1, <3>2
  <2> QED BY <1>4, <2>1, <2>4, <2>5 DEF said, serverSaid, a
<1> QED BY <1>3, <1>4

(* The columns shown are among those with clues. *)
LEMMA EnginesColumns == EnginesInv => Engines!ShownColumnsHaveClues
<1> SUFFICES ASSUME NEW c \in DOMAIN Engines!Columns, NEW cat \in Engines!Categories,
                    NEW level \in {"normal", "challenge"},
                    c \in Engines!ClassicColumnsForGame(cat, level)
             PROVE  c \in Engines!ServerColumns(cat, level)
  BY DEF Engines!ShownColumnsHaveClues, EnginesInv, EngineColumn
<1>1. CASE cat = "hardcore"
  <2>1. c \in DOMAIN Engines!Columns \ Engines!HardcoreExcluded /\ (level # "normal" => c # "country")
    BY <1>1 DEF Engines!ClassicColumnsForGame, Engines!WithoutCountry
  <2>2. c \in {"categories", "inputModalities", "outputModalities", "useCases", "release",
            "contextWindowTokens", "weightAvailability", "supportedLanguages", "toolUse",
            "multimodal", "architecture", "trainingDatasets", "nlpTasks", "kernelSizes",
            "requiresTraining"}
    BY <2>1 DEF Engines!Columns, Engines!HardcoreExcluded
  <2> QED BY <1>1, <2>1, <2>2 DEF Engines!ServerColumns, Engines!WithoutCountry
<1>2. CASE cat \in {"llm", "cv", "nlp"}
  BY <1>2 DEF Engines!ClassicColumnsForGame, Engines!WithoutCountry, Engines!FocusedColumns,
              Engines!BaseColumns, Engines!OwnColumns,
              Engines!ServerColumns, Engines!ServerBase
<1>3. CASE cat \in {"object-detection", "classical-ml", "filters"}
  BY <1>3 DEF Engines!ClassicColumnsForGame, Engines!WithoutCountry, Engines!FocusedColumns,
              Engines!BaseColumns, Engines!OwnColumns,
              Engines!ServerColumns, Engines!ServerBase
<1> QED BY <1>1, <1>2, <1>3 DEF Engines!Categories

(* The browser's engine and the server's give the same clues, but for the  *)
(* differences that are known; the answer matches itself, and each column  *)
(* shown has a clue.                                                       *)
THEOREM EnginesAlways ==
  Engines!Spec => [](Engines!TypeOK /\ Engines!EnginesAgree /\ Engines!AnswerMatchesItself /\ Engines!ShownColumnsHaveClues)
<1>1. Engines!Init => EnginesInv
  BY DEF Engines!Init, EnginesInv
<1>2. EnginesInv => Engines!TypeOK
  <2>1. ASSUME EnginesInv, clue # None
        PROVE  {clue.browser, clue.server} \subseteq Verdicts
    <3>1. column.kind \in EngineKinds
      BY <2>1 DEF EnginesInv, EngineColumn
    <3>2. clue.browser \in Verdicts /\ clue.server \in Verdicts
      BY <2>1, <3>1, EnginesVerdicts DEF EnginesInv, EnginesGuess
    <3> QED BY <3>2
  <2> QED BY <2>1 DEF Engines!TypeOK, EnginesInv, EngineColumn, Verdicts
<1>3. EnginesInv => Engines!EnginesAgree /\ Engines!AnswerMatchesItself /\ Engines!ShownColumnsHaveClues
  BY EnginesAlike, EnginesMatch, EnginesColumns
<1> QED BY <1>1, <1>2, <1>3, EnginesSteps, PTL DEF Engines!Spec

-----------------------------------------------------------------------------
(* The local editor. *)
Editor == INSTANCE LocalEditor WITH
  Games <- EditorGames, CategoryOrder <- EditorCategories, Seed <- EditorSeed,
  Values <- EditorValues, MaxMoves <- EditorBounds.moves,
  MaxEdits <- EditorBounds.edits, MaxSaves <- EditorBounds.saves

(* What the editor is given is as its module assumes. *)
ASSUME EditorGiven == Editor!LocalEditorAssumption

(* A file has its records, each with its id, of its game and category. *)
EditorFile(f, records) ==
  /\ records \in [DOMAIN EditorSeed[f] -> Editor!Records]
  /\ \A p \in DOMAIN EditorSeed[f] : /\ records[p].id = EditorSeed[f][p].id /\ records[p].game = f[1]
                                     /\ DOMAIN records[p].details = Editor!DetailsOf(f)

(* A catalogue that has in each file the records of the seed, in its       *)
(* places.                                                                 *)
EditorFiles(fs) == fs = [f \in Editor!Files |-> fs[f]] /\ \A f \in Editor!Files : EditorFile(f, fs[f])

(* Where the seed has a record: saves never move one. *)
EditorOnly(places) == IF Cardinality(places) = 1 THEN CHOOSE p \in places : TRUE ELSE None

(* The place of a record in the seed. *)
EditorPlace(f, id) == EditorOnly({p \in DOMAIN EditorSeed[f] : EditorSeed[f][p].id = id})

(* What a form shows of a game other than Classic has no details. *)
EditorShown(r) == r # None => r \in Editor!Records /\ (r.game # "classic" => DOMAIN r.details = {})

(* What the editor has open. *)
EditorPage ==
  /\ game \in EditorGames /\ category \in Editor!CategoriesOf(game) \cup {""} /\ difficulty \in Editor!Difficulties
  /\ Editor!Here \in Editor!Files
  /\ items \subseteq Editor!Ids /\ itemId \in Editor!Ids \cup {None}
  /\ canPublish \in BOOLEAN /\ stray \in BOOLEAN /\ overlap \in BOOLEAN

(* The form has a record and what it was, or neither, and the review is of *)
(* the form.                                                               *)
EditorForm ==
  /\ EditorShown(item) /\ EditorShown(baseline) /\ EditorShown(aiReview)
  /\ item = None <=> baseline = None
  /\ Editor!ReviewIsOfForm

(* A save that was let through has the item of its file. *)
EditorJob(job) ==
  /\ job \in [file : Editor!Files, id : Editor!Ids, item : Editor!Records, todo : SUBSET Editor!Files, files : {job.files},
              is : {"writing", "restoring", "failed", "verified"}, merged : {job.merged}]
  /\ EditorFiles(job.files)
  /\ job.todo \subseteq Editor!TransactionFiles(job.file[1])
  /\ job.is \in {"writing", "verified"} =>
       /\ job.item.id = job.id /\ job.item.game = job.file[1]
       /\ DOMAIN job.item.details = Editor!DetailsOf(job.file)
       /\ EditorPlace(job.file, job.id) # None

(* The saves under way, each of records for places of the seed. *)
EditorJobs ==
  /\ saves \in 0..EditorBounds.saves /\ DOMAIN jobs = 1..EditorBounds.saves
  /\ \A n \in 1..saves : EditorJob(jobs[n])
  /\ EditorFiles(files)

(* While a save is awaited, the form shows what was sent. *)
EditorCall ==
  call # None /\ call.is = "save" =>
    /\ call.job \in 1..saves
    /\ jobs[call.job].is \in {"writing", "verified"} => item # None /\ item.id = jobs[call.job].id

(* What the last save has written, when no other ran beside it. *)
EditorWritten(job, f) ==
  /\ files[f][EditorPlace(f, job.id)].name = job.item.name
  /\ f = job.file => files[f][EditorPlace(f, job.id)] = job.item

(* Until two saves overlap, only the newest may still write, and what it   *)
(* has not written is as before it.                                        *)
EditorAlone ==
  ~overlap /\ saves > 0 =>
    LET job == jobs[saves] IN
    /\ \A n \in 1..(saves - 1) : jobs[n].is \in {"failed", "verified"}
    /\ EditorFiles(before)
    /\ job.is \in {"writing", "restoring"} =>
         job.files = before /\ \A f \in Editor!Files \ Editor!TransactionFiles(job.file[1]) : files[f] = before[f]
    /\ job.is = "failed" => files = before
    /\ job.is \in {"writing", "verified"} =>
         \A f \in Editor!TransactionFiles(job.file[1]) :
           EditorPlace(f, job.id) # None =>
             \/ job.is = "writing" /\ f \in job.todo
             \/ EditorWritten(job, f)

(* The inductive invariant of the local editor. *)
EditorInv == EditorPage /\ EditorForm /\ EditorJobs /\ EditorCall /\ EditorAlone

(* The seed has its own records in its own places. *)
LEMMA EditorSeeded ==
  /\ EditorFiles(EditorSeed)
  /\ \A f \in Editor!Files : DOMAIN EditorSeed[f] \subseteq Nat /\ \A p \in DOMAIN EditorSeed[f] : EditorSeed[f][p].id \in Editor!Ids
<1>1. ASSUME NEW f \in Editor!Files
      PROVE  /\ EditorSeed[f] \in [DOMAIN EditorSeed[f] -> Editor!Records] /\ DOMAIN EditorSeed[f] \subseteq Nat
             /\ \A p \in DOMAIN EditorSeed[f] : /\ EditorSeed[f][p].game = f[1]
                                                /\ DOMAIN EditorSeed[f][p].details = Editor!DetailsOf(f)
                                                /\ EditorSeed[f][p].id \in Editor!Ids
  <2>1. /\ EditorSeed[f] \in Seq(Editor!Records)
        /\ \A p \in DOMAIN EditorSeed[f] : /\ EditorSeed[f][p].game = f[1]
                                           /\ DOMAIN EditorSeed[f][p].details = Editor!DetailsOf(f)
    BY EditorGiven DEF Editor!LocalEditorAssumption
  <2>2. EditorSeed[f] \in [DOMAIN EditorSeed[f] -> Editor!Records] /\ DOMAIN EditorSeed[f] \subseteq Nat
    BY <2>1, LenProperties, ElementOfSeq
  <2> QED BY <2>1, <2>2 DEF Editor!Ids
<1>2. EditorSeed = [f \in Editor!Files |-> EditorSeed[f]]
  BY EditorGiven DEF Editor!LocalEditorAssumption
<1> QED BY <1>1, <1>2 DEF EditorFiles, EditorFile

(* At the place of a record is that record, *)
LEMMA EditorPlaceIs ==
  ASSUME NEW f \in Editor!Files, NEW id, EditorPlace(f, id) # None
  PROVE  EditorPlace(f, id) \in DOMAIN EditorSeed[f] /\ EditorSeed[f][EditorPlace(f, id)].id = id
<1> DEFINE places == {p \in DOMAIN EditorSeed[f] : EditorSeed[f][p].id = id}
<1>1. Cardinality(places) = 1 /\ EditorPlace(f, id) = CHOOSE p \in places : TRUE
  BY DEF EditorPlace, EditorOnly
<1>2. places # {}
  BY <1>1, FS_EmptySet
<1>3. EditorPlace(f, id) \in places
  BY <1>1, <1>2
<1> QED BY <1>3

(* The module's Cardinality is the library's. *)
LEMMA EditorCardinality ==
  ASSUME NEW S PROVE Editor!Cardinality(S) = Cardinality(S)
  BY DEF Editor!Cardinality, Cardinality

(* and the place is the one the code finds. *)
LEMMA EditorPlaceOf ==
  ASSUME EditorFiles(files), NEW f \in Editor!Files, NEW id
  PROVE  Editor!PlaceOf(f, id) = EditorPlace(f, id)
<1>1. {p \in DOMAIN files[f] : files[f][p].id = id} = {p \in DOMAIN EditorSeed[f] : EditorSeed[f][p].id = id}
  BY DEF EditorFiles, EditorFile
<1>2. Editor!PlaceOf(f, id) = EditorOnly({p \in DOMAIN files[f] : files[f][p].id = id})
  BY EditorCardinality DEF Editor!PlaceOf, EditorOnly
<1> QED BY <1>1, <1>2 DEF EditorPlace

(* The file of a game and a category. *)
LEMMA EditorFileOf ==
  ASSUME NEW g \in EditorGames, NEW c,
         IF g = "classic" THEN c \in Editor!Categories ELSE c = ""
  PROVE  <<g, c>> \in Editor!Files /\ c \in Editor!CategoriesOf(g) \cup {""}
  BY EditorGiven DEF Editor!LocalEditorAssumption, Editor!CategoriesOf

(* There is a first category. *)
LEMMA EditorFirst == EditorCategories[1] \in Editor!Categories
<1>1. EditorCategories \in Seq(Editor!Categories) /\ "language-model" \in Editor!Categories
  BY EditorGiven DEF Editor!LocalEditorAssumption
<1>2. PICK i \in DOMAIN EditorCategories : EditorCategories[i] = "language-model"
  BY <1>1 DEF Editor!Categories, Editor!Range
<1>3. Len(EditorCategories) \in Nat /\ DOMAIN EditorCategories = 1..Len(EditorCategories)
  BY <1>1, LenProperties
<1>4. 1 \in 1..Len(EditorCategories)
  BY <1>2, <1>3
<1> QED BY <1>1, <1>4, ElementOfSeq

(* Every step keeps what is open, *)
LEMMA EditorPageNext == EditorPage /\ EditorJobs /\ [Editor!Next]_(Editor!vars) => EditorPage'
<1> SUFFICES ASSUME EditorPage, EditorJobs, [Editor!Next]_(Editor!vars) PROVE EditorPage'
  OBVIOUS
<1> USE DEF EditorPage
<1>0. ASSUME NEW d PROVE Editor!Listed(Editor!Here, d) \subseteq Editor!Ids
  <2>1. \A p \in DOMAIN files[Editor!Here] : files[Editor!Here][p].id \in Editor!Ids
    BY EditorSeeded DEF EditorJobs, EditorFiles, EditorFile
  <2> QED BY <2>1 DEF Editor!Listed
<1>1. CASE Editor!NavigationAnswer
  BY <1>1 DEF Editor!NavigationAnswer, Editor!selectors, Editor!list, Editor!form, Editor!data,
              Editor!past, Editor!counts, Editor!Here
<1>2. CASE Editor!ItemsAnswer
  <2>1. items' \subseteq Editor!Ids /\ itemId' \in Editor!Ids \cup {None}
    BY <1>0, <1>2 DEF Editor!ItemsAnswer
  <2> QED BY <1>2, <2>1 DEF Editor!ItemsAnswer, Editor!selectors, Editor!data, Editor!past,
                            Editor!Here
<1>3. CASE Editor!StatusAnswer
  <2>1. items' \subseteq Editor!Ids /\ canPublish' \in BOOLEAN
    BY <1>0, <1>3 DEF Editor!StatusAnswer
  <2> QED BY <1>3, <2>1 DEF Editor!StatusAnswer, Editor!selectors, Editor!data, Editor!past,
                            Editor!Here
<1>4. ASSUME NEW g \in EditorGames, NEW c, NEW d \in Editor!Difficulties, Editor!Choose(g, c, d) PROVE EditorPage'
  <2>1. EditorCategories[1] \in Editor!Categories
    BY EditorFirst
  <2>2. Editor!CategoriesOf(g) = {} <=> g # "classic"
    BY EditorGiven DEF Editor!LocalEditorAssumption, Editor!CategoriesOf
  <2>3. IF g = "classic" THEN category' \in Editor!Categories ELSE category' = ""
    BY <1>4, <2>1, <2>2 DEF Editor!Choose, Editor!CategoriesOf
  <2>4. <<g, category'>> \in Editor!Files /\ category' \in Editor!CategoriesOf(g) \cup {""}
    BY <2>3, EditorFileOf
  <2>5. game' = g /\ difficulty' = d /\ UNCHANGED <<Editor!list, canPublish, Editor!data, Editor!past>>
    BY <1>4 DEF Editor!Choose
  <2> QED BY <2>4, <2>5 DEF Editor!list, Editor!data, Editor!past, Editor!Here
<1>5. ASSUME NEW id \in items, Editor!SelectItem(id) PROVE EditorPage'
  BY <1>5 DEF Editor!SelectItem, Editor!selectors, Editor!data, Editor!past, Editor!Here
<1>6. CASE Editor!Reload
  <2>1. game' = "classic" /\ category' = "language-model" /\ difficulty' = "normal"
        /\ items' = {} /\ itemId' = None /\ canPublish' = FALSE /\ UNCHANGED <<Editor!data, Editor!past>>
    BY <1>6 DEF Editor!Reload
  <2>2. "classic" \in EditorGames /\ "language-model" \in Editor!Categories /\ "normal" \in Editor!Difficulties
    BY EditorGiven DEF Editor!LocalEditorAssumption, Editor!Difficulties, Editor!Pool
  <2>3. <<game', category'>> \in Editor!Files /\ category' \in Editor!CategoriesOf(game') \cup {""}
    BY <2>1, <2>2, EditorFileOf
  <2> QED BY <2>1, <2>2, <2>3 DEF Editor!data, Editor!past, Editor!Here
<1>7. CASE Editor!SaveClick
  BY <1>7 DEF Editor!SaveClick, Editor!selectors, Editor!list, Editor!data, Editor!Here
<1>8. CASE Editor!Stray
  BY <1>8 DEF Editor!Stray, Editor!selectors, Editor!list, Editor!past, Editor!Here
<1>9. CASE Editor!ItemAnswer \/ Editor!CallFails \/ Editor!Edit \/ Editor!Analyse \/ Editor!ApplySuggestion
  BY <1>9 DEF Editor!ItemAnswer, Editor!CallFails, Editor!Edit, Editor!Analyse,
              Editor!ApplySuggestion,
              Editor!selectors, Editor!list, Editor!data, Editor!past, Editor!Here
<1>10. ASSUME NEW r, Editor!AnalysisAnswer(r) PROVE EditorPage'
  BY <1>10 DEF Editor!AnalysisAnswer, Editor!selectors, Editor!list, Editor!data, Editor!past,
               Editor!Here
<1>11. CASE Editor!SaveAnswer \/ Editor!SaveFails \/ Editor!ValidateAll \/ Editor!MergeGame \/ Editor!Publish
  BY <1>11 DEF Editor!SaveAnswer, Editor!SaveFails, Editor!ValidateAll, Editor!MergeGame,
               Editor!Publish,
               Editor!selectors, Editor!list, Editor!data, Editor!past, Editor!Here
<1>12. ASSUME NEW n, Editor!WriteFile(n) \/ Editor!Verify(n) \/ Editor!Restore(n) PROVE EditorPage'
  BY <1>12 DEF Editor!WriteFile, Editor!Verify, Editor!Restore, Editor!selectors, Editor!list,
               Editor!past, Editor!Here
<1>13. CASE UNCHANGED Editor!vars
  BY <1>13 DEF Editor!vars, Editor!selectors, Editor!list, Editor!data, Editor!past, Editor!Here
<1>14. /\ \A g \in EditorGames : Editor!ChooseGame(g) => EditorPage'
       /\ \A c : Editor!ChooseCategory(c) => EditorPage'
       /\ \A d \in Editor!Difficulties : Editor!ChooseDifficulty(d) => EditorPage'
  BY <1>4 DEF Editor!ChooseGame, Editor!ChooseCategory, Editor!ChooseDifficulty
<1> USE DEF EditorPage
<1> HIDE DEF EditorPage
<1> QED BY <1>1, <1>2, <1>3, <1>5, <1>6, <1>7, <1>8, <1>9, <1>10, <1>11, <1>12, <1>13, <1>14
          DEF Editor!Next

(* Editing keeps a record one of its game. *)
LEMMA EditorEdited ==
  ASSUME NEW r \in Editor!Records, r.game # "classic" => DOMAIN r.details = {}, NEW new \in Editor!FormEdits(r)
  PROVE  new \in Editor!Records /\ new.id = r.id /\ new.game = r.game
         /\ (new.game # "classic" => DOMAIN new.details = {})
<1>0. /\ EditorValues \subseteq Editor!Texts /\ Bad \in Editor!Texts /\ Blank \in Editor!Texts /\ Absent \in Editor!Texts
      /\ r.details \in Editor!Details
  BY DEF Editor!Texts, Editor!Records
<1>1. PICK cs \in SUBSET Editor!Categories : r.details \in [cs -> Editor!Texts]
  BY <1>0 DEF Editor!Details
<1>2. ASSUME NEW ds \in SUBSET Editor!Categories, NEW d \in [ds -> Editor!Texts] PROVE d \in Editor!Details
  BY DEF Editor!Details
<1>3. ASSUME NEW v \in EditorValues \cup {Bad, Blank}, new = [r EXCEPT !.name = v]
      PROVE  new \in Editor!Records /\ new.id = r.id /\ new.game = r.game /\ new.details = r.details
  BY <1>0, <1>3 DEF Editor!Records
<1>4. ASSUME NEW v \in EditorValues \cup {Absent, Blank}, new = [r EXCEPT !.note = v]
      PROVE  new \in Editor!Records /\ new.id = r.id /\ new.game = r.game /\ new.details = r.details
  BY <1>0, <1>4 DEF Editor!Records
<1>5. ASSUME NEW d \in Editor!Details, new = [r EXCEPT !.details = d]
      PROVE  new \in Editor!Records /\ new.id = r.id /\ new.game = r.game /\ new.details = d
  BY <1>5 DEF Editor!Records
<1>6. ASSUME NEW c \in DOMAIN r.details, NEW v \in EditorValues, new = [r EXCEPT !.details[c] = v]
      PROVE  new \in Editor!Records /\ new.id = r.id /\ new.game = r.game /\ DOMAIN new.details = DOMAIN r.details
  <2> DEFINE d == [r.details EXCEPT ![c] = v]
  <2>1. d \in [cs -> Editor!Texts]
    BY <1>0, <1>1
  <2>2. d \in Editor!Details /\ DOMAIN d = DOMAIN r.details
    BY <1>1, <1>2, <2>1
  <2>3. new = [r EXCEPT !.details = d]
    BY <1>6
  <2> HIDE DEF d
  <2> QED BY <1>5, <2>2, <2>3
<1>7. ASSUME NEW c \in DOMAIN r.details, new = [r EXCEPT !.details = Editor!Removed(@, c)]
      PROVE  new \in Editor!Records /\ new.id = r.id /\ new.game = r.game
  <2> DEFINE d == Editor!Removed(r.details, c)
  <2>1. d \in [cs \ {c} -> Editor!Texts]
    BY <1>1 DEF Editor!Removed
  <2>2. d \in Editor!Details
    BY <1>1, <1>2, <2>1
  <2>3. new = [r EXCEPT !.details = d]
    BY <1>7
  <2> HIDE DEF d
  <2> QED BY <1>5, <2>2, <2>3
<1>8. ASSUME NEW c \in Editor!Categories \ DOMAIN r.details,
             new = [r EXCEPT !.details = Editor!Added(@, c)]
      PROVE  new \in Editor!Records /\ new.id = r.id /\ new.game = r.game
  <2> DEFINE d == Editor!Added(r.details, c)
  <2>1. d \in [cs \cup {c} -> Editor!Texts]
    BY <1>0, <1>1 DEF Editor!Added
  <2>2. d \in Editor!Details
    BY <1>1, <1>2, <2>1
  <2>3. new = [r EXCEPT !.details = d]
    BY <1>8
  <2> HIDE DEF d
  <2> QED BY <1>5, <2>2, <2>3
<1>9. \/ \E v \in EditorValues \cup {Bad, Blank} : new = [r EXCEPT !.name = v]
      \/ \E v \in EditorValues \cup {Absent, Blank} : new = [r EXCEPT !.note = v]
      \/ \E c \in DOMAIN r.details, v \in EditorValues : new = [r EXCEPT !.details[c] = v]
      \/ r.game = "classic" /\ \E c \in DOMAIN r.details :
           new = [r EXCEPT !.details = Editor!Removed(@, c)]
      \/ r.game = "classic" /\ \E c \in Editor!Categories \ DOMAIN r.details :
           new = [r EXCEPT !.details = Editor!Added(@, c)]
  BY DEF Editor!FormEdits
<1> QED BY <1>3, <1>4, <1>6, <1>7, <1>8, <1>9

(* What is read of a file. *)
LEMMA EditorRead ==
  ASSUME EditorFiles(files), NEW f \in Editor!Files, NEW id, Editor!PlaceOf(f, id) # None
  PROVE  LET r == files[f][Editor!PlaceOf(f, id)]
         IN  r # None /\ EditorShown(r) /\ r.id = id
<1> DEFINE p == Editor!PlaceOf(f, id)
           r == files[f][p]
<1>1. p \in DOMAIN EditorSeed[f] /\ EditorSeed[f][p].id = id
  BY EditorPlaceOf, EditorPlaceIs
<1> HIDE DEF p
<1>2. r \in Editor!Records /\ r.id = id /\ r.game = f[1] /\ DOMAIN r.details = Editor!DetailsOf(f)
  BY <1>1 DEF EditorFiles, EditorFile
<1>3. r # None
  BY <1>2, EditorGiven DEF Editor!LocalEditorAssumption
<1> QED BY <1>2, <1>3 DEF EditorShown, Editor!DetailsOf, p

(* and the form with its review. *)
LEMMA EditorFormNext ==
  EditorPage /\ EditorForm /\ EditorJobs /\ EditorCall /\ [Editor!Next]_(Editor!vars) => EditorForm'
<1> SUFFICES ASSUME EditorPage, EditorForm, EditorJobs, EditorCall, [Editor!Next]_(Editor!vars) PROVE EditorForm'
  OBVIOUS
<1> USE DEF EditorForm, Editor!ReviewIsOfForm
<1>0. EditorFiles(files) /\ Editor!Here \in Editor!Files
  BY DEF EditorJobs, EditorPage
<1>1. CASE Editor!ItemsAnswer
  <2>1. UNCHANGED Editor!form \/ (item' = None /\ baseline' = None /\ aiReview' = None)
    BY <1>1 DEF Editor!ItemsAnswer
  <2> QED BY <2>1 DEF Editor!form, EditorShown
<1>2. CASE Editor!ItemAnswer
  <2>1. /\ Editor!PlaceOf(Editor!Here, itemId) # None /\ item' = files[Editor!Here][Editor!PlaceOf(Editor!Here, itemId)]
        /\ baseline' = item' /\ aiReview' = None
    BY <1>2 DEF Editor!ItemAnswer
  <2>2. item' # None /\ EditorShown(item')
    BY <1>0, <2>1, EditorRead
  <2> QED BY <2>1, <2>2 DEF EditorShown
<1>3. CASE Editor!Edit
  <2>1. item # None /\ item' \in Editor!FormEdits(item) /\ baseline' = baseline /\ aiReview' = aiReview
    BY <1>3 DEF Editor!Edit
  <2>2. item \in Editor!Records /\ (item.game # "classic" => DOMAIN item.details = {})
    BY <2>1 DEF EditorShown
  <2>3. item' \in Editor!Records /\ item'.id = item.id /\ EditorShown(item')
    BY <2>1, <2>2, EditorEdited DEF EditorShown
  <2>4. item' # None
    BY <2>3, EditorGiven DEF Editor!LocalEditorAssumption
  <2> QED BY <2>1, <2>3, <2>4 DEF EditorShown
<1>4. ASSUME item # None, NEW v \in EditorValues \cup {Bad}, Editor!AnalysisAnswer([item EXCEPT !.name = v])
      PROVE  EditorForm'
  <2>1. aiReview' = [item EXCEPT !.name = v] /\ item' = item /\ baseline' = baseline
    BY <1>4 DEF Editor!AnalysisAnswer
  <2>2. item \in Editor!Records /\ (item.game # "classic" => DOMAIN item.details = {}) /\ v \in Editor!Texts
    BY <1>4 DEF EditorShown, Editor!Texts
  <2>3. [item EXCEPT !.name = v] \in Editor!Records /\ [item EXCEPT !.name = v].id = item.id
        /\ [item EXCEPT !.name = v].game = item.game /\ [item EXCEPT !.name = v].details = item.details
    BY <2>2 DEF Editor!Records
  <2>4. EditorShown([item EXCEPT !.name = v])
    BY <2>2, <2>3 DEF EditorShown
  <2>5. aiReview'.id = item.id
    BY <2>1, <2>3
  <2> QED BY <1>4, <2>1, <2>4, <2>5 DEF EditorShown
<1>5. CASE Editor!ApplySuggestion
  BY <1>5 DEF Editor!ApplySuggestion, EditorShown
<1>6. CASE Editor!SaveAnswer
  <2> DEFINE job == jobs[call.job]
             p == Editor!PlaceOf(job.file, job.id)
  <2>1. /\ call # None /\ call.is = "save" /\ job.is = "verified" /\ p # None
        /\ item' = files[job.file][p] /\ baseline' = item' /\ aiReview' = aiReview
    BY <1>6 DEF Editor!SaveAnswer, Editor!Busy
  <2>2. EditorJob(job) /\ item # None /\ item.id = job.id
    BY <2>1 DEF EditorCall, EditorJobs
  <2> HIDE DEF job
  <2>3. job.file \in Editor!Files
    BY <2>2 DEF EditorJob
  <2>4. item' # None /\ EditorShown(item') /\ item'.id = job.id
    BY <1>0, <2>1, <2>3, EditorRead
  <2> QED BY <2>1, <2>2, <2>4 DEF EditorShown
<1>7. CASE Editor!Reload
  BY <1>7 DEF Editor!Reload, EditorShown
<1>8. ASSUME UNCHANGED Editor!form PROVE EditorForm'
  BY <1>8 DEF Editor!form, EditorShown
<1>9. CASE Editor!NavigationAnswer \/ Editor!CallFails \/ Editor!Analyse \/ Editor!SaveClick \/ Editor!SaveFails \/ Editor!StatusAnswer
           \/ Editor!ValidateAll \/ Editor!MergeGame \/ Editor!Publish \/ Editor!Stray
  <2>1. UNCHANGED Editor!form
    BY <1>9 DEF Editor!NavigationAnswer, Editor!CallFails, Editor!Analyse, Editor!SaveClick,
                Editor!SaveFails, Editor!StatusAnswer,
                Editor!ValidateAll, Editor!MergeGame, Editor!Publish, Editor!Stray
  <2> QED BY <2>1, <1>8
<1>10. /\ \A g, c, d : Editor!Choose(g, c, d) => UNCHANGED Editor!form
       /\ \A id : Editor!SelectItem(id) => UNCHANGED Editor!form
       /\ \A n : Editor!WriteFile(n) \/ Editor!Verify(n) \/ Editor!Restore(n) => UNCHANGED Editor!form
  BY DEF Editor!Choose, Editor!SelectItem, Editor!WriteFile, Editor!Verify, Editor!Restore
<1>11. CASE UNCHANGED Editor!vars
  BY <1>8, <1>11 DEF Editor!vars
<1> HIDE DEF EditorForm, Editor!ReviewIsOfForm
<1> QED
  BY <1>1, <1>2, <1>3, <1>4, <1>5, <1>6, <1>7, <1>8, <1>9, <1>10, <1>11
  DEF Editor!Next, Editor!ChooseGame, Editor!ChooseCategory, Editor!ChooseDifficulty

(* One record of a file is written. *)
LEMMA EditorOneWritten ==
  ASSUME NEW fs, EditorFiles(fs), NEW f \in Editor!Files, NEW p \in DOMAIN EditorSeed[f],
         NEW r \in Editor!Records, r.id = EditorSeed[f][p].id, r.game = f[1], DOMAIN r.details = Editor!DetailsOf(f)
  PROVE  EditorFiles([fs EXCEPT ![f][p] = r])
<1> DEFINE new == [fs EXCEPT ![f][p] = r]
<1>1. fs = [g \in Editor!Files |-> fs[g]] /\ \A g \in Editor!Files : EditorFile(g, fs[g])
  BY DEF EditorFiles
<1>2. /\ new = [g \in Editor!Files |-> new[g]]
      /\ \A g \in Editor!Files \ {f} : new[g] = fs[g]
      /\ new[f] = [fs[f] EXCEPT ![p] = r]
  BY <1>1
<1> HIDE DEF new
<1>3. fs[f] \in [DOMAIN EditorSeed[f] -> Editor!Records]
  BY <1>1 DEF EditorFile
<1>4. /\ new[f] \in [DOMAIN EditorSeed[f] -> Editor!Records] /\ new[f][p] = r
      /\ \A q \in DOMAIN EditorSeed[f] \ {p} : new[f][q] = fs[f][q]
  BY <1>2, <1>3
<1>5. EditorFile(f, new[f])
  BY <1>1, <1>4 DEF EditorFile
<1>6. \A g \in Editor!Files : EditorFile(g, new[g])
  BY <1>1, <1>2, <1>5
<1>7. EditorFiles(new)
  BY <1>2, <1>6 DEF EditorFiles
<1> QED BY <1>7 DEF new

(* What a save writes of a file is a record of the file. *)
LEMMA EditorWrites ==
  ASSUME NEW job, EditorJob(job), job.is = "writing",
         NEW f \in Editor!TransactionFiles(job.file[1]), NEW r, DOMAIN r.details = Editor!DetailsOf(f),
         r.details \in Editor!Details
  PROVE  LET new == Editor!Edited(job, f, r)
         IN  /\ new \in Editor!Records /\ new.id = job.id /\ new.game = f[1]
             /\ DOMAIN new.details = Editor!DetailsOf(f)
             /\ new.name = job.item.name /\ (f = job.file => new = job.item)
<1>1. /\ job.item \in Editor!Records /\ job.item.id = job.id /\ job.item.game = job.file[1]
      /\ DOMAIN job.item.details = Editor!DetailsOf(job.file)
  BY DEF EditorJob
<1>2. f[1] = job.file[1]
  BY DEF Editor!TransactionFiles
<1> DEFINE item0 == job.item
           details0 == IF f = job.file THEN item0.details ELSE r.details
           new == [item0 EXCEPT !.details = details0]
<1>3. details0 \in Editor!Details /\ DOMAIN details0 = Editor!DetailsOf(f)
  BY <1>1 DEF Editor!Records
<1>4. Editor!Edited(job, f, r) = new
  BY DEF Editor!Edited
<1>5. item0 \in Editor!Records /\ item0.id = job.id /\ item0.game = f[1]
  BY <1>1, <1>2
<1>6. f = job.file => details0 = item0.details
  OBVIOUS
<1> HIDE DEF item0, details0
<1>7. /\ new \in Editor!Records /\ new.id = job.id /\ new.game = f[1] /\ new.details = details0
      /\ new.name = item0.name
  BY <1>3, <1>5 DEF Editor!Records
<1>8. f = job.file => new = item0
  BY <1>5, <1>6 DEF Editor!Records
<1> HIDE DEF new
<1> QED BY <1>3, <1>4, <1>7, <1>8 DEF item0

(* What a step of a save changes of the saves. *)
EditorMoved(n, new) ==
  /\ jobs' = [jobs EXCEPT ![n] = new]
  /\ new.file = jobs[n].file /\ new.id = jobs[n].id /\ new.item = jobs[n].item
  /\ new.files = jobs[n].files

(* There are as many saves as were begun, within the bound. *)
LEMMA EditorSaves ==
  ASSUME EditorJobs
  PROVE  saves \in Nat /\ EditorBounds.saves \in Nat /\ saves \in 0..EditorBounds.saves /\ \A n \in 1..saves : n \in DOMAIN jobs
<1>1. EditorBounds.saves \in Nat
  BY EditorGiven DEF Editor!LocalEditorAssumption
<1>2. saves \in 0..EditorBounds.saves /\ DOMAIN jobs = 1..EditorBounds.saves
  BY DEF EditorJobs
<1> QED BY <1>1, <1>2

(* A save that has one file less to write, *)
LEMMA EditorTodo ==
  ASSUME EditorJobs, NEW n \in 1..saves, NEW f, jobs' = [jobs EXCEPT ![n].todo = @ \ {f}]
  PROVE  /\ EditorMoved(n, [jobs[n] EXCEPT !.todo = @ \ {f}])
         /\ EditorJob([jobs[n] EXCEPT !.todo = @ \ {f}])
         /\ [jobs[n] EXCEPT !.todo = @ \ {f}].is = jobs[n].is
         /\ [jobs[n] EXCEPT !.todo = @ \ {f}].todo = jobs[n].todo \ {f}
<1> DEFINE job == jobs[n]
           new == [job EXCEPT !.todo = @ \ {f}]
<1>0. n \in DOMAIN jobs /\ EditorJob(job)
  BY EditorSaves DEF EditorJobs
<1>1. jobs' = [jobs EXCEPT ![n] = new]
  BY <1>0
<1> HIDE DEF job
<1>2. job \in [file : Editor!Files, id : Editor!Ids, item : Editor!Records, todo : SUBSET Editor!Files, files : {job.files},
              is : {"writing", "restoring", "failed", "verified"}, merged : {job.merged}]
  BY <1>0 DEF EditorJob
<1>3. /\ new \in [file : Editor!Files, id : Editor!Ids, item : Editor!Records, todo : SUBSET Editor!Files, files : {job.files},
              is : {"writing", "restoring", "failed", "verified"}, merged : {job.merged}]
      /\ new.file = job.file /\ new.id = job.id /\ new.item = job.item /\ new.is = job.is
      /\ new.files = job.files /\ new.merged = job.merged /\ new.todo = job.todo \ {f}
  BY <1>2
<1> HIDE DEF new
<1>4. EditorJob(new)
  BY <1>0, <1>3 DEF EditorJob
<1>5. EditorMoved(n, new)
  BY <1>1, <1>3 DEF EditorMoved, job
<1> QED BY <1>3, <1>4, <1>5 DEF new, job

(* or that goes on to its next stage. *)
LEMMA EditorIs ==
  ASSUME EditorJobs, NEW n \in 1..saves, NEW is \in {"restoring", "failed", "verified"},
         is = "verified" => jobs[n].is = "writing", jobs' = [jobs EXCEPT ![n].is = is]
  PROVE  /\ EditorMoved(n, [jobs[n] EXCEPT !.is = is])
         /\ EditorJob([jobs[n] EXCEPT !.is = is])
         /\ [jobs[n] EXCEPT !.is = is].is = is
<1> DEFINE job == jobs[n]
           new == [job EXCEPT !.is = is]
<1>0. n \in DOMAIN jobs /\ EditorJob(job) /\ (is = "verified" => job.is = "writing")
  BY EditorSaves DEF EditorJobs
<1>1. jobs' = [jobs EXCEPT ![n] = new]
  BY <1>0
<1> HIDE DEF job
<1>2. job \in [file : Editor!Files, id : Editor!Ids, item : Editor!Records, todo : SUBSET Editor!Files, files : {job.files},
              is : {"writing", "restoring", "failed", "verified"}, merged : {job.merged}]
  BY <1>0 DEF EditorJob
<1>3. /\ new \in [file : Editor!Files, id : Editor!Ids, item : Editor!Records, todo : SUBSET Editor!Files, files : {job.files},
              is : {"writing", "restoring", "failed", "verified"}, merged : {job.merged}]
      /\ new.file = job.file /\ new.id = job.id /\ new.item = job.item /\ new.is = is
      /\ new.files = job.files /\ new.merged = job.merged /\ new.todo = job.todo
  BY <1>2
<1> HIDE DEF new
<1>4. EditorJob(new)
  BY <1>0, <1>3 DEF EditorJob
<1>5. EditorMoved(n, new)
  BY <1>1, <1>3 DEF EditorMoved, job
<1> QED BY <1>3, <1>4, <1>5 DEF new, job

(* The step of a save, with the job it becomes. *)
EditorStep(n, new) ==
  /\ EditorMoved(n, new) /\ EditorJob(new) /\ EditorFiles(files)'
  /\ \/ /\ jobs[n].is = "writing" /\ new.is = "writing"
        /\ \E f \in jobs[n].todo :
             /\ new.todo = jobs[n].todo \ {f}
             /\ \A g \in Editor!Files \ {f} : files'[g] = files[g]
             /\ EditorPlace(f, jobs[n].id) # None => EditorWritten(jobs[n], f)'
     \/ /\ jobs[n].is = "writing" /\ jobs[n].todo = {} /\ new.is \in {"verified", "restoring"}
        /\ files' = files
     \/ /\ jobs[n].is = "restoring" /\ new.is = "failed"
        /\ files' = [f \in Editor!Files |-> IF f \in Editor!TransactionFiles(jobs[n].file[1]) THEN jobs[n].files[f]
                                    ELSE files[f]]

(* Every step of a save is a step of these, and keeps the files the seed's. *)
LEMMA EditorSteps ==
  ASSUME EditorJobs, NEW n \in 1..saves, Editor!WriteFile(n) \/ Editor!Verify(n) \/ Editor!Restore(n)
  PROVE  \E new : EditorStep(n, new)
<1>0. EditorJob(jobs[n]) /\ EditorFiles(files) /\ \A f, id : f \in Editor!Files => Editor!PlaceOf(f, id) = EditorPlace(f, id)
  BY EditorPlaceOf DEF EditorJobs
<1>1. CASE Editor!WriteFile(n)
  <2>1. PICK f \in jobs[n].todo :
          /\ files' = IF Editor!PlaceOf(f, jobs[n].id) = None THEN files
                      ELSE [files EXCEPT ![f][Editor!PlaceOf(f, jobs[n].id)] =
                              Editor!Edited(jobs[n], f, files[f][Editor!PlaceOf(f, jobs[n].id)])]
          /\ jobs' = [jobs EXCEPT ![n].todo = @ \ {f}]
    BY <1>1 DEF Editor!WriteFile
  <2>2. jobs[n].is = "writing"
    BY <1>1 DEF Editor!WriteFile
  <2>3. f \in Editor!Files /\ f \in Editor!TransactionFiles(jobs[n].file[1])
    BY <1>0 DEF EditorJob
  <2> DEFINE new == [jobs[n] EXCEPT !.todo = @ \ {f}]
             p == EditorPlace(f, jobs[n].id)
  <2>4. EditorMoved(n, new) /\ EditorJob(new) /\ new.is = "writing" /\ new.todo = jobs[n].todo \ {f}
    BY <2>1, <2>2, EditorTodo
  <2> HIDE DEF new
  <2>5. CASE p = None
    <3>1. files' = files
      BY <1>0, <2>1, <2>3, <2>5
    <3>2. EditorFiles(files)'
      BY <1>0, <3>1
    <3> QED BY <2>2, <2>4, <2>5, <3>1, <3>2 DEF EditorStep
  <2>6. CASE p # None
    <3>1. p \in DOMAIN EditorSeed[f] /\ EditorSeed[f][p].id = jobs[n].id
      BY <2>3, <2>6, EditorPlaceIs
    <3> DEFINE r == files[f][p]
               w == Editor!Edited(jobs[n], f, r)
    <3>2. DOMAIN r.details = Editor!DetailsOf(f) /\ r.details \in Editor!Details
      <4>1. EditorFile(f, files[f])
        BY <1>0, <2>3 DEF EditorFiles
      <4>2. r \in Editor!Records /\ DOMAIN r.details = Editor!DetailsOf(f)
        BY <3>1, <4>1 DEF EditorFile
      <4> QED BY <4>2 DEF Editor!Records
    <3>3. files' = [files EXCEPT ![f][p] = w]
      BY <1>0, <2>1, <2>3, <2>6
    <3> HIDE DEF p, r
    <3>4. /\ w \in Editor!Records /\ w.id = jobs[n].id /\ w.game = f[1]
          /\ DOMAIN w.details = Editor!DetailsOf(f)
          /\ w.name = jobs[n].item.name /\ (f = jobs[n].file => w = jobs[n].item)
      BY <1>0, <2>2, <2>3, <3>2, EditorWrites
    <3> HIDE DEF w
    <3>5. EditorFiles([files EXCEPT ![f][p] = w])
      BY <1>0, <2>3, <3>1, <3>4, EditorOneWritten
    <3>6. files = [g \in Editor!Files |-> files[g]] /\ files[f] \in [DOMAIN EditorSeed[f] -> Editor!Records]
      BY <1>0, <2>3 DEF EditorFiles, EditorFile
    <3>7. files'[f][p] = w /\ \A g \in Editor!Files \ {f} : files'[g] = files[g]
      BY <2>3, <3>1, <3>3, <3>6
    <3>8. EditorFiles(files)'
      BY <3>3, <3>5
    <3>9. EditorWritten(jobs[n], f)'
      <4>1. EditorMoved(n, new)
        BY <2>4
      <4>2. n \in DOMAIN jobs
        BY EditorSaves
      <4>3. jobs'[n] = new
        BY <4>1, <4>2 DEF EditorMoved
      <4> QED BY <3>4, <3>7, <4>1, <4>3 DEF EditorWritten, EditorMoved, p
    <3> QED BY <2>2, <2>4, <3>7, <3>8, <3>9 DEF EditorStep
  <2> QED BY <2>5, <2>6
<1>2. CASE Editor!Verify(n)
  <2>1. jobs[n].is = "writing" /\ jobs[n].todo = {} /\ files' = files
    BY <1>2 DEF Editor!Verify
  <2>2. PICK is \in {"restoring", "verified"} : jobs' = [jobs EXCEPT ![n].is = is]
    BY <1>2 DEF Editor!Verify
  <2>3. /\ EditorMoved(n, [jobs[n] EXCEPT !.is = is]) /\ EditorJob([jobs[n] EXCEPT !.is = is])
        /\ [jobs[n] EXCEPT !.is = is].is = is
    BY <2>1, <2>2, EditorIs
  <2>4. EditorFiles(files)'
    BY <1>0, <2>1
  <2> QED BY <2>1, <2>2, <2>3, <2>4 DEF EditorStep
<1>3. CASE Editor!Restore(n)
  <2>1. /\ jobs[n].is = "restoring" /\ jobs' = [jobs EXCEPT ![n].is = "failed"]
        /\ files' = [f \in Editor!Files |-> IF f \in Editor!TransactionFiles(jobs[n].file[1]) THEN jobs[n].files[f]
                                    ELSE files[f]]
    BY <1>3 DEF Editor!Restore
  <2>3. /\ EditorMoved(n, [jobs[n] EXCEPT !.is = "failed"])
        /\ EditorJob([jobs[n] EXCEPT !.is = "failed"])
        /\ [jobs[n] EXCEPT !.is = "failed"].is = "failed"
    BY <2>1, EditorIs
  <2>4. EditorFiles(files')
    <3>1. EditorFiles(jobs[n].files)
      BY <1>0 DEF EditorJob
    <3> QED BY <1>0, <2>1, <3>1 DEF EditorFiles
  <2>5. EditorFiles(files)'
    BY <2>4
  <2> QED BY <2>1, <2>3, <2>5 DEF EditorStep
<1> QED BY <1>1, <1>2, <1>3

(* Every step keeps the saves and the files, *)
LEMMA EditorJobsNext == EditorPage /\ EditorForm /\ EditorJobs /\ [Editor!Next]_(Editor!vars) => EditorJobs'
<1> SUFFICES ASSUME EditorPage, EditorForm, EditorJobs, [Editor!Next]_(Editor!vars) PROVE EditorJobs'
  OBVIOUS
<1>1. ASSUME UNCHANGED <<files, jobs, saves>> PROVE EditorJobs'
  BY <1>1 DEF EditorJobs
<1>2. ASSUME NEW n \in 1..saves, Editor!WriteFile(n) \/ Editor!Verify(n) \/ Editor!Restore(n) PROVE EditorJobs'
  <2>1. PICK new : EditorStep(n, new)
    BY <1>2, EditorSteps
  <2>2. saves' = saves
    BY <1>2 DEF Editor!WriteFile, Editor!Verify, Editor!Restore, Editor!past
  <2>3. EditorJob(new) /\ EditorFiles(files)' /\ jobs' = [jobs EXCEPT ![n] = new]
    BY <2>1 DEF EditorStep, EditorMoved
  <2>4. DOMAIN jobs' = DOMAIN jobs /\ \A m \in 1..saves : EditorJob(jobs'[m])
    BY <2>3 DEF EditorJobs
  <2> QED BY <2>2, <2>3, <2>4 DEF EditorJobs
<1>3. CASE Editor!SaveClick
  <2> DEFINE is == IF ~Editor!Accepted(Editor!Here, itemId, item) THEN "failed"
                   ELSE IF Editor!EditsCategory(Editor!Here, itemId, item) THEN "writing" ELSE "restoring"
             new == [Editor!Save(Editor!Here, itemId, item) EXCEPT !.is = is]
  <2>1. /\ itemId # None /\ item # None /\ item.game = game /\ saves < EditorBounds.saves /\ saves' = saves + 1
        /\ jobs' = [jobs EXCEPT ![saves'] = new] /\ files' = files
    BY <1>3 DEF Editor!SaveClick, Editor!Dirty, Editor!HasFieldErrors, Editor!data
  <2>2. saves \in Nat /\ EditorBounds.saves \in Nat /\ saves' \in 1..EditorBounds.saves /\ DOMAIN jobs = 1..EditorBounds.saves
    <3>1. saves \in Nat /\ EditorBounds.saves \in Nat /\ DOMAIN jobs = 1..EditorBounds.saves
      BY EditorSaves DEF EditorJobs
    <3>2. saves < EditorBounds.saves /\ saves' = saves + 1
      BY <2>1
    <3> QED BY <3>1, <3>2
  <2>3. Editor!Here \in Editor!Files /\ itemId \in Editor!Ids /\ item \in Editor!Records /\ EditorShown(item)
    BY <2>1 DEF EditorPage, EditorForm, EditorShown
  <2>4. /\ new.file = Editor!Here /\ new.id = itemId /\ new.item = item /\ new.is = is
        /\ new.todo = {g \in Editor!TransactionFiles(Editor!Here[1]) : Editor!PlaceOf(g, itemId) # None}
        /\ new.files = files /\ new.merged = merged
        /\ new \in [file : {Editor!Here}, id : {itemId}, item : {item}, todo : {new.todo}, files : {files},
              is : {is}, merged : {merged}]
    BY DEF Editor!Save
  <2>5. is \in {"writing", "restoring", "failed"}
    OBVIOUS
  <2>6. is = "writing" => /\ item.id = itemId /\ DOMAIN item.details = Editor!DetailsOf(Editor!Here)
                          /\ EditorPlace(Editor!Here, itemId) # None
    <3>1. Editor!Here[1] = game /\ EditorFiles(files)
      BY DEF Editor!Here, EditorJobs
    <3>2. is = "writing" => Editor!Accepted(Editor!Here, itemId, item) /\ Editor!EditsCategory(Editor!Here, itemId, item)
      OBVIOUS
    <3>3. Editor!PlaceOf(Editor!Here, itemId) = EditorPlace(Editor!Here, itemId)
      BY <2>3, <3>1, EditorPlaceOf
    <3> QED BY <2>1, <2>3, <3>1, <3>2, <3>3 DEF Editor!Accepted, Editor!EditsCategory,
                                                Editor!DetailsOf, EditorShown
  <2> HIDE DEF is, new
  <2>7. EditorJob(new)
    <3>1. new.todo \subseteq Editor!TransactionFiles(new.file[1]) /\ new.todo \subseteq Editor!Files
      BY <2>4 DEF Editor!TransactionFiles
    <3>2. Editor!Here[1] = game /\ EditorFiles(files)
      BY DEF Editor!Here, EditorJobs
    <3>3. new \in [file : Editor!Files, id : Editor!Ids, item : Editor!Records, todo : SUBSET Editor!Files, files : {new.files},
              is : {"writing", "restoring", "failed", "verified"}, merged : {new.merged}]
      BY <2>3, <2>4, <2>5, <3>1
    <3> QED BY <2>1, <2>4, <2>5, <2>6, <3>1, <3>2, <3>3 DEF EditorJob
  <2>8. /\ DOMAIN jobs' = 1..EditorBounds.saves
        /\ \A n \in 1..saves' : jobs'[n] = IF n = saves' THEN new ELSE jobs[n]
    BY <2>1, <2>2
  <2>9. \A n \in 1..saves' : n = saves' \/ n \in 1..saves
    BY <2>1, <2>2
  <2>10. \A n \in 1..saves' : EditorJob(jobs'[n])
    BY <2>7, <2>8, <2>9 DEF EditorJobs
  <2>11. saves' \in 0..EditorBounds.saves
    BY <2>2
  <2> QED BY <2>1, <2>8, <2>10, <2>11 DEF EditorJobs
<1>4. CASE Editor!NavigationAnswer \/ Editor!ItemsAnswer \/ Editor!ItemAnswer \/ Editor!CallFails \/ Editor!Edit \/ Editor!Analyse
           \/ Editor!ApplySuggestion \/ Editor!SaveAnswer
  BY <1>1, <1>4 DEF Editor!NavigationAnswer, Editor!ItemsAnswer, Editor!ItemAnswer,
                    Editor!CallFails, Editor!Edit, Editor!Analyse,
                    Editor!ApplySuggestion, Editor!SaveAnswer, Editor!data, Editor!past
<1>5. CASE Editor!SaveFails \/ Editor!StatusAnswer \/ Editor!ValidateAll \/ Editor!MergeGame \/ Editor!Publish \/ Editor!Stray \/ Editor!Reload
  BY <1>1, <1>5 DEF Editor!SaveFails, Editor!StatusAnswer, Editor!ValidateAll, Editor!MergeGame,
                    Editor!Publish, Editor!Stray, Editor!Reload,
                    Editor!data, Editor!past
<1>6. /\ \A g, c, d : Editor!Choose(g, c, d) => UNCHANGED <<files, jobs, saves>>
      /\ \A id : Editor!SelectItem(id) => UNCHANGED <<files, jobs, saves>>
      /\ \A r : Editor!AnalysisAnswer(r) => UNCHANGED <<files, jobs, saves>>
  BY DEF Editor!Choose, Editor!SelectItem, Editor!AnalysisAnswer, Editor!data, Editor!past
<1>7. CASE UNCHANGED Editor!vars
  BY <1>1, <1>7 DEF Editor!vars, Editor!data, Editor!past
<1> QED
  BY <1>1, <1>2, <1>3, <1>4, <1>5, <1>6, <1>7
  DEF Editor!Next, Editor!ChooseGame, Editor!ChooseCategory, Editor!ChooseDifficulty

(* the calls of the page, *)
LEMMA EditorCallNext ==
  EditorPage /\ EditorForm /\ EditorJobs /\ EditorCall /\ [Editor!Next]_(Editor!vars) => EditorCall'
<1> SUFFICES ASSUME EditorPage, EditorForm, EditorJobs, EditorCall, [Editor!Next]_(Editor!vars) PROVE EditorCall'
  OBVIOUS
<1>1. ASSUME call' = None \/ call'.is # "save" PROVE EditorCall'
  BY <1>1 DEF EditorCall
<1>2. ASSUME UNCHANGED <<item, call, jobs, saves>> PROVE EditorCall'
  BY <1>2 DEF EditorCall
<1>3. CASE Editor!SaveClick
  <2> DEFINE is == IF ~Editor!Accepted(Editor!Here, itemId, item) THEN "failed"
                   ELSE IF Editor!EditsCategory(Editor!Here, itemId, item) THEN "writing" ELSE "restoring"
             new == [Editor!Save(Editor!Here, itemId, item) EXCEPT !.is = is]
  <2>1. /\ item # None /\ saves < EditorBounds.saves /\ saves' = saves + 1 /\ item' = item
        /\ jobs' = [jobs EXCEPT ![saves'] = new] /\ call' = [is |-> "save", job |-> saves']
    BY <1>3 DEF Editor!SaveClick, Editor!Dirty, Editor!form
  <2>2. saves \in Nat /\ EditorBounds.saves \in Nat /\ DOMAIN jobs = 1..EditorBounds.saves
    BY EditorSaves DEF EditorJobs
  <2>3. call'.job = saves' /\ saves' \in 1..saves' /\ jobs'[saves'] = new
    BY <2>1, <2>2
  <2>4. new.is = is /\ new.id = itemId
    BY DEF Editor!Save
  <2>5. is \in {"writing", "verified"} => item.id = itemId
    BY DEF Editor!Accepted
  <2> HIDE DEF is, new
  <2> QED BY <2>1, <2>3, <2>4, <2>5 DEF EditorCall
<1>4. ASSUME NEW n \in 1..saves, Editor!WriteFile(n) \/ Editor!Verify(n) \/ Editor!Restore(n) PROVE EditorCall'
  <2>1. PICK new : EditorStep(n, new)
    BY <1>4, EditorSteps
  <2>2. saves' = saves /\ item' = item /\ call' = call
    BY <1>4 DEF Editor!WriteFile, Editor!Verify, Editor!Restore, Editor!past, Editor!form
  <2>3. /\ jobs' = [jobs EXCEPT ![n] = new] /\ new.id = jobs[n].id
        /\ new.is \in {"writing", "verified"} => jobs[n].is = "writing"
    BY <2>1 DEF EditorStep, EditorMoved
  <2>4. \A m \in 1..saves : m \in DOMAIN jobs
    BY EditorSaves
  <2>5. \A m \in 1..saves :
          /\ jobs'[m].id = jobs[m].id
          /\ jobs'[m].is \in {"writing", "verified"} => jobs[m].is \in {"writing", "verified"}
    BY <2>3, <2>4
  <2>6. call # None /\ call.is = "save" =>
          /\ call.job \in 1..saves
          /\ jobs[call.job].is \in {"writing", "verified"} => item # None /\ item.id = jobs[call.job].id
    BY DEF EditorCall
  <2> SUFFICES ASSUME call # None, call.is = "save"
               PROVE  /\ call.job \in 1..saves
                      /\ jobs'[call.job].is \in {"writing", "verified"} =>
                           item # None /\ item.id = jobs'[call.job].id
    BY <2>2 DEF EditorCall
  <2>7. call.job \in 1..saves
    BY <2>6
  <2> DEFINE m == call.job
  <2>8. /\ jobs'[m].id = jobs[m].id
        /\ jobs'[m].is \in {"writing", "verified"} => jobs[m].is \in {"writing", "verified"}
    BY <2>5, <2>7
  <2>9. jobs[m].is \in {"writing", "verified"} => item # None /\ item.id = jobs[m].id
    BY <2>6
  <2> QED BY <2>7, <2>8, <2>9
<1>5. CASE Editor!NavigationAnswer \/ Editor!ItemsAnswer \/ Editor!ItemAnswer \/ Editor!CallFails \/ Editor!Analyse \/ Editor!SaveAnswer
  <2>1. CASE Editor!ItemsAnswer
    <3>1. call' = None \/ call' = [is |-> "item"]
      BY <2>1 DEF Editor!ItemsAnswer
    <3> QED BY <1>1, <3>1
  <2>2. CASE Editor!NavigationAnswer \/ Editor!ItemAnswer \/ Editor!CallFails \/ Editor!Analyse
    BY <1>1, <2>2 DEF Editor!NavigationAnswer, Editor!ItemAnswer, Editor!CallFails, Editor!Analyse
  <2>3. CASE Editor!SaveAnswer
    <3>1. call' = [is |-> "status", refresh |-> TRUE]
      BY <2>3 DEF Editor!SaveAnswer
    <3> QED BY <1>1, <3>1
  <2> QED BY <1>5, <2>1, <2>2, <2>3
<1>6. CASE Editor!SaveFails \/ Editor!StatusAnswer \/ Editor!ValidateAll \/ Editor!MergeGame \/ Editor!Publish \/ Editor!Reload
  <2>1. \/ call' = None \/ call' = [is |-> "status", refresh |-> FALSE] \/ call' = [is |-> "lost"]
        \/ call' = [is |-> "navigation"]
    BY <1>6 DEF Editor!SaveFails, Editor!StatusAnswer, Editor!ValidateAll, Editor!MergeGame,
                Editor!Publish, Editor!Reload
  <2> QED BY <1>1, <2>1
<1>7. CASE Editor!Edit \/ Editor!ApplySuggestion
  BY <1>1, <1>7 DEF Editor!Edit, Editor!ApplySuggestion, Editor!Busy
<1>8. CASE Editor!Stray
  BY <1>2, <1>8 DEF Editor!Stray, Editor!form, Editor!past
<1>9. /\ \A g, c, d : Editor!Choose(g, c, d) => call' = [is |-> "items"]
      /\ \A id : Editor!SelectItem(id) => call' = [is |-> "item"]
      /\ \A r : Editor!AnalysisAnswer(r) => call' = None
  BY DEF Editor!Choose, Editor!SelectItem, Editor!AnalysisAnswer
<1>10. ASSUME call' = [is |-> "items"] \/ call' = [is |-> "item"] PROVE EditorCall'
  BY <1>1, <1>10
<1>11. CASE UNCHANGED Editor!vars
  BY <1>2, <1>11 DEF Editor!vars, Editor!form, Editor!past
<1> QED
  BY <1>1, <1>3, <1>4, <1>5, <1>6, <1>7, <1>8, <1>9, <1>10, <1>11
  DEF Editor!Next, Editor!ChooseGame, Editor!ChooseCategory, Editor!ChooseDifficulty

(* and what holds until two saves overlap. *)
LEMMA EditorAloneNext ==
  EditorPage /\ EditorJobs /\ EditorAlone /\ [Editor!Next]_(Editor!vars) => EditorAlone'
<1> SUFFICES ASSUME EditorPage, EditorJobs, EditorAlone, [Editor!Next]_(Editor!vars) PROVE EditorAlone'
  OBVIOUS
<1>1. ASSUME UNCHANGED <<files, jobs, overlap, before, saves>> PROVE EditorAlone'
  BY <1>1 DEF EditorAlone, EditorWritten
<1>2. ASSUME NEW n \in 1..saves, Editor!WriteFile(n) \/ Editor!Verify(n) \/ Editor!Restore(n) PROVE EditorAlone'
  <2>1. PICK new : EditorStep(n, new)
    BY <1>2, EditorSteps
  <2>2. saves' = saves /\ overlap' = overlap /\ before' = before
    BY <1>2 DEF Editor!WriteFile, Editor!Verify, Editor!Restore, Editor!past
  <2> SUFFICES ASSUME ~overlap, saves > 0 PROVE EditorAlone'
    BY <2>2 DEF EditorAlone
  <2> DEFINE job == jobs[saves]
  <2>3. /\ \A m \in 1..(saves - 1) : jobs[m].is \in {"failed", "verified"}
        /\ EditorFiles(before)
        /\ job.is \in {"writing", "restoring"} =>
             job.files = before /\ \A f \in Editor!Files \ Editor!TransactionFiles(job.file[1]) : files[f] = before[f]
        /\ job.is \in {"writing", "verified"} =>
             \A f \in Editor!TransactionFiles(job.file[1]) :
               EditorPlace(f, job.id) # None =>
                 \/ job.is = "writing" /\ f \in job.todo
                 \/ EditorWritten(job, f)
    BY DEF EditorAlone
  <2>4. n = saves
    <3>1. jobs[n].is \in {"writing", "restoring"}
      BY <2>1 DEF EditorStep
    <3>2. saves \in Nat
      BY EditorSaves
    <3> QED BY <2>3, <3>1, <3>2
  <2>5. /\ EditorMoved(saves, new) /\ EditorJob(new)
        /\ \/ /\ job.is = "writing" /\ new.is = "writing"
              /\ \E f \in job.todo :
                   /\ new.todo = job.todo \ {f}
                   /\ \A g \in Editor!Files \ {f} : files'[g] = files[g]
                   /\ EditorPlace(f, job.id) # None => EditorWritten(job, f)'
           \/ /\ job.is = "writing" /\ job.todo = {} /\ new.is \in {"verified", "restoring"}
              /\ files' = files
           \/ /\ job.is = "restoring" /\ new.is = "failed"
              /\ files' = [f \in Editor!Files |-> IF f \in Editor!TransactionFiles(job.file[1]) THEN job.files[f]
                                          ELSE files[f]]
    BY <2>1, <2>4, <2>2 DEF EditorStep
  <2>6. /\ saves \in DOMAIN jobs
        /\ jobs' = [jobs EXCEPT ![saves] = new]
        /\ new.file = job.file /\ new.id = job.id /\ new.item = job.item /\ new.files = job.files
    BY <2>4, <2>5, EditorSaves DEF EditorMoved
  <2>7. jobs'[saves] = new /\ \A m \in 1..(saves - 1) : jobs'[m] = jobs[m]
    BY <2>6, EditorSaves
  <2> HIDE DEF job
  <2>8. ASSUME job.is = "writing", new.is = "writing",
               NEW g \in job.todo, new.todo = job.todo \ {g},
               \A f \in Editor!Files \ {g} : files'[f] = files[f],
               EditorPlace(g, job.id) # None => EditorWritten(job, g)'
        PROVE  EditorAlone'
    <3>1. new.files = before
      BY <2>3, <2>6, <2>8
    <3>2. \A f \in Editor!Files \ Editor!TransactionFiles(job.file[1]) : files'[f] = before[f]
      <4>1. EditorJob(job)
        BY EditorSaves, <2>4 DEF EditorJobs, job
      <4>2. g \in Editor!TransactionFiles(job.file[1])
        BY <2>8, <4>1 DEF EditorJob
      <4> QED BY <2>3, <2>8, <4>2
    <3>3. ASSUME NEW f \in Editor!TransactionFiles(job.file[1]), EditorPlace(f, job.id) # None
          PROVE  f \in new.todo \/ EditorWritten(new, f)'
      <4>1. f \in Editor!Files
        BY DEF Editor!TransactionFiles
      <4>2. CASE f = g
        <5>1. job' = new
          BY <2>2, <2>7 DEF job
        <5>2. EditorWritten(job, g)'
          BY <2>8, <3>3, <4>2
        <5> QED BY <4>2, <5>1, <5>2 DEF EditorWritten
      <4>3. CASE f # g /\ f \in job.todo
        BY <2>8, <4>3
      <4>4. CASE f # g /\ EditorWritten(job, f)
        BY <2>6, <2>8, <4>1, <4>4 DEF EditorWritten
      <4> QED BY <2>3, <2>8, <3>3, <4>2, <4>3, <4>4
    <3> QED BY <2>2, <2>3, <2>6, <2>7, <2>8, <3>1, <3>2, <3>3 DEF EditorAlone
  <2>9. ASSUME job.is = "writing", job.todo = {}, new.is \in {"verified", "restoring"}, files' = files
        PROVE  EditorAlone'
    <3>1. new.files = before /\ \A f \in Editor!Files \ Editor!TransactionFiles(job.file[1]) : files'[f] = before[f]
      BY <2>3, <2>6, <2>9
    <3>3. ASSUME NEW f \in Editor!TransactionFiles(job.file[1]), EditorPlace(f, job.id) # None
          PROVE  EditorWritten(new, f)'
      BY <2>3, <2>6, <2>9, <3>3 DEF EditorWritten
    <3> QED BY <2>2, <2>3, <2>6, <2>7, <2>9, <3>1, <3>3 DEF EditorAlone
  <2>10. ASSUME job.is = "restoring", new.is = "failed",
                files' = [f \in Editor!Files |-> IF f \in Editor!TransactionFiles(job.file[1]) THEN job.files[f]
                                            ELSE files[f]]
         PROVE  EditorAlone'
    <3>1. before = [f \in Editor!Files |-> before[f]]
      BY <2>3 DEF EditorFiles
    <3>2. \A f \in Editor!Files : files'[f] = before[f]
      BY <2>3, <2>10
    <3>3. files' = before
      BY <2>10, <3>1, <3>2
    <3> QED BY <2>2, <2>3, <2>7, <2>10, <3>3 DEF EditorAlone
  <2> QED BY <2>5, <2>8, <2>9, <2>10
<1>3. CASE Editor!SaveClick
  <2> DEFINE is == IF ~Editor!Accepted(Editor!Here, itemId, item) THEN "failed"
                   ELSE IF Editor!EditsCategory(Editor!Here, itemId, item) THEN "writing" ELSE "restoring"
             new == [Editor!Save(Editor!Here, itemId, item) EXCEPT !.is = is]
  <2>1. /\ saves' = saves + 1 /\ saves < EditorBounds.saves /\ overlap' = (overlap \/ Editor!Running # {})
        /\ jobs' = [jobs EXCEPT ![saves'] = new] /\ before' = files /\ files' = files
    BY <1>3 DEF Editor!SaveClick, Editor!data
  <2>2. saves \in Nat /\ EditorBounds.saves \in Nat /\ DOMAIN jobs = 1..EditorBounds.saves
    BY EditorSaves DEF EditorJobs
  <2>3. jobs'[saves'] = new /\ saves' - 1 = saves /\ \A m \in 1..saves : jobs'[m] = jobs[m]
    BY <2>1, <2>2
  <2>4. /\ new.file = Editor!Here /\ new.id = itemId /\ new.is = is
        /\ new.todo = {g \in Editor!TransactionFiles(Editor!Here[1]) : Editor!PlaceOf(g, itemId) # None}
        /\ new.files = files
    BY DEF Editor!Save
  <2> SUFFICES ASSUME ~overlap' PROVE EditorAlone'
    BY DEF EditorAlone
  <2>5. \A m \in 1..saves : jobs'[m].is \in {"failed", "verified"}
    <3>1. \A m \in 1..saves : jobs[m].is \notin {"writing", "restoring"}
      BY <2>1 DEF Editor!Running
    <3>2. \A m \in 1..saves : jobs[m].is \in {"writing", "restoring", "failed", "verified"}
      BY DEF EditorJobs, EditorJob
    <3> QED BY <2>3, <3>1, <3>2
  <2>6. EditorFiles(before')
    BY <2>1 DEF EditorJobs
  <2>7. \A f \in Editor!TransactionFiles(Editor!Here[1]) : EditorPlace(f, itemId) # None => f \in new.todo
    <3>1. EditorFiles(files) /\ \A f \in Editor!TransactionFiles(Editor!Here[1]) : f \in Editor!Files
      BY DEF EditorJobs, Editor!TransactionFiles
    <3>2. \A f \in Editor!TransactionFiles(Editor!Here[1]) : Editor!PlaceOf(f, itemId) = EditorPlace(f, itemId)
      BY <3>1, EditorPlaceOf
    <3> QED BY <2>4, <3>2
  <2>8. is \in {"writing", "restoring", "failed"}
    OBVIOUS
  <2> HIDE DEF is, new
  <2> QED BY <2>1, <2>3, <2>4, <2>5, <2>6, <2>7, <2>8 DEF EditorAlone
<1>4. CASE Editor!NavigationAnswer \/ Editor!ItemsAnswer \/ Editor!ItemAnswer \/ Editor!CallFails \/ Editor!Edit \/ Editor!Analyse
           \/ Editor!ApplySuggestion \/ Editor!SaveAnswer
  BY <1>1, <1>4 DEF Editor!NavigationAnswer, Editor!ItemsAnswer, Editor!ItemAnswer,
                    Editor!CallFails, Editor!Edit, Editor!Analyse,
                    Editor!ApplySuggestion, Editor!SaveAnswer, Editor!data, Editor!past
<1>5. CASE Editor!SaveFails \/ Editor!StatusAnswer \/ Editor!ValidateAll \/ Editor!MergeGame \/ Editor!Publish \/ Editor!Stray \/ Editor!Reload
  BY <1>1, <1>5 DEF Editor!SaveFails, Editor!StatusAnswer, Editor!ValidateAll, Editor!MergeGame,
                    Editor!Publish, Editor!Stray, Editor!Reload,
                    Editor!data, Editor!past
<1>6. /\ \A g, c, d : Editor!Choose(g, c, d) => UNCHANGED <<files, jobs, overlap, before, saves>>
      /\ \A id : Editor!SelectItem(id) => UNCHANGED <<files, jobs, overlap, before, saves>>
      /\ \A r : Editor!AnalysisAnswer(r) => UNCHANGED <<files, jobs, overlap, before, saves>>
  BY DEF Editor!Choose, Editor!SelectItem, Editor!AnalysisAnswer, Editor!data, Editor!past
<1>7. CASE UNCHANGED Editor!vars
  BY <1>1, <1>7 DEF Editor!vars, Editor!data, Editor!past
<1> QED
  BY <1>1, <1>2, <1>3, <1>4, <1>5, <1>6, <1>7
  DEF Editor!Next, Editor!ChooseGame, Editor!ChooseCategory, Editor!ChooseDifficulty

(* Initially. *)
LEMMA EditorInit == Editor!Init => EditorInv
<1> SUFFICES ASSUME Editor!Init PROVE EditorInv
  OBVIOUS
<1>1. /\ game = "classic" /\ category = "language-model" /\ difficulty = "normal"
      /\ items = {} /\ itemId = None /\ item = None /\ baseline = None /\ aiReview = None
      /\ canPublish = FALSE /\ call = [is |-> "navigation"]
      /\ files = EditorSeed /\ stray = FALSE /\ jobs = [n \in 1..EditorBounds.saves |-> None]
      /\ overlap = FALSE /\ saves = 0
  BY DEF Editor!Init
<1>2. "classic" \in EditorGames /\ "language-model" \in Editor!Categories /\ "normal" \in Editor!Difficulties
      /\ EditorBounds.saves \in Nat
  BY EditorGiven DEF Editor!LocalEditorAssumption, Editor!Difficulties, Editor!Pool
<1>3. <<game, category>> \in Editor!Files /\ category \in Editor!CategoriesOf(game) \cup {""}
  BY <1>1, <1>2, EditorFileOf
<1>4. EditorPage
  BY <1>1, <1>2, <1>3 DEF EditorPage, Editor!Here
<1>5. EditorForm
  BY <1>1 DEF EditorForm, EditorShown, Editor!ReviewIsOfForm
<1>6. EditorJobs
  <2>1. EditorFiles(files)
    BY <1>1, EditorSeeded
  <2>2. saves \in 0..EditorBounds.saves /\ DOMAIN jobs = 1..EditorBounds.saves /\ 1..saves = {}
    BY <1>1, <1>2
  <2> QED BY <2>1, <2>2 DEF EditorJobs
<1>7. EditorCall /\ EditorAlone
  BY <1>1 DEF EditorCall, EditorAlone
<1> QED BY <1>4, <1>5, <1>6, <1>7 DEF EditorInv

(* What the invariant says of the files, the saves and the form. *)
LEMMA EditorSays ==
  EditorInv => Editor!TypeOK /\ Editor!FilesKeepRecords /\ Editor!SavedIsKept /\ Editor!ReviewIsOfForm
<1> SUFFICES ASSUME EditorInv PROVE Editor!TypeOK /\ Editor!FilesKeepRecords /\ Editor!SavedIsKept /\ Editor!ReviewIsOfForm
  OBVIOUS
<1>1. EditorPage /\ EditorForm /\ EditorJobs /\ EditorAlone
  BY DEF EditorInv
<1>2. Editor!TypeOK /\ Editor!ReviewIsOfForm
  BY <1>1 DEF EditorPage, EditorForm, EditorShown, Editor!TypeOK
<1>3. Editor!FilesKeepRecords
  BY <1>1, EditorSeeded DEF EditorJobs, EditorFiles, EditorFile, Editor!FilesKeepRecords
<1>4. Editor!SavedIsKept
  <2> SUFFICES ASSUME ~overlap, saves > 0
               PROVE  LET job == jobs[saves] IN
                      /\ job.is = "failed" => files = before
                      /\ job.is = "verified" =>
                           /\ files[job.file][Editor!PlaceOf(job.file, job.id)] = job.item
                           /\ \A f \in Editor!TransactionFiles(job.file[1]) :
                                Editor!PlaceOf(f, job.id) # None =>
                                  files[f][Editor!PlaceOf(f, job.id)].name = job.item.name
    BY DEF Editor!SavedIsKept
  <2> DEFINE job == jobs[saves]
  <2>1. /\ job.is = "failed" => files = before
        /\ job.is = "verified" =>
             \A f \in Editor!TransactionFiles(job.file[1]) :
               EditorPlace(f, job.id) # None => EditorWritten(job, f)
    BY <1>1 DEF EditorAlone
  <2>2. saves \in 1..saves
    BY <1>1, EditorSaves
  <2>3. EditorJob(job) /\ EditorFiles(files)
    BY <1>1, <2>2 DEF EditorJobs
  <2> HIDE DEF job
  <2>4. \A f \in Editor!Files : Editor!PlaceOf(f, job.id) = EditorPlace(f, job.id)
    BY <2>3, EditorPlaceOf
  <2>5. job.file \in Editor!Files /\ job.file \in Editor!TransactionFiles(job.file[1])
        /\ \A f \in Editor!TransactionFiles(job.file[1]) : f \in Editor!Files
    BY <2>3 DEF EditorJob, Editor!TransactionFiles
  <2>6. job.is = "verified" => EditorPlace(job.file, job.id) # None
    BY <2>3 DEF EditorJob
  <2> QED BY <2>1, <2>4, <2>5, <2>6 DEF EditorWritten, job
<1> QED BY <1>2, <1>3, <1>4

(* The files under the editor keep their records; unless two saves overlap,*)
(* one that failed changed nothing and one that was verified is in its     *)
(* files; the review is of the form's record.                              *)
THEOREM EditorAlways ==
  Editor!Spec => [](Editor!TypeOK /\ Editor!FilesKeepRecords /\ Editor!SavedIsKept /\ Editor!ReviewIsOfForm)
<1>1. EditorInv /\ [Editor!Next]_(Editor!vars) => EditorInv'
  BY EditorPageNext, EditorFormNext, EditorJobsNext, EditorCallNext, EditorAloneNext DEF EditorInv
<1> QED BY <1>1, EditorInit, EditorSays, PTL DEF Editor!Spec

-----------------------------------------------------------------------------
(* The catalogue: its validators, releases and seeds. *)
Seeds == INSTANCE CatalogueSeed WITH
  Drafts <- SeedDrafts, Normal <- SeedSlug, Slug <- SeedSlug, AliasId <- SeedAliasId,
  MinModels <- SeedMinModels, MinLogos <- SeedMinLogos, PublicImages <- SeedImages,
  MaxDrafts <- SeedBounds.drafts, MaxReleases <- SeedBounds.releases

(* What the catalogue is given is as its module assumes. *)
ASSUME SeedGiven == Seeds!CatalogueSeedAssumption

(* Each kind of value a detail's key may have, the server reads. *)
LEMMA SeedKinds ==
  ASSUME NEW c \in Seeds!FocusedCategories, NEW k \in Seeds!DetailKeys(c)
  PROVE  Seeds!DetailKinds(k) \subseteq (IF k \in Seeds!Lists THEN {"slugs"}
                                 ELSE IF k \in Seeds!Strings THEN {"slug", "linearity", "text", "null"}
                                 ELSE {"boolean", "null"})
<1>1. \/ k \in {"multimodal", "kernelBased", "requiresTraining"}
      \/ k \in {"toolUse", "realTimeCapable"}
      \/ k = "license" \/ k = "linearity"
      \/ k \in Seeds!Lists
  BY DEF Seeds!FocusedCategories, Seeds!DetailKeys, Seeds!Lists
<1>2. CASE k \in Seeds!Lists
  BY <1>2 DEF Seeds!DetailKinds, Seeds!Lists
<1>3. CASE k \notin Seeds!Lists
  BY <1>1, <1>3 DEF Seeds!DetailKinds, Seeds!Lists, Seeds!Strings
<1> QED BY <1>2, <1>3

(* Details that the validator accepts the server reads; they may lack the  *)
(* architecture only.                                                      *)
LEMMA SeedReads ==
  ASSUME NEW m, Seeds!ValidModel(m), NEW c \in DOMAIN m.details
  PROVE  Seeds!Readable(m.details[c]) /\ Seeds!DetailKeys(c) \ DOMAIN m.details[c] \subseteq {"architecture"}
<1>1. c \in Seeds!FocusedCategories /\ Seeds!ValidDetail(c, m.details[c])
  BY DEF Seeds!ValidModel
<1>2. \A k \in DOMAIN m.details[c] : k \in Seeds!DetailKeys(c) /\ m.details[c][k] \in Seeds!DetailKinds(k)
  BY <1>1 DEF Seeds!ValidDetail
<1>3. Seeds!Readable(m.details[c])
  BY <1>1, <1>2, SeedKinds DEF Seeds!Readable
<1>4. Seeds!DetailKeys(c) \ DOMAIN m.details[c] \subseteq {"architecture"}
  BY <1>1 DEF Seeds!ValidDetail, Seeds!OptionalKeys
<1> QED BY <1>3, <1>4

(* Emoji entries that the validator accepts the server loads, *)
LEMMA SeedEmoji == Seeds!ValidEmoji(data.emoji) => Seeds!EmojiLoads(data.emoji)
<1> SUFFICES ASSUME Seeds!ValidEmoji(data.emoji) PROVE Seeds!EmojiLoads(data.emoji)
  OBVIOUS
<1>1. ASSUME NEW e \in Seeds!Range(data.emoji), NEW v \in Seeds!Range(e.variants)
      PROVE  /\ v.initial # None => v.initial \in 1..Len(v.visuals)
             /\ \A hint \in Seeds!Range(v.visuals) : Seeds!ValidClue(hint)
  <2>1. Seeds!ValidEntity(e)
    BY DEF Seeds!ValidEmoji, Seeds!Each
  <2>2. Seeds!ValidVariant(e, v)
    BY <2>1 DEF Seeds!ValidEntity, Seeds!Each
  <2> QED BY <2>2 DEF Seeds!ValidVariant, Seeds!Each
<1> QED BY <1>1 DEF Seeds!EmojiLoads, Seeds!Each, Seeds!ValidClue

(* and logos, unless a source is of another scheme; each has a clue once   *)
(* five guesses were wrong.                                                *)
LEMMA SeedLogos ==
  Seeds!ValidLogos(data.logos) =>
    /\ Seeds!LogosLoad(data.logos) \/ \E e \in Seeds!Range(data.logos) : e.source \notin {"", "https"}
    /\ \A e \in Seeds!Range(data.logos) : Seeds!RevealedClues(e, 5) # {}
<1> SUFFICES ASSUME Seeds!ValidLogos(data.logos)
             PROVE  /\ Seeds!LogosLoad(data.logos) \/ \E e \in Seeds!Range(data.logos) : e.source \notin {"", "https"}
                    /\ \A e \in Seeds!Range(data.logos) : Seeds!RevealedClues(e, 5) # {}
  OBVIOUS
<1>1. \A e \in Seeds!Range(data.logos) : Seeds!ValidLogo(e)
  BY DEF Seeds!ValidLogos, Seeds!Each
<1>2. \A e \in Seeds!Range(data.logos) : Seeds!RevealedClues(e, 5) # {}
  BY <1>1 DEF Seeds!ValidLogo, Seeds!RevealedClues
<1>3. ASSUME NEW e \in Seeds!Range(data.logos) PROVE e.clues # <<>> /\ e.pool <= 2
  <2>1. Seeds!ValidLogo(e)
    BY <1>1
  <2>2. DOMAIN e.clues # {}
    BY <2>1 DEF Seeds!ValidLogo
  <2>3. DOMAIN << >> = {}
    OBVIOUS
  <2>4. e.clues # <<>>
    BY <2>2, <2>3
  <2>5. e.pool \in 0..2
    BY <2>1 DEF Seeds!ValidLogo
  <2> QED BY <2>4, <2>5
<1>4. ASSUME \A e \in Seeds!Range(data.logos) : e.source \in {"", "https"} PROVE Seeds!LogosLoad(data.logos)
  <2> DEFINE Loads(entry) ==
       /\ Seeds!Formed(entry) /\ entry.pool <= 2 /\ entry.clues # <<>>
       /\ entry.source \in {"", "https"}
       /\ Seeds!Each(entry.clues, LAMBDA hint : Seeds!Formed(hint)) /\ Seeds!Ordered(entry.clues)
       /\ entry.portrait =>
            entry.people /\ \E i \in DOMAIN entry.clues :
              entry.clues[i].after = 3 /\ entry.clues[i].kind = "educational"
  <2>1. ASSUME NEW e \in Seeds!Range(data.logos) PROVE Loads(e)
    BY <1>1, <1>3, <1>4 DEF Seeds!ValidLogo, Seeds!Each
  <2>2. /\ Len(data.logos) >= SeedMinLogos
        /\ Seeds!Distinct(data.logos, Seeds!IdOf) /\ Seeds!Distinct(data.logos, LAMBDA entry : entry.asset)
    BY DEF Seeds!ValidLogos, Seeds!Distinct, Seeds!IdOf
  <2>3. Seeds!Each(data.logos, LAMBDA entry : Loads(entry))
    BY <2>1 DEF Seeds!Each
  <2> QED BY <2>2, <2>3 DEF Seeds!LogosLoad, Seeds!Each, Seeds!Distinct, Seeds!IdOf
<1> QED BY <1>2, <1>4

(* A release's items are the database's, and models they are of are there. *)
SeedInv ==
  /\ data \in SeedDrafts /\ drafts \in Nat /\ releases \in Nat
  /\ DOMAIN db = DOMAIN Seeds!EmptyDatabase
  /\ Seeds!TimelineIsReleased

(* Every step keeps the invariant. *)
LEMMA SeedNext == SeedInv /\ [Seeds!Next]_(Seeds!vars) => SeedInv'
<1> SUFFICES ASSUME SeedInv, [Seeds!Next]_(Seeds!vars) PROVE SeedInv'
  OBVIOUS
<1> USE DEF SeedInv, Seeds!TimelineIsReleased
<1>1. ASSUME NEW d \in SeedDrafts, Seeds!Draft(d) PROVE SeedInv'
  BY <1>1 DEF Seeds!Draft
<1>2. CASE Seeds!MergeTimeline
  BY <1>2 DEF Seeds!MergeTimeline
<1>3. CASE Seeds!Release
  <2> DEFINE seeded == Seeds!SeedData(db, data.classic, timeline)
             kept == Seeds!SeedModels(db, data.classic)
  <2>1. releases' = releases + 1 /\ UNCHANGED <<data, timeline, drafts>>
    BY <1>3 DEF Seeds!Release
  <2>2. CASE seeded = Seeds!Failed
    BY <1>3, <2>1, <2>2 DEF Seeds!Release
  <2>3. CASE seeded # Seeds!Failed
    <3>1. db' = seeded /\ released' = [classic |-> data.classic, timeline |-> timeline]
      BY <1>3, <2>3 DEF Seeds!Release
    <3>2. /\ seeded = [models |-> kept.models, categories |-> kept.categories,
                       aliases |-> kept.aliases, timeline |-> timeline]
          /\ \A i \in timeline : i.kind = "model" => i.id \in DOMAIN kept.models
      BY <2>3 DEF Seeds!SeedData
    <3> HIDE DEF seeded, kept
    <3>3. DOMAIN db' = DOMAIN Seeds!EmptyDatabase
      BY <3>1, <3>2 DEF Seeds!EmptyDatabase
    <3>4. db'.timeline = released'.timeline /\ db'.models = kept.models /\ db'.timeline = timeline
      BY <3>1, <3>2
    <3> QED BY <2>1, <3>2, <3>3, <3>4
  <2> QED BY <2>2, <2>3
<1>4. CASE UNCHANGED Seeds!vars
  BY <1>4 DEF Seeds!vars
<1> QED BY <1>1, <1>2, <1>3, <1>4 DEF Seeds!Next

(* What the validators accept the server reads, a logo has a clue after    *)
(* five misses, and Timeline plays the items of the last release alone.    *)
THEOREM SeedAlways == Seeds!Spec => [](Seeds!TypeOK /\ Seeds!AcceptedIsRead /\ Seeds!FiveMissesHaveClue /\ Seeds!TimelineIsReleased)
<1>1. Seeds!Init => SeedInv
  BY DEF Seeds!Init, SeedInv, Seeds!TimelineIsReleased, Seeds!EmptyDatabase
<1>2. SeedInv => Seeds!TypeOK /\ Seeds!TimelineIsReleased
  BY DEF SeedInv, Seeds!TypeOK
<1>3. Seeds!AcceptedIsRead /\ Seeds!FiveMissesHaveClue
  <2> SUFFICES ASSUME Seeds!Accepted PROVE Seeds!AcceptedIsRead /\ Seeds!FiveMissesHaveClue
    BY DEF Seeds!AcceptedIsRead, Seeds!FiveMissesHaveClue
  <2>1. \A m \in Seeds!Range(data.classic) : Seeds!ValidModel(m)
    BY DEF Seeds!Accepted, Seeds!ValidClassic, Seeds!Each
  <2>2. Seeds!ValidEmoji(data.emoji) /\ Seeds!ValidLogos(data.logos)
    BY DEF Seeds!Accepted
  <2> QED BY <2>1, <2>2, SeedReads, SeedEmoji, SeedLogos DEF Seeds!AcceptedIsRead,
            Seeds!FiveMissesHaveClue
<1> QED BY <1>1, <1>2, <1>3, SeedNext, PTL DEF Seeds!Spec
=============================================================================
