------------------------------ MODULE Browser ------------------------------
(***************************************************************************)
(* The pages of the browser, the tools beside them and the day's           *)
(* challenges behind them: a behaviour is about one of these, open, and    *)
(* its variables are those of the module; the others have no value.        *)
(*                                                                         *)
(* Pages share variables and constants by name only.  Most pages are       *)
(* instances in PagesProofs, which this module extends; the others are     *)
(* instances, here, of the modules that have their theorems: what is       *)
(* proved of a page is known wherever Browser is.                          *)
(***************************************************************************)
EXTENDS PagesProofs

CONSTANT Junk

(* What the other pages are given, and the bounds of their instances, each *)
(* a record with a field for a bound.                                      *)
CONSTANTS
  TimelineModes, TimelineCards, TimelineSize, TimelineAnchor, TimelineMovable,
  TimelineLimit, TimelineEarlier, TimelineBounds,
  SessionUsers, SessionGames, SessionBounds, WritesUsers, WritesGames, WritesBounds,
  DailyModels,
  RaceKinds, RacePools, RaceFirst, RaceShapes, RaceHandlers, RaceBounds,
  RestKinds, RestPools, RestFirst, RestShapes, RestHandlers, RestBounds

VARIABLES
  open,
  accepted, activeUserId, board, challenges, cloudReady, cookie, cooldown, copy,
  drag, entering, gaveUp, given, handler, inner, kind, known, lastSynced, link, local,
  lostEdit, made, marks, pending, player, players, pool, profile, queue, reconciling, release,
  remaining, reveal, server, shape, shows, snapshot, solved, start, started,
  storageMode, straddling, today

all == <<
  open,
  accepted, access, account, accounts, activeUserId, aiReview, arrivals, asked, asking,
  auth, baseline, before, blanked, board, busy, cache, call, canPublish, category,
  challenges, changes, chosen, clicks, cloudHistory, cloudReady, clue, column, cookie,
  cooldown, copy, data, db, detailCalls, detailId, dialog, difficulty, draft,
  drafts, drag, edits, elsewhere, entering, error, failures, files, flight, form, game,
  games, gaveUp, given, guesses, handler, head, histories, historyPage, hydrated,
  image, inner, item, itemId, items, jar, jobs, kind, known, lastSynced, late, legacy,
  link, links, list, listCalls, listState, load, loader, loadingDetail, loads, local,
  lostEdit, made, marks, merged, moves, name, nextId, outside, overlap, overtaken,
  page, pending, pick, played, player, players, pool, preference, preload, profile, progress,
  queue, raced, reading, reads, reconciling, record, release, released, releases,
  reloads, remaining, remote, removals, requests, resets, retries, retry, reveal,
  saved, saves, scope, screen, seen, selected, sent, server, sessions, shape, shared,
  shows, snapshot, solved, stale, start, started, status, storageMode, stored,
  straddling, stray, switches, timeline, timer, toast, today, tokens, unsettled,
  update, user, view, views >>

Board == INSTANCE TimelineScreenProofs WITH
  Difficulties <- TimelineModes, Size <- TimelineSize, Solution <- TimelineCards,
  Anchor <- TimelineAnchor, Movable <- TimelineMovable, Limit <- TimelineLimit,
  Earlier <- TimelineEarlier, MaxMoves <- TimelineBounds.moves,
  MaxSubmits <- TimelineBounds.submits, MaxShows <- TimelineBounds.shows

Session == INSTANCE BrowserSessionProofs WITH
  Users <- SessionUsers, Games <- SessionGames, CacheLimit <- SessionBounds.limit,
  MaxPlayers <- SessionBounds.players, MaxEdits <- SessionBounds.edits

(* A browser of other users, with other bounds: see MCBrowser. *)
Writes == INSTANCE BrowserSessionProofs WITH
  Users <- WritesUsers, Games <- WritesGames, CacheLimit <- WritesBounds.limit,
  MaxPlayers <- WritesBounds.players, MaxEdits <- WritesBounds.edits

Race == INSTANCE DailyChallengeProofs WITH
  Kinds <- RaceKinds, Models <- DailyModels, Pools <- RacePools, First <- RaceFirst,
  Shapes <- RaceShapes, Handlers <- RaceHandlers, Cooldown <- RaceBounds.cooldown,
  LastDay <- RaceBounds.days, MaxChanges <- RaceBounds.changes

Rest == INSTANCE DailyChallengeProofs WITH
  Kinds <- RestKinds, Models <- DailyModels, Pools <- RestPools, First <- RestFirst,
  Shapes <- RestShapes, Handlers <- RestHandlers, Cooldown <- RestBounds.cooldown,
  LastDay <- RestBounds.days, MaxChanges <- RestBounds.changes

ASSUME PagesAssumption ==
  /\ Board!TimelineScreenAssumption
  /\ Session!BrowserSessionAssumption /\ Writes!BrowserSessionAssumption
  /\ Race!DailyChallengeAssumption /\ Rest!DailyChallengeAssumption
-----------------------------------------------------------------------------
(* The variables of other pages than the one that is open. *)
Unused ==
  /\ open # "timeline" =>
       accepted = None /\ board = None /\ cooldown = None /\ drag = None
       /\ gaveUp = None /\ marks = None /\ pending = None /\ remaining = None
       /\ reveal = None /\ server = None /\ shows = None /\ solved = None
       /\ start = None /\ started = None
  /\ open # "classic" =>
       blanked = None /\ games = None /\ loader = None /\ pick = None
       /\ preference = None /\ raced = None /\ requests = None /\ retry = None
  /\ open # "emoji" =>
       access = None /\ asking = None /\ retries = None /\ screen = None
       /\ status = None /\ unsettled = None
  /\ open # "logo" =>
       elsewhere = None /\ error = None /\ guesses = None /\ loads = None
       /\ stale = None
  /\ open # "admin" =>
       asked = None /\ chosen = None /\ clicks = None /\ detailCalls = None
       /\ detailId = None /\ draft = None /\ list = None /\ listCalls = None
       /\ listState = None /\ loadingDetail = None /\ removals = None /\ update = None
       /\ view = None
  /\ open # "engines" =>
       clue = None /\ column = None
  /\ open # "profile" =>
       cloudHistory = None /\ historyPage = None /\ late = None /\ name = None
       /\ reading = None /\ reads = None /\ toast = None
  /\ open # "editor" =>
       aiReview = None /\ baseline = None /\ before = None /\ canPublish = None
       /\ files = None /\ head = None /\ item = None /\ itemId = None /\ items = None
       /\ jobs = None /\ merged = None /\ stray = None
  /\ open # "seed" =>
       data = None /\ db = None /\ drafts = None /\ released = None /\ releases = None
       /\ timeline = None
  /\ open # "stage" =>
       arrivals = None /\ dialog = None /\ image = None
       /\ preload = None /\ progress = None /\ scope = None /\ seen = None
       /\ shared = None /\ stored = None /\ views = None
  /\ open # "api" =>
       flight = None /\ legacy = None
  /\ open \notin {"race", "rest"} =>
       challenges = None /\ given = None /\ handler = None /\ kind = None
       /\ made = None /\ pool = None /\ release = None /\ shape = None
       /\ straddling = None /\ today = None
  /\ open \notin {"race", "rest", "stage"} =>
       changes = None
  /\ open \notin {"timeline", "admin"} =>
       account = None /\ overtaken = None
  /\ open \notin {"timeline", "api"} =>
       sent = None
  /\ open \notin {"timeline", "editor"} =>
       moves = None
  /\ open \notin {"timeline", "logo"} =>
       load = None
  /\ open \notin {"timeline", "profile"} =>
       busy = None
  /\ open \notin {"timeline", "stage"} =>
       saved = None
  /\ open \notin {"session", "writes"} =>
       activeUserId = None /\ cloudReady = None /\ cookie = None /\ copy = None
       /\ entering = None /\ inner = None /\ known = None
       /\ lastSynced = None /\ link = None /\ local = None /\ lostEdit = None
       /\ player = None /\ players = None /\ profile = None /\ queue = None
       /\ reconciling = None /\ snapshot = None /\ storageMode = None
  /\ open \notin {"classic", "emoji"} =>
       failures = None /\ histories = None /\ switches = None
  /\ open # "accounts" =>
       accounts = None /\ auth = None /\ links = None /\ outside = None /\ page = None
       /\ remote = None /\ resets = None /\ tokens = None
  /\ open \notin {"profile", "editor"} =>
       saves = None
  /\ open \notin {"editor", "api"} =>
       overlap = None
  /\ open \notin {"timeline", "admin", "stage"} =>
       selected = None
  /\ open \notin {"timeline", "classic", "emoji"} =>
       cache = None
  /\ open \notin {"session", "writes", "editor"} =>
       edits = None
  /\ open \notin {"session", "writes", "profile"} =>
       user = None
  /\ open \notin {"session", "writes", "stage"} =>
       timer = None
  /\ open \notin {"classic", "emoji", "logo"} =>
       hydrated = None /\ reloads = None
  /\ open \notin {"classic", "profile", "editor"} =>
       category = None
  /\ open \notin {"accounts", "api"} =>
       jar = None /\ sessions = None
  /\ open \notin {"accounts", "profile"} =>
       form = None
  /\ open \notin {"timeline", "accounts", "api"} =>
       nextId = None
  /\ open \notin {"timeline", "logo", "profile", "editor"} =>
       game = None
  /\ open \notin {"session", "writes", "profile", "api"} =>
       played = None
  /\ open \notin {"timeline", "classic", "emoji", "profile", "editor"} =>
       difficulty = None
  /\ open \notin {"session", "writes", "classic", "emoji", "logo"} =>
       record = None
  /\ open \notin {"timeline", "emoji", "logo", "accounts", "editor"} =>
       call = None

Untouched ==
  /\ open # "timeline" =>
       UNCHANGED <<accepted, board, cooldown, drag, gaveUp, marks, pending, remaining,
                   reveal, server, shows, solved, start, started>>
  /\ open # "classic" =>
       UNCHANGED <<blanked, games, loader, pick, preference, raced, requests, retry>>
  /\ open # "emoji" =>
       UNCHANGED <<access, asking, retries, screen, status, unsettled>>
  /\ open # "logo" =>
       UNCHANGED <<elsewhere, error, guesses, loads, stale>>
  /\ open # "admin" =>
       UNCHANGED <<asked, chosen, clicks, detailCalls, detailId, draft, list, listCalls,
                   listState, loadingDetail, removals, update, view>>
  /\ open # "engines" =>
       UNCHANGED <<clue, column>>
  /\ open # "profile" =>
       UNCHANGED <<cloudHistory, historyPage, late, name, reading, reads, toast>>
  /\ open # "editor" =>
       UNCHANGED <<aiReview, baseline, before, canPublish, files, head, item, itemId,
                   items, jobs, merged, stray>>
  /\ open # "seed" =>
       UNCHANGED <<data, db, drafts, released, releases, timeline>>
  /\ open # "stage" =>
       UNCHANGED <<arrivals, dialog, image, preload, progress, scope, seen,
                   shared, stored, views>>
  /\ open # "api" =>
       UNCHANGED <<flight, legacy>>
  /\ open \notin {"race", "rest"} =>
       UNCHANGED <<challenges, given, handler, kind, made, pool, release, shape,
                   straddling, today>>
  /\ open \notin {"race", "rest", "stage"} =>
       UNCHANGED <<changes>>
  /\ open \notin {"timeline", "admin"} =>
       UNCHANGED <<account, overtaken>>
  /\ open \notin {"timeline", "api"} =>
       UNCHANGED <<sent>>
  /\ open \notin {"timeline", "editor"} =>
       UNCHANGED <<moves>>
  /\ open \notin {"timeline", "logo"} =>
       UNCHANGED <<load>>
  /\ open \notin {"timeline", "profile"} =>
       UNCHANGED <<busy>>
  /\ open \notin {"timeline", "stage"} =>
       UNCHANGED <<saved>>
  /\ open \notin {"session", "writes"} =>
       UNCHANGED <<activeUserId, cloudReady, cookie, copy, entering, inner, known,
                   lastSynced, link, local, lostEdit, player, players, profile, queue,
                   reconciling, snapshot, storageMode>>
  /\ open \notin {"classic", "emoji"} =>
       UNCHANGED <<failures, histories, switches>>
  /\ open # "accounts" =>
       UNCHANGED <<accounts, auth, links, outside, page, remote, resets, tokens>>
  /\ open \notin {"profile", "editor"} =>
       UNCHANGED <<saves>>
  /\ open \notin {"editor", "api"} =>
       UNCHANGED <<overlap>>
  /\ open \notin {"timeline", "admin", "stage"} =>
       UNCHANGED <<selected>>
  /\ open \notin {"timeline", "classic", "emoji"} =>
       UNCHANGED <<cache>>
  /\ open \notin {"session", "writes", "editor"} =>
       UNCHANGED <<edits>>
  /\ open \notin {"session", "writes", "profile"} =>
       UNCHANGED <<user>>
  /\ open \notin {"session", "writes", "stage"} =>
       UNCHANGED <<timer>>
  /\ open \notin {"classic", "emoji", "logo"} =>
       UNCHANGED <<hydrated, reloads>>
  /\ open \notin {"classic", "profile", "editor"} =>
       UNCHANGED <<category>>
  /\ open \notin {"accounts", "api"} =>
       UNCHANGED <<jar, sessions>>
  /\ open \notin {"accounts", "profile"} =>
       UNCHANGED <<form>>
  /\ open \notin {"timeline", "accounts", "api"} =>
       UNCHANGED <<nextId>>
  /\ open \notin {"timeline", "logo", "profile", "editor"} =>
       UNCHANGED <<game>>
  /\ open \notin {"session", "writes", "profile", "api"} =>
       UNCHANGED <<played>>
  /\ open \notin {"timeline", "classic", "emoji", "profile", "editor"} =>
       UNCHANGED <<difficulty>>
  /\ open \notin {"session", "writes", "classic", "emoji", "logo"} =>
       UNCHANGED <<record>>
  /\ open \notin {"timeline", "emoji", "logo", "accounts", "editor"} =>
       UNCHANGED <<call>>

Init ==
  /\ open \in {"timeline", "session", "writes", "classic", "emoji",
               "logo", "admin", "engines", "accounts", "profile", "editor",
               "seed", "stage", "api", "race", "rest"}
  /\ Unused
  /\ open = "timeline" => Board!Init
  /\ open = "session" => Session!Init
  /\ open = "writes" => Writes!Init
  /\ open = "classic" => Classic!Init
  /\ open = "emoji" => Emoji!Init
  /\ open = "logo" => Logo!Init
  /\ open = "admin" => Admin!Init
  /\ open = "engines" => Engines!Init
  /\ open = "accounts" => Accounts!Init
  /\ open = "profile" => Profile!Init
  /\ open = "editor" => Editor!Init
  /\ open = "seed" => Seeds!Init
  /\ open = "stage" => Stage!Init
  /\ open = "api" => Api!Init
  /\ open = "race" => Race!Init
  /\ open = "rest" => Rest!Init

Next ==
  /\ open' = open
  /\ Untouched
  /\ \/ open = "timeline" /\ Board!Next
     \/ open = "session" /\ Session!Next
     \/ open = "writes" /\ Writes!Next
     \/ open = "classic" /\ Classic!Next
     \/ open = "emoji" /\ Emoji!Next
     \/ open = "logo" /\ Logo!Next
     \/ open = "admin" /\ Admin!Next
     \/ open = "engines" /\ Engines!Next
     \/ open = "accounts" /\ Accounts!Next
     \/ open = "profile" /\ Profile!Next
     \/ open = "editor" /\ Editor!Next
     \/ open = "seed" /\ Seeds!Next
     \/ open = "stage" /\ Stage!Next
     \/ open = "api" /\ Api!Next
     \/ open = "race" /\ Race!Next
     \/ open = "rest" /\ Rest!Next

Spec == Init /\ [][Next]_all
-----------------------------------------------------------------------------
(* Properties: each is of a page, stated in the page's module. *)

TypeOK ==
  /\ open = "timeline" => Board!TypeOK
  /\ open = "session" => Session!TypeOK
  /\ open = "writes" => Writes!TypeOK
  /\ open = "classic" => Classic!TypeOK
  /\ open = "emoji" => Emoji!TypeOK
  /\ open = "logo" => Logo!TypeOK
  /\ open = "admin" => Admin!TypeOK
  /\ open = "engines" => Engines!TypeOK
  /\ open = "accounts" => Accounts!TypeOK
  /\ open = "profile" => Profile!TypeOK
  /\ open = "editor" => Editor!TypeOK
  /\ open = "seed" => Seeds!TypeOK
  /\ open = "stage" => Stage!TypeOK
  /\ open = "api" => Api!TypeOK
  /\ open = "race" => Race!TypeOK
  /\ open = "rest" => Rest!TypeOK

(* The Timeline board holds each card once: see TimelineScreen. *)
BoardHoldsACardOnce == open = "timeline" => Board!BoardHoldsACardOnce

(* A submission asked for again under its request id, while its game stays *)
(* shown, has the order it was first sent with: see TimelineScreen.        *)
RetryKeepsOrder == open = "timeline" => Board!RetryKeepsOrder

(* The Timeline page shows results the server gave, and opens again on the *)
(* board it was left with, until an answer is applied to another page than *)
(* the one it was asked from: see TimelineScreen.                          *)
TimelineShowsRecorded ==
  open = "timeline" =>
    Board!ShownResultIsServers /\ Board!ReopenKeepsBoard

(* A browser whose player is an account's keeps and shows what that        *)
(* account played, and of no other account: see BrowserSession.            *)
NoForeignProgress ==
  /\ open = "session" => Session!NoForeignProgress
  /\ open = "writes" => Writes!NoForeignProgress

(* Preferences that no step dropped reach the account, and the page loaded *)
(* again finds what was shown, but for games beyond the limit of the       *)
(* session's copy: see BrowserSession.                                     *)
ProgressIsStored ==
  /\ open = "session" => Session!SettledPreferencesAgree /\ Session!ReloadShowsSame
  /\ open = "writes" => Writes!SettledPreferencesAgree /\ Writes!ReloadShowsSame

(* Of one user, no step but clearing the data and the answer to entering   *)
(* the Inner Circle takes a game off the page that shows it; none writes   *)
(* older preferences over newer ones: see BrowserSession.                  *)
NothingIsTakenBack ==
  [][/\ open = "session" => Session!GamesStay /\ Session!WriteIsNewer
     /\ open = "writes" => Writes!GamesStay /\ Writes!WriteIsNewer]_all

(* The boards of Classic, Emoji and Logo are made of what the server       *)
(* recorded for them, whatever is switched, repeated or reloaded, but for  *)
(* Emoji boards that a lost answer, a stale history or another board's has *)
(* unsettled, until they are loaded again: see EmojiScreen.  The Logo's    *)
(* image and clues are those of its progress and player.                   *)
BoardsAreServers ==
  /\ open = "classic" =>
       Classic!SettledShowsSelected /\ Classic!BoardBacked /\ Classic!GuessShownOnce
  /\ open = "emoji" => Emoji!BoardIsServers
  /\ open = "logo" => Logo!BoardIsServers
  /\ open = "stage" => Stage!ImageIsOfProgress /\ Stage!ViewsAreOfScope

(* The administrator saves what is shown of whom is shown, and the profile *)
(* shows what its tabs ask for: see AdminScreen and ProfileScreen.         *)
PagesShowAsked ==
  /\ open = "admin" =>
       Admin!ListIsAsked /\ Admin!ChosenIsShown /\ Admin!SavedIsDrafted /\ Admin!RecordShowsGame
  /\ open = "profile" =>
       Profile!HistoryIsOfTab /\ Profile!NameIsAccounts

(* Links, sessions, cookies and deletion, and one player of a browser      *)
(* whose first game call was answered before the second was sent: see      *)
(* AccountScreens and ApiCalls.                                            *)
AccountsAreGuarded ==
  /\ open = "accounts" =>
       Accounts!ResetEndsSessions /\ Accounts!OnlyNewestLinkWorks /\ Accounts!NothingOfDeleted
  /\ open = "api" => Api!CallsPass /\ Api!OnePlayer

(* All who play a day get its one challenge, whose guesses can be checked, *)
(* and an answer rests before it comes back: see DailyChallenge.           *)
DayHasOneChallenge ==
  /\ open = "race" => Race!OneChallengeADay /\ Race!GivenIsStored /\ Race!InsertedIsFound
                      /\ Race!AnswersRest
  /\ open = "rest" => Rest!OneChallengeADay /\ Rest!GivenIsStored /\ Rest!AnswersRest

(* The catalogue under the editor keeps its records, and as long as no two *)
(* saves overlap what was saved; what the validators accept of it the      *)
(* server reads and Timeline plays: see LocalEditor and CatalogueSeed.     *)
CatalogueIsKept ==
  /\ open = "editor" => Editor!FilesKeepRecords /\ Editor!SavedIsKept /\ Editor!ReviewIsOfForm
  /\ open = "seed" => Seeds!AcceptedIsRead /\ Seeds!FiveMissesHaveClue /\ Seeds!TimelineIsReleased

(* The browser's clues and the server's are the same, column by column,    *)
(* but for a date without a month, details without an optional key, no     *)
(* details against an empty list, and separators in a row: see             *)
(* ClueEngines.                                                            *)
EnginesAgree ==
  open = "engines" =>
    Engines!EnginesAgree /\ Engines!AnswerMatchesItself /\ Engines!ShownColumnsHaveClues

(* What a loop makes of records says what the records say: the streaks of  *)
(* the profile, the merged file of the editor while no two saves overlap,  *)
(* the names the validator tells apart and the tables that seeds leave.    *)
DerivedIsOfRecords ==
  /\ open = "profile" => Profile!StreaksAreRuns
  /\ open = "editor" => Editor!MergedHasSaved
  /\ open = "seed" => Seeds!TermsNameOneModel /\ Seeds!ReleasedIsServed /\ Seeds!SeedRepeats
=============================================================================
