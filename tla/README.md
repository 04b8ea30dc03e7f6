# aaidle: models, checks and proofs

aaidle is a set of daily guessing games about AI models. A Rust server (`src/backend/`,
axum, sqlx, one SQLite database in WAL mode) keeps the games, the accounts and the statistics;
a React client (`src/src/`) shows the games, keeps a local copy of a player's progress and
reconciles it with the server; a local editor (`src/local_editor/`), scripts (`src/scripts/`) and a
seed program carry the catalogue of models from JSON files into the database. This directory holds
TLA+ models of the server's core, of the browser's pages and of the catalogue's way, TLC
configurations that check them on small instances, and TLAPS proofs for every instance.

Paths below are relative to the repository, which `PROJECT.json` has under `src/`; `mod.rs` is
`backend/src/repository/mod.rs`, `progress.rs` and `auth.rs` are in `backend/src/`, `timeline.rs` is
`backend/src/repository/timeline.rs`, and a `.tsx` or `.ts` without a path is under `src/` (the
client). `PROJECT.json` maps each definition to its lines.

Run a check with `tlc -config ClassicGuessRace.cfg MCClassicGuess`, a proof with
`tlapm TimelineProofs.tla`.

## Inventory

| Component | State | Operations | Talks to | Modelled |
|---|---|---|---|---|
| Classic guesses (`mod.rs`, `api/v1/classic.rs`) | `guess_events`, `challenge_guess_stats`, `challenge_completion_counts`, `player_mode_stats` | guess, game view, statistics | accounts (which player), catalogue (which pool), rate limits | guess: `ClassicTables`, `ClassicGuess` |
| Account progress (`progress.rs`) | `user_player_links`, `user_progress_profiles`, `user_challenge_completions`, `user_game_progress`, `user_unlocks`, `user_game_states` | reconcile, canonical player, record completion, preferences, history | all game tables | `AccountProgress`; Timeline's part in `Timeline` |
| Administration (`api/v1/admin.rs`, `AdminPage.tsx`, `AdminProgressRecord.tsx`) | users, guesses; the page's list, record and drafts | change a user, remove a guess; search, open, draft, save | game and account tables | removal: `AccountProgress`; page: `AdminScreen` |
| Timeline (`timeline.rs`) | `timeline_attempts`, `timeline_speedrun_starts`, `timeline_user_completions`, `timeline_challenges` | submit, start, give up, leaderboards | accounts | `Timeline` |
| Timeline page (`TimelineGame.tsx`, `use-timeline-game.ts`) | the board, marks, copies in memory and `localStorage`, calls in flight | load, arrange, submit, start, give up | Timeline | `TimelineScreen` |
| Classic page (`ClassicGame.tsx`, `use-classic-game-loader.ts`) | boards, a guess being sent, histories | switch, load, guess, retry | Classic | `ClassicScreen` |
| Emoji (`use-emoji-game.ts`; `repository/emoji.rs`) | one board on the screen, others in a cache; `visual_clue_*` | switch, guess | as Classic | `EmojiScreen` |
| Logo (`use-logo-game.ts`, `LogoGame.tsx`, `LogoClues.tsx`; `repository/logo.rs`, `logo_images.rs`) | game, image, clues viewed; `logo_*`, an image cache | guess, look at clues, share | image hosts | `LogoScreen`, `LogoStage` |
| Comparison (`domain/comparison.rs`, `comparison-engine.ts`) | none | compare two models, twice implemented | Classic, client | `ClueEngines` |
| Browser progress (`local-progress-store.ts`, `cloud-progress.ts`, `ProgressSync.tsx`) | local snapshot, session copy, preference queue; the player's cookie | store, reconcile, read histories, retry, clear | account progress | `BrowserSession` |
| Accounts and sessions (`auth.rs`, `App.tsx`, the forms) | `users`, `user_sessions`, `auth_email_tokens`, cookies; the forms | sign in, rotate, verify, reset, delete | everything signed in | `AccountScreens` |
| API client and router (`client.ts`, `api/v1.rs`) | cookies | send, guard, identify the device, time out | all handlers | `ApiTable`, `ApiCalls`; the timeout: `Drop` of `ClassicGuess` |
| Profile page (`ProfilePage.tsx`, `UsernameForm.tsx`, `streak-service.ts`) | tab, page of history, user name | read, turn, save | account progress | `ProfileScreen` |
| Local editor (`local_editor/`, `classic-merge-to-one.mjs`) | form, review, files | edit, review, save, merge, publish | files of `data/` | `LocalEditor` |
| Catalogue seed and validators (`bin/seed/main.rs`, `scripts/validate-*.mjs`) | files, models, categories, clues | validate, merge, seed | pools of all games | `CatalogueSeed`; its effect on a game: `Seed` of `ClassicGuess` |
| Daily challenge selection (`mod.rs`, `domain/selection.rs`, `timeline.rs`, `repository/emoji.rs`, `repository/logo.rs`) | `daily_challenges`, `visual_clue_challenges`, `logo_challenges`, `timeline_challenges` | find, select, insert, delete or replace the challenge of a day | catalogue, all games | `DailyChallenge` |
| Rate limits (`auth.rs`, `api/v1.rs`) | `request_rate_limits` | consume four scopes before a guess | guess handlers | planned |
| Issue reports (`issues.rs`) | daily limits | report, ask for a higher limit | issue tracker | planned |
| Trajectory tokens (`domain/trajectory.rs`) | none | sign the guesses of a game | Classic | pure, out |
| Rendering, sound, dashboards, deployment | none of the running system | | | out |

What makes it correct, by component: a game board has attempts 1, 2, 3 ... with at most one
solve, at its end; aggregates and statistics say what the events say; an answer to a retry is the
answer to the first request; a device belongs to one account, and so do its guesses; a merge
loses and invents nothing; completions and unlocks are backed by stored guesses; a Speedrun has
one clock, one end and one line on the leaderboard; all who play a day get one challenge, and its answer has rested. On a page: what is shown is what the server
recorded for the board, account, tab or form that is shown, whichever answers are late, lost or overtaken;
what is sent again is what was sent; what is played under an account is no other's, and goes with it;
and nothing that was stored is silently taken back. In the catalogue: what the scripts accept can be
read, seeded again, and played.

What is hard here: every guess is a *deferred* SQLite transaction, so all its checks
run on a snapshot that another commit may outdate before the first write; reconciliation is a
transaction followed by separate statements; the request timeout drops a handler at any `await`; clients
retry what they saw no answer to; two devices of one account play the same challenge before
they know of each other; and each page has several effects with calls in flight, some cancelled,
some numbered and some neither, above copies of the same state in memory, in storage and on the
server. The list of hazards, each at its line, is in `PROJECT.json`.

## Modules

### Server

- `ClassicTables`: the tables, the early returns of `process_guess_once` in the code's order
  (`Verdict`) and the writes of an accepted guess (`AcceptGuess`, with streaks and statistics).
  Shared by the two modules below.
- `ClassicGuess` (extends `ClassicTables`): guess calls under contention. A call is received
  (`Receive`), reads on a snapshot (`Snapshot`), writes if nothing has committed since (`Write`),
  or is sent round the retry loop (`Busy`, `Retried`), is answered and delivered (`Deliver`) or
  dropped by the timeout or a crash (`Drop`). `Seed` changes the pools beside it. From its first
  write on a transaction holds SQLite's only write lock, which is why the writes and the COMMIT
  are one step.
- `GuessLedger`: the abstract promise, boards to which guesses are appended and a count of
  solvers. `ClassicGuess` implements it: `Ledger == INSTANCE GuessLedger WITH ...`.
- `AccountProgress` (extends `ClassicTables`): a handler is a `task` that goes through the
  phases of the code, one per transaction or statement: `Canonical`, `Guess`, `Record`; `Sync`,
  then `ReadModes`, `ReadRows`, `StoreRow` (the rebuild after the commit), `CheckAccess`,
  `Grant`; `RemoveGuess` with the same rebuild. Between two phases any other handler may run, and
  this one may be dropped. That `Guess` may be one step is what `ClassicGuess` shows.
- `Timeline`: submissions, starts and surrenders as a snapshot step and a write step, and what
  reconciliation does to them (`Sync`: claim, move, renumber, complete). A commit clears every
  other open call, because the upgrade of that call must fail: a submission that is tried again
  is a new call (its retry loop has the same shape as Classic's, and is modelled there); starts
  and surrenders are not tried again.
- `DailyChallenge`: the challenge of a day in the four games, with `kind` the game. A request goes
  through the statements of its generator: find, delete a Timeline of another size or replace a Logo
  that is gone, select, insert if there is none, read again. Other requests, a midnight, a seed or a
  restart may come between any two; `given` keeps what requests were answered with.

### Browser

In all of these a call is a record in a variable: it is sent, the server handles it (when it is
sent, or, where the module says so, at a moment of its own), and its answer arrives later or is lost.
Bounds on clicks, calls and reloads are constants.

- `TimelineScreen`: `Loading` (mount, switch, account, the four places a game may come from),
  `Moving` (pointer, tap, key, text drop, all through `Moved` = `moveTimelineModel`) and `Calling`
  (submission, start, surrender, the load after a solve). `board`, `marks` and the flags are the hook's
  state; `cache` and `saved` its two copies; `overtaken` and `sent` record what an answer was
  applied to and what an id was sent with. `RetryKeepsOrder` speaks of a game only while it stays shown: the
  kept id is cleared by a move and by a success alone, so after a switch it goes with the other game's order. An
  account's record is the browser player's (its primary player is the one in the cookie).
- `ClassicScreen`: the loader with its cache and fallback (`LoadAnswer`, `LoadFails`), guesses with
  the retry of a failed one (`Pick`, `PickAgain`), and a history for each board, read once.
- `EmojiScreen`: one board on the screen, a cache of those that were left, the question whether Hardcore
  is open, and the calls of whichever board was shown when they were sent. `Undisturbed` says which histories
  leave a board as it was: one that comes after its board was left does. One older than the last guess, one that
  meets the answer of a guess, one of another board and one that cannot be read do not (`unsettled`), nor does a
  lost answer, and `BoardIsServers` is silent on such a board until it is loaded again.
- `LogoScreen`, `LogoStage`: the game behind the Logo page (load, then history, then guesses; a
  refused guess reads the history again), and what is shown of any progress it may give (image and its
  preload, clues viewed, the dialog and the shared text).
- `BrowserSession`: the store and its two modes, the copy of an account's progress in
  `sessionStorage` with its limit (`CacheLimit`, 64 in the code), reconciliation with its merge, the
  preference queue with its two retries, entering the Inner Circle, signing out, an ended session, clearing,
  reload; with the links, profiles and recorded games of the server. Whom a call comes from is the HttpOnly
  cookie `aaidle_player` (`player`), which the first answer brings and nothing takes away: `Caller` and
  `Identified` are `anonymous_player_identity`, `Linked` the refusal of a player that another account has,
  `Recorded` a guess under the cookie's or the account's player, `ReadHistory` what the Classic page stores of the
  cookie's player. The id in `localStorage`, which the server ignores, is left out.
- `AccountScreens`: the tables of accounts, tokens and sessions; `Serve` is a handler (login and reset
  in their two transactions); the tab has a path, a form and the user `AuthProvider` knows; another
  device signs in between (`RemoteRotates`), another tab changes the cookies (`OutsideStep`).
- `ProfileScreen`: tabs, pages of history with the reads that were cancelled (`late`), statistics as
  folds over the games, and the user name.
- `AdminScreen`: list, record and update calls in flight and their numbers, and the drafts on them. The server
  answers the page that was asked for, so the correction of `AdminPage.tsx:62` never applies and is left out.
- `ApiTable`, `ApiCalls`: each call of `client.ts` beside the route, request type and guard of the server;
  then calls in flight with the cookies their answers set.
- `ClueEngines`: the comparison of each column by the browser's engine and by the server's, as operators;
  values, numbers, dates, lists and what each engine normalises a value to are constants. A behaviour
  chooses a column and a pair of models.

### Catalogue

- `LocalEditor`: the page with its selectors, form and review; saves at the server in threads
  (`WriteFile`, `Verify`, `Restore`), the merge of the Classic files, publishing.
- `CatalogueSeed`: drafts of the files, the rules of the validators, releases, and the seed as a function
  of the files and of the database it finds.

### Composition

`Browser` has an instance of each page over constants of its own, and `open`, the page a behaviour is about:
pages of a browser are open one at a time, and what they share (player, session, progress) is the
subject of `BrowserSession`, `AccountScreens` and `ApiCalls`. The session and the day's challenges have two
instances each, with other bounds; the bounds of `EmojiScreen` and `AccountScreens` are a set of records, and a
behaviour stays within one of them (`Bounded`). Variables of the same name are shared, the others are `None`. The
properties of the pages that are run together are stated there, for any constants; `MCBrowser` gives the
constants values, as `MCClassicGuess`, `MCAccountProgress`, `MCTimeline` and `MCAccountScreens` do for their modules.

`*Proofs` are the proofs. A page with a proof module of its own is an instance of that module, in `Browser`;
the other pages are instances in `PagesProofs`, beside their proofs, and `Browser` extends it. Either way
what is proved of a page is known of the instance that `Browser` runs.

Definitions whose names end in `_Something` and are marked MUTANT are plausible faults: each is
put in the place of the definition it varies, and the property it is listed with must then fail.

## Checks

| Run | Instance | Shows |
|---|---|---|
| `classic_race` | 2 calls, 2 players, 3 models, 1 challenge, 2 pools, 1 try | numbering, one solve, aggregates, current snapshots, backed answers, acceptance within the pool |
| `classic_days` | 1 player, 3 days with a gap, another game's challenge | statistics and streaks, in any order of days |
| `classic_ledger` | 2 calls, 2 players, 2 models, 3 tries, no symmetry | refinement of `GuessLedger`; every call ends |
| `account_merge` | 2 devices, 1 account, 2 days, 2 handlers that may be dropped | unique guesses, solvers never undercounted, statistics never ahead, unlocks earned |
| `account_moderation` | 2 devices, 2 accounts, removals | events owned by the linked account, completions backed |
| `timeline` | 2 devices, 2 accounts, a Speedrun, a free and a Hardcore challenge, 2 calls | numbering after merges, one end of a run, its time, one run per account, completions backed, acceptance in play |
| `browser_pages` | 16 instances, a behaviour is about one | below |
| `account_relink`, `account_keeps_solves`, `account_rebuild`, `account_removal`, `account_reset_link` | as small as the case allows | a counterexample each, below |

`browser_pages` (1.40 million distinct states) shows:

| Property | Of | Bounds |
|---|---|---|
| `BoardHoldsACardOnce`, `RetryKeepsOrder`, `TimelineShowsRecorded` | `TimelineScreen` | a game of 3 cards, with a wrong order submitted before or not, and a Speedrun of 2, one an anchor; 1 move, 2 request ids, 2 games put on the page |
| `NoForeignProgress`, `ProgressIsStored`, `NothingIsTakenBack` | `BrowserSession` | a copy of 1 game; 2 users, 2 games and 2 players, or 1 user, 1 game, 1 player and 2 edits |
| `BoardsAreServers` | `ClassicScreen`, `EmojiScreen`, `LogoScreen`, `LogoStage` | 2 categories and difficulties, 1 switch, 2 guesses, 1 reload; 2 difficulties, 1 guess, with 2 switches, or 1 switch and 1 retry or 1 reload; 3 models, 1 guess elsewhere, 2 loads, 1 reload; 2 clues, 1 wrong guess, 2 scopes, 2 answers |
| `PagesShowAsked` | `AdminScreen`, `ProfileScreen` | 2 accounts on pages of one, 2 searches, 5 clicks; 4 records of up to 4 games, 2 names, 3 reads, 1 save |
| `AccountsAreGuarded` | `AccountScreens`, `ApiCalls` | 1 address; 2 passwords and 3 ids, or 1 and 4; 1 step outside the forms; every call of the client, 3 in a row, those of sessions and a Timeline submission also while another is open |
| `DayHasOneChallenge` | `DailyChallenge` | 3 models, 2 pools, 1 seed or restart; 2 requests, 2 days, 2 sizes and a cooldown of 1, or 1 request, 3 days and a cooldown of 2 |
| `CatalogueIsKept` | `LocalEditor`, `CatalogueSeed` | 3 files, 2 values, 1 change of the selection, 1 edit, 2 saves; 39 drafts, 2 of them in turn, 2 releases |
| `EnginesAgree` | `ClueEngines` | every column, every pair of cells over 4 values, 2 numbers and 8 dates; lists of 2 values where a column reads several keys |
| `DerivedIsOfRecords` | `ProfileScreen`, `LocalEditor`, `CatalogueSeed` | as above |
| `TypeOK` | all | as above and below |

Each of these is a conjunction of properties that its module states and comments: `AccountsAreGuarded`, for
example, is `ResetEndsSessions`, `OnlyNewestLinkWorks`, `NothingOfDeleted`, `CallsPass` and `OnePlayer`.
`DerivedIsOfRecords` has those that speak of what a loop over records gives: the profile's streaks
(`StreaksAreRuns`), the merged file (`MergedHasSaved`), the terms a validator has registered
(`TermsNameOneModel`) and the tables a seed leaves (`ReleasedIsServed`, `SeedRepeats`).

Where a property stops, because the code goes wrong there and no document says what it owes:

| Property | Is silent on |
|---|---|
| `TimelineShowsRecorded` | a page to which the answer of another page was applied (`overtaken`) |
| `ProgressIsStored` | edits that were dropped: undone while being written, given up after two retries, pending at a reload (`lostEdit`); games beyond the limit of the session's copy |
| `NothingIsTakenBack` | clearing the data, and the answer to entering the Inner Circle, which puts back the progress it was asked with |
| `BoardsAreServers` | unsettled Emoji boards (see `EmojiScreen` above); a Classic guess that two devices raced |
| `AccountsAreGuarded` | the session of a login that was checked before a reset and opened after it; signed-out players when two first game calls overlapped |
| `CatalogueIsKept`, `DerivedIsOfRecords` | what a save leaves once two saves overlapped (`overlap`), but that files keep their records |
| `EnginesAgree` | a date without a month, details without an optional key, no details against an empty list, and text the engines normalise differently (`KnownDifference`) |
| `PlayerStatsExact` | merges, which delete and rebuild the row: there, `StatsNeverAhead` |

Bounds of the server's runs. Two overlapping calls are enough for each hazard of a transaction, which compares one snapshot with
one commit; two devices for a merge, which names one device and one primary player; three tries, in
`classic_ledger`, to go round the retry loop and to fall out of it, and one in `classic_race`, where a call
that is sent again takes the place of another try. Three models let a board
grow past a wrong guess and its solve, with a pool of one to fall below it. Three days with a gap
between the second and the third give every case of the streak. A request id is used once in
`AccountProgress` (`sent`), which bounds the guesses of an instance; retries under the same id are
the subject of `ClassicGuess`. `MaxTime` is 1: two instants are enough for a run to be started
before it is solved, for submissions of two devices to be in either order, and to be equal.
The clock of `Timeline` does not go back. Symmetry is used in the runs with no
liveness property, over sets whose members the constants do not tell apart.

Bounds of the pages. A page's hazard is an answer and what was done since it was asked for: one switch
or move between them and one call after them, a lost answer and its retry, and one reload are what the
code tells apart. Two accounts are needed for one's progress to reach the other, four
ids for an account deleted and registered anew to meet an old link, two reads for one to overtake the
other and a third to follow both. `MaxOutside` and `MaxElsewhere` let one step of another tab or
device fall anywhere. A second release meets a database the first wrote, or failed to write. Two requests are enough
for a statement of one to fall between two of the other, two days for a request to be overtaken by midnight, and three days
for a pool of two to be used up within the cooldown.

Fairness. Only `classic_ledger` assumes any: weak fairness of `Serve(k)`, the steps the server
takes for a call. The runtime polls every future that is ready and `busy_timeout` (`db.rs`) bounds the
wait for the write lock. Nothing is assumed of clients, of `Drop` or of `Seed`, and nothing of the pages: their
properties are about what is shown and stored, and a user may always stop.

Deadlock is checked in the server's runs. A page may stop, when its bounds are used up or it is
left alone, so `browser_pages` and `account_reset_link` do not check it.

### Where the code and its documentation differ

- `account_relink`: completions are recorded only by the reconciliation that links a device
  (`progress.rs:427`), so what a linked device solves signed out is claimed later, and never
  recorded; `docs/backend/api-v1.md:167`.
- `account_keeps_solves`: the merge deletes a device's guess when the primary player has the same
  one, even if that one belongs to no account: the account loses the solve (`progress.rs:264`);
  `api-v1.md:169`.
- `account_rebuild`: a guess accepted between the read and the write of the rebuild is overwritten
  in the statistics row (`mod.rs:849-921`); `api-v1.md:169`.
- `account_removal`: removing a solve leaves `challenge_completion_counts` as it was
  (`api/v1/admin.rs:235`); `docs/architecture.md:59`.
- `account_reset_link`: `/reset-password` is a page for those who are signed in (`App.tsx:123`), so the
  mailed link sends the visitor it is for to the login page; `docs/backend/api-v1.md:150`.

Seen while reading and not put into a run: attempt numbers of a merged Classic board repeat, since
only Timeline renumbers (`progress.rs:275`; `architecture.md:73`); Hardcore access counts categories
of any date, while `api-v1.md:86` speaks of the current UTC date (`api/v1/classic.rs:207`);
removal below six categories deletes from `user_hardcore_access`, while grants are stored in
`user_unlocks` (`admin.rs:290`). `BrowserSession` has two more in its steps. The player in the cookie outlives signing
out, so the next user of the browser is refused with `PLAYER_ALREADY_LINKED` at every login there
(`progress.rs:198`), while `api-v1.md:165` has a reconciliation after login link the anonymous player: `Login`, `SignOut`,
`Login` of another user, whose `Linked` is false. And the Classic page, signed out, reads the history of that player
and stores the account's games (`ClassicGame.tsx:213`), while `local-progress-store.test.ts:133` "starts a fresh anonymous
cache after sign out": `Login`, `ReconcileAnswer`, `Play`, `SignOut`, `ReadHistory`.

## Proofs

All are for any number of players, accounts, models, challenges, calls, tries, cards, moves and games.
The assumptions on constants are those of the modules: models, players, challenges and calls of
Classic are finite, a day and a mode name one challenge (the unique index of `daily_challenges`), stand-ins
for NULL are no values, solutions and the orders submitted before are valid ones, and two anchors of a board are
two cards. The assumptions of a page's module are a definition of it. `PagesProofs` assumes them of its instances
(`ClassicGiven`, `EmojiGiven`, `AccountGiven` and so on, and that a call of the API has a route which takes it),
`PagesAssumption` of `Browser` of the others (there, that something is shown at least once on a Timeline board, and
that a day's catalogue has a first logo or is empty). TLC evaluates all of them for the values of `MCBrowser`.

`BrowserProofs` proves every property of `browser_pages` but `DerivedIsOfRecords`: `TypeOK`, the ten other
invariants and the action property `NothingIsTakenBack`. Each is a theorem of a page's module brought to the
composition. `open` never changes, so a behaviour in which a page is open is a behaviour of that page
(`BoardRuns`, `ClassicOpen` and their like), and what is proved of the instance holds of it.

`ClassicGuessProofs` proves `Spec => []` of `TypeOK`, `AttemptsSequential`, `SolveEndsGame`,
`UniqueGuesses`, `CompletionsExact`, `SnapshotCurrent` and `AnswersBacked`, and
`Spec => AcceptedWithinPool`. The inductive invariant `IInv` needs them all together: that a new
guess gets the next number rests on `SnapshotCurrent` (what a call found is still true while it may
upgrade), which is kept because every commit marks the other open calls stale; that the count of
solvers is exact rests on `SolveEndsGame`; that a stored guess can be found again under one request id
rests on `UniqueGuesses`; and counting needs the events to be finite.

The statistics are a second invariant, `StatsInv`: the aggregate of a model has a row as soon as there is a
guess, and counts the guesses on it (`GuessStatsExact`); a player's row counts games, wins and wins by
guesses needed, its latest day is that of a game, and its streak is `StreakOf` the solved days (`PlayerInv`).
`GuessStatsExact`, `PlayerStatsExact` and `StreaksNeverOverstated` follow. What a single accepted guess does to
the rows is proved of `ClassicTables`, in the module of Classic and in that of account progress: a set that grows by one
element has one more, and a solve extends the run of solved days that ends at the last solve, or starts one
(`StreakExtends`, `StreakBounded`). The run of days is a recursive function, about which nothing can be
proved by induction here; instead a least day at which the claim would fail is taken (`LeastNumber`,
from the well-foundedness of the naturals), and shown not to be one.

The refinement, `Spec => ImplementsLedger`, is in the same module. A board of the ledger is the
sequence of models of a game's events, in the order of their numbers; a guess that is stored adds the
next number, so it appends to one board and leaves the others (`IInv` again), and it counts the solve exactly when
the ledger does, because what an event says of the answer is true (`Marked`). Every other step is a stutter.

`AccountProgressProofs` proves `Spec => []` of `TypeOK`, `EventsOwned`, `CompletionsBacked`, `UniqueGuesses` and
`SolversCounted`, and, where no guess is removed, of `UnlockEarned` and `StatsNeverAhead`. The invariant `Inv` rests on `Owned`: a primary
player is linked to its account, and only the primary player holds guesses of an account. So the
player a merge takes guesses from is nobody's primary player, the guesses it brings are either new to the
primary player or deleted, and a completion that is recorded has its guess at the player which no later merge
empties. `UnlockEarned` needs in addition that a handler which is about to record has such a solve
(`Earned`), since it records the category without looking; a moderator may remove it in between, hence the
assumption. `SolversCounted` needs that a merge recounts every challenge it takes solvers from (`Counted`).
`TypeOK` needs `Counted` in turn, since counts are taken off again, and `Typed`, what a phase holds of the
rebuild (its modes left, a row with a streak that is a fold over the solved days). `StatsNeverAhead` needs
`Lagging`: no row, and no row that a rebuild has read and is about to write, is ahead of the guesses
stored by now. It is kept because guesses of a primary player are only added to, and the rows of a player that
loses guesses are dropped by the same merge; a removal takes guesses away under a rebuild, hence the same assumption.

`TimelineProofs` proves `Spec => []` of `TypeOK`, `GivenUpUnsolved`, `RunsTimed`, `OneRunPerAccount` and
`CompletionsBacked`, and `Spec => AcceptedInPlay`. Its invariant `Inv` adds to them that open calls
are current (`CallsCurrent`), that a run has a start (`RunsStarted`) and one solve (`SolvedOnce`), and
`Owned`: a primary player is linked to its account, a claimed submission belongs to the account of its player,
and only primary players have starts. `Owned` is why merges are harmless although they move
submissions and leave starts behind: a device that is merged into another player is no account's primary
player, so it has no starts, so it has no run to move (`MergeInv`). The merge itself is a function of
the submissions that keeps all but owners and numbers (`SyncInv`).

`NumbersSequential` is proved there too: a submission counts those before it and is no
earlier than they are (`AppendKeepsOrder`; the clock does not go back, `MadeBefore`), and the numbers after a
merge are ranks, which are 1 to n because they are n different ones up to n (`RanksAreOrder`).

`TimelineScreenProofs` proves `[]BoardHoldsACardOnce` and `[]RetryKeepsOrder` of the Timeline page. That a
move keeps a card in one slot is `MovedOnce`; the rest is that every board which is put on the page was
checked (`Restore`), is an answer's marks on the board shown, or is the empty one. An id is sent with one order only
because each move that changes the board forgets it, so the id which waits to be sent again goes with the board
it was sent with. `ShownResultIsServers` and `ReopenKeepsBoard` rest on `RecordedInv`, which holds until an
answer is applied to another page than the one it was asked from (`overtaken`): the server's last order is a valid one, marked and counted
right (`ServerInv`), and page, saved copies, cached games, a load on its way and open calls each show a state the server
had of that game, with a counter that says how far it has got (`PageInv`, `SavedInv`, `CacheInv`, `LoadInv`,
`Calls`). A page opened again takes the saved copy or the server's order by these counters. `ReopenKeepsBoard` speaks of boards whose cards the server shows now, a Speedrun's before its start included.
`TypeOK` is proved from `Typed`, which says in addition what a row of the server, a saved copy, a cached game, a load
and a call may be, and that the id to be sent again is one that was given out.

`BrowserSessionProofs` proves `[]NoForeignProgress`. Its invariant `Inv` says in which modes page, store and server
can be together (`Modes`), and that the games shown (`Shown`), stored (`Kept`), on their way in a
reconciliation or an entry into the Inner Circle (`Awaited`) and recorded (`Rows`) were played signed out or by the
account that the browser's player is linked to (`Owner`). An account's progress is shown or awaited only where that
link is there, because the server refuses every other (`Linked`), and a link is made once and for good. The hard case is
an account that goes on playing after its session ended: the server records its games for the cookie's player only,
and it matters that no other account can claim them. `[](SettledPreferencesAgree /\ ReloadShowsSame)` and the action property
`[][GamesStay /\ WriteIsNewer]_vars` rest on a second one, `Settling`: the progress in the store's places is
well formed (`Preferred`); what a reload finds is what is shown (`Found`); writes queue in the order of the
edits they come from, none older than what the account has, and the timer holds one newer than all of them
(`Ordered`); and the newest of what waits is what the page shows, or, when nothing waits, what was
written last and what the account has (`Settled`). The copy of an account's progress from which a loaded page
starts agrees with the account but for one thing: a soundtrack preference that a reconciliation
whose answer was lost has added to the account, and which the page still shows. `[]TypeOK` is a theorem of its own, as it is of `DailyChallengeProofs`.

`DailyChallengeProofs` proves `[]OneChallengeADay`, `[](GivenIsStored /\ InsertedIsFound)` and `[]AnswersRest`. Its invariant says
of each answer that was given what of it must still be stored (`Held`), and of each request what it is about to do
to a challenge that others may have changed since it looked (`Prepared`). Ids are not used again (`RowsOld`), so the
deletion of a Timeline by its id takes only a challenge of another size, which this server has given to nobody; two
requests that replace a Logo put the same one in its place; and an insert that comes second changes nothing.
`AnswersRest` rests on `RestInv`: the challenge of each day (`RestedRows`), and what a request of today has selected and
not yet inserted (`RestedNext`), has rested as of the challenges before it. Only today's requests insert, but
for the late ones the property excepts (`straddling`), so nothing comes in between selection and insertion that
would count against it.

`PagesProofs` has one inductive invariant for each of the other pages.

- Classic (`ClassicInv`): what is on its way and shown is of the page's category (`ClassicPage`). The server stores a
  request and a model once and nothing after the answer (`ClassicRecord`); a guess under way, or kept to
  be sent again, is a request the page made and has no answer to (`ClassicPick`, `ClassicRetry`); a guess shown is
  stored with its verdict, and under its own request until two devices race (`ClassicGames`). When a history is merged
  into a board, what matters is which guesses are kept and not their order (`ByNumber`).
- Emoji (`EmojiInv`): the board kept for a difficulty is what the server has, or lacks the guess whose answer is
  on its way, unless it is unsettled (`EmojiKept`), and what is shown is what is kept (`EmojiShown`).
- Logo (`LogoInv`): what the page waits for is no newer than the record (`LogoWaits`), and a page that was told of
  everything lacks at most the guess whose answer is on its way (`LogoTold`).
- Logo's stage: what is displayed or preloaded is the progress's image (`StageImages`), and clues viewed, wherever
  they are kept, were opened under their scope (`StageViews`).
- Profile (`ProfileInv`): at most one read is not cancelled, and it is of what is asked, later than those that were
  (`ProfileCloud`); the tab and its page exist (`ProfileTabs`); the name shown is the account's, or being
  saved (`ProfileNaming`).
- Administration (`AdminInv`): a list call that is not cancelled asks for what is asked, the latest record call is of the
  account clicked last, and drafts are of the account on the panel (`AdminList`, `AdminDetail`, `AdminPanel`,
  `AdminChanges`).
- Accounts (`AccountInv`): the three properties of sessions and tokens are inductive once ids are not given twice
  (`AccountServer`), whatever the tab has open, calls or holds (`AccountTab`).
- API (`ApiInv`): a jar with a session has a token, but for sessions older than tokens; a call sends the token of its
  jar, and the answers under way set cookies that keep this so (`ApiSession`, `ApiFlight`); at most one call
  is to bring the player (`ApiPlayer`). That the calls have their routes is `ApiCallsRouted`, for the whole table.
- Engines (`EnginesInv`): a clue is what each engine gives for its pair of models, for any values and any
  normalisations of them; the two are then compared by kind of column, lists that are empty or missing
  included (`EnginesAlike`).
- Editor (`EditorInv`): files keep the seed's records in their places (`EditorJobs`); until two saves overlap only the
  newest may still write, and a file it has not written is as before it (`EditorAlone`).
- Catalogue (`SeedInv`): the timeline of the database is that of the last release. That what a validator accepts
  can be read by the server, and has its clues, is shown rule by rule (`SeedReads`, `SeedEmoji`, `SeedLogos`).

Checked by TLC only:

- `CallsEnd`: liveness and `ENABLED` are out of the prover's reach.
- `DerivedIsOfRecords`: its parts are about what a loop over records computes (a streak over all days, a merge and the
  terms of a whole file, the tables of a seed), which the modules state as folds or recursive functions; proving
  them is induction over data.
- The five runs that show a difference: their traces are counterexamples, there is nothing to prove.

## Not modelled

Of the server: rate limits before and trajectory tokens after a guess; `user_game_states` and the Emoji and
Logo tables in reconciliation; the guess transactions of Emoji and Logo, which have the shape of
`ClassicGuess` and are one step of `EmojiScreen` and `LogoScreen`; rows of `user_hardcore_access`
(nothing inserts them any more); the rules for superadmins; queries (leaderboards, and views and histories but as
the pages read them); Timeline's placements and puzzle selection; the submissions that a deleted
Timeline challenge takes along; the image cache and its transforms; OAuth identities, expiry and the delivery of
mail; and in the modules of the game tables the deletion of an account, which frees its players and keeps their
submissions without a user. That last one matters: `OneRunPerAccount` is claimed for accounts that are
not deleted. The order of items, the attributes of a model (but in `ClueEngines`) and the text of clues are data.

Of the browser: the Hardcore page of Classic, the searches, animations, sound, charts and texts; Timeline's clock and
leaderboard; dialogs, except the Logo's; two tabs on one progress store (`docs/architecture.md:54` calls it "synchronized across tabs", which
the storage listener does once its events are delivered; `BrowserSession` is about one tab, whose player's cookie does
not expire); storage that refuses a write. Of the editor: prompts,
schema widgets and the git commands. Of the validators: colours, retired media and wording. Of the daily challenges: the rankings by hash, Emoji
variants and entities that are not seeded yet, and Timeline's requirements of years and categories. Issue reports, report dashboards and deployment have no module.

## Plan

Done: the Classic guess with its ledger, accounts over it, Timeline, the challenge of a day, the pages with the server behind them, sessions,
the catalogue's way, and the proofs above, which state every invariant and action property of the runs but `DerivedIsOfRecords`. Next:

1. Rate limits as a step before the guess handlers, and deletion of an account as an action of `Timeline` and
   `AccountProgress`.
2. The image cache and its mutex, with the liveness of the requests that wait for it.
3. `user_game_states`, the Emoji and the Logo tables in `Sync` of `AccountProgress`.
4. Proofs: the folds behind `DerivedIsOfRecords`, if a least counterexample can stand in for induction there,
   as it does for the streaks of `ClassicGuessProofs`.
