--------------------------- MODULE ProfileScreen ---------------------------
(***************************************************************************)
(* The profile page (ProfilePage.tsx, UsernameForm.tsx): its tabs, the     *)
(* account's history they ask the server for, page by page, the history    *)
(* of the device they show when nobody is signed in, the statistics, and   *)
(* the user name.  The Inner Circle and hell mode are BrowserSession's,    *)
(* the danger zone is AccountScreens'.                                     *)
(*                                                                         *)
(* A tab is a game and a topic: a category of Classic, a difficulty of the *)
(* other games.  played[tab] are the games of the tab in the order they    *)
(* were first played, on this device and on the account, one or more a     *)
(* day: day numbers the UTC days, mode orders the modes as their texts     *)
(* are.  They do not change while the page is open.  A user name is a      *)
(* member of Names, None when there is none: the input's pattern lets      *)
(* nothing else through.  The server's answer to a read comes at any       *)
(* later time, or not at all; answers overtake each other.                 *)
(***************************************************************************)
EXTENDS Integers, Sequences, FiniteSets, Functions, SequencesExt, FiniteSetsExt

CONSTANTS
  Categories,      \* the categories shown: "hardcore" needs its access
  Records,         \* the functions from Tabs to sequences of games
  Names, Taken,    \* the names, and those another account has
  Unlocked,        \* whether the account has Hardcore access
  None,
  MaxReads, MaxSaves   \* the bounds of this instance

StatsGames == {"classic", "emoji", "logo", "timeline"}
Difficulties == {"normal", "challenge", "hardcore"}
TimelineDifficulties == Difficulties \cup {"speedrun"}
Tabs == ({"classic"} \X Categories) \cup ((StatsGames \ {"classic"}) \X TimelineDifficulties)
HistoryPageSize == 3

Texts == Names \cup {None}

Accounts == [name : Texts]

Asks == [game : StatsGames, topic : Categories \cup TimelineDifficulties, page : Nat \ {0}]

Reads == [id : Nat, asked : Asks]

Outcomes == [is : {"failed"}] \cup [is : {"saved"}, name : Texts]

Toasts == {"unchanged", "saved", "failed"}

ProfileScreenAssumption ==
  /\ "llm" \in Categories
  /\ \A all \in Records : \A t \in Tabs : all[t] \in Seq(Range(all[t]))
  /\ Taken \subseteq Names /\ Unlocked \in BOOLEAN
  /\ None \notin Names /\ None \notin Accounts /\ None \notin Toasts
  /\ MaxReads \in Nat /\ MaxSaves \in Nat

VARIABLES
  played,
  user,            \* the signed-in user as the page has it: [name], or None
  game, category, difficulty, historyPage,
  cloudHistory, reading,   \* the answer shown, the reads no later one cancelled
  late,                    \* the cancelled reads still to be answered
  form, busy, toast,       \* UsernameForm: the input, the save being sent, its outcome
  name,            \* the server: the account's user name
  reads, saves

tabs == <<game, category, difficulty, historyPage>>
cloud == <<cloudHistory, reading, late, reads>>
naming == <<form, busy, toast, name, saves>>
vars == <<played, user, tabs, cloud, naming>>

ActiveTopic(g, c, d) == IF g = "classic" THEN c ELSE d
Asked == [game |-> game, topic |-> ActiveTopic(game, category, difficulty), page |-> historyPage]

-----------------------------------------------------------------------------
(* Statistics: streak-service.ts and ProfilePage.tsx on the device,        *)
(* history_stats_from_rows on the server.                                  *)

Solved(gs) == SelectSeq(gs, LAMBDA g : g.solved)
DaysOf(gs) == {gs[i].day : i \in DOMAIN gs}
NewestFirst(days) == SetToSortSeq(days, LAMBDA d, e : d > e)

(* The streaks after each of the days: the current one is set at the first gap. *)
StreaksFrom(days) ==
  LET step(s, i) ==
        LET goesOn == i = 1 \/ days[i - 1] = days[i] + 1
            run == IF goesOn THEN s.running + 1 ELSE 1
        IN  [current |-> IF ~goesOn /\ s.current = 0 THEN s.running ELSE s.current,
             running |-> run,
             best |-> IF run > s.best THEN run ELSE s.best]
      end == FoldLeftDomain(LAMBDA s, i : step(s, i), [current |-> 0, running |-> 0, best |-> 0], days)
  IN  [current |-> IF end.current = 0 THEN end.running ELSE end.current, best |-> end.best]

(* MUTANT: a gap of one day does not end a streak. *)
CalculateSolvedStreaks_Gap(days) ==
  StreaksFrom(NewestFirst(days \cup {d + 1 : d \in days}))

CalculateSolvedStreaks(days) == StreaksFrom(NewestFirst(days))

Bucket(n) == IF n > 8 THEN 9 ELSE n
Distribution(gs) == [b \in 1..9 |-> Cardinality({i \in DOMAIN gs : Bucket(gs[i].attempts) = b})]

Statistics(gs) ==
  LET won == Solved(gs)
      streaks == CalculateSolvedStreaks(DaysOf(won))
  IN  [current |-> streaks.current, best |-> streaks.best,
       won |-> Len(won), distribution |-> Distribution(won)]

-----------------------------------------------------------------------------
(* The two histories of a tab. *)

(* localeCompare of the dates, the order of the store between equal ones. *)
ByDay(gs) ==
  [i \in DOMAIN gs |-> gs[SetToSortSeq(DOMAIN gs, LAMBDA j, k :
     gs[j].day > gs[k].day \/ (gs[j].day = gs[k].day /\ j < k))[i]]]

(* The device has no history of Emoji and Logo games. *)
LocalHistory(g, t) == IF g \in {"emoji", "logo"} THEN <<>> ELSE ByDay(played[<<g, t>>])

(* ORDER BY challenge_date DESC, mode *)
ServerOrder(gs) ==
  [i \in DOMAIN gs |-> gs[SetToSortSeq(DOMAIN gs, LAMBDA j, k :
     gs[j].day > gs[k].day \/ (gs[j].day = gs[k].day /\ gs[j].mode < gs[k].mode))[i]]]

(* LIMIT and OFFSET, or slice *)
PageOf(gs, page) ==
  SubSeq(gs, (page - 1) * HistoryPageSize + 1, Min({page * HistoryPageSize, Len(gs)}))

(* A topic the server does not know is refused: Logo has only "normal",    *)
(* and Timeline's history no "speedrun".                                   *)
Known(g, t) ==
  CASE g = "classic" -> t \in Categories
    [] g \in {"emoji", "timeline"} -> t \in Difficulties
    [] g = "logo" -> t = "normal"

(* history of progress.rs *)
History(q) ==
  IF ~Known(q.game, q.topic) THEN None
  ELSE LET gs == ServerOrder(played[<<q.game, q.topic>>])
       IN  [games |-> PageOf(gs, q.page), total |-> Len(gs), stats |-> Statistics(gs)]

-----------------------------------------------------------------------------
(* What the page shows. *)

Stats ==
  IF user # None /\ cloudHistory # None THEN cloudHistory.stats
  ELSE Statistics(LocalHistory(game, ActiveTopic(game, category, difficulty)))

HistoryCount ==
  IF user # None THEN IF cloudHistory = None THEN 0 ELSE cloudHistory.total
  ELSE Len(LocalHistory(game, ActiveTopic(game, category, difficulty)))

TotalPages == Max({1, (HistoryCount + HistoryPageSize - 1) \div HistoryPageSize})
ShownPage == Min({historyPage, TotalPages})

HistoryGames ==
  IF user # None THEN IF cloudHistory = None THEN <<>> ELSE cloudHistory.games
  ELSE PageOf(LocalHistory(game, ActiveTopic(game, category, difficulty)), ShownPage)

-----------------------------------------------------------------------------
(* The effect that reads the history, for the tabs and the user it is run  *)
(* with: the reads before it are cancelled.                                *)
ReadHistory(who, asked) ==
  /\ cloudHistory' = None
  /\ late' = late \cup reading
  /\ IF who = None
       THEN reading' = {} /\ reads' = reads
       ELSE /\ reads < MaxReads /\ reads' = reads + 1
            /\ reading' = {[id |-> reads', asked |-> asked]}

(* The read is answered, refused or lost. *)
HistoryAnswer(r) ==
  /\ r \in reading
  /\ reading' = {}
  /\ cloudHistory' \in {History(r.asked), None}
  /\ UNCHANGED <<played, user, tabs, late, reads, naming>>

LateAnswer(r) ==
  /\ r \in late
  /\ late' = late \ {r}
  /\ UNCHANGED <<played, user, tabs, cloudHistory, reading, reads, naming>>

(* A tab is clicked: setHistoryPage(1) comes with it; the effect runs when *)
(* one of its dependencies changed.                                        *)
ShowTab(g, c, d, page) ==
  /\ game' = g /\ category' = c /\ difficulty' = d /\ historyPage' = page
  /\ LET asked == [game |-> g, topic |-> ActiveTopic(g, c, d), page |-> page]
     IN  IF asked = Asked THEN UNCHANGED cloud ELSE ReadHistory(user, asked)
  /\ UNCHANGED <<played, user, naming>>

(* Only Emoji puts a difficulty it does not have back to normal. *)
ChooseGame(g) ==
  /\ g \in StatsGames
  /\ ShowTab(g, category,
             IF g = "emoji" /\ difficulty \notin Difficulties THEN "normal" ELSE difficulty, 1)

Offered(t) == t = "hardcore" => user # None /\ Unlocked

ChooseCategory(c) ==
  game = "classic" /\ Offered(c) /\ ShowTab(game, c, difficulty, 1)

ChooseDifficulty(d) ==
  /\ d \in CASE game = "classic" -> {}
             [] game = "emoji" -> Difficulties
             [] game = "logo" -> {"normal"}
             [] game = "timeline" -> TimelineDifficulties
  /\ Offered(d)
  /\ ShowTab(game, category, d, 1)

(* The pages are offered under a list that is not empty and has a next. *)
Paged == HistoryGames # <<>> /\ TotalPages > 1

PreviousPage ==
  /\ Paged /\ ShownPage # 1
  /\ ShowTab(game, category, difficulty, Max({1, historyPage - 1}))

NextPage ==
  /\ Paged /\ ShownPage # TotalPages
  /\ ShowTab(game, category, difficulty, Min({TotalPages, historyPage + 1}))

-----------------------------------------------------------------------------
(* UsernameForm *)

EditName(n) ==
  /\ user # None /\ form' = n
  /\ UNCHANGED <<played, user, tabs, cloud, busy, toast, name, saves>>

(* submit, up to its await, and update_username: a name another account    *)
(* has is refused; the answer, or the request, may be lost.                *)
SubmitName ==
  /\ user # None /\ busy = None
  /\ IF form = user.name
       THEN toast' = "unchanged" /\ UNCHANGED <<busy, name, saves>>
       ELSE /\ saves < MaxSaves /\ saves' = saves + 1
            /\ toast' = None
            /\ IF form \in Taken
                 THEN busy' = [is |-> "failed"] /\ UNCHANGED name
                 ELSE \/ name' = form /\ busy' = [is |-> "saved", name |-> form]
                      \/ name' \in {name, form} /\ busy' = [is |-> "failed"]
  /\ UNCHANGED <<played, user, tabs, cloud, form>>

(* MUTANT: the form keeps the name, the user does not get it. *)
NameSaved_NotUser ==
  /\ busy # None /\ busy.is = "saved"
  /\ form' = busy.name /\ busy' = None
  /\ toast' = "saved"
  /\ UNCHANGED <<played, user, tabs, cloud, name, saves>>

(* setAuthenticatedUser: a new user object, so the history is read again. *)
NameSaved ==
  /\ busy # None /\ busy.is = "saved"
  /\ user' = [name |-> busy.name]
  /\ form' = busy.name /\ busy' = None
  /\ toast' = "saved"
  /\ ReadHistory(user', Asked)
  /\ UNCHANGED <<played, tabs, name, saves>>

NameFailed ==
  /\ busy # None /\ busy.is = "failed"
  /\ busy' = None /\ toast' = "failed"
  /\ UNCHANGED <<played, user, tabs, cloud, form, name, saves>>

-----------------------------------------------------------------------------
Init ==
  /\ played \in Records
  /\ game = "classic" /\ category = "llm" /\ difficulty = "normal" /\ historyPage = 1
  /\ name \in (Names \ Taken) \cup {None} /\ user \in {None, [name |-> name]}
  /\ form = IF user = None THEN None ELSE name
  /\ busy = None /\ toast = None /\ saves = 0
  /\ cloudHistory = None /\ late = {}
  /\ reads = IF user = None THEN 0 ELSE 1
  /\ reading = IF user = None THEN {}
               ELSE {[id |-> 1, asked |-> [game |-> "classic", topic |-> "llm", page |-> 1]]}

Next ==
  \/ \E r \in reading : HistoryAnswer(r)
  \/ \E r \in late : LateAnswer(r)
  \/ \E g \in StatsGames : ChooseGame(g)
  \/ \E c \in Categories : ChooseCategory(c)
  \/ \E d \in TimelineDifficulties : ChooseDifficulty(d)
  \/ PreviousPage \/ NextPage
  \/ \E n \in Texts : EditName(n)
  \/ SubmitName \/ NameSaved \/ NameFailed

Spec == Init /\ [][Next]_vars
-----------------------------------------------------------------------------
(* Properties. *)

TypeOK ==
  /\ played \in Records /\ user \in Accounts \cup {None}
  /\ game \in StatsGames /\ category \in Categories /\ difficulty \in TimelineDifficulties
  /\ historyPage \in Nat \ {0}
  /\ reading \subseteq Reads /\ late \subseteq Reads /\ reads \in Nat
  /\ Cardinality(reading) <= 1 /\ late \cap reading = {}
  /\ form \in Texts /\ busy \in Outcomes \cup {None} /\ toast \in Toasts \cup {None}
  /\ name \in Texts /\ saves \in Nat

(* The account's history and statistics shown are those of the tab and the *)
(* page that are selected, whatever order the answers come in.             *)
HistoryIsOfTab ==
  /\ cloudHistory # None => user # None /\ cloudHistory = History(Asked)
  /\ HistoryGames # <<>> => ShownPage = historyPage

(* A streak is a longest run of days without a gap: the current one the    *)
(* run that ends on the newest solved day, the best one the longest.       *)
StreaksAreRuns ==
  LET days == DaysOf(Solved(LocalHistory(game, ActiveTopic(game, category, difficulty))))
      Run(d, n) == d - n + 1..d
      runs == {n \in 1..Cardinality(days) : \E d \in days : Run(d, n) \subseteq days}
      last == {n \in 1..Cardinality(days) : Run(Max(days), n) \subseteq days}
  IN  cloudHistory = None /\ days # {} => Stats.current = Max(last) /\ Stats.best = Max(runs)

(* Once a save is over and was not lost, the page shows the name the       *)
(* account has.                                                            *)
NameIsAccounts ==
  toast = "saved" /\ busy = None => user.name = name
=============================================================================
