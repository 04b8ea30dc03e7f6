--------------------------- MODULE BrowserProofs ---------------------------
(***************************************************************************)
(* Theorems about the pages of Browser, for any parameters and bounds: a   *)
(* behaviour in which a page is open is one of that page, so the page has  *)
(* what is proved of it in its own module.                                 *)
(***************************************************************************)
EXTENDS Browser, TLAPS

(* While the Timeline page is open, Browser takes its steps only. *)
LEMMA BoardRuns == Spec => (open = "timeline" => Board!Spec)
<1> DEFINE Here == open = "timeline"
<1>1. Init /\ Here => Board!Init
  BY DEF Init
<1>2. [Next]_all /\ Here => [Board!Next]_(Board!vars) /\ Here'
  <2> SUFFICES ASSUME [Next]_all, Here
               PROVE  [Board!Next]_(Board!vars) /\ Here'
    OBVIOUS
  <2>1. CASE UNCHANGED all
    BY <2>1 DEF all, Board!vars, Board!shown, Board!play, Board!calls
  <2>2. CASE Next
    BY <2>2 DEF Next
  <2> QED BY <2>1, <2>2
<1> HIDE DEF Here
<1>3. Spec => (Here => Board!Spec)
  BY <1>1, <1>2, PTL DEF Spec, Board!Spec
<1> QED BY <1>3 DEF Here

(* The same of the browser's session, *)
LEMMA SessionRuns == Spec => (open = "session" => Session!Spec)
<1> DEFINE Here == open = "session"
<1>1. Init /\ Here => Session!Init
  BY DEF Init
<1>2. [Next]_all /\ Here => [Session!Next]_(Session!vars) /\ Here'
  <2> SUFFICES ASSUME [Next]_all, Here
               PROVE  [Session!Next]_(Session!vars) /\ Here'
    OBVIOUS
  <2>1. CASE UNCHANGED all
    BY <2>1 DEF all, Session!vars, Session!storage, Session!store, Session!sync,
                Session!server, Session!history
  <2>2. CASE Next
    BY <2>2 DEF Next
  <2> QED BY <2>1, <2>2
<1> HIDE DEF Here
<1>3. Spec => (Here => Session!Spec)
  BY <1>1, <1>2, PTL DEF Spec, Session!Spec
<1> QED BY <1>3 DEF Here

(* and of the one with other bounds. *)
LEMMA WritesRuns == Spec => (open = "writes" => Writes!Spec)
<1> DEFINE Here == open = "writes"
<1>1. Init /\ Here => Writes!Init
  BY DEF Init
<1>2. [Next]_all /\ Here => [Writes!Next]_(Writes!vars) /\ Here'
  <2> SUFFICES ASSUME [Next]_all, Here
               PROVE  [Writes!Next]_(Writes!vars) /\ Here'
    OBVIOUS
  <2>1. CASE UNCHANGED all
    BY <2>1 DEF all, Writes!vars, Writes!storage, Writes!store, Writes!sync,
                Writes!server, Writes!history
  <2>2. CASE Next
    BY <2>2 DEF Next
  <2> QED BY <2>1, <2>2
<1> HIDE DEF Here
<1>3. Spec => (Here => Writes!Spec)
  BY <1>1, <1>2, PTL DEF Spec, Writes!Spec
<1> QED BY <1>3 DEF Here

(* The same of the day's challenges, with requests beside each other *)
LEMMA RaceRuns == Spec => (open = "race" => Race!Spec)
<1> DEFINE Here == open = "race"
<1>1. Init /\ Here => Race!Init
  BY DEF Init
<1>2. [Next]_all /\ Here => [Race!Next]_(Race!vars) /\ Here'
  <2> SUFFICES ASSUME [Next]_all, Here
               PROVE  [Race!Next]_(Race!vars) /\ Here'
    OBVIOUS
  <2>1. CASE UNCHANGED all
    BY <2>1 DEF all, Race!vars, Race!history
  <2>2. CASE Next
    BY <2>2 DEF Next
  <2> QED BY <2>1, <2>2
<1> HIDE DEF Here
<1>3. Spec => (Here => Race!Spec)
  BY <1>1, <1>2, PTL DEF Spec, Race!Spec
<1> QED BY <1>3 DEF Here

(* and for more days. *)
LEMMA RestRuns == Spec => (open = "rest" => Rest!Spec)
<1> DEFINE Here == open = "rest"
<1>1. Init /\ Here => Rest!Init
  BY DEF Init
<1>2. [Next]_all /\ Here => [Rest!Next]_(Rest!vars) /\ Here'
  <2> SUFFICES ASSUME [Next]_all, Here
               PROVE  [Rest!Next]_(Rest!vars) /\ Here'
    OBVIOUS
  <2>1. CASE UNCHANGED all
    BY <2>1 DEF all, Rest!vars, Rest!history
  <2>2. CASE Next
    BY <2>2 DEF Next
  <2> QED BY <2>1, <2>2
<1> HIDE DEF Here
<1>3. Spec => (Here => Rest!Spec)
  BY <1>1, <1>2, PTL DEF Spec, Rest!Spec
<1> QED BY <1>3 DEF Here

(* No card is in two slots of the Timeline board. *)
THEOREM BoardHoldsACardOnceAlways == Spec => []BoardHoldsACardOnce
<1> DEFINE Here == open = "timeline"
<1>1. Board!Spec => []Board!BoardHoldsACardOnce
  BY PagesAssumption, Board!BoardHoldsACardOnceAlways
<1>2. Spec => (Here => Board!Spec)
  BY BoardRuns
<1>3. [Next]_all /\ ~Here => ~Here'
  BY DEF Next, all
<1>4. Here /\ Board!BoardHoldsACardOnce => BoardHoldsACardOnce
  BY DEF BoardHoldsACardOnce
<1>5. ~Here => BoardHoldsACardOnce
  BY DEF BoardHoldsACardOnce
<1>6. [Next]_all /\ Here => Here'
  BY DEF Next, all
<1> HIDE DEF Here
<1> QED BY <1>1, <1>2, <1>3, <1>4, <1>5, <1>6, PTL DEF Spec

(* What is sent under one id while one game stays shown is one order,      *)
(* however often the submission fails and is sent again.                   *)
THEOREM RetryKeepsOrderAlways == Spec => []RetryKeepsOrder
<1> DEFINE Here == open = "timeline"
<1>1. Board!Spec => []Board!RetryKeepsOrder
  BY Board!RetryKeepsOrderAlways
<1>2. Spec => (Here => Board!Spec)
  BY BoardRuns
<1>3. [Next]_all => (Here <=> Here')
  BY DEF Next, all
<1>4. Here /\ Board!RetryKeepsOrder => RetryKeepsOrder
  BY DEF RetryKeepsOrder
<1>5. ~Here => RetryKeepsOrder
  BY DEF RetryKeepsOrder
<1> HIDE DEF Here
<1> QED BY <1>1, <1>2, <1>3, <1>4, <1>5, PTL DEF Spec

(* The Timeline page shows results the server gave, and opens again on the *)
(* board it was left with, until an answer is applied to another page than *)
(* the one it was asked from.                                              *)
THEOREM TimelineShowsRecordedAlways == Spec => []TimelineShowsRecorded
<1> DEFINE Here == open = "timeline"
<1>1. Board!Spec => [](Board!ShownResultIsServers /\ Board!ReopenKeepsBoard)
  BY PagesAssumption, Board!ShownResultIsServersAlways
<1>2. Spec => (Here => Board!Spec)
  BY BoardRuns
<1>3. [Next]_all => (Here <=> Here')
  BY DEF Next, all
<1>4. Here /\ Board!ShownResultIsServers /\ Board!ReopenKeepsBoard => TimelineShowsRecorded
  BY DEF TimelineShowsRecorded
<1>5. ~Here => TimelineShowsRecorded
  BY DEF TimelineShowsRecorded
<1> HIDE DEF Here
<1> QED BY <1>1, <1>2, <1>3, <1>4, <1>5, PTL DEF Spec

(* A browser whose player is an account's keeps and shows what that        *)
(* account played and no other, and what is played counts for no other,    *)
(* for any users, games and bounds of either browser.                      *)
THEOREM NoForeignProgressAlways == Spec => []NoForeignProgress
<1> DEFINE One == open = "session"
           Other == open = "writes"
<1>1. Session!Spec => []Session!NoForeignProgress
  BY PagesAssumption, Session!NoForeignProgressAlways
<1>2. Writes!Spec => []Writes!NoForeignProgress
  BY PagesAssumption, Writes!NoForeignProgressAlways
<1>3. Spec => (One => Session!Spec)
  BY SessionRuns
<1>4. Spec => (Other => Writes!Spec)
  BY WritesRuns
<1>5. [Next]_all => (One <=> One') /\ (Other <=> Other')
  BY DEF Next, all
<1>6. One /\ Session!NoForeignProgress => NoForeignProgress
  BY DEF NoForeignProgress
<1>7. Other /\ Writes!NoForeignProgress => NoForeignProgress
  BY DEF NoForeignProgress
<1>8. ~One /\ ~Other => NoForeignProgress
  BY DEF NoForeignProgress
<1> HIDE DEF One, Other
<1> QED BY <1>1, <1>2, <1>3, <1>4, <1>5, <1>6, <1>7, <1>8, PTL DEF Spec

(* Preferences reach the account, unless one was dropped in a way          *)
(* ProgressSync cannot make good, and a reload finds what was shown, but   *)
(* for games beyond the limit of the session's copy.                       *)
THEOREM ProgressIsStoredAlways == Spec => []ProgressIsStored
<1> DEFINE One == open = "session"
           Other == open = "writes"
           OneStored == Session!SettledPreferencesAgree /\ Session!ReloadShowsSame
           OtherStored == Writes!SettledPreferencesAgree /\ Writes!ReloadShowsSame
<1>1. Session!Spec => []OneStored
  BY PagesAssumption, Session!ProgressIsStoredAlways
<1>2. Writes!Spec => []OtherStored
  BY PagesAssumption, Writes!ProgressIsStoredAlways
<1>3. Spec => (One => Session!Spec)
  BY SessionRuns
<1>4. Spec => (Other => Writes!Spec)
  BY WritesRuns
<1>5. [Next]_all => (One <=> One') /\ (Other <=> Other')
  BY DEF Next, all
<1>6. One /\ OneStored => ProgressIsStored
  BY DEF ProgressIsStored
<1>7. Other /\ OtherStored => ProgressIsStored
  BY DEF ProgressIsStored
<1>8. ~One /\ ~Other => ProgressIsStored
  BY DEF ProgressIsStored
<1> HIDE DEF One, Other, OneStored, OtherStored
<1> QED BY <1>1, <1>2, <1>3, <1>4, <1>5, <1>6, <1>7, <1>8, PTL DEF Spec

(* Of one user, no step but clearing the data and the answer to entering   *)
(* the Inner Circle takes a game off the page that shows it; none writes   *)
(* older preferences over newer ones, retries included.                    *)
THEOREM NothingIsTakenBackAlways == Spec => NothingIsTakenBack
<1> DEFINE One == open = "session"
           Other == open = "writes"
           OneInv == Session!Inv /\ Session!Settling
           OtherInv == Writes!Inv /\ Writes!Settling
           Kept == /\ One => Session!GamesStay /\ Session!WriteIsNewer
                   /\ Other => Writes!GamesStay /\ Writes!WriteIsNewer
<1>1. Session!Spec => []OneInv
  BY PagesAssumption, Session!SessionInvariant
<1>2. Writes!Spec => []OtherInv
  BY PagesAssumption, Writes!SessionInvariant
<1>3. Spec => (One => Session!Spec)
  BY SessionRuns
<1>4. Spec => (Other => Writes!Spec)
  BY WritesRuns
<1>5. [Next]_all => (One <=> One') /\ (Other <=> Other')
  BY DEF Next, all
<1>6. One /\ OneInv /\ [Next]_all => Kept
  <2> SUFFICES ASSUME One, OneInv, [Next]_all
               PROVE  Session!GamesStay /\ Session!WriteIsNewer
    OBVIOUS
  <2>1. [Session!Next]_(Session!vars)
    <3>1. CASE UNCHANGED all
      BY <3>1 DEF all, Session!vars, Session!storage, Session!store, Session!sync,
                  Session!server, Session!history
    <3>2. CASE Next
      BY <3>2 DEF Next
    <3> QED BY <3>1, <3>2
  <2> QED BY <2>1, PagesAssumption, Session!ShownGamesStay, Session!WritesAreNewer
<1>7. Other /\ OtherInv /\ [Next]_all => Kept
  <2> SUFFICES ASSUME Other, OtherInv, [Next]_all
               PROVE  Writes!GamesStay /\ Writes!WriteIsNewer
    OBVIOUS
  <2>1. [Writes!Next]_(Writes!vars)
    <3>1. CASE UNCHANGED all
      BY <3>1 DEF all, Writes!vars, Writes!storage, Writes!store, Writes!sync,
                  Writes!server, Writes!history
    <3>2. CASE Next
      BY <3>2 DEF Next
    <3> QED BY <3>1, <3>2
  <2> QED BY <2>1, PagesAssumption, Writes!ShownGamesStay, Writes!WritesAreNewer
<1>8. ~One /\ ~Other => Kept
  OBVIOUS
<1>9. NothingIsTakenBack <=> [][Kept]_all
  BY DEF NothingIsTakenBack
<1> HIDE DEF One, Other, OneInv, OtherInv, Kept
<1>10. Spec => [][Kept]_all
  BY <1>1, <1>2, <1>3, <1>4, <1>5, <1>6, <1>7, <1>8, PTL DEF Spec
<1> QED BY <1>9, <1>10

(* All who play a day get its one challenge, whose guesses can be checked, *)
(* and an answer rests before it comes back.                               *)
THEOREM DayHasOneChallengeAlways == Spec => []DayHasOneChallenge
<1> DEFINE One == open = "race"
           Other == open = "rest"
           OneDay == Race!OneChallengeADay /\ Race!GivenIsStored /\ Race!InsertedIsFound
                     /\ Race!AnswersRest
           OtherDay == Rest!OneChallengeADay /\ Rest!GivenIsStored /\ Rest!InsertedIsFound
                       /\ Rest!AnswersRest
<1>1. Race!Spec => []OneDay
  <2>1. Race!Spec => []Race!OneChallengeADay
    BY PagesAssumption, Race!OneChallengeADayAlways
  <2>2. Race!Spec => [](Race!GivenIsStored /\ Race!InsertedIsFound)
    BY PagesAssumption, Race!GivenIsStoredAlways
  <2>3. Race!Spec => []Race!AnswersRest
    BY PagesAssumption, Race!AnswersRestAlways
  <2> QED BY <2>1, <2>2, <2>3, PTL
<1>2. Rest!Spec => []OtherDay
  <2>1. Rest!Spec => []Rest!OneChallengeADay
    BY PagesAssumption, Rest!OneChallengeADayAlways
  <2>2. Rest!Spec => [](Rest!GivenIsStored /\ Rest!InsertedIsFound)
    BY PagesAssumption, Rest!GivenIsStoredAlways
  <2>3. Rest!Spec => []Rest!AnswersRest
    BY PagesAssumption, Rest!AnswersRestAlways
  <2> QED BY <2>1, <2>2, <2>3, PTL
<1>3. Spec => (One => Race!Spec)
  BY RaceRuns
<1>4. Spec => (Other => Rest!Spec)
  BY RestRuns
<1>5. [Next]_all => (One <=> One') /\ (Other <=> Other')
  BY DEF Next, all
<1>6. One /\ OneDay => DayHasOneChallenge
  BY DEF DayHasOneChallenge
<1>7. Other /\ OtherDay => DayHasOneChallenge
  BY DEF DayHasOneChallenge
<1>8. ~One /\ ~Other => DayHasOneChallenge
  BY DEF DayHasOneChallenge
<1> HIDE DEF One, Other, OneDay, OtherDay
<1> QED BY <1>1, <1>2, <1>3, <1>4, <1>5, <1>6, <1>7, <1>8, PTL DEF Spec

-----------------------------------------------------------------------------
(* The pages of PagesProofs *)

(* What is proved of the Classic page: it holds while that is open. *)
ClassicHolds ==
  open = "classic" =>
    Classic!TypeOK /\ Classic!SettledShowsSelected /\ Classic!BoardBacked /\
    Classic!GuessShownOnce

LEMMA ClassicOpen == Spec => []ClassicHolds
<1> DEFINE Here == open = "classic"
           Holds == Classic!TypeOK /\ Classic!SettledShowsSelected /\ Classic!BoardBacked
                    /\ Classic!GuessShownOnce
<1>1. Init /\ Here => Classic!Init
  BY DEF Init
<1>2. [Next]_all /\ Here => [Classic!Next]_(Classic!vars) /\ Here'
  <2> SUFFICES ASSUME [Next]_all, Here
               PROVE  [Classic!Next]_(Classic!vars) /\ Here'
    OBVIOUS
  <2>1. CASE UNCHANGED all
    BY <2>1 DEF all, Classic!vars, Classic!page, Classic!board, Classic!asked
  <2>2. CASE Next
    BY <2>2 DEF Next
  <2> QED BY <2>1, <2>2
<1>3. [Next]_all /\ ~Here => ~Here'
  BY DEF Next, all
<1>4. Classic!Spec => []Holds
  BY ClassicBoardAlways
<1>5. (Here => Holds) => ClassicHolds
  BY DEF ClassicHolds
<1> HIDE DEF Here, Holds
<1> QED BY <1>1, <1>2, <1>3, <1>4, <1>5, PTL DEF Spec, Classic!Spec

(* What is proved of the Emoji page: it holds while that is open. *)
EmojiHolds ==
  open = "emoji" =>
    Emoji!TypeOK /\ Emoji!BoardIsServers

LEMMA EmojiOpen == Spec => []EmojiHolds
<1> DEFINE Here == open = "emoji"
           Holds == Emoji!TypeOK /\ Emoji!BoardIsServers
<1>1. Init /\ Here => Emoji!Init
  BY DEF Init
<1>2. [Next]_all /\ Here => [Emoji!Next]_(Emoji!vars) /\ Here'
  <2> SUFFICES ASSUME [Next]_all, Here
               PROVE  [Emoji!Next]_(Emoji!vars) /\ Here'
    OBVIOUS
  <2>1. CASE UNCHANGED all
    BY <2>1 DEF all, Emoji!vars
  <2>2. CASE Next
    BY <2>2 DEF Next
  <2> QED BY <2>1, <2>2
<1>3. [Next]_all /\ ~Here => ~Here'
  BY DEF Next, all
<1>4. Emoji!Spec => []Holds
  BY EmojiBoardAlways
<1>5. (Here => Holds) => EmojiHolds
  BY DEF EmojiHolds
<1> HIDE DEF Here, Holds
<1> QED BY <1>1, <1>2, <1>3, <1>4, <1>5, PTL DEF Spec, Emoji!Spec

(* What is proved of the Logo page: it holds while that is open. *)
LogoHolds ==
  open = "logo" =>
    Logo!TypeOK /\ Logo!BoardIsServers

LEMMA LogoOpen == Spec => []LogoHolds
<1> DEFINE Here == open = "logo"
           Holds == Logo!TypeOK /\ Logo!BoardIsServers
<1>1. Init /\ Here => Logo!Init
  BY DEF Init
<1>2. [Next]_all /\ Here => [Logo!Next]_(Logo!vars) /\ Here'
  <2> SUFFICES ASSUME [Next]_all, Here
               PROVE  [Logo!Next]_(Logo!vars) /\ Here'
    OBVIOUS
  <2>1. CASE UNCHANGED all
    BY <2>1 DEF all, Logo!vars
  <2>2. CASE Next
    BY <2>2 DEF Next
  <2> QED BY <2>1, <2>2
<1>3. [Next]_all /\ ~Here => ~Here'
  BY DEF Next, all
<1>4. Logo!Spec => []Holds
  BY LogoBoardAlways
<1>5. (Here => Holds) => LogoHolds
  BY DEF LogoHolds
<1> HIDE DEF Here, Holds
<1> QED BY <1>1, <1>2, <1>3, <1>4, <1>5, PTL DEF Spec, Logo!Spec

(* What is proved of the Logo's image and clues: it holds while that is open. *)
StageHolds ==
  open = "stage" =>
    Stage!TypeOK /\ Stage!ImageIsOfProgress /\ Stage!ViewsAreOfScope

LEMMA StageOpen == Spec => []StageHolds
<1> DEFINE Here == open = "stage"
           Holds == Stage!TypeOK /\ Stage!ImageIsOfProgress /\ Stage!ViewsAreOfScope
<1>1. Init /\ Here => Stage!Init
  BY DEF Init
<1>2. [Next]_all /\ Here => [Stage!Next]_(Stage!vars) /\ Here'
  <2> SUFFICES ASSUME [Next]_all, Here
               PROVE  [Stage!Next]_(Stage!vars) /\ Here'
    OBVIOUS
  <2>1. CASE UNCHANGED all
    BY <2>1 DEF all, Stage!vars
  <2>2. CASE Next
    BY <2>2 DEF Next
  <2> QED BY <2>1, <2>2
<1>3. [Next]_all /\ ~Here => ~Here'
  BY DEF Next, all
<1>4. Stage!Spec => []Holds
  BY StageAlways
<1>5. (Here => Holds) => StageHolds
  BY DEF StageHolds
<1> HIDE DEF Here, Holds
<1> QED BY <1>1, <1>2, <1>3, <1>4, <1>5, PTL DEF Spec, Stage!Spec

(* What is proved of the profile: it holds while that is open. *)
ProfileHolds ==
  open = "profile" =>
    Profile!TypeOK /\ Profile!HistoryIsOfTab /\ Profile!NameIsAccounts

LEMMA ProfileOpen == Spec => []ProfileHolds
<1> DEFINE Here == open = "profile"
           Holds == Profile!TypeOK /\ Profile!HistoryIsOfTab /\ Profile!NameIsAccounts
<1>1. Init /\ Here => Profile!Init
  BY DEF Init
<1>2. [Next]_all /\ Here => [Profile!Next]_(Profile!vars) /\ Here'
  <2> SUFFICES ASSUME [Next]_all, Here
               PROVE  [Profile!Next]_(Profile!vars) /\ Here'
    OBVIOUS
  <2>1. CASE UNCHANGED all
    BY <2>1 DEF all, Profile!vars, Profile!tabs, Profile!cloud, Profile!naming
  <2>2. CASE Next
    BY <2>2 DEF Next
  <2> QED BY <2>1, <2>2
<1>3. [Next]_all /\ ~Here => ~Here'
  BY DEF Next, all
<1>4. Profile!Spec => []Holds
  BY ProfileAlways
<1>5. (Here => Holds) => ProfileHolds
  BY DEF ProfileHolds
<1> HIDE DEF Here, Holds
<1> QED BY <1>1, <1>2, <1>3, <1>4, <1>5, PTL DEF Spec, Profile!Spec

(* What is proved of the administration: it holds while that is open. *)
AdminHolds ==
  open = "admin" =>
    Admin!TypeOK /\ Admin!ListIsAsked /\ Admin!ChosenIsShown /\ Admin!SavedIsDrafted /\
    Admin!RecordShowsGame

LEMMA AdminOpen == Spec => []AdminHolds
<1> DEFINE Here == open = "admin"
           Holds == Admin!TypeOK /\ Admin!ListIsAsked /\ Admin!ChosenIsShown /\
                    Admin!SavedIsDrafted /\ Admin!RecordShowsGame
<1>1. Init /\ Here => Admin!Init
  BY DEF Init
<1>2. [Next]_all /\ Here => [Admin!Next]_(Admin!vars) /\ Here'
  <2> SUFFICES ASSUME [Next]_all, Here
               PROVE  [Admin!Next]_(Admin!vars) /\ Here'
    OBVIOUS
  <2>1. CASE UNCHANGED all
    BY <2>1 DEF all, Admin!vars, Admin!listed, Admin!detail, Admin!panel, Admin!changes
  <2>2. CASE Next
    BY <2>2 DEF Next
  <2> QED BY <2>1, <2>2
<1>3. [Next]_all /\ ~Here => ~Here'
  BY DEF Next, all
<1>4. Admin!Spec => []Holds
  BY AdminAlways
<1>5. (Here => Holds) => AdminHolds
  BY DEF AdminHolds
<1> HIDE DEF Here, Holds
<1> QED BY <1>1, <1>2, <1>3, <1>4, <1>5, PTL DEF Spec, Admin!Spec

(* What is proved of the pages about accounts: it holds while that is open. *)
AccountsHolds ==
  open = "accounts" =>
    Accounts!TypeOK /\ Accounts!ResetEndsSessions /\ Accounts!OnlyNewestLinkWorks /\
    Accounts!NothingOfDeleted

LEMMA AccountsOpen == Spec => []AccountsHolds
<1> DEFINE Here == open = "accounts"
           Holds == Accounts!TypeOK /\ Accounts!ResetEndsSessions /\
                    Accounts!OnlyNewestLinkWorks /\ Accounts!NothingOfDeleted
<1>1. Init /\ Here => Accounts!Init
  BY DEF Init
<1>2. [Next]_all /\ Here => [Accounts!Next]_(Accounts!vars) /\ Here'
  <2> SUFFICES ASSUME [Next]_all, Here
               PROVE  [Accounts!Next]_(Accounts!vars) /\ Here'
    OBVIOUS
  <2>1. CASE UNCHANGED all
    BY <2>1 DEF all, Accounts!vars, Accounts!server, Accounts!tab
  <2>2. CASE Next
    BY <2>2 DEF Next
  <2> QED BY <2>1, <2>2
<1>3. [Next]_all /\ ~Here => ~Here'
  BY DEF Next, all
<1>4. Accounts!Spec => []Holds
  BY AccountsAlways
<1>5. (Here => Holds) => AccountsHolds
  BY DEF AccountsHolds
<1> HIDE DEF Here, Holds
<1> QED BY <1>1, <1>2, <1>3, <1>4, <1>5, PTL DEF Spec, Accounts!Spec

(* What is proved of the calls of the client: it holds while that is open. *)
ApiHolds ==
  open = "api" =>
    Api!TypeOK /\ Api!CallsPass /\ Api!OnePlayer

LEMMA ApiOpen == Spec => []ApiHolds
<1> DEFINE Here == open = "api"
           Holds == Api!TypeOK /\ Api!CallsPass /\ Api!OnePlayer
<1>1. Init /\ Here => Api!Init
  BY DEF Init
<1>2. [Next]_all /\ Here => [Api!Next]_(Api!vars) /\ Here'
  <2> SUFFICES ASSUME [Next]_all, Here
               PROVE  [Api!Next]_(Api!vars) /\ Here'
    OBVIOUS
  <2>1. CASE UNCHANGED all
    BY <2>1 DEF all, Api!vars
  <2>2. CASE Next
    BY <2>2 DEF Next
  <2> QED BY <2>1, <2>2
<1>3. [Next]_all /\ ~Here => ~Here'
  BY DEF Next, all
<1>4. Api!Spec => []Holds
  BY ApiAlways
<1>5. (Here => Holds) => ApiHolds
  BY DEF ApiHolds
<1> HIDE DEF Here, Holds
<1> QED BY <1>1, <1>2, <1>3, <1>4, <1>5, PTL DEF Spec, Api!Spec

(* What is proved of the two engines of clues: it holds while that is open. *)
EnginesHolds ==
  open = "engines" =>
    Engines!TypeOK /\ Engines!EnginesAgree /\ Engines!AnswerMatchesItself /\
    Engines!ShownColumnsHaveClues

LEMMA EnginesOpen == Spec => []EnginesHolds
<1> DEFINE Here == open = "engines"
           Holds == Engines!TypeOK /\ Engines!EnginesAgree /\ Engines!AnswerMatchesItself
                    /\ Engines!ShownColumnsHaveClues
<1>1. Init /\ Here => Engines!Init
  BY DEF Init
<1>2. [Next]_all /\ Here => [Engines!Next]_(Engines!vars) /\ Here'
  <2> SUFFICES ASSUME [Next]_all, Here
               PROVE  [Engines!Next]_(Engines!vars) /\ Here'
    OBVIOUS
  <2>1. CASE UNCHANGED all
    BY <2>1 DEF all, Engines!vars
  <2>2. CASE Next
    BY <2>2 DEF Next
  <2> QED BY <2>1, <2>2
<1>3. [Next]_all /\ ~Here => ~Here'
  BY DEF Next, all
<1>4. Engines!Spec => []Holds
  BY EnginesAlways
<1>5. (Here => Holds) => EnginesHolds
  BY DEF EnginesHolds
<1> HIDE DEF Here, Holds
<1> QED BY <1>1, <1>2, <1>3, <1>4, <1>5, PTL DEF Spec, Engines!Spec

(* What is proved of the local editor: it holds while that is open. *)
EditorHolds ==
  open = "editor" =>
    Editor!TypeOK /\ Editor!FilesKeepRecords /\ Editor!SavedIsKept /\
    Editor!ReviewIsOfForm

LEMMA EditorOpen == Spec => []EditorHolds
<1> DEFINE Here == open = "editor"
           Holds == Editor!TypeOK /\ Editor!FilesKeepRecords /\ Editor!SavedIsKept /\
                    Editor!ReviewIsOfForm
<1>1. Init /\ Here => Editor!Init
  BY DEF Init
<1>2. [Next]_all /\ Here => [Editor!Next]_(Editor!vars) /\ Here'
  <2> SUFFICES ASSUME [Next]_all, Here
               PROVE  [Editor!Next]_(Editor!vars) /\ Here'
    OBVIOUS
  <2>1. CASE UNCHANGED all
    BY <2>1 DEF all, Editor!vars, Editor!selectors, Editor!list, Editor!form, Editor!data,
                Editor!past, Editor!counts
  <2>2. CASE Next
    BY <2>2 DEF Next
  <2> QED BY <2>1, <2>2
<1>3. [Next]_all /\ ~Here => ~Here'
  BY DEF Next, all
<1>4. Editor!Spec => []Holds
  BY EditorAlways
<1>5. (Here => Holds) => EditorHolds
  BY DEF EditorHolds
<1> HIDE DEF Here, Holds
<1> QED BY <1>1, <1>2, <1>3, <1>4, <1>5, PTL DEF Spec, Editor!Spec

(* What is proved of the seeds of the catalogue: it holds while that is open. *)
SeedsHolds ==
  open = "seed" =>
    Seeds!TypeOK /\ Seeds!AcceptedIsRead /\ Seeds!FiveMissesHaveClue /\
    Seeds!TimelineIsReleased

LEMMA SeedsOpen == Spec => []SeedsHolds
<1> DEFINE Here == open = "seed"
           Holds == Seeds!TypeOK /\ Seeds!AcceptedIsRead /\ Seeds!FiveMissesHaveClue /\
                    Seeds!TimelineIsReleased
<1>1. Init /\ Here => Seeds!Init
  BY DEF Init
<1>2. [Next]_all /\ Here => [Seeds!Next]_(Seeds!vars) /\ Here'
  <2> SUFFICES ASSUME [Next]_all, Here
               PROVE  [Seeds!Next]_(Seeds!vars) /\ Here'
    OBVIOUS
  <2>1. CASE UNCHANGED all
    BY <2>1 DEF all, Seeds!vars
  <2>2. CASE Next
    BY <2>2 DEF Next
  <2> QED BY <2>1, <2>2
<1>3. [Next]_all /\ ~Here => ~Here'
  BY DEF Next, all
<1>4. Seeds!Spec => []Holds
  BY SeedAlways
<1>5. (Here => Holds) => SeedsHolds
  BY DEF SeedsHolds
<1> HIDE DEF Here, Holds
<1> QED BY <1>1, <1>2, <1>3, <1>4, <1>5, PTL DEF Spec, Seeds!Spec

(* The boards of Classic, Emoji and Logo are what the server recorded for  *)
(* them, for any boards, answers and difficulties, but an Emoji board      *)
(* that a lost answer, a stale history or another board's has unsettled,   *)
(* until it is loaded again; and the Logo's image and clues are those of   *)
(* its progress and player.                                                *)
THEOREM BoardsAreServersAlways == Spec => []BoardsAreServers
<1>1. ClassicHolds /\ EmojiHolds /\ LogoHolds /\ StageHolds => BoardsAreServers
  BY DEF BoardsAreServers, ClassicHolds, EmojiHolds, LogoHolds, StageHolds
<1> QED BY <1>1, ClassicOpen, EmojiOpen, LogoOpen, StageOpen, PTL

(* The administrator saves what is shown of whom is shown, and the profile *)
(* shows what its tabs ask for, for any users, games and answers.          *)
THEOREM PagesShowAskedAlways == Spec => []PagesShowAsked
<1>1. AdminHolds /\ ProfileHolds => PagesShowAsked
  BY DEF PagesShowAsked, AdminHolds, ProfileHolds
<1> QED BY <1>1, AdminOpen, ProfileOpen, PTL

(* A reset ends the sessions there were, only the newest link of a purpose *)
(* works, nothing of a deleted account is left, every call of the client   *)
(* finds its route, and those made signed out belong to one player, when   *)
(* the first was answered before the second was sent.                      *)
THEOREM AccountsAreGuardedAlways == Spec => []AccountsAreGuarded
<1>1. AccountsHolds /\ ApiHolds => AccountsAreGuarded
  BY DEF AccountsAreGuarded, AccountsHolds, ApiHolds
<1> QED BY <1>1, AccountsOpen, ApiOpen, PTL

(* The files under the editor keep their records, and what was saved until *)
(* two saves overlap; what the validators accept of them the server reads  *)
(* and Timeline plays.                                                     *)
THEOREM CatalogueIsKeptAlways == Spec => []CatalogueIsKept
<1>1. EditorHolds /\ SeedsHolds => CatalogueIsKept
  BY DEF CatalogueIsKept, EditorHolds, SeedsHolds
<1> QED BY <1>1, EditorOpen, SeedsOpen, PTL

(* The browser's clues are those of the server in every column, of any     *)
(* values and dates, but for a date without a month, details without an    *)
(* optional key, no details against an empty list, and what the two        *)
(* normalise differently.                                                  *)
THEOREM EnginesAgreeAlways == Spec => []EnginesAgree
<1>1. EnginesHolds => EnginesAgree
  BY DEF EnginesAgree, EnginesHolds
<1> QED BY <1>1, EnginesOpen, PTL

-----------------------------------------------------------------------------
(* TypeOK: of the pages above, and of those with modules of their own. *)

BoardTyped == open = "timeline" => Board!TypeOK

LEMMA BoardIsTyped == Spec => []BoardTyped
<1> DEFINE Here == open = "timeline"
           Typed == Board!TypeOK
<1>1. Board!Spec => []Typed
  BY PagesAssumption, Board!TypeOKAlways
<1>2. Spec => (Here => Board!Spec)
  BY BoardRuns
<1>3. [Next]_all => (Here <=> Here')
  BY DEF Next, all
<1>4. (Here => Typed) => BoardTyped
  BY DEF BoardTyped
<1> HIDE DEF Here, Typed
<1> QED BY <1>1, <1>2, <1>3, <1>4, PTL DEF Spec

SessionTyped == open = "session" => Session!TypeOK

LEMMA SessionIsTyped == Spec => []SessionTyped
<1> DEFINE Here == open = "session"
           Typed == Session!TypeOK
<1>1. Session!Spec => []Typed
  BY PagesAssumption, Session!TypeOKAlways
<1>2. Spec => (Here => Session!Spec)
  BY SessionRuns
<1>3. [Next]_all => (Here <=> Here')
  BY DEF Next, all
<1>4. (Here => Typed) => SessionTyped
  BY DEF SessionTyped
<1> HIDE DEF Here, Typed
<1> QED BY <1>1, <1>2, <1>3, <1>4, PTL DEF Spec

WritesTyped == open = "writes" => Writes!TypeOK

LEMMA WritesIsTyped == Spec => []WritesTyped
<1> DEFINE Here == open = "writes"
           Typed == Writes!TypeOK
<1>1. Writes!Spec => []Typed
  BY PagesAssumption, Writes!TypeOKAlways
<1>2. Spec => (Here => Writes!Spec)
  BY WritesRuns
<1>3. [Next]_all => (Here <=> Here')
  BY DEF Next, all
<1>4. (Here => Typed) => WritesTyped
  BY DEF WritesTyped
<1> HIDE DEF Here, Typed
<1> QED BY <1>1, <1>2, <1>3, <1>4, PTL DEF Spec

RaceTyped == open = "race" => Race!TypeOK

LEMMA RaceIsTyped == Spec => []RaceTyped
<1> DEFINE Here == open = "race"
           Typed == Race!TypeOK
<1>1. Race!Spec => []Typed
  BY PagesAssumption, Race!TypeOKAlways
<1>2. Spec => (Here => Race!Spec)
  BY RaceRuns
<1>3. [Next]_all => (Here <=> Here')
  BY DEF Next, all
<1>4. (Here => Typed) => RaceTyped
  BY DEF RaceTyped
<1> HIDE DEF Here, Typed
<1> QED BY <1>1, <1>2, <1>3, <1>4, PTL DEF Spec

RestTyped == open = "rest" => Rest!TypeOK

LEMMA RestIsTyped == Spec => []RestTyped
<1> DEFINE Here == open = "rest"
           Typed == Rest!TypeOK
<1>1. Rest!Spec => []Typed
  BY PagesAssumption, Rest!TypeOKAlways
<1>2. Spec => (Here => Rest!Spec)
  BY RestRuns
<1>3. [Next]_all => (Here <=> Here')
  BY DEF Next, all
<1>4. (Here => Typed) => RestTyped
  BY DEF RestTyped
<1> HIDE DEF Here, Typed
<1> QED BY <1>1, <1>2, <1>3, <1>4, PTL DEF Spec

(* Every variable of the page that is open holds a value of its kind, for  *)
(* any users, games, cards, models, orders, calls and bounds.              *)
THEOREM TypeOKAlways == Spec => []TypeOK
<1>1. BoardTyped /\ SessionTyped /\ WritesTyped /\ RaceTyped /\ RestTyped /\
        ClassicHolds /\ EmojiHolds /\ LogoHolds /\ StageHolds /\ ProfileHolds /\
        AdminHolds /\ AccountsHolds /\ ApiHolds /\ EnginesHolds /\ EditorHolds /\
        SeedsHolds
      => TypeOK
  BY DEF TypeOK, BoardTyped, SessionTyped, WritesTyped, RaceTyped, RestTyped,
                 ClassicHolds, EmojiHolds, LogoHolds, StageHolds, ProfileHolds,
                 AdminHolds, AccountsHolds, ApiHolds, EnginesHolds, EditorHolds,
                 SeedsHolds
<1> QED BY <1>1, BoardIsTyped, SessionIsTyped, WritesIsTyped, RaceIsTyped, RestIsTyped,
                 ClassicOpen, EmojiOpen, LogoOpen, StageOpen, ProfileOpen, AdminOpen,
                 AccountsOpen, ApiOpen, EnginesOpen, EditorOpen, SeedsOpen, PTL
=============================================================================
