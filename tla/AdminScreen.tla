---------------------------- MODULE AdminScreen ----------------------------
(***************************************************************************)
(* The administration page in the browser: the searchable list of accounts *)
(* (AdminPage), the record of the one account that was clicked             *)
(* (UserDetail) with the role and the report limit drafted on it, and the  *)
(* saved games inside that record (AdminProgressRecord).                   *)
(*                                                                         *)
(* Every call is answered, or fails, after any other.  A list call whose   *)
(* effect was cleaned up, and a detail call that is not the latest, must   *)
(* not be shown; the answer of an update or of a removal is shown whenever *)
(* it comes.  An update answers with the account as the server then had it.*)
(***************************************************************************)
EXTENDS Integers, Sequences, FiniteSets, Functions, FiniteSetsExt

CONSTANTS
  Users,
  Queries,
  Matching,      \* [Queries -> Seq(Users)]: whom the server finds
  ListSize,      \* accounts on a page of the list
  Games,         \* [Users -> Seq([key, mode])]: the saved games, latest first
  GamesSize,     \* games on a page of the record
  Roles,
  MaxLimit,      \* the largest number of issue reports a day
  MaxClicks,     \* bounds what the administrator does
  None

Account == [user : Users, role : Roles, disabled : BOOLEAN, limit : 0..MaxLimit]

Lists == [query : Queries, page : Nat \ {0}]

Drafts == [role : Roles, limit : 0..MaxLimit, on : Users]

Modes(u) == {g.mode : g \in Range(Games[u])}

Saved == UNION {Range(Games[u]) : u \in Users}

SavedModes == {g.mode : g \in Saved}
SavedKeys == {g.key : g \in Saved}

Views == [page : Nat \ {0}, mode : SavedModes \cup {None}, key : SavedKeys \cup {None}]

(* What an update changes, and what to.                                    *)
Fields == {"role", "limit", "disabled"}
Values(field) ==
  CASE field = "role" -> Roles [] field = "limit" -> 0..MaxLimit [] field = "disabled" -> BOOLEAN

Updates(field) ==
  [user : Users, drafted : Users, change : [field : {field}, value : Values(field)],
   answer : Account \cup {None}]

AdminScreenAssumption ==
  /\ Matching \in [Queries -> Seq(Users)] /\ Queries # {} /\ Roles # {}
  /\ \A u \in Users : Games[u] \in Seq(Range(Games[u])) /\ None \notin Range(Games[u])
  /\ None \notin Users /\ None \notin Account /\ None \notin Lists /\ None \notin Drafts
  /\ None \notin Views /\ \A field \in Fields : None \notin Updates(field)
  /\ ListSize \in Nat \ {0} /\ GamesSize \in Nat \ {0}
  /\ MaxLimit \in Nat /\ MaxClicks \in Nat

VARIABLES
  asked,        \* [query, page] as the page now has them
  listCalls,    \* list calls in flight: [query, page, active]
  list,         \* users: the [query, page] whose answer is shown, or None
  listState,    \* "loading", "shown" or "failed": how the last effect ended
  detailId,     \* detailRequestId
  detailCalls,  \* detail calls in flight: [id, user]
  selected,     \* selectedUser: an account as the server answered it, or None
  loadingDetail,
  draft,        \* permission and issueReportLimit of UserDetail, or None
  view,         \* recentGamesPage, selectedGameMode, selectedGameKey, or None
  update,       \* the update in flight, or None (updatingUser)
  removals,     \* removals in flight: [user, id]
  account,      \* the server
  clicks,
  chosen,       \* the account last clicked, None after a search
  overtaken     \* an update or a removal of another account answered since

listed == <<asked, listCalls, list, listState>>
detail == <<detailId, detailCalls, selected, loadingDetail>>
panel == <<draft, view>>
changes == <<update, removals, account>>
vars == <<listed, detail, panel, changes, clicks, chosen, overtaken>>

Click == clicks < MaxClicks /\ clicks' = clicks + 1

----------------------------------------------------------------------------
(* What UserDetail and AdminProgressRecord keep while they stay mounted.   *)

FreshDraft(a) == [role |-> a.role, limit |-> a.limit, on |-> a.user]

FreshView == [page |-> 1, mode |-> None, key |-> None]

\* the effect of UserDetail runs again when one of these changes
WatchedValues_NoUser(a) == <<a.role, a.disabled, a.limit>>

Watched(a) == <<a.user, a.role, a.disabled, a.limit>>

Mounted(a, loading) == a # None /\ ~loading

\* the panel after a render that shows account a, or is loading
Render(a, loading) ==
  IF ~Mounted(a, loading) THEN draft' = None /\ view' = None
  ELSE /\ draft' = IF ~Mounted(selected, loadingDetail) \/ Watched(a) # Watched(selected)
                   THEN FreshDraft(a) ELSE draft
       /\ view' = IF Mounted(selected, loadingDetail) THEN view ELSE FreshView

ActiveMode(u) ==
  IF view.mode \in Modes(u) THEN view.mode
  ELSE IF Games[u] = <<>> THEN None ELSE Games[u][1].mode

(* Those of the active mode, in their order.                               *)
GamesOfMode(u) ==
  LET places == {i \in DOMAIN Games[u] : Games[u][i].mode = ActiveMode(u)}
      Nth(n) == CHOOSE i \in places : Cardinality({j \in places : j <= i}) = n
  IN  [n \in 1..Cardinality(places) |-> Games[u][Nth(n)]]

PagesFor(n, size) == Max({1, (n + size - 1) \div size})

VisiblePage_Unclamped(u) == view.page

VisiblePage(u) == Min({view.page, PagesFor(Len(GamesOfMode(u)), GamesSize)})

VisibleGames(u) ==
  LET last == VisiblePage(u) * GamesSize
  IN SubSeq(GamesOfMode(u), last - GamesSize + 1, Min({last, Len(GamesOfMode(u))}))

SelectedGame(u) ==
  LET shown == VisibleGames(u)
      picked == {i \in DOMAIN shown : shown[i].key = view.key}
  IN IF shown = <<>> THEN None
     ELSE IF picked = {} THEN shown[1] ELSE shown[Min(picked)]

----------------------------------------------------------------------------
(* The list.                                                               *)

\* the effect on [page, query, user]: the call before it is cleaned up
Ask(query, page) ==
  /\ asked' = [query |-> query, page |-> page]
  /\ IF asked' = asked THEN UNCHANGED <<listCalls, listState>>
     ELSE /\ listCalls' = {[c EXCEPT !.active = FALSE] : c \in listCalls}
                            \cup {[query |-> query, page |-> page, active |-> TRUE]}
          /\ listState' = "loading"
  /\ UNCHANGED list

Search(query) ==
  /\ Click /\ Ask(query, 1)
  /\ detailId' = detailId + 1
  /\ selected' = None
  /\ Render(None, loadingDetail)
  /\ chosen' = None /\ overtaken' = FALSE
  /\ UNCHANGED <<detailCalls, loadingDetail, changes>>

TotalPages == IF list = None THEN 1 ELSE PagesFor(Len(Matching[list.query]), ListSize)

TurnPage(page) ==
  /\ Click /\ listState # "loading" /\ list # None
  /\ \/ page = asked.page - 1 /\ asked.page # 1
     \/ page = asked.page + 1 /\ asked.page # TotalPages
  /\ Ask(asked.query, page)
  /\ UNCHANGED <<detail, panel, changes, chosen, overtaken>>

ListAnswer_Late(c) == c.query = asked.query

ListAnswer(c) == c.active

\* the server answers the page asked for: there is none to go to instead
ListAnswered(c) ==
  /\ c \in listCalls
  /\ listCalls' = listCalls \ {c}
  /\ IF ListAnswer(c)
     THEN list' = [query |-> c.query, page |-> c.page] /\ listState' = "shown"
     ELSE UNCHANGED <<list, listState>>
  /\ UNCHANGED <<asked, detail, panel, changes, clicks, chosen, overtaken>>

ListFails(c) ==
  /\ c \in listCalls
  /\ listCalls' = listCalls \ {c}
  /\ listState' = IF c.active THEN "failed" ELSE listState
  /\ UNCHANGED <<asked, list, detail, panel, changes, clicks, chosen, overtaken>>

Rows ==
  IF listState = "loading" \/ list = None THEN {}
  ELSE LET found == Matching[list.query]
       IN {found[i] : i \in {i \in DOMAIN found : PagesFor(i, ListSize) = list.page}}

----------------------------------------------------------------------------
(* The record of one account.                                              *)

SelectUser(u) ==
  /\ Click /\ u \in Rows
  /\ detailId' = detailId + 1
  /\ detailCalls' = detailCalls \cup {[id |-> detailId + 1, user |-> u]}
  /\ loadingDetail' = TRUE
  /\ Render(selected, TRUE)
  /\ chosen' = u /\ overtaken' = FALSE
  /\ UNCHANGED <<listed, selected, changes>>

DetailAnswer(c) ==
  /\ c \in detailCalls
  /\ detailCalls' = detailCalls \ {c}
  /\ IF c.id = detailId
     THEN /\ selected' = account[c.user] /\ loadingDetail' = FALSE
          /\ Render(account[c.user], FALSE)
          /\ overtaken' = FALSE
     ELSE UNCHANGED <<selected, loadingDetail, panel, overtaken>>
  /\ UNCHANGED <<listed, detailId, changes, clicks, chosen>>

DetailFails(c) ==
  /\ c \in detailCalls
  /\ detailCalls' = detailCalls \ {c}
  /\ IF c.id = detailId
     THEN selected' = None /\ loadingDetail' = FALSE /\ Render(None, FALSE)
     ELSE UNCHANGED <<selected, loadingDetail, panel>>
  /\ UNCHANGED <<listed, detailId, changes, clicks, chosen, overtaken>>

Tools == draft # None /\ update = None

ChooseRole(r) ==
  /\ Click /\ Tools /\ r # draft.role
  /\ draft' = [draft EXCEPT !.role = r]
  /\ UNCHANGED <<listed, detail, view, changes, chosen, overtaken>>

StepLimit(n) ==
  /\ Click /\ Tools
  /\ n \in {draft.limit - 1, draft.limit + 1} \cap (0..MaxLimit)
  /\ draft' = [draft EXCEPT !.limit = n]
  /\ UNCHANGED <<listed, detail, view, changes, chosen, overtaken>>

Send(change) ==
  /\ update' = [user |-> selected.user, drafted |-> draft.on, change |-> change, answer |-> None]
  /\ UNCHANGED <<listed, detail, panel, removals, account, chosen, overtaken>>

SaveRole ==
  /\ Click /\ Tools /\ draft.role # selected.role
  /\ Send([field |-> "role", value |-> draft.role])

SaveLimit ==
  /\ Click /\ Tools /\ draft.limit # selected.limit
  /\ Send([field |-> "limit", value |-> draft.limit])

SetDisabled ==
  /\ Click /\ Tools
  /\ Send([field |-> "disabled", value |-> ~selected.disabled])

ServerUpdates ==
  /\ update # None /\ update.answer = None
  /\ account' = [account EXCEPT ![update.user] =
                   [@ EXCEPT ![update.change.field] = update.change.value]]
  /\ update' = [update EXCEPT !.answer = account'[update.user]]
  /\ UNCHANGED <<listed, detail, panel, removals, clicks, chosen, overtaken>>

\* the record of the answer is shown, whoever is selected by now
Shown(a) ==
  /\ selected' = a
  /\ Render(a, loadingDetail)
  /\ overtaken' = (overtaken \/ a.user # chosen)
  /\ UNCHANGED <<detailId, detailCalls, loadingDetail>>

UpdateAnswer ==
  /\ update # None /\ update.answer # None
  /\ update' = None
  /\ Shown(update.answer)
  /\ UNCHANGED <<listed, removals, account, clicks, chosen>>

UpdateFails ==
  /\ update # None
  /\ update' = None
  /\ UNCHANGED <<listed, detail, panel, removals, account, clicks, chosen, overtaken>>

----------------------------------------------------------------------------
(* The saved games of the record.                                          *)

ChooseMode(m) ==
  /\ Click /\ view # None /\ m \in Modes(selected.user)
  /\ view' = [page |-> 1, mode |-> m, key |-> None]
  /\ UNCHANGED <<listed, detail, draft, changes, chosen, overtaken>>

ChooseGame(i) ==
  /\ Click /\ view # None /\ i \in DOMAIN VisibleGames(selected.user)
  /\ view' = [view EXCEPT !.key = VisibleGames(selected.user)[i].key]
  /\ UNCHANGED <<listed, detail, draft, changes, chosen, overtaken>>

TurnGames(page) ==
  /\ Click /\ view # None
  /\ LET u == selected.user
         pages == PagesFor(Len(GamesOfMode(u)), GamesSize)
     IN page \in {VisiblePage(u) - 1, VisiblePage(u) + 1} \cap (1..pages)
  /\ view' = [view EXCEPT !.page = page]
  /\ UNCHANGED <<listed, detail, draft, changes, chosen, overtaken>>

RemoveGuess ==
  /\ Click /\ view # None /\ SelectedGame(selected.user) # None
  /\ removals' = removals \cup {[user |-> selected.user, id |-> clicks]}
  /\ UNCHANGED <<listed, detail, panel, update, account, chosen, overtaken>>

RemovalAnswer(r) ==
  /\ r \in removals
  /\ removals' = removals \ {r}
  /\ Shown(account[r.user])
  /\ UNCHANGED <<listed, update, account, clicks, chosen>>

RemovalFails(r) ==
  /\ r \in removals
  /\ removals' = removals \ {r}
  /\ UNCHANGED <<listed, detail, panel, update, account, clicks, chosen, overtaken>>

----------------------------------------------------------------------------
Init ==
  /\ asked \in [query : {CHOOSE q \in Queries : TRUE}, page : {1}]
  /\ listCalls = {[query |-> asked.query, page |-> 1, active |-> TRUE]}
  /\ list = None /\ listState = "loading"
  /\ detailId = 0 /\ detailCalls = {} /\ selected = None /\ loadingDetail = FALSE
  /\ draft = None /\ view = None
  /\ update = None /\ removals = {}
  /\ account = [u \in Users |-> [user |-> u, role |-> CHOOSE r \in Roles : TRUE,
                                 disabled |-> FALSE, limit |-> MaxLimit]]
  /\ clicks = 0 /\ chosen = None /\ overtaken = FALSE

Next ==
  \/ \E q \in Queries : Search(q)
  \/ \E page \in {asked.page - 1, asked.page + 1} : TurnPage(page)
  \/ \E c \in listCalls : ListAnswered(c) \/ ListFails(c)
  \/ \E u \in Users : SelectUser(u)
  \/ \E c \in detailCalls : DetailAnswer(c) \/ DetailFails(c)
  \/ \E r \in Roles : ChooseRole(r)
  \/ \E n \in 0..MaxLimit : StepLimit(n)
  \/ SaveRole \/ SaveLimit \/ SetDisabled
  \/ ServerUpdates \/ UpdateAnswer \/ UpdateFails
  \/ selected # None /\ \E m \in Modes(selected.user) : ChooseMode(m)
  \/ \E i \in 1..GamesSize : ChooseGame(i)
  \/ selected # None /\ \E page \in 1..Len(Games[selected.user]) : TurnGames(page)
  \/ RemoveGuess
  \/ \E r \in removals : RemovalAnswer(r) \/ RemovalFails(r)

Spec == Init /\ [][Next]_vars

----------------------------------------------------------------------------
\* The page's state is of the shapes that AdminPage.tsx declares.
TypeOK ==
  /\ asked \in Lists
  /\ listCalls \subseteq [query : Queries, page : Nat \ {0}, active : BOOLEAN]
  /\ list \in Lists \cup {None}
  /\ listState \in {"loading", "shown", "failed"}
  /\ detailId \in Nat /\ detailCalls \subseteq [id : Nat, user : Users]
  /\ selected \in Account \cup {None} /\ loadingDetail \in BOOLEAN
  /\ draft \in Drafts \cup {None} /\ view \in Views \cup {None}
  /\ update = None \/ \E field \in Fields : update.change.field = field /\ update \in Updates(field)
  /\ removals \subseteq [user : Users, id : Nat]
  /\ account \in [Users -> Account]
  /\ clicks \in Nat /\ chosen \in Users \cup {None} /\ overtaken \in BOOLEAN

\* The rows under a settled list are the answer to the search and the page
\* that are set: no answer to an earlier one takes their place.
ListIsAsked == listState = "shown" => list = asked

\* The record shown is of the account last clicked, unless an update or a
\* removal of another account answered since the click was answered.
ChosenIsShown ==
  Mounted(selected, loadingDetail) /\ ~overtaken => selected.user = chosen

\* A role or a limit that is saved was drafted on the record of the account
\* it is saved to, whatever record the panel showed in between.
SavedIsDrafted == update # None => update.drafted = update.user

\* A record with saved games shows one of them, of the tab that is active:
\* a page or a tab left by another account's record never hides them.
RecordShowsGame ==
  view # None /\ Games[selected.user] # <<>> =>
    /\ SelectedGame(selected.user) # None
    /\ SelectedGame(selected.user).mode = ActiveMode(selected.user)
=============================================================================
