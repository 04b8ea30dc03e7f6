--------------------------- MODULE AccountScreens ---------------------------
(***************************************************************************)
(* Accounts, sessions and e-mailed links: the server's tables of accounts, *)
(* tokens and sessions, and a browser with one tab on the account pages,   *)
(* whose cookies another tab also changes.  Another device signs in to the *)
(* same accounts.                                                          *)
(*                                                                         *)
(* The tab has one call in flight at most: its forms disable their button  *)
(* (a call that outlives its page delays the next one here).               *)
(* The server handles it any time later, a login and a reset in two        *)
(* transactions, and the answer is shown later still, or lost.  A call     *)
(* carries the cookies that the browser had when it was sent.  A row names *)
(* an account by its address and by "made", the identifier it was given    *)
(* when it was registered.                                                 *)
(***************************************************************************)
EXTENDS Naturals, FiniteSets

CONSTANTS
  Users,         \* e-mail addresses
  Passwords,
  FirstPassword, \* the password of every account at the start
  Mask,          \* [Users -> masked addresses]: two may look the same
  Bounds,        \* bounds of the tokens and sessions ever made, of what happens
                 \* outside the forms (OutsideStep) and of the passwords, each a
                 \* record: a behaviour stays within one of them
  None

Purposes == {"email-verification", "password-reset", "account-deletion"}

Paths ==
  {"/", "/classic", "/login", "/register", "/reset-password", "/delete-account", "/profile",
   "/account-disabled"}

Account == [password : Passwords, verified : BOOLEAN, disabled : BOOLEAN, made : Nat]

Refs == [email : Users, made : Nat]

Tokens == [id : Nat, user : Users, made : Nat, purpose : Purposes]

Sessions == [id : Nat, user : Users, made : Nat, recent : BOOLEAN, resets : Nat]

Ids == Nat \cup {None}

Jars == [session : Ids, reset : Ids, deletion : Ids]

Known == [id : Users, disabled : BOOLEAN, verified : BOOLEAN]

Masks == {Mask[u] : u \in Users}

Confirmations == {"local-data", "account"}

Forms ==
  [email : Users \cup {None}, error : BOOLEAN, success : Users \cup {None},
   masked : Masks \cup {None}, confirmation : Confirmations \cup {None}, sent : BOOLEAN]

\* what each call is given; a login is a call of two steps, and so is a reset
Args ==
  [register |-> Users, resend |-> Users, forgot |-> Users,
   login |-> [user : Users, password : Passwords], rotate |-> Refs,
   reset |-> Passwords, renewed |-> Refs,
   logout |-> {None}, deletion |-> {None}, status |-> {None}, delete |-> Masks]

Replies(op) ==
  {None, "refused"} \cup (IF op = "status" THEN Masks ELSE {"ok", "failed", "wrong"})

Calls(op) ==
  [op : {op}, args : Args[op], jar : Jars, answer : Replies(op), opened : Ids,
   disabled : BOOLEAN]

AccountScreensAssumption ==
  /\ DOMAIN Mask = Users /\ FirstPassword \in Passwords
  /\ None \notin Users /\ None \notin Nat /\ None \notin Passwords /\ None \notin Masks
  /\ None \notin Account /\ None \notin Refs /\ None \notin Known
  /\ None \notin Confirmations

VARIABLES
  accounts,   \* [Users -> [password, verified, disabled, made] or None]
  tokens,     \* auth_email_tokens: [id, user, made, purpose]
  links,      \* every link that was mailed, in the same form
  sessions,   \* user_sessions: [id, user, made, recent, resets]
  resets,     \* [Users -> Nat]: how often its password was reset
  nextId,
  jar,        \* cookies: [session, reset, deletion], an id or None
  page,       \* the path the tab is on
  auth,       \* AuthProvider: [loading, user]
  form,       \* the state of the form on the page
  call,       \* the form's call, or None
  remote,     \* a login of another device between its transactions, or None
  outside     \* how many steps happened outside the forms

server == <<accounts, tokens, links, sessions, resets, nextId>>
tab == <<page, auth, form, call>>
vars == <<server, jar, tab, remote, outside>>

----------------------------------------------------------------------------
(* Routes and forms.                                                       *)

Disabled(u) == u # None /\ u.disabled

\* each guard: where it sends a tab whose account is known
PublicOnlyRoute(path, u) == IF u = None THEN path ELSE "/"

DisabledAccountRoute(path, u) ==
  CASE u = None -> "/login"
    [] u # None /\ ~u.disabled -> "/profile"
    [] Disabled(u) -> path

AuthenticatedRoute(path, u) ==
  CASE u = None -> "/login"
    [] u # None /\ ~u.disabled -> path
    [] Disabled(u) -> "/account-disabled"

Guarded(path, u) ==
  CASE Disabled(u) -> "/account-disabled"
    [] ~Disabled(u) /\ path \in {"/login", "/register"} -> PublicOnlyRoute(path, u)
    [] ~Disabled(u) /\ path = "/account-disabled" -> DisabledAccountRoute(path, u)
    [] ~Disabled(u) /\ path \in {"/reset-password", "/delete-account"} ->
         AuthenticatedRoute(path, u)
    [] OTHER -> path

Fresh ==
  [email |-> None, error |-> FALSE, success |-> None, masked |-> None, confirmation |-> None,
   sent |-> FALSE]

\* a page load starts the application over
Load(path) ==
  /\ page' = path
  /\ auth' = [loading |-> TRUE, user |-> None]
  /\ form' = Fresh
  /\ call' = None

\* the page keeps its form unless a guard leads elsewhere
Route(u) ==
  /\ auth' = [loading |-> FALSE, user |-> u]
  /\ page' = Guarded(page, u)
  /\ form' = IF page' = page THEN form ELSE Fresh

UserOf(id) == {s.user : s \in {s \in sessions : s.id = id}}

\* GET /auth/me
Me(id) ==
  IF UserOf(id) = {} THEN None
  ELSE LET u == CHOOSE u \in UserOf(id) : TRUE
       IN [id |-> u, disabled |-> accounts[u].disabled, verified |-> accounts[u].verified]

CheckAuthentication ==
  /\ auth.loading
  /\ \/ Route(Me(jar.session))
     \/ Route(None)
  /\ UNCHANGED <<server, jar, call, remote>>

Visit(path) ==
  /\ path \in Paths
  /\ Load(path)
  /\ UNCHANGED <<server, jar, remote>>

----------------------------------------------------------------------------
(* The server's tables.                                                    *)

NewId == nextId' = nextId + 1

Token(u, purpose) ==
  [id |-> nextId + 1, user |-> u, purpose |-> purpose,
   made |-> IF accounts[u] = None THEN nextId + 1 ELSE accounts[u].made]

Others_Kept(u, purpose) == tokens

\* a new token replaces the one of its account and purpose
Others(u, purpose) == {t \in tokens : t.user # u \/ t.purpose # purpose}

\* the mail may fail, and the call with it
Issue(u, purpose) ==
  LET token == Token(u, purpose)
  IN /\ NewId
     /\ tokens' = Others(u, purpose) \cup {token}
     /\ \E mailed \in BOOLEAN :
          /\ links' = IF mailed THEN links \cup {token} ELSE links
          /\ call' = [call EXCEPT !.answer = IF mailed THEN "ok" ELSE "failed"]

Live(id, purpose) == {t \in tokens : t.id = id /\ t.purpose = purpose}

Ref(u) == [email |-> u, made |-> accounts[u].made]

Exists_Address(ref) == accounts[ref.email] # None

\* the foreign key of a session: the row of that account
Exists(ref) == accounts[ref.email] # None /\ accounts[ref.email].made = ref.made

\* rotate_session: the browser's old session goes, if it sent one
Rotate(ref, old) ==
  /\ NewId
  /\ sessions' = {s \in sessions : s.id # old}
                   \cup {[id |-> nextId', user |-> ref.email, made |-> ref.made,
                          recent |-> TRUE, resets |-> resets[ref.email]]}

\* a session younger than fifteen minutes, of an account not disabled
Recent(id) ==
  {s.user : s \in {s \in sessions : s.id = id /\ s.recent /\ ~accounts[s.user].disabled}}

\* a call as the browser sends it
Call(op, args) ==
  /\ call = None /\ ~auth.loading
  /\ call' = [op |-> op, args |-> args, jar |-> jar, answer |-> None, opened |-> None,
              disabled |-> FALSE]
  /\ UNCHANGED <<server, jar, page, auth, remote>>

Answers(answer) == call' = [call EXCEPT !.answer = answer]

AnswersSession == call' = [call EXCEPT !.answer = "ok", !.opened = nextId']

Handled(op) == call # None /\ call.op = op /\ call.answer = None

ServerDone == UNCHANGED <<jar, page, auth, form, remote>>

----------------------------------------------------------------------------
(* Registration and activation.                                            *)

Edit(email) ==
  /\ ~auth.loading /\ page \in {"/login", "/register"} /\ email # form.email
  /\ form' = [form EXCEPT !.email = email, !.error = IF page = "/login" THEN FALSE ELSE @]
  /\ UNCHANGED <<server, jar, page, auth, call, remote>>

Register ==
  /\ page = "/register" /\ form.email # None
  /\ Call("register", form.email)
  /\ UNCHANGED form

ServerRegisters ==
  /\ Handled("register")
  /\ LET u == call.args
     IN IF accounts[u] # None THEN UNCHANGED server /\ Answers("ok")
        ELSE /\ accounts' = [accounts EXCEPT ![u] = [password |-> FirstPassword,
                                                     verified |-> FALSE, disabled |-> FALSE,
                                                     made |-> nextId + 1]]
             /\ Issue(u, "email-verification")
             /\ UNCHANGED <<sessions, resets>>
  /\ ServerDone

\* the link of the dialog: the sign-in page with the address filled in
ContinueToSignIn ==
  /\ form.success # None
  /\ page' = "/login" /\ auth' = [loading |-> TRUE, user |-> None] /\ call' = None
  /\ form' = [Fresh EXCEPT !.email = form.success]
  /\ UNCHANGED <<server, jar, remote>>

ResendActivation ==
  /\ page = "/profile" /\ auth.user # None /\ ~auth.user.verified
  /\ Call("resend", auth.user.id)
  /\ UNCHANGED form

ServerResends ==
  /\ Handled("resend")
  /\ IF accounts[call.args] = None \/ accounts[call.args].verified
     THEN UNCHANGED server /\ Answers("ok")
     ELSE Issue(call.args, "email-verification") /\ UNCHANGED <<accounts, sessions, resets>>
  /\ ServerDone

----------------------------------------------------------------------------
(* Signing in and out.                                                     *)

SignIn(password) ==
  /\ page = "/login" /\ form.email # None
  /\ Call("login", [user |-> form.email, password |-> password])
  /\ form' = [form EXCEPT !.error = FALSE]

Matches(u, password) == accounts[u] # None /\ accounts[u].password = password

\* verify_password_credentials reads, rotate_session writes
ServerVerifies ==
  /\ Handled("login")
  /\ call' = IF Matches(call.args.user, call.args.password)
             THEN [call EXCEPT !.op = "rotate", !.args = Ref(@.user),
                               !.disabled = accounts[call.args.user].disabled]
             ELSE [call EXCEPT !.answer = "wrong"]
  /\ UNCHANGED server /\ ServerDone

ServerRotates ==
  /\ Handled("rotate")
  /\ IF ~Exists(call.args) THEN UNCHANGED server /\ Answers("failed")
     ELSE /\ Rotate(call.args, call.jar.session)
          /\ AnswersSession
          /\ UNCHANGED <<accounts, tokens, links, resets>>
  /\ ServerDone

SignOut ==
  /\ auth.user # None
  /\ Call("logout", None)
  /\ UNCHANGED form

ServerSignsOut ==
  /\ Handled("logout")
  /\ sessions' = {s \in sessions : s.id # call.jar.session}
  /\ Answers("ok")
  /\ UNCHANGED <<accounts, tokens, links, resets, nextId>> /\ ServerDone

----------------------------------------------------------------------------
(* A forgotten password.                                                   *)

\* the button is there once a sign-in was refused
ForgotPassword ==
  /\ page = "/login" /\ form.error /\ form.email # None
  /\ Call("forgot", form.email)
  /\ UNCHANGED form

ServerForgets ==
  /\ Handled("forgot")
  /\ IF accounts[call.args] = None THEN UNCHANGED server /\ Answers("ok")
     ELSE Issue(call.args, "password-reset") /\ UNCHANGED <<accounts, sessions, resets>>
  /\ ServerDone

ResetPassword(password) ==
  /\ page = "/reset-password"
  /\ Call("reset", password)
  /\ UNCHANGED form

Renewed_KeepSessions(u, password) ==
  /\ accounts' = [accounts EXCEPT ![u] = [@ EXCEPT !.password = password]]
  /\ sessions' = {s \in sessions : s.id # call.jar.session}
  /\ resets' = [resets EXCEPT ![u] = @ + 1]

\* the transaction of reset_password_with_token
Renewed(u, password) ==
  /\ accounts' = [accounts EXCEPT ![u] = [@ EXCEPT !.password = password]]
  /\ sessions' = {s \in sessions : s.user # u}
  /\ resets' = [resets EXCEPT ![u] = @ + 1]

ServerResets ==
  /\ Handled("reset")
  /\ LET found == Live(call.jar.reset, "password-reset")
     IN IF found = {} THEN UNCHANGED server /\ Answers("failed")
        ELSE LET u == (CHOOSE t \in found : TRUE).user
             IN /\ Renewed(u, call.args)
                /\ tokens' = tokens \ found
                /\ call' = [call EXCEPT !.op = "renewed", !.args = Ref(u)]
                /\ UNCHANGED <<links, nextId>>
  /\ ServerDone

\* create_session, in a transaction of its own
ServerOpensSession ==
  /\ Handled("renewed")
  /\ IF ~Exists(call.args) THEN UNCHANGED server /\ Answers("failed")
     ELSE /\ Rotate(call.args, None)
          /\ AnswersSession
          /\ UNCHANGED <<accounts, tokens, links, resets>>
  /\ ServerDone

----------------------------------------------------------------------------
(* Deleting an account.                                                    *)

\* the dialog of ProfileDangerZone
OpenDanger(c) ==
  /\ page = "/profile" /\ ~auth.loading /\ form.confirmation = None
  /\ c = "account" => auth.user # None
  /\ form' = [form EXCEPT !.confirmation = c]
  /\ UNCHANGED <<server, jar, page, auth, call, remote>>

Sending == call # None /\ call.op = "deletion"

CloseDanger ==
  /\ form.confirmation # None /\ ~Sending
  /\ form' = [form EXCEPT !.confirmation = None, !.sent = FALSE, !.error = FALSE]
  /\ UNCHANGED <<server, jar, page, auth, call, remote>>

\* the key closes the dialog and leaves what it said
Escape ==
  /\ form.confirmation # None /\ ~Sending
  /\ form' = [form EXCEPT !.confirmation = None]
  /\ UNCHANGED <<server, jar, page, auth, call, remote>>

RequestDeletion ==
  /\ form.confirmation = "account" /\ ~form.sent
  /\ Call("deletion", None)
  /\ form' = [form EXCEPT !.error = FALSE]

ServerMailsDeletion ==
  /\ Handled("deletion")
  /\ IF Recent(call.jar.session) = {} THEN UNCHANGED server /\ Answers("refused")
     ELSE /\ \E u \in Recent(call.jar.session) : Issue(u, "account-deletion")
          /\ UNCHANGED <<accounts, sessions, resets>>
  /\ ServerDone

\* the link of the dialog, in the application; a call goes on
CancelDeletion ==
  /\ page = "/delete-account" /\ ~auth.loading
  /\ page' = "/profile" /\ form' = Fresh
  /\ UNCHANGED <<server, jar, auth, call, remote>>

\* the page asks what its cookies allow it to delete
AskStatus ==
  /\ page = "/delete-account" /\ form.masked = None /\ ~form.error
  /\ Call("status", None)
  /\ UNCHANGED form

Authorized(jarSent) ==
  {u \in Recent(jarSent.session) :
     \E t \in Live(jarSent.deletion, "account-deletion") : t.user = u}

ServerStatus ==
  /\ Handled("status")
  /\ LET allowed == Authorized(call.jar)
     IN Answers(IF allowed = {} THEN "refused" ELSE Mask[CHOOSE u \in allowed : TRUE])
  /\ UNCHANGED server /\ ServerDone

\* the player types the phrase of the page
DeleteAccount ==
  /\ page = "/delete-account" /\ form.masked # None
  /\ Call("delete", form.masked)
  /\ UNCHANGED form

PhraseIs(u, phrase) == phrase = Mask[u]

ServerDeletes ==
  /\ Handled("delete")
  /\ LET allowed == {u \in Authorized(call.jar) : PhraseIs(u, call.args)}
     IN IF allowed = {}
        THEN Answers("refused") /\ UNCHANGED server
        ELSE \E u \in allowed :
               /\ accounts' = [accounts EXCEPT ![u] = None]
               /\ tokens' = {t \in tokens : t.user # u}
               /\ sessions' = {s \in sessions : s.user # u}
               /\ resets' = [resets EXCEPT ![u] = 0]
               /\ Answers("ok")
               /\ UNCHANGED <<links, nextId>>
  /\ UNCHANGED <<jar, page, auth, form, remote>>

----------------------------------------------------------------------------
(* Answers and links.                                                      *)

\* setError, setSent or setSuccess of the form that sent the call
Said(change) ==
  /\ form' = change /\ call' = None
  /\ UNCHANGED <<jar, page, auth>>

Answered(ops) == call # None /\ call.answer # None /\ call.op \in ops

Ok == call.answer = "ok"

RegisterAnswer ==
  /\ Answered({"register"})
  /\ Said(IF Ok THEN [form EXCEPT !.success = call.args] ELSE form)

MailAnswer == Answered({"resend", "forgot"}) /\ Said(form)

RefusedAnswer ==
  /\ Answered({"login", "rotate", "reset", "renewed"}) /\ ~Ok
  /\ Said([form EXCEPT !.error = TRUE])

\* the cookie of the new session, and a page load
SignInAnswer ==
  /\ Answered({"rotate"}) /\ Ok
  /\ jar' = [jar EXCEPT !.session = call.opened]
  /\ Load(IF call.disabled THEN "/account-disabled" ELSE "/profile")

ResetAnswer ==
  /\ Answered({"renewed"}) /\ Ok
  /\ jar' = [jar EXCEPT !.session = call.opened, !.reset = None]
  /\ Load("/classic")

SignOutAnswer ==
  /\ Answered({"logout"})
  /\ jar' = [jar EXCEPT !.session = None] /\ Load("/")

DeletionAnswer ==
  /\ Answered({"deletion"})
  /\ Said([form EXCEPT !.sent = Ok, !.error = ~Ok])

\* the effect's "active" drops an answer for a page that was left
StatusAnswer ==
  /\ Answered({"status"})
  /\ CASE page # "/delete-account" -> Said(form)
       [] page = "/delete-account" /\ call.answer # "refused" ->
            Said([form EXCEPT !.masked = call.answer])
       [] page = "/delete-account" /\ call.answer = "refused" ->
            page' = "/profile" /\ form' = Fresh /\ call' = None /\ UNCHANGED <<jar, auth>>

DeleteAnswer ==
  /\ Answered({"delete"})
  /\ IF Ok THEN jar' = [jar EXCEPT !.session = None, !.deletion = None] /\ Load("/")
     ELSE Said(IF page = "/delete-account" THEN [form EXCEPT !.error = TRUE] ELSE form)

Answer ==
  /\ \/ RegisterAnswer \/ MailAnswer \/ RefusedAnswer \/ SignInAnswer \/ ResetAnswer
     \/ SignOutAnswer \/ DeletionAnswer \/ StatusAnswer \/ DeleteAnswer
  /\ UNCHANGED <<server, remote>>

\* the answer is lost, handled or not
CallFails ==
  /\ call # None
  /\ Said(IF \/ call.op \in {"resend", "forgot", "register", "logout"}
             \/ call.op \in {"status", "delete"} /\ page # "/delete-account"
          THEN form
          ELSE [form EXCEPT !.error = TRUE])
  /\ UNCHANGED <<server, remote>>

\* the cookies and the path that the verify routes answer with
Opened(l) ==
  CASE l.purpose = "password-reset" -> [jar EXCEPT !.reset = l.id]
    [] l.purpose = "account-deletion" -> [jar EXCEPT !.deletion = l.id]
    [] l.purpose = "email-verification" -> jar

Destination(l) ==
  CASE l.purpose = "password-reset" -> "/reset-password"
    [] l.purpose = "account-deletion" -> "/delete-account"
    [] l.purpose = "email-verification" -> "/login"

Verified(l) ==
  IF l.purpose = "email-verification" /\ l \in tokens
  THEN /\ tokens' = tokens \ {l}
       /\ accounts' = [accounts EXCEPT ![l.user] = [@ EXCEPT !.verified = TRUE]]
       /\ UNCHANGED <<links, sessions, resets, nextId>>
  ELSE UNCHANGED server

OpenLink(l) ==
  /\ l \in links
  /\ Verified(l) /\ jar' = Opened(l) /\ Load(Destination(l))
  /\ UNCHANGED <<remote>>

OtherTabOpens(l) ==
  /\ l \in links /\ Opened(l) # jar
  /\ jar' = Opened(l)
  /\ UNCHANGED <<server, tab, remote>>

OtherTabSignsIn(u) ==
  /\ accounts[u] # None
  /\ Rotate(Ref(u), jar.session)
  /\ jar' = [jar EXCEPT !.session = nextId']
  /\ UNCHANGED <<accounts, tokens, links, resets, tab, remote>>

----------------------------------------------------------------------------
(* Another device, the administrator and the clock.                        *)

RemoteVerifies(u, password) ==
  /\ remote = None /\ Matches(u, password)
  /\ remote' = Ref(u)
  /\ UNCHANGED <<server, jar, tab>>

RemoteRotates ==
  /\ remote # None
  /\ remote' = None
  /\ IF ~Exists(remote) THEN UNCHANGED server
     ELSE Rotate(remote, None) /\ UNCHANGED <<accounts, tokens, links, resets>>
  /\ UNCHANGED <<jar, tab>>

Disable(u) ==
  /\ accounts[u] # None /\ ~accounts[u].disabled
  /\ accounts' = [accounts EXCEPT ![u] = [@ EXCEPT !.disabled = TRUE]]
  /\ UNCHANGED <<tokens, links, sessions, resets, nextId, jar, tab, remote>>

SessionAges(s) ==
  /\ s \in sessions /\ s.recent
  /\ sessions' = (sessions \ {s}) \cup {[s EXCEPT !.recent = FALSE]}
  /\ UNCHANGED <<accounts, tokens, links, resets, nextId, jar, tab, remote>>

TokenExpires(t) ==
  /\ t \in tokens
  /\ tokens' = tokens \ {t}
  /\ UNCHANGED <<accounts, links, sessions, resets, nextId, jar, tab, remote>>

----------------------------------------------------------------------------
Init ==
  /\ accounts = [u \in Users |-> [password |-> FirstPassword, verified |-> TRUE,
                                  disabled |-> FALSE, made |-> 0]]
  /\ tokens = {} /\ links = {} /\ sessions = {} /\ resets = [u \in Users |-> 0] /\ nextId = 0
  /\ jar = [session |-> None, reset |-> None, deletion |-> None]
  /\ page \in Paths /\ auth = [loading |-> TRUE, user |-> None] /\ form = Fresh /\ call = None
  /\ remote \in {None} \cup {Ref(u) : u \in Users} /\ outside = 0

Serve ==
  \/ ServerRegisters \/ ServerResends \/ ServerVerifies \/ ServerRotates \/ ServerSignsOut
  \/ ServerForgets \/ ServerResets \/ ServerOpensSession
  \/ ServerMailsDeletion \/ ServerStatus \/ ServerDeletes

Press ==
  \/ \E u \in Users : Edit(u)
  \/ Register \/ ResendActivation \/ SignOut \/ ForgotPassword
  \/ \E p \in Passwords : SignIn(p) \/ ResetPassword(p)
  \/ \E c \in Confirmations : OpenDanger(c)
  \/ ContinueToSignIn \/ CancelDeletion \/ CloseDanger \/ Escape \/ RequestDeletion \/ AskStatus \/ DeleteAccount

\* navigation, lost answers, other tabs, devices and people, and the clock
OutsideStep ==
  \/ \E path \in Paths : Visit(path)
  \/ CallFails
  \/ \E l \in links : OtherTabOpens(l)
  \/ \E u \in Users : OtherTabSignsIn(u) \/ Disable(u)
  \/ \E u \in Users, p \in Passwords : RemoteVerifies(u, p)
  \/ \E s \in sessions : SessionAges(s)
  \/ \E t \in tokens : TokenExpires(t)

Step ==
  \/ /\ CheckAuthentication \/ Press \/ Serve \/ Answer \/ RemoteRotates
        \/ \E l \in links : OpenLink(l)
     /\ UNCHANGED outside
  \/ /\ {b \in Bounds : outside < b.outside} # {}
     /\ OutsideStep /\ outside' = outside + 1

\* the passwords of the accounts, and those being sent
InUse ==
  {accounts[u].password : u \in {v \in Users : accounts[v] # None}}
    \cup (IF call # None /\ call.op = "login" THEN {call.args.password} ELSE {})
    \cup (IF call # None /\ call.op = "reset" THEN {call.args} ELSE {})

Bounded ==
  \E b \in Bounds : nextId <= b.ids /\ outside <= b.outside /\ InUse \subseteq b.passwords

Next == Step /\ Bounded'

Spec == Init /\ [][Next]_vars

----------------------------------------------------------------------------
\* The tables, the cookies and the tab are of the shapes declared above, and
\* no link has a number that was not given yet.
TypeOK ==
  /\ accounts \in [Users -> Account \cup {None}] /\ resets \in [Users -> Nat] /\ nextId \in Nat
  /\ tokens \subseteq Tokens /\ links \subseteq Tokens /\ \A l \in links : l.id <= nextId
  /\ sessions \subseteq Sessions
  /\ jar \in Jars /\ page \in Paths /\ form \in Forms
  /\ auth \in [loading : BOOLEAN, user : Known \cup {None}]
  /\ call # None => call.op \in DOMAIN Args /\ call \in Calls(call.op)
  /\ remote \in Refs \cup {None} /\ outside \in Nat

\* A reset signs every device out: no session that was opened before it is
\* still in the table.  One that a login opens after it is a new one, though
\* the login may have checked the password of before.
ResetEndsSessions == \A s \in sessions : s.resets = resets[s.user]

\* A link works only while it is the last of its kind that the account was
\* sent.
OnlyNewestLinkWorks ==
  \A t \in tokens, l \in links : t.user = l.user /\ t.purpose = l.purpose => l.id <= t.id

\* A session or a token is of an account that exists: what is left of a
\* deleted account, a login between its two transactions included, never opens
\* the account registered later with the same address.
NothingOfDeleted ==
  \A r \in sessions \cup tokens : accounts[r.user] # None /\ accounts[r.user].made = r.made

\* A tab that opened a working reset link shows the form to set the password,
\* once the server has told it its account: what the interface's documentation
\* promises.
ResetLinkOpensForm ==
  [][page = "/reset-password" /\ auth.loading /\ ~auth'.loading
       /\ auth'.user = Me(jar.session) /\ Live(jar.reset, "password-reset") # {} /\ jar'.reset = jar.reset =>
       page' = "/reset-password"]_vars
=============================================================================
