------------------------------ MODULE ApiCalls ------------------------------
(***************************************************************************)
(* How the server takes the calls of the browser's client (ApiTable): the  *)
(* guards of the handlers, the middleware that gives a browser its player  *)
(* (api/v1.rs), and the cookies that the answers set, in whatever order    *)
(* they arrive.                                                            *)
(*                                                                         *)
(* One browser, whose tabs share its cookies.  What a call does besides is *)
(* left out.                                                               *)
(*                                                                         *)
(* overlap is a history variable: a game call was sent without a player    *)
(* before the answer to another such call had come.                        *)
(***************************************************************************)
EXTENDS Naturals

CONSTANTS
  None,
  Kind,                \* of each call: Kinds of ApiTable
  Racing,              \* the calls that are sent while others are unanswered
  MaxCalls, MaxIds     \* the bounds of this instance

-----------------------------------------------------------------------------
VARIABLES
  jar,        \* the browser's cookies: [session, csrf, player]
  flight,     \* calls sent: [call, jar, header, answer]
  sessions,   \* user_sessions
  played,     \* the players that signed-out guesses are recorded under
  legacy,     \* the browser has a session of before the csrf cookie
  nextId, sent, overlap

vars == <<jar, flight, sessions, played, legacy, nextId, sent, overlap>>

Ids == Nat \cup {None}

Names == {"session", "csrf", "player"}

Jars == [Names -> Ids]

Statuses == {"unrouted", "forbidden", "unauthorized", "ok"}

(* A call, and the cookies of its answer. *)
Answers(names) == [status : Statuses \cup {None}, sets : [names -> Ids]]

Sent(names) ==
  [call : DOMAIN Kind, jar : Jars, header : Ids, answer : Answers(names), id : Nat]

ApiCallsAssumption ==
  /\ \A c \in DOMAIN Kind :
       Kind[c] \in [writes : BOOLEAN, routed : BOOLEAN, guesses : BOOLEAN, user : BOOLEAN,
                    player : BOOLEAN, token : {"never", "signed-in", "always"}]
  /\ {"signInWithPassword", "signOut", "currentUser"} \cup Racing \subseteq DOMAIN Kind
  /\ None \notin Nat /\ None \notin Statuses
  /\ MaxCalls \in Nat /\ MaxIds \in Nat

Nothing == [name \in {} |-> None]

NoAnswer == [status |-> None, sets |-> Nothing]

(* The cookies of old, with those of new in their place. *)
Over(new, old) ==
  [name \in DOMAIN new \cup DOMAIN old |-> IF name \in DOMAIN new THEN new[name] ELSE old[name]]

(* request: the header of a call is the cookie's token.  A page guesses in *)
(* a game that it was given before.                                        *)
Header(c) == IF Kind[c].writes THEN jar.csrf ELSE None

Send(c) ==
  /\ sent' = sent + 1
  /\ flight # {} => c \in Racing
  /\ Kind[c].guesses => jar.player # None
  /\ flight' = flight \cup {[call |-> c, jar |-> jar, header |-> Header(c), answer |-> NoAnswer,
                             id |-> sent]}
  /\ overlap' = (overlap \/ (/\ Kind[c].player /\ jar.player = None
                             /\ \E f \in flight : Kind[f.call].player /\ f.jar.player = None))
  /\ UNCHANGED <<jar, sessions, played, legacy, nextId>>

(* assert_csrf *)
TokenHolds(f) == f.jar.csrf # None /\ f.header = f.jar.csrf

SignedIn(f) == f.jar.session \in sessions

AsksToken(f) ==
  Kind[f.call].token = "always" \/ (Kind[f.call].token = "signed-in" /\ SignedIn(f))

Status(f) ==
  IF ~Kind[f.call].routed THEN "unrouted"
  ELSE IF AsksToken(f) /\ ~TokenHolds(f) THEN "forbidden"
  ELSE IF Kind[f.call].user /\ ~SignedIn(f) THEN "unauthorized"
  ELSE "ok"

(* MUTANT: every answer of a game gives the browser another player. *)
PlayerCookie_Always(f) ==
  IF Kind[f.call].player THEN [player |-> nextId] ELSE Nothing

(* A game call without a player gets one of its own. *)
PlayerCookie(f) ==
  IF Kind[f.call].player /\ f.jar.player = None THEN [player |-> nextId] ELSE Nothing

PlayerOf(f) == IF f.jar.player = None THEN nextId ELSE f.jar.player

(* MUTANT: a login leaves the token there is. *)
AuthCookies_Keep(f) ==
  CASE f.call = "signInWithPassword" ->
         IF f.jar.csrf = None THEN [session |-> nextId, csrf |-> nextId] ELSE [session |-> nextId]
    [] f.call = "signOut" -> [session |-> None, csrf |-> None]
    [] f.call = "currentUser" /\ SignedIn(f) /\ f.jar.csrf = None -> [csrf |-> nextId]
    [] OTHER -> Nothing

(* password_login, logout and me: a session is set and cleared with its    *)
(* token, and a session without one gets one.                              *)
AuthCookies(f) ==
  CASE f.call = "signInWithPassword" -> [session |-> nextId, csrf |-> nextId]
    [] f.call = "signOut" -> [session |-> None, csrf |-> None]
    [] f.call = "currentUser" /\ SignedIn(f) /\ f.jar.csrf = None -> [csrf |-> nextId]
    [] OTHER -> Nothing

Answer(f) ==
  [status |-> Status(f),
   sets |-> Over(PlayerCookie(f), IF Status(f) = "ok" THEN AuthCookies(f) ELSE Nothing)]

Handle(f) ==
  LET ok == Status(f) = "ok"
      sets == Answer(f).sets
  IN  /\ f.answer = NoAnswer
      /\ nextId <= MaxIds
      /\ flight' = (flight \ {f}) \cup {[f EXCEPT !.answer = Answer(f)]}
      /\ nextId' = IF \E name \in DOMAIN sets : sets[name] = nextId THEN nextId + 1 ELSE nextId
      /\ sessions' = IF ~ok \/ f.call \notin {"signOut", "signInWithPassword"} THEN sessions
                     ELSE (sessions \ {f.jar.session})
                            \cup (IF f.call = "signOut" THEN {} ELSE {nextId})
      /\ played' = IF ok /\ Kind[f.call].guesses /\ ~SignedIn(f)
                   THEN played \cup {PlayerOf(f)} ELSE played
      /\ UNCHANGED <<jar, legacy, sent, overlap>>

(* An answer arrives, and with it its cookies. *)
Arrive(f) ==
  /\ f.answer # NoAnswer
  /\ flight' = flight \ {f}
  /\ jar' = Over(f.answer.sets, jar)
  /\ legacy' = (legacy /\ "csrf" \notin DOMAIN f.answer.sets)
  /\ UNCHANGED <<sessions, played, nextId, sent, overlap>>

(* NetworkError: a call or its answer is lost. *)
Lost(f) ==
  /\ flight' = flight \ {f}
  /\ UNCHANGED <<jar, sessions, played, legacy, nextId, sent, overlap>>

Expires(s) ==
  /\ sessions' = sessions \ {s}
  /\ UNCHANGED <<jar, flight, played, legacy, nextId, sent, overlap>>

Init ==
  /\ legacy \in BOOLEAN
  /\ jar = [session |-> IF legacy THEN 0 ELSE None, csrf |-> None, player |-> None]
  /\ sessions = IF legacy THEN {0} ELSE {}
  /\ flight = {} /\ played = {} /\ nextId = 1 /\ sent = 0 /\ overlap = FALSE

Next ==
  \/ sent < MaxCalls /\ \E c \in DOMAIN Kind : Send(c)
  \/ \E f \in flight : Handle(f) \/ Arrive(f) \/ Lost(f)
  \/ \E s \in sessions : Expires(s)

Spec == Init /\ [][Next]_vars
-----------------------------------------------------------------------------
(* Properties. *)

TypeOK ==
  /\ jar \in Jars /\ \A f \in flight : \E names \in SUBSET Names : f \in Sent(names)
  /\ sessions \subseteq Nat /\ played \subseteq Ids
  /\ nextId \in Nat /\ sent \in Nat /\ legacy \in BOOLEAN /\ overlap \in BOOLEAN

(* Every call of the client has a handler that takes its body, and the     *)
(* handler of a signed-in browser's call has no doubt of its token,        *)
(* however the answers that set and clear the cookies overtook each other; *)
(* only a session of before the token has to ask who it is first.          *)
CallsPass ==
  /\ \A f \in flight : f.answer.status # "unrouted"
  /\ \A f \in flight : f.answer = NoAnswer /\ SignedIn(f) /\ ~TokenHolds(f) /\ Kind[f.call].writes
       => f.jar.session = 0
  /\ jar.session # None => jar.csrf # None \/ legacy

(* The guesses a browser makes signed out are one player's, its cookie's,  *)
(* when its first game call was answered before the second was sent.       *)
OnePlayer ==
  ~overlap => \A p \in played : jar.player # None => jar.player = p
=============================================================================
