------------------------ MODULE BrowserSessionProofs ------------------------
(***************************************************************************)
(* The properties of BrowserSession, for any number of accounts, games,    *)
(* players and edits: NoForeignProgress from Inv, which is of whom every   *)
(* progress belongs to, and the others from Settling, which is of the      *)
(* preferences on their way to the account and of what a reload finds.     *)
(***************************************************************************)
EXTENDS BrowserSession, TLAPS

(* Games that were played, all of them by o or signed out *)
OwnedBy(o, games, by) == \A g \in games : by[g] # None /\ by[g] \in {"device", o}

IsProgress(p) == DOMAIN p = {"games", "prefs"} /\ p.games \subseteq Games

(* What the store's mode, the user, the cookies and the calls in flight    *)
(* say of one another: an account's progress is shown, marked as known or  *)
(* awaited only where the browser's player is linked to the account.       *)
Modes ==
  /\ players \in Nat /\ players <= MaxPlayers
  /\ player \in (1..players) \cup {None}
  /\ link \in [1..MaxPlayers -> Users \cup {None}]
  /\ user \in Users \cup {None} /\ cookie \in Users \cup {None}
  /\ user # None => cookie \in {None, user}
  /\ storageMode \in {"local", "cloud"}
  /\ storageMode = "local" => activeUserId = None
  /\ storageMode = "cloud" =>
       activeUserId = user /\ user # None /\ local = None /\ Owner = user
  /\ known # None => Owner = known
  /\ reconciling # None \/ entering # None => user # None
  /\ reconciling # None /\ reconciling.ok => Owner = user

(* Every progress there is has games of the player's account. *)
Shown ==
  /\ IsProgress(snapshot) /\ OwnedBy(Owner, snapshot.games, played)
  /\ entering # None => IsProgress(entering) /\ OwnedBy(Owner, entering.games, played)

Kept ==
  /\ local # None => IsProgress(local) /\ OwnedBy(Owner, local.games, played)
  /\ copy # None =>
       /\ copy.user \in Users /\ copy.user = Owner
       /\ IsProgress(copy.progress) /\ OwnedBy(Owner, copy.progress.games, played)

Awaited ==
  reconciling # None /\ reconciling.ok =>
    IsProgress(reconciling.progress) /\ OwnedBy(Owner, reconciling.progress.games, played)

(* What is recorded for an account was played by it or signed out, and so  *)
(* was what is recorded for the browser's player, which the account it is  *)
(* linked to may claim.  A primary player is linked to its account, or one *)
(* of a device elsewhere.                                                  *)
Rows ==
  /\ DOMAIN played = Games /\ DOMAIN record = Games /\ DOMAIN profile = Users
  /\ \A u \in Users : profile[u] # None =>
       /\ "player" \in DOMAIN profile[u]
       /\ profile[u].player \in (1..players) \cup Users
       /\ profile[u].player \in 1..players => link[profile[u].player] = u
  /\ \A g \in Games : record[g] # None =>
       /\ DOMAIN record[g] = {"player", "user"}
       /\ record[g].player \in (1..players) \cup Users
       /\ played[g] # None
       /\ record[g].user # None => played[g] \in {"device", record[g].user}
       /\ record[g].player = player => played[g] \in {"device", Owner}

Inv == Modes /\ Shown /\ Kept /\ Awaited /\ Rows

-----------------------------------------------------------------------------
LEMMA InvGivesProperty ==
  ASSUME BrowserSessionAssumption, Inv
  PROVE  NoForeignProgress
<1>1. \A g \in snapshot.games : played[g] \in {"device", Owner}
  BY DEF Inv, Shown, OwnedBy
<1>2. local # None => \A g \in local.games : played[g] \in {"device", Owner}
  BY DEF Inv, Kept, OwnedBy
<1>3. copy # None => copy.user = Owner /\ \A g \in copy.progress.games : played[g] \in {"device", Owner}
  BY DEF Inv, Kept, OwnedBy
<1>4. \A u \in Users : \A g \in ServerGames(u, record) : played[g] \in {"device", u}
  BY DEF Inv, Rows, ServerGames, BrowserSessionAssumption
<1>5. storageMode = "cloud" => activeUserId = Owner
  BY DEF Inv, Modes
<1> QED BY <1>1, <1>2, <1>3, <1>4, <1>5 DEF NoForeignProgress

LEMMA InitInv ==
  ASSUME BrowserSessionAssumption, Init
  PROVE  Inv
<1>1. PICK elsewhere \in SUBSET Users :
        profile = [u \in Users |-> IF u \in elsewhere
                                   THEN [player |-> u, prefs |-> Synced(NoPreferences)] ELSE None]
  BY DEF Init
<1>2. Modes
  BY DEF Init, Modes, Owner, BrowserSessionAssumption
<1>3. Shown /\ Kept /\ Awaited
  BY DEF Init, Shown, Kept, Awaited, IsProgress, OwnedBy
<1>4. ASSUME NEW u \in Users, profile[u] # None
      PROVE  "player" \in DOMAIN profile[u] /\ profile[u].player = u
  BY <1>1, <1>4
<1>5. ASSUME NEW u \in Users  PROVE u \notin 1..players
  BY DEF Init, BrowserSessionAssumption
<1>6. DOMAIN played = Games /\ DOMAIN record = Games /\ DOMAIN profile = Users
        /\ \A g \in Games : record[g] = None
  BY <1>1 DEF Init
<1>7. Rows
  BY <1>4, <1>5, <1>6 DEF Rows
<1> QED BY <1>2, <1>3, <1>7 DEF Inv

-----------------------------------------------------------------------------
(* The server *)

(* What a player's account has stays the account's when the player is      *)
(* linked, and while games are played.                                     *)
LEMMA Carried ==
  ASSUME Owner' = Owner \/ Owner = None,
         \A g \in Games : played[g] # None => played'[g] = played[g]
  PROVE  \A games \in SUBSET Games :
           OwnedBy(Owner, games, played) => OwnedBy(Owner', games, played')
BY DEF OwnedBy

(* Linking the caller changes no other player's account, and takes none    *)
(* from the browser's player.                                              *)
LEMMA Linkage ==
  ASSUME BrowserSessionAssumption, Inv, NEW u \in Users, NEW prefs,
         Linked(u, Caller), Linking(u, Caller, prefs), Caller \in 1..players',
         players' \in {players, players + 1}, players' <= MaxPlayers,
         player' \in {player, Caller}
  PROVE  /\ link' \in [1..MaxPlayers -> Users \cup {None}]
         /\ Owner' = Owner \/ Owner = None
         /\ player' = Caller => Owner' = u
         /\ DOMAIN profile' = Users
         /\ \A v \in Users : v = u \/ profile'[v] # None =>
              /\ "player" \in DOMAIN profile'[v]
              /\ profile'[v].player \in (1..players') \cup Users
              /\ profile'[v].player \in 1..players' => link'[profile'[v].player] = v
<1> DEFINE p == Caller
<1>1. /\ players \in Nat /\ players' \in Nat /\ MaxPlayers \in Nat
      /\ p \in 1..MaxPlayers /\ p # None
      /\ player # None => p = player
      /\ player = None => p = players + 1
      /\ player' \in {player, p}
  BY DEF Inv, Modes, Caller, BrowserSessionAssumption
<1>2. /\ link \in [1..MaxPlayers -> Users \cup {None}]
      /\ link[p] \in {None, u} /\ link' = [link EXCEPT ![p] = u]
      /\ profile' = [profile EXCEPT ![u] =
                      IF @ = None THEN [player |-> p, prefs |-> Synced(prefs)]
                      ELSE [@ EXCEPT !.prefs.auto = profile[u].prefs.auto \/ prefs.auto]]
  BY DEF Linked, Linking, Inv, Modes
<1>3. DOMAIN profile = Users
  BY DEF Inv, Rows
<1> HIDE DEF p
<1>4. /\ link' \in [1..MaxPlayers -> Users \cup {None}] /\ link'[p] = u
      /\ \A q \in 1..MaxPlayers : q # p => link'[q] = link[q]
  BY <1>1, <1>2
<1>5. player' = p => Owner' = u
  BY <1>1, <1>4 DEF Owner
<1>6. Owner' = Owner \/ Owner = None
  <2>1. CASE player = None
    BY <2>1 DEF Owner
  <2>2. CASE player # None
    <3>1. player' = p /\ Owner = link[p]
      BY <1>1, <2>2 DEF Owner
    <3> QED BY <1>2, <1>5, <3>1
  <2> QED BY <2>1, <2>2
<1>7. ASSUME NEW v \in Users, v = u \/ profile'[v] # None
      PROVE  /\ "player" \in DOMAIN profile'[v]
             /\ profile'[v].player \in (1..players') \cup Users
             /\ profile'[v].player \in 1..players' => link'[profile'[v].player] = v
  <2>1. CASE v = u /\ profile[u] = None
    <3>1. profile'[v] = [player |-> p, prefs |-> Synced(prefs)]
      BY <2>1, <1>2, <1>3
    <3> QED BY <3>1, <2>1, <1>4 DEF p
  <2>2. CASE profile[v] # None /\ "player" \in DOMAIN profile'[v] /\ profile'[v].player = profile[v].player
    <3> DEFINE q == profile[v].player
    <3>1. q \in (1..players) \cup Users /\ (q \in 1..players => link[q] = v)
      BY <2>2 DEF Inv, Rows
    <3>2. q \in Users => q \notin 1..players'
      BY <1>1 DEF BrowserSessionAssumption
    <3>3. q \in 1..players => q \in 1..players' /\ q \in 1..MaxPlayers
      BY <1>1 DEF Inv, Modes
    <3>4. q \in 1..players => link'[q] = v
      <4>1. CASE q # p
        BY <4>1, <3>1, <3>3, <1>4
      <4>2. CASE q = p
        BY <4>2, <3>1, <1>2, <1>4 DEF BrowserSessionAssumption
      <4> QED BY <4>1, <4>2
    <3> HIDE DEF q
    <3>5. q \in (1..players') \cup Users /\ (q \in 1..players' => link'[q] = v)
      BY <3>1, <3>2, <3>3, <3>4
    <3> QED BY <2>2, <3>5 DEF q
  <2>3. CASE v # u
    <3>1. profile'[v] = profile[v]
      BY <2>3, <1>2, <1>3
    <3>2. "player" \in DOMAIN profile[v]
      BY <2>3, <3>1, <1>7 DEF Inv, Rows
    <3> QED BY <2>2, <2>3, <1>7, <3>1, <3>2
  <2>4. CASE v = u /\ profile[u] # None
    <3>1. profile'[v] = [profile[u] EXCEPT !.prefs.auto = profile[u].prefs.auto \/ prefs.auto]
      BY <2>4, <1>2, <1>3
    <3>2. "player" \in DOMAIN profile[u]
      BY <2>4 DEF Inv, Rows
    <3>3. "player" \in DOMAIN profile'[v] /\ profile'[v].player = profile[v].player
      BY <2>4, <3>1, <3>2
    <3> QED BY <2>2, <2>4, <3>3
  <2> QED BY <2>1, <2>3, <2>4
<1>8. DOMAIN profile' = Users
  BY <1>2, <1>3
<1> QED BY <1>4, <1>5, <1>6, <1>7, <1>8 DEF p

(* A player the server knows nothing of has no rows and no account. *)
LEMMA NewPlayer ==
  ASSUME BrowserSessionAssumption, Inv
  PROVE  /\ players \in Nat /\ players + 1 \notin (1..players) \cup Users \cup {None}
         /\ player # None => Caller = player
         /\ player = None => Caller = players + 1 /\ Owner = None
BY DEF BrowserSessionAssumption, Inv, Modes, Caller, Owner

(* Linking keeps the rows right, with a game played meanwhile.             *)
LEMMA ClaimedRows ==
  ASSUME BrowserSessionAssumption, Inv, NEW u \in Users, NEW prefs,
         Linked(u, Caller), Linking(u, Caller, prefs), Caller \in 1..players',
         players' \in {players, players + 1}, players' <= MaxPlayers,
         player' \in {player, Caller},
         DOMAIN record' = Games, DOMAIN played' = Games,
         \A g \in Games :
           \/ played'[g] = played[g]
              /\ record'[g] = Claimed(u, Caller, profile'[u].player)[g]
           \/ played'[g] \in {"device", u}
              /\ record'[g] = [player |-> profile'[u].player, user |-> u]
  PROVE  Rows'
<1> DEFINE primary == profile'[u].player
<1>1. /\ Owner' = Owner \/ Owner = None
      /\ player' = Caller => Owner' = u
      /\ DOMAIN profile' = Users
      /\ \A v \in Users : v = u \/ profile'[v] # None =>
           /\ "player" \in DOMAIN profile'[v]
           /\ profile'[v].player \in (1..players') \cup Users
           /\ profile'[v].player \in 1..players' => link'[profile'[v].player] = v
  BY Linkage
<1>2. primary \in (1..players') \cup Users /\ (primary \in 1..players' => link'[primary] = u)
  BY <1>1
<1>3. players' \in Nat /\ (1..players) \subseteq (1..players') /\ u # None /\ "device" # None
  BY DEF Inv, Modes, BrowserSessionAssumption
<1> HIDE DEF primary
<1>4. ASSUME NEW g \in Games, record'[g] # None
      PROVE  /\ DOMAIN record'[g] = {"player", "user"}
             /\ record'[g].player \in (1..players') \cup Users
             /\ played'[g] # None
             /\ record'[g].user # None => played'[g] \in {"device", record'[g].user}
             /\ record'[g].player = player' => played'[g] \in {"device", Owner'}
  <2>1. CASE played'[g] \in {"device", u} /\ record'[g] = [player |-> primary, user |-> u]
    <3>1. primary = player' => Owner' = u
      <4>1. primary # None
        BY <1>2, <1>3 DEF BrowserSessionAssumption
      <4>2. player' \in 1..players' \/ player' = None
        BY <1>3 DEF Inv, Modes
      <4>3. player' \in 1..players' => Owner' = link'[player']
        BY <1>3 DEF Owner, BrowserSessionAssumption
      <4> QED BY <4>1, <4>2, <4>3, <1>2
    <3> QED BY <2>1, <3>1, <1>2, <1>3
  <2>2. CASE played'[g] = played[g] /\ record'[g] = Claimed(u, Caller, primary)[g]
    <3>1. CASE record[g] = None \/ record[g].player # Caller
      <4>1. record'[g] = record[g]
        BY <2>2, <3>1 DEF Claimed
      <4>2. /\ DOMAIN record[g] = {"player", "user"}
            /\ record[g].player \in (1..players) \cup Users
            /\ played[g] # None
            /\ record[g].user # None => played[g] \in {"device", record[g].user}
            /\ record[g].player = player => played[g] \in {"device", Owner}
        BY <1>4, <4>1 DEF Inv, Rows
      <4>3. record[g].player = player' => played[g] \in {"device", Owner'}
        BY <3>1, <4>1, <4>2, <1>1, <1>4
      <4> QED BY <2>2, <4>1, <4>2, <4>3, <1>3
    <3>2. CASE record[g] # None /\ record[g].player = Caller
      <4>1. /\ DOMAIN record[g] = {"player", "user"}
            /\ record[g].player \in (1..players) \cup Users
            /\ played[g] # None
            /\ record[g].user # None => played[g] \in {"device", record[g].user}
            /\ record[g].player = player => played[g] \in {"device", Owner}
        BY <3>2 DEF Inv, Rows
      <4>2. player # None /\ Caller = player
        BY <3>2, <4>1, NewPlayer
      <4>3. player' = Caller /\ Owner' = u /\ Owner \in {None, u}
        BY <1>1, <4>2 DEF Linked, Owner
      <4>4. played[g] \in {"device", u}
        BY <3>2, <4>1, <4>2, <4>3
      <4>5. record'[g] = [player |-> primary,
                          user |-> IF record[g].user = None THEN u ELSE record[g].user]
        BY <2>2, <3>2 DEF Claimed
      <4> QED BY <2>2, <4>1, <4>3, <4>4, <4>5, <1>2, <1>3
    <3> QED BY <3>1, <3>2
  <2> QED BY <2>1, <2>2 DEF primary
<1> QED BY <1>1, <1>4 DEF Rows

-----------------------------------------------------------------------------
(* The store *)

LEMMA Updating ==
  ASSUME NEW p, UpdateProgress(p), storageMode \in {"local", "cloud"}
  PROVE  /\ snapshot' = p /\ UNCHANGED <<storageMode, activeUserId, known>>
         /\ storageMode = "cloud" => copy' = CopyOf(activeUserId, p) /\ local' = local
         /\ storageMode = "local" => local' = p /\ copy' = copy
BY DEF UpdateProgress, Save

LEMMA Copying ==
  ASSUME NEW u, NEW p, NEW o, NEW by, IsProgress(p), OwnedBy(o, p.games, by)
  PROVE  /\ CopyOf(u, p).user = u /\ CopyOf(u, p).progress.prefs = p.prefs
         /\ CopyOf(u, p).progress = [p EXCEPT !.games = Newest(@)]
         /\ IsProgress(CopyOf(u, p).progress) /\ OwnedBy(o, CopyOf(u, p).progress.games, by)
<1>1. CopyOf(u, p).progress.games = Newest(p.games) /\ DOMAIN CopyOf(u, p).progress = DOMAIN p
        /\ CopyOf(u, p).progress.prefs = p.prefs
  BY DEF CopyOf, IsProgress
<1>2. Newest(p.games) \subseteq p.games
  BY DEF Newest
<1> QED BY <1>1, <1>2 DEF CopyOf, IsProgress, OwnedBy

(* A progress of the player's account is shown and stored.                 *)
LEMMA UpdateInv ==
  ASSUME BrowserSessionAssumption, Inv, NEW p, UpdateProgress(p), IsProgress(p),
         OwnedBy(Owner', p.games, played'),
         Owner' = Owner \/ Owner = None,
         \A g \in Games : played[g] # None => played'[g] = played[g],
         entering' \in {entering, None}
  PROVE  Shown' /\ Kept'
<1>1. storageMode \in {"local", "cloud"}
      /\ (storageMode = "cloud" => activeUserId = Owner /\ Owner \in Users /\ local = None)
  BY DEF Inv, Modes
<1>2. \A games \in SUBSET Games :
           OwnedBy(Owner, games, played) => OwnedBy(Owner', games, played')
  BY Carried
<1>3. /\ snapshot' = p /\ UNCHANGED <<storageMode, activeUserId, known>>
      /\ storageMode = "cloud" => copy' = CopyOf(activeUserId, p) /\ local' = local
      /\ storageMode = "local" => local' = p /\ copy' = copy
  BY <1>1, Updating
<1>4. Shown'
  <2>1. IsProgress(snapshot)' /\ OwnedBy(Owner, snapshot.games, played)'
    BY <1>3 DEF IsProgress, OwnedBy
  <2>2. entering' # None => IsProgress(entering') /\ OwnedBy(Owner', entering'.games, played')
    BY <1>2 DEF Inv, Shown, IsProgress
  <2> QED BY <2>1, <2>2 DEF Shown, IsProgress
<1>5. CASE storageMode = "cloud"
  <2>1. /\ copy'.user = activeUserId /\ IsProgress(copy'.progress)
        /\ OwnedBy(Owner', copy'.progress.games, played')
    <3>1. /\ CopyOf(activeUserId, p).user = activeUserId
          /\ IsProgress(CopyOf(activeUserId, p).progress)
          /\ OwnedBy(Owner', CopyOf(activeUserId, p).progress.games, played')
      BY Copying
    <3> QED BY <1>3, <1>5, <3>1
  <2>2. copy'.user = Owner' /\ copy'.user \in Users
    BY <1>1, <1>5, <2>1 DEF BrowserSessionAssumption
  <2> QED BY <1>1, <1>3, <1>4, <1>5, <2>1, <2>2 DEF Kept, IsProgress
<1>6. CASE storageMode = "local"
  <2>1. copy # None =>
          /\ copy.user \in Users /\ copy.user = Owner'
          /\ IsProgress(copy.progress) /\ OwnedBy(Owner', copy.progress.games, played')
    BY <1>2 DEF Inv, Kept, IsProgress, BrowserSessionAssumption
  <2>2. local' = p /\ copy' = copy
    BY <1>3, <1>6
  <2>3. IsProgress(local)' /\ OwnedBy(Owner, local.games, played)'
    BY <2>2 DEF IsProgress, OwnedBy
  <2>4. copy' # None =>
          /\ copy'.user \in Users /\ copy'.user = Owner'
          /\ IsProgress(copy.progress)' /\ OwnedBy(Owner, copy.progress.games, played)'
    BY <2>1, <2>2 DEF IsProgress, OwnedBy
  <2> QED BY <1>4, <2>3, <2>4 DEF Kept, IsProgress, OwnedBy
<1> QED BY <1>1, <1>4, <1>5, <1>6

LEMMA StoreKept ==
  ASSUME BrowserSessionAssumption, Inv, UNCHANGED <<local, copy, snapshot>>,
         entering' \in {entering, None},
         Owner' = Owner \/ Owner = None,
         \A g \in Games : played[g] # None => played'[g] = played[g]
  PROVE  Shown' /\ Kept'
<1>1. \A games \in SUBSET Games :
           OwnedBy(Owner, games, played) => OwnedBy(Owner', games, played')
  BY Carried
<1>2. IsProgress(snapshot) /\ OwnedBy(Owner', snapshot.games, played')
  BY <1>1 DEF Inv, Shown, IsProgress
<1>3. entering' # None => IsProgress(entering') /\ OwnedBy(Owner', entering'.games, played')
  BY <1>1 DEF Inv, Shown, IsProgress
<1>4. local # None => IsProgress(local) /\ OwnedBy(Owner', local.games, played')
  BY <1>1 DEF Inv, Kept, IsProgress
<1>5. copy # None =>
          /\ copy.user \in Users /\ copy.user = Owner'
          /\ IsProgress(copy.progress) /\ OwnedBy(Owner', copy.progress.games, played')
  BY <1>1 DEF Inv, Kept, IsProgress, BrowserSessionAssumption
<1> QED BY <1>2, <1>3, <1>4, <1>5 DEF Shown, Kept, IsProgress

(* The user, the modes and the calls stay, and the player's account with   *)
(* them.                                                                   *)
LEMMA StayInv ==
  ASSUME BrowserSessionAssumption, Inv,
         UNCHANGED <<storageMode, activeUserId, known, user, player, players>>,
         storageMode = "cloud" => local' = local,
         cookie' \in {cookie, None},
         link' \in [1..MaxPlayers -> Users \cup {None}],
         reconciling' \in {reconciling, None}, entering' # None => user # None,
         Owner' = Owner \/ Owner = None,
         \A g \in Games : played[g] # None => played'[g] = played[g]
  PROVE  Modes' /\ Awaited'
<1>1. Modes'
  BY DEF Inv, Modes, BrowserSessionAssumption
<1>2. \A games \in SUBSET Games :
           OwnedBy(Owner, games, played) => OwnedBy(Owner', games, played')
  BY Carried
<1>3. Awaited'
  BY <1>2 DEF Inv, Awaited, IsProgress
<1> QED BY <1>1, <1>3

-----------------------------------------------------------------------------
(* The actions *)

(* What Recorded makes of the links and the rows, when played says who     *)
(* played the game.                                                        *)
LEMMA RecordedInv ==
  ASSUME BrowserSessionAssumption, Inv, NEW g \in Games, Recorded(g), player # None,
         UNCHANGED <<user, cookie, player, players>>,
         played' = [played EXCEPT ![g] = IF storageMode = "cloud" THEN activeUserId ELSE "device"]
  PROVE  /\ link' \in [1..MaxPlayers -> Users \cup {None}]
         /\ Owner' = Owner \/ Owner = None
         /\ Rows'
<1>1. /\ DOMAIN played = Games /\ DOMAIN record = Games
      /\ player \in 1..players /\ players \in Nat /\ players <= MaxPlayers /\ MaxPlayers \in Nat
      /\ Caller = player
  BY NewPlayer DEF Inv, Modes, Rows, BrowserSessionAssumption
<1>2. played'[g] \in {"device", Owner} /\ (cookie # None => played'[g] \in {"device", cookie})
        /\ played'[g] # None
  BY <1>1 DEF Inv, Modes, BrowserSessionAssumption
<1>3. \A h \in Games : h # g => played'[h] = played[h]
  BY <1>1
<1>4. cookie \in Users \cup {None}
  BY DEF Inv, Modes
<1>5. ASSUME UNCHANGED <<profile, link>>, NEW p \in (1..players) \cup Users,
             record' = [record EXCEPT ![g] = [player |-> p, user |-> cookie]],
             p = player => cookie \in {None, Owner}
      PROVE  /\ link' \in [1..MaxPlayers -> Users \cup {None}]
             /\ Owner' = Owner \/ Owner = None
             /\ Rows'
  <2>1. Owner' = Owner /\ link' \in [1..MaxPlayers -> Users \cup {None}]
    BY <1>5 DEF Owner, Inv, Modes
  <2>2. record'[g] = [player |-> p, user |-> cookie]
          /\ \A h \in Games : h # g => record'[h] = record[h]
          /\ DOMAIN record' = Games /\ DOMAIN played' = Games
    BY <1>1, <1>5
  <2>3. ASSUME NEW h \in Games, record'[h] # None
        PROVE  /\ DOMAIN record'[h] = {"player", "user"}
               /\ record'[h].player \in (1..players) \cup Users
               /\ played'[h] # None
               /\ record'[h].user # None => played'[h] \in {"device", record'[h].user}
               /\ record'[h].player = player => played'[h] \in {"device", Owner}
    <3>1. CASE h = g
      BY <3>1, <2>2, <1>2, <1>4
    <3>2. CASE h # g
      BY <3>2, <2>2, <2>3, <1>3 DEF Inv, Rows
    <3> QED BY <3>1, <3>2
  <2> QED BY <1>5, <2>1, <2>2, <2>3 DEF Inv, Rows
<1>6. CASE cookie = None /\ record' = [record EXCEPT ![g] = [player |-> player, user |-> cookie]]
           /\ UNCHANGED <<profile, link>>
  BY <1>1, <1>5, <1>6
<1>7. CASE /\ cookie # None /\ profile[cookie] # None
           /\ record' = [record EXCEPT ![g] = [player |-> profile[cookie].player, user |-> cookie]]
           /\ UNCHANGED <<profile, link>>
  <2>1. profile[cookie].player \in (1..players) \cup Users
          /\ (profile[cookie].player \in 1..players => link[profile[cookie].player] = cookie)
    BY <1>4, <1>7 DEF Inv, Rows
  <2>2. profile[cookie].player = player => cookie = Owner
    BY <1>1, <2>1 DEF Owner, BrowserSessionAssumption, Inv, Modes
  <2> QED BY <1>5, <1>7, <2>1, <2>2
<1>8. CASE /\ cookie # None /\ profile[cookie] = None /\ Linked(cookie, player)
           /\ Linking(cookie, player, NoPreferences)
           /\ record' = [Claimed(cookie, player, player) EXCEPT ![g] = [player |-> player, user |-> cookie]]
  <2>1. cookie \in Users /\ Linked(cookie, Caller) /\ Linking(cookie, Caller, NoPreferences)
    BY <1>1, <1>4, <1>8
  <2>2. Caller \in 1..players' /\ players' \in {players, players + 1} /\ players' <= MaxPlayers
          /\ player' \in {player, Caller}
    BY <1>1
  <2>3. profile'[cookie].player = player
    BY <1>4, <1>8 DEF Linking, Inv, Rows
  <2>4. DOMAIN record' = Games /\ DOMAIN played' = Games
    BY <1>1, <1>8 DEF Claimed
  <2>5. ASSUME NEW h \in Games
        PROVE  \/ played'[h] = played[h]
                  /\ record'[h] = Claimed(cookie, Caller, profile'[cookie].player)[h]
               \/ played'[h] \in {"device", cookie}
                  /\ record'[h] = [player |-> profile'[cookie].player, user |-> cookie]
    <3>1. CASE h = g
      <4>1. record'[h] = [player |-> player, user |-> cookie]
        BY <1>8, <2>4, <3>1 DEF Claimed
      <4> QED BY <1>2, <1>8, <2>3, <3>1, <4>1
    <3>2. CASE h # g
      <4>1. record'[h] = Claimed(cookie, player, player)[h]
        BY <1>8, <2>4, <3>2 DEF Claimed
      <4> QED BY <1>1, <1>3, <2>3, <3>2, <4>1
    <3> QED BY <3>1, <3>2
  <2>6. Rows'
    BY <2>1, <2>2, <2>4, <2>5, ClaimedRows
  <2>7. link' \in [1..MaxPlayers -> Users \cup {None}] /\ (Owner' = Owner \/ Owner = None)
    BY <2>1, <2>2, Linkage
  <2> QED BY <2>6, <2>7
<1> QED BY <1>6, <1>7, <1>8 DEF Recorded

LEMMA PlayInv ==
  ASSUME BrowserSessionAssumption, Inv, NEW g \in Games, Play(g)
  PROVE  Inv'
<1> DEFINE next == [snapshot EXCEPT !.games = @ \cup {g}]
<1>1. /\ player # None /\ Recorded(g) /\ played[g] = None
      /\ played' = [played EXCEPT ![g] = IF storageMode = "cloud" THEN activeUserId ELSE "device"]
      /\ UpdateProgress(next) \/ UNCHANGED <<storage, store, timer, lostEdit>>
      /\ UNCHANGED <<user, cloudReady, reconciling, entering, cookie, player, players>>
  BY DEF Play
<1>2. /\ link' \in [1..MaxPlayers -> Users \cup {None}]
      /\ Owner' = Owner \/ Owner = None
      /\ Rows'
  BY <1>1, RecordedInv
<1>3. storageMode \in {"local", "cloud"}
        /\ (storageMode = "cloud" => activeUserId = Owner /\ Owner \in Users)
        /\ DOMAIN played = Games
  BY DEF Inv, Modes, Rows
<1>4. \A h \in Games : played[h] # None => played'[h] = played[h]
  BY <1>1, <1>3
<1>5. played'[g] # None /\ played'[g] \in {"device", Owner'}
  BY <1>1, <1>2, <1>3 DEF BrowserSessionAssumption
<1>6. IsProgress(next) /\ OwnedBy(Owner', next.games, played')
  <2>1. IsProgress(snapshot) /\ OwnedBy(Owner', snapshot.games, played')
    BY <1>2, <1>4, Carried DEF Inv, Shown, IsProgress
  <2>2. next.games = snapshot.games \cup {g} /\ DOMAIN next = DOMAIN snapshot
    BY <2>1 DEF IsProgress
  <2> HIDE DEF next
  <2> QED BY <1>5, <2>1, <2>2 DEF IsProgress, OwnedBy
<1> HIDE DEF next
<1>7. /\ UNCHANGED <<storageMode, activeUserId, known>>
      /\ storageMode = "cloud" => local' = local
  <2>1. CASE UpdateProgress(next)
    BY <2>1, <1>3, Updating
  <2>2. CASE UNCHANGED <<storage, store, timer, lostEdit>>
    BY <2>2 DEF storage, store
  <2> QED BY <1>1, <2>1, <2>2
<1>8. Modes' /\ Awaited'
  <2>1. entering' # None => user # None
    BY <1>1 DEF Inv, Modes
  <2> QED BY <1>1, <1>2, <1>4, <1>7, <2>1, StayInv
<1>9. Shown' /\ Kept'
  <2>1. CASE UpdateProgress(next)
    BY <2>1, <1>1, <1>2, <1>4, <1>6, UpdateInv
  <2>2. CASE UNCHANGED <<storage, store, timer, lostEdit>>
    BY <2>2, <1>1, <1>2, <1>4, StoreKept DEF storage, store
  <2> QED BY <1>1, <2>1, <2>2
<1> QED BY <1>2, <1>8, <1>9 DEF Inv

(* An update that is not of a game played. *)
LEMMA EditedInv ==
  ASSUME BrowserSessionAssumption, Inv, NEW p, UpdateProgress(p),
         IsProgress(p), OwnedBy(Owner, p.games, played),
         UNCHANGED <<user, reconciling, cookie, player, profile, link, record, players, played>>,
         entering' \in {entering, None}
  PROVE  Inv'
<1>1. Owner' = Owner /\ link' \in [1..MaxPlayers -> Users \cup {None}]
  BY DEF Owner, Inv, Modes
<1>2. Shown' /\ Kept'
  <2>1. OwnedBy(Owner', p.games, played')
    BY <1>1 DEF OwnedBy
  <2> QED BY <1>1, <2>1, UpdateInv
<1>3. Modes' /\ Awaited'
  <2>1. /\ UNCHANGED <<storageMode, activeUserId, known>>
        /\ storageMode = "cloud" => local' = local
    BY Updating DEF Inv, Modes
  <2>2. entering' # None => user # None
    BY DEF Inv, Modes
  <2> QED BY <1>1, <2>1, <2>2, StayInv
<1>4. Rows'
  BY <1>1 DEF Inv, Rows
<1> QED BY <1>2, <1>3, <1>4 DEF Inv

LEMMA HistoryInv ==
  ASSUME BrowserSessionAssumption, Inv, NEW g \in Games, ReadHistory(g)
  PROVE  Inv'
<1> DEFINE next == [snapshot EXCEPT !.games = @ \cup {g}]
<1>1. /\ UpdateProgress(next) /\ record[g] # None /\ record[g].player = player
      /\ UNCHANGED <<user, reconciling, entering, cookie, player, profile, link, record, players, played>>
  BY DEF ReadHistory, server
<1>2. IsProgress(snapshot) /\ OwnedBy(Owner, snapshot.games, played)
        /\ played[g] # None /\ played[g] \in {"device", Owner}
  BY <1>1 DEF Inv, Shown, Rows
<1>3. next.games = snapshot.games \cup {g} /\ DOMAIN next = DOMAIN snapshot
  BY <1>2 DEF IsProgress
<1> HIDE DEF next
<1>4. IsProgress(next) /\ OwnedBy(Owner, next.games, played)
  BY <1>2, <1>3 DEF IsProgress, OwnedBy
<1> QED BY <1>1, <1>4, EditedInv

LEMMA EditInv ==
  ASSUME BrowserSessionAssumption, Inv, NEW field, Edit(field)
  PROVE  Inv'
<1> DEFINE next == [snapshot EXCEPT !.prefs[field] = ~@, !.prefs.edit = edits']
<1>1. /\ UpdateProgress(next)
      /\ UNCHANGED <<user, reconciling, entering, cookie, player, profile, link, record, players, played>>
  BY DEF Edit, server
<1>2. IsProgress(snapshot) /\ OwnedBy(Owner, snapshot.games, played)
  BY DEF Inv, Shown
<1>3. next.games = snapshot.games /\ DOMAIN next = DOMAIN snapshot
  BY <1>2 DEF IsProgress
<1> HIDE DEF next
<1>4. IsProgress(next) /\ OwnedBy(Owner, next.games, played)
  BY <1>2, <1>3 DEF IsProgress
<1> QED BY <1>1, <1>4, EditedInv

LEMMA EnterAnswerInv ==
  ASSUME BrowserSessionAssumption, Inv, EnterAnswer
  PROVE  Inv'
<1> DEFINE next == [entering EXCEPT !.prefs.edit = edits']
<1>1. /\ entering # None /\ entering' = None
      /\ UpdateProgress(next) \/ UNCHANGED <<storage, store, timer, lostEdit, edits>>
      /\ UNCHANGED <<user, reconciling, cookie, player, profile, link, record, players, played>>
  BY DEF EnterAnswer, server
<1>2. IsProgress(entering) /\ OwnedBy(Owner, entering.games, played)
  BY <1>1 DEF Inv, Shown
<1>3. next.games = entering.games /\ DOMAIN next = DOMAIN entering
  BY <1>2 DEF IsProgress
<1> HIDE DEF next
<1>4. IsProgress(next) /\ OwnedBy(Owner, next.games, played)
  BY <1>2, <1>3 DEF IsProgress
<1>5. CASE UpdateProgress(next)
  BY <1>1, <1>4, <1>5, EditedInv
<1>6. CASE UNCHANGED <<storage, store, timer, lostEdit, edits>>
  BY <1>1, <1>6 DEF Inv, Modes, Shown, Kept, Awaited, Rows, Owner, storage, store, IsProgress, OwnedBy
<1> QED BY <1>1, <1>5, <1>6

LEMMA EnterInv ==
  ASSUME BrowserSessionAssumption, Inv, EnterInnerCircle
  PROVE  Inv'
<1>1. /\ user # None /\ entering' = [snapshot EXCEPT !.prefs.unlocked = TRUE]
      /\ UNCHANGED <<local, known, copy, snapshot, storageMode, activeUserId, user, reconciling,
                     cookie, player, profile, link, record, players, played>>
  BY DEF EnterInnerCircle, storage, store, sync, server, history
<1>2. IsProgress(snapshot) /\ OwnedBy(Owner, snapshot.games, played)
  BY DEF Inv, Shown
<1>3. entering'.games = snapshot.games /\ DOMAIN entering' = DOMAIN snapshot
  BY <1>1, <1>2 DEF IsProgress
<1>4. Shown'
  BY <1>1, <1>2, <1>3 DEF Shown, Owner, IsProgress, OwnedBy
<1> QED BY <1>1, <1>4 DEF Inv, Modes, Kept, Awaited, Rows, Owner, IsProgress, OwnedBy

(* The page starts as the account's the player is linked to.               *)
LEMMA StartInv ==
  ASSUME BrowserSessionAssumption, Inv, NEW u \in Users, NEW p, StartCloud(u, p),
         IsProgress(p), OwnedBy(Owner, p.games, played), Owner = u,
         user' = u, cookie' \in {None, u}, reconciling' = None, entering' = entering,
         UNCHANGED <<player, profile, link, record, players, played>>
  PROVE  Inv'
<1>1. /\ storageMode' = "cloud" /\ activeUserId' = u /\ known' = u /\ local' = None
      /\ copy' = CopyOf(u, snapshot')
      /\ snapshot' = IF CachedFor(u) = None THEN p
                     ELSE [p EXCEPT !.games = @ \cup CachedFor(u).games]
  BY DEF StartCloud
<1>2. Owner' = Owner
  BY DEF Owner
<1>3. IsProgress(snapshot') /\ OwnedBy(Owner, snapshot'.games, played)
  <2>1. CASE CachedFor(u) = None
    BY <1>1, <2>1
  <2>2. CASE CachedFor(u) # None
    <3>1. IsProgress(CachedFor(u)) /\ OwnedBy(Owner, CachedFor(u).games, played)
      BY <2>2 DEF CachedFor, Inv, Kept
    <3>2. snapshot'.games = p.games \cup CachedFor(u).games /\ DOMAIN snapshot' = DOMAIN p
      BY <1>1, <2>2 DEF IsProgress
    <3> QED BY <3>1, <3>2 DEF IsProgress, OwnedBy
  <2> QED BY <2>1, <2>2
<1>4. /\ copy'.user = u /\ IsProgress(copy'.progress)
      /\ OwnedBy(Owner, copy'.progress.games, played)
  <2>1. /\ CopyOf(u, snapshot').user = u /\ IsProgress(CopyOf(u, snapshot').progress)
        /\ OwnedBy(Owner, CopyOf(u, snapshot').progress.games, played)
    BY <1>3, Copying
  <2> QED BY <1>1, <2>1
<1>5. Shown'
  BY <1>2, <1>3 DEF Inv, Shown, IsProgress, OwnedBy
<1>6. Kept'
  BY <1>1, <1>2, <1>4 DEF Kept, IsProgress, OwnedBy
<1>7. Modes'
  BY <1>1, <1>2 DEF Inv, Modes, BrowserSessionAssumption
<1>8. Awaited' /\ Rows'
  BY <1>2 DEF Inv, Awaited, Rows
<1> QED BY <1>5, <1>6, <1>7, <1>8 DEF Inv

LEMMA AnswerInv ==
  ASSUME BrowserSessionAssumption, Inv, ReconcileAnswer
  PROVE  Inv'
<1> DEFINE merged == MergedWithServer(reconciling.progress, snapshot)
<1>1. /\ StartCloud(user, merged) /\ reconciling # None /\ reconciling.ok /\ reconciling' = None
      /\ UNCHANGED <<user, entering, cookie, player, profile, link, record, players, played>>
  BY DEF ReconcileAnswer, server, history
<1>2. user \in Users /\ Owner = user /\ cookie' \in {None, user}
  BY <1>1 DEF Inv, Modes
<1>3. /\ IsProgress(reconciling.progress) /\ OwnedBy(Owner, reconciling.progress.games, played)
      /\ IsProgress(snapshot) /\ OwnedBy(Owner, snapshot.games, played)
  BY <1>1 DEF Inv, Awaited, Shown
<1>4. IsProgress(merged) /\ OwnedBy(Owner, merged.games, played)
  <2>1. DOMAIN merged = {"games", "prefs"}
          /\ merged.games = reconciling.progress.games \cup snapshot.games
    BY DEF MergedWithServer
  <2> QED BY <1>3, <2>1 DEF IsProgress, OwnedBy
<1> HIDE DEF merged
<1> QED BY <1>1, <1>2, <1>4, StartInv

(* The server handles the call of the reconciliation, or it does not.      *)
LEMMA AskInv ==
  ASSUME BrowserSessionAssumption, Inv, NEW u \in Users, NEW out \in Outcomes, Ask(u, out),
         UNCHANGED <<storage, store, entering, played>>,
         user = None, user' = u, cookie' \in {None, u}
  PROVE  Inv'
<1> DEFINE asks == ~HasAnonymousState /\ known = u /\ profile[u] # None
           done == out # "not sent" /\ (asks \/ Linked(u, Caller))
<1>1. /\ Identified(out)
      /\ done /\ ~asks => Synchronized(u, Caller, snapshot.prefs)
      /\ ~(done /\ ~asks) => UNCHANGED <<link, record, profile>>
      /\ done /\ out = "answered" =>
           reconciling' \in {[ok |-> TRUE, progress |-> answer] :
                               answer \in ServerAnswers(u, profile', record')}
      /\ ~(done /\ out = "answered") => reconciling' = NoAnswer
  BY DEF Ask
<1>2. asks => known = u
  OBVIOUS
<1>3. done /\ ~asks => out # "not sent" /\ Linked(u, Caller)
  OBVIOUS
<1> HIDE DEF asks, done
<1>4. /\ players' \in Nat /\ players' \in {players, players + 1} /\ players' <= MaxPlayers
      /\ player' \in {player, Caller} /\ (player' # None => player' \in 1..players')
      /\ out # "not sent" => Caller \in 1..players'
      /\ out = "answered" => player' = Caller
      /\ MaxPlayers \in Nat /\ players \in Nat
  <2>1. /\ players \in Nat /\ MaxPlayers \in Nat /\ players <= MaxPlayers
        /\ player \in (1..players) \cup {None}
    BY DEF Inv, Modes, BrowserSessionAssumption
  <2>2. /\ players' = IF player = None /\ out # "not sent" THEN players + 1 ELSE players
        /\ players' <= MaxPlayers
        /\ player' = IF out = "answered" THEN Caller ELSE player
    BY <1>1 DEF Identified
  <2>3. CASE player = None /\ out # "not sent"
    <3>1. Caller = players + 1 /\ players' = players + 1
      BY <2>2, <2>3 DEF Caller
    <3>2. players' \in Nat /\ Caller \in 1..players'
      BY <2>1, <3>1
    <3> QED BY <2>1, <2>2, <2>3, <3>1, <3>2
  <2>4. CASE player # None \/ out = "not sent"
    <3>1. players' = players /\ (player # None => Caller = player)
      BY <2>2, <2>4 DEF Caller
    <3> QED BY <2>1, <2>2, <2>4, <3>1
  <2> QED BY <2>3, <2>4
<1>5. /\ players \in Nat /\ players' \in Nat /\ (players' = players \/ players' = players + 1)
      /\ (1..players) \subseteq (1..players')
      /\ \A q \in 1..players' : q \in 1..players \/ q = players + 1
  <2>1. players \in Nat /\ players' \in Nat /\ (players' = players \/ players' = players + 1)
    BY <1>4
  <2> QED BY <2>1
<1>6. /\ link' \in [1..MaxPlayers -> Users \cup {None}]
      /\ Owner' = Owner \/ Owner = None
      /\ Rows'
      /\ done /\ ~asks /\ out = "answered" => Owner' = u
      /\ ~(done /\ ~asks) /\ player # None => Owner' = Owner
  <2>1. CASE done /\ ~asks
    <3>1. Linked(u, Caller) /\ Linking(u, Caller, snapshot.prefs)
            /\ record' = Claimed(u, Caller, profile'[u].player)
      BY <1>1, <1>3, <2>1 DEF Synchronized
    <3>2. Caller \in 1..players'
      BY <1>3, <1>4, <2>1
    <3>3. DOMAIN record' = Games /\ DOMAIN played' = Games
            /\ \A g \in Games : played'[g] = played[g]
                 /\ record'[g] = Claimed(u, Caller, profile'[u].player)[g]
      BY <3>1 DEF Claimed, Inv, Rows
    <3>4. Rows'
      BY <1>4, <3>1, <3>2, <3>3, ClaimedRows
    <3>5. /\ link' \in [1..MaxPlayers -> Users \cup {None}]
          /\ Owner' = Owner \/ Owner = None
          /\ player' = Caller => Owner' = u
      BY <1>4, <3>1, <3>2, Linkage
    <3> QED BY <1>4, <2>1, <3>4, <3>5
  <2>2. CASE ~(done /\ ~asks)
    <3>1. UNCHANGED <<link, record, profile>>
      BY <1>1, <2>2
    <3>2. player # None => player' = player
      BY <1>4, NewPlayer
    <3>3. player # None => Owner' = Owner
      BY <3>1, <3>2 DEF Owner
    <3>4. player = None => Owner = None
      BY NewPlayer
    <3>5. \A v \in Users : profile[v] # None =>
            /\ "player" \in DOMAIN profile[v]
            /\ profile[v].player \in (1..players') \cup Users
            /\ profile[v].player \in 1..players' => link[profile[v].player] = v
      <4>1. players + 1 \notin (1..players) \cup Users /\ (1..players) \subseteq (1..players')
              /\ \A q \in 1..players' : q \in 1..players \/ q = players + 1
        <5>1. players + 1 \notin (1..players) \cup Users
          BY NewPlayer
        <5> QED BY <1>5, <5>1
      <4>2. \A v \in Users : v \notin 1..players'
        <5>1. Users \cap Nat = {}
          BY DEF BrowserSessionAssumption
        <5>2. \A q \in 1..players' : q \in Nat
          BY <1>5
        <5> QED BY <5>1, <5>2
      <4> QED BY <4>1, <4>2 DEF Inv, Rows
    <3>6. ASSUME NEW g \in Games, record[g] # None
          PROVE  /\ record[g].player \in (1..players') \cup Users
                 /\ record[g].player = player' => played[g] \in {"device", Owner'}
      <4>1. /\ record[g].player \in (1..players) \cup Users
            /\ record[g].player = player => played[g] \in {"device", Owner}
        BY <3>6 DEF Inv, Rows
      <4>2. record[g].player \in (1..players') \cup Users
        <5>1. (1..players) \subseteq (1..players')
          BY <1>5
        <5> QED BY <4>1, <5>1
      <4>3. record[g].player = player' => player # None
        <5>1. players + 1 \notin (1..players) \cup Users \cup {None}
                /\ (player = None => Caller = players + 1)
          BY NewPlayer
        <5>2. None \notin (1..players) \cup Users
          <6>1. \A q \in 1..players : q \in Nat
            BY <1>5
          <6> QED BY <6>1 DEF BrowserSessionAssumption
        <5>3. player' \in {player, Caller}
          BY <1>4
        <5> QED BY <4>1, <5>1, <5>2, <5>3
      <4> QED BY <3>2, <3>3, <4>1, <4>2, <4>3
    <3>7. Rows'
      BY <3>1, <3>5, <3>6 DEF Inv, Rows
    <3>8. link' \in [1..MaxPlayers -> Users \cup {None}]
      BY <3>1 DEF Inv, Modes
    <3> QED BY <2>2, <3>3, <3>4, <3>7, <3>8
  <2> QED BY <2>1, <2>2
<1>7. /\ UNCHANGED <<local, known, copy, snapshot, storageMode, activeUserId>>
      /\ storageMode = "local" /\ activeUserId = None /\ entering' = None
  BY DEF storage, store, Inv, Modes
<1>8. Shown' /\ Kept'
  BY <1>6, <1>7, StoreKept
<1>9. reconciling' # None /\ reconciling'.ok =>
        /\ Owner' = u
        /\ \E answer \in ServerAnswers(u, profile', record') : reconciling'.progress = answer
  <2>1. CASE done /\ out = "answered"
    <3>1. asks => Owner = u /\ u # None
      BY <1>2 DEF Inv, Modes, BrowserSessionAssumption
    <3>2. asks => Owner' = u
      BY <1>6, <3>1, NewPlayer
    <3> QED BY <1>1, <1>6, <2>1, <3>2
  <2>2. CASE ~(done /\ out = "answered")
    BY <1>1, <2>2 DEF NoAnswer
  <2> QED BY <2>1, <2>2
<1>10. Modes'
  <2>1. known # None => Owner' = known
    BY <1>6 DEF Inv, Modes
  <2>2. player' \in (1..players') \cup {None}
    BY <1>4
  <2> QED BY <1>4, <1>6, <1>7, <1>9, <2>1, <2>2 DEF Modes, Inv, BrowserSessionAssumption
<1>11. Awaited'
  <2> SUFFICES ASSUME reconciling' # None, reconciling'.ok
               PROVE  /\ IsProgress(reconciling'.progress)
                      /\ OwnedBy(Owner', reconciling'.progress.games, played')
    BY DEF Awaited, IsProgress, OwnedBy
  <2>1. PICK answer \in ServerAnswers(u, profile', record') : reconciling'.progress = answer
    BY <1>9
  <2>2. answer.games \subseteq ServerGames(u, record') /\ DOMAIN answer = {"games", "prefs"}
    BY DEF ServerAnswers
  <2>3. \A g \in ServerGames(u, record') :
          g \in Games /\ played'[g] # None /\ played'[g] \in {"device", u}
    BY <1>6 DEF ServerGames, Rows, BrowserSessionAssumption
  <2> QED BY <1>9, <2>1, <2>2, <2>3 DEF IsProgress, OwnedBy
<1> QED BY <1>6, <1>8, <1>10, <1>11 DEF Inv

LEMMA MountInv ==
  ASSUME BrowserSessionAssumption, Inv, NEW u \in Users, Mount(u), user = None,
         cookie' \in {None, u}, UNCHANGED <<entering, played>>
  PROVE  Inv'
<1>1. user' = u
  BY DEF Mount
<1>2. CASE AskServer(u)
  <2>1. PICK out \in Outcomes : Ask(u, out)
    BY <1>2 DEF AskServer
  <2> QED BY <1>1, <1>2, <2>1, AskInv DEF AskServer
<1>3. CASE CachedFor(u) # None /\ ~AskServer(u)
  <2>1. /\ StartCloud(u, CachedFor(u)) /\ reconciling' = None
        /\ UNCHANGED <<player, link, record, profile, players>>
    BY <1>3 DEF Mount
  <2>2. /\ Owner = u /\ IsProgress(CachedFor(u)) /\ OwnedBy(Owner, CachedFor(u).games, played)
    BY <1>3 DEF CachedFor, Inv, Kept
  <2> QED BY <1>1, <2>1, <2>2, StartInv
<1> QED BY <1>2, <1>3 DEF Mount

LEMMA LoadInv ==
  ASSUME BrowserSessionAssumption, Inv, NEW stored, Load(stored), cookie' \in {cookie, None},
         \/ stored = local /\ local' = local /\ copy' \in {copy, None} /\ known' = known
         \/ stored = None /\ local' = snapshot' /\ copy' = None /\ known' = None
  PROVE  Inv'
<1>1. /\ snapshot' = ReadProgress(stored)
      /\ storageMode' = "local" /\ activeUserId' = None /\ user' = None
      /\ reconciling' = None /\ entering' = None
      /\ UNCHANGED <<player, profile, link, record, players, played>>
  BY DEF Load
<1>2. Owner' = Owner
  BY <1>1 DEF Owner
<1>3. IsProgress(snapshot') /\ OwnedBy(Owner, snapshot'.games, played)
  <2>1. CASE stored = None
    <3>1. DOMAIN snapshot' = {"games", "prefs"} /\ snapshot'.games = {}
      BY <1>1, <2>1 DEF ReadProgress, FreshProgress
    <3> QED BY <3>1 DEF IsProgress, OwnedBy
  <2>2. CASE stored # None
    <3>1. IsProgress(stored) /\ OwnedBy(Owner, stored.games, played)
      BY <2>2 DEF Inv, Kept
    <3>2. DOMAIN snapshot' = DOMAIN stored /\ snapshot'.games = stored.games
      BY <1>1, <2>2, <3>1 DEF ReadProgress, IsProgress
    <3> QED BY <3>1, <3>2 DEF IsProgress
  <2> QED BY <2>1, <2>2
<1>4. Shown'
  BY <1>1, <1>2, <1>3 DEF Shown, IsProgress, OwnedBy
<1>5. Kept'
  BY <1>1, <1>2, <1>3 DEF Inv, Kept, IsProgress, OwnedBy
<1>6. Modes' /\ Awaited'
  BY <1>1, <1>2 DEF Inv, Modes, Awaited
<1>7. Rows'
  BY <1>1, <1>2 DEF Inv, Rows
<1> QED BY <1>4, <1>5, <1>6, <1>7 DEF Inv

LEMMA OpenInv ==
  ASSUME BrowserSessionAssumption, Inv, OpenGame
  PROVE  Inv'
<1>1. /\ player = None /\ Identified("answered")
      /\ UNCHANGED <<local, copy, known, snapshot, storageMode, activeUserId, user, reconciling,
                     entering, cookie, profile, link, record, played>>
  BY DEF OpenGame, storage, store, sync
<1>2. /\ players' = players + 1 /\ player' = players + 1 /\ players' <= MaxPlayers
      /\ players \in Nat /\ players' \in Nat /\ Owner = None
      /\ players + 1 \notin (1..players) \cup Users \cup {None}
  BY <1>1, NewPlayer DEF Identified
<1>3. Shown' /\ Kept'
  BY <1>1, <1>2, StoreKept
<1>4. known = None /\ storageMode = "local" /\ ~(reconciling # None /\ reconciling.ok)
  BY <1>2 DEF Inv, Modes
<1>5. Modes'
  BY <1>1, <1>2, <1>4 DEF Inv, Modes
<1>6. Awaited'
  BY <1>1, <1>4 DEF Awaited
<1>7. ASSUME NEW q \in (1..players) \cup Users
      PROVE  q \in (1..players') \cup Users /\ (q \in 1..players' => q \in 1..players) /\ q # player'
  <2>1. q \in Users => q \notin 1..players'
    BY <1>2 DEF BrowserSessionAssumption
  <2>2. q \in 1..players => q \in 1..players'
    BY <1>2
  <2> QED BY <1>2, <2>1, <2>2
<1>8. Rows'
  BY <1>1, <1>7 DEF Inv, Rows
<1> QED BY <1>3, <1>5, <1>6, <1>8 DEF Inv

(* A write of the preferences, and what changes no progress at all. *)
LEMMA RestInv ==
  ASSUME BrowserSessionAssumption, Inv,
         ReconcileFails \/ TimerFires \/ WritePreferences \/ SessionEnds \/ UNCHANGED vars
  PROVE  Inv'
<1>1. /\ UNCHANGED <<local, known, copy, snapshot, storageMode, activeUserId, user, entering,
                     player, link, record, players, played>>
      /\ reconciling' \in {reconciling, None} /\ cookie' \in {cookie, None}
  BY DEF ReconcileFails, TimerFires, WritePreferences, SessionEnds, storage, store, sync, server,
         history, vars
<1>2. DOMAIN profile' = Users
        /\ \A u \in Users : profile'[u] # None =>
             /\ "player" \in DOMAIN profile'[u]
             /\ profile'[u].player \in (1..players) \cup Users
             /\ profile'[u].player \in 1..players => link[profile'[u].player] = u
  <2>1. CASE profile' = profile
    BY <2>1 DEF Inv, Rows
  <2>2. CASE WritePreferences /\ profile' # profile
    <3>1. profile[user] # None /\ profile' = [profile EXCEPT ![user].prefs = Head(queue).prefs]
      BY <2>2 DEF WritePreferences
    <3> DEFINE new == Head(queue).prefs
    <3>2. profile' = [profile EXCEPT ![user].prefs = new]
      BY <3>1
    <3> HIDE DEF new
    <3>3. ASSUME NEW u \in Users, profile'[u] # None
          PROVE  /\ "player" \in DOMAIN profile'[u] /\ profile'[u].player = profile[u].player
                 /\ profile[u] # None
      <4>1. CASE u = user
        <5>1. profile'[u] = [profile[u] EXCEPT !.prefs = new]
          BY <3>2, <4>1 DEF Inv, Rows
        <5>2. "player" \in DOMAIN profile[u]
          BY <3>1, <4>1 DEF Inv, Rows
        <5> QED BY <3>1, <4>1, <5>1, <5>2
      <4>2. CASE u # user
        BY <3>2, <3>3, <4>2 DEF Inv, Rows
      <4> QED BY <4>1, <4>2
    <3>4. DOMAIN profile' = Users
      BY <3>2 DEF Inv, Rows
    <3> QED BY <3>3, <3>4 DEF Inv, Rows
  <2> QED BY <2>1, <2>2 DEF ReconcileFails, TimerFires, SessionEnds, server, vars
<1>3. Owner' = Owner
  BY <1>1 DEF Owner
<1>4. Rows'
  BY <1>1, <1>2, <1>3 DEF Inv, Rows
<1>5. Shown' /\ Kept'
  BY <1>1, <1>3, StoreKept
<1>6. Modes' /\ Awaited'
  BY <1>1, <1>3 DEF Inv, Modes, Awaited, IsProgress, OwnedBy
<1> QED BY <1>4, <1>5, <1>6 DEF Inv

LEMMA NextInv ==
  ASSUME BrowserSessionAssumption, Inv, [Next]_vars
  PROVE  Inv'
<1>1. CASE \E g \in Games : Play(g) \/ ReadHistory(g)
  BY <1>1, PlayInv, HistoryInv
<1>2. CASE Edit("hell") \/ Edit("auto")
  BY <1>2, EditInv
<1>3. CASE ReconcileAnswer \/ EnterInnerCircle \/ EnterAnswer \/ OpenGame
  BY <1>3, AnswerInv, EnterInv, EnterAnswerInv, OpenInv
<1>4. CASE Reload
  <2>1. Load(local) /\ local' = local /\ copy' \in {copy, None} /\ known' = known /\ cookie' = cookie
    BY <1>4 DEF Reload
  <2> QED BY <2>1, LoadInv
<1>5. CASE SignOut \/ ClearLocalData
  <2>1. /\ Load(None) /\ local' = snapshot' /\ copy' = None /\ known' = None
        /\ cookie' \in {cookie, None}
    BY <1>5 DEF SignOut, ClearLocalData, Reset
  <2> QED BY <2>1, LoadInv
<1>6. CASE CheckAuthentication
  <2>1. cookie \in Users
    BY <1>6 DEF CheckAuthentication, Inv, Modes
  <2> QED BY <1>6, <2>1, MountInv DEF CheckAuthentication
<1>7. CASE \E u \in Users : Login(u)
  BY <1>7, MountInv DEF Login
<1>8. CASE ReconcileFails \/ TimerFires \/ WritePreferences \/ SessionEnds \/ UNCHANGED vars
  BY <1>8, RestInv
<1> QED BY <1>1, <1>2, <1>3, <1>4, <1>5, <1>6, <1>7, <1>8 DEF Next

(* What an account played is shown and stored only where the browser's     *)
(* player is linked to that account, and counts for no other account.      *)
THEOREM NoForeignProgressAlways ==
  ASSUME BrowserSessionAssumption
  PROVE  Spec => []NoForeignProgress
<1>1. Init => Inv
  BY InitInv
<1>2. Inv /\ [Next]_vars => Inv'
  BY NextInv
<1>3. Inv => NoForeignProgress
  BY InvGivesProperty
<1> QED BY <1>1, <1>2, <1>3, PTL DEF Spec

-----------------------------------------------------------------------------
(***************************************************************************)
(* That the account has the preferences the page shows, once nothing waits *)
(* to be written, and that a reload finds what was shown, rest on one      *)
(* invariant of the store, the session's copy, the timer, the queue of     *)
(* writes and the accounts.                                                *)
(***************************************************************************)

(* A progress whose preferences come from one of the first n edits *)
Known(p, n) == p \in Progress /\ p.prefs.edit <= n

Preferred ==
  /\ edits \in Nat /\ lostEdit \in BOOLEAN
  /\ cloudReady \in BOOLEAN /\ (cloudReady <=> storageMode = "cloud")
  /\ inner \in Preferences /\ inner.edit <= edits
  /\ Known(snapshot, edits)
  /\ local # None => Known(local, edits)
  /\ copy # None => Known(copy.progress, edits)
  /\ entering # None => Known(entering, edits) /\ entering.prefs.unlocked
  /\ \A u \in Users : profile[u] # None =>
       profile[u] \in Profiles /\ profile[u].prefs.edit <= edits
  /\ reconciling # None /\ reconciling.ok =>
       /\ reconciling.progress.prefs \in SyncedPreferences
       /\ reconciling.progress.prefs.edit <= edits

(* What a reload would find.  The Inner Circle preferences, which are kept *)
(* apart, never add to those of the progress on the page.                  *)
Found ==
  /\ inner.hell => inner.unlocked \/ inner.auto
  /\ storageMode = "cloud" => copy = CopyOf(activeUserId, snapshot)
  /\ storageMode = "local" =>
       /\ inner.unlocked => snapshot.prefs.unlocked
       /\ inner.auto => snapshot.prefs.auto
       /\ local = None => /\ snapshot.games = {}
                          /\ SameSynced(snapshot.prefs, inner)
       /\ local # None => /\ snapshot.games = local.games
                          /\ SameSynced(snapshot.prefs, Either(local.prefs, inner))

Writes == [prefs : SyncedPreferences, tries : Nat]

(* The queue holds writes in the order of their edits, none older than     *)
(* what the account has, and the timer holds one newer than all of them.   *)
Ordered ==
  /\ timer # None \/ queue # <<>> => cloudReady
  /\ queue \in Seq(Writes)
  /\ timer # None =>
       /\ timer \in SyncedPreferences
       /\ timer.edit <= edits /\ profile[user].prefs.edit <= timer.edit
  /\ \A i \in 1..Len(queue) :
       /\ queue[i].prefs.edit <= edits
       /\ profile[user].prefs.edit <= queue[i].prefs.edit
       /\ timer # None => queue[i].prefs.edit <= timer.edit
       /\ \A j \in i..Len(queue) : queue[i].prefs.edit <= queue[j].prefs.edit

(* The newest of what waits to be written is what the page shows; when     *)
(* nothing waits, that is what was written last.  The copy a loaded page   *)
(* starts from is what the account has, but for a soundtrack preference    *)
(* the page has added to the account since and still shows.                *)
Settled ==
  /\ copy # None => profile[copy.user] # None
  /\ cloudReady => profile[user] # None /\ lastSynced \in SyncedPreferences
  /\ reconciling # None => ~cloudReady
  /\ reconciling # None /\ reconciling.ok =>
       profile[user] # None /\ SameSynced(profile[user].prefs, reconciling.progress.prefs)
  /\ timer # None => SameSynced(timer, snapshot.prefs)
  /\ ~lostEdit /\ cloudReady =>
       /\ timer = None /\ queue # <<>> => SameSynced(queue[Len(queue)].prefs, snapshot.prefs)
       /\ timer = None /\ queue = <<>> => SameSynced(lastSynced, snapshot.prefs)
       /\ queue = <<>> => SameSynced(profile[user].prefs, lastSynced)
  /\ ~lostEdit /\ copy # None /\ storageMode = "local" =>
       /\ profile[copy.user].prefs.hell = copy.progress.prefs.hell
       /\ \/ profile[copy.user].prefs.auto = copy.progress.prefs.auto
          \/ /\ profile[copy.user].prefs.auto /\ snapshot.prefs.auto
             /\ entering # None => entering.prefs.auto

Settling == Preferred /\ Found /\ Ordered /\ Settled

LEMMA SameIsEquivalence ==
  ASSUME NEW p, NEW q, NEW r
  PROVE  /\ SameSynced(p, p)
         /\ SameSynced(p, q) => SameSynced(q, p)
         /\ SameSynced(p, q) /\ SameSynced(q, r) => SameSynced(p, r)
BY DEF SameSynced

(* What Either says of the fields, and who wins when a field is off *)
LEMMA EitherFields ==
  ASSUME NEW p \in Preferences, NEW q \in Preferences
  PROVE  /\ Either(p, q) \in Preferences /\ Either(p, q).edit = p.edit
         /\ Either(p, q).hell <=> p.hell \/ q.hell
         /\ Either(p, q).auto <=> p.auto \/ q.auto
         /\ Either(p, q).unlocked <=> p.unlocked \/ q.unlocked
BY DEF Either, Preferences

LEMMA SettlingGivesProperties ==
  ASSUME BrowserSessionAssumption, Inv, Settling
  PROVE  SettledPreferencesAgree /\ ReloadShowsSame
<1>1. SettledPreferencesAgree
  <2> SUFFICES ASSUME cloudReady, timer = None, queue = <<>>, ~lostEdit
               PROVE  profile[user] # None /\ SameSynced(profile[user].prefs, snapshot.prefs)
    BY DEF SettledPreferencesAgree
  <2>1. profile[user] # None /\ SameSynced(lastSynced, snapshot.prefs)
          /\ SameSynced(profile[user].prefs, lastSynced)
    BY DEF Settling, Settled
  <2> QED BY <2>1, SameIsEquivalence
<1>2. ReloadShowsSame
  <2>1. CASE storageMode = "cloud"
    BY <2>1 DEF ReloadShowsSame, Settling, Found, CopyOf
  <2>2. CASE storageMode = "local"
    <3> DEFINE again == ReadProgress(local)
    <3>2. CASE local = None
      <4>1. again.games = {} /\ again.prefs = Either([inner EXCEPT !.hell = FALSE], inner)
        BY <3>2 DEF ReadProgress, FreshProgress
      <4>2. SameSynced(again.prefs, inner)
        <5>1. inner \in Preferences /\ [inner EXCEPT !.hell = FALSE] \in Preferences
                /\ [inner EXCEPT !.hell = FALSE].auto = inner.auto
                /\ [inner EXCEPT !.hell = FALSE].hell = FALSE
          BY DEF Settling, Preferred, Preferences
        <5>2. again.prefs.hell \in BOOLEAN /\ again.prefs.auto \in BOOLEAN
                /\ (again.prefs.hell <=> inner.hell) /\ (again.prefs.auto <=> inner.auto)
          BY <4>1, <5>1, EitherFields DEF Preferences
        <5> HIDE DEF again
        <5> QED BY <5>1, <5>2 DEF SameSynced, Preferences
      <4> QED BY <2>2, <3>2, <4>1, <4>2 DEF Settling, Found, SameSynced, ReloadShowsSame
    <3>3. CASE local # None
      <4>1. again.games = local.games /\ again.prefs = Either(local.prefs, inner)
        <5>1. local \in Progress
          BY <3>3 DEF Settling, Preferred, Known
        <5>2. again = [local EXCEPT !.prefs = Either(@, inner)]
          BY <3>3 DEF ReadProgress
        <5> HIDE DEF again
        <5> QED BY <5>1, <5>2 DEF Progress
      <4> QED BY <2>2, <3>3, <4>1 DEF Settling, Found, SameSynced, ReloadShowsSame
    <3> QED BY <3>2, <3>3
  <2> QED BY <2>1, <2>2 DEF Inv, Modes
<1> QED BY <1>1, <1>2

LEMMA InitSettling ==
  ASSUME BrowserSessionAssumption, Init
  PROVE  Settling
<1>1. NoPreferences \in Preferences /\ NoPreferences.edit = 0 /\ SameSynced(NoPreferences, NoPreferences)
        /\ ~NoPreferences.hell /\ ~NoPreferences.auto /\ ~NoPreferences.unlocked
  BY DEF NoPreferences, Preferences, SameSynced
<1>2. snapshot \in Progress /\ snapshot.prefs = NoPreferences
  BY <1>1 DEF Init, Progress
<1>3. Preferred
  <2>1. edits = 0 /\ Known(snapshot, edits) /\ inner \in Preferences /\ inner.edit <= edits
    BY <1>1, <1>2 DEF Init, Known
  <2>2. ASSUME NEW u \in Users, profile[u] # None
        PROVE  profile[u] \in Profiles /\ profile[u].prefs.edit <= edits
    <3>1. Synced(NoPreferences) \in SyncedPreferences /\ Synced(NoPreferences).edit = 0
      BY DEF Synced, NoPreferences, SyncedPreferences
    <3>2. profile[u] = [player |-> u, prefs |-> Synced(NoPreferences)]
      BY <2>2 DEF Init
    <3> QED BY <2>1, <3>1, <3>2 DEF Profiles
  <2>3. edits \in Nat /\ lostEdit = FALSE /\ cloudReady = FALSE /\ storageMode = "local"
          /\ local = None /\ copy = None /\ entering = None /\ reconciling = None
    BY DEF Init
  <2> QED BY <2>1, <2>2, <2>3 DEF Preferred
<1>4. Found
  BY <1>1, <1>2 DEF Init, Found
<1>5. Ordered /\ Settled
  BY DEF Init, Ordered, Settled
<1> QED BY <1>3, <1>4, <1>5 DEF Settling

(* What waits to be written and what the accounts have is numbered. *)
LEMMA Numbers ==
  ASSUME Settling
  PROVE  /\ \A i \in 1..Len(queue) :
              queue[i].prefs \in SyncedPreferences /\ queue[i].prefs.edit \in Nat
              /\ queue[i].prefs.edit <= edits
         /\ \A u \in Users : profile[u] # None =>
              profile[u].prefs \in SyncedPreferences /\ profile[u].prefs.edit \in Nat
              /\ profile[u].prefs.edit <= edits
<1>1. ASSUME NEW i \in 1..Len(queue)
      PROVE  queue[i].prefs \in SyncedPreferences /\ queue[i].prefs.edit \in Nat
             /\ queue[i].prefs.edit <= edits
  <2>1. queue \in Seq(Writes) /\ queue[i].prefs.edit <= edits
    BY DEF Settling, Ordered
  <2>2. queue[i] \in Writes
    BY <2>1
  <2> QED BY <2>1, <2>2 DEF Writes, SyncedPreferences
<1>2. ASSUME NEW u \in Users, profile[u] # None
      PROVE  profile[u].prefs \in SyncedPreferences /\ profile[u].prefs.edit \in Nat
             /\ profile[u].prefs.edit <= edits
  <2>1. profile[u] \in Profiles /\ profile[u].prefs.edit <= edits
    BY <1>2 DEF Settling, Preferred
  <2> QED BY <2>1 DEF Profiles, SyncedPreferences
<1> QED BY <1>1, <1>2

(* The accounts keep their preferences; those without any may get some.    *)
Grown ==
  \A u \in Users :
    \/ profile'[u] = profile[u]
    \/ profile[u] = None /\ profile'[u] \in Profiles /\ profile'[u].prefs.edit <= edits

LEMMA GrownKeeps ==
  ASSUME BrowserSessionAssumption, Inv, Settling, Grown
  PROVE  /\ cloudReady => profile[user] # None /\ profile'[user] = profile[user]
         /\ copy # None =>
              profile[copy.user] # None /\ profile'[copy.user] = profile[copy.user]
         /\ reconciling # None /\ reconciling.ok =>
              profile[user] # None /\ profile'[user] = profile[user]
         /\ \A u \in Users : profile'[u] # None =>
              profile'[u] \in Profiles /\ profile'[u].prefs.edit \in Nat /\ profile'[u].prefs.edit <= edits
<1>1. cloudReady => user \in Users /\ profile[user] # None
  BY DEF Inv, Modes, Settling, Preferred, Settled
<1>2. copy # None => copy.user \in Users /\ profile[copy.user] # None
  BY DEF Inv, Kept, Settling, Settled
<1>3. reconciling # None /\ reconciling.ok => user \in Users /\ profile[user] # None
  BY DEF Inv, Modes, Settling, Settled
<1>4. ASSUME NEW u \in Users, profile'[u] # None
      PROVE  profile'[u] \in Profiles /\ profile'[u].prefs.edit \in Nat /\ profile'[u].prefs.edit <= edits
  <2>1. profile'[u] \in Profiles /\ profile'[u].prefs.edit <= edits
    BY <1>4 DEF Grown, Settling, Preferred
  <2> QED BY <2>1 DEF Profiles, SyncedPreferences
<1> QED BY <1>1, <1>2, <1>3, <1>4 DEF Grown

(* An edit of the preferences is newer than what the accounts have and     *)
(* what waits to be written; in a browser whose progress is its own it     *)
(* takes nothing back that a reload or the account would bring again.      *)
LEMMA UpdateSettling ==
  ASSUME BrowserSessionAssumption, Inv, Settling, NEW p \in Progress, UpdateProgress(p),
         UNCHANGED <<user, cloudReady, lastSynced, queue, reconciling>>, Grown,
         entering' \in {entering, None}, edits' \in Nat, edits <= edits',
         p.prefs.edit <= edits',
         SameSynced(p.prefs, snapshot.prefs) \/ p.prefs.edit = edits',
         storageMode = "local" =>
           /\ p.prefs.unlocked \/ p.prefs.auto \/ ~(inner.unlocked \/ inner.auto)
           /\ snapshot.prefs.auto /\ (entering # None => entering.prefs.auto) => p.prefs.auto
  PROVE  Settling'
<1>1. /\ snapshot' = p /\ UNCHANGED <<storageMode, activeUserId>>
      /\ storageMode = "cloud" =>
           copy' = CopyOf(activeUserId, p) /\ local' = local
      /\ storageMode = "local" => local' = p /\ copy' = copy
  BY Updating DEF Inv, Modes
<1>2. inner' = InnerAfter(p.prefs, inner) /\ PreferenceEffect(p)
  BY DEF UpdateProgress, Save
<1>3. p.prefs \in Preferences /\ p.prefs.edit \in Nat /\ edits \in Nat
  BY DEF Settling, Preferred, Progress, Preferences
<1>4. inner' \in Preferences /\ inner'.edit <= edits'
  <2>1. inner.edit \in Nat /\ inner.edit <= edits
    BY DEF Settling, Preferred, Preferences
  <2> QED BY <1>2, <1>3, <2>1 DEF InnerAfter, Settling, Preferred
<1>5. ASSUME NEW q, Known(q, edits)  PROVE Known(q, edits')
  BY <1>3, <1>5 DEF Known, Progress, Preferences
<1>6. Known(p, edits')
  BY DEF Known
<1>7. storageMode \in {"local", "cloud"} /\ (cloudReady <=> storageMode = "cloud")
  BY DEF Inv, Modes, Settling, Preferred
<1>8. lostEdit' \in BOOLEAN /\ (lostEdit => lostEdit')
  BY <1>2 DEF PreferenceEffect, Settling, Preferred
<1>9. Preferred'
  <2>1. \A u \in Users : profile'[u] # None =>
          profile'[u] \in Profiles /\ profile'[u].prefs.edit <= edits'
    BY <1>3, GrownKeeps
  <2>2. local' # None => Known(local', edits')
    BY <1>1, <1>5, <1>6, <1>7 DEF Settling, Preferred
  <2>3. copy' # None => Known(copy'.progress, edits')
    <3>1. CASE storageMode = "cloud"
      <4>1. /\ CopyOf(activeUserId, p).progress = [p EXCEPT !.games = Newest(@)]
            /\ Newest(p.games) \subseteq p.games
        BY DEF CopyOf, Newest
      <4> QED BY <3>1, <1>1, <1>6, <4>1 DEF Known, Progress
    <3>2. CASE storageMode = "local"
      BY <3>2, <1>1, <1>5 DEF Settling, Preferred
    <3> QED BY <3>1, <3>2, <1>7
  <2>4. entering' # None => Known(entering', edits') /\ entering'.prefs.unlocked
    BY <1>5 DEF Settling, Preferred
  <2>5. reconciling # None /\ reconciling.ok =>
          /\ reconciling.progress.prefs \in SyncedPreferences
          /\ reconciling.progress.prefs.edit <= edits'
    BY <1>3 DEF Settling, Preferred, SyncedPreferences
  <2>6. cloudReady \in BOOLEAN
    BY DEF Settling, Preferred
  <2> QED BY <1>1, <1>4, <1>6, <1>7, <1>8, <2>1, <2>2, <2>3, <2>4, <2>5, <2>6 DEF Preferred
<1>10. Found'
  <2>1. inner'.hell => inner'.unlocked \/ inner'.auto
    BY <1>2 DEF InnerAfter, Settling, Found
  <2>2. storageMode = "cloud" => copy' = CopyOf(activeUserId, snapshot')
    BY <1>1
  <2>3. ASSUME storageMode = "local"
        PROVE  /\ inner'.unlocked => p.prefs.unlocked
               /\ inner'.auto => p.prefs.auto
               /\ SameSynced(p.prefs, Either(p.prefs, inner'))
    <3>1. CASE p.prefs.unlocked \/ p.prefs.auto
      <4>1. inner' = p.prefs
        BY <3>1, <1>2 DEF InnerAfter
      <4> QED BY <4>1, <1>3, EitherFields DEF SameSynced, Preferences
    <3>2. CASE ~(p.prefs.unlocked \/ p.prefs.auto)
      <4>1. inner' = inner /\ ~inner'.unlocked /\ ~inner'.auto
        BY <2>3, <3>2, <1>2 DEF InnerAfter
      <4>2. ~inner'.hell
        BY <2>1, <4>1
      <4> QED BY <4>1, <4>2, <1>3, <1>4, EitherFields DEF SameSynced, Preferences
    <3> QED BY <3>1, <3>2
  <2>4. p # None
    BY DEF BrowserSessionAssumption
  <2> QED BY <1>1, <2>1, <2>2, <2>3, <2>4 DEF Found
<1>11. CASE ~cloudReady \/ SameSynced(p.prefs, snapshot.prefs)
  <2>1. UNCHANGED <<timer, lostEdit>>
    BY <1>2, <1>11 DEF PreferenceEffect
  <2>2. Ordered'
    <3>1. timer # None => timer \in SyncedPreferences /\ timer.edit <= edits'
      BY <1>3 DEF Settling, Ordered, SyncedPreferences
    <3>2. \A i \in 1..Len(queue) : queue[i].prefs.edit <= edits'
      <4>1. \A i \in 1..Len(queue) : queue[i].prefs.edit \in Nat /\ queue[i].prefs.edit <= edits
        BY Numbers
      <4> QED BY <4>1, <1>3
    <3> QED BY <2>1, <3>1, <3>2, GrownKeeps DEF Settling, Ordered
  <2>3. cloudReady => SameSynced(snapshot.prefs, p.prefs)
    BY <1>11, SameIsEquivalence
  <2>4. timer # None \/ queue # <<>> => cloudReady
    BY DEF Settling, Ordered
  <2>5. copy' # None /\ storageMode = "cloud" => profile'[copy'.user] # None
    BY <1>1, <1>7, GrownKeeps DEF CopyOf, Inv, Modes
  <2>6. copy' # None => profile'[copy'.user] # None
    BY <2>5, <1>1, <1>7, GrownKeeps
  <2>7. timer # None => SameSynced(timer, p.prefs)
    BY <2>3, <2>4, SameIsEquivalence DEF Settling, Settled
  <2>8. ~lostEdit /\ cloudReady =>
          /\ timer = None /\ queue # <<>> => SameSynced(queue[Len(queue)].prefs, p.prefs)
          /\ timer = None /\ queue = <<>> => SameSynced(lastSynced, p.prefs)
    BY <2>3, SameIsEquivalence DEF Settling, Settled
  <2>9. ~lostEdit /\ copy # None /\ storageMode = "local" =>
       /\ profile[copy.user].prefs.hell = copy.progress.prefs.hell
       /\ \/ profile[copy.user].prefs.auto = copy.progress.prefs.auto
          \/ /\ profile[copy.user].prefs.auto /\ p.prefs.auto
             /\ entering' # None => entering'.prefs.auto
    BY DEF Settling, Settled
  <2>10. Settled'
    BY <1>1, <2>1, <2>6, <2>7, <2>8, <2>9, GrownKeeps DEF Settling, Settled
  <2> QED BY <1>9, <1>10, <2>2, <2>10 DEF Settling
<1>12. CASE cloudReady /\ ~SameSynced(p.prefs, snapshot.prefs)
  <2>1. /\ timer' = IF SameSynced(p.prefs, lastSynced) THEN None ELSE Synced(p.prefs)
        /\ lostEdit' = (lostEdit \/ (SameSynced(p.prefs, lastSynced) /\ queue # <<>>))
    BY <1>2, <1>12 DEF PreferenceEffect
  <2>2. storageMode = "cloud" /\ p.prefs.edit = edits'
    BY <1>7, <1>12
  <2>3. Synced(p.prefs) \in SyncedPreferences /\ Synced(p.prefs).edit = edits'
          /\ SameSynced(Synced(p.prefs), p.prefs)
    BY <1>3, <2>2 DEF Synced, SyncedPreferences, Preferences, SameSynced
  <2>4. timer' # None => timer' = Synced(p.prefs)
    BY <2>1
  <2>5. profile[user] # None /\ lastSynced \in SyncedPreferences /\ user \in Users /\ activeUserId = user
    BY <1>12, <2>2 DEF Settling, Settled, Inv, Modes
  <2>6. profile[user].prefs.edit \in Nat /\ profile[user].prefs.edit <= edits
    BY <2>5, Numbers
  <2>7. \A i \in 1..Len(queue) : queue[i].prefs.edit \in Nat /\ queue[i].prefs.edit <= edits
    BY Numbers
  <2>8. Ordered'
    <3>1. timer' # None => timer' \in SyncedPreferences /\ timer'.edit = edits'
      BY <2>3, <2>4
    <3>2. profile[user].prefs.edit <= edits' /\ \A i \in 1..Len(queue) : queue[i].prefs.edit <= edits'
      BY <1>3, <2>6, <2>7
    <3> QED BY <1>12, <3>1, <3>2, GrownKeeps DEF Settling, Ordered
  <2>9. timer' = None => SameSynced(p.prefs, lastSynced)
    BY <2>1, <2>3 DEF BrowserSessionAssumption
  <2>10. timer' = None /\ queue # <<>> => lostEdit'
    BY <2>1, <2>9
  <2>11. timer' # None => SameSynced(timer', p.prefs)
    BY <2>3, <2>4
  <2>12. timer' = None => SameSynced(lastSynced, p.prefs)
    BY <2>9, SameIsEquivalence
  <2>13. ~lostEdit' /\ queue = <<>> => SameSynced(profile[user].prefs, lastSynced)
    BY <1>8, <1>12 DEF Settling, Settled
  <2>14. reconciling = None /\ copy'.user = user
    BY <1>1, <1>12, <2>2, <2>5 DEF CopyOf, Settling, Settled
  <2>15. Settled'
    BY <1>1, <1>12, <2>2, <2>5, <2>10, <2>11, <2>12, <2>13, <2>14, GrownKeeps DEF Settled
  <2> QED BY <1>9, <1>10, <2>8, <2>15 DEF Settling
<1> QED BY <1>11, <1>12 DEF Settling, Preferred

(* Accounts that get preferences meanwhile change nothing on the page.     *)
LEMMA GrowSettling ==
  ASSUME BrowserSessionAssumption, Inv, Settling, Grown,
         UNCHANGED <<local, inner, copy, snapshot, storageMode, activeUserId, user, cloudReady,
                     lastSynced, timer, queue, reconciling, entering, edits, lostEdit>>
  PROVE  Settling'
<1>1. Preferred'
  <2>1. \A u \in Users : profile'[u] # None =>
          profile'[u] \in Profiles /\ profile'[u].prefs.edit <= edits'
    BY GrownKeeps
  <2> QED BY <2>1 DEF Settling, Preferred
<1>2. Found'
  BY DEF Settling, Found, CopyOf
<1>3. Ordered'
  BY GrownKeeps DEF Settling, Ordered
<1>4. Settled'
  BY GrownKeeps DEF Settling, Settled
<1> QED BY <1>1, <1>2, <1>3, <1>4 DEF Settling

LEMMA RecordedGrows ==
  ASSUME BrowserSessionAssumption, Inv, Settling, NEW g, Recorded(g), player # None
  PROVE  Grown
<1>1. CASE UNCHANGED profile
  BY <1>1 DEF Grown
<1>2. CASE cookie # None /\ profile[cookie] = None /\ Linking(cookie, player, NoPreferences)
  <2>1. cookie \in Users /\ player \in Nat /\ edits \in Nat /\ DOMAIN profile = Users
    BY <1>2 DEF Inv, Modes, Rows, Settling, Preferred
  <2>2. profile'[cookie] = [player |-> player, prefs |-> Synced(NoPreferences)]
          /\ \A u \in Users : u # cookie => profile'[u] = profile[u]
    BY <1>2, <2>1 DEF Linking
  <2>3. Synced(NoPreferences) \in SyncedPreferences /\ Synced(NoPreferences).edit = 0
    BY DEF Synced, NoPreferences, SyncedPreferences
  <2>4. profile'[cookie] \in Profiles /\ profile'[cookie].prefs.edit <= edits
    BY <2>1, <2>2, <2>3 DEF Profiles
  <2> QED BY <1>2, <2>2, <2>4 DEF Grown
<1> QED BY <1>1, <1>2 DEF Recorded

LEMMA PlaySettling ==
  ASSUME BrowserSessionAssumption, Inv, Settling, NEW g \in Games, Play(g)
  PROVE  Settling'
<1> DEFINE next == [snapshot EXCEPT !.games = @ \cup {g}]
<1>1. snapshot \in Progress /\ snapshot.prefs.edit <= edits /\ edits \in Nat
  BY DEF Settling, Preferred, Known
<1>2. next \in Progress /\ next.prefs = snapshot.prefs
  BY <1>1 DEF Progress
<1>3. /\ player # None /\ Recorded(g)
      /\ UpdateProgress(next) \/ UNCHANGED <<storage, store, timer, lostEdit>>
      /\ UNCHANGED <<user, cloudReady, lastSynced, queue, reconciling, entering, edits>>
  BY DEF Play
<1>4. storageMode = "local" => (inner.unlocked => snapshot.prefs.unlocked)
                               /\ (inner.auto => snapshot.prefs.auto)
  BY DEF Settling, Found
<1> HIDE DEF next
<1>5. SameSynced(next.prefs, snapshot.prefs)
  BY <1>2, SameIsEquivalence
<1>6. Grown
  BY <1>3, RecordedGrows
<1>7. CASE UpdateProgress(next)
  BY <1>1, <1>2, <1>3, <1>4, <1>5, <1>6, <1>7, UpdateSettling
<1>8. CASE UNCHANGED <<storage, store, timer, lostEdit>>
  BY <1>3, <1>6, <1>8, GrowSettling DEF storage, store
<1> QED BY <1>3, <1>7, <1>8

LEMMA HistorySettling ==
  ASSUME BrowserSessionAssumption, Inv, Settling, NEW g \in Games, ReadHistory(g)
  PROVE  Settling'
<1> DEFINE next == [snapshot EXCEPT !.games = @ \cup {g}]
<1>1. snapshot \in Progress /\ snapshot.prefs.edit <= edits /\ edits \in Nat
  BY DEF Settling, Preferred, Known
<1>2. next \in Progress /\ next.prefs = snapshot.prefs
  BY <1>1 DEF Progress
<1>3. /\ UpdateProgress(next)
      /\ UNCHANGED <<user, cloudReady, lastSynced, queue, reconciling, entering, profile, edits>>
  BY DEF ReadHistory, server
<1>4. storageMode = "local" => (inner.unlocked => snapshot.prefs.unlocked)
                               /\ (inner.auto => snapshot.prefs.auto)
  BY DEF Settling, Found
<1> HIDE DEF next
<1>5. SameSynced(next.prefs, snapshot.prefs)
  BY <1>2, SameIsEquivalence
<1>6. Grown
  BY <1>3 DEF Grown
<1> QED BY <1>1, <1>2, <1>3, <1>4, <1>5, <1>6, UpdateSettling

LEMMA EditSettling ==
  ASSUME BrowserSessionAssumption, Inv, Settling, NEW field \in {"hell", "auto"}, Edit(field)
  PROVE  Settling'
<1> DEFINE next == [snapshot EXCEPT !.prefs[field] = ~@, !.prefs.edit = edits']
<1>1. /\ snapshot \in Progress /\ snapshot.prefs \in Preferences /\ edits \in Nat
      /\ snapshot.prefs.edit <= edits
  BY DEF Settling, Preferred, Known, Progress
<1>2. /\ UpdateProgress(next) /\ edits' = edits + 1
      /\ field = "auto" => ~snapshot.prefs.auto
      /\ UNCHANGED <<user, cloudReady, lastSynced, queue, reconciling, entering, profile>>
  BY DEF Edit, server
<1>3. edits' \in Nat /\ edits <= edits'
  BY <1>1, <1>2
<1>4. /\ next \in Progress /\ next.prefs.edit = edits'
      /\ next.prefs.unlocked = snapshot.prefs.unlocked
      /\ snapshot.prefs.auto => next.prefs.auto
  <2>1. CASE field = "hell"
    BY <2>1, <1>1, <1>3 DEF Progress, Preferences
  <2>2. CASE field = "auto"
    BY <2>2, <1>1, <1>2, <1>3 DEF Progress, Preferences
  <2> QED BY <2>1, <2>2
<1>5. storageMode = "local" => (inner.unlocked => snapshot.prefs.unlocked)
                               /\ (inner.auto => snapshot.prefs.auto)
  BY DEF Settling, Found
<1> HIDE DEF next
<1>6. next.prefs.edit <= edits' /\ Grown
  BY <1>2, <1>3, <1>4 DEF Grown
<1> QED BY <1>2, <1>3, <1>4, <1>5, <1>6, UpdateSettling

LEMMA EnterSettling ==
  ASSUME BrowserSessionAssumption, Inv, Settling, EnterInnerCircle
  PROVE  Settling'
<1>1. /\ entering = None /\ entering' = [snapshot EXCEPT !.prefs.unlocked = TRUE]
      /\ UNCHANGED <<local, inner, copy, snapshot, storageMode, activeUserId, user, cloudReady,
                     lastSynced, timer, queue, reconciling, profile, edits, lostEdit>>
  BY DEF EnterInnerCircle, storage, store, sync, server, history
<1>2. /\ Known(entering', edits) /\ entering'.prefs.unlocked
      /\ entering'.prefs.auto = snapshot.prefs.auto
  <2>1. snapshot \in Progress /\ snapshot.prefs.edit <= edits
    BY DEF Settling, Preferred, Known
  <2> QED BY <1>1, <2>1 DEF Known, Progress, Preferences
<1>3. Preferred'
  BY <1>1, <1>2 DEF Settling, Preferred
<1>4. Found' /\ Ordered'
  BY <1>1 DEF Settling, Found, Ordered, CopyOf
<1>5. Settled'
  BY <1>1, <1>2 DEF Settling, Settled
<1> QED BY <1>3, <1>4, <1>5 DEF Settling

LEMMA EnterAnswerSettling ==
  ASSUME BrowserSessionAssumption, Inv, Settling, EnterAnswer
  PROVE  Settling'
<1> DEFINE next == [entering EXCEPT !.prefs.edit = edits']
<1>1. /\ entering # None /\ entering' = None
      /\ UNCHANGED <<user, cloudReady, lastSynced, queue, reconciling, profile>>
  BY DEF EnterAnswer, server
<1>2. CASE edits' = edits + 1 /\ UpdateProgress(next)
  <2>1. entering \in Progress /\ entering.prefs.unlocked /\ edits \in Nat
    BY <1>1 DEF Settling, Preferred, Known
  <2>2. edits' \in Nat /\ edits <= edits'
    BY <1>2, <2>1
  <2>3. /\ next \in Progress /\ next.prefs.edit = edits' /\ next.prefs.unlocked
        /\ next.prefs.auto = entering.prefs.auto
    BY <2>1, <2>2 DEF Progress, Preferences
  <2> HIDE DEF next
  <2>4. next.prefs.edit <= edits' /\ Grown
    BY <1>1, <2>2, <2>3 DEF Grown
  <2> QED BY <1>1, <1>2, <2>2, <2>3, <2>4, UpdateSettling
<1>3. CASE UNCHANGED <<storage, store, timer, lostEdit, edits>>
  <2>1. UNCHANGED <<local, inner, copy, snapshot, storageMode, activeUserId, timer, lostEdit, edits>>
    BY <1>3 DEF storage, store
  <2>2. Preferred' /\ Found' /\ Ordered'
    BY <1>1, <2>1 DEF Settling, Preferred, Found, Ordered, CopyOf
  <2>3. Settled'
    BY <1>1, <2>1 DEF Settling, Settled
  <2> QED BY <2>2, <2>3 DEF Settling
<1> QED BY <1>2, <1>3 DEF EnterAnswer

(* The page starts as u's with preferences that are the account's. *)
LEMMA StartSettling ==
  ASSUME BrowserSessionAssumption, Inv, Settling, NEW u \in Users, NEW p, Known(p, edits),
         StartCloud(u, p), user' = u, timer' = None, queue' = <<>>, reconciling' = None,
         UNCHANGED <<inner, entering, profile, edits, lostEdit>>,
         profile[u] # None, ~lostEdit => SameSynced(profile[u].prefs, p.prefs)
  PROVE  Settling'
<1>1. /\ storageMode' = "cloud" /\ activeUserId' = u /\ local' = None /\ cloudReady' = TRUE
      /\ copy' = CopyOf(u, snapshot')
      /\ lastSynced' = Synced(snapshot'.prefs)
  BY DEF StartCloud
<1>2. Known(snapshot', edits) /\ snapshot'.prefs = p.prefs
  <2>1. CASE CachedFor(u) = None
    BY <2>1 DEF StartCloud
  <2>2. CASE CachedFor(u) # None
    <3>1. copy # None /\ CachedFor(u) = copy.progress /\ copy.progress.games \subseteq Games
      BY <2>2 DEF CachedFor, Inv, Kept, IsProgress
    <3>2. snapshot' = [p EXCEPT !.games = @ \cup copy.progress.games]
      BY <2>2, <3>1 DEF StartCloud
    <3> QED BY <3>1, <3>2 DEF Known, Progress
  <2> QED BY <2>1, <2>2
<1>3. /\ lastSynced' \in SyncedPreferences
      /\ SameSynced(lastSynced', snapshot'.prefs) /\ SameSynced(p.prefs, lastSynced')
  BY <1>1, <1>2 DEF Synced, SameSynced, SyncedPreferences, Known, Progress, Preferences
<1>4. Preferred'
  <2>1. CopyOf(u, snapshot').progress = [snapshot' EXCEPT !.games = Newest(@)]
          /\ Newest(snapshot'.games) \subseteq snapshot'.games
    BY DEF CopyOf, Newest
  <2>2. Known(copy'.progress, edits)
    BY <1>1, <1>2, <2>1 DEF Known, Progress
  <2> QED BY <1>1, <1>2, <2>2 DEF Settling, Preferred
<1>5. Found'
  BY <1>1 DEF Settling, Found, CopyOf
<1>6. Ordered'
  BY DEF Ordered
<1>7. ~lostEdit => SameSynced(profile[u].prefs, lastSynced')
  BY <1>3, SameIsEquivalence
<1>8. Settled'
  BY <1>1, <1>3, <1>7 DEF Settled, CopyOf
<1> QED BY <1>4, <1>5, <1>6, <1>8 DEF Settling

LEMMA AnswerSettling ==
  ASSUME BrowserSessionAssumption, Inv, Settling, ReconcileAnswer
  PROVE  Settling'
<1> DEFINE merged == MergedWithServer(reconciling.progress, snapshot)
<1>1. /\ StartCloud(user, merged) /\ reconciling # None /\ reconciling.ok /\ reconciling' = None
      /\ UNCHANGED <<inner, user, timer, queue, entering, profile, edits, lostEdit>>
  BY DEF ReconcileAnswer, server, history
<1>2. user \in Users
  BY <1>1 DEF Inv, Modes
<1>3. timer = None /\ queue = <<>>
  BY <1>1 DEF Settling, Settled, Ordered
<1>4. /\ reconciling.progress.games \subseteq Games
      /\ reconciling.progress.prefs \in SyncedPreferences /\ reconciling.progress.prefs.edit <= edits
  BY <1>1 DEF Inv, Awaited, IsProgress, Modes, Settling, Preferred
<1>5. snapshot \in Progress
  BY DEF Settling, Preferred, Known
<1>6. Known(merged, edits) /\ SameSynced(reconciling.progress.prefs, merged.prefs)
  BY <1>4, <1>5
      DEF MergedWithServer, Known, Progress, Preferences, SyncedPreferences, SameSynced
<1>7. profile[user] # None /\ SameSynced(profile[user].prefs, reconciling.progress.prefs)
  BY <1>1 DEF Settling, Settled
<1> HIDE DEF merged
<1>8. SameSynced(profile[user].prefs, merged.prefs)
  BY <1>6, <1>7, SameIsEquivalence
<1> QED BY <1>1, <1>2, <1>3, <1>6, <1>7, <1>8, StartSettling

(* What the account had, it has; what the soundtrack adds, the page shows. *)
LEMMA ClaimingSettles ==
  ASSUME BrowserSessionAssumption, Inv, Settling, NEW u \in Users,
         NEW p \in Nat, Linking(u, p, snapshot.prefs)
  PROVE  /\ \A v \in Users : v # u => profile'[v] = profile[v]
         /\ profile'[u] # None /\ profile'[u] \in Profiles /\ profile'[u].prefs.edit <= edits
         /\ profile[u] # None =>
              /\ profile'[u].prefs.hell = profile[u].prefs.hell
              /\ profile'[u].prefs.edit = profile[u].prefs.edit
              /\ profile'[u].prefs.auto <=> profile[u].prefs.auto \/ snapshot.prefs.auto
<1>1. DOMAIN profile = Users
  BY DEF Inv, Rows
<1>2. snapshot \in Progress /\ snapshot.prefs \in Preferences /\ snapshot.prefs.edit <= edits
  BY DEF Settling, Preferred, Known, Progress
<1>3. \A v \in Users : v # u => profile'[v] = profile[v]
  BY <1>1 DEF Linking
<1>4. CASE profile[u] = None
  <2>1. profile'[u] = [player |-> p, prefs |-> Synced(snapshot.prefs)]
    BY <1>1, <1>4 DEF Linking
  <2>2. profile'[u] \in Profiles /\ profile'[u].prefs.edit = snapshot.prefs.edit
    BY <1>2, <2>1 DEF Synced, Profiles, SyncedPreferences, Progress, Preferences
  <2> QED BY <1>2, <1>3, <1>4, <2>2 DEF BrowserSessionAssumption
<1>5. CASE profile[u] # None
  <2>1. profile[u] \in Profiles /\ profile[u].prefs \in SyncedPreferences /\ profile[u].prefs.edit <= edits
    BY <1>5 DEF Settling, Preferred, Profiles
  <2>2. profile'[u] = [profile[u] EXCEPT !.prefs.auto = profile[u].prefs.auto \/ snapshot.prefs.auto]
    BY <1>1, <1>5 DEF Linking
  <2>3. /\ profile'[u] \in Profiles
        /\ profile'[u].prefs.hell = profile[u].prefs.hell
        /\ profile'[u].prefs.edit = profile[u].prefs.edit
    BY <1>2, <2>1, <2>2, ZenonT(60) DEF Profiles, SyncedPreferences
  <2>4. profile'[u].prefs.auto <=> profile[u].prefs.auto \/ snapshot.prefs.auto
    BY <1>2, <2>1, <2>2 DEF Profiles, SyncedPreferences
  <2> QED BY <1>3, <2>1, <2>3, <2>4 DEF BrowserSessionAssumption
<1> QED BY <1>4, <1>5

(* Asking the server for the account's progress, or adding the browser's. *)
LEMMA AskSettling ==
  ASSUME BrowserSessionAssumption, Inv, Settling, NEW u \in Users, NEW out \in Outcomes, Ask(u, out),
         user = None, user' = u, timer' = None, queue' = <<>>,
         UNCHANGED <<storage, store, cloudReady, lastSynced, entering, edits, lostEdit>>
  PROVE  Settling'
<1>1. /\ UNCHANGED <<local, inner, copy, snapshot, storageMode, activeUserId, cloudReady,
                     lastSynced, entering, edits, lostEdit>>
      /\ Caller \in Nat
  BY NewPlayer DEF storage, store, Inv, Modes
<1>2. storageMode = "local" /\ cloudReady = FALSE /\ entering = None
  BY DEF Inv, Modes, Settling, Preferred
<1>3. UNCHANGED profile \/ Linking(u, Caller, snapshot.prefs)
  BY DEF Ask, Synchronized
<1>4. \A v \in Users : profile'[v] # profile[v] => v = u /\ Linking(u, Caller, snapshot.prefs)
  BY <1>1, <1>3, ClaimingSettles
<1>5. ASSUME NEW v \in Users, profile[v] # None
      PROVE  /\ profile'[v] # None
             /\ profile'[v].prefs.hell = profile[v].prefs.hell
             /\ profile'[v].prefs.auto = profile[v].prefs.auto
                  \/ (profile'[v].prefs.auto /\ snapshot.prefs.auto)
  <2>1. CASE profile'[v] = profile[v]
    BY <1>5, <2>1
  <2>2. CASE profile'[v] # profile[v]
    <3>1. v = u /\ Linking(u, Caller, snapshot.prefs)
      BY <1>4, <2>2
    <3>2. /\ profile'[u] # None /\ profile'[u].prefs.hell = profile[u].prefs.hell
          /\ profile'[u].prefs.auto <=> profile[u].prefs.auto \/ snapshot.prefs.auto
          /\ profile'[u] \in Profiles /\ profile[u] \in Profiles
      BY <1>1, <1>5, <3>1, ClaimingSettles DEF Settling, Preferred
    <3>3. profile'[u].prefs.auto \in BOOLEAN /\ profile[u].prefs.auto \in BOOLEAN
      BY <3>2 DEF Profiles, SyncedPreferences
    <3> QED BY <3>1, <3>2, <3>3
  <2> QED BY <2>1, <2>2
<1>6. ASSUME NEW v \in Users, profile'[v] # None
      PROVE  profile'[v] \in Profiles /\ profile'[v].prefs.edit <= edits
  <2>1. CASE profile'[v] = profile[v]
    BY <1>6, <2>1 DEF Settling, Preferred
  <2>2. CASE profile'[v] # profile[v]
    BY <1>1, <1>4, <2>2, ClaimingSettles
  <2> QED BY <2>1, <2>2
<1>7. reconciling' = NoAnswer
        \/ /\ \E answer \in ServerAnswers(u, profile', record') :
                reconciling' = [ok |-> TRUE, progress |-> answer]
           /\ profile'[u] # None
  <2> DEFINE asks == ~HasAnonymousState /\ known = u /\ profile[u] # None
             done == out # "not sent" /\ (asks \/ Linked(u, Caller))
  <2>1. /\ done /\ ~asks => Synchronized(u, Caller, snapshot.prefs)
        /\ ~(done /\ ~asks) => UNCHANGED profile
        /\ done /\ out = "answered" =>
             reconciling' \in {[ok |-> TRUE, progress |-> answer] :
                                 answer \in ServerAnswers(u, profile', record')}
        /\ ~(done /\ out = "answered") => reconciling' = NoAnswer
    BY DEF Ask
  <2>2. asks => profile[u] # None
    OBVIOUS
  <2> HIDE DEF asks, done
  <2>3. done /\ ~asks => profile'[u] # None
    BY <1>1, <2>1, ClaimingSettles DEF Synchronized
  <2> QED BY <2>1, <2>2, <2>3
<1>8. reconciling' # None /\ reconciling'.ok =>
        /\ profile'[u] # None
        /\ reconciling'.progress.prefs = profile'[u].prefs
  BY <1>7 DEF NoAnswer, ServerAnswers
<1>9. Preferred'
  <2>1. reconciling' # None /\ reconciling'.ok =>
          /\ reconciling'.progress.prefs \in SyncedPreferences
          /\ reconciling'.progress.prefs.edit <= edits
    BY <1>6, <1>8 DEF Profiles
  <2> QED BY <1>1, <1>6, <2>1 DEF Settling, Preferred
<1>10. Found'
  BY <1>1 DEF Settling, Found, CopyOf
<1>11. Ordered'
  BY DEF Ordered
<1>12. Settled'
  <2>1. copy # None => copy.user \in Users /\ profile[copy.user] # None
    BY DEF Inv, Kept, Settling, Settled
  <2>2. copy # None => profile'[copy.user] # None
    BY <1>5, <2>1
  <2>3. reconciling' # None /\ reconciling'.ok =>
          profile'[u] # None /\ SameSynced(profile'[u].prefs, reconciling'.progress.prefs)
    BY <1>8, SameIsEquivalence
  <2>4. ASSUME ~lostEdit, copy # None
        PROVE  /\ profile'[copy.user].prefs.hell = copy.progress.prefs.hell
               /\ \/ profile'[copy.user].prefs.auto = copy.progress.prefs.auto
                  \/ profile'[copy.user].prefs.auto /\ snapshot.prefs.auto
    <3> DEFINE v == copy.user
    <3>1. /\ profile[v].prefs.hell = copy.progress.prefs.hell
          /\ \/ profile[v].prefs.auto = copy.progress.prefs.auto
             \/ profile[v].prefs.auto /\ snapshot.prefs.auto
      BY <1>2, <2>4 DEF Settling, Settled
    <3>2. /\ profile'[v].prefs.hell = profile[v].prefs.hell
          /\ profile'[v].prefs.auto = profile[v].prefs.auto
               \/ (profile'[v].prefs.auto /\ snapshot.prefs.auto)
      BY <1>5, <2>1, <2>4
    <3> HIDE DEF v
    <3>3. /\ profile'[v].prefs.hell = copy.progress.prefs.hell
          /\ \/ profile'[v].prefs.auto = copy.progress.prefs.auto
             \/ profile'[v].prefs.auto /\ snapshot.prefs.auto
      BY <3>1, <3>2
    <3> QED BY <3>3 DEF v
  <2> QED BY <1>1, <1>2, <2>2, <2>3, <2>4 DEF Settled
<1> QED BY <1>9, <1>10, <1>11, <1>12 DEF Settling

LEMMA MountSettling ==
  ASSUME BrowserSessionAssumption, Inv, Settling, NEW u \in Users, Mount(u), user = None,
         UNCHANGED <<entering, edits, lostEdit>>
  PROVE  Settling'
<1>1. user' = u /\ timer' = None /\ queue' = <<>>
  BY DEF Mount
<1>2. CASE AskServer(u)
  <2>1. PICK out \in Outcomes : Ask(u, out)
    BY <1>2 DEF AskServer
  <2> QED BY <1>1, <1>2, <2>1, AskSettling DEF AskServer
<1>3. CASE CachedFor(u) # None /\ ~HasAnonymousState /\ ~AskServer(u)
  <2>1. /\ StartCloud(u, CachedFor(u)) /\ reconciling' = None
        /\ UNCHANGED <<inner, profile, edits, lostEdit, entering>>
    BY <1>3 DEF Mount
  <2>2. copy # None /\ copy.user = u /\ CachedFor(u) = copy.progress
    BY <1>3 DEF CachedFor
  <2>3. Known(copy.progress, edits) /\ profile[u] # None
    BY <2>2 DEF Settling, Preferred, Settled
  <2>4. storageMode = "local" /\ ~snapshot.prefs.auto
    BY <1>3 DEF Inv, Modes, HasAnonymousState
  <2>5. ~lostEdit => SameSynced(profile[u].prefs, copy.progress.prefs)
    BY <2>2, <2>4 DEF Settling, Settled, SameSynced
  <2> QED BY <1>1, <2>1, <2>2, <2>3, <2>5, StartSettling
<1> QED BY <1>2, <1>3 DEF Mount


(* A loaded page shows what was stored, with the preferences kept apart.   *)
LEMMA LoadingFinds ==
  ASSUME BrowserSessionAssumption, Inv, Settling, NEW stored, Load(stored), stored \in {local, None}
  PROVE  \E base \in Preferences :
           /\ base = (IF stored = None THEN [inner EXCEPT !.hell = FALSE] ELSE stored.prefs)
           /\ base.edit <= edits
           /\ snapshot'.prefs = Either(base, inner)
           /\ snapshot'.games = (IF stored = None THEN {} ELSE stored.games)
           /\ snapshot' \in Progress
<1>1. snapshot' = ReadProgress(stored)
  BY DEF Load
<1>2. inner \in Preferences /\ inner.edit <= edits
  BY DEF Settling, Preferred
<1>3. CASE stored = None
  <2> DEFINE base == [inner EXCEPT !.hell = FALSE]
  <2>1. base \in Preferences /\ base.edit = inner.edit
    BY <1>2 DEF Preferences
  <2>2. snapshot' = [[games |-> {}, prefs |-> base] EXCEPT !.prefs = Either(@, inner)]
    BY <1>1, <1>3 DEF ReadProgress, FreshProgress
  <2> HIDE DEF base
  <2>3. snapshot' = [games |-> {}, prefs |-> Either(base, inner)]
    BY <2>2
  <2>4. snapshot' \in Progress
    BY <1>2, <2>1, <2>3, EitherFields DEF Progress
  <2>5. base = (IF stored = None THEN [inner EXCEPT !.hell = FALSE] ELSE stored.prefs)
    BY <1>3 DEF base
  <2> QED BY <1>2, <1>3, <2>1, <2>3, <2>4, <2>5
<1>4. CASE stored # None
  <2>1. stored = local /\ stored \in Progress /\ stored.prefs \in Preferences
          /\ stored.prefs.edit <= edits
    BY <1>4 DEF Settling, Preferred, Known, Progress
  <2>2. snapshot' = [stored EXCEPT !.prefs = Either(@, inner)]
    BY <1>1, <1>4 DEF ReadProgress
  <2>3. snapshot' \in Progress /\ snapshot'.prefs = Either(stored.prefs, inner)
          /\ snapshot'.games = stored.games
    BY <1>2, <2>1, <2>2, EitherFields DEF Progress
  <2> QED BY <1>4, <2>1, <2>3
<1> QED BY <1>3, <1>4

(* A page loaded again shows the games and preferences it showed, as long  *)
(* as its progress is the browser's.                                       *)
LEMMA ReloadKeeps ==
  ASSUME BrowserSessionAssumption, Inv, Settling, Reload, storageMode = "local"
  PROVE  snapshot'.games = snapshot.games /\ SameSynced(snapshot'.prefs, snapshot.prefs)
<1>1. PICK base \in Preferences :
        /\ base = (IF local = None THEN [inner EXCEPT !.hell = FALSE] ELSE local.prefs)
        /\ snapshot'.prefs = Either(base, inner)
        /\ snapshot'.games = (IF local = None THEN {} ELSE local.games)
  BY LoadingFinds DEF Reload
<1>2. inner \in Preferences
  BY DEF Settling, Preferred
<1>3. CASE local = None
  <2>1. base.hell = FALSE /\ base.auto = inner.auto
    BY <1>1, <1>2, <1>3 DEF Preferences
  <2>2. SameSynced(Either(base, inner), inner)
    BY <1>2, <2>1, EitherFields DEF SameSynced, Preferences
  <2> QED BY <1>1, <1>3, <2>2, SameIsEquivalence DEF Settling, Found
<1>4. CASE local # None
  BY <1>1, <1>4, SameIsEquivalence DEF Settling, Found
<1> QED BY <1>3, <1>4

LEMMA LoadSettling ==
  ASSUME BrowserSessionAssumption, Inv, Settling, NEW stored, Load(stored),
         \/ stored = local /\ local' = local /\ copy' \in {copy, None}
         \/ stored = None /\ local' = snapshot' /\ copy' = None,
         copy' # None /\ storageMode = "local" => SameSynced(snapshot'.prefs, snapshot.prefs)
  PROVE  Settling'
<1>1. PICK base \in Preferences :
        /\ base = (IF stored = None THEN [inner EXCEPT !.hell = FALSE] ELSE stored.prefs)
        /\ base.edit <= edits
        /\ snapshot'.prefs = Either(base, inner)
        /\ snapshot'.games = (IF stored = None THEN {} ELSE stored.games)
        /\ snapshot' \in Progress
  BY LoadingFinds
<1>2. /\ inner' = InnerAfter(snapshot'.prefs, inner) /\ storageMode' = "local"
      /\ cloudReady' = FALSE /\ timer' = None /\ queue' = <<>>
      /\ reconciling' = None /\ entering' = None
      /\ lostEdit' = (lostEdit \/ timer # None \/ queue # <<>>)
      /\ UNCHANGED <<profile, edits>>
  BY DEF Load
<1>3. inner \in Preferences /\ inner.edit <= edits /\ (inner.hell => inner.unlocked \/ inner.auto)
  BY DEF Settling, Preferred, Found
<1>4. inner' \in {inner, snapshot'.prefs}
        /\ (inner' = inner \/ (inner' = snapshot'.prefs
                               /\ (snapshot'.prefs.unlocked \/ snapshot'.prefs.auto)))
  BY <1>2 DEF InnerAfter
<1>5. /\ snapshot'.prefs \in Preferences /\ snapshot'.prefs.edit <= edits
      /\ snapshot'.prefs.hell <=> base.hell \/ inner.hell
      /\ snapshot'.prefs.auto <=> base.auto \/ inner.auto
      /\ snapshot'.prefs.unlocked <=> base.unlocked \/ inner.unlocked
  <2> DEFINE both == Either(base, inner)
  <2>1. /\ both \in Preferences /\ both.edit = base.edit
        /\ both.hell <=> base.hell \/ inner.hell
        /\ both.auto <=> base.auto \/ inner.auto
        /\ both.unlocked <=> base.unlocked \/ inner.unlocked
    BY <1>3, EitherFields
  <2>2. snapshot'.prefs = both
    BY <1>1
  <2> HIDE DEF both
  <2> QED BY <1>1, <2>1, <2>2
<1>6. Known(snapshot', edits)
  BY <1>1, <1>5 DEF Known
<1>7. Preferred'
  <2>1. local' # None => Known(local', edits)
    BY <1>6 DEF Settling, Preferred
  <2>2. copy' # None => Known(copy'.progress, edits)
    BY DEF Settling, Preferred
  <2>3. inner' \in Preferences /\ inner'.edit <= edits
    BY <1>3, <1>4, <1>5
  <2>4. lostEdit' \in BOOLEAN
    BY <1>2 DEF Settling, Preferred
  <2>5. edits \in Nat /\ \A u \in Users : profile[u] # None =>
          profile[u] \in Profiles /\ profile[u].prefs.edit <= edits
    BY DEF Settling, Preferred
  <2> QED BY <1>2, <1>6, <2>1, <2>2, <2>3, <2>4, <2>5 DEF Preferred
<1>8. Found'
  <2>1. inner'.hell => inner'.unlocked \/ inner'.auto
    BY <1>3, <1>4
  <2>2. (inner'.unlocked => snapshot'.prefs.unlocked) /\ (inner'.auto => snapshot'.prefs.auto)
    BY <1>4, <1>5
  <2>3. SameSynced(snapshot'.prefs, Either(base, inner'))
    <3>1. CASE inner' = inner
      BY <1>1, <3>1, SameIsEquivalence
    <3>2. CASE inner' = snapshot'.prefs
      <4>1. /\ Either(base, snapshot'.prefs).hell \in BOOLEAN
            /\ Either(base, snapshot'.prefs).auto \in BOOLEAN
            /\ Either(base, snapshot'.prefs).hell <=> snapshot'.prefs.hell
            /\ Either(base, snapshot'.prefs).auto <=> snapshot'.prefs.auto
        BY <1>5, EitherFields DEF Preferences
      <4> QED BY <1>5, <3>2, <4>1 DEF SameSynced, Preferences
    <3> QED BY <1>4, <3>1, <3>2
  <2>4. SameSynced(snapshot'.prefs, Either(snapshot'.prefs, inner'))
    <3>1. inner' \in Preferences /\ (inner'.hell => snapshot'.prefs.hell)
            /\ (inner'.auto => snapshot'.prefs.auto)
      BY <1>3, <1>4, <1>5
    <3>2. /\ Either(snapshot'.prefs, inner').hell \in BOOLEAN
          /\ Either(snapshot'.prefs, inner').auto \in BOOLEAN
          /\ Either(snapshot'.prefs, inner').hell <=> snapshot'.prefs.hell
          /\ Either(snapshot'.prefs, inner').auto <=> snapshot'.prefs.auto
      BY <1>5, <3>1, EitherFields DEF Preferences
    <3> QED BY <1>5, <3>2 DEF SameSynced, Preferences
  <2>5. stored = None => SameSynced(snapshot'.prefs, inner')
    <3>1. stored = None => base.hell = FALSE /\ base.auto = inner.auto
      BY <1>1, <1>3 DEF Preferences
    <3> QED BY <1>3, <1>4, <1>5, <3>1 DEF SameSynced, Preferences
  <2>6. CASE stored = local /\ local' = local
    BY <1>1, <1>2, <2>1, <2>2, <2>3, <2>5, <2>6 DEF Found
  <2>7. CASE local' = snapshot'
    <3>1. local' # None
      BY <1>1, <2>7 DEF BrowserSessionAssumption
    <3> QED BY <1>2, <2>1, <2>2, <2>4, <2>7, <3>1 DEF Found
  <2> QED BY <2>6, <2>7
<1>9. Ordered'
  BY <1>2 DEF Ordered
<1>10. Settled'
  <2>1. copy' # None => profile'[copy'.user] # None
    BY <1>2 DEF Settling, Settled
  <2>2. ASSUME ~lostEdit', copy' # None
        PROVE  /\ profile[copy.user].prefs.hell = copy.progress.prefs.hell
               /\ \/ profile[copy.user].prefs.auto = copy.progress.prefs.auto
                  \/ profile[copy.user].prefs.auto /\ snapshot'.prefs.auto
    <3>1. copy' = copy /\ ~lostEdit /\ timer = None /\ queue = <<>>
      BY <1>2, <2>2
    <3>2. CASE storageMode = "cloud"
      <4>1. cloudReady /\ copy.progress.prefs = snapshot.prefs /\ copy.user = activeUserId /\ activeUserId = user
        <5>1. CopyOf(activeUserId, snapshot).progress.prefs = snapshot.prefs
                /\ CopyOf(activeUserId, snapshot).user = activeUserId
          BY DEF CopyOf, Settling, Preferred, Known, Progress
        <5> QED BY <3>2, <5>1 DEF Inv, Modes, Settling, Preferred, Found
      <4>2. SameSynced(profile[user].prefs, snapshot.prefs)
        BY <3>1, <4>1, SameIsEquivalence DEF Settling, Settled
      <4> QED BY <4>1, <4>2 DEF SameSynced
    <3>3. CASE storageMode = "local"
      <4>1. /\ profile[copy.user].prefs.hell = copy.progress.prefs.hell
            /\ \/ profile[copy.user].prefs.auto = copy.progress.prefs.auto
               \/ profile[copy.user].prefs.auto /\ snapshot.prefs.auto
        BY <2>2, <3>1, <3>3 DEF Settling, Settled
      <4>2. snapshot'.prefs.auto = snapshot.prefs.auto
        BY <2>2, <3>3 DEF SameSynced
      <4> QED BY <4>1, <4>2
    <3> QED BY <3>2, <3>3 DEF Inv, Modes
  <2>3. copy' # None => copy' = copy
    OBVIOUS
  <2> QED BY <1>2, <2>1, <2>2, <2>3 DEF Settled
<1> QED BY <1>7, <1>8, <1>9, <1>10 DEF Settling

LEMMA TimerSettling ==
  ASSUME BrowserSessionAssumption, Inv, Settling, TimerFires
  PROVE  Settling'
<1> DEFINE write == [prefs |-> timer, tries |-> 0]
<1>1. /\ timer # None /\ queue' = Append(queue, write) /\ timer' = None
      /\ UNCHANGED <<local, inner, copy, snapshot, storageMode, activeUserId, user, cloudReady,
                     lastSynced, reconciling, entering, profile, edits, lostEdit>>
  BY DEF TimerFires, storage, store, server, history
<1>2. /\ queue \in Seq(Writes) /\ timer \in SyncedPreferences /\ timer.edit <= edits
      /\ profile[user].prefs.edit <= timer.edit /\ cloudReady
      /\ \A i \in 1..Len(queue) : queue[i].prefs.edit <= timer.edit
  BY <1>1 DEF Settling, Ordered
<1>3. write \in Writes /\ write.prefs = timer /\ timer.edit <= timer.edit
  BY <1>2 DEF Writes, SyncedPreferences
<1> HIDE DEF write
<1>4. /\ queue' \in Seq(Writes) /\ queue' # <<>> /\ Len(queue') = Len(queue) + 1 /\ Len(queue) \in Nat
      /\ \A i \in 1..Len(queue) : queue'[i] = queue[i]
      /\ queue'[Len(queue')] = write
  BY <1>1, <1>2, <1>3
<1>5. Preferred' /\ Found'
  BY <1>1 DEF Settling, Preferred, Found, CopyOf
<1>6. Ordered'
  <2>1. ASSUME NEW i \in 1..Len(queue')
        PROVE  /\ queue'[i].prefs.edit <= edits
               /\ profile[user].prefs.edit <= queue'[i].prefs.edit
               /\ \A j \in i..Len(queue') : queue'[i].prefs.edit <= queue'[j].prefs.edit
    <3>1. CASE i = Len(queue')
      <4>1. queue'[i].prefs = timer /\ \A j \in i..Len(queue') : j = i
        BY <3>1, <1>3, <1>4
      <4> QED BY <4>1, <1>2, <1>3
    <3>2. CASE i # Len(queue')
      <4>1. i \in 1..Len(queue) /\ queue'[i] = queue[i]
        BY <3>2, <1>4
      <4>2. ASSUME NEW j \in i..Len(queue')  PROVE queue[i].prefs.edit <= queue'[j].prefs.edit
        <5>1. CASE j = Len(queue')
          BY <4>1, <5>1, <1>2, <1>3, <1>4
        <5>2. CASE j # Len(queue')
          <6>1. j \in i..Len(queue) /\ j \in 1..Len(queue)
            BY <4>1, <5>2, <1>4
          <6> QED BY <4>1, <6>1, <1>4 DEF Settling, Ordered
        <5> QED BY <5>1, <5>2
      <4> QED BY <4>1, <4>2 DEF Settling, Ordered
    <3> QED BY <3>1, <3>2
  <2> QED BY <1>1, <1>2, <1>4, <2>1 DEF Ordered
<1>7. Settled'
  <2>1. SameSynced(queue'[Len(queue')].prefs, snapshot.prefs)
    BY <1>1, <1>3, <1>4 DEF Settling, Settled
  <2> QED BY <1>1, <1>4, <2>1 DEF Settling, Settled
<1> QED BY <1>5, <1>6, <1>7 DEF Settling

(* A write that was handled leaves the account with what the head of the   *)
(* queue has, and a failed one stays at the head until it is given up.     *)
LEMMA WriteEffect ==
  ASSUME BrowserSessionAssumption, Inv, Settling, WritePreferences
  PROVE  /\ queue # <<>> /\ cloudReady /\ user \in Users /\ profile[user] # None
         /\ Head(queue) \in Writes /\ Head(queue) = queue[1]
         /\ \A u \in Users : u # user => profile'[u] = profile[u]
         /\ profile'[user] # None /\ profile'[user] \in Profiles
         /\ profile'[user].prefs \in {profile[user].prefs, Head(queue).prefs}
         /\ \/ queue' = Tail(queue) /\ lastSynced' = Head(queue).prefs /\ lostEdit' = lostEdit
               /\ profile'[user].prefs = Head(queue).prefs
            \/ queue' = Tail(queue) /\ lastSynced' = lastSynced /\ lostEdit' = TRUE
            \/ /\ queue' = <<[Head(queue) EXCEPT !.tries = @ + 1]>> \o Tail(queue)
               /\ lastSynced' = lastSynced /\ lostEdit' = lostEdit
<1>1. queue # <<>> /\ cloudReady /\ queue \in Seq(Writes)
  BY DEF WritePreferences, Settling, Ordered
<1>2. user \in Users /\ profile[user] # None
  BY <1>1 DEF Settling, Preferred, Settled, Inv, Modes
<1>3. Head(queue) \in Writes /\ Head(queue) = queue[1] /\ Head(queue).prefs \in SyncedPreferences
  <2>1. Head(queue) \in Writes /\ Head(queue) = queue[1]
    BY <1>1
  <2> QED BY <2>1 DEF Writes
<1>4. DOMAIN profile = Users /\ profile[user] \in Profiles /\ lostEdit \in BOOLEAN
  BY <1>2 DEF Inv, Rows, Settling, Preferred
<1>5. profile' = profile \/ profile' = [profile EXCEPT ![user].prefs = Head(queue).prefs]
  BY DEF WritePreferences
<1>6. [profile EXCEPT ![user].prefs = Head(queue).prefs][user]
        = [profile[user] EXCEPT !.prefs = Head(queue).prefs]
  BY <1>2, <1>4
<1>7. [profile[user] EXCEPT !.prefs = Head(queue).prefs] \in Profiles
        /\ [profile[user] EXCEPT !.prefs = Head(queue).prefs].prefs = Head(queue).prefs
  BY <1>3, <1>4 DEF Profiles
<1>8. /\ \A u \in Users : u # user => profile'[u] = profile[u]
      /\ profile'[user] \in Profiles
      /\ profile'[user].prefs \in {profile[user].prefs, Head(queue).prefs}
  BY <1>2, <1>4, <1>5, <1>6, <1>7
<1>9. profile'[user] # None
  BY <1>8 DEF BrowserSessionAssumption
<1>10. PICK out \in Outcomes :
         LET done == out # "not sent" /\ cookie = user /\ profile[user] # None
         IN  /\ profile' = IF done THEN [profile EXCEPT ![user].prefs = Head(queue).prefs]
                           ELSE profile
             /\ IF done /\ out = "answered"
                  THEN /\ lastSynced' = Head(queue).prefs
                       /\ queue' = Tail(queue)
                       /\ UNCHANGED lostEdit
                  ELSE /\ queue' = AfterFailure(queue)
                       /\ lostEdit' = (lostEdit \/ Head(queue).tries = Retries)
                       /\ UNCHANGED lastSynced
  BY DEF WritePreferences
<1>11. CASE out = "answered" /\ cookie = user
  BY <1>1, <1>2, <1>3, <1>6, <1>7, <1>8, <1>9, <1>10, <1>11
<1>12. CASE ~(out = "answered" /\ cookie = user)
  <2>1. /\ queue' = AfterFailure(queue) /\ lastSynced' = lastSynced
        /\ lostEdit' = (lostEdit \/ Head(queue).tries = Retries)
    BY <1>10, <1>12
  <2>2. CASE Head(queue).tries = Retries
    BY <1>1, <1>2, <1>3, <1>8, <1>9, <2>1, <2>2 DEF AfterFailure
  <2>3. CASE Head(queue).tries # Retries
    <3>1. lostEdit' = lostEdit
      BY <2>1, <2>3, <1>4
    <3> QED BY <1>1, <1>2, <1>3, <1>8, <1>9, <2>1, <2>3, <3>1 DEF AfterFailure
  <2> QED BY <2>2, <2>3
<1> QED BY <1>11, <1>12

LEMMA WriteSettling ==
  ASSUME BrowserSessionAssumption, Inv, Settling, WritePreferences
  PROVE  Settling'
<1> DEFINE head == Head(queue)
<1>1. /\ queue # <<>> /\ cloudReady /\ user \in Users /\ profile[user] # None
      /\ head \in Writes /\ head = queue[1]
      /\ \A u \in Users : u # user => profile'[u] = profile[u]
      /\ profile'[user] # None /\ profile'[user] \in Profiles
      /\ profile'[user].prefs \in {profile[user].prefs, head.prefs}
      /\ \/ queue' = Tail(queue) /\ lastSynced' = head.prefs /\ lostEdit' = lostEdit
            /\ profile'[user].prefs = head.prefs
         \/ queue' = Tail(queue) /\ lastSynced' = lastSynced /\ lostEdit' = TRUE
         \/ /\ queue' = <<[head EXCEPT !.tries = @ + 1]>> \o Tail(queue)
            /\ lastSynced' = lastSynced /\ lostEdit' = lostEdit
  BY WriteEffect
<1>2. UNCHANGED <<local, inner, copy, snapshot, storageMode, activeUserId, user, cloudReady,
                  timer, reconciling, entering, edits>>
  BY DEF WritePreferences, storage, store
<1>3. queue \in Seq(Writes) /\ Len(queue) \in Nat \ {0} /\ lostEdit \in BOOLEAN
  BY <1>1 DEF Settling, Ordered, Preferred
<1> HIDE DEF head
<1>4. /\ head.prefs \in SyncedPreferences /\ head.prefs.edit \in Nat /\ head.prefs.edit <= edits
      /\ profile[user].prefs.edit <= head.prefs.edit
      /\ \A j \in 1..Len(queue) : head.prefs.edit <= queue[j].prefs.edit
      /\ timer # None => head.prefs.edit <= timer.edit
  <2>1. 1 \in 1..Len(queue)
    BY <1>3
  <2> QED BY <1>1, <2>1, Numbers DEF Settling, Ordered
<1>5. copy # None => copy.user \in Users
  BY DEF Inv, Kept
<1>6. profile'[user].prefs.edit \in Nat /\ profile'[user].prefs.edit <= edits
        /\ profile'[user].prefs.edit <= head.prefs.edit
  <2>1. profile[user].prefs.edit \in Nat /\ profile[user].prefs.edit <= edits
    BY <1>1, Numbers
  <2> QED BY <1>1, <1>4, <2>1
<1>7. Preferred'
  <2>1. \A u \in Users : profile'[u] # None =>
          profile'[u] \in Profiles /\ profile'[u].prefs.edit <= edits
    BY <1>1, <1>6 DEF Settling, Preferred
  <2>2. lostEdit' \in BOOLEAN
    BY <1>1, <1>3
  <2>3. storageMode = "cloud" /\ reconciling = None
    BY <1>1 DEF Settling, Preferred, Settled
  <2> QED BY <1>2, <2>1, <2>2, <2>3 DEF Settling, Preferred
<1>8. Found'
  BY <1>2 DEF Settling, Found, CopyOf
<1>9. \* what is left of the queue
      \/ /\ Len(queue') = Len(queue) - 1 /\ queue' \in Seq(Writes) /\ queue' = Tail(queue)
         /\ \A i \in 1..Len(queue') : queue'[i] = queue[i + 1]
      \/ /\ Len(queue') = Len(queue) /\ queue' \in Seq(Writes)
         /\ \A i \in 1..Len(queue') : queue'[i].prefs = queue[i].prefs
         /\ lastSynced' = lastSynced /\ lostEdit' = lostEdit
  <2>1. CASE queue' = Tail(queue)
    BY <1>1, <1>3, <2>1
  <2>2. CASE queue' = <<[head EXCEPT !.tries = @ + 1]>> \o Tail(queue)
                /\ lastSynced' = lastSynced /\ lostEdit' = lostEdit
    <3> DEFINE again == [head EXCEPT !.tries = @ + 1]
    <3>1. again \in Writes /\ again.prefs = head.prefs
      BY <1>1 DEF Writes
    <3> HIDE DEF again
    <3>2. queue' = <<again>> \o Tail(queue)
      BY <2>2 DEF again
    <3>3. /\ Len(queue') = Len(queue) /\ queue' \in Seq(Writes)
          /\ queue'[1] = again
          /\ \A i \in 2..Len(queue) : queue'[i] = queue[i]
      <4>1. Tail(queue) \in Seq(Writes) /\ Len(Tail(queue)) = Len(queue) - 1
              /\ \A i \in 1..Len(queue) - 1 : Tail(queue)[i] = queue[i + 1]
        BY <1>1, <1>3
      <4>2. <<again>> \in Seq(Writes) /\ Len(<<again>>) = 1 /\ <<again>>[1] = again
        BY <3>1
      <4> HIDE DEF again
      <4> QED BY <1>3, <3>2, <4>1, <4>2
    <3>4. \A i \in 1..Len(queue') : queue'[i].prefs = queue[i].prefs
      BY <1>1, <1>3, <3>1, <3>3
    <3> QED BY <2>2, <3>3, <3>4
  <2> QED BY <1>1, <2>1, <2>2
<1>10. Ordered'
  <2>1. \E k \in {0, 1} : /\ Len(queue') = Len(queue) - k
                          /\ \A i \in 1..Len(queue') : queue'[i].prefs = queue[i + k].prefs
    BY <1>3, <1>9
  <2>2. PICK k \in {0, 1} : /\ Len(queue') = Len(queue) - k
                            /\ \A i \in 1..Len(queue') : queue'[i].prefs = queue[i + k].prefs
    BY <2>1
  <2>3. ASSUME NEW i \in 1..Len(queue')
        PROVE  /\ queue'[i].prefs.edit <= edits
               /\ profile'[user].prefs.edit <= queue'[i].prefs.edit
               /\ timer # None => queue'[i].prefs.edit <= timer.edit
               /\ \A j \in i..Len(queue') : queue'[i].prefs.edit <= queue'[j].prefs.edit
    <3>1. i + k \in 1..Len(queue) /\ queue'[i].prefs = queue[i + k].prefs
      BY <1>3, <2>2
    <3>2. /\ queue[i + k].prefs.edit \in Nat /\ queue[i + k].prefs.edit <= edits
          /\ timer # None => queue[i + k].prefs.edit <= timer.edit
      BY <3>1, Numbers DEF Settling, Ordered
    <3>3. ASSUME NEW j \in i..Len(queue')  PROVE queue'[i].prefs.edit <= queue'[j].prefs.edit
      <4>1. j \in 1..Len(queue') /\ j + k \in (i + k)..Len(queue)
        BY <1>3, <2>2
      <4>2. queue'[j].prefs = queue[j + k].prefs
        BY <2>2, <4>1
      <4>3. queue[i + k].prefs.edit <= queue[j + k].prefs.edit
        BY <3>1, <4>1 DEF Settling, Ordered
      <4> QED BY <3>1, <4>2, <4>3
    <3>4. head.prefs.edit <= queue[i + k].prefs.edit
      BY <1>4, <3>1
    <3>5. profile'[user].prefs.edit <= queue[i + k].prefs.edit
      BY <1>4, <1>6, <3>2, <3>4
    <3> QED BY <3>1, <3>2, <3>3, <3>5
  <2>4. timer # None => /\ timer \in SyncedPreferences /\ timer.edit <= edits
                        /\ profile'[user].prefs.edit <= timer.edit
    <3> SUFFICES ASSUME timer # None
                 PROVE  /\ timer \in SyncedPreferences /\ timer.edit <= edits
                        /\ profile'[user].prefs.edit <= timer.edit
      OBVIOUS
    <3>1. timer \in SyncedPreferences /\ timer.edit <= edits
      BY DEF Settling, Ordered
    <3>2. timer.edit \in Nat
      BY <3>1 DEF SyncedPreferences
    <3>3. profile'[user].prefs.edit <= timer.edit
      <4>1. head.prefs.edit \in Nat /\ head.prefs.edit <= timer.edit
        BY <1>4
      <4>2. profile'[user].prefs.edit \in Nat /\ profile'[user].prefs.edit <= head.prefs.edit
        BY <1>6
      <4> QED BY <3>2, <4>1, <4>2
    <3> QED BY <3>1, <3>3
  <2>5. queue' \in Seq(Writes)
    BY <1>9
  <2> QED BY <1>1, <1>2, <2>3, <2>4, <2>5 DEF Ordered
<1>11. Settled'
  <2>1. lastSynced' \in SyncedPreferences
    BY <1>1, <1>4 DEF Settling, Settled
  <2>2. copy # None => profile'[copy.user] # None
    BY <1>1, <1>5 DEF Settling, Settled
  <2>3. ASSUME ~lostEdit', timer = None, queue' # <<>>
        PROVE  SameSynced(queue'[Len(queue')].prefs, snapshot.prefs)
    <3>1. ~lostEdit
      BY <1>1, <2>3
    <3>2. queue'[Len(queue')].prefs = queue[Len(queue)].prefs
      <4>1. Len(queue') # 0 /\ Len(queue') \in Nat
        BY <1>9, <2>3
      <4> QED BY <1>3, <1>9, <4>1
    <3> QED BY <1>1, <2>3, <3>1, <3>2 DEF Settling, Settled
  <2>4. ASSUME ~lostEdit', queue' = <<>>
        PROVE  /\ SameSynced(profile'[user].prefs, lastSynced')
               /\ timer = None => SameSynced(lastSynced', snapshot.prefs)
    <3>1. Len(queue') = 0
      BY <2>4
    <3>2. queue' = Tail(queue) /\ Len(queue) = 1
      BY <1>3, <1>9, <3>1
    <3>3. lastSynced' = head.prefs /\ profile'[user].prefs = head.prefs /\ ~lostEdit
      <4>1. queue' # <<[head EXCEPT !.tries = @ + 1]>> \o Tail(queue)
        <5> DEFINE again == [head EXCEPT !.tries = @ + 1]
        <5>1. Tail(queue) \in Seq(Writes)
          BY <1>1, <1>3
        <5>2. again \in Writes
          BY <1>1 DEF Writes
        <5> HIDE DEF again
        <5>3. Len(<<again>> \o Tail(queue)) = 1 + Len(Tail(queue)) /\ Len(Tail(queue)) \in Nat
          BY <5>1, <5>2
        <5>4. queue' # <<again>> \o Tail(queue)
          BY <3>1, <5>3
        <5> QED BY <5>4 DEF again
      <4> QED BY <1>1, <2>4, <4>1
    <3>4. timer = None => SameSynced(head.prefs, snapshot.prefs)
      BY <1>1, <3>2, <3>3 DEF Settling, Settled
    <3> QED BY <3>3, <3>4, SameIsEquivalence
  <2>5. storageMode = "cloud" /\ reconciling = None
    BY <1>1 DEF Settling, Preferred, Settled
  <2>6. timer # None => SameSynced(timer, snapshot.prefs)
    BY DEF Settling, Settled
  <2> QED BY <1>1, <1>2, <2>1, <2>2, <2>3, <2>4, <2>5, <2>6 DEF Settled
<1> QED BY <1>7, <1>8, <1>10, <1>11 DEF Settling

LEMMA StillSettling ==
  ASSUME BrowserSessionAssumption, Inv, Settling,
         ReconcileFails \/ SessionEnds \/ OpenGame \/ UNCHANGED vars
  PROVE  Settling'
<1>1. /\ UNCHANGED <<local, inner, copy, snapshot, storageMode, activeUserId, user, cloudReady,
                     lastSynced, timer, queue, entering, profile, edits, lostEdit>>
      /\ reconciling' \in {reconciling, None}
  BY DEF ReconcileFails, SessionEnds, OpenGame, vars, storage, store, sync, server, history
<1>2. Preferred' /\ Found' /\ Ordered'
  BY <1>1 DEF Settling, Preferred, Found, Ordered, CopyOf
<1>3. Settled'
  BY <1>1 DEF Settling, Settled
<1> QED BY <1>2, <1>3 DEF Settling

LEMMA NextSettling ==
  ASSUME BrowserSessionAssumption, Inv, Settling, [Next]_vars
  PROVE  Settling'
<1>1. CASE Reload
  <2>1. Load(local) /\ local' = local /\ copy' \in {copy, None}
    BY <1>1 DEF Reload
  <2>2. storageMode = "local" => SameSynced(snapshot'.prefs, snapshot.prefs)
    BY <1>1, ReloadKeeps
  <2> QED BY <2>1, <2>2, LoadSettling
<1>2. CASE SignOut \/ ClearLocalData
  <2>1. Load(None) /\ local' = snapshot' /\ copy' = None
    BY <1>2 DEF SignOut, ClearLocalData, Reset
  <2> QED BY <2>1, LoadSettling
<1>3. CASE CheckAuthentication
  <2>1. cookie \in Users
    BY <1>3 DEF CheckAuthentication, Inv, Modes
  <2> QED BY <1>3, <2>1, MountSettling DEF CheckAuthentication
<1>4. CASE \E u \in Users : Login(u)
  BY <1>4, MountSettling DEF Login
<1>5. CASE \E g \in Games : Play(g) \/ ReadHistory(g)
  BY <1>5, PlaySettling, HistorySettling
<1>6. CASE Edit("hell") \/ Edit("auto")
  BY <1>6, EditSettling
<1>7. CASE ReconcileAnswer \/ EnterInnerCircle \/ EnterAnswer
  BY <1>7, AnswerSettling, EnterSettling, EnterAnswerSettling
<1>8. CASE TimerFires \/ WritePreferences
  BY <1>8, TimerSettling, WriteSettling
<1>9. CASE ReconcileFails \/ SessionEnds \/ OpenGame \/ UNCHANGED vars
  BY <1>9, StillSettling
<1> QED BY <1>1, <1>2, <1>3, <1>4, <1>5, <1>6, <1>7, <1>8, <1>9 DEF Next

(* All that holds of the browser's session after every step. *)
LEMMA SessionInvariant ==
  ASSUME BrowserSessionAssumption
  PROVE  Spec => [](Inv /\ Settling)
<1>1. Init => Inv /\ Settling
  BY InitInv, InitSettling
<1>2. Inv /\ Settling /\ [Next]_vars => Inv' /\ Settling'
  BY NextInv, NextSettling
<1> QED BY <1>1, <1>2, PTL DEF Spec

(* Preferences reach the account, unless one was dropped in a way          *)
(* ProgressSync cannot make good, and a reload finds what was shown, but   *)
(* for games beyond the limit of the session's copy.                       *)
THEOREM ProgressIsStoredAlways ==
  ASSUME BrowserSessionAssumption
  PROVE  Spec => [](SettledPreferencesAgree /\ ReloadShowsSame)
<1>1. Inv /\ Settling => SettledPreferencesAgree /\ ReloadShowsSame
  BY SettlingGivesProperties
<1> QED BY <1>1, SessionInvariant, PTL

-----------------------------------------------------------------------------
(* The preferences of an account change by a write of the queue only, or   *)
(* keep their number.                                                      *)
LEMMA WritesAreNewer ==
  ASSUME BrowserSessionAssumption, Inv, Settling, [Next]_vars
  PROVE  WriteIsNewer
<1> SUFFICES ASSUME NEW u \in Users, profile[u] # None
             PROVE  profile'[u].prefs.edit >= profile[u].prefs.edit
  BY DEF WriteIsNewer
<1>1. profile[u].prefs.edit \in Nat
  BY Numbers
<1>2. CASE profile'[u] = profile[u]
  BY <1>1, <1>2
<1>3. CASE WritePreferences
  <2>1. /\ queue # <<>> /\ queue \in Seq(Writes) /\ Head(queue) = queue[1]
        /\ \A v \in Users : v # user => profile'[v] = profile[v]
        /\ profile'[user].prefs \in {profile[user].prefs, Head(queue).prefs}
    BY <1>3, WriteEffect DEF Settling, Ordered
  <2>2. 1 \in 1..Len(queue)
    BY <2>1
  <2>3. profile[user].prefs.edit <= queue[1].prefs.edit /\ queue[1].prefs.edit \in Nat
    BY <2>2, Numbers DEF Settling, Ordered
  <2> QED BY <1>1, <2>1, <2>3
<1>4. ASSUME NEW v \in Users, Linking(v, Caller, snapshot.prefs)
      PROVE  profile'[u].prefs.edit >= profile[u].prefs.edit
  <2>1. Caller \in Nat
    BY NewPlayer DEF Inv, Modes
  <2>2. u # v => profile'[u] = profile[u]
    BY <1>4, <2>1, ClaimingSettles
  <2>3. u = v => profile'[u].prefs.edit = profile[u].prefs.edit
    BY <1>4, <2>1, ClaimingSettles
  <2> QED BY <1>1, <2>2, <2>3
<1>5. ASSUME NEW v \in Users, Mount(v)  PROVE profile'[u].prefs.edit >= profile[u].prefs.edit
  <2>1. profile' = profile \/ Linking(v, Caller, snapshot.prefs)
    BY <1>5 DEF Mount, AskServer, Ask, Synchronized
  <2> QED BY <1>2, <1>4, <2>1
<1>6. CASE CheckAuthentication
  <2>1. cookie \in Users
    BY <1>6 DEF CheckAuthentication, Inv, Modes
  <2> QED BY <1>5, <1>6, <2>1 DEF CheckAuthentication
<1>7. CASE \E v \in Users : Login(v)
  BY <1>5, <1>7 DEF Login
<1>8. CASE \/ ReconcileAnswer \/ ReconcileFails \/ TimerFires
           \/ OpenGame \/ \E g \in Games : ReadHistory(g)
           \/ Edit("hell") \/ Edit("auto") \/ EnterInnerCircle \/ EnterAnswer
           \/ Reload \/ SignOut \/ SessionEnds \/ ClearLocalData \/ UNCHANGED vars
  <2>1. UNCHANGED profile
    BY <1>8 DEF ReconcileAnswer, ReconcileFails, TimerFires, OpenGame, ReadHistory, Edit,
                EnterInnerCircle, EnterAnswer, Reload, SignOut, SessionEnds, ClearLocalData, Reset,
                Load, server, vars
  <2> QED BY <1>2, <2>1
<1>9. CASE \E g \in Games : Play(g)
  <2>1. Grown
    BY <1>9, RecordedGrows DEF Play
  <2>2. profile'[u] = profile[u]
    BY <2>1 DEF Grown
  <2> QED BY <1>2, <2>2
<1> QED BY <1>3, <1>6, <1>7, <1>8, <1>9 DEF Next

(* A game leaves the page with its user, or with the data that are         *)
(* cleared, or when the answer to entering the Inner Circle arrives.       *)
LEMMA ShownGamesStay ==
  ASSUME BrowserSessionAssumption, Inv, Settling, [Next]_vars
  PROVE  GamesStay
<1> SUFFICES ASSUME user' = user, ~ClearLocalData, entering' = entering \/ entering' # None
             PROVE  snapshot.games \subseteq snapshot'.games
  BY DEF GamesStay
<1>1. snapshot \in Progress
  BY DEF Settling, Preferred, Known
<1>2. CASE ReconcileAnswer
  <2> DEFINE merged == MergedWithServer(reconciling.progress, snapshot)
  <2>1. snapshot.games \subseteq merged.games
    BY DEF MergedWithServer
  <2>2. merged.games \subseteq snapshot'.games
    <3>1. /\ DOMAIN merged = {"games", "prefs"}
          /\ merged = [games |-> merged.games, prefs |-> merged.prefs]
      BY DEF MergedWithServer
    <3>2. StartCloud(user, merged)
      BY <1>2 DEF ReconcileAnswer
    <3> HIDE DEF merged
    <3> QED BY <3>1, <3>2 DEF StartCloud
  <2> QED BY <2>1, <2>2
<1>3. CASE \E g \in Games : Play(g) \/ ReadHistory(g)
  <2>1. PICK g \in Games : UpdateProgress([snapshot EXCEPT !.games = @ \cup {g}]) \/ UNCHANGED snapshot
    BY <1>3 DEF Play, ReadHistory, store
  <2> QED BY <1>1, <2>1 DEF UpdateProgress, Progress
<1>4. CASE Edit("hell") \/ Edit("auto")
  BY <1>1, <1>4 DEF Edit, UpdateProgress, Progress
<1>5. CASE EnterAnswer
  BY <1>5 DEF EnterAnswer
<1>6. CASE Reload
  <2>1. user = None /\ storageMode = "local"
    BY <1>6 DEF Reload, Load, Inv, Modes
  <2> QED BY <1>6, <2>1, ReloadKeeps
<1>7. CASE SignOut
  BY <1>7 DEF SignOut, Reset, Load
<1>8. CASE CheckAuthentication
  BY <1>8 DEF CheckAuthentication, Mount
<1>9. CASE \E u \in Users : Login(u)
  BY <1>9 DEF Login, Mount, BrowserSessionAssumption
<1>10. CASE \/ ReconcileFails \/ TimerFires \/ WritePreferences \/ EnterInnerCircle
            \/ SessionEnds \/ OpenGame \/ UNCHANGED vars
  BY <1>10 DEF ReconcileFails, TimerFires, WritePreferences, EnterInnerCircle, SessionEnds,
               OpenGame, store, vars
<1> QED BY <1>2, <1>3, <1>4, <1>5, <1>6, <1>7, <1>8, <1>9, <1>10 DEF Next

(* Of one user, no step but clearing the data and the answer to entering   *)
(* the Inner Circle takes a game off the page that shows it; none writes   *)
(* older preferences over newer ones, retries included.                    *)
THEOREM NothingIsTakenBackAlways ==
  ASSUME BrowserSessionAssumption
  PROVE  Spec => [][GamesStay /\ WriteIsNewer]_vars
<1>1. Inv /\ Settling /\ [Next]_vars => GamesStay /\ WriteIsNewer
  BY WritesAreNewer, ShownGamesStay
<1> QED BY <1>1, SessionInvariant, PTL DEF Spec

-----------------------------------------------------------------------------
(* The store is the account's exactly while it is shown as the account's,  *)
(* and preferences are sent only for the user who is signed in.            *)
THEOREM TypeOKAlways ==
  ASSUME BrowserSessionAssumption
  PROVE  Spec => []TypeOK
<1>1. Inv /\ Settling => TypeOK
  <2> SUFFICES ASSUME Inv, Settling PROVE TypeOK
    OBVIOUS
  <2>1. snapshot.games \subseteq Games /\ snapshot.prefs \in Preferences
    <3>1. snapshot \in Progress
      BY DEF Settling, Preferred, Known
    <3> QED BY <3>1 DEF Progress
  <2>2. storageMode = "local" => activeUserId = None
    BY DEF Inv, Modes
  <2>3. storageMode = "cloud" => activeUserId = user /\ user \in Users /\ user # None
    BY DEF Inv, Modes
  <2>4. cloudReady => storageMode = "cloud"
    BY DEF Settling, Preferred
  <2> QED BY <2>1, <2>2, <2>3, <2>4 DEF Inv, Modes, TypeOK
<1> QED BY <1>1, SessionInvariant, PTL
=============================================================================
