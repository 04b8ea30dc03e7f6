------------------------ MODULE TimelineScreenProofs ------------------------
(***************************************************************************)
(* Proofs about TimelineScreen for any difficulties, boards, anchors,      *)
(* cards, earlier submissions and bounds.                                  *)
(***************************************************************************)
EXTENDS TimelineScreen, FiniteSetTheorems, WellFoundedInduction,
        TLAPS

(* A payload is of a difficulty there is. *)
IsGame(g) == "ch" \in DOMAIN g /\ g.ch \in Difficulties

Placed ==
  /\ difficulty \in Difficulties
  /\ game # None => IsGame(game)
  /\ DOMAIN cache = Difficulties
  /\ \A d \in Difficulties : cache[d] # None => IsGame(cache[d])
  /\ load # None => load.ch \in Difficulties
  /\ call # None => IsGame(call.of)
  /\ reveal # None => reveal.ch \in Difficulties

BoardInv == Placed /\ BoardHoldsACardOnce

(* What a request id was sent with, on the page shown, is what the board   *)
(* holds as long as the id is pending; ids and pages are counted up.       *)
SentInv ==
  /\ nextId \in Nat /\ shows \in Nat
  /\ pending # None => pending \in Nat /\ pending <= nextId
  /\ \A r \in sent : r.id \in Nat /\ r.id <= nextId /\ r.shows \in Nat /\ r.shows <= shows
  /\ pending # None => \A r \in sent : r.id = pending /\ r.shows = shows => r.order = board

-----------------------------------------------------------------------------
(* Lemmas about the arrangement *)

(* moveTimelineModel leaves every card in one slot at most, wherever it    *)
(* moves what, and however long the board gets.                            *)
LEMMA MovedOnce ==
  ASSUME NEW b, NEW anchors, NEW c, NEW target, NoCardTwice(b)
  PROVE  NoCardTwice(Moved(b, anchors, c, target))
<1> DEFINE source == Position(b, c)
           longer == [p \in DOMAIN b \cup 1..target |->
                        IF p = target THEN c
                        ELSE IF p = source THEN At(b, target) ELSE At(b, p)]
<1>1. CASE source \in anchors \/ target \in anchors \/ source = target
  BY <1>1 DEF Moved
<1>2. ASSUME ~(source \in anchors \/ target \in anchors \/ source = target), target = Tray
      PROVE  NoCardTwice(Moved(b, anchors, c, target))
  <2>1. Moved(b, anchors, c, target) = [b EXCEPT ![source] = None]
    BY <1>2 DEF Moved
  <2> QED BY <2>1 DEF NoCardTwice
<1>3. ASSUME ~(source \in anchors \/ target \in anchors \/ source = target), target # Tray
      PROVE  NoCardTwice(Moved(b, anchors, c, target))
  <2>1. Moved(b, anchors, c, target) = longer
    BY <1>3 DEF Moved
  <2>2. \A p \in DOMAIN b : b[p] = c => source \in DOMAIN b /\ b[source] = c
    BY DEF Position
  <2>3. \A p : At(b, p) # None => p \in DOMAIN b /\ At(b, p) = b[p]
    BY DEF At
  <2> HIDE DEF source
  <2>4. ASSUME NEW p \in DOMAIN longer, NEW q \in DOMAIN longer,
               longer[p] = longer[q], longer[p] # None, p # q
        PROVE  FALSE
    <3>1. ASSUME NEW x \in DOMAIN longer, x # target, longer[x] = c, c # None
          PROVE  FALSE
      <4>1. CASE x = source
        BY <4>1, <3>1, <2>2, <2>3, <1>3 DEF NoCardTwice
      <4>2. CASE x # source
        BY <4>2, <3>1, <2>2, <2>3 DEF NoCardTwice
      <4> QED BY <4>1, <4>2
    <3>2. p # target /\ q # target
      BY <2>4, <3>1
    <3>3. CASE p = source
      BY <3>3, <3>2, <2>4, <2>3 DEF NoCardTwice
    <3>4. CASE q = source
      BY <3>4, <3>2, <2>4, <2>3 DEF NoCardTwice
    <3>5. CASE p # source /\ q # source
      BY <3>5, <3>2, <2>4, <2>3 DEF NoCardTwice
    <3> QED BY <3>3, <3>4, <3>5
  <2> QED BY <2>1, <2>4 DEF NoCardTwice
<1> QED BY <1>1, <1>2, <1>3

(* The empty board of a challenge has its anchors, each in its place. *)
LEMMA InitialOnce ==
  ASSUME TimelineScreenAssumption, NEW d \in Difficulties
  PROVE  NoCardTwice(Initial(d))
BY DEF TimelineScreenAssumption, Initial, NoCardTwice

LEMMA RestoredOnce ==
  ASSUME NEW g, NEW b, Restore(g, b) # None
  PROVE  NoCardTwice(b) /\ Restore(g, b) = b
BY DEF Restore

LEMMA ShowOnce ==
  ASSUME TimelineScreenAssumption, NEW g, g.ch \in Difficulties, Show(g)
  PROVE  NoCardTwice(board')
<1> DEFINE copy == saved[g.ch]
           order == IF g.last = None THEN None ELSE Restore(g, g.last.order)
<1>1. CASE UseSaved(g, copy)
  BY <1>1, RestoredOnce DEF Show, UseSaved
<1>2. CASE ~UseSaved(g, copy) /\ order # None
  BY <1>2, RestoredOnce DEF Show
<1>3. CASE ~UseSaved(g, copy) /\ order = None
  BY <1>3, InitialOnce DEF Show
<1> QED BY <1>1, <1>2, <1>3

LEMMA MoveOnce ==
  ASSUME NoCardTwice(board), NEW c, NEW target, MoveModel(c, target)
  PROVE  NoCardTwice(board')
BY MovedOnce DEF MoveModel

LEMMA AllowedIsOne ==
  ASSUME TimelineScreenAssumption, NEW d \in Difficulties, NEW known
  PROVE  Allowed(d, known) \in Difficulties
BY DEF TimelineScreenAssumption, Allowed

(* Every move of the board is by MoveModel, and leaves the calls and the   *)
(* game alone.                                                             *)
LEMMA MovingMoves ==
  ASSUME Moving
  PROVE  /\ UNCHANGED <<difficulty, game, cache, load, call, reveal, shows, nextId, sent>>
         /\ \/ UNCHANGED <<board, pending>>
            \/ \E c, target : MoveModel(c, target)
<1>1. CASE \E c \in AllCards : Tap(c)
  BY <1>1 DEF Tap, Hand, calls
<1>2. CASE \E c \in AllCards : Grab(c)
  BY <1>2 DEF Grab, shown, calls
<1>3. CASE \E c \in AllCards : Key(c, -1) \/ Key(c, 1)
  BY <1>3 DEF Key, Hand, calls
<1>4. CASE \E p \in AllSlots \cup {Tray} : TapEmpty(p)
  BY <1>4 DEF TapEmpty, Hand, calls
<1>5. CASE \E p \in AllSlots \cup {Tray} : DropText(p)
  BY <1>5 DEF DropText, Hand, calls
<1>6. ASSUME NEW p, Release(p)
      PROVE  /\ UNCHANGED <<difficulty, game, cache, load, call, reveal, shows, nextId, sent>>
             /\ \/ UNCHANGED <<board, pending>>
                \/ \E c, target : MoveModel(c, target)
  BY <1>6 DEF Release, Hand, calls
<1> QED BY <1>1, <1>2, <1>3, <1>4, <1>5, <1>6 DEF Moving

-----------------------------------------------------------------------------
(* BoardHoldsACardOnce *)

LEMMA BoardInit == ASSUME TimelineScreenAssumption PROVE Init => BoardInv
<1> SUFFICES ASSUME Init PROVE BoardInv
  OBVIOUS
<1>1. difficulty \in Difficulties
  BY AllowedIsOne DEF Init
<1>2. NoCardTwice(board)
  BY DEF Init, NoCardTwice
<1> QED BY <1>1, <1>2 DEF Init, BoardInv, Placed, BoardHoldsACardOnce

(* A load, and a page opened again: the board is that of Show, or empty.   *)
LEMMA LoadEffectBoard ==
  ASSUME TimelineScreenAssumption, BoardInv,
         NEW wanted \in Difficulties, NEW known,
         NEW kept, DOMAIN kept = Difficulties,
         \A d \in Difficulties : kept[d] # None => IsGame(kept[d]),
         LoadEffect(wanted, known, kept)
  PROVE  BoardInv'
<1> DEFINE d == Allowed(wanted, known)
<1>1. d \in Difficulties
  BY AllowedIsOne
<1>2. difficulty' \in Difficulties /\ UNCHANGED <<call, reveal>> /\ cache' = kept
  BY <1>1 DEF LoadEffect
<1>3. CASE kept[d] # None
  <2>1. Show(kept[d]) /\ load' = None
    BY <1>3 DEF LoadEffect
  <2>2. IsGame(kept[d])
    BY <1>1, <1>3
  <2>3. NoCardTwice(board')
    BY <2>1, <2>2, ShowOnce DEF IsGame
  <2>4. game' = kept[d]
    BY <2>1 DEF Show
  <2> QED BY <1>2, <2>1, <2>2, <2>3, <2>4 DEF BoardInv, Placed, BoardHoldsACardOnce
<1>4. CASE kept[d] = None
  <2>1. load' = [ch |-> d, then |-> server[d]] /\ UNCHANGED <<board, game>>
    BY <1>4 DEF LoadEffect, shown
  <2> QED BY <1>1, <1>2, <2>1 DEF BoardInv, Placed, BoardHoldsACardOnce
<1> QED BY <1>3, <1>4

LEMMA LoadingBoard ==
  ASSUME TimelineScreenAssumption, BoardInv, Loading
  PROVE  BoardInv'
<1>1. ASSUME NEW d \in Difficulties, SelectDifficulty(d)
      PROVE  BoardInv'
  BY <1>1, LoadEffectBoard DEF SelectDifficulty, BoardInv, Placed
<1>2. CASE AccountChanged
  BY <1>2, LoadEffectBoard DEF AccountChanged, BoardInv, Placed
<1>3. CASE LoadAgain
  <2> DEFINE kept == [cache EXCEPT ![difficulty] = None]
  <2>1. DOMAIN kept = Difficulties /\ \A d \in Difficulties : kept[d] # None => IsGame(kept[d])
    BY DEF BoardInv, Placed
  <2>2. LoadEffect(difficulty, account, kept)
    BY <1>3 DEF LoadAgain
  <2> HIDE DEF kept
  <2> QED BY <2>1, <2>2, LoadEffectBoard DEF BoardInv, Placed
<1>4. CASE LoadAnswer
  <2>1. load.ch \in Difficulties /\ load # None
    BY <1>4 DEF LoadAnswer, BoardInv, Placed
  <2>2. PICK s : /\ Show(Payload(load.ch, s))
                 /\ cache' = [cache EXCEPT ![difficulty] = Payload(load.ch, s)]
    BY <1>4 DEF LoadAnswer
  <2>3. IsGame(Payload(load.ch, s)) /\ Payload(load.ch, s).ch = load.ch
    BY <2>1 DEF IsGame, Payload
  <2>4. NoCardTwice(board')
    BY <2>1, <2>2, <2>3, ShowOnce
  <2>5. game' = Payload(load.ch, s)
    BY <2>2 DEF Show
  <2>6. load' = None /\ UNCHANGED <<difficulty, call, reveal>>
    BY <1>4 DEF LoadAnswer
  <2> QED BY <2>2, <2>3, <2>4, <2>5, <2>6 DEF BoardInv, Placed, BoardHoldsACardOnce
<1>5. CASE LoadFails
  BY <1>5 DEF LoadFails, shown, BoardInv, Placed, BoardHoldsACardOnce
<1>6. CASE Reopen
  <2>1. PICK d \in Difficulties : difficulty' = Allowed(d, account)
    BY <1>6 DEF Reopen
  <2>2. difficulty' \in Difficulties
    BY <2>1, AllowedIsOne
  <2>3. NoCardTwice(board')
    BY <1>6 DEF Reopen, NoCardTwice
  <2> QED BY <1>6, <2>2, <2>3 DEF Reopen, BoardInv, Placed, BoardHoldsACardOnce
<1> QED BY <1>1, <1>2, <1>3, <1>4, <1>5, <1>6 DEF Loading

LEMMA MovingBoard ==
  ASSUME BoardInv, Moving
  PROVE  BoardInv'
<1>1. NoCardTwice(board')
  BY MovingMoves, MoveOnce DEF BoardInv, BoardHoldsACardOnce
<1> QED BY <1>1, MovingMoves DEF BoardInv, Placed, BoardHoldsACardOnce

(* The answers that put a game on the page put one of a difficulty there is. *)
LEMMA CallingBoard ==
  ASSUME BoardInv, Calling
  PROVE  BoardInv'
<1>1. UNCHANGED board
  <2>1. CASE Submit \/ StartRun \/ GiveUp
    BY <2>1 DEF Submit, StartRun, GiveUp, shown
  <2>2. CASE CallFails \/ CooldownEnds \/ RevealFails \/ StartFails
    BY <2>2 DEF CallFails, CooldownEnds, RevealFails, StartFails, shown
  <2>3. CASE SubmitAnswer \/ RevealAnswer \/ StartAnswer \/ GiveUpAnswer
    BY <2>3 DEF SubmitAnswer, RevealAnswer, StartAnswer, GiveUpAnswer
  <2> QED BY <2>1, <2>2, <2>3 DEF Calling
<1>2. SUFFICES Placed'
  BY <1>1 DEF BoardInv, BoardHoldsACardOnce
<1>3. CASE Submit \/ GiveUp
  <2>1. game # None /\ call'.of = game
    <3>1. CASE Submit
      <4>1. PICK answer, id : call' =
              [kind |-> "submit", of |-> game, order |-> board, diff |-> difficulty,
               num |-> accepted, shows |-> shows, answer |-> answer]
        BY <3>1 DEF Submit
      <4> QED BY <3>1, <4>1 DEF Submit, CanSubmit
    <3>2. CASE GiveUp
      <4>1. PICK answer : call' =
              [kind |-> "give up", of |-> game, order |-> board, diff |-> difficulty,
               shows |-> shows, answer |-> answer]
        BY <3>2 DEF GiveUp
      <4> QED BY <3>2, <4>1 DEF GiveUp
    <3> QED BY <1>3, <3>1, <3>2
  <2>2. UNCHANGED <<difficulty, game, cache, load, reveal>>
    BY <1>3 DEF Submit, GiveUp, shown
  <2> QED BY <2>1, <2>2 DEF BoardInv, Placed
<1>4. CASE SubmitAnswer
  <2> DEFINE kept == [call.of EXCEPT !.solved = Won(call.answer.marks), !.remaining = call.answer.left,
                        !.last = [order |-> call.order, marks |-> call.answer.marks,
                                  num |-> call.num + 1]]
  <2>1. IsGame(call.of)
    BY <1>4 DEF SubmitAnswer, BoardInv, Placed
  <2>2. IsGame(kept)
    BY <2>1 DEF IsGame
  <2>3. cache' = [cache EXCEPT ![call.diff] = kept]
    BY <1>4 DEF SubmitAnswer
  <2>4. reveal' # None => reveal'.ch \in Difficulties
    BY <1>4, <2>1 DEF SubmitAnswer, BoardInv, Placed, IsGame
  <2> HIDE DEF kept
  <2> QED BY <1>4, <2>1, <2>2, <2>3, <2>4 DEF SubmitAnswer, BoardInv, Placed
<1>5. CASE CallFails \/ CooldownEnds \/ RevealFails \/ StartRun \/ StartFails
  BY <1>5 DEF CallFails, CooldownEnds, RevealFails, StartRun, StartFails, shown, calls,
              BoardInv, Placed
<1>6. CASE RevealAnswer
  <2> DEFINE g == Payload(reveal.ch, server[reveal.ch])
  <2>1. IsGame(g)
    BY <1>6 DEF RevealAnswer, BoardInv, Placed, IsGame, Payload
  <2>2. cache' = [cache EXCEPT ![reveal.diff] = g] /\ game' = g
    BY <1>6 DEF RevealAnswer
  <2> HIDE DEF g
  <2> QED BY <1>6, <2>1, <2>2 DEF RevealAnswer, BoardInv, Placed
<1>7. CASE StartAnswer
  <2>1. ASSUME NEW g, IsGame(g)
        PROVE  IsGame([g EXCEPT !.cards = Movable["speedrun"], !.started = TRUE])
    BY <2>1 DEF IsGame
  <2>2. game' # None => IsGame(game')
    BY <1>7, <2>1 DEF StartAnswer, BoardInv, Placed
  <2> DEFINE g == [cache["speedrun"] EXCEPT !.cards = Movable["speedrun"], !.started = TRUE]
  <2>3. \/ cache' = cache
        \/ cache["speedrun"] # None /\ cache' = [cache EXCEPT !["speedrun"] = g]
    BY <1>7 DEF StartAnswer
  <2>4. CASE cache' = cache
    BY <1>7, <2>2, <2>4 DEF StartAnswer, BoardInv, Placed
  <2>5. CASE cache["speedrun"] # None /\ cache' = [cache EXCEPT !["speedrun"] = g]
    <3>1. "speedrun" \in Difficulties => IsGame(g)
      BY <2>1, <2>5 DEF BoardInv, Placed
    <3> HIDE DEF g
    <3>2. \A d \in Difficulties : cache'[d] = IF d = "speedrun" THEN g ELSE cache[d]
      BY <2>5 DEF BoardInv, Placed
    <3>3. DOMAIN cache' = Difficulties /\ \A d \in Difficulties : cache'[d] # None => IsGame(cache'[d])
      BY <2>5, <3>1, <3>2 DEF BoardInv, Placed
    <3> QED BY <1>7, <2>2, <3>3 DEF StartAnswer, BoardInv, Placed
  <2> QED BY <2>3, <2>4, <2>5
<1>8. CASE GiveUpAnswer
  <2> DEFINE unfinished == [call.of EXCEPT !.gaveUp = TRUE]
  <2>1. IsGame(unfinished)
    BY <1>8 DEF GiveUpAnswer, BoardInv, Placed, IsGame
  <2>2. game' = unfinished /\ cache' = [cache EXCEPT ![call.diff] = unfinished]
    BY <1>8 DEF GiveUpAnswer
  <2> HIDE DEF unfinished
  <2> QED BY <1>8, <2>1, <2>2 DEF GiveUpAnswer, BoardInv, Placed
<1> QED BY <1>3, <1>4, <1>5, <1>6, <1>7, <1>8 DEF Calling

(* Whatever is dragged, typed or dropped, and whichever game, saved copy   *)
(* or late answer is put on the page, a card is in one slot at most.       *)
THEOREM BoardHoldsACardOnceAlways ==
  ASSUME TimelineScreenAssumption
  PROVE  Spec => []BoardHoldsACardOnce
<1>1. Init => BoardInv
  BY BoardInit
<1>2. ASSUME BoardInv, [Next]_vars PROVE BoardInv'
  <2>1. CASE Loading
    BY <1>2, <2>1, LoadingBoard
  <2>2. CASE Moving
    BY <1>2, <2>2, MovingBoard
  <2>3. CASE Calling
    BY <1>2, <2>3, CallingBoard
  <2>4. CASE UNCHANGED vars
    BY <1>2, <2>4 DEF vars, shown, calls, play, BoardInv, Placed, BoardHoldsACardOnce
  <2> QED BY <1>2, <2>1, <2>2, <2>3, <2>4 DEF Next
<1>3. BoardInv => BoardHoldsACardOnce
  BY DEF BoardInv
<1> QED BY <1>1, <1>2, <1>3, PTL DEF Spec

-----------------------------------------------------------------------------
(* RetryKeepsOrder *)

LEMMA SentInit == Init => SentInv
BY DEF Init, SentInv

(* A page that shows another game is a new page: nothing was sent from it. *)
LEMMA ShownSent ==
  ASSUME SentInv, shows' = shows + 1, UNCHANGED <<nextId, sent>>,
         pending' = pending \/ pending' = None
  PROVE  SentInv'
BY DEF SentInv

LEMMA SameSent ==
  ASSUME SentInv, UNCHANGED <<shows, nextId, sent>>,
         pending' = None \/ UNCHANGED <<board, pending>>
  PROVE  SentInv'
BY DEF SentInv

LEMMA LoadEffectSent ==
  ASSUME SentInv, NEW wanted, NEW known, NEW kept, LoadEffect(wanted, known, kept)
  PROVE  SentInv'
<1>1. UNCHANGED <<pending, nextId, sent>>
  BY DEF LoadEffect, play
<1>2. shows' = shows + 1 \/ UNCHANGED <<board, shows>>
  BY DEF LoadEffect, Show, shown
<1> QED BY <1>1, <1>2, ShownSent, SameSent

LEMMA LoadingSent ==
  ASSUME SentInv, Loading
  PROVE  SentInv'
<1>1. CASE \E d \in Difficulties : SelectDifficulty(d)
  BY <1>1, LoadEffectSent DEF SelectDifficulty
<1>2. CASE AccountChanged \/ LoadAgain
  BY <1>2, LoadEffectSent DEF AccountChanged, LoadAgain
<1>3. CASE LoadAnswer
  BY <1>3, ShownSent DEF LoadAnswer, Show, play
<1>4. CASE LoadFails
  BY <1>4, SameSent DEF LoadFails, shown, play
<1>5. CASE Reopen
  BY <1>5, SameSent DEF Reopen
<1> QED BY <1>1, <1>2, <1>3, <1>4, <1>5 DEF Loading

(* moveModel forgets the id of a failed submission with every card it      *)
(* moves.                                                                  *)
LEMMA MovingSent ==
  ASSUME SentInv, Moving
  PROVE  SentInv'
<1>1. pending' = None \/ UNCHANGED <<board, pending>>
  BY MovingMoves DEF MoveModel
<1> QED BY <1>1, MovingMoves, SameSent

LEMMA CallingSent ==
  ASSUME SentInv, RetryKeepsOrder, Calling
  PROVE  SentInv' /\ RetryKeepsOrder'
<1>1. CASE Submit
  <2> DEFINE id == IF pending = None THEN nextId + 1 ELSE pending
             this == [id |-> id, ch |-> game.ch, order |-> board, shows |-> shows]
  <2>1. /\ pending' = id /\ nextId' = IF pending = None THEN id ELSE nextId
        /\ sent' = sent \cup {this}
    BY <1>1 DEF Submit
  <2>2. UNCHANGED <<board, shows>>
    BY <1>1 DEF Submit, shown
  <2>3. id \in Nat /\ id <= nextId' /\ nextId' \in Nat /\ nextId <= nextId'
    BY <2>1 DEF SentInv
  <2>4. \A r \in sent : r.id = id /\ r.shows = shows => r.order = board
    BY DEF SentInv
  <2>5. this.id = id /\ this.order = board /\ this.shows = shows
    OBVIOUS
  <2> HIDE DEF id, this
  <2>6. SentInv'
    BY <2>1, <2>2, <2>3, <2>4, <2>5 DEF SentInv
  <2>7. RetryKeepsOrder'
    BY <2>1, <2>4, <2>5 DEF RetryKeepsOrder
  <2> QED BY <2>6, <2>7
<1>2. ASSUME ~Submit PROVE UNCHANGED <<shows, nextId, sent>> /\ (pending' = None \/ UNCHANGED <<board, pending>>)
  <2>1. CASE SubmitAnswer \/ RevealAnswer \/ StartAnswer \/ GiveUpAnswer
    BY <2>1 DEF SubmitAnswer, RevealAnswer, StartAnswer, GiveUpAnswer, play
  <2>2. CASE CallFails \/ CooldownEnds \/ RevealFails \/ StartFails
    BY <2>2 DEF CallFails, CooldownEnds, RevealFails, StartFails, shown, play
  <2>3. CASE StartRun \/ GiveUp
    BY <2>3 DEF StartRun, GiveUp, shown, play
  <2> QED BY <1>2, <2>1, <2>2, <2>3 DEF Calling
<1>3. ASSUME ~Submit PROVE SentInv' /\ RetryKeepsOrder'
  BY <1>2, <1>3, SameSent DEF RetryKeepsOrder
<1> QED BY <1>1, <1>3

(* A submission that failed and is sent again, from the game shown, with   *)
(* the id it had, is the order it was first sent with.                     *)
THEOREM RetryKeepsOrderAlways == Spec => []RetryKeepsOrder
<1> DEFINE Inv == SentInv /\ RetryKeepsOrder
<1>1. Init => Inv
  BY SentInit DEF Init, RetryKeepsOrder
<1>2. ASSUME Inv, [Next]_vars PROVE Inv'
  <2>1. CASE Loading
    <3>1. UNCHANGED sent
      BY <2>1 DEF Loading, SelectDifficulty, AccountChanged, LoadAgain, LoadEffect, LoadAnswer,
                  LoadFails, Reopen
    <3> QED BY <1>2, <2>1, <3>1, LoadingSent DEF RetryKeepsOrder
  <2>2. CASE Moving
    BY <1>2, <2>2, MovingSent, MovingMoves DEF RetryKeepsOrder
  <2>3. CASE Calling
    BY <1>2, <2>3, CallingSent
  <2>4. CASE UNCHANGED vars
    BY <1>2, <2>4, SameSent DEF vars, shown, play, RetryKeepsOrder
  <2> QED BY <1>2, <2>1, <2>2, <2>3, <2>4 DEF Next
<1>3. Inv => RetryKeepsOrder
  OBVIOUS
<1> HIDE DEF Inv
<1> QED BY <1>1, <1>2, <1>3, PTL DEF Spec
-----------------------------------------------------------------------------
(* ShownResultIsServers and ReopenKeepsBoard: as long as no answer is      *)
(* applied to another page, game, copies, calls and server agree.          *)

(* The challenges the server has solved. *)
Done == {d \in Difficulties : server[d].solved}

(* A board with marks and, of a solved one, what it is solved with; D are  *)
(* the challenges that are solved.                                         *)
Shows(D, d, b, m, s) ==
  /\ d \in Difficulties /\ b \in Boards(d) /\ AnchorsHold(d, b)
  /\ m \in Markings(d) \cup {None} /\ s \in BOOLEAN
  /\ m # None => \A p \in Slots(d) : m[p] = "right" => b[p] = Solution[d][p]
  /\ s => d \in D /\ b = Solution[d] /\ m = Marking(d, b)

(* A payload, and what the server stores, with a last submission that      *)
(* Restore takes.                                                          *)
Known(D, g) ==
  /\ g \in Payloads /\ g.cards \subseteq Movable[g.ch]
  /\ g.last # None => /\ g.last \in Lasts(g.ch) /\ Restore(g, g.last.order) = g.last.order
                      /\ g.last.marks = Marking(g.ch, g.last.order)
  /\ g.solved => g.ch \in D /\ g.last # None /\ g.last.order = Solution[g.ch]

Sound(d, s) ==
  /\ {"num", "last", "solved", "started", "gaveUp", "ids"} \subseteq DOMAIN s
  /\ s.num \in Nat /\ s.solved \in BOOLEAN /\ s.started \in BOOLEAN /\ s.gaveUp \in BOOLEAN
  /\ s.last # None => /\ s.last \in Lasts(d) /\ ValidOrder(d, s.last.order)
                      /\ s.last.marks = Marking(d, s.last.order) /\ s.last.num = s.num
                      /\ d = "speedrun" => s.started
  /\ s.solved => s.last # None /\ s.last.order = Solution[d]
  /\ \A r \in s.ids : r.order = Solution[d] => s.solved

ServerInv == DOMAIN server = Difficulties /\ \A d \in Difficulties : Sound(d, server[d])

HandsInv == selected \in AllCards \cup {None} /\ drag \in AllCards \cup {None}

(* What is shown is stored. *)
PageInv ==
  /\ accepted \in Nat
  /\ game # None => /\ Known(Done, game) /\ Shows(Done, game.ch, board, marks, solved)
                    /\ saved[game.ch] = [board |-> board, marks |-> marks,
                                         accepted |-> accepted, solved |-> solved]

SavedInv ==
  /\ DOMAIN saved = Difficulties
  /\ \A d \in Difficulties : saved[d] # None =>
       saved[d] \in Copies(d) /\ Shows(Done, d, saved[d].board, saved[d].marks, saved[d].solved)

CacheInv ==
  /\ DOMAIN cache = Difficulties
  /\ \A d \in Difficulties : cache[d] # None => Known(Done, cache[d]) /\ cache[d].ch = d

LoadInv ==
  /\ difficulty \in Difficulties
  /\ load # None => /\ load.ch = difficulty /\ Sound(load.ch, load.then)
                    /\ load.then.solved => load.ch \in Done

(* An answer to the page that asked is about its game. *)
OfPage(d, n) == n \in Nat /\ n <= shows /\ (n = shows => game # None /\ game.ch = d)

SubmitInv(c) ==
  /\ c.num \in Nat /\ c.order \in Boards(c.of.ch) /\ Restore(c.of, c.order) = c.order
  /\ c.answer.ok =>
       /\ c.answer.marks = Marking(c.of.ch, c.order) /\ c.answer.left \in Nat \cup {None}
       /\ c.order = Solution[c.of.ch] => c.of.ch \in Done

CallInv ==
  call # None =>
    /\ Known(Done, call.of) /\ OfPage(call.of.ch, call.shows)
    /\ call.kind = "submit" => SubmitInv(call)
    /\ (call.kind # "submit" /\ call.answer.ok) => call.diff = call.of.ch

RevealInv ==
  reveal # None => /\ reveal.ch \in Difficulties /\ reveal.diff = reveal.ch
                   /\ OfPage(reveal.ch, reveal.shows)

StartInv ==
  (start.asked # None /\ start.asked.ok) =>
    "speedrun" \in Difficulties /\ OfPage("speedrun", start.asked.shows)

Calls == shows \in Nat /\ CallInv /\ RevealInv /\ StartInv

Recorded ==
  /\ ServerInv /\ HandsInv /\ PageInv /\ SavedInv /\ CacheInv /\ LoadInv /\ Calls

RecordedInv == ~overtaken => Recorded

LEMMA KnownGrows ==
  ASSUME NEW D, NEW E, D \subseteq E, NEW g, Known(D, g)
  PROVE  Known(E, g)
BY DEF Known

LEMMA ShowsGrows ==
  ASSUME NEW D, NEW E, D \subseteq E, NEW d, NEW b, NEW m, NEW s, Shows(D, d, b, m, s)
  PROVE  Shows(E, d, b, m, s)
BY DEF Shows

LEMMA NoneIsNoBoard ==
  ASSUME TimelineScreenAssumption, NEW d \in Difficulties
  PROVE  None \notin Boards(d) /\ None \notin Copies(d) /\ None \notin Lasts(d)
BY DEF TimelineScreenAssumption

(* A board of an arrangement's cards comes back as it is. *)
LEMMA RestoreFits ==
  ASSUME TimelineScreenAssumption, NEW g, g.ch \in Difficulties, NEW b \in Boards(g.ch)
  PROVE  Restore(g, b) = b <=>
           /\ DOMAIN b = Slots(g.ch) /\ NoCardTwice(b) /\ AnchorsHold(g.ch, b)
           /\ {b[p] : p \in DOMAIN b} \subseteq Expected(g) \cup {None}
BY NoneIsNoBoard DEF Restore

LEMMA LeftIs ==
  ASSUME TimelineScreenAssumption, NEW d \in Difficulties, NEW num \in Nat
  PROVE  Left(d, num) \in Nat \cup {None}
BY DEF TimelineScreenAssumption, Left

(* What the server sends of a sound row is known. *)
LEMMA PayloadKnown ==
  ASSUME TimelineScreenAssumption, NEW D, NEW d \in Difficulties, NEW s, Sound(d, s),
         s.solved => d \in D
  PROVE  Known(D, Payload(d, s)) /\ Payload(d, s).ch = d
<1> DEFINE g == Payload(d, s)
<1>1. /\ g.ch = d /\ g.solved = s.solved /\ g.last = s.last
      /\ g.cards = IF d = "speedrun" /\ ~s.started /\ ~s.solved THEN {} ELSE Movable[d]
  BY DEF Payload
<1>2. g.cards \subseteq Movable[d] /\ Movable[d] \subseteq AllCards
  BY <1>1 DEF AllCards, Cards
<1>3. g \in Payloads
  <2>1. Left(d, s.num) \in Nat \cup {None}
    BY LeftIs DEF Sound
  <2>2. s.last \in AllLasts \cup {None}
    <3>1. s.last = None \/ s.last \in Lasts(d)
      BY DEF Sound
    <3> QED BY <3>1 DEF AllLasts
  <2> QED BY <1>2, <2>1, <2>2 DEF Payload, Payloads, Sound
<1> HIDE DEF g
<1>4. ASSUME s.last # None PROVE Restore(g, s.last.order) = s.last.order
  <2>1. s.last.order \in Boards(d) /\ ValidOrder(d, s.last.order)
    BY <1>4 DEF Sound, Lasts
  <2>2. Expected(g) = Cards(d)
    BY <1>1, <1>4 DEF Sound, Expected, Cards
  <2> QED BY <1>1, <2>1, <2>2, RestoreFits DEF ValidOrder, Complete
<1>5. Known(D, g)
  BY <1>1, <1>2, <1>3, <1>4 DEF Known, Sound
<1> QED BY <1>1, <1>5 DEF g

(* A payload with another result. *)
LEMMA KnownIs ==
  ASSUME TimelineScreenAssumption, NEW D, NEW g, Known(D, g)
  PROVE  g # None /\ g.ch \in Difficulties /\ g.solved \in BOOLEAN
BY DEF Known, Payloads, TimelineScreenAssumption

(* The server marks right what is right, all of it when it is solved. *)
LEMMA MarkingIs ==
  ASSUME TimelineScreenAssumption, NEW d \in Difficulties, NEW b \in Boards(d)
  PROVE  /\ Marking(d, b) \in Markings(d)
         /\ \A p \in Slots(d) : Marking(d, b)[p] = "right" => b[p] = Solution[d][p]
         /\ Won(Marking(d, b)) <=> b = Solution[d]
<1>1. Solution[d] \in Boards(d)
  BY DEF TimelineScreenAssumption
<1>2. b = Solution[d] <=> \A p \in Slots(d) : b[p] = Solution[d][p]
  BY <1>1 DEF Boards
<1> QED BY <1>2 DEF Marking, Markings, Won

(* hydrateGame takes a board that fits, with the marks it was given. *)
LEMMA ShowRecorded ==
  ASSUME TimelineScreenAssumption, NEW g, Known(Done, g), SavedInv, shows \in Nat, Show(g)
  PROVE  /\ game' = g /\ shows' = shows + 1 /\ selected' = None /\ accepted' \in Nat
         /\ Shows(Done, g.ch, board', marks', solved')
<1> DEFINE d == g.ch
           copy == saved[d]
           use == UseSaved(g, copy)
           order == IF g.last = None THEN None ELSE Restore(g, g.last.order)
<1>1. /\ game' = g /\ shows' = shows + 1 /\ selected' = None
      /\ board' = IF use THEN copy.board ELSE IF order # None THEN order ELSE Initial(d)
      /\ marks' = IF use THEN copy.marks ELSE IF g.last = None THEN None ELSE g.last.marks
      /\ accepted' = Larger(IF copy = None THEN 0 ELSE copy.accepted,
                            IF g.last = None THEN 0 ELSE g.last.num)
      /\ solved' = (g.solved \/ (use /\ copy.solved))
  BY DEF Show
<1>2. d \in Difficulties /\ g.solved \in BOOLEAN
  BY KnownIs
<1>3. copy # None => copy \in Copies(d) /\ Shows(Done, d, copy.board, copy.marks, copy.solved)
  BY <1>2 DEF SavedInv
<1>4. accepted' \in Nat
  BY <1>1, <1>3 DEF Copies, Lasts, Known, Larger
<1>5. CASE use
  <2>1. ~g.solved /\ copy # None
    BY <1>5 DEF UseSaved
  <2>2. copy.solved \in BOOLEAN
    BY <1>3, <2>1 DEF Copies
  <2> QED BY <1>1, <1>3, <1>4, <1>5, <2>1, <2>2
<1>6. CASE ~use /\ g.last = None
  <2>1. Initial(d) \in Boards(d) /\ AnchorsHold(d, Initial(d))
    <3>1. Anchors(d) \subseteq Slots(d)
      BY <1>2 DEF TimelineScreenAssumption
    <3>2. \A p \in Anchors(d) : Anchor[d][p] \in AllCards
      BY <1>2 DEF AllCards, Cards
    <3> HIDE DEF d
    <3> QED BY <3>1, <3>2 DEF Initial, Boards, AnchorsHold
  <2>2. ~g.solved
    BY <1>6 DEF Known
  <2>3. board' = Initial(d) /\ marks' = None /\ solved' = FALSE
    BY <1>1, <1>2, <1>6, <2>2
  <2> QED BY <1>1, <1>2, <1>4, <2>1, <2>3 DEF Shows
<1>7. CASE ~use /\ g.last # None
  <2>1. /\ g.last \in Lasts(d) /\ Restore(g, g.last.order) = g.last.order
        /\ g.last.marks = Marking(d, g.last.order)
    BY <1>7 DEF Known
  <2>2. g.last.order \in Boards(d) /\ g.last.order # None
    BY <1>2, <2>1, NoneIsNoBoard DEF Lasts
  <2>3. board' = g.last.order /\ marks' = Marking(d, board') /\ solved' = g.solved
    BY <1>1, <1>2, <1>7, <2>1, <2>2
  <2>4. AnchorsHold(d, g.last.order)
    BY <1>2, <2>1, <2>2, RestoreFits
  <2>5. g.solved => d \in Done /\ g.last.order = Solution[d]
    BY DEF Known
  <2> HIDE DEF d
  <2>6. Shows(Done, d, board', marks', solved')
    BY <1>2, <2>2, <2>3, <2>4, <2>5, MarkingIs DEF Shows
  <2> QED BY <1>1, <1>4, <2>6 DEF d
<1> QED BY <1>5, <1>6, <1>7

(* The saving effect stores what is shown; what it leaves stays. *)
LEMMA SaveRecorded ==
  ASSUME SavedInv, Done \subseteq Done', Save, accepted' \in Nat,
         game' # None => Known(Done', game') /\ Shows(Done', game'.ch, board', marks', solved')
  PROVE  PageInv' /\ SavedInv'
<1>1. \A d \in Difficulties : saved[d] # None =>
        saved[d] \in Copies(d) /\ Shows(Done', d, saved[d].board, saved[d].marks, saved[d].solved)
  BY ShowsGrows DEF SavedInv
<1>2. CASE game' = None
  BY <1>1, <1>2 DEF Save, SavedInv, PageInv
<1>3. CASE game' # None
  <2> DEFINE copy == [board |-> board', marks |-> marks', accepted |-> accepted',
                      solved |-> solved']
  <2>1. DOMAIN board' = Slots(game'.ch) /\ game'.ch \in Difficulties
    BY <1>3 DEF Shows, Boards
  <2>2. saved' = [saved EXCEPT ![game'.ch] = copy]
    BY <1>3, <2>1 DEF Save
  <2>3. copy \in Copies(game'.ch) /\ Shows(Done', game'.ch, copy.board, copy.marks, copy.solved)
    BY <1>3 DEF Copies, Shows
  <2> HIDE DEF copy
  <2>4. DOMAIN saved' = Difficulties /\ saved'[game'.ch] = copy
    BY <2>1, <2>2 DEF SavedInv
  <2>5. \A d \in Difficulties : d # game'.ch => saved'[d] = saved[d]
    BY <2>2 DEF SavedInv
  <2>6. SavedInv'
    BY <1>1, <2>3, <2>4, <2>5 DEF SavedInv
  <2> USE DEF copy
  <2>7. PageInv'
    BY <1>3, <2>4 DEF PageInv
  <2> QED BY <2>6, <2>7
<1> QED BY <1>2, <1>3

(* The calls of a page stay its calls while it is shown. *)
LEMMA PageOfGame ==
  ASSUME NEW d, NEW n, OfPage(d, n), UNCHANGED shows,
         game # None => game' # None /\ game'.ch = game.ch
  PROVE  OfPage(d, n)'
BY DEF OfPage

LEMMA CallStays ==
  ASSUME CallInv, Done \subseteq Done', UNCHANGED call,
         call # None => OfPage(call.of.ch, call.shows)'
  PROVE  CallInv'
BY KnownGrows DEF CallInv, SubmitInv

LEMMA CallsKept ==
  ASSUME Calls, Done \subseteq Done', UNCHANGED <<shows, call, reveal, start>>,
         game # None => game' # None /\ game'.ch = game.ch
  PROVE  Calls'
<1>1. CallInv'
  BY CallStays DEF Calls, CallInv, OfPage
<1>2. RevealInv' /\ StartInv'
  BY DEF Calls, RevealInv, StartInv, OfPage
<1> QED BY <1>1, <1>2 DEF Calls

LEMMA CacheKept ==
  ASSUME CacheInv, Done \subseteq Done', UNCHANGED cache
  PROVE  CacheInv'
BY KnownGrows DEF CacheInv

LEMMA LoadKept ==
  ASSUME LoadInv, Done \subseteq Done', UNCHANGED difficulty, UNCHANGED load \/ load' = None
  PROVE  LoadInv'
BY DEF LoadInv

LEMMA PageKept ==
  ASSUME PageInv, SavedInv, Done \subseteq Done',
         UNCHANGED <<game, board, marks, accepted, solved, saved>>
  PROVE  PageInv' /\ SavedInv'
BY KnownGrows, ShowsGrows DEF PageInv, SavedInv

(* A page that shows another game: calls of the page before are no longer  *)
(* of the page.                                                            *)
LEMMA CallsOfBefore ==
  ASSUME Calls, Done \subseteq Done', UNCHANGED <<call, reveal, start>>, shows' = shows + 1
  PROVE  Calls'
<1>1. CallInv'
  BY CallStays DEF Calls, CallInv, OfPage
<1>2. RevealInv' /\ StartInv'
  BY DEF Calls, RevealInv, StartInv, OfPage
<1> QED BY <1>1, <1>2 DEF Calls

LEMMA LoadEffectRecorded ==
  ASSUME TimelineScreenAssumption, Recorded, NEW wanted \in Difficulties, NEW known,
         NEW kept, DOMAIN kept = Difficulties,
         \A d \in Difficulties : kept[d] # None => Known(Done, kept[d]) /\ kept[d].ch = d,
         LoadEffect(wanted, known, kept)
  PROVE  Recorded'
<1> DEFINE d == Allowed(wanted, known)
<1>1. d \in Difficulties
  BY AllowedIsOne
<1>2. /\ difficulty' = d /\ cache' = kept /\ Save
      /\ UNCHANGED <<drag, call, start, reveal, server>>
  BY DEF LoadEffect, play
<1>3. Done' = Done /\ ServerInv'
  BY <1>2 DEF Done, Recorded, ServerInv
<1>4. CacheInv'
  BY <1>2, <1>3 DEF CacheInv
<1> HIDE DEF d
<1>5. CASE kept[d] # None
  <2>1. Show(kept[d]) /\ load' = None
    BY <1>5 DEF LoadEffect, d
  <2>2. Known(Done, kept[d])
    BY <1>1, <1>5
  <2>3. /\ game' = kept[d] /\ shows' = shows + 1 /\ selected' = None /\ accepted' \in Nat
        /\ Shows(Done, game'.ch, board', marks', solved')
    BY <2>1, <2>2, ShowRecorded DEF Recorded, Calls
  <2>4. PageInv' /\ SavedInv'
    BY <1>2, <1>3, <2>2, <2>3, SaveRecorded DEF Recorded
  <2>5. Calls' /\ LoadInv' /\ HandsInv'
    BY <1>1, <1>2, <1>3, <2>1, <2>3, CallsOfBefore DEF Recorded, LoadInv, HandsInv
  <2> QED BY <1>3, <1>4, <2>4, <2>5 DEF Recorded
<1>6. CASE kept[d] = None
  <2>1. load' = [ch |-> d, then |-> server[d]] /\ UNCHANGED <<shown, shows>>
    BY <1>6 DEF LoadEffect, d
  <2>2. UNCHANGED <<game, board, marks, accepted, solved, selected>>
    BY <2>1 DEF shown
  <2>3. PageInv' /\ SavedInv'
    BY <1>2, <1>3, <2>2, SaveRecorded DEF Recorded, PageInv
  <2>4. Calls' /\ HandsInv'
    BY <1>2, <1>3, <2>1, <2>2, CallsKept DEF Recorded, HandsInv
  <2>5. LoadInv'
    BY <1>1, <1>2, <1>3, <2>1 DEF Recorded, LoadInv, ServerInv, Done
  <2> QED BY <1>3, <1>4, <2>3, <2>4, <2>5 DEF Recorded
<1> QED BY <1>5, <1>6

LEMMA LoadAnswerRecorded ==
  ASSUME TimelineScreenAssumption, Recorded, LoadAnswer
  PROVE  Recorded'
<1>1. /\ load # None /\ load' = None /\ Save
      /\ UNCHANGED <<difficulty, drag, call, start, reveal, server>>
  BY DEF LoadAnswer, play
<1>2. PICK s \in {load.then, server[load.ch]} :
        /\ Show(Payload(load.ch, s))
        /\ cache' = [cache EXCEPT ![difficulty] = Payload(load.ch, s)]
  BY DEF LoadAnswer
<1>3. Done' = Done /\ ServerInv'
  BY <1>1 DEF Done, Recorded, ServerInv
<1>4. load.ch = difficulty /\ difficulty \in Difficulties
  BY <1>1 DEF Recorded, LoadInv
<1>5. Sound(load.ch, s) /\ (s.solved => load.ch \in Done)
  BY <1>1, <1>4 DEF Recorded, LoadInv, ServerInv, Done
<1> DEFINE g == Payload(load.ch, s)
<1>6. Known(Done, g) /\ g.ch = difficulty
  BY <1>4, <1>5, PayloadKnown, ZenonT(60)
<1> HIDE DEF g
<1>7. Show(g) /\ cache' = [cache EXCEPT ![difficulty] = g]
  BY <1>2 DEF g
<1>8. /\ game' = g /\ shows' = shows + 1 /\ selected' = None /\ accepted' \in Nat
      /\ Shows(Done, game'.ch, board', marks', solved')
  BY <1>6, <1>7, ShowRecorded DEF Recorded, Calls
<1>9. PageInv' /\ SavedInv'
  BY <1>1, <1>3, <1>6, <1>8, SaveRecorded DEF Recorded
<1>10. Calls' /\ LoadInv' /\ HandsInv'
  BY <1>1, <1>3, <1>8, CallsOfBefore, LoadKept DEF Recorded, HandsInv
<1>11. CacheInv'
  BY <1>3, <1>6, <1>7 DEF Recorded, CacheInv
<1> QED BY <1>3, <1>9, <1>10, <1>11 DEF Recorded

LEMMA LoadingRecorded ==
  ASSUME TimelineScreenAssumption, Recorded, Loading
  PROVE  Recorded'
<1>1. DOMAIN cache = Difficulties /\ difficulty \in Difficulties
      /\ \A d \in Difficulties : cache[d] # None => Known(Done, cache[d]) /\ cache[d].ch = d
  BY DEF Recorded, CacheInv, LoadInv
<1>2. CASE \E d \in Difficulties : SelectDifficulty(d)
  BY <1>1, <1>2, LoadEffectRecorded DEF SelectDifficulty
<1>3. CASE AccountChanged
  BY <1>1, <1>3, LoadEffectRecorded DEF AccountChanged
<1>4. CASE LoadAgain
  <2> DEFINE kept == [cache EXCEPT ![difficulty] = None]
  <2>1. DOMAIN kept = Difficulties
        /\ \A d \in Difficulties : kept[d] # None => Known(Done, kept[d]) /\ kept[d].ch = d
    BY <1>1
  <2>2. LoadEffect(difficulty, account, kept)
    BY <1>4 DEF LoadAgain
  <2> HIDE DEF kept
  <2> QED BY <1>1, <2>1, <2>2, LoadEffectRecorded
<1>5. CASE LoadAnswer
  BY <1>5, LoadAnswerRecorded
<1>6. CASE LoadFails
  <2>1. /\ load' = None
        /\ UNCHANGED <<difficulty, game, board, marks, accepted, solved, selected, drag, call,
                       start, reveal, cache, saved, server, shows>>
    BY <1>6 DEF LoadFails, shown, play
  <2>2. Done' = Done /\ ServerInv' /\ HandsInv'
    BY <2>1 DEF Done, Recorded, ServerInv, HandsInv
  <2> QED BY <2>1, <2>2, PageKept, CallsKept, CacheKept, LoadKept DEF Recorded
<1>7. CASE Reopen
  <2>1. PICK d \in Difficulties : difficulty' = Allowed(d, account)
    BY <1>7 DEF Reopen
  <2>2. difficulty' \in Difficulties
    BY <2>1, AllowedIsOne
  <2>3. UNCHANGED <<saved, server, shows>> /\ game' = None /\ accepted' = 0
        /\ call' = None /\ reveal' = None /\ start' = [promise |-> FALSE, asked |-> None]
        /\ load' = [ch |-> difficulty', then |-> server[difficulty']]
        /\ selected' = None /\ drag' = None /\ cache' = [e \in Difficulties |-> None]
    BY <1>7 DEF Reopen
  <2>4. Done' = Done /\ ServerInv' /\ HandsInv'
    BY <2>3 DEF Done, Recorded, ServerInv, HandsInv
  <2>5. PageInv' /\ SavedInv' /\ CacheInv'
    BY <2>3, <2>4 DEF Recorded, PageInv, SavedInv, CacheInv
  <2>6. Calls'
    BY <2>3, <2>4 DEF Recorded, Calls, CallInv, RevealInv, StartInv
  <2>7. LoadInv'
    BY <2>2, <2>3, <2>4 DEF Recorded, LoadInv, ServerInv, Done
  <2> QED BY <2>4, <2>5, <2>6, <2>7 DEF Recorded
<1> QED BY <1>2, <1>3, <1>4, <1>5, <1>6, <1>7 DEF Loading

(* A move changes where the card was and where it goes, neither an anchor. *)
LEMMA MovedFits ==
  ASSUME TimelineScreenAssumption, NEW d \in Difficulties, NEW b \in Boards(d), AnchorsHold(d, b),
         NEW c \in AllCards \cup {Junk, None}, NEW target \in Slots(d) \cup {Tray}
  PROVE  LET next == Moved(b, Anchors(d), c, target)
         IN  /\ next \in Boards(d) /\ AnchorsHold(d, next)
             /\ \A p \in Slots(d) \ {Position(b, c), target} : next[p] = b[p]
<1> DEFINE next == Moved(b, Anchors(d), c, target)
           source == Position(b, c)
<1>1. source \in Slots(d) \cup {Tray} /\ Tray \notin Slots(d)
  <2>1. DOMAIN b = Slots(d)
    BY DEF Boards
  <2> QED BY <2>1 DEF Position, Tray, Slots
<1>2. Anchors(d) \subseteq Slots(d)
  BY DEF TimelineScreenAssumption
<1>3. CASE source \in Anchors(d) \/ target \in Anchors(d) \/ source = target
  BY <1>3 DEF Moved
<1>4. CASE ~(source \in Anchors(d) \/ target \in Anchors(d) \/ source = target) /\ target = Tray
  <2>1. next = [b EXCEPT ![source] = None]
    BY <1>4 DEF Moved
  <2> HIDE DEF next, source
  <2>2. next \in Boards(d) /\ \A p \in Slots(d) \ {source} : next[p] = b[p]
    BY <2>1 DEF Boards
  <2>3. AnchorsHold(d, next)
    BY <1>2, <1>4, <2>2 DEF AnchorsHold
  <2> QED BY <2>2, <2>3 DEF next, source
<1>5. CASE ~(source \in Anchors(d) \/ target \in Anchors(d) \/ source = target) /\ target # Tray
  <2>1. next = [p \in DOMAIN b \cup 1..target |->
                  IF p = target THEN c ELSE IF p = source THEN At(b, target) ELSE At(b, p)]
    BY <1>5 DEF Moved
  <2>2. DOMAIN b = Slots(d) /\ target \in Slots(d)
    BY <1>5 DEF Boards
  <2>3. DOMAIN b \cup 1..target = Slots(d)
    <3>1. Size[d] \in Nat
      BY DEF TimelineScreenAssumption
    <3> QED BY <2>2, <3>1 DEF Slots
  <2>4. \A p \in Slots(d) : At(b, p) = b[p] /\ b[p] \in AllCards \cup {Junk, None}
    BY <2>2 DEF At, Boards
  <2> HIDE DEF next, source
  <2>5. next = [p \in Slots(d) |->
                  IF p = target THEN c ELSE IF p = source THEN At(b, target) ELSE At(b, p)]
    BY <2>1, <2>3
  <2>6. next \in Boards(d) /\ \A p \in Slots(d) \ {source, target} : next[p] = b[p]
    BY <2>2, <2>4, <2>5 DEF Boards
  <2>7. AnchorsHold(d, next)
    BY <1>2, <1>5, <2>6 DEF AnchorsHold
  <2> QED BY <2>6, <2>7 DEF next, source
<1> QED BY <1>3, <1>4, <1>5

(* moveModel leaves the marks of the slots it does not change. *)
LEMMA MoveShows ==
  ASSUME TimelineScreenAssumption, NEW d, game.ch = d,
         Shows(Done, d, board, marks, solved),
         NEW c \in AllCards \cup {Junk, None}, NEW target \in Slots(d) \cup {Tray},
         MoveModel(c, target), UNCHANGED solved
  PROVE  Shows(Done, d, board', marks', solved') /\ selected' \in {selected, None}
<1> DEFINE next == Moved(board, Anchors(d), c, target)
           source == Position(board, c)
<1>1. CASE solved \/ Unfinished \/ Locked(source) \/ Locked(target) \/ next = board
  BY <1>1 DEF MoveModel
<1>2. CASE ~(solved \/ Unfinished \/ Locked(source) \/ Locked(target) \/ next = board)
  <2>1. /\ board' = next /\ selected' = None /\ ~solved
        /\ marks' = IF marks = None THEN None
                    ELSE [p \in DOMAIN marks |->
                            IF p \in {source, target} THEN "none" ELSE marks[p]]
    BY <1>2 DEF MoveModel
  <2>2. /\ next \in Boards(d) /\ AnchorsHold(d, next)
        /\ \A p \in Slots(d) \ {source, target} : next[p] = board[p]
    BY MovedFits DEF Shows
  <2>3. marks # None => DOMAIN marks = Slots(d) /\ marks \in Markings(d)
    BY DEF Shows, Markings
  <2> HIDE DEF next, source
  <2>4. marks' \in Markings(d) \cup {None}
    BY <2>1, <2>3 DEF Markings
  <2>5. ASSUME marks' # None, NEW p \in Slots(d), marks'[p] = "right"
        PROVE  next[p] = Solution[d][p]
    <3>1. marks # None
      BY <2>1, <2>5
    <3>2. marks'[p] = IF p \in {source, target} THEN "none" ELSE marks[p]
      BY <2>1, <2>3, <3>1
    <3>3. p \notin {source, target} /\ marks[p] = "right"
      BY <2>5, <3>2
    <3> QED BY <2>2, <3>1, <3>3 DEF Shows
  <2> QED BY <2>1, <2>2, <2>4, <2>5 DEF Shows
<1> QED BY <1>1, <1>2

(* Of some numbers one is the least, and of some up to n the greatest. *)
LEMMA LeastNumber ==
  ASSUME NEW S, S \subseteq Nat, S # {}
  PROVE  \E m \in S : \A k \in S : m <= k
<1> DEFINE R == OpToRel(<, Nat)
<1>1. IsWellFoundedOn(R, Nat)
  BY NatLessThanWellFounded
<1>2. \A m, k \in Nat : m < k => <<m, k>> \in R
  BY DEF OpToRel
<1> HIDE DEF R
<1>3. PICK m \in S : \A k \in S : ~(<<k, m>> \in R)
  BY <1>1, WFMin
<1>4. ASSUME NEW k \in S PROVE m <= k
  <2>1. m \in Nat /\ k \in Nat
    OBVIOUS
  <2>2. ~(k < m)
    BY <1>2, <1>3, <2>1
  <2> QED BY <2>1, <2>2
<1> QED BY <1>4

LEMMA GreatestNumber ==
  ASSUME NEW n \in Nat, NEW S, S \subseteq 1..n, S # {}
  PROVE  \E m \in S : \A k \in S : k <= m
<1> DEFINE T == {n - s : s \in S}
<1>1. T \subseteq Nat /\ T # {}
  <2>1. \A s \in S : n - s \in Nat
    OBVIOUS
  <2> QED BY <2>1
<1>2. PICK t \in T : \A u \in T : t <= u
  <2> HIDE DEF T
  <2> QED BY <1>1, LeastNumber
<1>3. PICK m \in S : t = n - m
  OBVIOUS
<1>4. ASSUME NEW k \in S PROVE k <= m
  <2>1. n - k \in T
    OBVIOUS
  <2>2. n - m <= n - k
    BY <1>2, <1>3, <2>1
  <2> QED BY <2>2
<1> QED BY <1>4

(* Where a key moves a card to is where it was or a slot of the board. *)
LEMMA AdjacentIs ==
  ASSUME NEW n \in Nat, NEW p \in Nat, NEW direction \in {-1, 1}, NEW anchors
  PROVE  Adjacent(p, direction, n, anchors) \in {p} \cup 1..n
<1> DEFINE beyond == {q \in 1..n : (q - p) * direction > 0 /\ q \notin anchors}
<1>1. CASE beyond = {}
  BY <1>1 DEF Adjacent
<1>2. CASE beyond # {}
  <2>1. beyond \subseteq 1..n
    OBVIOUS
  <2>2. Adjacent(p, direction, n, anchors) =
          CHOOSE q \in beyond : \A r \in beyond : (r - q) * direction >= 0
    BY <1>2 DEF Adjacent
  <2> HIDE DEF beyond
  <2>3. \E q \in beyond : \A r \in beyond : (r - q) * direction >= 0
    <3>1. CASE direction = 1
      <4>1. beyond \subseteq Nat
        BY <2>1
      <4>2. PICK q \in beyond : \A r \in beyond : q <= r
        BY <1>2, <4>1, LeastNumber
      <4> QED BY <2>1, <3>1, <4>2
    <3>2. CASE direction = -1
      <4>1. PICK q \in beyond : \A r \in beyond : r <= q
        BY <1>2, <2>1, GreatestNumber
      <4> QED BY <2>1, <3>2, <4>1
    <3> QED BY <3>1, <3>2
  <2>4. Adjacent(p, direction, n, anchors) \in beyond
    BY <2>2, <2>3
  <2> QED BY <2>1, <2>4
<1> QED BY <1>1, <1>2

LEMMA AdjacentSlot ==
  ASSUME TimelineScreenAssumption, NEW d \in Difficulties, NEW b \in Boards(d),
         NEW p \in Slots(d), NEW direction \in {-1, 1}, NEW anchors
  PROVE  Adjacent(p, direction, Cardinality(DOMAIN b), anchors) \in Slots(d)
<1>1. Size[d] \in Nat /\ DOMAIN b = 1..Size[d] /\ Slots(d) = 1..Size[d]
  BY DEF TimelineScreenAssumption, Boards, Slots
<1>2. Cardinality(DOMAIN b) = Size[d]
  BY <1>1, FS_Interval
<1>3. p \in Nat
  BY <1>1
<1> QED BY <1>1, <1>2, <1>3, AdjacentIs

LEMMA MovingRecorded ==
  ASSUME TimelineScreenAssumption, Recorded, Moving
  PROVE  Recorded'
<1>1. CASE \E c \in AllCards : Grab(c)
  <2>1. /\ drag' \in AllCards
        /\ UNCHANGED <<difficulty, game, board, marks, accepted, solved, selected, load, call,
                       start, reveal, cache, saved, server, shows>>
    BY <1>1 DEF Grab, shown, calls
  <2>2. Done' = Done /\ ServerInv' /\ HandsInv'
    BY <2>1 DEF Done, Recorded, ServerInv, HandsInv
  <2> QED BY <2>1, <2>2, PageKept, CallsKept, CacheKept, LoadKept DEF Recorded
<1>2. ASSUME ~\E c \in AllCards : Grab(c)
      PROVE  /\ game # None /\ Hand /\ drag' \in {drag, None}
             /\ \/ UNCHANGED <<board, marks>> /\ selected' \in AllCards \cup {selected, None}
                \/ \E c \in AllCards \cup {Junk, None}, target \in Slots(game.ch) \cup {Tray} :
                     MoveModel(c, target)
  <2>1. selected \in AllCards \cup {None} /\ drag \in AllCards \cup {None}
    BY DEF Recorded, HandsInv
  <2>2. ASSUME NEW c \in AllCards, Tap(c)
        PROVE  /\ game # None /\ Hand /\ drag' \in {drag, None}
               /\ \/ UNCHANGED <<board, marks>> /\ selected' \in AllCards \cup {selected, None}
                  \/ \E e \in AllCards \cup {Junk, None}, target \in Slots(game.ch) \cup {Tray} :
                       MoveModel(e, target)
    BY <2>1, <2>2 DEF Tap, MayMove, OnBoard
  <2>3. ASSUME NEW p, TapEmpty(p)
        PROVE  /\ game # None /\ Hand /\ drag' \in {drag, None}
               /\ \E e \in AllCards \cup {Junk, None}, target \in Slots(game.ch) \cup {Tray} :
                       MoveModel(e, target)
    BY <2>1, <2>3 DEF TapEmpty, MayMove
  <2>4. ASSUME NEW p, DropText(p) \/ Release(p)
        PROVE  /\ game # None /\ Hand /\ drag' \in {drag, None}
               /\ \/ UNCHANGED <<board, marks, selected>>
                  \/ \E e \in AllCards \cup {Junk, None}, target \in Slots(game.ch) \cup {Tray} :
                       MoveModel(e, target)
    BY <2>1, <2>4 DEF DropText, Release, MayMove, Targets
  <2>5. ASSUME NEW c \in AllCards, NEW direction \in {-1, 1}, Key(c, direction)
        PROVE  /\ game # None /\ Hand /\ drag' \in {drag, None}
               /\ \E e \in AllCards \cup {Junk, None}, target \in Slots(game.ch) \cup {Tray} :
                       MoveModel(e, target)
    <3> DEFINE target == Adjacent(Position(board, c), direction, Cardinality(DOMAIN board),
                                  Anchors(game.ch))
    <3>1. game # None /\ Hand /\ UNCHANGED drag /\ MoveModel(c, target)
          /\ Position(board, c) \in Slots(game.ch)
      BY <2>5 DEF Key, MayMove, OnBoard
    <3>2. game.ch \in Difficulties /\ board \in Boards(game.ch)
      BY <3>1 DEF Recorded, PageInv, Shows
    <3>3. target \in Slots(game.ch)
      BY <3>1, <3>2, AdjacentSlot
    <3> HIDE DEF target
    <3> QED BY <3>1, <3>3
  <2> QED BY <1>2, <2>2, <2>3, <2>4, <2>5 DEF Moving
<1>3. CASE ~\E c \in AllCards : Grab(c)
  <2>1. /\ Save /\ game # None /\ drag' \in {drag, None}
        /\ UNCHANGED <<difficulty, game, accepted, solved, load, call, start, reveal, cache,
                       server, shows>>
    BY <1>2, <1>3 DEF Hand, calls
  <2>2. Done' = Done /\ ServerInv'
    BY <2>1 DEF Done, Recorded, ServerInv
  <2>3. /\ Shows(Done, game.ch, board', marks', solved')
        /\ selected' \in AllCards \cup {selected, None}
    <3>1. Shows(Done, game.ch, board, marks, solved)
      BY <2>1 DEF Recorded, PageInv
    <3>2. CASE UNCHANGED <<board, marks>> /\ selected' \in AllCards \cup {selected, None}
      BY <2>1, <3>1, <3>2
    <3>3. ASSUME NEW c \in AllCards \cup {Junk, None}, NEW target \in Slots(game.ch) \cup {Tray},
                 MoveModel(c, target)
          PROVE  Shows(Done, game.ch, board', marks', solved')
                 /\ selected' \in AllCards \cup {selected, None}
      BY <2>1, <3>1, <3>3, MoveShows
    <3> QED BY <1>2, <1>3, <3>2, <3>3
  <2>4. HandsInv'
    BY <2>1, <2>3 DEF Recorded, HandsInv
  <2>5. PageInv' /\ SavedInv'
    BY <2>1, <2>2, <2>3, SaveRecorded DEF Recorded, PageInv
  <2> QED BY <2>1, <2>2, <2>4, <2>5, CallsKept, CacheKept, LoadKept DEF Recorded
<1> QED BY <1>1, <1>3

(* What becomes of a submission: the row is solved by the solution only,   *)
(* and an answer to it has the marks of the board.                         *)
LEMMA StoredSound ==
  ASSUME TimelineScreenAssumption, ServerInv, NEW d \in Difficulties, NEW b \in Boards(d), NEW id
  PROVE  /\ Sound(d, Stored(d, id, b))
         /\ server[d].solved => Stored(d, id, b).solved
         /\ Answered(d, id, b).ok =>
              /\ Answered(d, id, b).marks = Marking(d, b)
              /\ Answered(d, id, b).left \in Nat \cup {None}
              /\ b = Solution[d] => Stored(d, id, b).solved
<1> DEFINE s == server[d]
           this == [order |-> b, marks |-> Marking(d, b), num |-> s.num + 1]
           next == [s EXCEPT !.num = @ + 1, !.solved = b = Solution[d],
                             !.ids = @ \cup {[id |-> id, order |-> b]}, !.last = this]
<1>1. Sound(d, s)
  BY DEF ServerInv
<1>2. CASE Verdict(d, id, b) = "ACCEPT"
  <2>1. Stored(d, id, b) = next
    BY <1>2 DEF Stored
  <2>2. /\ ValidOrder(d, b) /\ ~s.solved /\ (d = "speedrun" => s.started)
    BY <1>2 DEF Verdict
  <2>3. this \in Lasts(d) /\ this # None
    <3>1. Marking(d, b) \in Markings(d) /\ s.num + 1 \in Nat
      BY <1>1, MarkingIs DEF Sound
    <3>2. this \in Lasts(d)
      BY <3>1 DEF Lasts
    <3> QED BY <3>2, NoneIsNoBoard
  <2>4. /\ {"num", "last", "solved", "started", "gaveUp", "ids"} \subseteq DOMAIN next
        /\ next.num = s.num + 1 /\ next.solved = (b = Solution[d]) /\ next.last = this
        /\ next.started = s.started /\ next.gaveUp = s.gaveUp /\ next.ids = s.ids \cup {[id |-> id, order |-> b]}
    BY <1>1 DEF Sound
  <2>5. this.order = b /\ this.marks = Marking(d, b) /\ this.num = s.num + 1
    OBVIOUS
  <2> HIDE DEF next, this
  <2>6. \A r \in next.ids : r.order = Solution[d] => next.solved
    <3>1. \A r \in s.ids : r.order = Solution[d] => s.solved
      BY <1>1 DEF Sound
    <3>2. ASSUME NEW r \in next.ids, r.order = Solution[d]
          PROVE  next.solved
      <4>1. CASE r \in s.ids
        BY <2>2, <3>1, <3>2, <4>1
      <4>2. CASE r = [id |-> id, order |-> b]
        BY <2>4, <3>2, <4>2
      <4> QED BY <2>4, <3>2, <4>1, <4>2
    <3> QED BY <3>2
  <2>7. Sound(d, next)
    <3>1. s.num + 1 \in Nat
      BY <1>1 DEF Sound
    <3> QED BY <1>1, <2>2, <2>3, <2>4, <2>5, <2>6, <3>1 DEF Sound
  <2>8. Answered(d, id, b).marks = Marking(d, b)
        /\ Answered(d, id, b).left = Left(d, Stored(d, id, b).num)
    BY <1>2 DEF Answered
  <2>9. Answered(d, id, b).left \in Nat \cup {None}
    BY <2>1, <2>7, <2>8, LeftIs DEF Sound
  <2> QED BY <2>1, <2>2, <2>4, <2>7, <2>8, <2>9
<1>3. CASE Verdict(d, id, b) # "ACCEPT"
  <2>1. Stored(d, id, b) = s
    BY <1>3 DEF Stored
  <2>2. Answered(d, id, b).ok => Verdict(d, id, b) = "REPLAY"
                                 /\ Answered(d, id, b).marks = Marking(d, b)
                                 /\ Answered(d, id, b).left = Left(d, s.num)
    BY <1>3, <2>1 DEF Answered
  <2>3. Verdict(d, id, b) = "REPLAY" => [id |-> id, order |-> b] \in s.ids
    BY DEF Verdict
  <2>4. Left(d, s.num) \in Nat \cup {None}
    BY <1>1, LeftIs DEF Sound
  <2> QED BY <1>1, <2>1, <2>2, <2>3, <2>4 DEF Sound
<1> QED BY <1>2, <1>3

(* A row that a call changes. *)
LEMMA RowChanged ==
  ASSUME ServerInv, NEW d \in Difficulties, NEW s, Sound(d, s), server[d].solved => s.solved,
         server' = [server EXCEPT ![d] = s]
  PROVE  ServerInv' /\ Done \subseteq Done' /\ (s.solved => d \in Done')
<1>1. \A e \in Difficulties : server'[e] = IF e = d THEN s ELSE server[e]
  BY DEF ServerInv
<1>2. DOMAIN server' = Difficulties
  BY DEF ServerInv
<1> QED BY <1>1, <1>2 DEF ServerInv, Done

LEMMA SubmitRecorded ==
  ASSUME TimelineScreenAssumption, Recorded, Submit
  PROVE  Recorded'
<1> DEFINE id == IF pending = None THEN nextId + 1 ELSE pending
           ch == game.ch
<1>1. PICK out \in Outcomes :
        /\ server' = IF out = "not sent" THEN server
                     ELSE [server EXCEPT ![ch] = Stored(ch, id, board)]
        /\ call' = [kind |-> "submit", of |-> game, order |-> board, diff |-> difficulty,
                    num |-> accepted, shows |-> shows,
                    answer |-> IF out = "answered" THEN Answered(ch, id, board) ELSE NoAnswer]
  BY DEF Submit
<1>2. /\ game # None /\ Complete(board, Expected(game))
      /\ UNCHANGED <<difficulty, game, board, marks, accepted, solved, selected, drag, load,
                     start, reveal, cache, saved, shows>>
  BY DEF Submit, CanSubmit, shown
<1>3. /\ Known(Done, game) /\ Shows(Done, ch, board, marks, solved) /\ accepted \in Nat
      /\ shows \in Nat /\ ch \in Difficulties /\ board \in Boards(ch) /\ AnchorsHold(ch, board)
  BY <1>2 DEF Recorded, PageInv, Calls, Shows
<1> HIDE DEF id, ch
<1>4. /\ Sound(ch, Stored(ch, id, board))
      /\ server[ch].solved => Stored(ch, id, board).solved
      /\ Answered(ch, id, board).ok =>
           /\ Answered(ch, id, board).marks = Marking(ch, board)
           /\ Answered(ch, id, board).left \in Nat \cup {None}
           /\ board = Solution[ch] => Stored(ch, id, board).solved
  BY <1>3, StoredSound DEF Recorded
<1>5. /\ ServerInv' /\ Done \subseteq Done'
      /\ (out # "not sent" /\ Stored(ch, id, board).solved) => ch \in Done'
  <2>1. CASE out = "not sent"
    BY <1>1, <2>1 DEF Recorded, ServerInv, Done
  <2>2. CASE out # "not sent"
    BY <1>1, <1>3, <1>4, <2>2, RowChanged DEF Recorded
  <2> QED BY <2>1, <2>2
<1>6. PageInv' /\ SavedInv' /\ CacheInv' /\ LoadInv' /\ HandsInv'
  BY <1>2, <1>5, PageKept, CacheKept, LoadKept DEF Recorded, HandsInv
<1>7. Restore(game, board) = board
  <2>1. DOMAIN board = Slots(ch)
    BY <1>3 DEF Boards
  <2> QED BY <1>2, <1>3, <2>1, RestoreFits DEF Complete, ch
<1>8. Known(Done', game)
  BY <1>3, <1>5, KnownGrows
<1>9. call'.answer.ok => /\ call'.answer.marks = Marking(ch, board)
                         /\ call'.answer.left \in Nat \cup {None}
                         /\ board = Solution[ch] => ch \in Done'
  <2>1. CASE out = "answered"
    BY <1>1, <1>4, <1>5, <2>1
  <2>2. CASE out # "answered"
    BY <1>1, <2>2 DEF NoAnswer
  <2> QED BY <2>1, <2>2
<1>10. /\ call'.kind = "submit" /\ call'.of = game /\ call'.order = board
       /\ call'.num = accepted /\ call'.shows = shows
  BY <1>1
<1>11. Calls'
  <2>1. OfPage(call.of.ch, call.shows)'
    BY <1>2, <1>3, <1>10 DEF OfPage
  <2>2. SubmitInv(call)'
    BY <1>3, <1>7, <1>9, <1>10 DEF SubmitInv, ch
  <2>3. CallInv'
    BY <1>8, <1>10, <2>1, <2>2 DEF CallInv
  <2>4. RevealInv' /\ StartInv'
    BY <1>2 DEF Recorded, Calls, RevealInv, StartInv, OfPage
  <2> QED BY <1>2, <1>3, <2>3, <2>4 DEF Calls
<1> QED BY <1>5, <1>6, <1>11 DEF Recorded

LEMMA SubmitAnswerRecorded ==
  ASSUME TimelineScreenAssumption, Recorded, SubmitAnswer, ~overtaken'
  PROVE  Recorded'
<1> DEFINE of == call.of
           ch == call.of.ch
           order == call.order
           result == call.answer.marks
           won == Won(result)
           last == [order |-> order, marks |-> result, num |-> call.num + 1]
           kept == [of EXCEPT !.solved = won, !.remaining = call.answer.left, !.last = last]
<1>1. /\ call # None /\ call.kind = "submit" /\ call.answer.ok /\ Save
      /\ board = order /\ shows = call.shows /\ call.diff = ch
  BY DEF SubmitAnswer, Current
<1>2. /\ marks' = result /\ accepted' = accepted + 1 /\ solved' = won
      /\ cache' = [cache EXCEPT ![call.diff] = kept]
      /\ reveal' = IF won THEN [ch |-> ch, diff |-> call.diff, shows |-> shows] ELSE reveal
      /\ game' = of /\ call' = None
      /\ UNCHANGED <<difficulty, board, selected, drag, load, start, server, shows>>
  BY DEF SubmitAnswer
<1>3. /\ Known(Done, of) /\ OfPage(ch, call.shows) /\ call.num \in Nat /\ order \in Boards(ch)
      /\ Restore(of, order) = order /\ result = Marking(ch, order)
      /\ order = Solution[ch] => ch \in Done
      /\ call.answer.left \in Nat \cup {None}
  BY <1>1 DEF Recorded, Calls, CallInv, SubmitInv
<1>4. ch \in Difficulties /\ of # None
  BY <1>3, KnownIs
<1>5. game # None /\ game.ch = ch
  BY <1>1, <1>3 DEF OfPage
<1>6. Done' = Done /\ ServerInv' /\ HandsInv'
  BY <1>2 DEF Done, Recorded, ServerInv, HandsInv
<1> HIDE DEF ch, order, result, of, kept, won
<1>7. won \in BOOLEAN /\ (won <=> order = Solution[ch]) /\ result \in Markings(ch)
      /\ \A p \in Slots(ch) : result[p] = "right" => order[p] = Solution[ch][p]
  BY <1>3, <1>4, MarkingIs DEF won, Won
<1>8. AnchorsHold(ch, order)
  BY <1>3, <1>4, RestoreFits DEF of, ch
<1>9. Shows(Done, ch, board', marks', solved')
  BY <1>1, <1>2, <1>3, <1>4, <1>7, <1>8 DEF Shows
<1>10. accepted' \in Nat
  BY <1>2 DEF Recorded, PageInv
<1>11. PageInv' /\ SavedInv'
  BY <1>1, <1>2, <1>3, <1>6, <1>9, <1>10, SaveRecorded DEF Recorded, of, ch
<1>12. Known(Done, kept) /\ kept.ch = ch
  <2>1. last \in Lasts(ch) /\ last # None
    <3>1. last \in Lasts(ch)
      BY <1>3, <1>7 DEF Lasts
    <3> QED BY <1>4, <3>1, NoneIsNoBoard
  <2>2. kept.ch = ch /\ kept.solved = won /\ kept.last = last /\ kept.cards = of.cards
    BY <1>3 DEF kept, Known, Payloads, of, ch
  <2>3. last.order = order /\ last.marks = result
    OBVIOUS
  <2>4. kept \in Payloads
    <3>1. last \in AllLasts
      BY <1>4, <2>1 DEF AllLasts
    <3> HIDE DEF last
    <3>2. of \in Payloads
      BY <1>3 DEF Known
    <3> QED BY <1>3, <1>7, <3>1, <3>2 DEF kept, Payloads
  <2>5. Restore(kept, order) = order
    BY <1>3, <2>2 DEF Restore, Expected, of, ch
  <2> HIDE DEF last
  <2> QED BY <1>3, <1>7, <2>1, <2>2, <2>3, <2>4, <2>5 DEF Known, of, ch
<1>13. CacheInv'
  BY <1>1, <1>2, <1>4, <1>6, <1>12 DEF Recorded, CacheInv
<1>14. LoadInv'
  BY <1>2, <1>6, LoadKept DEF Recorded
<1>15. Calls'
  <2>1. game' # None /\ game'.ch = ch
    BY <1>2, <1>4 DEF of, ch
  <2>2. shows \in Nat
    BY DEF Recorded, Calls
  <2>3. RevealInv'
    <3>1. CASE won
      BY <1>1, <1>2, <1>4, <2>1, <2>2, <3>1 DEF RevealInv, OfPage
    <3>2. CASE ~won
      BY <1>2, <1>5, <2>1, <3>2 DEF Recorded, Calls, RevealInv, OfPage
    <3> QED BY <3>1, <3>2
  <2>4. StartInv'
    BY <1>2, <1>5, <2>1 DEF Recorded, Calls, StartInv, OfPage
  <2> QED BY <1>2, <2>2, <2>3, <2>4 DEF Calls, CallInv
<1> QED BY <1>6, <1>11, <1>13, <1>14, <1>15 DEF Recorded

LEMMA StartedSound ==
  ASSUME NEW d \in Difficulties, NEW s, Sound(d, s)
  PROVE  /\ Sound(d, [s EXCEPT !.started = TRUE]) /\ Sound(d, [s EXCEPT !.gaveUp = TRUE])
         /\ [s EXCEPT !.started = TRUE].solved = s.solved
         /\ [s EXCEPT !.gaveUp = TRUE].solved = s.solved
<1> DEFINE t == [s EXCEPT !.started = TRUE]
           u == [s EXCEPT !.gaveUp = TRUE]
<1>1. /\ DOMAIN t = DOMAIN s /\ t.num = s.num /\ t.solved = s.solved /\ t.started = TRUE
      /\ t.gaveUp = s.gaveUp /\ t.last = s.last /\ t.ids = s.ids
  BY DEF Sound
<1>2. /\ DOMAIN u = DOMAIN s /\ u.num = s.num /\ u.solved = s.solved /\ u.started = s.started
      /\ u.gaveUp = TRUE /\ u.last = s.last /\ u.ids = s.ids
  BY DEF Sound
<1> HIDE DEF t, u
<1>3. Sound(d, t)
  BY <1>1 DEF Sound
<1>4. Sound(d, u)
  BY <1>2 DEF Sound
<1> QED BY <1>1, <1>2, <1>3, <1>4 DEF t, u

(* A speedrun is started on the server, and on the page that shows it.     *)
LEMMA StartRunRecorded ==
  ASSUME TimelineScreenAssumption, Recorded, StartRun
  PROVE  Recorded'
<1>1. PICK out \in Outcomes :
        /\ start' = [promise |-> TRUE,
                     asked |-> [ok |-> out = "answered" /\ game.ch = "speedrun", shows |-> shows]]
        /\ server' = IF out = "not sent" \/ game.ch # "speedrun" THEN server
                     ELSE [server EXCEPT !["speedrun"].started = TRUE]
  BY DEF StartRun
<1>2. /\ game # None
      /\ UNCHANGED <<difficulty, game, board, marks, accepted, solved, selected, drag, load,
                     call, reveal, cache, saved, shows>>
  BY DEF StartRun, shown, play
<1>3. game.ch \in Difficulties /\ shows \in Nat
  BY <1>2, KnownIs DEF Recorded, PageInv, Calls
<1>4. ServerInv' /\ Done \subseteq Done'
  <2>1. CASE out = "not sent" \/ game.ch # "speedrun"
    BY <1>1, <2>1 DEF Recorded, ServerInv, Done
  <2>2. CASE ~(out = "not sent" \/ game.ch # "speedrun")
    <3> DEFINE s == [server["speedrun"] EXCEPT !.started = TRUE]
    <3>1. server' = [server EXCEPT !["speedrun"] = s] /\ "speedrun" \in Difficulties
      BY <1>1, <1>3, <2>2
    <3>2. Sound("speedrun", server["speedrun"])
      BY <3>1 DEF Recorded, ServerInv
    <3>3. Sound("speedrun", s) /\ s.solved = server["speedrun"].solved
      BY <3>1, <3>2, StartedSound
    <3> HIDE DEF s
    <3> QED BY <3>1, <3>3, RowChanged DEF Recorded
  <2> QED BY <2>1, <2>2
<1>5. PageInv' /\ SavedInv' /\ CacheInv' /\ LoadInv' /\ HandsInv'
  BY <1>2, <1>4, PageKept, CacheKept, LoadKept DEF Recorded, HandsInv
<1>6. Calls'
  <2>1. CallInv'
    BY <1>2, <1>4, CallStays DEF Recorded, Calls, CallInv, OfPage
  <2>2. RevealInv'
    BY <1>2 DEF Recorded, Calls, RevealInv, OfPage
  <2>3. StartInv'
    <3>1. start'.asked.shows = shows' /\ shows' \in Nat
      BY <1>1, <1>2, <1>3
    <3>2. start'.asked.ok => game.ch = "speedrun"
      BY <1>1
    <3>3. game' = game /\ game # None
      BY <1>2
    <3> QED BY <1>3, <3>1, <3>2, <3>3 DEF StartInv, OfPage
  <2> QED BY <1>2, <1>3, <2>1, <2>2, <2>3 DEF Calls
<1> QED BY <1>4, <1>5, <1>6 DEF Recorded

(* A payload of which more cards are shown, that has been started. *)
LEMMA StartedKnown ==
  ASSUME TimelineScreenAssumption, NEW D, NEW g, Known(D, g), g.ch = "speedrun"
  PROVE  LET t == [g EXCEPT !.cards = Movable["speedrun"], !.started = TRUE]
         IN  Known(D, t) /\ t.ch = g.ch
<1> DEFINE t == [g EXCEPT !.cards = Movable["speedrun"], !.started = TRUE]
<1>1. /\ t.ch = g.ch /\ t.solved = g.solved /\ t.last = g.last /\ t.cards = Movable["speedrun"]
  BY DEF Known, Payloads
<1>2. "speedrun" \in Difficulties
  BY KnownIs
<1>3. t \in Payloads
  <2>1. Movable["speedrun"] \subseteq AllCards
    BY <1>2 DEF AllCards, Cards
  <2> QED BY <2>1 DEF Known, Payloads
<1> HIDE DEF t
<1>4. ASSUME g.last # None PROVE Restore(t, g.last.order) = g.last.order
  <2>1. g.last.order \in Boards(g.ch)
    BY <1>4 DEF Known, Lasts
  <2>2. Expected(g) \subseteq Expected(t)
    BY <1>1 DEF Known, Expected
  <2>3. Restore(g, g.last.order) = g.last.order
    BY <1>4 DEF Known
  <2> QED BY <1>1, <1>2, <2>1, <2>2, <2>3, RestoreFits
<1>5. Known(D, t)
  BY <1>1, <1>3, <1>4 DEF Known
<1> QED BY <1>1, <1>5 DEF t

LEMMA StartAnswerRecorded ==
  ASSUME TimelineScreenAssumption, Recorded, StartAnswer, ~overtaken'
  PROVE  Recorded'
<1> DEFINE More(g) == [g EXCEPT !.cards = Movable["speedrun"], !.started = TRUE]
<1>1. /\ start.asked # None /\ start.asked.ok /\ shows = start.asked.shows /\ Save
      /\ start' = [start EXCEPT !.asked = None]
      /\ UNCHANGED <<difficulty, board, marks, accepted, solved, selected, drag, load, call,
                     reveal, server, shows>>
      /\ game' = IF game = None THEN None ELSE More(game)
      /\ cache' = IF cache["speedrun"] = None THEN cache
                  ELSE [cache EXCEPT !["speedrun"] = More(cache["speedrun"])]
  BY DEF StartAnswer, play
<1>2. "speedrun" \in Difficulties /\ game # None /\ game.ch = "speedrun"
  BY <1>1 DEF Recorded, Calls, StartInv, OfPage
<1>3. Done' = Done /\ ServerInv' /\ HandsInv'
  BY <1>1 DEF Done, Recorded, ServerInv, HandsInv
<1>4. Known(Done, game) /\ Shows(Done, game.ch, board, marks, solved) /\ accepted \in Nat
  BY <1>2 DEF Recorded, PageInv
<1>5. Known(Done, More(game)) /\ More(game).ch = game.ch
  BY <1>2, <1>4, StartedKnown
<1>6. ASSUME cache["speedrun"] # None
      PROVE  Known(Done, More(cache["speedrun"])) /\ More(cache["speedrun"]).ch = "speedrun"
  <2>1. Known(Done, cache["speedrun"]) /\ cache["speedrun"].ch = "speedrun"
    BY <1>2, <1>6 DEF Recorded, CacheInv
  <2> QED BY <2>1, StartedKnown
<1> HIDE DEF More
<1>7. game' = More(game) /\ game'.ch = game.ch /\ game' # None
  BY <1>1, <1>2, <1>5, KnownIs
<1>8. PageInv' /\ SavedInv'
  BY <1>1, <1>3, <1>4, <1>5, <1>7, SaveRecorded DEF Recorded
<1>9. CacheInv'
  BY <1>1, <1>2, <1>3, <1>6 DEF Recorded, CacheInv
<1>10. LoadInv'
  BY <1>1, <1>3, LoadKept DEF Recorded
<1>11. Calls'
  <2>1. CallInv'
    BY <1>1, <1>3, <1>7, CallStays DEF Recorded, Calls, CallInv, OfPage
  <2>2. RevealInv'
    BY <1>1, <1>7 DEF Recorded, Calls, RevealInv, OfPage
  <2>3. StartInv'
    <3>1. start'.asked = None \/ start' = start
      BY <1>1
    <3> QED BY <1>1, <1>7, <3>1 DEF Recorded, Calls, StartInv, OfPage
  <2> QED BY <1>1, <2>1, <2>2, <2>3 DEF Recorded, Calls
<1> QED BY <1>3, <1>8, <1>9, <1>10, <1>11 DEF Recorded

LEMMA RevealAnswerRecorded ==
  ASSUME TimelineScreenAssumption, Recorded, RevealAnswer, ~overtaken'
  PROVE  Recorded'
<1> DEFINE g == Payload(reveal.ch, server[reveal.ch])
<1>1. /\ reveal # None /\ shows = reveal.shows /\ Save /\ reveal' = None /\ game' = g
      /\ cache' = [cache EXCEPT ![reveal.diff] = g]
      /\ UNCHANGED <<difficulty, board, marks, accepted, solved, selected, drag, load, call,
                     start, server, shows>>
  BY DEF RevealAnswer, play
<1>2. /\ reveal.ch \in Difficulties /\ reveal.diff = reveal.ch
      /\ game # None /\ game.ch = reveal.ch
  BY <1>1 DEF Recorded, Calls, RevealInv, OfPage
<1>3. Done' = Done /\ ServerInv' /\ HandsInv'
  BY <1>1 DEF Done, Recorded, ServerInv, HandsInv
<1>4. Known(Done, g) /\ g.ch = reveal.ch
  <2>1. Sound(reveal.ch, server[reveal.ch])
        /\ (server[reveal.ch].solved => reveal.ch \in Done)
    BY <1>2 DEF Recorded, ServerInv, Done
  <2>2. reveal.ch \in Difficulties
    BY <1>2
  <2> HIDE <1>1, <1>2
  <2> QED BY <2>1, <2>2, PayloadKnown
<1> HIDE DEF g
<1>5. Shows(Done, game.ch, board, marks, solved) /\ accepted \in Nat
  BY <1>2 DEF Recorded, PageInv
<1>6. game' # None /\ game'.ch = game.ch
  BY <1>1, <1>2, <1>4, KnownIs
<1>7. PageInv' /\ SavedInv'
  BY <1>1, <1>3, <1>4, <1>5, <1>6, SaveRecorded DEF Recorded
<1>8. CacheInv'
  BY <1>1, <1>2, <1>3, <1>4 DEF Recorded, CacheInv
<1>9. LoadInv'
  BY <1>1, <1>3, LoadKept DEF Recorded
<1>10. Calls'
  <2>1. CallInv'
    BY <1>1, <1>3, <1>6, CallStays DEF Recorded, Calls, CallInv, OfPage
  <2>2. RevealInv' /\ StartInv'
    BY <1>1, <1>6 DEF Recorded, Calls, RevealInv, StartInv, OfPage
  <2> QED BY <1>1, <2>1, <2>2 DEF Recorded, Calls
<1> QED BY <1>3, <1>7, <1>8, <1>9, <1>10 DEF Recorded

LEMMA GiveUpRecorded ==
  ASSUME TimelineScreenAssumption, Recorded, GiveUp
  PROVE  Recorded'
<1> DEFINE fits == game.ch = "speedrun" /\ ~server["speedrun"].solved
                     /\ server["speedrun"].started
<1>1. PICK out \in Outcomes :
        /\ server' = IF out # "not sent" /\ fits
                       THEN [server EXCEPT !["speedrun"].gaveUp = TRUE] ELSE server
        /\ call' = [kind |-> "give up", of |-> game, order |-> board, diff |-> difficulty,
                    shows |-> shows,
                    answer |-> IF out = "answered" /\ fits THEN [ok |-> TRUE] ELSE NoAnswer]
  BY DEF GiveUp
<1>2. /\ game # None /\ difficulty = "speedrun"
      /\ UNCHANGED <<difficulty, game, board, marks, accepted, solved, selected, drag, load,
                     start, reveal, cache, saved, shows>>
  BY DEF GiveUp, shown
<1>3. game.ch \in Difficulties /\ shows \in Nat /\ Known(Done, game)
  BY <1>2, KnownIs DEF Recorded, PageInv, Calls
<1>4. ServerInv' /\ Done \subseteq Done'
  <2>1. CASE ~(out # "not sent" /\ fits)
    BY <1>1, <2>1 DEF Recorded, ServerInv, Done
  <2>2. CASE out # "not sent" /\ fits
    <3> DEFINE s == [server["speedrun"] EXCEPT !.gaveUp = TRUE]
    <3>1. server' = [server EXCEPT !["speedrun"] = s] /\ "speedrun" \in Difficulties
      BY <1>1, <1>3, <2>2
    <3>2. Sound("speedrun", server["speedrun"])
      BY <3>1 DEF Recorded, ServerInv
    <3>3. Sound("speedrun", s) /\ s.solved = server["speedrun"].solved
      BY <3>1, <3>2, StartedSound
    <3> HIDE DEF s
    <3> QED BY <3>1, <3>3, RowChanged DEF Recorded
  <2> QED BY <2>1, <2>2
<1>5. PageInv' /\ SavedInv' /\ CacheInv' /\ LoadInv' /\ HandsInv'
  BY <1>2, <1>4, PageKept, CacheKept, LoadKept DEF Recorded, HandsInv
<1>6. Calls'
  <2>1. /\ call'.kind = "give up" /\ call'.of = game /\ call'.shows = shows
        /\ call'.diff = difficulty
    BY <1>1
  <2>2. call'.answer.ok => fits
    BY <1>1 DEF NoAnswer
  <2>3. Known(Done', game)
    BY <1>3, <1>4, KnownGrows
  <2>4. OfPage(call.of.ch, call.shows)'
    <3>1. call'.shows = shows' /\ shows' \in Nat
      BY <1>2, <1>3, <2>1
    <3>2. game' # None /\ game'.ch = call'.of.ch
      BY <1>2, <2>1
    <3> QED BY <3>1, <3>2 DEF OfPage
  <2>5. CallInv'
    BY <1>2, <2>1, <2>2, <2>3, <2>4 DEF CallInv
  <2>6. RevealInv' /\ StartInv'
    BY <1>2 DEF Recorded, Calls, RevealInv, StartInv, OfPage
  <2> QED BY <1>2, <1>3, <2>5, <2>6 DEF Calls
<1> QED BY <1>4, <1>5, <1>6 DEF Recorded

LEMMA GiveUpAnswerRecorded ==
  ASSUME TimelineScreenAssumption, Recorded, GiveUpAnswer, ~overtaken'
  PROVE  Recorded'
<1> DEFINE g == [call.of EXCEPT !.gaveUp = TRUE]
<1>1. /\ call # None /\ call.kind = "give up" /\ call.answer.ok /\ shows = call.shows /\ Save
      /\ game' = g /\ cache' = [cache EXCEPT ![call.diff] = g]
      /\ selected' = None /\ call' = None
      /\ UNCHANGED <<difficulty, board, marks, accepted, solved, drag, load, start, reveal,
                     server, shows>>
  BY DEF GiveUpAnswer
<1>2. Known(Done, call.of) /\ OfPage(call.of.ch, call.shows) /\ call.diff = call.of.ch
  BY <1>1 DEF Recorded, Calls, CallInv
<1>3. Done' = Done /\ ServerInv' /\ HandsInv'
  BY <1>1 DEF Done, Recorded, ServerInv, HandsInv
<1>4. Known(Done, g) /\ g.ch = call.of.ch
  <2>1. /\ g.ch = call.of.ch /\ g.solved = call.of.solved /\ g.last = call.of.last
        /\ g.cards = call.of.cards /\ g \in Payloads
    BY <1>2 DEF Known, Payloads
  <2> HIDE DEF g
  <2>2. \A b : Restore(g, b) = Restore(call.of, b)
    BY <2>1 DEF Restore, Expected
  <2> QED BY <1>2, <2>1, <2>2 DEF Known
<1>5. game # None /\ game.ch = call.of.ch /\ call.of.ch \in Difficulties
  BY <1>1, <1>2, KnownIs DEF OfPage
<1> HIDE DEF g
<1>6. game' # None /\ game'.ch = game.ch
  BY <1>1, <1>4, <1>5, KnownIs
<1>7. Shows(Done, game.ch, board, marks, solved) /\ accepted \in Nat
  BY <1>5 DEF Recorded, PageInv
<1>8. PageInv' /\ SavedInv'
  BY <1>1, <1>3, <1>4, <1>6, <1>7, SaveRecorded DEF Recorded
<1>9. CacheInv'
  BY <1>1, <1>2, <1>3, <1>4, <1>5 DEF Recorded, CacheInv
<1>10. LoadInv'
  BY <1>1, <1>3, LoadKept DEF Recorded
<1>11. Calls'
  <2>1. RevealInv' /\ StartInv'
    BY <1>1, <1>6 DEF Recorded, Calls, RevealInv, StartInv, OfPage
  <2> QED BY <1>1, <2>1 DEF Recorded, Calls, CallInv
<1> QED BY <1>3, <1>8, <1>9, <1>10, <1>11 DEF Recorded

LEMMA CallingRecorded ==
  ASSUME TimelineScreenAssumption, Recorded, Calling, ~overtaken'
  PROVE  Recorded'
<1>1. CASE Submit
  BY <1>1, SubmitRecorded
<1>2. CASE SubmitAnswer
  BY <1>2, SubmitAnswerRecorded
<1>3. CASE StartRun
  BY <1>3, StartRunRecorded
<1>4. CASE StartAnswer
  BY <1>4, StartAnswerRecorded
<1>5. CASE RevealAnswer
  BY <1>5, RevealAnswerRecorded
<1>6. CASE GiveUp
  BY <1>6, GiveUpRecorded
<1>7. CASE GiveUpAnswer
  BY <1>7, GiveUpAnswerRecorded
<1>8. CASE CallFails \/ CooldownEnds \/ RevealFails \/ StartFails
  <2>1. UNCHANGED <<difficulty, game, board, marks, accepted, solved, selected, drag, load,
                    cache, saved, server, shows>>
    BY <1>8 DEF CallFails, CooldownEnds, RevealFails, StartFails, shown, play, calls
  <2>2. Done' = Done /\ ServerInv' /\ HandsInv'
    BY <2>1 DEF Done, Recorded, ServerInv, HandsInv
  <2>3. PageInv' /\ SavedInv' /\ CacheInv' /\ LoadInv'
    BY <2>1, <2>2, PageKept, CacheKept, LoadKept DEF Recorded
  <2>4. /\ call' = None \/ UNCHANGED call
        /\ reveal' = None \/ UNCHANGED reveal
        /\ start' = [promise |-> FALSE, asked |-> None] \/ UNCHANGED start
    BY <1>8 DEF CallFails, CooldownEnds, RevealFails, StartFails, calls
  <2>5. CallInv'
    <3>1. CASE call' = None
      BY <3>1 DEF CallInv
    <3>2. CASE UNCHANGED call
      BY <2>1, <2>2, <3>2, CallStays DEF Recorded, Calls, CallInv, OfPage
    <3> QED BY <2>4, <3>1, <3>2
  <2>6. RevealInv' /\ StartInv'
    BY <2>1, <2>4 DEF Recorded, Calls, RevealInv, StartInv, OfPage
  <2> QED BY <2>1, <2>2, <2>3, <2>5, <2>6 DEF Recorded, Calls
<1> QED BY <1>1, <1>2, <1>3, <1>4, <1>5, <1>6, <1>7, <1>8 DEF Calling

LEMMA InitRecorded ==
  ASSUME TimelineScreenAssumption, Init
  PROVE  Recorded
<1>1. /\ game = None /\ accepted = 0 /\ selected = None /\ drag = None /\ shows = 0
      /\ call = None /\ reveal = None /\ start = [promise |-> FALSE, asked |-> None]
      /\ load = [ch |-> difficulty, then |-> server[difficulty]]
      /\ cache = [d \in Difficulties |-> None] /\ saved = [d \in Difficulties |-> None]
  BY DEF Init
<1>2. difficulty \in Difficulties
  BY AllowedIsOne DEF Init
<1>3. ASSUME NEW d \in Difficulties, NEW s \in Befores(d)
      PROVE  Sound(d, s)
  <2>1. CASE s = Fresh
    BY <2>1 DEF Fresh, Sound
  <2>2. ASSUME NEW o \in Earlier[d], s = After(d, o)
        PROVE  Sound(d, s)
    <3>1. o \in Boards(d) /\ ValidOrder(d, o)
      BY DEF TimelineScreenAssumption
    <3> DEFINE last == [order |-> o, marks |-> Marking(d, o), num |-> 1]
    <3>2. last \in Lasts(d) /\ last # None
      <4>1. last \in Lasts(d)
        BY <3>1, MarkingIs DEF Lasts
      <4> QED BY <4>1, NoneIsNoBoard
    <3>3. /\ s.num = 1 /\ s.solved = (o = Solution[d]) /\ s.started = (d = "speedrun")
          /\ s.gaveUp = FALSE /\ s.last = last /\ s.ids = {}
          /\ DOMAIN s = {"num", "last", "solved", "started", "gaveUp", "ids"}
      BY <2>2 DEF After, Fresh
    <3>4. last.order = o /\ last.marks = Marking(d, o) /\ last.num = 1
      OBVIOUS
    <3> HIDE DEF last
    <3>5. /\ {"num", "last", "solved", "started", "gaveUp", "ids"} \subseteq DOMAIN s
          /\ s.num \in Nat /\ s.solved \in BOOLEAN /\ s.started \in BOOLEAN
          /\ s.gaveUp \in BOOLEAN
      <4>1. {"num", "last", "solved", "started", "gaveUp", "ids"} \subseteq DOMAIN s
        BY <3>3
      <4>2. s.solved \in BOOLEAN
        BY <3>3, Zenon
      <4>3. s.started \in BOOLEAN
        BY <3>3, Zenon
      <4>4. s.num \in Nat
        BY <2>2 DEF After, Fresh
      <4>5. s.gaveUp \in BOOLEAN
        BY <2>2 DEF After, Fresh
      <4> QED BY <4>1, <4>2, <4>3, <4>4, <4>5
    <3> QED BY <3>1, <3>2, <3>3, <3>4, <3>5 DEF Sound
  <2> QED BY <2>1, <2>2 DEF Befores
<1>4. ServerInv
  BY <1>3 DEF Init, ServerInv
<1>5. LoadInv
  BY <1>1, <1>2, <1>4 DEF LoadInv, ServerInv, Done
<1>6. HandsInv /\ PageInv /\ SavedInv /\ CacheInv /\ Calls
  BY <1>1 DEF HandsInv, PageInv, SavedInv, CacheInv, Calls, CallInv, RevealInv, StartInv
<1> QED BY <1>4, <1>5, <1>6 DEF Recorded

LEMMA NextRecorded ==
  ASSUME TimelineScreenAssumption, RecordedInv, [Next]_vars
  PROVE  RecordedInv'
<1> SUFFICES ASSUME ~overtaken' PROVE Recorded'
  BY DEF RecordedInv
<1>1. CASE UNCHANGED vars
  <2>1. UNCHANGED <<difficulty, game, board, marks, accepted, solved, selected, drag, load,
                    call, reveal, start, cache, saved, server, shows, overtaken>>
    BY <1>1 DEF vars, shown, play, calls
  <2>2. Done' = Done /\ ServerInv' /\ HandsInv'
    BY <2>1 DEF Done, RecordedInv, Recorded, ServerInv, HandsInv
  <2> QED BY <2>1, <2>2, PageKept, CallsKept, CacheKept, LoadKept DEF RecordedInv, Recorded
<1>2. CASE Loading
  <2>1. UNCHANGED overtaken
    BY <1>2 DEF Loading, SelectDifficulty, AccountChanged, LoadAgain, LoadEffect, LoadAnswer,
                LoadFails, Reopen
  <2> QED BY <1>2, <2>1, LoadingRecorded DEF RecordedInv
<1>3. CASE Moving
  <2>1. UNCHANGED overtaken
    BY <1>3 DEF Moving, Tap, Grab, Key, TapEmpty, DropText, Release, Hand
  <2> QED BY <1>3, <2>1, MovingRecorded DEF RecordedInv
<1>4. CASE Calling
  <2>1. ~overtaken
    BY <1>4 DEF Calling, Submit, SubmitAnswer, CallFails, CooldownEnds, RevealAnswer,
                RevealFails, StartRun, StartAnswer, StartFails, GiveUp, GiveUpAnswer
  <2> QED BY <1>4, <2>1, CallingRecorded DEF RecordedInv
<1> QED BY <1>1, <1>2, <1>3, <1>4 DEF Next

LEMMA RecordedGives ==
  ASSUME TimelineScreenAssumption, RecordedInv, BoardHoldsACardOnce
  PROVE  ShownResultIsServers /\ ReopenKeepsBoard
<1> SUFFICES ASSUME ~overtaken, game # None
             PROVE  ShownResultIsServers /\ ReopenKeepsBoard
  BY DEF ShownResultIsServers, ReopenKeepsBoard
<1> DEFINE ch == game.ch
           s == server[ch]
           g == Payload(ch, s)
<1>1. /\ Shows(Done, ch, board, marks, solved) /\ accepted \in Nat
      /\ saved[ch] = [board |-> board, marks |-> marks, accepted |-> accepted,
                      solved |-> solved]
  BY DEF RecordedInv, Recorded, PageInv
<1>2. /\ ch \in Difficulties /\ board \in Boards(ch) /\ AnchorsHold(ch, board)
      /\ marks # None => marks \in Markings(ch)
                         /\ \A p \in Slots(ch) : marks[p] = "right" => board[p] = Solution[ch][p]
      /\ solved => ch \in Done /\ board = Solution[ch] /\ marks = Marking(ch, board)
      /\ marks \in Markings(ch) \cup {None} /\ solved \in BOOLEAN
  BY <1>1 DEF Shows
<1>3. ShownResultIsServers
  <2>1. DOMAIN board = Slots(ch)
    BY <1>2 DEF Boards
  <2>2. \A p \in DOMAIN board : Locked(p) => board[p] = Solution[ch][p]
    BY <1>2, <2>1 DEF Locked, MarkAt
  <2> QED BY <1>2, <2>2 DEF ShownResultIsServers, Done
<1>4. Sound(ch, s)
  BY <1>2 DEF RecordedInv, Recorded, ServerInv
<1>5. g.ch = ch /\ g.solved = s.solved /\ g.last = s.last
  BY DEF Payload
<1> HIDE DEF ch, s, g
<1>6. ASSUME {board[p] : p \in DOMAIN board} \subseteq Expected(g) \cup {None},
             accepted >= s.num, solved = s.solved
      PROVE  IF UseSaved(g, saved[ch]) THEN saved[ch].board = board /\ saved[ch].marks = marks
             ELSE g.last # None /\ g.last.order = board /\ g.last.marks = marks
  <2>1. CASE solved
    <3>1. ~UseSaved(g, saved[ch])
      BY <1>5, <1>6, <2>1 DEF UseSaved
    <3>2. /\ s.last # None /\ s.last.order = Solution[ch]
          /\ s.last.marks = Marking(ch, s.last.order)
      BY <1>4, <1>6, <2>1 DEF Sound
    <3> QED BY <1>2, <1>5, <2>1, <3>1, <3>2
  <2>2. CASE ~solved
    <3> DEFINE copy == [board |-> board, marks |-> marks, accepted |-> accepted,
                        solved |-> solved]
    <3>1. copy \in Copies(ch) /\ copy # None
      <4>1. copy \in Copies(ch)
        BY <1>1, <1>2 DEF Copies
      <4> QED BY <1>2, <4>1, NoneIsNoBoard
    <3>2. Restore(g, board) = board /\ board # None
      <4>1. DOMAIN board = Slots(ch)
        BY <1>2 DEF Boards
      <4> QED BY <1>2, <1>5, <1>6, <4>1, RestoreFits, NoneIsNoBoard DEF BoardHoldsACardOnce
    <3>3. accepted >= (IF g.last = None THEN 0 ELSE g.last.num)
      BY <1>1, <1>4, <1>5, <1>6 DEF Sound
    <3>4. UseSaved(g, saved[ch])
      BY <1>1, <1>5, <1>6, <2>2, <3>1, <3>2, <3>3 DEF UseSaved
    <3> QED BY <1>1, <3>4
  <2> QED BY <1>2, <2>1, <2>2
<1>7. ReopenKeepsBoard
  BY <1>6 DEF ReopenKeepsBoard, ch, s, g
<1> QED BY <1>3, <1>7

(* Until an answer is applied to another page than the one it was asked    *)
(* from: what the page marks right is right, what it shows as solved the   *)
(* server has solved, and the page opened again shows the same, for any    *)
(* games, orders submitted before, moves, calls and losses.                *)
THEOREM ShownResultIsServersAlways ==
  ASSUME TimelineScreenAssumption
  PROVE  Spec => [](ShownResultIsServers /\ ReopenKeepsBoard)
<1>1. Init => RecordedInv
  BY InitRecorded DEF RecordedInv
<1>2. RecordedInv /\ [Next]_vars => RecordedInv'
  BY NextRecorded
<1>3. RecordedInv /\ BoardHoldsACardOnce => ShownResultIsServers /\ ReopenKeepsBoard
  BY RecordedGives
<1>4. Spec => []BoardHoldsACardOnce
  BY BoardHoldsACardOnceAlways
<1> QED BY <1>1, <1>2, <1>3, <1>4, PTL DEF Spec

-----------------------------------------------------------------------------
(* TypeOK, of every page: an answer may be applied to another page than    *)
(* the one it was asked from.                                              *)

(* A row of the server. *)
Row(d) ==
  [num : Nat, last : Lasts(d) \cup {None}, solved : BOOLEAN, started : BOOLEAN,
   gaveUp : BOOLEAN, ids : SUBSET [id : Nat, order : Boards(d)]]

PageTyped ==
  /\ game # None => game \in Payloads
  /\ board \in AnyBoards /\ accepted \in Nat
  /\ solved \in BOOLEAN /\ started \in BOOLEAN /\ gaveUp \in BOOLEAN

SavedTyped ==
  /\ DOMAIN saved = Difficulties
  /\ \A d \in Difficulties : saved[d] # None =>
       saved[d].board \in AnyBoards /\ saved[d].accepted \in Nat /\ saved[d].solved \in BOOLEAN

ServerTyped == DOMAIN server = Difficulties /\ \A d \in Difficulties : server[d] \in Row(d)

CacheTyped ==
  DOMAIN cache = Difficulties /\ \A d \in Difficulties : cache[d] # None => cache[d] \in Payloads

(* A load is counted when it is shown. *)
LoadTyped ==
  /\ difficulty \in Difficulties
  /\ shows \in 0..MaxShows
  /\ load # None => /\ load.ch \in Difficulties /\ load.then \in Row(load.ch)
                    /\ shows < MaxShows

CallTyped ==
  /\ busy = (call # None)
  /\ call # None =>
       /\ call.of \in Payloads
       /\ call.kind = "submit" => call.num \in Nat
       /\ call.kind = "submit" /\ call.answer.ok =>
            /\ call.order \in Boards(call.of.ch) /\ call.answer.marks \in Markings(call.of.ch)
            /\ call.answer.left \in Nat \cup {None}

IdTyped == nextId \in 0..MaxSubmits /\ pending \in OrNone(1..nextId)

OthersTyped ==
  /\ reveal # None => reveal.ch \in Difficulties
  /\ start.asked # None /\ start.asked.ok => "speedrun" \in Difficulties

Typed ==
  /\ account \in BOOLEAN /\ HandsInv /\ PageTyped /\ SavedTyped /\ ServerTyped /\ CacheTyped
  /\ LoadTyped /\ CallTyped /\ IdTyped /\ OthersTyped

LEMMA BoardsAreAny ==
  ASSUME TimelineScreenAssumption, NEW d \in Difficulties
  PROVE  /\ Boards(d) \subseteq AnyBoards
         /\ Slots(d) \subseteq AllSlots /\ AllSlots \subseteq Nat \ {0}
         /\ Movable[d] \subseteq AllCards
<1>1. \A e \in Difficulties : Size[e] \in Nat
  BY DEF TimelineScreenAssumption
<1>2. AllSlots \subseteq Nat \ {0} /\ Slots(d) \subseteq AllSlots
  BY <1>1 DEF AllSlots, Slots
<1>3. Size[d] \in AllSlots \cup {0}
  <2>1. CASE Size[d] = 0
    BY <2>1
  <2>2. CASE Size[d] # 0
    <3>1. Size[d] \in Slots(d)
      BY <1>1, <2>2 DEF Slots
    <3> QED BY <1>2, <3>1
  <2> QED BY <2>1, <2>2
<1>4. Boards(d) \subseteq AnyBoards
  <2>1. Boards(d) = [1..Size[d] -> AllCards \cup {Junk, None}]
    BY DEF Boards, Slots
  <2> QED BY <1>3, <2>1 DEF AnyBoards
<1> QED BY <1>2, <1>4 DEF AllCards, Cards

(* A board of any game has slots from the first on. *)
LEMMA AnyBoardIs ==
  ASSUME NEW b
  PROVE  b \in AnyBoards <=>
           \E n \in AllSlots \cup {0} : b \in [1..n -> AllCards \cup {Junk, None}]
BY DEF AnyBoards

LEMMA FirstSlots ==
  ASSUME TimelineScreenAssumption, NEW n \in AllSlots \cup {0}
  PROVE  n \in Nat /\ 1..n \subseteq AllSlots
<1>1. \A e \in Difficulties : Size[e] \in Nat
  BY DEF TimelineScreenAssumption
<1>2. CASE n = 0
  BY <1>2
<1>3. CASE n \in AllSlots
  <2>1. PICK e \in Difficulties : n \in 1..Size[e]
    BY <1>3 DEF AllSlots, Slots
  <2>2. 1..n \subseteq 1..Size[e]
    BY <1>1, <2>1
  <2> QED BY <1>1, <2>1, <2>2 DEF AllSlots, Slots
<1> QED BY <1>2, <1>3

(* A board that fills the slots of a challenge is one of it. *)
LEMMA BoardOf ==
  ASSUME NEW d \in Difficulties, NEW b \in AnyBoards, DOMAIN b = Slots(d)
  PROVE  b \in Boards(d)
<1>1. PICK n \in AllSlots \cup {0} : b \in [1..n -> AllCards \cup {Junk, None}]
  BY AnyBoardIs
<1> QED BY <1>1 DEF Boards

(* The row that is stored is one, and an answer has marks for the board. *)
LEMMA StoredTyped ==
  ASSUME TimelineScreenAssumption, ServerTyped, NEW d \in Difficulties, NEW b \in AnyBoards,
         NEW id \in Nat
  PROVE  /\ Stored(d, id, b) \in Row(d)
         /\ Answered(d, id, b).ok =>
              /\ b \in Boards(d) /\ Answered(d, id, b).marks \in Markings(d)
              /\ Answered(d, id, b).left \in Nat \cup {None}
         /\ Answered(d, id, b) \in Answers
<1> DEFINE s == server[d]
           this == [order |-> b, marks |-> Marking(d, b), num |-> s.num + 1]
           entry == [id |-> id, order |-> b]
           next == [s EXCEPT !.num = @ + 1, !.solved = b = Solution[d],
                             !.ids = @ \cup {entry}, !.last = this]
           v == Verdict(d, id, b)
<1>1. s \in Row(d)
  BY DEF ServerTyped
<1>2. v \in {"ACCEPT", "REPLAY"} => b \in Boards(d)
  <2>1. CASE v = "REPLAY"
    <3>1. entry \in s.ids
      BY <2>1 DEF Verdict
    <3>2. entry \in [id : Nat, order : Boards(d)]
      BY <1>1, <3>1 DEF Row
    <3> QED BY <3>2
  <2>2. CASE v = "ACCEPT"
    <3>1. DOMAIN b = Slots(d)
      BY <2>2 DEF Verdict, ValidOrder
    <3> QED BY <3>1, BoardOf
  <2> QED BY <2>1, <2>2
<1>3. v \in Codes
  <2>1. ASSUME NEW A, NEW B, NEW C, NEW D, NEW E, NEW F
        PROVE  (IF A THEN "REPLAY" ELSE IF B THEN "REQUEST_ID_REUSED" ELSE IF C THEN "INVALID"
                ELSE IF D THEN "COMPLETED" ELSE IF E THEN "ATTEMPT_LIMIT_REACHED"
                ELSE IF F THEN "NOT_RUNNING" ELSE "ACCEPT") \in Codes
    BY DEF Codes
  <2> QED BY <2>1 DEF Verdict
<1>4. v = "ACCEPT" => Stored(d, id, b) = next
  BY DEF Stored
<1>5. v # "ACCEPT" => Stored(d, id, b) = s
  BY DEF Stored
<1>6. Answered(d, id, b) =
        IF v \in {"ACCEPT", "REPLAY"}
          THEN [ok |-> TRUE, marks |-> Marking(d, b), left |-> Left(d, Stored(d, id, b).num)]
          ELSE [ok |-> FALSE, code |-> v]
  BY DEF Answered
<1> HIDE DEF v
<1>7. v = "ACCEPT" => next \in Row(d)
  <2> SUFFICES ASSUME v = "ACCEPT" PROVE next \in Row(d)
    OBVIOUS
  <2>1. b \in Boards(d) /\ Marking(d, b) \in Markings(d)
    BY <1>2, MarkingIs
  <2>2. this \in Lasts(d)
    BY <1>1, <2>1 DEF Row, Lasts
  <2>3. s.ids \cup {entry} \in SUBSET [id : Nat, order : Boards(d)]
    BY <1>1, <2>1 DEF Row
  <2>4. (b = Solution[d]) \in BOOLEAN
    OBVIOUS
  <2>5. s.num + 1 \in Nat
    BY <1>1 DEF Row
  <2> HIDE DEF this, s, entry
  <2> QED BY <1>1, <2>2, <2>3, <2>4, <2>5 DEF Row
<1>8. Stored(d, id, b) \in Row(d)
  BY <1>1, <1>4, <1>5, <1>7
<1>9. CASE v \in {"ACCEPT", "REPLAY"}
  <2>1. Marking(d, b) \in Markings(d)
    BY <1>2, <1>9, MarkingIs
  <2>2. Stored(d, id, b).num \in Nat
    BY <1>8 DEF Row
  <2>3. Left(d, Stored(d, id, b).num) \in Nat \cup {None}
    BY <2>2, LeftIs
  <2>4. Answered(d, id, b) =
          [ok |-> TRUE, marks |-> Marking(d, b), left |-> Left(d, Stored(d, id, b).num)]
    BY <1>6, <1>9
  <2>5. Answered(d, id, b) \in Answers
    <3>1. Answered(d, id, b) \in
            [ok : {TRUE}, marks : UNION {Markings(e) : e \in Difficulties}, left : Nat \cup {None}]
      BY <2>1, <2>3, <2>4
    <3> QED BY <3>1 DEF Answers
  <2> QED BY <1>2, <1>8, <1>9, <2>1, <2>3, <2>4, <2>5
<1>10. CASE v \notin {"ACCEPT", "REPLAY"}
  <2>1. Answered(d, id, b) = [ok |-> FALSE, code |-> v]
    BY <1>6, <1>10
  <2>2. Answered(d, id, b) \in Answers
    <3>1. Answered(d, id, b) \in [ok : {FALSE}, code : Codes]
      BY <1>3, <2>1
    <3> QED BY <3>1 DEF Answers
  <2> QED BY <1>8, <2>1, <2>2
<1> QED BY <1>9, <1>10

(* What the server sends of a row is a payload. *)
LEMMA PayloadTyped ==
  ASSUME TimelineScreenAssumption, NEW d \in Difficulties, NEW s \in Row(d)
  PROVE  Payload(d, s) \in Payloads /\ Payload(d, s).ch = d
<1>1. Left(d, s.num) \in Nat \cup {None}
  BY LeftIs DEF Row
<1>2. s.last \in AllLasts \cup {None}
  BY DEF Row, AllLasts
<1>3. (IF d = "speedrun" /\ ~s.started /\ ~s.solved THEN {} ELSE Movable[d]) \in SUBSET AllCards
  BY BoardsAreAny
<1> QED BY <1>1, <1>2, <1>3 DEF Payload, Payloads, Row

LEMMA PayloadIs ==
  ASSUME NEW g \in Payloads
  PROVE  /\ g.ch \in Difficulties
         /\ g.solved \in BOOLEAN /\ g.started \in BOOLEAN /\ g.gaveUp \in BOOLEAN
         /\ g.cards \subseteq AllCards
         /\ g.last # None => \E d \in Difficulties : g.last \in Lasts(d)
BY DEF Payloads, AllLasts

(* hydrateGame *)
LEMMA ShowTyped ==
  ASSUME TimelineScreenAssumption, SavedTyped, NEW g \in Payloads, Show(g)
  PROVE  PageTyped' /\ selected' = None /\ shows' = shows + 1
<1> DEFINE d == g.ch
           copy == saved[d]
           use == UseSaved(g, copy)
           order == IF g.last = None THEN None ELSE Restore(g, g.last.order)
<1>1. /\ game' = g /\ shows' = shows + 1 /\ selected' = None
      /\ board' = IF use THEN copy.board ELSE IF order # None THEN order ELSE Initial(d)
      /\ accepted' = Larger(IF copy = None THEN 0 ELSE copy.accepted,
                            IF g.last = None THEN 0 ELSE g.last.num)
      /\ solved' = (g.solved \/ (use /\ copy.solved))
      /\ started' = g.started /\ gaveUp' = g.gaveUp
  BY DEF Show
<1>2. d \in Difficulties
  BY PayloadIs
<1>3. copy # None => copy.board \in AnyBoards /\ copy.accepted \in Nat /\ copy.solved \in BOOLEAN
  BY <1>2 DEF SavedTyped
<1>4. g.last # None => g.last.num \in Nat /\ g.last.order \in AnyBoards
  <2> SUFFICES ASSUME g.last # None PROVE g.last.num \in Nat /\ g.last.order \in AnyBoards
    OBVIOUS
  <2>1. PICK e \in Difficulties : g.last \in Lasts(e)
    BY PayloadIs
  <2>2. g.last.num \in Nat /\ g.last.order \in Boards(e)
    BY <2>1 DEF Lasts
  <2> QED BY <2>2, BoardsAreAny
<1>5. order # None => order \in AnyBoards
  BY <1>4 DEF Restore
<1>6. Initial(d) \in AnyBoards
  <2>1. Anchors(d) \subseteq Slots(d)
    BY <1>2 DEF TimelineScreenAssumption
  <2>2. \A p \in Anchors(d) : Anchor[d][p] \in AllCards
    BY <1>2 DEF AllCards, Cards
  <2> HIDE DEF d
  <2>3. Initial(d) \in Boards(d)
    BY <2>1, <2>2 DEF Initial, Boards
  <2> QED BY <1>2, <2>3, BoardsAreAny
<1>7. use => copy # None
  BY DEF UseSaved
<1>8. board' \in AnyBoards
  BY <1>1, <1>3, <1>5, <1>6, <1>7
<1>9. accepted' \in Nat
  BY <1>1, <1>3, <1>4 DEF Larger
<1>10. solved' \in BOOLEAN
  BY <1>1, Zenon
<1>11. started' \in BOOLEAN /\ gaveUp' \in BOOLEAN
  BY <1>1, PayloadIs
<1> QED BY <1>1, <1>8, <1>9, <1>10, <1>11 DEF PageTyped

(* What Save leaves in the storage. *)
LEMMA SaveTyped ==
  ASSUME SavedTyped, Save, board' \in AnyBoards, accepted' \in Nat, solved' \in BOOLEAN
  PROVE  SavedTyped'
<1> DEFINE copy == [board |-> board', marks |-> marks', accepted |-> accepted', solved |-> solved']
<1>1. \/ saved' = saved
      \/ saved' = [saved EXCEPT ![game'.ch] = copy]
  BY DEF Save
<1>2. copy.board \in AnyBoards /\ copy.accepted \in Nat /\ copy.solved \in BOOLEAN
  OBVIOUS
<1> HIDE DEF copy
<1>3. DOMAIN saved' = Difficulties
  BY <1>1 DEF SavedTyped
<1>4. \A d \in Difficulties : saved'[d] = saved[d] \/ saved'[d] = copy
  BY <1>1 DEF SavedTyped
<1> QED BY <1>2, <1>3, <1>4 DEF SavedTyped

(* moveModel, to a slot of any challenge. *)
LEMMA MoveTyped ==
  ASSUME TimelineScreenAssumption, board \in AnyBoards, NEW c \in AllCards \cup {Junk, None},
         NEW target \in AllSlots \cup {Tray}, MoveModel(c, target)
  PROVE  board' \in AnyBoards /\ pending' \in {pending, None} /\ selected' \in {selected, None}
<1> DEFINE next == Moved(board, Anchors(game.ch), c, target)
           source == Position(board, c)
<1>1. PICK n \in AllSlots \cup {0} : board \in [1..n -> AllCards \cup {Junk, None}]
  BY AnyBoardIs
<1>2. n \in Nat /\ target \in Nat
  BY FirstSlots DEF Tray
<1>3. next \in AnyBoards
  <2>1. CASE next = board
    BY <2>1
  <2>2. CASE next = [board EXCEPT ![source] = None]
    <3> HIDE DEF source, next
    <3>1. next \in [1..n -> AllCards \cup {Junk, None}]
      BY <1>1, <2>2
    <3> QED BY <3>1, AnyBoardIs
  <2>3. CASE next = [p \in DOMAIN board \cup 1..target |->
                       IF p = target THEN c ELSE IF p = source THEN At(board, target)
                       ELSE At(board, p)]
    <3>1. \A p : At(board, p) \in AllCards \cup {Junk, None}
      BY <1>1 DEF At
    <3>2. DOMAIN board \cup 1..target = 1..(IF n >= target THEN n ELSE target)
      BY <1>1, <1>2
    <3> HIDE DEF source, next
    <3>3. next \in [1..(IF n >= target THEN n ELSE target) -> AllCards \cup {Junk, None}]
      BY <2>3, <3>1, <3>2
    <3>4. (IF n >= target THEN n ELSE target) \in AllSlots \cup {0}
      BY DEF Tray
    <3> QED BY <3>3, <3>4, AnyBoardIs
  <2> QED BY <2>1, <2>2, <2>3 DEF Moved
<1>4. \/ UNCHANGED <<board, selected, pending>>
      \/ board' = next /\ selected' = None /\ pending' = None
  BY DEF MoveModel
<1> QED BY <1>3, <1>4

-----------------------------------------------------------------------------
LEMMA InitTyped ==
  ASSUME TimelineScreenAssumption, Init
  PROVE  Typed
<1>1. difficulty \in Difficulties /\ account \in BOOLEAN
  BY AllowedIsOne DEF Init
<1>2. ASSUME NEW d \in Difficulties, NEW s \in Befores(d)
      PROVE  s \in Row(d)
  <2>1. CASE s = Fresh
    BY <2>1 DEF Fresh, Row
  <2>2. ASSUME NEW o \in Earlier[d], s = After(d, o)
        PROVE  s \in Row(d)
    <3>1. o \in Boards(d)
      BY DEF TimelineScreenAssumption
    <3> DEFINE last == [order |-> o, marks |-> Marking(d, o), num |-> 1]
    <3>2. last \in Lasts(d)
      BY <3>1, MarkingIs DEF Lasts
    <3>3. s = [num |-> 1, last |-> last, solved |-> o = Solution[d], started |-> d = "speedrun",
               gaveUp |-> FALSE, ids |-> {}]
      BY <2>2 DEF After, Fresh
    <3>4. (o = Solution[d]) \in BOOLEAN /\ (d = "speedrun") \in BOOLEAN
      OBVIOUS
    <3> HIDE DEF last
    <3> QED BY <3>2, <3>3, <3>4 DEF Row
  <2> QED BY <2>1, <2>2 DEF Befores
<1>3. ServerTyped
  BY <1>2 DEF Init, ServerTyped
<1>4. <<>> \in AnyBoards
  <2>1. <<>> \in [1..0 -> AllCards \cup {Junk, None}]
    OBVIOUS
  <2> QED BY <2>1, AnyBoardIs
<1>5. PageTyped /\ HandsInv
  BY <1>4 DEF Init, PageTyped, HandsInv
<1>6. SavedTyped /\ CacheTyped
  BY DEF Init, SavedTyped, CacheTyped
<1>7. LoadTyped
  <2>1. load = [ch |-> difficulty, then |-> server[difficulty]] /\ shows = 0
    BY DEF Init
  <2>2. 0 < MaxShows /\ MaxShows \in Nat
    BY DEF TimelineScreenAssumption
  <2> QED BY <1>1, <1>3, <2>1, <2>2 DEF LoadTyped, ServerTyped
<1>8. CallTyped /\ OthersTyped
  BY DEF Init, CallTyped, OthersTyped
<1>9. IdTyped
  BY DEF Init, IdTyped, OrNone, TimelineScreenAssumption
<1> QED BY <1>1, <1>3, <1>5, <1>6, <1>7, <1>8, <1>9 DEF Typed

LEMMA LoadEffectTyped ==
  ASSUME TimelineScreenAssumption, Typed, NEW wanted \in Difficulties, NEW known \in BOOLEAN,
         NEW kept, DOMAIN kept = Difficulties,
         \A d \in Difficulties : kept[d] # None => kept[d] \in Payloads,
         LoadEffect(wanted, known, kept)
  PROVE  Typed'
<1> DEFINE d == Allowed(wanted, known)
<1>1. d \in Difficulties
  BY AllowedIsOne
<1>2. /\ shows < MaxShows /\ difficulty' = d /\ account' = known /\ cache' = kept /\ Save
      /\ UNCHANGED <<drag, busy, pending, call, start, reveal, server, nextId>>
  BY DEF LoadEffect, play
<1>3. shows \in Nat /\ MaxShows \in Nat
  BY DEF Typed, LoadTyped, TimelineScreenAssumption
<1>4. PageTyped' /\ HandsInv' /\ LoadTyped'
  <2>1. CASE kept[d] # None
    <3>1. Show(kept[d]) /\ load' = None
      BY <2>1 DEF LoadEffect
    <3>2. PageTyped' /\ selected' = None /\ shows' = shows + 1
      BY <1>1, <2>1, <3>1, ShowTyped DEF Typed
    <3> HIDE DEF d
    <3> QED BY <1>1, <1>2, <1>3, <3>1, <3>2 DEF Typed, HandsInv, LoadTyped
  <2>2. CASE kept[d] = None
    <3>1. load' = [ch |-> d, then |-> server[d]] /\ UNCHANGED <<shown, shows>>
      BY <2>2 DEF LoadEffect
    <3>2. server[d] \in Row(d)
      BY <1>1 DEF Typed, ServerTyped
    <3> HIDE DEF d
    <3>3. LoadTyped'
      BY <1>1, <1>2, <1>3, <3>1, <3>2 DEF LoadTyped
    <3> QED BY <1>2, <3>1, <3>3 DEF Typed, HandsInv, PageTyped, shown
  <2> QED BY <2>1, <2>2
<1>5. SavedTyped'
  BY <1>2, <1>4, SaveTyped DEF Typed, PageTyped
<1>6. CacheTyped' /\ ServerTyped'
  BY <1>2 DEF Typed, CacheTyped, ServerTyped
<1>7. CallTyped' /\ IdTyped' /\ OthersTyped'
  BY <1>2 DEF Typed, CallTyped, IdTyped, OthersTyped
<1> QED BY <1>2, <1>4, <1>5, <1>6, <1>7 DEF Typed

LEMMA LoadingTyped ==
  ASSUME TimelineScreenAssumption, Typed, Loading
  PROVE  Typed'
<1>1. difficulty \in Difficulties /\ account \in BOOLEAN /\ CacheTyped
  BY DEF Typed, LoadTyped
<1>2. ASSUME NEW d \in Difficulties, SelectDifficulty(d)
      PROVE  Typed'
  BY <1>1, <1>2, LoadEffectTyped DEF SelectDifficulty, CacheTyped
<1>3. CASE AccountChanged
  <2>1. (~account) \in BOOLEAN
    OBVIOUS
  <2> QED BY <1>1, <1>3, <2>1, LoadEffectTyped DEF AccountChanged, CacheTyped
<1>4. CASE LoadAgain
  <2> DEFINE kept == [cache EXCEPT ![difficulty] = None]
  <2>1. DOMAIN kept = Difficulties /\ \A d \in Difficulties : kept[d] # None => kept[d] \in Payloads
    BY <1>1 DEF CacheTyped
  <2>2. LoadEffect(difficulty, account, kept)
    BY <1>4 DEF LoadAgain
  <2> HIDE DEF kept
  <2> QED BY <1>1, <2>1, <2>2, LoadEffectTyped
<1>5. CASE LoadAnswer
  <2>1. /\ load.ch \in Difficulties /\ load.then \in Row(load.ch) /\ shows < MaxShows
        /\ shows \in Nat /\ MaxShows \in Nat
    BY <1>5 DEF LoadAnswer, Typed, LoadTyped, TimelineScreenAssumption
  <2>2. PICK s \in {load.then, server[load.ch]} :
          /\ Show(Payload(load.ch, s))
          /\ cache' = [cache EXCEPT ![difficulty] = Payload(load.ch, s)]
    BY <1>5 DEF LoadAnswer
  <2>3. /\ load' = None /\ Save
        /\ UNCHANGED <<account, difficulty, drag, busy, pending, call, start, reveal, server,
                       nextId>>
    BY <1>5 DEF LoadAnswer, play
  <2>4. s \in Row(load.ch)
    BY <2>1 DEF Typed, ServerTyped
  <2>5. Payload(load.ch, s) \in Payloads
    BY <2>1, <2>4, PayloadTyped
  <2>6. PageTyped' /\ selected' = None /\ shows' = shows + 1
    BY <2>2, <2>5, ShowTyped DEF Typed
  <2>7. SavedTyped'
    BY <2>3, <2>6, SaveTyped DEF Typed, PageTyped
  <2>8. CacheTyped' /\ ServerTyped'
    BY <2>2, <2>3, <2>5 DEF Typed, CacheTyped, ServerTyped
  <2>9. CallTyped' /\ IdTyped' /\ OthersTyped' /\ HandsInv'
    BY <2>3, <2>6 DEF Typed, CallTyped, IdTyped, OthersTyped, HandsInv
  <2>10. LoadTyped'
    BY <1>1, <2>1, <2>3, <2>6 DEF LoadTyped
  <2> QED BY <1>1, <2>3, <2>6, <2>7, <2>8, <2>9, <2>10 DEF Typed
<1>6. CASE LoadFails
  <2>1. /\ load' = None
        /\ UNCHANGED <<account, difficulty, game, board, accepted, solved, started, gaveUp,
                       selected, drag, busy, pending, call, start, reveal, cache, saved,
                       server, shows, nextId>>
    BY <1>6 DEF LoadFails, shown, play
  <2> QED BY <2>1 DEF Typed, HandsInv, PageTyped, SavedTyped, ServerTyped, CacheTyped,
                      LoadTyped, CallTyped, IdTyped, OthersTyped
<1>7. CASE Reopen
  <2>1. PICK d \in Difficulties : difficulty' = Allowed(d, account)
    BY <1>7 DEF Reopen
  <2>2. difficulty' \in Difficulties
    BY <2>1, AllowedIsOne
  <2>3. /\ shows < MaxShows /\ game' = None /\ board' = <<>> /\ accepted' = 0
        /\ solved' = FALSE /\ started' = FALSE /\ gaveUp' = FALSE /\ selected' = None
        /\ drag' = None /\ busy' = FALSE /\ pending' = None
        /\ load' = [ch |-> difficulty', then |-> server[difficulty']]
        /\ call' = None /\ reveal' = None /\ start' = [promise |-> FALSE, asked |-> None]
        /\ cache' = [e \in Difficulties |-> None]
        /\ UNCHANGED <<account, saved, server, shows, nextId>>
    BY <1>7 DEF Reopen
  <2>4. <<>> \in AnyBoards
    <3>1. <<>> \in [1..0 -> AllCards \cup {Junk, None}]
      OBVIOUS
    <3> QED BY <3>1, AnyBoardIs
  <2>5. PageTyped' /\ HandsInv'
    BY <2>3, <2>4 DEF PageTyped, HandsInv
  <2>6. LoadTyped'
    <3>1. server[difficulty'] \in Row(difficulty')
      BY <2>2 DEF Typed, ServerTyped
    <3>2. load' # None => load'.ch = difficulty' /\ load'.then = server[difficulty']
      BY <2>3
    <3> QED BY <2>2, <2>3, <3>1, <3>2 DEF Typed, LoadTyped
  <2>7. SavedTyped' /\ ServerTyped' /\ CacheTyped'
    BY <2>3 DEF Typed, SavedTyped, ServerTyped, CacheTyped
  <2>8. CallTyped' /\ OthersTyped'
    BY <2>3 DEF CallTyped, OthersTyped
  <2>9. IdTyped'
    BY <2>3 DEF Typed, IdTyped, OrNone
  <2> QED BY <1>1, <2>3, <2>5, <2>6, <2>7, <2>8, <2>9 DEF Typed
<1> QED BY <1>2, <1>3, <1>4, <1>5, <1>6, <1>7 DEF Loading

(* Whatever is moved, and a key: to a slot there is. *)
LEMMA MovingTyped ==
  ASSUME TimelineScreenAssumption, Typed, Moving
  PROVE  Typed'
<1>1. CASE \E c \in AllCards : Grab(c)
  <2>1. /\ drag' \in AllCards
        /\ UNCHANGED <<account, difficulty, game, board, accepted, solved, started, gaveUp,
                       selected, busy, pending, load, call, start, reveal, cache, saved,
                       server, shows, nextId>>
    BY <1>1 DEF Grab, shown, calls
  <2> QED BY <2>1 DEF Typed, HandsInv, PageTyped, SavedTyped, ServerTyped, CacheTyped,
                      LoadTyped, CallTyped, IdTyped, OthersTyped
<1>2. ASSUME ~\E c \in AllCards : Grab(c)
      PROVE  /\ game # None /\ Hand /\ drag' \in {drag, None}
             /\ \/ UNCHANGED <<board, pending>> /\ selected' \in AllCards \cup {selected, None}
                \/ \E c \in AllCards \cup {Junk, None}, target \in AllSlots \cup {Tray} :
                     MoveModel(c, target)
  <2>1. selected \in AllCards \cup {None} /\ drag \in AllCards \cup {None}
    BY DEF Typed, HandsInv
  <2>2. game # None => Slots(game.ch) \subseteq AllSlots
    BY BoardsAreAny, PayloadIs DEF Typed, PageTyped
  <2>3. ASSUME NEW c \in AllCards, Tap(c)
        PROVE  /\ game # None /\ Hand /\ drag' \in {drag, None}
               /\ \/ UNCHANGED <<board, pending>> /\ selected' \in AllCards \cup {selected, None}
                  \/ \E e \in AllCards \cup {Junk, None}, target \in AllSlots \cup {Tray} :
                       MoveModel(e, target)
    BY <2>1, <2>2, <2>3 DEF Tap, MayMove, OnBoard
  <2>4. ASSUME NEW p, TapEmpty(p)
        PROVE  /\ game # None /\ Hand /\ drag' \in {drag, None}
               /\ \E e \in AllCards \cup {Junk, None}, target \in AllSlots \cup {Tray} :
                       MoveModel(e, target)
    BY <2>1, <2>2, <2>4 DEF TapEmpty, MayMove
  <2>5. ASSUME NEW p, DropText(p) \/ Release(p)
        PROVE  /\ game # None /\ Hand /\ drag' \in {drag, None}
               /\ \/ UNCHANGED <<board, pending, selected>>
                  \/ \E e \in AllCards \cup {Junk, None}, target \in AllSlots \cup {Tray} :
                       MoveModel(e, target)
    BY <2>1, <2>2, <2>5 DEF DropText, Release, MayMove, Targets
  <2>6. ASSUME NEW c \in AllCards, NEW direction \in {-1, 1}, Key(c, direction)
        PROVE  /\ game # None /\ Hand /\ drag' \in {drag, None}
               /\ \E e \in AllCards \cup {Junk, None}, target \in AllSlots \cup {Tray} :
                       MoveModel(e, target)
    <3> DEFINE size == Cardinality(DOMAIN board)
               p == Position(board, c)
               target == Adjacent(p, direction, size, Anchors(game.ch))
    <3>1. game # None /\ Hand /\ UNCHANGED drag /\ MoveModel(c, target) /\ p \in Slots(game.ch)
      BY <2>6 DEF Key, MayMove, OnBoard
    <3>2. PICK n \in AllSlots \cup {0} : board \in [1..n -> AllCards \cup {Junk, None}]
      BY AnyBoardIs DEF Typed, PageTyped
    <3>3. n \in Nat /\ 1..n \subseteq AllSlots /\ size = n
      BY <3>2, FirstSlots, FS_Interval
    <3>4. p \in AllSlots /\ p \in Nat
      BY <2>2, <3>1, FirstSlots
    <3> HIDE DEF p, size
    <3>5. target \in AllSlots
      BY <3>3, <3>4, AdjacentIs
    <3> HIDE DEF target
    <3> QED BY <3>1, <3>5
  <2> QED BY <1>2, <2>3, <2>4, <2>5, <2>6 DEF Moving
<1>3. CASE ~\E c \in AllCards : Grab(c)
  <2>1. /\ Save /\ drag' \in {drag, None}
        /\ UNCHANGED <<account, difficulty, game, accepted, solved, started, gaveUp, busy, load,
                       call, start, reveal, cache, server, shows, nextId>>
    BY <1>2, <1>3 DEF Hand, calls
  <2>2. /\ board' \in AnyBoards /\ pending' \in {pending, None}
        /\ selected' \in AllCards \cup {selected, None}
    <3>1. board \in AnyBoards
      BY DEF Typed, PageTyped
    <3>2. ASSUME NEW c \in AllCards \cup {Junk, None}, NEW target \in AllSlots \cup {Tray},
                 MoveModel(c, target)
          PROVE  /\ board' \in AnyBoards /\ pending' \in {pending, None}
                 /\ selected' \in AllCards \cup {selected, None}
      BY <3>1, <3>2, MoveTyped
    <3> QED BY <1>2, <1>3, <3>1, <3>2
  <2>3. PageTyped' /\ HandsInv'
    BY <2>1, <2>2 DEF Typed, PageTyped, HandsInv
  <2>4. SavedTyped'
    BY <2>1, <2>3, SaveTyped DEF Typed, PageTyped
  <2>5. CallTyped' /\ LoadTyped' /\ OthersTyped'
    BY <2>1 DEF Typed, CallTyped, LoadTyped, OthersTyped
  <2>6. IdTyped'
    BY <2>1, <2>2 DEF Typed, IdTyped, OrNone
  <2>7. CacheTyped' /\ ServerTyped'
    BY <2>1 DEF Typed, CacheTyped, ServerTyped
  <2> QED BY <2>1, <2>3, <2>4, <2>5, <2>6, <2>7 DEF Typed
<1> QED BY <1>1, <1>3

(* The answers that put a game on the page put a payload there, and copies *)
(* of it.                                                                  *)
LEMMA CallingTyped ==
  ASSUME TimelineScreenAssumption, Typed, Calling
  PROVE  Typed'
<1>1. CASE Submit
  <2> DEFINE id == IF pending = None THEN nextId + 1 ELSE pending
             ch == game.ch
  <2>1. PICK out \in Outcomes :
          /\ server' = IF out = "not sent" THEN server
                       ELSE [server EXCEPT ![ch] = Stored(ch, id, board)]
          /\ call' = [kind |-> "submit", of |-> game, order |-> board, diff |-> difficulty,
                      num |-> accepted, shows |-> shows,
                      answer |-> IF out = "answered" THEN Answered(ch, id, board) ELSE NoAnswer]
    BY <1>1 DEF Submit
  <2>2. /\ game # None /\ (pending = None => nextId < MaxSubmits)
        /\ pending' = id /\ nextId' = (IF pending = None THEN id ELSE nextId) /\ busy' = TRUE
        /\ UNCHANGED <<account, difficulty, game, board, accepted, solved, started, gaveUp,
                       selected, drag, load, start, reveal, cache, saved, shows>>
    BY <1>1 DEF Submit, CanSubmit, shown
  <2>3. /\ game \in Payloads /\ ch \in Difficulties /\ board \in AnyBoards /\ accepted \in Nat
        /\ shows \in Nat /\ difficulty \in Difficulties
    BY <2>2, PayloadIs DEF Typed, PageTyped, LoadTyped, TimelineScreenAssumption
  <2>4. id \in Nat /\ IdTyped'
    <3>1. nextId \in 0..MaxSubmits /\ MaxSubmits \in Nat
          /\ (pending # None => pending \in 1..nextId)
      BY DEF Typed, IdTyped, OrNone, TimelineScreenAssumption
    <3>2. CASE pending = None
      BY <2>2, <3>1, <3>2 DEF IdTyped, OrNone
    <3>3. CASE pending # None
      BY <2>2, <3>1, <3>3 DEF IdTyped, OrNone
    <3> QED BY <3>2, <3>3
  <2> HIDE DEF id, ch
  <2>5. /\ Stored(ch, id, board) \in Row(ch)
        /\ Answered(ch, id, board).ok =>
             /\ board \in Boards(ch) /\ Answered(ch, id, board).marks \in Markings(ch)
             /\ Answered(ch, id, board).left \in Nat \cup {None}
        /\ Answered(ch, id, board) \in Answers
    BY <2>3, <2>4, StoredTyped DEF Typed
  <2>6. ServerTyped'
    BY <2>1, <2>5 DEF Typed, ServerTyped
  <2> DEFINE answer == IF out = "answered" THEN Answered(ch, id, board) ELSE NoAnswer
  <2>7. /\ answer \in Answers
        /\ answer.ok => /\ board \in Boards(ch) /\ answer.marks \in Markings(ch)
                        /\ answer.left \in Nat \cup {None}
    <3>1. NoAnswer \in [ok : {FALSE}, code : Codes] /\ ~NoAnswer.ok
      BY DEF NoAnswer, Codes
    <3>2. NoAnswer \in Answers
      BY <3>1 DEF Answers
    <3> QED BY <2>5, <3>1, <3>2
  <2>8. call' = [kind |-> "submit", of |-> game, order |-> board, diff |-> difficulty,
                 num |-> accepted, shows |-> shows, answer |-> answer]
    BY <2>1
  <2> HIDE DEF answer
  <2>9. call' \in PlayerCalls
    <3>1. call' \in [kind : {"submit"}, of : Payloads, order : AnyBoards, diff : Difficulties,
                     num : Nat, shows : Nat, answer : Answers]
      BY <2>3, <2>7, <2>8
    <3> QED BY <3>1 DEF PlayerCalls
  <2>10. call' # None
    BY <2>9 DEF TimelineScreenAssumption
  <2>11. CallTyped'
    <3>1. /\ call'.of = game /\ call'.num = accepted /\ call'.order = board
          /\ call'.answer = answer
      BY <2>8
    <3>2. (busy = (call # None))'
      BY <2>2, <2>10
    <3> QED BY <2>3, <2>7, <3>1, <3>2 DEF CallTyped, ch
  <2>12. PageTyped' /\ HandsInv' /\ SavedTyped' /\ CacheTyped'
    BY <2>2 DEF Typed, PageTyped, HandsInv, SavedTyped, CacheTyped
  <2>13. LoadTyped' /\ OthersTyped'
    BY <2>2 DEF Typed, LoadTyped, OthersTyped
  <2> QED BY <2>2, <2>4, <2>6, <2>11, <2>12, <2>13 DEF Typed
<1>2. CASE SubmitAnswer
  <2> DEFINE of == call.of
             won == Won(call.answer.marks)
             last == [order |-> call.order, marks |-> call.answer.marks, num |-> call.num + 1]
             kept == [of EXCEPT !.solved = won, !.remaining = call.answer.left, !.last = last]
  <2>1. /\ Save /\ accepted' = accepted + 1 /\ solved' = won /\ game' = of
        /\ cache' = [cache EXCEPT ![call.diff] = kept]
        /\ reveal' = IF won THEN [ch |-> call.of.ch, diff |-> call.diff, shows |-> shows]
                     ELSE reveal
        /\ pending' = None /\ busy' = FALSE /\ call' = None
        /\ UNCHANGED <<account, difficulty, board, started, gaveUp, selected, drag, load, start,
                       server, shows, nextId>>
    BY <1>2 DEF SubmitAnswer
  <2>2. /\ of \in Payloads /\ call.num \in Nat /\ call.order \in Boards(of.ch)
        /\ call.answer.marks \in Markings(of.ch) /\ call.answer.left \in Nat \cup {None}
    BY <1>2 DEF SubmitAnswer, Typed, CallTyped
  <2>3. of.ch \in Difficulties
    BY <2>2, PayloadIs
  <2>4. won \in BOOLEAN
    BY DEF Won
  <2>5. last \in AllLasts
    <3>1. last \in Lasts(of.ch)
      BY <2>2 DEF Lasts
    <3> QED BY <2>3, <3>1 DEF AllLasts
  <2> HIDE DEF won, last, of
  <2>6. kept \in Payloads
    BY <2>2, <2>4, <2>5 DEF Payloads
  <2> HIDE DEF kept
  <2>7. PageTyped' /\ HandsInv'
    BY <2>1, <2>2, <2>4 DEF Typed, PageTyped, HandsInv
  <2>8. SavedTyped'
    BY <2>1, <2>7, SaveTyped DEF Typed, PageTyped
  <2>9. CacheTyped' /\ ServerTyped'
    BY <2>1, <2>6 DEF Typed, CacheTyped, ServerTyped
  <2>10. LoadTyped' /\ CallTyped'
    BY <2>1 DEF Typed, LoadTyped, CallTyped
  <2>11. OthersTyped'
    <3>1. reveal' # None => reveal'.ch \in Difficulties
      BY <2>1, <2>3 DEF Typed, OthersTyped, of
    <3> QED BY <2>1, <3>1 DEF Typed, OthersTyped
  <2>12. IdTyped'
    BY <2>1 DEF Typed, IdTyped, OrNone
  <2> QED BY <2>1, <2>7, <2>8, <2>9, <2>10, <2>11, <2>12 DEF Typed
<1>3. CASE CallFails
  <2>1. /\ busy' = FALSE /\ call' = None
        /\ UNCHANGED <<account, difficulty, game, board, accepted, solved, started, gaveUp,
                       selected, drag, pending, load, start, reveal, cache, saved,
                       server, shows, nextId>>
    BY <1>3 DEF CallFails
  <2> QED BY <2>1 DEF Typed, HandsInv, PageTyped, SavedTyped, ServerTyped, CacheTyped,
                      LoadTyped, CallTyped, IdTyped, OthersTyped
<1>4. CASE CooldownEnds \/ RevealFails \/ StartFails
  <2>1. /\ reveal' \in {reveal, None} /\ start' \in {start, [promise |-> FALSE, asked |-> None]}
        /\ UNCHANGED <<account, difficulty, game, board, accepted, solved, started, gaveUp,
                       selected, drag, busy, pending, load, call, cache, saved,
                       server, shows, nextId>>
    BY <1>4 DEF CooldownEnds, RevealFails, StartFails, shown, play, calls
  <2>2. OthersTyped'
    BY <2>1 DEF Typed, OthersTyped
  <2> QED BY <2>1, <2>2 DEF Typed, HandsInv, PageTyped, SavedTyped, ServerTyped, CacheTyped,
                            LoadTyped, CallTyped, IdTyped
<1>5. CASE RevealAnswer
  <2> DEFINE g == Payload(reveal.ch, server[reveal.ch])
  <2>1. /\ Save /\ cache' = [cache EXCEPT ![reveal.diff] = g] /\ game' = g /\ reveal' = None
        /\ UNCHANGED <<account, difficulty, board, accepted, solved, started, gaveUp, selected,
                       drag, busy, pending, load, call, start, server, shows, nextId>>
    BY <1>5 DEF RevealAnswer, play
  <2>2. reveal.ch \in Difficulties
    BY <1>5 DEF RevealAnswer, Typed, OthersTyped
  <2>3. g \in Payloads
    BY <2>2, PayloadTyped DEF Typed, ServerTyped
  <2> HIDE DEF g
  <2>4. PageTyped' /\ HandsInv'
    BY <2>1, <2>3 DEF Typed, PageTyped, HandsInv
  <2>5. SavedTyped'
    BY <2>1, <2>4, SaveTyped DEF Typed, PageTyped
  <2>6. CacheTyped' /\ ServerTyped'
    BY <2>1, <2>3 DEF Typed, CacheTyped, ServerTyped
  <2> QED BY <2>1, <2>4, <2>5, <2>6 DEF Typed, LoadTyped, CallTyped, IdTyped, OthersTyped
<1>6. CASE StartRun
  <2>1. PICK out \in Outcomes :
          /\ start' = [promise |-> TRUE,
                       asked |-> [ok |-> out = "answered" /\ game.ch = "speedrun",
                                  shows |-> shows]]
          /\ server' = IF out = "not sent" \/ game.ch # "speedrun" THEN server
                       ELSE [server EXCEPT !["speedrun"].started = TRUE]
    BY <1>6 DEF StartRun
  <2>2. /\ game # None
        /\ UNCHANGED <<account, difficulty, game, board, accepted, solved, started, gaveUp,
                       selected, drag, busy, pending, load, call, reveal, cache, saved, shows,
                       nextId>>
    BY <1>6 DEF StartRun, shown, play
  <2>3. game.ch \in Difficulties
    BY <2>2, PayloadIs DEF Typed, PageTyped
  <2>4. OthersTyped'
    <3>1. start'.asked.ok => game.ch = "speedrun"
      BY <2>1
    <3> QED BY <2>2, <2>3, <3>1 DEF Typed, OthersTyped
  <2>5. ServerTyped'
    <3>1. CASE server' = server
      BY <3>1 DEF Typed, ServerTyped
    <3>2. CASE "speedrun" \in Difficulties /\ server' = [server EXCEPT !["speedrun"].started = TRUE]
      <4>1. [server["speedrun"] EXCEPT !.started = TRUE] \in Row("speedrun")
        BY <3>2 DEF Typed, ServerTyped, Row
      <4> QED BY <3>2, <4>1 DEF Typed, ServerTyped
    <3> QED BY <2>1, <2>3, <3>1, <3>2
  <2> QED BY <2>2, <2>4, <2>5 DEF Typed, HandsInv, PageTyped, SavedTyped, CacheTyped, LoadTyped,
                                  CallTyped, IdTyped
<1>7. CASE StartAnswer
  <2>1. /\ Save /\ started' = TRUE /\ start' = [start EXCEPT !.asked = None]
        /\ cache' = IF cache["speedrun"] = None THEN cache
                    ELSE [cache EXCEPT !["speedrun"].cards = Movable["speedrun"],
                                       !["speedrun"].started = TRUE]
        /\ game' = IF game = None THEN None
                   ELSE [game EXCEPT !.cards = Movable["speedrun"], !.started = TRUE]
        /\ UNCHANGED <<account, difficulty, board, accepted, solved, gaveUp, selected, drag,
                       busy, pending, load, call, reveal, server, shows, nextId>>
    BY <1>7 DEF StartAnswer, play
  <2>2. "speedrun" \in Difficulties
    BY <1>7 DEF StartAnswer, Typed, OthersTyped
  <2>3. Movable["speedrun"] \in SUBSET AllCards
    BY <2>2, BoardsAreAny
  <2>4. ASSUME NEW g \in Payloads
        PROVE  [g EXCEPT !.cards = Movable["speedrun"], !.started = TRUE] \in Payloads
    BY <2>3 DEF Payloads
  <2>5. game' # None => game' \in Payloads
    BY <2>1, <2>4 DEF Typed, PageTyped
  <2>6. CacheTyped'
    <3> DEFINE g == [cache["speedrun"] EXCEPT !.cards = Movable["speedrun"], !.started = TRUE]
    <3>1. CASE cache["speedrun"] = None
      BY <2>1, <3>1 DEF Typed, CacheTyped
    <3>2. CASE cache["speedrun"] # None
      <4>1. g \in Payloads
        BY <2>2, <2>4, <3>2 DEF Typed, CacheTyped
      <4>2. cache' = [cache EXCEPT !["speedrun"] = g]
        BY <2>1, <2>2, <3>2 DEF Typed, CacheTyped
      <4> HIDE DEF g
      <4> QED BY <4>1, <4>2 DEF Typed, CacheTyped
    <3> QED BY <3>1, <3>2
  <2>7. PageTyped' /\ HandsInv'
    BY <2>1, <2>5 DEF Typed, PageTyped, HandsInv
  <2>8. SavedTyped'
    BY <2>1, <2>7, SaveTyped DEF Typed, PageTyped
  <2>9. OthersTyped'
    BY <2>1, <2>2 DEF Typed, OthersTyped
  <2> QED BY <2>1, <2>6, <2>7, <2>8, <2>9 DEF Typed, ServerTyped, LoadTyped, CallTyped, IdTyped
<1>8. CASE GiveUp
  <2>1. PICK out \in Outcomes, fits \in BOOLEAN :
          /\ fits => game.ch = "speedrun"
          /\ server' = IF out # "not sent" /\ fits
                         THEN [server EXCEPT !["speedrun"].gaveUp = TRUE] ELSE server
          /\ call' = [kind |-> "give up", of |-> game, order |-> board, diff |-> difficulty,
                      shows |-> shows,
                      answer |-> IF out = "answered" /\ fits THEN [ok |-> TRUE] ELSE NoAnswer]
    BY <1>8 DEF GiveUp
  <2>2. /\ game # None /\ busy' = TRUE
        /\ UNCHANGED <<account, difficulty, game, board, accepted, solved, started, gaveUp,
                       selected, drag, pending, load, start, reveal, cache, saved, shows, nextId>>
    BY <1>8 DEF GiveUp, shown
  <2>3. /\ game \in Payloads /\ game.ch \in Difficulties /\ board \in AnyBoards
        /\ shows \in Nat /\ difficulty \in Difficulties
    BY <2>2, PayloadIs DEF Typed, PageTyped, LoadTyped, TimelineScreenAssumption
  <2>4. ServerTyped'
    <3>1. CASE server' = server
      BY <3>1 DEF Typed, ServerTyped
    <3>2. CASE "speedrun" \in Difficulties /\ server' = [server EXCEPT !["speedrun"].gaveUp = TRUE]
      <4>1. [server["speedrun"] EXCEPT !.gaveUp = TRUE] \in Row("speedrun")
        BY <3>2 DEF Typed, ServerTyped, Row
      <4> QED BY <3>2, <4>1 DEF Typed, ServerTyped
    <3> QED BY <2>1, <2>3, <3>1, <3>2
  <2> DEFINE answer == IF out = "answered" /\ fits THEN [ok |-> TRUE] ELSE NoAnswer
  <2>5. answer \in Answers
    <3>1. [ok |-> TRUE] \in [ok : {TRUE}] /\ NoAnswer \in [ok : {FALSE}, code : Codes]
      BY DEF NoAnswer, Codes
    <3> QED BY <3>1 DEF Answers
  <2>6. call' = [kind |-> "give up", of |-> game, order |-> board, diff |-> difficulty,
                 shows |-> shows, answer |-> answer]
    BY <2>1
  <2> HIDE DEF answer
  <2>7. call' # None
    <3>1. call' \in [kind : {"give up"}, of : Payloads, order : AnyBoards, diff : Difficulties,
                     shows : Nat, answer : Answers]
      BY <2>3, <2>5, <2>6
    <3> QED BY <3>1 DEF PlayerCalls, TimelineScreenAssumption
  <2>8. CallTyped'
    <3>1. call'.kind = "give up" /\ call'.of = game
      BY <2>6
    <3>2. (busy = (call # None))'
      BY <2>2, <2>7
    <3> QED BY <2>3, <3>1, <3>2 DEF CallTyped
  <2> QED BY <2>2, <2>4, <2>8 DEF Typed, HandsInv, PageTyped, SavedTyped, CacheTyped, LoadTyped,
                                  IdTyped, OthersTyped
<1>9. CASE GiveUpAnswer
  <2> DEFINE unfinished == [call.of EXCEPT !.gaveUp = TRUE]
  <2>1. /\ Save /\ game' = unfinished /\ cache' = [cache EXCEPT ![call.diff] = unfinished]
        /\ gaveUp' = TRUE /\ selected' = None /\ busy' = FALSE /\ call' = None
        /\ UNCHANGED <<account, difficulty, board, accepted, solved, started, drag, pending,
                       load, start, reveal, server, shows, nextId>>
    BY <1>9 DEF GiveUpAnswer
  <2>2. unfinished \in Payloads
    BY <1>9 DEF GiveUpAnswer, Typed, CallTyped, Payloads
  <2> HIDE DEF unfinished
  <2>3. PageTyped' /\ HandsInv'
    BY <2>1, <2>2 DEF Typed, PageTyped, HandsInv
  <2>4. SavedTyped'
    BY <2>1, <2>3, SaveTyped DEF Typed, PageTyped
  <2>5. CacheTyped' /\ ServerTyped'
    BY <2>1, <2>2 DEF Typed, CacheTyped, ServerTyped
  <2> QED BY <2>1, <2>3, <2>4, <2>5 DEF Typed, LoadTyped, CallTyped, IdTyped, OthersTyped
<1> QED BY <1>1, <1>2, <1>3, <1>4, <1>5, <1>6, <1>7, <1>8, <1>9 DEF Calling

(* Every field of the page holds a value of its kind, whatever is loaded,  *)
(* moved, submitted, started or given up, and whichever answer comes late. *)
THEOREM TypeOKAlways ==
  ASSUME TimelineScreenAssumption
  PROVE  Spec => []TypeOK
<1>1. Init => Typed
  BY InitTyped
<1>2. ASSUME Typed, [Next]_vars PROVE Typed'
  <2>1. CASE Next
    BY <1>2, <2>1, LoadingTyped, MovingTyped, CallingTyped DEF Next
  <2>2. CASE UNCHANGED vars
    BY <1>2, <2>2 DEF vars, shown, play, calls, Typed, HandsInv, PageTyped, SavedTyped,
                      ServerTyped, CacheTyped, LoadTyped, CallTyped, IdTyped, OthersTyped
  <2> QED BY <1>2, <2>1, <2>2
<1>3. Typed => TypeOK
  <2> SUFFICES ASSUME Typed PROVE TypeOK
    OBVIOUS
  <2>1. DOMAIN board \subseteq Nat
    <3>1. PICK n \in AllSlots \cup {0} : board \in [1..n -> AllCards \cup {Junk, None}]
      BY AnyBoardIs DEF Typed, PageTyped
    <3> QED BY <3>1, FirstSlots
  <2>2. game = None \/ game.ch \in Difficulties
    BY PayloadIs DEF Typed, PageTyped
  <2> QED BY <2>1, <2>2 DEF Typed, PageTyped, LoadTyped, CallTyped, IdTyped, TypeOK
<1> QED BY <1>1, <1>2, <1>3, PTL DEF Spec
=============================================================================
