-------------------------- MODULE SimVenue_proofs --------------------------
(***************************************************************************)
(* Once the simulated venue has reported an order as cancelled no later    *)
(* trade meets it, for any number of orders, of any size, and however the  *)
(* sleeps of its two consumers overlap.  The invariant follows an order's  *)
(* submission: it is asked for once, and it is off the ORDERS queue and    *)
(* out of its handler before the order can rest, so nothing puts an order  *)
(* back that a cancel has taken off.                                       *)
(*                                                                         *)
(* Nor does it sell more of an order than was asked for: the lots of an    *)
(* order are in one place at a time, on the book, with the handler or the  *)
(* match that fills it, or told; and the OMS counts each of those told.    *)
(***************************************************************************)
EXTENDS SimVenue, Sums_proofs

Mine == [qty : Nat, cum : Nat, status : Status]
Held == [qty : Nat, leaves : Nat, on : BOOLEAN]

SimRequest ==
  [do : {"submit", "cancel", "amend"}, id : SimOrders, qty : Nat, kind : SimKinds \union {None}]
SimAnswer ==
  [id : SimOrders, is : {"ACKNOWLEDGED", "REJECTED", "CANCELLED", "AMENDED"}, qty : Nat]
SimExecution == [id : SimOrders, qty : Nat]

SimTypeOK ==
  /\ mine \in [SimOrders -> Mine \union {None}]
  /\ reqs \in Seq(SimRequest) /\ answerQ \in Seq(SimAnswer) /\ fillQ \in Seq(SimExecution)
  /\ resting \in [SimOrders -> Held \union {None}]
  /\ server \in [at : {"idle", "submit", "cancel", "amend", "filling"},
                 req : SimRequest \union {None}, rest : Nat]
  /\ server.at # "idle" => server.req \in SimRequest
  /\ matcher \in [at : {"idle", "visit", "match", "second"}, todo : SUBSET SimOrders,
                  id : SimOrders \union {None}, rest : Nat]
  /\ filled \in [SimOrders -> Int] /\ closed \subseteq SimOrders

(* All traffic is about orders that have been placed. *)
Placed(o) == mine[o] \in Mine
AllPlaced(q) == \A n \in DOMAIN q : Placed(q[n].id)

Traffic ==
  /\ AllPlaced(reqs) /\ AllPlaced(answerQ) /\ AllPlaced(fillQ)
  /\ server.at # "idle" => Placed(server.req.id)
  /\ \A o \in SimOrders : resting[o] \in Held => Placed(o)

(* Where the submission of an order may be. *)
InQueue(o) == \E n \in DOMAIN reqs : reqs[n].do = "submit" /\ reqs[n].id = o
InHand(o) == server.at \in {"submit", "filling"} /\ server.req.id = o

SubmittedOnce ==
  /\ \A m, n \in DOMAIN reqs :
       reqs[m].do = "submit" /\ reqs[n].do = "submit" /\ reqs[m].id = reqs[n].id => m = n
  /\ \A o \in SimOrders : ~(InQueue(o) /\ InHand(o))

(* Nothing rests before it has been submitted, nor is submitted twice. *)
RestsAfter == \A o \in SimOrders : InQueue(o) \/ InHand(o) => resting[o] \notin Held

(* What was reported as cancelled was known and is off the book; what is being
   matched is known. *)
ClosedOff == \A o \in closed : resting[o] \in Held /\ ~resting[o].on
MatcherHolds ==
  matcher.at \in {"match", "second"} => matcher.id \in SimOrders /\ resting[matcher.id] \in Held

SimInv == SimTypeOK /\ Traffic /\ SubmittedOnce /\ RestsAfter /\ ClosedOff /\ MatcherHolds

LEMMA SimInitInv == SimInit => SimInv
BY SimAssumption
   DEF SimInit, SimInv, SimTypeOK, SubmittedOnce, RestsAfter, ClosedOff, MatcherHolds, InQueue,
       InHand, Idle, Still, Held, SimRequest, SimAnswer, SimExecution, Traffic, AllPlaced

(* Orders of the OMS stay orders. *)
LEMMA TransitionMine ==
  ASSUME NEW m \in Mine, NEW s \in Status
  PROVE  Transition(m, s) \in Mine
BY DEF Transition, Moved, Mine

LEMMA AnswerMine ==
  ASSUME NEW m \in Mine, NEW a \in SimAnswer
  PROVE  AnswerTaken(m, a) \in Mine
<1>1. a.is # "AMENDED" => a.is \in Status
  BY DEF SimAnswer, Status, Active, Pending, Resting, Terminal
<1>2. "ACKNOWLEDGED" \in Status
  BY DEF Status, Active, Resting
<1> QED
  BY <1>1, <1>2, TransitionMine DEF AnswerTaken, Moved, Mine, SimAnswer

LEMMA FillMine ==
  ASSUME NEW m \in Mine, NEW q \in Nat
  PROVE  RecordFill(m, q) \in Mine /\ ApplyFill(m, q) \in Mine
<1>1. RecordFill(m, q) \in Mine
  BY DEF RecordFill, Mine
<1>2. {"FILLED", "PARTIALLY_FILLED"} \subseteq Status
  BY DEF Status, Active, Resting, Terminal
<1> QED
  BY <1>1, <1>2, TransitionMine DEF ApplyFill

(* No order there is one that is not. *)
LEMMA SomethingIsThere ==
  /\ \A m \in Mine : m # None
  /\ \A h \in Held : h # None
BY SimAssumption DEF Mine, Held

(* What a step of the OMS leaves alone.  An order once placed stays so. *)
LEMMA OmsMoves ==
  ASSUME SimInv, NEW o \in SimOrders, NEW m \in Mine, mine' = [mine EXCEPT ![o] = m],
         UNCHANGED <<resting, server, matcher, filled, closed>>
  PROVE  /\ mine' \in [SimOrders -> Mine \union {None}]
         /\ Placed(o)' /\ \A p \in SimOrders : Placed(p) => Placed(p)'
         /\ (server.at # "idle" => Placed(server.req.id))'
         /\ \A p \in SimOrders : resting'[p] \in Held => Placed(p)'
         /\ ClosedOff' /\ MatcherHolds'
<1>1. /\ mine' \in [SimOrders -> Mine \union {None}]
      /\ Placed(o)' /\ \A p \in SimOrders : Placed(p) => Placed(p)'
  BY DEF SimInv, SimTypeOK, Placed
<1>2. \A p \in SimOrders : resting'[p] \in Held => Placed(p)'
  BY <1>1 DEF SimInv, Traffic
<1>3. (server.at # "idle" => Placed(server.req.id))'
  BY <1>1 DEF SimInv, SimTypeOK, Traffic, SimRequest
<1>4. ClosedOff' /\ MatcherHolds'
  BY DEF SimInv, ClosedOff, MatcherHolds
<1> QED
  BY <1>1, <1>2, <1>3, <1>4

(* All of a queue stays placed, with one more that is placed, or with one less. *)
LEMMA StayPlaced ==
  ASSUME \A p \in SimOrders : Placed(p) => Placed(p)',
         NEW S, \A s \in S : s.id \in SimOrders, NEW q \in Seq(S), AllPlaced(q), NEW Q,
         \A n \in DOMAIN Q : \/ \E k \in DOMAIN q : Q[n] = q[k]
                            \/ Placed(Q[n].id)'
  PROVE  \A n \in DOMAIN Q : Placed(Q[n].id)'
<1>1. \A k \in DOMAIN q : q[k].id \in SimOrders
  BY ElementOfSeq, LenProperties
<1> QED
  BY <1>1 DEF AllPlaced

LEMMA AnswersStay ==
  ASSUME SimInv, \A p \in SimOrders : Placed(p) => Placed(p)', UNCHANGED answerQ
  PROVE  AllPlaced(answerQ)'
<1>1. \A n \in DOMAIN answerQ : answerQ[n] \in SimAnswer
  BY ElementOfSeq, LenProperties DEF SimInv, SimTypeOK
<1> QED
  BY <1>1 DEF SimInv, Traffic, AllPlaced, SimAnswer

LEMMA FillsStay ==
  ASSUME SimInv, \A p \in SimOrders : Placed(p) => Placed(p)', UNCHANGED fillQ
  PROVE  AllPlaced(fillQ)'
<1>1. \A n \in DOMAIN fillQ : fillQ[n] \in SimExecution
  BY ElementOfSeq, LenProperties DEF SimInv, SimTypeOK
<1> QED
  BY <1>1 DEF SimInv, Traffic, AllPlaced, SimExecution

LEMMA RequestsStay ==
  ASSUME SimInv, \A p \in SimOrders : Placed(p) => Placed(p)', UNCHANGED reqs
  PROVE  AllPlaced(reqs)'
<1>1. \A n \in DOMAIN reqs : reqs[n] \in SimRequest
  BY ElementOfSeq, LenProperties DEF SimInv, SimTypeOK
<1> QED
  BY <1>1 DEF SimInv, Traffic, AllPlaced, SimRequest

(* A request added by the OMS: a submission is of an order that was not placed. *)
LEMMA Requested ==
  ASSUME SimInv, NEW r \in SimRequest, reqs' = Append(reqs, r), Placed(r.id)',
         r.do = "submit" => ~Placed(r.id),
         \A p \in SimOrders : Placed(p) => Placed(p)', UNCHANGED <<resting, server>>
  PROVE  reqs' \in Seq(SimRequest) /\ AllPlaced(reqs)' /\ SubmittedOnce' /\ RestsAfter'
<1>1. /\ reqs \in Seq(SimRequest) /\ AllPlaced(reqs)
      /\ Len(reqs) \in Nat /\ DOMAIN reqs = 1..Len(reqs)
  BY LenProperties DEF SimInv, SimTypeOK, Traffic
<1>2. \A n \in DOMAIN reqs : reqs[n] \in SimRequest /\ Placed(reqs[n].id)
  BY <1>1, ElementOfSeq DEF AllPlaced
<1>3. PICK Q : Q = reqs'
  OBVIOUS
<1>4. /\ Q \in Seq(SimRequest)
      /\ \A n \in DOMAIN Q : (n = Len(reqs) + 1 /\ Q[n] = r)
                            \/ (n \in DOMAIN reqs /\ Q[n] = reqs[n])
  BY <1>1, <1>3, Queued
<1>5. ASSUME NEW n \in DOMAIN Q
      PROVE  Placed(Q[n].id)'
  BY <1>2, <1>4 DEF SimRequest
<1>6. \A p \in SimOrders : InQueue(p)' => InQueue(p) \/ (r.do = "submit" /\ r.id = p)
  BY <1>3, <1>4 DEF InQueue
<1>7. \A p \in SimOrders : /\ InHand(p)' <=> InHand(p)
                           /\ InHand(p) \/ InQueue(p) \/ resting[p] \in Held => Placed(p)
  BY <1>2 DEF InHand, InQueue, SimInv, SimTypeOK, Traffic
<1>8. RestsAfter'
  <2>1. ASSUME NEW p \in SimOrders, InQueue(p)' \/ InHand(p)'
        PROVE  resting[p] \notin Held
    <3>1. CASE InQueue(p) \/ InHand(p)
      BY <3>1 DEF SimInv, RestsAfter
    <3>2. CASE r.do = "submit" /\ r.id = p
      BY <1>7, <3>2 DEF Placed
    <3> QED
      BY <1>6, <1>7, <2>1, <3>1, <3>2 DEF InHand
  <2> QED
    BY <2>1 DEF RestsAfter
<1>9. SubmittedOnce'
  <2>1. ASSUME NEW p \in SimOrders, InQueue(p)', InHand(p)'
        PROVE  FALSE
    <3>1. InHand(p) /\ Placed(p) /\ ~InQueue(p)
      BY <1>7, <2>1 DEF SimInv, SubmittedOnce, InHand
    <3>2. r.do = "submit" /\ r.id = p
      BY <1>6, <2>1, <3>1
    <3> QED
      BY <3>1, <3>2 DEF Placed
  <2>2. \A k, n \in DOMAIN Q :
          Q[k].do = "submit" /\ Q[n].do = "submit" /\ Q[k].id = Q[n].id => k = n
    BY <1>2, <1>4 DEF SimInv, SubmittedOnce
  <2> QED
    BY <1>3, <2>1, <2>2 DEF SubmittedOnce
<1> QED
  BY <1>3, <1>4, <1>5, <1>8, <1>9 DEF AllPlaced

LEMMA NothingRequested ==
  ASSUME SimInv, UNCHANGED <<reqs, resting, server>>
  PROVE  reqs' \in Seq(SimRequest) /\ SubmittedOnce' /\ RestsAfter'
BY DEF SimInv, SimTypeOK, SubmittedOnce, RestsAfter, InQueue, InHand

----------------------------------------------------------------------------
(* The OMS's steps *)

LEMMA OmsStep ==
  ASSUME SimInv, NEW o \in SimOrders, NEW m \in Mine, mine' = [mine EXCEPT ![o] = m],
         UNCHANGED <<resting, server, matcher, filled, closed>>,
         reqs' \in Seq(SimRequest), SubmittedOnce', RestsAfter',
         answerQ' \in Seq(SimAnswer), fillQ' \in Seq(SimExecution),
         AllPlaced(reqs)', AllPlaced(answerQ)', AllPlaced(fillQ)'
  PROVE  SimInv'
<1>1. /\ mine' \in [SimOrders -> Mine \union {None}]
      /\ (server.at # "idle" => Placed(server.req.id))'
      /\ \A p \in SimOrders : resting'[p] \in Held => Placed(p)'
      /\ ClosedOff' /\ MatcherHolds'
  BY OmsMoves
<1>2. SimTypeOK'
  BY <1>1 DEF SimInv, SimTypeOK
<1>3. Traffic'
  BY <1>1 DEF Traffic, Placed
<1> QED
  BY <1>1, <1>2, <1>3 DEF SimInv

LEMMA OmsAsks ==
  ASSUME SimInv, NEW o \in SimOrders, NEW m \in Mine, mine' = [mine EXCEPT ![o] = m],
         UNCHANGED <<resting, server, matcher, answerQ, fillQ, filled, closed>>,
         NEW r \in SimRequest, reqs' = Append(reqs, r), r.id = o, r.do = "submit" => mine[o] = None
  PROVE  SimInv'
<1>1. Placed(o)' /\ \A p \in SimOrders : Placed(p) => Placed(p)'
  BY OmsMoves
<1>2. reqs' \in Seq(SimRequest) /\ AllPlaced(reqs)' /\ SubmittedOnce' /\ RestsAfter'
  <2>1. Placed(r.id)'
    BY <1>1 DEF Placed
  <2>2. r.do = "submit" => ~Placed(r.id)
    BY SomethingIsThere DEF Placed
  <2> QED
    BY <1>1, <2>1, <2>2, Requested
<1>3. AllPlaced(answerQ)' /\ AllPlaced(fillQ)'
  BY <1>1, AnswersStay, FillsStay
<1>4. answerQ' \in Seq(SimAnswer) /\ fillQ' \in Seq(SimExecution)
  BY DEF SimInv, SimTypeOK
<1> QED
  BY <1>2, <1>3, <1>4, OmsStep

LEMMA SimPlaceStep ==
  ASSUME SimInv, NEW o \in SimOrders, NEW q \in 1..MaxLot, NEW kind \in SimKinds,
         SimPlace(o, q, kind)
  PROVE  SimInv'
<1> DEFINE m == [qty |-> q, cum |-> 0, status |-> "PENDING_NEW"]
           r == [do |-> "submit", id |-> o, qty |-> q, kind |-> kind]
<1>1. m \in Mine /\ r \in SimRequest
  BY SimAssumption DEF Mine, Status, Active, Pending, SimRequest
<1> QED
  BY <1>1, OmsAsks DEF SimPlace

LEMMA SimAskStep ==
  ASSUME SimInv, NEW o \in SimOrders, NEW do \in {"cancel", "amend"},
         NEW status \in {"PENDING_CANCEL", "PENDING_AMEND"}, NEW q \in Nat,
         SimAsk(o, do, status, q)
  PROVE  SimInv'
<1> DEFINE m == Moved(mine[o], status)
           r == [do |-> do, id |-> o, qty |-> q, kind |-> None]
<1>1. mine[o] \in Mine
  BY DEF SimAsk, SimInv, SimTypeOK
<1>2. m \in Mine /\ r \in SimRequest
  BY <1>1 DEF Moved, Mine, Status, Active, Pending, Resting, SimRequest
<1>3. mine' = [mine EXCEPT ![o] = m]
  BY DEF SimAsk, SimInv, SimTypeOK
<1> QED
  BY <1>2, <1>3, OmsAsks DEF SimAsk

LEMMA OnAnswerStep ==
  ASSUME SimInv, OnAnswer
  PROVE  SimInv'
<1>1. PICK a, Q : a = Head(answerQ) /\ Q = Tail(answerQ)
  OBVIOUS
<1>2. answerQ \in Seq(SimAnswer) /\ answerQ # << >>
  BY DEF SimInv, SimTypeOK, OnAnswer
<1>3. /\ a \in SimAnswer /\ Q \in Seq(SimAnswer) /\ 1 \in DOMAIN answerQ /\ a = answerQ[1]
      /\ \A n \in DOMAIN Q : n + 1 \in DOMAIN answerQ /\ Q[n] = answerQ[n + 1]
  BY <1>1, <1>2, Dequeued
<1>4. a.id \in SimOrders /\ mine[a.id] \in Mine
  BY <1>3 DEF SimInv, Traffic, AllPlaced, Placed, SimAnswer
<1> DEFINE m == AnswerTaken(mine[a.id], a)
<1>5. m \in Mine
  BY <1>3, <1>4, AnswerMine
<1>6. mine' = [mine EXCEPT ![a.id] = m]
  BY <1>1, <1>4 DEF OnAnswer, SimInv, SimTypeOK
<1> HIDE DEF m
<1>7. UNCHANGED <<resting, server, matcher, filled, closed, reqs, fillQ>> /\ answerQ' = Q
  BY <1>1 DEF OnAnswer
<1>8. \A p \in SimOrders : Placed(p) => Placed(p)'
  BY <1>4, <1>5, <1>6, <1>7, OmsMoves
<1>9. AllPlaced(answerQ)'
  <2>1. ASSUME NEW n \in DOMAIN Q
        PROVE  Placed(Q[n].id)'
    <3>1. /\ Q[n] \in SimAnswer /\ Placed(Q[n].id)
      BY <1>3, ElementOfSeq, LenProperties DEF SimInv, Traffic, AllPlaced
    <3> QED
      BY <1>8, <3>1 DEF SimAnswer, Placed
  <2> QED
    BY <1>7, <2>1 DEF AllPlaced
<1>10. AllPlaced(reqs)' /\ AllPlaced(fillQ)'
  BY <1>7, <1>8, RequestsStay, FillsStay
<1>11. reqs' \in Seq(SimRequest) /\ SubmittedOnce' /\ RestsAfter'
  BY <1>7, NothingRequested
<1>12. answerQ' \in Seq(SimAnswer) /\ fillQ' \in Seq(SimExecution)
  BY <1>3, <1>7 DEF SimInv, SimTypeOK
<1> QED
  BY <1>4, <1>5, <1>6, <1>7, <1>9, <1>10, <1>11, <1>12, OmsStep

LEMMA OnSimFillStep ==
  ASSUME SimInv, OnSimFill
  PROVE  SimInv'
<1>1. PICK f, Q : f = Head(fillQ) /\ Q = Tail(fillQ)
  OBVIOUS
<1>2. fillQ \in Seq(SimExecution) /\ fillQ # << >>
  BY DEF SimInv, SimTypeOK, OnSimFill
<1>3. /\ f \in SimExecution /\ Q \in Seq(SimExecution) /\ 1 \in DOMAIN fillQ /\ f = fillQ[1]
      /\ \A n \in DOMAIN Q : n + 1 \in DOMAIN fillQ /\ Q[n] = fillQ[n + 1]
  BY <1>1, <1>2, Dequeued
<1>4. f.id \in SimOrders /\ mine[f.id] \in Mine /\ f.qty \in Nat
  BY <1>3 DEF SimInv, Traffic, AllPlaced, Placed, SimExecution
<1> DEFINE m == IF IsTerminal(mine[f.id]) THEN RecordFill(mine[f.id], f.qty)
                ELSE ApplyFill(mine[f.id], f.qty)
<1>5. m \in Mine
  BY <1>4, FillMine
<1>6. mine' = [mine EXCEPT ![f.id] = m]
  BY <1>1, <1>4 DEF OnSimFill, SimInv, SimTypeOK
<1> HIDE DEF m
<1>7. UNCHANGED <<resting, server, matcher, filled, closed, reqs, answerQ>> /\ fillQ' = Q
  BY <1>1 DEF OnSimFill
<1>8. \A p \in SimOrders : Placed(p) => Placed(p)'
  BY <1>4, <1>5, <1>6, <1>7, OmsMoves
<1>9. AllPlaced(fillQ)'
  <2>1. ASSUME NEW n \in DOMAIN Q
        PROVE  Placed(Q[n].id)'
    <3>1. /\ Q[n] \in SimExecution /\ Placed(Q[n].id)
      BY <1>3, ElementOfSeq, LenProperties DEF SimInv, Traffic, AllPlaced
    <3> QED
      BY <1>8, <3>1 DEF SimExecution, Placed
  <2> QED
    BY <1>7, <2>1 DEF AllPlaced
<1>10. AllPlaced(reqs)' /\ AllPlaced(answerQ)'
  BY <1>7, <1>8, RequestsStay, AnswersStay
<1>11. reqs' \in Seq(SimRequest) /\ SubmittedOnce' /\ RestsAfter'
  BY <1>7, NothingRequested
<1>12. answerQ' \in Seq(SimAnswer) /\ fillQ' \in Seq(SimExecution)
  BY <1>3, <1>7 DEF SimInv, SimTypeOK
<1> QED
  BY <1>4, <1>5, <1>6, <1>7, <1>9, <1>10, <1>11, <1>12, OmsStep

----------------------------------------------------------------------------
(* The venue's publishes *)

LEMMA SaysPlaced ==
  ASSUME SimInv, NEW o \in SimOrders, Placed(o), UNCHANGED mine, NEW q \in Nat,
         NEW is \in {"ACKNOWLEDGED", "REJECTED", "CANCELLED", "AMENDED"}, Says(o, is, q)
  PROVE  answerQ' \in Seq(SimAnswer) /\ AllPlaced(answerQ)'
<1>1. PICK a, Q : a = [id |-> o, is |-> is, qty |-> q] /\ Q = answerQ'
  OBVIOUS
<1>2. a \in SimAnswer /\ a.id = o /\ answerQ \in Seq(SimAnswer)
  BY <1>1 DEF SimAnswer, SimInv, SimTypeOK
<1>3. Q = Append(answerQ, a)
  BY <1>1 DEF Says
<1>4. /\ Q \in Seq(SimAnswer)
      /\ \A n \in DOMAIN Q : (n = Len(answerQ) + 1 /\ Q[n] = a)
                            \/ (n \in DOMAIN answerQ /\ Q[n] = answerQ[n])
  BY <1>2, <1>3, Queued
<1>5. \A n \in DOMAIN Q : mine[Q[n].id] \in Mine
  BY <1>2, <1>4 DEF SimInv, Traffic, AllPlaced, Placed
<1> QED
  BY <1>1, <1>4, <1>5 DEF AllPlaced, Placed

LEMMA FillsPlaced ==
  ASSUME SimInv, NEW o \in SimOrders, Placed(o), UNCHANGED mine, NEW q \in Nat, Fills(o, q)
  PROVE  /\ fillQ' \in Seq(SimExecution) /\ AllPlaced(fillQ)'
         /\ filled' \in [SimOrders -> Int]
<1>1. PICK f, Q : f = [id |-> o, qty |-> q] /\ Q = fillQ'
  OBVIOUS
<1>2. f \in SimExecution /\ f.id = o /\ fillQ \in Seq(SimExecution)
  BY <1>1 DEF SimExecution, SimInv, SimTypeOK
<1>3. Q = Append(fillQ, f)
  BY <1>1 DEF Fills
<1>4. /\ Q \in Seq(SimExecution)
      /\ \A n \in DOMAIN Q : (n = Len(fillQ) + 1 /\ Q[n] = f)
                            \/ (n \in DOMAIN fillQ /\ Q[n] = fillQ[n])
  BY <1>2, <1>3, Queued
<1>5. \A n \in DOMAIN Q : mine[Q[n].id] \in Mine
  BY <1>2, <1>4 DEF SimInv, Traffic, AllPlaced, Placed
<1>6. filled' \in [SimOrders -> Int]
  BY DEF Fills, SimInv, SimTypeOK
<1> QED
  BY <1>1, <1>4, <1>5, <1>6 DEF AllPlaced, Placed

LEMMA SaysNothing ==
  ASSUME SimInv, UNCHANGED <<mine, answerQ>>
  PROVE  answerQ' \in Seq(SimAnswer) /\ AllPlaced(answerQ)'
BY AnswersStay DEF Placed, SimInv, SimTypeOK

LEMMA FillsNothing ==
  ASSUME SimInv, UNCHANGED mine, Quiet
  PROVE  fillQ' \in Seq(SimExecution) /\ AllPlaced(fillQ)' /\ filled' \in [SimOrders -> Int]
BY FillsStay DEF Placed, SimInv, SimTypeOK, Quiet

(* What is to be shown of a step of the venue: its handler drops or keeps the request
   it has, and an order comes to rest only when its submission is over. *)
LEMMA VenueStep ==
  ASSUME SimInv, UNCHANGED <<mine, reqs>>,
         server' \in [at : {"idle", "submit", "cancel", "amend", "filling"},
                     req : SimRequest \union {None}, rest : Nat],
         server'.at = "idle" \/ server'.req = server.req,
         server'.at \in {"idle", server.at} \/ (server.at = "submit" /\ server'.at = "filling"),
         resting' \in [SimOrders -> Held \union {None}],
         \A p \in SimOrders :
           resting'[p] \in Held => resting[p] \in Held \/ (InHand(p) /\ server'.at = "idle"),
         matcher' \in [at : {"idle", "visit", "match", "second"}, todo : SUBSET SimOrders,
                      id : SimOrders \union {None}, rest : Nat],
         filled' \in [SimOrders -> Int], closed' \subseteq SimOrders,
         answerQ' \in Seq(SimAnswer), fillQ' \in Seq(SimExecution),
         AllPlaced(answerQ)', AllPlaced(fillQ)', ClosedOff', MatcherHolds'
  PROVE  SimInv'
<1>1. /\ server'.at # "idle" => /\ server.at # "idle"
                               /\ server'.req \in SimRequest /\ Placed(server.req.id)
      /\ \A p \in SimOrders : InHand(p) => Placed(p)
  BY DEF SimInv, SimTypeOK, Traffic, InHand
<1>2. SimTypeOK'
  BY <1>1 DEF SimInv, SimTypeOK
<1>3. Traffic'
  <2>1. AllPlaced(reqs)'
    BY RequestsStay DEF Placed
  <2>2. (server.at # "idle" => Placed(server.req.id))'
    BY <1>1 DEF Placed
  <2>3. \A p \in SimOrders : resting'[p] \in Held => Placed(p)'
    BY <1>1 DEF SimInv, Traffic, Placed
  <2> QED
    BY <2>1, <2>2, <2>3 DEF Traffic
<1>5. SubmittedOnce'
  BY DEF SimInv, SubmittedOnce, InQueue, InHand
<1>6. RestsAfter'
  <2>1. ASSUME NEW p \in SimOrders, InQueue(p)' \/ InHand(p)', resting'[p] \in Held
        PROVE  FALSE
    <3>1. InQueue(p) \/ (InHand(p) /\ server'.at # "idle")
      BY <2>1 DEF InQueue, InHand
    <3>2. resting[p] \notin Held
      BY <3>1 DEF SimInv, RestsAfter
    <3> QED
      BY <2>1, <3>1, <3>2 DEF SimInv, SubmittedOnce
  <2> QED
    BY <2>1 DEF RestsAfter
<1> QED
  BY <1>2, <1>3, <1>5, <1>6 DEF SimInv

(* The request a handler sleeps with. *)
LEMMA InService ==
  ASSUME SimInv, server.at # "idle"
  PROVE  /\ server.req \in SimRequest /\ server.req.id \in SimOrders /\ server.req.qty \in Nat
         /\ Placed(server.req.id) /\ server.rest \in Nat
BY DEF SimInv, SimTypeOK, Traffic, SimRequest

----------------------------------------------------------------------------
(* The ORDERS consumer's steps *)

LEMMA ServeNextStep ==
  ASSUME SimInv, ServeNext
  PROVE  SimInv'
<1>1. PICK r, Q : r = Head(reqs) /\ Q = Tail(reqs)
  OBVIOUS
<1>2. reqs \in Seq(SimRequest) /\ reqs # << >>
  BY DEF SimInv, SimTypeOK, ServeNext
<1>3. /\ r \in SimRequest /\ Q \in Seq(SimRequest) /\ 1 \in DOMAIN reqs /\ r = reqs[1]
      /\ \A n \in DOMAIN Q : /\ n \in Nat /\ n >= 1 /\ n + 1 \in DOMAIN reqs
                            /\ Q[n] = reqs[n + 1]
  BY <1>1, <1>2, Dequeued
<1>4. /\ server.at = "idle" /\ server' = [at |-> r.do, req |-> r, rest |-> 0] /\ reqs' = Q
      /\ UNCHANGED <<mine, resting, matcher, answerQ, fillQ, filled, closed>>
  BY <1>1 DEF ServeNext
<1>5. r.id \in SimOrders /\ Placed(r.id) /\ r.do \in {"submit", "cancel", "amend"}
  BY <1>3 DEF SimInv, Traffic, AllPlaced, SimRequest
<1>6. SimTypeOK'
  BY <1>3, <1>4, <1>5 DEF SimInv, SimTypeOK
<1>7. Traffic'
  <2>1. AllPlaced(reqs)'
    BY <1>3, <1>4 DEF SimInv, Traffic, AllPlaced, Placed
  <2>2. AllPlaced(answerQ)' /\ AllPlaced(fillQ)'
    BY <1>4, AnswersStay, FillsStay DEF Placed
  <2>3. (server.at # "idle" => Placed(server.req.id))'
    BY <1>4, <1>5 DEF Placed
  <2>4. \A p \in SimOrders : resting'[p] \in Held => Placed(p)'
    BY <1>4 DEF SimInv, Traffic, Placed
  <2> QED
    BY <2>1, <2>2, <2>3, <2>4 DEF Traffic
<1>8. ASSUME NEW p \in SimOrders
      PROVE  /\ InQueue(p)' => InQueue(p)
             /\ InHand(p)' => r.do = "submit" /\ r.id = p /\ InQueue(p)
  BY <1>3, <1>4, <1>5 DEF InQueue, InHand
<1>9. SubmittedOnce'
  <2>1. \A k, n \in DOMAIN Q :
          Q[k].do = "submit" /\ Q[n].do = "submit" /\ Q[k].id = Q[n].id => k = n
    <3>1. SUFFICES ASSUME NEW k \in DOMAIN Q, NEW n \in DOMAIN Q,
                          Q[k].do = "submit", Q[n].do = "submit", Q[k].id = Q[n].id
                   PROVE  k = n
      OBVIOUS
    <3>2. k + 1 = n + 1
      BY <1>3, <3>1 DEF SimInv, SubmittedOnce
    <3> QED
      BY <1>3, <3>2
  <2>2. ASSUME NEW p \in SimOrders, InQueue(p)', InHand(p)'
        PROVE  FALSE
    <3>1. PICK n \in DOMAIN Q : Q[n].do = "submit" /\ Q[n].id = p
      BY <1>4, <2>2 DEF InQueue
    <3>2. r.do = "submit" /\ r.id = p
      BY <1>8, <2>2
    <3>3. n + 1 = 1
      BY <1>3, <3>1, <3>2 DEF SimInv, SubmittedOnce
    <3> QED
      BY <1>3, <3>1, <3>3
  <2> QED
    BY <1>4, <2>1, <2>2 DEF SubmittedOnce
<1>10. RestsAfter'
  BY <1>4, <1>8 DEF SimInv, RestsAfter
<1>11. ClosedOff' /\ MatcherHolds'
  BY <1>4 DEF SimInv, ClosedOff, MatcherHolds
<1> QED
  BY <1>6, <1>7, <1>9, <1>10, <1>11 DEF SimInv

(* A handler that answers, and neither fills nor touches the book. *)
LEMMA AnswersOnly ==
  ASSUME SimInv, server.at # "idle", NEW is \in {"ACKNOWLEDGED", "REJECTED"},
         Says(server.req.id, is, 0), Quiet, UNCHANGED <<mine, reqs, resting, matcher, closed>>,
         \/ server' = Idle
         \/ /\ server.at = "submit"
            /\ server' = [server EXCEPT !.at = "filling", !.rest = server.req.qty]
  PROVE  SimInv'
<1>1. /\ answerQ' \in Seq(SimAnswer) /\ AllPlaced(answerQ)'
      /\ fillQ' \in Seq(SimExecution) /\ AllPlaced(fillQ)' /\ filled' \in [SimOrders -> Int]
  BY InService, SaysPlaced, FillsNothing
<1>2. /\ server' \in [at : {"idle", "submit", "cancel", "amend", "filling"},
                      req : SimRequest \union {None}, rest : Nat]
      /\ server'.at = "idle" \/ server'.req = server.req
      /\ server'.at \in {"idle", server.at} \/ (server.at = "submit" /\ server'.at = "filling")
  <2>1. CASE server' = Idle
    BY <2>1 DEF Idle
  <2>2. CASE /\ server.at = "submit"
             /\ server' = [server EXCEPT !.at = "filling", !.rest = server.req.qty]
    <3>1. /\ server.req.qty \in Nat
          /\ server \in [at : {"idle", "submit", "cancel", "amend", "filling"},
                        req : SimRequest \union {None}, rest : Nat]
      BY InService DEF SimInv, SimTypeOK
    <3> QED
      BY <2>2, <3>1
  <2> QED
    BY <2>1, <2>2
<1>3. ClosedOff' /\ MatcherHolds'
  BY DEF SimInv, ClosedOff, MatcherHolds
<1>4. /\ resting' \in [SimOrders -> Held \union {None}]
      /\ matcher' \in [at : {"idle", "visit", "match", "second"}, todo : SUBSET SimOrders,
                       id : SimOrders \union {None}, rest : Nat]
      /\ closed' \subseteq SimOrders
  BY DEF SimInv, SimTypeOK
<1> QED
  BY <1>1, <1>2, <1>3, <1>4, VenueStep

LEMMA AnswersOnlySteps ==
  ASSUME SimInv, SubmitRejected \/ SubmitCrosses \/ NoPrice \/ NotFound
  PROVE  SimInv'
BY AnswersOnly DEF SubmitRejected, SubmitCrosses, NoPrice, NotFound

LEMMA SubmitRestsStep ==
  ASSUME SimInv, SubmitRests
  PROVE  SimInv'
<1> DEFINE o == server.req.id
<1>1. /\ o \in SimOrders /\ server.req.qty \in Nat /\ Placed(o) /\ InHand(o)
      /\ server' = Idle /\ UNCHANGED <<mine, reqs, matcher, closed>>
      /\ Says(o, "ACKNOWLEDGED", 0) /\ Quiet
      /\ resting' = [resting EXCEPT ![o] = [qty |-> server.req.qty, leaves |-> server.req.qty,
                                           on |-> TRUE]]
  BY InService DEF SubmitRests, InHand
<1> HIDE DEF o
<1>2. /\ answerQ' \in Seq(SimAnswer) /\ AllPlaced(answerQ)'
      /\ fillQ' \in Seq(SimExecution) /\ AllPlaced(fillQ)' /\ filled' \in [SimOrders -> Int]
  BY <1>1, SaysPlaced, FillsNothing
<1>3. /\ resting' \in [SimOrders -> Held \union {None}] /\ resting'[o] \in Held
      /\ \A p \in SimOrders : p = o \/ resting'[p] = resting[p]
  BY <1>1 DEF SimInv, SimTypeOK, Held
<1>4. resting[o] \notin Held
  BY <1>1 DEF SimInv, RestsAfter
<1>5. ClosedOff' /\ MatcherHolds'
  BY <1>1, <1>3, <1>4 DEF SimInv, SimTypeOK, ClosedOff, MatcherHolds
<1>6. /\ matcher' \in [at : {"idle", "visit", "match", "second"}, todo : SUBSET SimOrders,
                       id : SimOrders \union {None}, rest : Nat]
      /\ closed' \subseteq SimOrders
      /\ server' \in [at : {"idle", "submit", "cancel", "amend", "filling"},
                      req : SimRequest \union {None}, rest : Nat]
      /\ server'.at = "idle"
  BY <1>1 DEF SimInv, SimTypeOK, Idle
<1>7. \A p \in SimOrders :
        resting'[p] \in Held => resting[p] \in Held \/ (InHand(p) /\ server'.at = "idle")
  BY <1>1, <1>3, <1>6
<1> QED
  BY <1>1, <1>2, <1>3, <1>5, <1>6, <1>7, VenueStep

LEMMA EmitFillStep ==
  ASSUME SimInv, NEW q \in 1..server.rest, EmitFill(q)
  PROVE  SimInv'
<1> DEFINE o == server.req.id
<1>1. /\ o \in SimOrders /\ Placed(o) /\ server.rest \in Nat /\ server.at = "filling"
      /\ UNCHANGED <<mine, reqs, resting, matcher, answerQ, closed>> /\ Fills(o, q)
      /\ server' = IF q = server.rest THEN Idle ELSE [server EXCEPT !.rest = @ - q]
  BY InService DEF EmitFill
<1> HIDE DEF o
<1>2. q \in Nat /\ q <= server.rest /\ server.rest - q \in Nat
  BY <1>1
<1>3. /\ answerQ' \in Seq(SimAnswer) /\ AllPlaced(answerQ)'
      /\ fillQ' \in Seq(SimExecution) /\ AllPlaced(fillQ)' /\ filled' \in [SimOrders -> Int]
  BY <1>1, <1>2, SaysNothing, FillsPlaced
<1>4. /\ server' \in [at : {"idle", "submit", "cancel", "amend", "filling"},
                      req : SimRequest \union {None}, rest : Nat]
      /\ server'.at = "idle" \/ server'.req = server.req
      /\ server'.at \in {"idle", server.at}
  <2>1. CASE q = server.rest
    BY <1>1, <2>1 DEF Idle
  <2>2. CASE q # server.rest
    BY <1>1, <1>2, <2>2 DEF SimInv, SimTypeOK
  <2> QED
    BY <2>1, <2>2
<1>5. /\ matcher' \in [at : {"idle", "visit", "match", "second"}, todo : SUBSET SimOrders,
                       id : SimOrders \union {None}, rest : Nat]
      /\ closed' \subseteq SimOrders /\ resting' \in [SimOrders -> Held \union {None}]
      /\ ClosedOff' /\ MatcherHolds'
  BY <1>1 DEF SimInv, SimTypeOK, ClosedOff, MatcherHolds
<1> QED
  BY <1>1, <1>3, <1>4, <1>5, VenueStep

LEMMA CancelledStep ==
  ASSUME SimInv, Cancelled
  PROVE  SimInv'
<1> DEFINE o == server.req.id
<1>1. /\ o \in SimOrders /\ Placed(o) /\ Rests(o)
      /\ server' = Idle /\ UNCHANGED <<mine, reqs, matcher>>
      /\ Says(o, "CANCELLED", 0) /\ Quiet /\ closed' = closed \union {o}
      /\ resting' = [resting EXCEPT ![o].on = FALSE]
  BY InService DEF Cancelled
<1> HIDE DEF o
<1>2. /\ answerQ' \in Seq(SimAnswer) /\ AllPlaced(answerQ)'
      /\ fillQ' \in Seq(SimExecution) /\ AllPlaced(fillQ)' /\ filled' \in [SimOrders -> Int]
  BY <1>1, SaysPlaced, FillsNothing
<1>3. resting[o] \in Held
  BY <1>1 DEF Rests, SimInv, SimTypeOK
<1>4. /\ resting' \in [SimOrders -> Held \union {None}]
      /\ resting'[o] \in Held /\ ~resting'[o].on
      /\ \A p \in SimOrders : p = o \/ resting'[p] = resting[p]
  BY <1>1, <1>3 DEF SimInv, SimTypeOK, Held
<1>5. ClosedOff' /\ MatcherHolds'
  BY <1>1, <1>4 DEF SimInv, SimTypeOK, ClosedOff, MatcherHolds
<1>6. /\ matcher' \in [at : {"idle", "visit", "match", "second"}, todo : SUBSET SimOrders,
                       id : SimOrders \union {None}, rest : Nat]
      /\ closed' \subseteq SimOrders
      /\ server' \in [at : {"idle", "submit", "cancel", "amend", "filling"},
                      req : SimRequest \union {None}, rest : Nat]
      /\ server'.at = "idle"
  BY <1>1 DEF SimInv, SimTypeOK, Idle
<1> QED
  BY <1>1, <1>2, <1>3, <1>4, <1>5, <1>6, VenueStep

LEMMA AmendedStep ==
  ASSUME SimInv, Amended
  PROVE  SimInv'
<1> DEFINE o == server.req.id
<1>1. /\ o \in SimOrders /\ Placed(o) /\ Rests(o) /\ server.req.qty \in Nat
      /\ server' = Idle /\ UNCHANGED <<mine, reqs, matcher, closed>>
      /\ Says(o, "AMENDED", server.req.qty) /\ Quiet
      /\ resting' = [resting EXCEPT ![o] = AmendedTo(@, server.req.qty)]
  BY InService DEF Amended
<1> HIDE DEF o
<1>2. /\ answerQ' \in Seq(SimAnswer) /\ AllPlaced(answerQ)'
      /\ fillQ' \in Seq(SimExecution) /\ AllPlaced(fillQ)' /\ filled' \in [SimOrders -> Int]
  BY <1>1, SaysPlaced, FillsNothing
<1>3. resting[o] \in Held
  BY <1>1 DEF Rests, SimInv, SimTypeOK
<1>4. AmendedTo(resting[o], server.req.qty) \in Held
      /\ AmendedTo(resting[o], server.req.qty).on = resting[o].on
  <2>1. PICK h, q : h = resting[o] /\ q = server.req.qty
    OBVIOUS
  <2>2. h \in Held /\ q \in Nat /\ h.qty \in Nat /\ h.leaves \in Nat
    BY <1>1, <1>3, <2>1 DEF Held
  <2>3. PICK left \in Nat : left = IF q > h.qty - h.leaves THEN q - (h.qty - h.leaves) ELSE 0
    BY <2>2
  <2>4. AmendedTo(h, q) = [h EXCEPT !.qty = q, !.leaves = left]
    BY <2>3 DEF AmendedTo
  <2> QED
    BY <2>1, <2>2, <2>4 DEF Held
<1>5. /\ resting' \in [SimOrders -> Held \union {None}]
      /\ resting'[o] \in Held /\ resting'[o].on = resting[o].on
      /\ \A p \in SimOrders : p = o \/ resting'[p] = resting[p]
  BY <1>1, <1>4 DEF SimInv, SimTypeOK
<1>6. ClosedOff' /\ MatcherHolds'
  BY <1>1, <1>5 DEF SimInv, SimTypeOK, ClosedOff, MatcherHolds
<1>7. /\ matcher' \in [at : {"idle", "visit", "match", "second"}, todo : SUBSET SimOrders,
                       id : SimOrders \union {None}, rest : Nat]
      /\ closed' \subseteq SimOrders
      /\ server' \in [at : {"idle", "submit", "cancel", "amend", "filling"},
                      req : SimRequest \union {None}, rest : Nat]
      /\ server'.at = "idle"
  BY <1>1 DEF SimInv, SimTypeOK, Idle
<1> QED
  BY <1>1, <1>2, <1>3, <1>5, <1>6, <1>7, VenueStep

----------------------------------------------------------------------------
(* The MARKET_DATA consumer's steps *)

LEMMA MatcherMoves ==
  ASSUME SimInv,
         UNCHANGED <<mine, reqs, resting, server, answerQ, fillQ, filled, closed>>,
         matcher' \in [at : {"idle", "visit", "match", "second"}, todo : SUBSET SimOrders,
                      id : SimOrders \union {None}, rest : Nat],
         matcher'.at \in {"match", "second"} =>
           matcher'.id \in SimOrders /\ resting[matcher'.id] \in Held
  PROVE  SimInv'
<1>1. ClosedOff' /\ MatcherHolds'
  BY DEF SimInv, ClosedOff, MatcherHolds
<1>2. /\ answerQ' \in Seq(SimAnswer) /\ AllPlaced(answerQ)'
      /\ fillQ' \in Seq(SimExecution) /\ AllPlaced(fillQ)' /\ filled' \in [SimOrders -> Int]
  BY SaysNothing, FillsNothing DEF Quiet
<1>3. /\ server' \in [at : {"idle", "submit", "cancel", "amend", "filling"},
                      req : SimRequest \union {None}, rest : Nat]
      /\ resting' \in [SimOrders -> Held \union {None}] /\ closed' \subseteq SimOrders
  BY DEF SimInv, SimTypeOK
<1> QED
  BY <1>1, <1>2, <1>3, VenueStep

LEMMA TradeArrivesStep ==
  ASSUME SimInv, TradeArrives
  PROVE  SimInv'
<1>1. /\ matcher' \in [at : {"idle", "visit", "match", "second"}, todo : SUBSET SimOrders,
                       id : SimOrders \union {None}, rest : Nat]
      /\ matcher'.at = "visit"
  BY DEF TradeArrives, Still
<1> QED
  BY <1>1, MatcherMoves DEF TradeArrives

LEMMA VisitsEndStep ==
  ASSUME SimInv, VisitsEnd
  PROVE  SimInv'
<1>1. /\ matcher' \in [at : {"idle", "visit", "match", "second"}, todo : SUBSET SimOrders,
                       id : SimOrders \union {None}, rest : Nat]
      /\ matcher'.at = "idle"
  BY DEF VisitsEnd, Still
<1> QED
  BY <1>1, MatcherMoves DEF VisitsEnd

LEMMA VisitStep ==
  ASSUME SimInv, NEW o \in SimOrders, NEW crosses \in BOOLEAN, Visit(o, crosses)
  PROVE  SimInv'
<1>1. /\ matcher \in [at : {"idle", "visit", "match", "second"}, todo : SUBSET SimOrders,
                      id : SimOrders \union {None}, rest : Nat]
      /\ matcher.at = "visit"
      /\ matcher' = [matcher EXCEPT !.todo = @ \ {o}, !.at = IF crosses THEN "match" ELSE @,
                                   !.id = IF crosses THEN o ELSE @]
  BY DEF Visit, SimInv, SimTypeOK
<1>2. /\ matcher' \in [at : {"idle", "visit", "match", "second"}, todo : SUBSET SimOrders,
                       id : SimOrders \union {None}, rest : Nat]
      /\ matcher'.at \in {"match", "second"} => crosses /\ matcher'.id = o
  BY <1>1
<1>3. crosses => resting[o] \in Held
  BY DEF Visit, Rests, SimInv, SimTypeOK
<1> QED
  BY <1>2, <1>3, MatcherMoves DEF Visit

(* What a match takes leaves the order known, and never puts it back on the book. *)
LEMMA Taken ==
  ASSUME SimInv, NEW o \in SimOrders, resting[o] \in Held,
         NEW h \in Held, h.on => resting[o].on, resting' = [resting EXCEPT ![o] = h],
         UNCHANGED <<mine, reqs, server, answerQ, closed>>,
         fillQ' \in Seq(SimExecution), AllPlaced(fillQ)', filled' \in [SimOrders -> Int],
         matcher' \in [at : {"idle", "visit", "match", "second"}, todo : SUBSET SimOrders,
                      id : SimOrders \union {None}, rest : Nat],
         matcher'.at \in {"match", "second"} => matcher'.id = o
  PROVE  SimInv'
<1>1. /\ resting' \in [SimOrders -> Held \union {None}] /\ resting'[o] = h
      /\ \A p \in SimOrders : p = o \/ resting'[p] = resting[p]
  BY DEF SimInv, SimTypeOK
<1>2. ClosedOff' /\ MatcherHolds'
  BY <1>1 DEF SimInv, SimTypeOK, ClosedOff, MatcherHolds
<1>3. /\ server' \in [at : {"idle", "submit", "cancel", "amend", "filling"},
                      req : SimRequest \union {None}, rest : Nat]
      /\ closed' \subseteq SimOrders
      /\ answerQ' \in Seq(SimAnswer) /\ AllPlaced(answerQ)'
  BY SaysNothing DEF SimInv, SimTypeOK
<1>4. \A p \in SimOrders :
        resting'[p] \in Held => resting[p] \in Held \/ (InHand(p) /\ server'.at = "idle")
  BY <1>1
<1> QED
  BY <1>1, <1>2, <1>3, <1>4, VenueStep

LEMMA MatchEmitsStep ==
  ASSUME SimInv, NEW q \in Nat, MatchEmits(q)
  PROVE  SimInv'
<1> DEFINE o == matcher.id
           h == [resting[o] EXCEPT !.leaves = 0, !.on = @ /\ q < resting[o].leaves]
<1>1. /\ o \in SimOrders /\ resting[o] \in Held /\ Placed(o)
      /\ q <= resting[o].leaves /\ UNCHANGED <<mine, reqs, server, answerQ, closed>>
      /\ IF q = 0 THEN Quiet ELSE Fills(o, q)
  BY DEF MatchEmits, SimInv, MatcherHolds, Traffic
<1>2. resting' = [resting EXCEPT ![o] = h]
  BY <1>1 DEF MatchEmits, SimInv, SimTypeOK
<1>3. h \in Held /\ (h.on => resting[o].on)
  BY <1>1 DEF Held
<1>4. /\ fillQ' \in Seq(SimExecution) /\ AllPlaced(fillQ)' /\ filled' \in [SimOrders -> Int]
  BY <1>1, FillsPlaced, FillsNothing
<1>5. /\ matcher' \in [at : {"idle", "visit", "match", "second"}, todo : SUBSET SimOrders,
                       id : SimOrders \union {None}, rest : Nat]
      /\ matcher'.at \in {"match", "second"} => matcher'.id = o
  <2>1. /\ resting[o].leaves - q \in Nat
        /\ matcher \in [at : {"idle", "visit", "match", "second"}, todo : SUBSET SimOrders,
                        id : SimOrders \union {None}, rest : Nat]
        /\ matcher' = IF q < resting[o].leaves
                      THEN [matcher EXCEPT !.at = "second", !.rest = resting[o].leaves - q]
                      ELSE [matcher EXCEPT !.at = "visit", !.id = None]
    BY <1>1 DEF MatchEmits, Held, SimInv, SimTypeOK
  <2> QED
    BY <2>1
<1> QED
  BY <1>1, <1>2, <1>3, <1>4, <1>5, Taken

LEMMA MatchSecondStep ==
  ASSUME SimInv, MatchSecond
  PROVE  SimInv'
<1> DEFINE o == matcher.id
           h == [resting[o] EXCEPT !.on = @ /\ resting[o].leaves # 0]
<1>1. /\ o \in SimOrders /\ resting[o] \in Held /\ Placed(o) /\ matcher.rest \in Nat
      /\ UNCHANGED <<mine, reqs, server, answerQ, closed>> /\ Fills(o, matcher.rest)
  BY DEF MatchSecond, SimInv, SimTypeOK, MatcherHolds, Traffic
<1>2. resting' = [resting EXCEPT ![o] = h]
  BY <1>1 DEF MatchSecond, SimInv, SimTypeOK
<1>3. h \in Held /\ (h.on => resting[o].on)
  BY <1>1 DEF Held
<1>4. /\ fillQ' \in Seq(SimExecution) /\ AllPlaced(fillQ)' /\ filled' \in [SimOrders -> Int]
  BY <1>1, FillsPlaced
<1>5. /\ matcher' \in [at : {"idle", "visit", "match", "second"}, todo : SUBSET SimOrders,
                       id : SimOrders \union {None}, rest : Nat]
      /\ matcher'.at = "visit"
  BY DEF MatchSecond, SimInv, SimTypeOK
<1> QED
  BY <1>1, <1>2, <1>3, <1>4, <1>5, Taken

----------------------------------------------------------------------------
LEMMA SimNextInv ==
  ASSUME SimInv, [SimNext]_simVars
  PROVE  SimInv'
<1>1. CASE SimNext
  <2>1. ASSUME NEW q \in 1..server.rest, EmitFill(q)
        PROVE  SimInv'
    BY <2>1, EmitFillStep
  <2>2. ASSUME NEW q \in 0..MaxLot, MatchEmits(q)
        PROVE  SimInv'
    BY <2>2, SimAssumption, MatchEmitsStep
  <2>3. ASSUME NEW o \in SimOrders, NEW q \in 1..MaxLot, NEW kind \in SimKinds, SimPlace(o, q, kind)
        PROVE  SimInv'
    BY <2>3, SimPlaceStep
  <2>4. ASSUME NEW o \in SimOrders, SimCancel(o)
        PROVE  SimInv'
    BY <2>4, SimAskStep DEF SimCancel
  <2>5. ASSUME NEW o \in SimOrders, NEW q \in 1..MaxLot, SimAmend(o, q)
        PROVE  SimInv'
    BY <2>5, SimAssumption, SimAskStep DEF SimAmend
  <2>6. ASSUME NEW o \in SimOrders, NEW crosses \in BOOLEAN, Visit(o, crosses)
        PROVE  SimInv'
    BY <2>6, VisitStep
  <2> QED
    BY <1>1, <2>1, <2>2, <2>3, <2>4, <2>5, <2>6, ServeNextStep, AnswersOnlySteps, SubmitRestsStep,
       CancelledStep, AmendedStep, TradeArrivesStep, VisitsEndStep, MatchSecondStep, OnAnswerStep,
       OnSimFillStep
       DEF SimNext
<1>2. CASE UNCHANGED simVars
  BY <1>2 DEF simVars, SimInv, SimTypeOK, Traffic, AllPlaced, Placed, SubmittedOnce, RestsAfter,
              ClosedOff, MatcherHolds, InQueue, InHand
<1> QED
  BY <1>1, <1>2

(* An order that was reported as cancelled gets a fill only from the match that has
   it, and no match takes it up. *)
LEMMA NothingMore ==
  ASSUME SimInv, SimNext, NEW o \in closed
  PROVE  /\ filled'[o] # filled[o] => matcher.id = o
         /\ matcher'.id = o => matcher.id = o
<1>1. /\ o \in SimOrders /\ o # None /\ ~Rests(o) /\ ~InHand(o)
      /\ filled \in [SimOrders -> Int]
      /\ matcher \in [at : {"idle", "visit", "match", "second"}, todo : SUBSET SimOrders,
                      id : SimOrders \union {None}, rest : Nat]
  BY SimAssumption DEF SimInv, SimTypeOK, ClosedOff, RestsAfter, Rests
<1>2. ASSUME NEW p, NEW q, Fills(p, q), filled'[o] # filled[o]
      PROVE  p = o
  BY <1>1, <1>2 DEF Fills
<1>3. ASSUME NEW q \in 1..server.rest, EmitFill(q)
      PROVE  filled'[o] = filled[o] /\ matcher' = matcher
  BY <1>1, <1>2, <1>3 DEF EmitFill, InHand
<1>4. ASSUME NEW q \in 0..MaxLot, MatchEmits(q)
      PROVE  /\ filled'[o] # filled[o] => matcher.id = o
             /\ matcher'.id = o => matcher.id = o
  <2>1. filled'[o] # filled[o] => matcher.id = o
    BY <1>2, <1>4 DEF MatchEmits, Quiet
  <2>2. matcher'.id \in {matcher.id, None}
    BY <1>1, <1>4 DEF MatchEmits
  <2> QED
    BY <1>1, <2>1, <2>2
<1>5. ASSUME MatchSecond
      PROVE  /\ filled'[o] # filled[o] => matcher.id = o
             /\ matcher'.id = o => matcher.id = o
  BY <1>1, <1>2, <1>5 DEF MatchSecond
<1>6. ASSUME NEW p \in SimOrders, NEW crosses \in BOOLEAN, Visit(p, crosses)
      PROVE  filled' = filled /\ (matcher'.id = o => matcher.id = o)
  BY <1>1, <1>6 DEF Visit
<1>7. ASSUME TradeArrives \/ VisitsEnd
      PROVE  filled' = filled /\ matcher'.id # o
  <2>1. CASE TradeArrives
    <3>1. PICK T : matcher' = [Still EXCEPT !.at = "visit", !.todo = T]
      BY <2>1 DEF TradeArrives
    <3> QED
      BY <1>1, <2>1, <3>1 DEF TradeArrives, Still
  <2>2. CASE VisitsEnd
    BY <1>1, <2>2 DEF VisitsEnd, Still
  <2> QED
    BY <1>7, <2>1, <2>2
<1>8. ASSUME \/ ServeNext \/ SubmitRejected \/ SubmitCrosses \/ SubmitRests \/ NoPrice
             \/ NotFound \/ Cancelled \/ Amended \/ OnAnswer \/ OnSimFill
      PROVE  filled' = filled /\ matcher' = matcher
  BY <1>8 DEF ServeNext, SubmitRejected, SubmitCrosses, SubmitRests, NoPrice, NotFound, Cancelled,
              Amended, OnAnswer, OnSimFill, Quiet
<1>9. ASSUME NEW p \in SimOrders, SimCancel(p)
      PROVE  filled' = filled /\ matcher' = matcher
  BY <1>9 DEF SimCancel, SimAsk
<1>10. ASSUME NEW p \in SimOrders, NEW q \in 1..MaxLot, SimAmend(p, q)
       PROVE  filled' = filled /\ matcher' = matcher
  BY <1>10 DEF SimAmend, SimAsk
<1>11. ASSUME NEW p \in SimOrders, NEW q \in 1..MaxLot, NEW kind \in SimKinds, SimPlace(p, q, kind)
       PROVE  filled' = filled /\ matcher' = matcher
  BY <1>11 DEF SimPlace
<1>12. ASSUME filled' = filled /\ matcher' = matcher
       PROVE  /\ filled'[o] # filled[o] => matcher.id = o
              /\ matcher'.id = o => matcher.id = o
  BY <1>12
<1> QED
  BY <1>3, <1>4, <1>5, <1>6, <1>7, <1>8, <1>9, <1>10, <1>11, <1>12 DEF SimNext

(* The simulation gateway takes an order off the book before it reports it as
   cancelled, and no trade that comes later meets it. *)
THEOREM CancelledMeetsNoTrade == SimSpec => SimCancelEnds
<1>1. ASSUME SimInv, [SimNext]_simVars
      PROVE  [\A o \in closed :
                filled'[o] # filled[o] \/ matcher'.id = o => matcher.id = o]_simVars
  BY <1>1, NothingMore
<1>2. SimInv /\ [SimNext]_simVars => SimInv'
  BY SimNextInv
<1> QED
  BY <1>1, <1>2, SimInitInv, PTL DEF SimSpec, SimCancelEnds
----------------------------------------------------------------------------
(* The lots of an order *)

(* What a match has taken of an order and not told yet. *)
Untold(o) == IF matcher.at = "second" /\ matcher.id = o THEN matcher.rest ELSE 0

(* Nothing is filled before the submission is served; then the handler that fills it
   or the book knows what has been taken. *)
Lots(o) ==
  /\ mine[o] = None => filled[o] = 0
  /\ InQueue(o) \/ (server.at = "submit" /\ server.req.id = o) => filled[o] = 0
  /\ server.at = "filling" /\ server.req.id = o => filled[o] + server.rest = server.req.qty
  /\ resting[o] \in Held =>
       /\ resting[o].qty <= largest[o]
       /\ o \notin shrunk => filled[o] + Untold(o) = resting[o].qty - resting[o].leaves
  /\ o \notin shrunk => filled[o] <= largest[o]

(* No request is for more than the largest quantity asked for. *)
AskedFor ==
  /\ \A n \in DOMAIN reqs : reqs[n].qty <= largest[reqs[n].id]
  /\ server.at # "idle" => server.req.qty <= largest[server.req.id]

LotsInv == /\ largest \in [SimOrders -> Nat] /\ AskedFor /\ \A o \in SimOrders : Lots(o)

(* A step that takes nothing of an order, and does not serve its submission. *)
LEMMA LotsKept ==
  ASSUME SimInv, NEW p \in SimOrders, Lots(p),
         largest[p] \in Nat, largest'[p] \in Nat, largest'[p] >= largest[p],
         mine'[p] = None => mine[p] = None, InQueue(p)' => InQueue(p),
         server'.at \in {"submit", "filling"} => server' = server \/ server'.req.id # p,
         UNCHANGED resting[p], UNCHANGED filled[p], Untold(p)' = Untold(p),
         p \in shrunk => p \in shrunk'
  PROVE  Lots(p)'
<1>1. filled[p] \in Int /\ (resting[p] \in Held => resting[p].qty \in Nat)
  BY DEF SimInv, SimTypeOK, Held
<1> QED
  BY <1>1 DEF Lots

LEMMA SameRequests ==
  ASSUME SimInv, LotsInv, UNCHANGED reqs, largest' \in [SimOrders -> Nat],
         \A p \in SimOrders : Placed(p) => largest'[p] >= largest[p],
         server'.at # "idle" => server.at # "idle" /\ server'.req = server.req
  PROVE  AskedFor'
<1>1. \A n \in DOMAIN reqs : reqs[n] \in SimRequest /\ Placed(reqs[n].id)
  BY ElementOfSeq, LenProperties DEF SimInv, SimTypeOK, Traffic, AllPlaced
<1>2. \A n \in DOMAIN reqs : reqs[n].qty <= largest'[reqs[n].id]
  <2> SUFFICES ASSUME NEW n \in DOMAIN reqs
               PROVE  reqs[n].qty <= largest'[reqs[n].id]
    OBVIOUS
  <2>1. PICK p \in SimOrders, k \in Nat : p = reqs[n].id /\ k = reqs[n].qty
    BY <1>1 DEF SimRequest
  <2>2. k <= largest[p] /\ largest'[p] >= largest[p] /\ largest[p] \in Nat /\ largest'[p] \in Nat
    BY <1>1, <2>1 DEF LotsInv, AskedFor
  <2> QED
    BY <2>1, <2>2
<1>3. server'.at # "idle" => server'.req.qty <= largest'[server'.req.id]
  <2> SUFFICES ASSUME server'.at # "idle"
               PROVE  server'.req.qty <= largest'[server'.req.id]
    OBVIOUS
  <2>1. PICK p \in SimOrders, k \in Nat : p = server.req.id /\ k = server.req.qty
    BY InService
  <2>2. k <= largest[p] /\ largest'[p] >= largest[p] /\ largest[p] \in Nat /\ largest'[p] \in Nat
    BY <2>1, InService DEF LotsInv, AskedFor
  <2> QED
    BY <2>1, <2>2
<1> QED
  BY <1>2, <1>3 DEF AskedFor

(* One more request of the OMS. *)
LEMMA RequestLots ==
  ASSUME SimInv, LotsInv, NEW o \in SimOrders, NEW r \in SimRequest, r.id = o,
         reqs' = Append(reqs, r), NEW most \in Nat, largest' = [largest EXCEPT ![o] = most],
         Placed(o) => most >= largest[o], r.qty <= most,
         r.do = "submit" => mine[o] = None, mine'[o] # None,
         \A p \in SimOrders : p # o => mine'[p] = mine[p],
         UNCHANGED <<resting, server, matcher, filled, shrunk>>
  PROVE  LotsInv'
<1>1. PICK Q : Q = reqs'
  OBVIOUS
<1>2. reqs \in Seq(SimRequest)
  BY DEF SimInv, SimTypeOK
<1>3. \A n \in DOMAIN Q : (n = Len(reqs) + 1 /\ Q[n] = r) \/ (n \in DOMAIN reqs /\ Q[n] = reqs[n])
  BY <1>1, <1>2, Queued
<1>4. /\ largest' \in [SimOrders -> Nat] /\ largest'[o] = most
      /\ \A p \in SimOrders : p # o => largest'[p] = largest[p]
      /\ \A p \in SimOrders : largest[p] \in Nat
  BY DEF LotsInv
<1>5. \A n \in DOMAIN reqs : reqs[n] \in SimRequest /\ Placed(reqs[n].id)
  BY <1>2, ElementOfSeq, LenProperties DEF SimInv, Traffic, AllPlaced
<1>6. \A p \in SimOrders : Placed(p) => largest'[p] >= largest[p]
  BY <1>4
<1>7. AskedFor'
  <2>1. ASSUME NEW n \in DOMAIN Q PROVE Q[n].qty <= largest'[Q[n].id]
    <3>1. CASE n \in DOMAIN reqs /\ Q[n] = reqs[n]
      <4>1. PICK p \in SimOrders, k \in Nat : p = Q[n].id /\ k = Q[n].qty
        BY <1>5, <3>1 DEF SimRequest
      <4>2. k <= largest[p] /\ Placed(p)
        BY <1>5, <3>1, <4>1 DEF LotsInv, AskedFor
      <4> QED
        BY <1>4, <1>6, <4>1, <4>2
    <3>2. CASE Q[n] = r
      BY <1>4, <3>2
    <3> QED
      BY <1>3, <3>1, <3>2
  <2>2. server'.at # "idle" => server'.req.qty <= largest'[server'.req.id]
    <3> SUFFICES ASSUME server.at # "idle"
                 PROVE  server.req.qty <= largest'[server.req.id]
      OBVIOUS
    <3>1. PICK p \in SimOrders, k \in Nat : p = server.req.id /\ k = server.req.qty
      BY InService
    <3>2. k <= largest[p] /\ Placed(p)
      BY <3>1, InService DEF LotsInv, AskedFor
    <3> QED
      BY <1>4, <1>6, <3>1, <3>2
  <2> QED
    BY <1>1, <2>1, <2>2 DEF AskedFor
<1>8. \A p \in SimOrders : InQueue(p)' => InQueue(p) \/ (p = o /\ r.do = "submit")
  BY <1>1, <1>3 DEF InQueue
<1>9. ASSUME NEW p \in SimOrders, p # o \/ Placed(o)
      PROVE  Lots(p)'
  <2>1. largest'[p] >= largest[p]
    BY <1>4, <1>9
  <2>2. InQueue(p)' => InQueue(p)
    BY <1>8, <1>9, SomethingIsThere DEF Placed
  <2>3. Lots(p) /\ Untold(p)' = Untold(p) /\ (mine'[p] = None => mine[p] = None)
    BY <1>9 DEF LotsInv, Untold
  <2> QED
    BY <1>4, <1>9, <2>1, <2>2, <2>3, LotsKept
<1>10. CASE ~Placed(o)
  <2>1. mine[o] = None /\ resting[o] \notin Held /\ filled[o] = 0
    BY <1>10 DEF SimInv, SimTypeOK, Traffic, Placed, LotsInv, Lots
  <2>2. ~InHand(o)
    BY <1>10 DEF SimInv, Traffic, InHand
  <2>3. Lots(o)'
    BY <1>4, <2>1, <2>2 DEF Lots, InHand
  <2> QED
    BY <1>4, <1>7, <1>9, <2>3 DEF LotsInv
<1>11. CASE Placed(o)
  BY <1>4, <1>7, <1>9, <1>11 DEF LotsInv
<1> QED
  BY <1>10, <1>11

LEMMA PlaceLots ==
  ASSUME SimInv, LotsInv, NEW o \in SimOrders, NEW q \in 1..MaxLot, NEW kind \in SimKinds,
         SimPlace(o, q, kind)
  PROVE  LotsInv'
<1> DEFINE m == [qty |-> q, cum |-> 0, status |-> "PENDING_NEW"]
           r == [do |-> "submit", id |-> o, qty |-> q, kind |-> kind]
<1>1. m \in Mine /\ r \in SimRequest /\ q \in Nat
  BY SimAssumption DEF Mine, Status, Active, Pending, SimRequest
<1>2. mine[o] = None /\ ~Placed(o)
  BY SomethingIsThere DEF SimPlace, Placed
<1>3. mine'[o] # None /\ \A p \in SimOrders : p # o => mine'[p] = mine[p]
  BY <1>1, SomethingIsThere DEF SimPlace, SimInv, SimTypeOK
<1>4. /\ reqs' = Append(reqs, r) /\ r.id = o /\ r.qty <= q
      /\ largest' = [largest EXCEPT ![o] = q]
      /\ UNCHANGED <<resting, server, matcher, filled, shrunk>>
  BY <1>1 DEF SimPlace
<1> QED
  BY <1>1, <1>2, <1>3, <1>4, RequestLots

LEMMA AskLots ==
  ASSUME SimInv, LotsInv, NEW o \in SimOrders, NEW do \in {"cancel", "amend"},
         NEW status \in {"PENDING_CANCEL", "PENDING_AMEND"}, NEW q \in Nat,
         SimAsk(o, do, status, q)
  PROVE  LotsInv'
<1> DEFINE m == Moved(mine[o], status)
           r == [do |-> do, id |-> o, qty |-> q, kind |-> None]
           most == IF q > largest[o] THEN q ELSE largest[o]
<1>1. mine[o] \in Mine
  BY DEF SimAsk, SimInv, SimTypeOK
<1>2. m \in Mine /\ r \in SimRequest
  BY <1>1 DEF Moved, Mine, Status, Active, Pending, Resting, SimRequest
<1>3. mine'[o] # None /\ \A p \in SimOrders : p # o => mine'[p] = mine[p]
  BY <1>2, SomethingIsThere DEF SimAsk, SimInv, SimTypeOK
<1>4. largest[o] \in Nat /\ most \in Nat /\ most >= largest[o] /\ q <= most
  BY DEF LotsInv
<1>5. largest' = [largest EXCEPT ![o] = most]
  BY DEF SimAsk, LotsInv
<1>6. /\ reqs' = Append(reqs, r) /\ r.id = o /\ r.qty = q /\ r.do # "submit"
      /\ UNCHANGED <<resting, server, matcher, filled, shrunk>>
  BY DEF SimAsk
<1> HIDE DEF most, r
<1> QED
  BY <1>2, <1>3, <1>4, <1>5, <1>6, RequestLots

(* A step of the venue that is about one order at most. *)
LEMMA VenueLots ==
  ASSUME SimInv, LotsInv, NEW o \in SimOrders, UNCHANGED <<mine, reqs, largest>>,
         server'.at # "idle" => server.at # "idle" /\ server'.req = server.req,
         \A p \in SimOrders : p # o =>
           /\ server'.at \in {"submit", "filling"} => server' = server \/ server'.req.id # p
           /\ UNCHANGED <<resting[p], filled[p]>> /\ Untold(p)' = Untold(p)
           /\ p \in shrunk => p \in shrunk',
         Lots(o)'
  PROVE  LotsInv'
<1>1. largest' \in [SimOrders -> Nat] /\ \A p \in SimOrders : largest[p] \in Nat
  BY DEF LotsInv
<1>2. AskedFor'
  BY <1>1, SameRequests
<1>3. ASSUME NEW p \in SimOrders, p # o
      PROVE  Lots(p)'
  <2>1. Lots(p) /\ largest'[p] >= largest[p] /\ (InQueue(p)' => InQueue(p))
    BY <1>1 DEF LotsInv, InQueue
  <2> QED
    BY <1>1, <1>3, <2>1, LotsKept
<1> QED
  BY <1>1, <1>2, <1>3 DEF LotsInv

(* The venue's handler drops its request, and fills nothing. *)
LEMMA AnswerLots ==
  ASSUME SimInv, LotsInv, SubmitRejected \/ NoPrice \/ NotFound
  PROVE  LotsInv'
<1>1. /\ server.at # "idle" /\ server' = Idle
      /\ UNCHANGED <<mine, reqs, resting, matcher, filled, largest, shrunk>>
  BY DEF SubmitRejected, NoPrice, NotFound, Quiet
<1>2. PICK o \in SimOrders : o = server.req.id
  BY <1>1, InService
<1>3. server'.at = "idle" /\ \A p \in SimOrders : Untold(p)' = Untold(p)
  BY <1>1 DEF Idle, Untold
<1>4. Lots(o)'
  BY <1>1, <1>3 DEF Lots, LotsInv, InQueue, Untold
<1> QED
  BY <1>1, <1>3, <1>4, VenueLots

LEMMA SubmitCrossesLots ==
  ASSUME SimInv, LotsInv, SubmitCrosses
  PROVE  LotsInv'
<1>1. /\ server.at = "submit" /\ UNCHANGED <<mine, reqs, resting, matcher, filled, largest, shrunk>>
      /\ server' = [server EXCEPT !.at = "filling", !.rest = server.req.qty]
      /\ server \in [at : {"idle", "submit", "cancel", "amend", "filling"},
                     req : SimRequest \union {None}, rest : Nat]
  BY DEF SubmitCrosses, Quiet, SimInv, SimTypeOK
<1>2. PICK o \in SimOrders : o = server.req.id
  BY <1>1, InService
<1>3. /\ server'.at = "filling" /\ server'.req = server.req /\ server'.rest = server.req.qty
      /\ server.req.qty \in Nat
      /\ \A p \in SimOrders : Untold(p)' = Untold(p)
  BY <1>1, InService DEF Untold
<1>4. filled[o] = 0 /\ InHand(o)
  BY <1>1, <1>2 DEF LotsInv, Lots, InHand
<1>5. ~InQueue(o) /\ resting[o] \notin Held
  BY <1>4 DEF SimInv, SubmittedOnce, RestsAfter
<1>6. Lots(o)'
  BY <1>1, <1>2, <1>3, <1>4, <1>5 DEF Lots, LotsInv, InQueue
<1> QED
  BY <1>1, <1>2, <1>3, <1>6, VenueLots

LEMMA SubmitRestsLots ==
  ASSUME SimInv, LotsInv, SubmitRests
  PROVE  LotsInv'
<1>1. /\ server.at = "submit" /\ UNCHANGED <<mine, reqs, matcher, filled, largest, shrunk>>
      /\ server' = Idle /\ server'.at = "idle"
  BY DEF SubmitRests, Quiet, Idle
<1>2. PICK o \in SimOrders, k \in Nat : o = server.req.id /\ k = server.req.qty
  BY <1>1, InService
<1>3. /\ resting'[o] = [qty |-> k, leaves |-> k, on |-> TRUE]
      /\ \A p \in SimOrders : p # o => resting'[p] = resting[p]
  BY <1>2 DEF SubmitRests, SimInv, SimTypeOK
<1>4. filled[o] = 0 /\ InHand(o) /\ k <= largest[o] /\ largest[o] \in Nat
  BY <1>1, <1>2 DEF LotsInv, AskedFor, Lots, InHand
<1>5. ~InQueue(o) /\ resting[o] \notin Held
  BY <1>4 DEF SimInv, SubmittedOnce, RestsAfter
<1>6. \A p \in SimOrders : Untold(p)' = Untold(p)
  BY <1>1 DEF Untold
<1>7. Untold(o)' = 0
  BY <1>1, <1>5 DEF Untold, SimInv, MatcherHolds
<1>8. Lots(o)'
  BY <1>1, <1>3, <1>4, <1>5, <1>7 DEF Lots, LotsInv, InQueue
<1> QED
  BY <1>1, <1>2, <1>3, <1>6, <1>8, VenueLots

LEMMA EmitFillLots ==
  ASSUME SimInv, LotsInv, NEW q \in 1..server.rest, EmitFill(q)
  PROVE  LotsInv'
<1>1. /\ server.at = "filling" /\ UNCHANGED <<mine, reqs, resting, matcher, largest, shrunk>>
      /\ server' = IF q = server.rest THEN Idle ELSE [server EXCEPT !.rest = @ - q]
      /\ server \in [at : {"idle", "submit", "cancel", "amend", "filling"},
                     req : SimRequest \union {None}, rest : Nat]
  BY DEF EmitFill, SimInv, SimTypeOK
<1>2. PICK o \in SimOrders, k \in Nat, r \in Nat : o = server.req.id /\ k = server.req.qty /\ r = server.rest
  BY <1>1, InService
<1>3. q \in Nat /\ q <= r
  BY <1>2
<1>4. /\ filled'[o] = filled[o] + q /\ filled[o] \in Int
      /\ \A p \in SimOrders : p # o => filled'[p] = filled[p]
  BY <1>2 DEF EmitFill, Fills, SimInv, SimTypeOK
<1>5. /\ server'.at # "idle" => server'.at = "filling" /\ server'.req = server.req
                               /\ server'.rest = r - q
      /\ server'.at = "idle" => q = r
      /\ server'.at \in {"idle", "filling"}
  <2>1. CASE q = server.rest
    BY <1>1, <1>2, <2>1 DEF Idle
  <2>2. CASE q # server.rest
    BY <1>1, <1>2, <2>2
  <2> QED
    BY <2>1, <2>2
<1>6. InHand(o) /\ filled[o] + r = k /\ k <= largest[o] /\ largest[o] \in Nat /\ Placed(o)
  BY <1>1, <1>2, InService DEF LotsInv, AskedFor, Lots, InHand
<1>7. ~InQueue(o) /\ resting[o] \notin Held /\ mine[o] # None
  BY <1>6, SomethingIsThere DEF SimInv, SubmittedOnce, RestsAfter, Placed
<1>8. \A p \in SimOrders : Untold(p)' = Untold(p)
  BY <1>1 DEF Untold
<1>9. Lots(o)'
  <2>1. filled'[o] <= largest[o]
    BY <1>3, <1>4, <1>6
  <2>2. server'.at = "filling" /\ server'.req.id = o => filled'[o] + server'.rest = server'.req.qty
    BY <1>2, <1>3, <1>4, <1>5, <1>6
  <2> QED
    BY <1>1, <1>5, <1>7, <2>1, <2>2 DEF Lots, InQueue
<1> QED
  BY <1>1, <1>2, <1>4, <1>5, <1>8, <1>9, VenueLots

(* A step that changes what rests of an order, or what has been taken of it. *)
LEMMA RestingLots ==
  ASSUME SimInv, NEW o \in SimOrders, resting[o] \in Held, UNCHANGED <<mine, reqs>>,
         server'.at \in {"submit", "filling"} => server' = server,
         resting'[o].qty <= largest'[o],
         o \notin shrunk' => filled'[o] + Untold(o)' = resting'[o].qty - resting'[o].leaves,
         o \notin shrunk' => filled'[o] <= largest'[o]
  PROVE  Lots(o)'
<1>1. ~InQueue(o) /\ ~InHand(o) /\ mine[o] # None
  BY SomethingIsThere DEF SimInv, RestsAfter, Traffic, Placed
<1> QED
  BY <1>1 DEF Lots, InQueue, InHand

LEMMA CancelledLots ==
  ASSUME SimInv, LotsInv, Cancelled
  PROVE  LotsInv'
<1>1. /\ server.at # "idle" /\ UNCHANGED <<mine, reqs, matcher, filled, largest, shrunk>>
      /\ server' = Idle /\ server'.at = "idle"
  BY DEF Cancelled, Quiet, Idle
<1>2. PICK o \in SimOrders : o = server.req.id
  BY <1>1, InService
<1>3. resting[o] \in Held
  BY <1>2 DEF Cancelled, Rests, SimInv, SimTypeOK
<1>4. /\ resting'[o].qty = resting[o].qty /\ resting'[o].leaves = resting[o].leaves
      /\ \A p \in SimOrders : p # o => resting'[p] = resting[p]
  BY <1>2, <1>3 DEF Cancelled, SimInv, SimTypeOK, Held
<1>5. \A p \in SimOrders : Untold(p)' = Untold(p)
  BY <1>1 DEF Untold
<1>6. /\ resting[o].qty <= largest[o]
      /\ o \notin shrunk => filled[o] + Untold(o) = resting[o].qty - resting[o].leaves
      /\ o \notin shrunk => filled[o] <= largest[o]
  BY <1>3 DEF LotsInv, Lots
<1>7. Lots(o)'
  BY <1>1, <1>3, <1>4, <1>5, <1>6, RestingLots
<1> QED
  BY <1>1, <1>4, <1>5, <1>7, VenueLots

LEMMA AmendedLots ==
  ASSUME SimInv, LotsInv, Amended
  PROVE  LotsInv'
<1>1. /\ server.at # "idle" /\ UNCHANGED <<mine, reqs, matcher, filled, largest>>
      /\ server' = Idle /\ server'.at = "idle"
  BY DEF Amended, Quiet, Idle
<1>2. PICK o \in SimOrders, q \in Nat : o = server.req.id /\ q = server.req.qty
  BY <1>1, InService
<1>3. resting[o] \in Held
  BY <1>2 DEF Amended, Rests, SimInv, SimTypeOK
<1>4. PICK h \in Held : h = resting[o]
  BY <1>3
<1>5. h.qty \in Nat /\ h.leaves \in Nat
  BY DEF Held
<1>6. /\ resting'[o] = AmendedTo(h, q)
      /\ \A p \in SimOrders : p # o => resting'[p] = resting[p]
  BY <1>2, <1>4 DEF Amended, SimInv, SimTypeOK
<1>7. resting'[o].qty = q /\ resting'[o].leaves = IF q > h.qty - h.leaves THEN q - (h.qty - h.leaves) ELSE 0
  BY <1>6 DEF AmendedTo, Held
<1>8. \A p \in SimOrders : Untold(p)' = Untold(p)
  BY <1>1 DEF Untold
<1>9. /\ o \notin shrunk => filled[o] + Untold(o) = h.qty - h.leaves
      /\ o \notin shrunk => filled[o] <= largest[o]
      /\ q <= largest[o]
  BY <1>1, <1>2, <1>3, <1>4 DEF LotsInv, Lots, AskedFor
<1>10. /\ q < h.qty - h.leaves => o \in shrunk'
       /\ \A p \in SimOrders : p \in shrunk => p \in shrunk'
  BY <1>2, <1>4 DEF Amended
<1>11. o \notin shrunk' => filled'[o] + Untold(o)' = resting'[o].qty - resting'[o].leaves
  <2> SUFFICES ASSUME o \notin shrunk'
               PROVE  filled[o] + Untold(o) = resting'[o].qty - resting'[o].leaves
    BY <1>1, <1>8
  <2>1. PICK d \in Int : d = h.qty - h.leaves
    BY <1>5
  <2>2. ~(q < d) /\ filled[o] + Untold(o) = d
    BY <1>9, <1>10, <2>1
  <2>3. CASE q > d
    BY <1>7, <2>1, <2>2, <2>3
  <2>4. CASE q = d
    BY <1>7, <2>1, <2>2, <2>4
  <2> QED
    BY <2>1, <2>2, <2>3, <2>4
<1>12. Lots(o)'
  BY <1>1, <1>3, <1>7, <1>9, <1>10, <1>11, RestingLots
<1> QED
  BY <1>1, <1>6, <1>8, <1>10, <1>12, VenueLots

(* A request taken off the queue: its submission is served with nothing filled. *)
LEMMA ServeLots ==
  ASSUME SimInv, LotsInv, ServeNext
  PROVE  LotsInv'
<1>1. PICK r, Q : r = Head(reqs) /\ Q = Tail(reqs)
  OBVIOUS
<1>2. reqs \in Seq(SimRequest) /\ reqs # << >>
  BY DEF SimInv, SimTypeOK, ServeNext
<1>3. /\ r \in SimRequest /\ Q \in Seq(SimRequest) /\ 1 \in DOMAIN reqs /\ r = reqs[1]
      /\ \A n \in DOMAIN Q : /\ n \in Nat /\ n >= 1 /\ n + 1 \in DOMAIN reqs
                            /\ Q[n] = reqs[n + 1]
  BY <1>1, <1>2, Dequeued
<1>4. /\ server.at = "idle" /\ server' = [at |-> r.do, req |-> r, rest |-> 0] /\ reqs' = Q
      /\ UNCHANGED <<mine, resting, matcher, filled, largest, shrunk>>
  BY <1>1 DEF ServeNext
<1>5. r.do \in {"submit", "cancel", "amend"}
  BY <1>3 DEF SimRequest
<1>6. AskedFor'
  <2>1. \A n \in DOMAIN Q : Q[n].qty <= largest[Q[n].id]
    BY <1>3 DEF LotsInv, AskedFor
  <2>2. r.qty <= largest[r.id]
    BY <1>3 DEF LotsInv, AskedFor
  <2> QED
    BY <1>4, <2>1, <2>2 DEF AskedFor
<1>7. ASSUME NEW p \in SimOrders
      PROVE  Lots(p)'
  <2>1. Lots(p) /\ (InQueue(p)' => InQueue(p))
        /\ (server'.at \in {"submit", "filling"} /\ server'.req.id = p => r.do = "submit" /\ InQueue(p))
    BY <1>3, <1>4, <1>5 DEF LotsInv, InQueue
  <2>2. server'.at # "filling" /\ Untold(p)' = Untold(p)
    BY <1>4, <1>5 DEF Untold
  <2> QED
    BY <1>4, <2>1, <2>2 DEF Lots
<1> QED
  BY <1>4, <1>6, <1>7 DEF LotsInv

(* Answers and fills are about orders that are there, and leave them there. *)
LEMMA HeardAnswer ==
  ASSUME SimInv, OnAnswer, NEW a, a = Head(answerQ)
  PROVE  /\ a \in SimAnswer /\ a.id \in SimOrders /\ mine[a.id] \in Mine
         /\ mine'[a.id] = AnswerTaken(mine[a.id], a) /\ mine'[a.id] \in Mine
         /\ \A p \in SimOrders : p # a.id => mine'[p] = mine[p]
<1>1. answerQ \in Seq(SimAnswer) /\ answerQ # << >>
  BY DEF SimInv, SimTypeOK, OnAnswer
<1>2. a \in SimAnswer /\ 1 \in DOMAIN answerQ /\ a = answerQ[1]
  BY <1>1, Dequeued
<1>3. a.id \in SimOrders /\ mine[a.id] \in Mine
  BY <1>2 DEF SimInv, Traffic, AllPlaced, Placed, SimAnswer
<1>4. AnswerTaken(mine[a.id], a) \in Mine
  BY <1>2, <1>3, AnswerMine
<1> QED
  BY <1>2, <1>3, <1>4 DEF OnAnswer, SimInv, SimTypeOK

LEMMA HeardFill ==
  ASSUME SimInv, OnSimFill, NEW f, f = Head(fillQ)
  PROVE  /\ f \in SimExecution /\ f.id \in SimOrders /\ f.qty \in Nat /\ mine[f.id] \in Mine
         /\ mine'[f.id] = IF IsTerminal(mine[f.id]) THEN RecordFill(mine[f.id], f.qty)
                          ELSE ApplyFill(mine[f.id], f.qty)
         /\ mine'[f.id] \in Mine
         /\ \A p \in SimOrders : p # f.id => mine'[p] = mine[p]
<1>1. fillQ \in Seq(SimExecution) /\ fillQ # << >>
  BY DEF SimInv, SimTypeOK, OnSimFill
<1>2. f \in SimExecution /\ 1 \in DOMAIN fillQ /\ f = fillQ[1]
  BY <1>1, Dequeued
<1>3. f.id \in SimOrders /\ mine[f.id] \in Mine /\ f.qty \in Nat
  BY <1>2 DEF SimInv, Traffic, AllPlaced, Placed, SimExecution
<1>4. RecordFill(mine[f.id], f.qty) \in Mine /\ ApplyFill(mine[f.id], f.qty) \in Mine
  BY <1>3, FillMine
<1> QED
  BY <1>2, <1>3, <1>4 DEF OnSimFill, SimInv, SimTypeOK

(* What the OMS hears changes nothing at the venue. *)
LEMMA HearingLots ==
  ASSUME SimInv, LotsInv, OnAnswer \/ OnSimFill
  PROVE  LotsInv'
<1>1. /\ UNCHANGED <<reqs, resting, server, matcher, filled, largest, shrunk>>
      /\ SimInv'
  BY OnAnswerStep, OnSimFillStep DEF OnAnswer, OnSimFill
<1>2. \A p \in SimOrders : mine'[p] = None => mine[p] = None
  <2>1. CASE OnAnswer
    BY <2>1, HeardAnswer, SomethingIsThere
  <2>2. CASE OnSimFill
    BY <2>2, HeardFill, SomethingIsThere
  <2> QED
    BY <2>1, <2>2
<1>3. largest' \in [SimOrders -> Nat] /\ \A p \in SimOrders : largest[p] \in Nat /\ Lots(p)
  BY <1>1 DEF LotsInv
<1>4. AskedFor'
  BY <1>1, <1>3, SameRequests
<1>5. ASSUME NEW p \in SimOrders PROVE Lots(p)'
  BY <1>1, <1>2, <1>3, LotsKept DEF InQueue, Untold
<1> QED
  BY <1>3, <1>4, <1>5 DEF LotsInv

----------------------------------------------------------------------------
(* The MARKET_DATA consumer *)

LEMMA MatcherLots ==
  ASSUME SimInv, LotsInv, NEW o \in SimOrders, resting[o] \in Held,
         UNCHANGED <<mine, reqs, server, largest, shrunk>>,
         \A p \in SimOrders : p # o => /\ UNCHANGED <<resting[p], filled[p]>>
                                       /\ Untold(p)' = Untold(p),
         resting'[o].qty = resting[o].qty,
         filled'[o] + Untold(o)' + resting'[o].leaves = filled[o] + Untold(o) + resting[o].leaves,
         resting'[o].leaves \in Nat, Untold(o)' \in Nat, filled'[o] \in Int
  PROVE  LotsInv'
<1>1. resting[o].qty \in Nat /\ resting[o].leaves \in Nat /\ filled[o] \in Int /\ Untold(o) \in Nat
      /\ largest[o] \in Nat
  BY DEF Held, SimInv, SimTypeOK, Untold, LotsInv
<1>2. /\ resting[o].qty <= largest[o]
      /\ o \notin shrunk => filled[o] + Untold(o) = resting[o].qty - resting[o].leaves
  BY DEF LotsInv, Lots
<1>3. o \notin shrunk' => filled'[o] + Untold(o)' = resting'[o].qty - resting'[o].leaves
  BY <1>1, <1>2
<1>4. o \notin shrunk' => filled'[o] <= largest'[o]
  BY <1>1, <1>2, <1>3
<1>5. Lots(o)'
  BY <1>2, <1>3, <1>4, RestingLots
<1> QED
  BY <1>5, VenueLots

LEMMA VisitLots ==
  ASSUME SimInv, LotsInv,
         TradeArrives \/ VisitsEnd \/ \E o \in SimOrders, crosses \in BOOLEAN : Visit(o, crosses)
  PROVE  LotsInv'
<1>1. UNCHANGED <<mine, reqs, resting, server, filled, largest, shrunk>>
  BY DEF TradeArrives, VisitsEnd, Visit
<1>2. matcher.at # "second" /\ matcher'.at # "second"
  <2>1. CASE TradeArrives
    <3>1. PICK T : matcher' = [Still EXCEPT !.at = "visit", !.todo = T]
      BY <2>1 DEF TradeArrives
    <3> QED
      BY <2>1, <3>1 DEF TradeArrives, Still
  <2>2. CASE VisitsEnd
    BY <2>2 DEF VisitsEnd, Still
  <2>3. ASSUME NEW o \in SimOrders, NEW crosses \in BOOLEAN, Visit(o, crosses)
        PROVE  matcher.at # "second" /\ matcher'.at # "second"
    BY <2>3 DEF Visit, SimInv, SimTypeOK
  <2> QED
    BY <2>1, <2>2, <2>3
<1>3. \A p \in SimOrders : Untold(p)' = Untold(p)
  BY <1>2 DEF Untold
<1>4. largest' \in [SimOrders -> Nat] /\ \A p \in SimOrders : largest[p] \in Nat /\ Lots(p)
  BY <1>1 DEF LotsInv
<1>5. AskedFor'
  BY <1>1, <1>4, SameRequests
<1>6. ASSUME NEW p \in SimOrders PROVE Lots(p)'
  BY <1>1, <1>3, <1>4, LotsKept DEF InQueue
<1> QED
  BY <1>4, <1>5, <1>6 DEF LotsInv

LEMMA MatchEmitsLots ==
  ASSUME SimInv, LotsInv, NEW q \in Nat, MatchEmits(q)
  PROVE  LotsInv'
<1>1. /\ UNCHANGED <<mine, reqs, server, largest, shrunk>> /\ matcher.at = "match"
  BY DEF MatchEmits
<1>2. PICK o \in SimOrders, h \in Held : o = matcher.id /\ h = resting[o]
  BY <1>1 DEF SimInv, MatcherHolds
<1>3. h.leaves \in Nat /\ q <= h.leaves /\ h.leaves - q \in Nat
  BY <1>2 DEF MatchEmits, Held
<1>4. /\ resting'[o].qty = h.qty /\ resting'[o].leaves = 0
      /\ \A p \in SimOrders : p # o => resting'[p] = resting[p]
  BY <1>2 DEF MatchEmits, SimInv, SimTypeOK, Held
<1>5. /\ filled'[o] = filled[o] + q /\ filled[o] \in Int
      /\ \A p \in SimOrders : p # o => filled'[p] = filled[p]
  BY <1>2 DEF MatchEmits, Fills, Quiet, SimInv, SimTypeOK
<1>6. \A p \in SimOrders : Untold(p) = 0
  BY <1>1 DEF Untold
<1>7. /\ Untold(o)' = h.leaves - q
      /\ \A p \in SimOrders : p # o => Untold(p)' = 0
  <2>1. CASE q < h.leaves
    <3>1. matcher'.at = "second" /\ matcher'.id = o /\ matcher'.rest = h.leaves - q
      BY <1>2, <2>1 DEF MatchEmits, SimInv, SimTypeOK
    <3> QED
      BY <3>1 DEF Untold
  <2>2. CASE q = h.leaves
    <3>1. matcher'.at = "visit"
      BY <1>2, <2>2, <1>3 DEF MatchEmits, SimInv, SimTypeOK
    <3> QED
      BY <1>3, <2>2, <3>1 DEF Untold
  <2> QED
    BY <1>3, <2>1, <2>2
<1>8. filled'[o] + Untold(o)' + resting'[o].leaves = filled[o] + Untold(o) + resting[o].leaves
  BY <1>2, <1>3, <1>4, <1>5, <1>6, <1>7
<1>9. resting'[o].leaves \in Nat /\ Untold(o)' \in Nat /\ filled'[o] \in Int
  BY <1>3, <1>4, <1>5, <1>7
<1>10. /\ resting[o] \in Held /\ resting'[o].qty = resting[o].qty
       /\ \A p \in SimOrders : p # o => UNCHANGED <<resting[p], filled[p]>>
                                      /\ Untold(p)' = Untold(p)
  BY <1>2, <1>4, <1>5, <1>6, <1>7
<1> QED
  BY <1>1, <1>8, <1>9, <1>10, MatcherLots

LEMMA MatchSecondLots ==
  ASSUME SimInv, LotsInv, MatchSecond
  PROVE  LotsInv'
<1>1. /\ UNCHANGED <<mine, reqs, server, largest, shrunk>> /\ matcher.at = "second"
  BY DEF MatchSecond
<1>2. PICK o \in SimOrders, h \in Held, r \in Nat : o = matcher.id /\ h = resting[o] /\ r = matcher.rest
  BY <1>1 DEF SimInv, MatcherHolds, SimTypeOK
<1>3. h.leaves \in Nat
  BY DEF Held
<1>4. /\ resting'[o].qty = h.qty /\ resting'[o].leaves = h.leaves
      /\ \A p \in SimOrders : p # o => resting'[p] = resting[p]
  BY <1>2 DEF MatchSecond, SimInv, SimTypeOK, Held
<1>5. /\ filled'[o] = filled[o] + r /\ filled[o] \in Int
      /\ \A p \in SimOrders : p # o => filled'[p] = filled[p]
  BY <1>2 DEF MatchSecond, Fills, SimInv, SimTypeOK
<1>6. /\ Untold(o) = r
      /\ \A p \in SimOrders : p # o => Untold(p) = 0
  BY <1>1, <1>2 DEF Untold
<1>7. \A p \in SimOrders : Untold(p)' = 0
  <2>1. matcher'.at = "visit"
    BY DEF MatchSecond, SimInv, SimTypeOK
  <2> QED
    BY <2>1 DEF Untold
<1>8. filled'[o] + Untold(o)' + resting'[o].leaves = filled[o] + Untold(o) + resting[o].leaves
  BY <1>2, <1>3, <1>4, <1>5, <1>6, <1>7
<1>9. resting'[o].leaves \in Nat /\ Untold(o)' \in Nat /\ filled'[o] \in Int
  BY <1>3, <1>4, <1>5, <1>7
<1>10. /\ resting[o] \in Held /\ resting'[o].qty = resting[o].qty
       /\ \A p \in SimOrders : p # o => UNCHANGED <<resting[p], filled[p]>>
                                      /\ Untold(p)' = Untold(p)
  BY <1>2, <1>4, <1>5, <1>6, <1>7
<1> QED
  BY <1>1, <1>8, <1>9, <1>10, MatcherLots

LEMMA LotsNext ==
  ASSUME SimInv, LotsInv, SimNext
  PROVE  LotsInv'
<1>1. ASSUME NEW q \in 1..server.rest, EmitFill(q)
      PROVE  LotsInv'
  BY <1>1, EmitFillLots
<1>2. ASSUME NEW q \in 0..MaxLot, MatchEmits(q)
      PROVE  LotsInv'
  BY <1>2, SimAssumption, MatchEmitsLots
<1>3. ASSUME NEW o \in SimOrders, NEW q \in 1..MaxLot, NEW kind \in SimKinds, SimPlace(o, q, kind)
      PROVE  LotsInv'
  BY <1>3, PlaceLots
<1>4. ASSUME NEW o \in SimOrders, SimCancel(o)
      PROVE  LotsInv'
  BY <1>4, AskLots DEF SimCancel
<1>5. ASSUME NEW o \in SimOrders, NEW q \in 1..MaxLot, SimAmend(o, q)
      PROVE  LotsInv'
  BY <1>5, SimAssumption, AskLots DEF SimAmend
<1>6. ASSUME NEW o \in SimOrders, NEW crosses \in BOOLEAN, Visit(o, crosses)
      PROVE  LotsInv'
  BY <1>6, VisitLots
<1> QED
  BY <1>1, <1>2, <1>3, <1>4, <1>5, <1>6, ServeLots, AnswerLots, SubmitCrossesLots, SubmitRestsLots,
     CancelledLots, AmendedLots, VisitLots, MatchSecondLots, HearingLots DEF SimNext

----------------------------------------------------------------------------
(* What the OMS has heard, and what is on its way to it *)

FillsOf(o) == [e \in SimExecution |-> IF e.id = o THEN e.qty ELSE 0]
Told(o) == SumOf(Along(FillsOf(o), fillQ))

(* The venue's fills are those the OMS has counted and those on the topic. *)
Heard == \A o \in SimOrders : mine[o] \in Mine => mine[o].cum + Told(o) = filled[o]

LEMMA FillsOfTyped ==
  ASSUME NEW o \in SimOrders
  PROVE  FillsOf(o) \in [SimExecution -> Int]
BY DEF FillsOf, SimExecution

LEMMA ToldInt ==
  ASSUME SimInv, NEW o \in SimOrders
  PROVE  Told(o) \in Int
BY FillsOfTyped, AlongInt DEF Told, SimInv, SimTypeOK

(* One more fill is one more to hear of, and one less when it is taken. *)
LEMMA ToldAppend ==
  ASSUME SimInv, NEW e \in SimExecution, fillQ' = Append(fillQ, e), NEW o \in SimOrders
  PROVE  Told(o)' = Told(o) + (IF e.id = o THEN e.qty ELSE 0)
<1>1. FillsOf(o)[e] = IF e.id = o THEN e.qty ELSE 0
  BY DEF FillsOf
<1>2. fillQ \in Seq(SimExecution) /\ FillsOf(o) \in [SimExecution -> Int]
  BY FillsOfTyped DEF SimInv, SimTypeOK
<1>3. SumOf(Along(FillsOf(o), Append(fillQ, e))) = SumOf(Along(FillsOf(o), fillQ)) + FillsOf(o)[e]
  BY <1>2, AlongAppend, Zenon
<1> QED
  BY <1>1, <1>3 DEF Told

LEMMA ToldTail ==
  ASSUME SimInv, fillQ # << >>, NEW f \in SimExecution, f = Head(fillQ), fillQ' = Tail(fillQ),
         NEW o \in SimOrders
  PROVE  Told(o) = (IF f.id = o THEN f.qty ELSE 0) + Told(o)'
<1>1. FillsOf(o)[f] = IF f.id = o THEN f.qty ELSE 0
  BY DEF FillsOf
<1>2. SumOf(Along(FillsOf(o), fillQ)) = FillsOf(o)[Head(fillQ)] + SumOf(Along(FillsOf(o), Tail(fillQ)))
  BY FillsOfTyped, AlongTail DEF SimInv, SimTypeOK
<1> QED
  BY <1>1, <1>2 DEF Told

(* Nobody hears of fills of an order that has not been placed. *)
LEMMA ToldNothing ==
  ASSUME SimInv, NEW o \in SimOrders, mine[o] = None
  PROVE  Told(o) = 0
<1>1. fillQ \in Seq(SimExecution) /\ \A n \in DOMAIN fillQ : fillQ[n].id # o
  BY SomethingIsThere DEF SimInv, SimTypeOK, Traffic, AllPlaced, Placed
<1>2. \A n \in DOMAIN fillQ : fillQ[n] \in SimExecution
  BY <1>1, ElementOfSeq, LenProperties
<1>3. \A n \in DOMAIN fillQ : FillsOf(o)[fillQ[n]] = 0
  BY <1>1, <1>2 DEF FillsOf
<1> QED
  BY <1>1, <1>3, FillsOfTyped, AlongZero DEF Told

LEMMA ToldEmpty ==
  ASSUME SimInv, fillQ = << >>, NEW o \in SimOrders
  PROVE  Told(o) = 0
<1>1. fillQ \in Seq(SimExecution) /\ \A n \in DOMAIN fillQ : FillsOf(o)[fillQ[n]] = 0
  BY DEF SimInv, SimTypeOK
<1> QED
  BY <1>1, FillsOfTyped, AlongZero DEF Told

(* Only a fill changes what has been counted of an order. *)
LEMMA CountedByAnswer ==
  ASSUME NEW m \in Mine, NEW a
  PROVE  AnswerTaken(m, a).cum = m.cum
BY DEF AnswerTaken, Transition, Moved, Mine

LEMMA CountedByFill ==
  ASSUME NEW m \in Mine, NEW q \in Nat
  PROVE  RecordFill(m, q).cum = m.cum + q /\ ApplyFill(m, q).cum = m.cum + q
<1>1. RecordFill(m, q) \in Mine /\ RecordFill(m, q).cum = m.cum + q
  BY DEF RecordFill, Mine
<1>2. \A n \in Mine, s \in {"FILLED", "PARTIALLY_FILLED"} : Transition(n, s).cum = n.cum
  BY DEF Transition, Moved, Mine
<1> QED
  BY <1>1, <1>2 DEF ApplyFill

LEMMA CountedKept ==
  ASSUME SimInv, Heard, UNCHANGED <<fillQ, filled>>,
         \A p \in SimOrders : mine'[p] \in Mine => mine[p] \in Mine /\ mine'[p].cum = mine[p].cum
  PROVE  Heard'
BY DEF Heard, Told

LEMMA PlaceCounted ==
  ASSUME SimInv, LotsInv, Heard, NEW o \in SimOrders, NEW q, NEW kind, SimPlace(o, q, kind)
  PROVE  Heard'
<1>1. mine[o] = None /\ UNCHANGED <<fillQ, filled>>
  BY DEF SimPlace
<1>2. /\ mine'[o].cum = 0
      /\ \A p \in SimOrders : p # o => mine'[p] = mine[p]
  BY DEF SimPlace, SimInv, SimTypeOK
<1>3. Told(o) = 0 /\ filled[o] = 0
  BY <1>1, ToldNothing DEF LotsInv, Lots
<1> QED
  BY <1>1, <1>2, <1>3 DEF Heard, Told

LEMMA AskCounted ==
  ASSUME SimInv, Heard, NEW o \in SimOrders, NEW do, NEW status, NEW q, SimAsk(o, do, status, q)
  PROVE  Heard'
<1>1. UNCHANGED <<fillQ, filled>> /\ mine[o] \in Mine
  BY DEF SimAsk, SimInv, SimTypeOK
<1>2. /\ mine'[o].cum = mine[o].cum
      /\ \A p \in SimOrders : p # o => mine'[p] = mine[p]
  BY <1>1 DEF SimAsk, SimInv, SimTypeOK, Moved, Mine
<1> QED
  BY <1>1, <1>2, CountedKept

LEMMA OnAnswerCounted ==
  ASSUME SimInv, Heard, OnAnswer
  PROVE  Heard'
<1>1. PICK a : a = Head(answerQ)
  OBVIOUS
<1>2. /\ a.id \in SimOrders /\ mine[a.id] \in Mine /\ mine'[a.id].cum = mine[a.id].cum
      /\ \A p \in SimOrders : p # a.id => mine'[p] = mine[p]
  BY <1>1, HeardAnswer, CountedByAnswer
<1>3. UNCHANGED <<fillQ, filled>>
  BY DEF OnAnswer
<1> QED
  BY <1>2, <1>3, CountedKept

LEMMA OnSimFillCounted ==
  ASSUME SimInv, Heard, OnSimFill
  PROVE  Heard'
<1>1. PICK f : f = Head(fillQ)
  OBVIOUS
<1>2. /\ f \in SimExecution /\ f.id \in SimOrders /\ f.qty \in Nat /\ mine[f.id] \in Mine
      /\ mine'[f.id].cum = mine[f.id].cum + f.qty
      /\ \A p \in SimOrders : p # f.id => mine'[p] = mine[p]
  BY <1>1, HeardFill, CountedByFill
<1>3. fillQ # << >> /\ fillQ' = Tail(fillQ) /\ UNCHANGED filled
  BY DEF OnSimFill
<1>4. ASSUME NEW p \in SimOrders, mine'[p] \in Mine
      PROVE  mine'[p].cum + Told(p)' = filled'[p]
  <2>1. Told(p) = (IF f.id = p THEN f.qty ELSE 0) + Told(p)' /\ Told(p) \in Int
    BY <1>1, <1>2, <1>3, ToldTail, ToldInt
  <2>2. Told(p)' \in Int
    <3>1. fillQ' \in Seq(SimExecution)
      BY OnSimFillStep DEF SimInv, SimTypeOK
    <3>2. \A q \in Seq(SimExecution) : SumOf(Along(FillsOf(p), q)) \in Int
      BY FillsOfTyped, AlongInt
    <3> QED
      BY <3>1, <3>2 DEF Told
  <2>3. mine[p] \in Mine /\ mine[p].cum \in Nat /\ mine[p].cum + Told(p) = filled[p]
    BY <1>2, <1>4 DEF Heard, Mine
  <2>4. CASE f.id = p
    BY <1>2, <1>3, <2>1, <2>2, <2>3, <2>4
  <2>5. CASE f.id # p
    BY <1>2, <1>3, <2>1, <2>2, <2>3, <2>5
  <2> QED
    BY <2>4, <2>5
<1> QED
  BY <1>4 DEF Heard

LEMMA FillsCounted ==
  ASSUME SimInv, Heard, NEW o \in SimOrders, NEW q \in Nat, Fills(o, q), UNCHANGED mine
  PROVE  Heard'
<1> DEFINE e == [id |-> o, qty |-> q]
<1>1. e \in SimExecution /\ e.id = o /\ e.qty = q /\ fillQ' = Append(fillQ, e)
  BY DEF SimExecution, Fills
<1> HIDE DEF e
<1>2. /\ filled'[o] = filled[o] + q
      /\ \A p \in SimOrders : p # o => filled'[p] = filled[p]
  BY DEF Fills, SimInv, SimTypeOK
<1>3. ASSUME NEW p \in SimOrders, mine'[p] \in Mine
      PROVE  mine'[p].cum + Told(p)' = filled'[p]
  <2>1. Told(p)' = Told(p) + (IF e.id = p THEN e.qty ELSE 0) /\ Told(p) \in Int
    BY <1>1, ToldAppend, ToldInt
  <2>2. mine'[p].cum = mine[p].cum /\ mine[p].cum \in Nat /\ mine[p].cum + Told(p) = filled[p]
    BY <1>3 DEF Heard, Mine
  <2>3. CASE p = o
    BY <1>1, <1>2, <2>1, <2>2, <2>3
  <2>4. CASE p # o
    BY <1>1, <1>2, <2>1, <2>2, <2>4
  <2> QED
    BY <2>3, <2>4
<1> QED
  BY <1>3 DEF Heard

LEMMA HeardNext ==
  ASSUME SimInv, LotsInv, Heard, SimNext
  PROVE  Heard'
<1>1. ASSUME UNCHANGED <<mine, fillQ, filled>>
      PROVE  Heard'
  BY <1>1, CountedKept
<1>2. ASSUME NEW q \in 1..server.rest, EmitFill(q)
      PROVE  Heard'
  BY <1>2, InService, FillsCounted DEF EmitFill
<1>3. ASSUME NEW q \in 0..MaxLot, MatchEmits(q)
      PROVE  Heard'
  <2>1. q \in Nat /\ matcher.id \in SimOrders /\ UNCHANGED mine
    BY <1>3, SimAssumption DEF MatchEmits, SimInv, MatcherHolds
  <2> QED
    BY <1>1, <1>3, <2>1, FillsCounted DEF MatchEmits, Quiet
<1>4. ASSUME MatchSecond
      PROVE  Heard'
  <2>1. matcher.rest \in Nat /\ matcher.id \in SimOrders /\ UNCHANGED mine
    BY <1>4 DEF MatchSecond, SimInv, SimTypeOK, MatcherHolds
  <2> QED
    BY <1>4, <2>1, FillsCounted DEF MatchSecond
<1>5. ASSUME NEW o \in SimOrders, NEW q \in 1..MaxLot, NEW kind \in SimKinds, SimPlace(o, q, kind)
      PROVE  Heard'
  BY <1>5, PlaceCounted
<1>6. ASSUME NEW o \in SimOrders, SimCancel(o)
      PROVE  Heard'
  BY <1>6, AskCounted DEF SimCancel
<1>7. ASSUME NEW o \in SimOrders, NEW q \in 1..MaxLot, SimAmend(o, q)
      PROVE  Heard'
  BY <1>7, AskCounted DEF SimAmend
<1>8. ASSUME NEW o \in SimOrders, NEW crosses \in BOOLEAN, Visit(o, crosses)
      PROVE  Heard'
  BY <1>1, <1>8 DEF Visit
<1>9. ASSUME \/ ServeNext \/ SubmitRejected \/ SubmitCrosses \/ SubmitRests \/ NoPrice
             \/ NotFound \/ Cancelled \/ Amended \/ TradeArrives \/ VisitsEnd
      PROVE  Heard'
  BY <1>1, <1>9 DEF ServeNext, SubmitRejected, SubmitCrosses, SubmitRests, NoPrice, NotFound, Cancelled,
                    Amended, TradeArrives, VisitsEnd, Quiet
<1> QED
  BY <1>2, <1>3, <1>4, <1>5, <1>6, <1>7, <1>8, <1>9, OnAnswerCounted, OnSimFillCounted DEF SimNext

LEMMA LotsInit == SimInit => LotsInv /\ Heard
<1> SUFFICES ASSUME SimInit PROVE LotsInv /\ Heard
  OBVIOUS
<1>1. \A o \in SimOrders : mine[o] = None /\ resting[o] = None /\ filled[o] = 0 /\ largest[o] = 0
  BY DEF SimInit
<1>2. largest \in [SimOrders -> Nat] /\ AskedFor /\ \A o \in SimOrders : ~InQueue(o)
  BY DEF SimInit, AskedFor, Idle, InQueue
<1>3. server.at = "idle"
  BY DEF SimInit, Idle
<1> QED
  BY <1>1, <1>2, <1>3, SomethingIsThere DEF LotsInv, Lots, Heard

(* The simulated venue sells no more of an order than was asked for, and the OMS
   counts what was sold once its topic is drained. *)
THEOREM SoldAsAsked == SimSpec => []SimOverfill
<1> DEFINE I == SimInv /\ LotsInv /\ Heard
<1>1. SimInit => I
  BY SimInitInv, LotsInit
<1>2. I /\ [SimNext]_simVars => I'
  <2> SUFFICES ASSUME I, [SimNext]_simVars PROVE I'
    OBVIOUS
  <2>1. CASE SimNext
    BY <2>1, SimNextInv, LotsNext, HeardNext
  <2>2. CASE UNCHANGED simVars
    <3>1. LotsInv' /\ Heard'
      BY <2>2 DEF simVars, LotsInv, AskedFor, Lots, InQueue, Untold, Heard, Told
    <3> QED
      BY <2>2, <3>1, SimNextInv
  <2> QED
    BY <2>1, <2>2
<1>3. I => SimOverfill
  <2> SUFFICES ASSUME I, NEW o \in SimOrders
               PROVE  /\ o \notin shrunk => filled[o] <= largest[o]
                      /\ fillQ = << >> /\ mine[o] # None => mine[o].cum = filled[o]
    BY DEF SimOverfill
  <2>1. o \notin shrunk => filled[o] <= largest[o]
    BY DEF LotsInv, Lots
  <2>2. ASSUME fillQ = << >>, mine[o] # None
        PROVE  mine[o].cum = filled[o]
    <3>1. mine[o] \in Mine /\ mine[o].cum \in Nat
      BY <2>2 DEF SimInv, SimTypeOK, Mine
    <3>2. Told(o) = 0
      BY <2>2, ToldEmpty
    <3> QED
      BY <3>1, <3>2 DEF Heard
  <2> QED
    BY <2>1, <2>2
<1> QED
  BY <1>1, <1>2, <1>3, PTL DEF SimSpec
=============================================================================
