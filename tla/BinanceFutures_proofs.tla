----------------------- MODULE BinanceFutures_proofs -----------------------
(***************************************************************************)
(* Theorems about the OMS closed with the futures gateway, the stream and  *)
(* the venue.  Whatever faults are among Faults, it stays within what      *)
(* OMSSpec allows, so what OMS_proofs proves holds of it; an order the OMS *)
(* has given up is off the book; and every execution is accounted for      *)
(* exactly once.  Under the hypotheses each names, a strategy never has    *)
(* more orders on the book than its signals declare, two strategies never  *)
(* have orders there that would trade with each other, and an order that   *)
(* never traded is on the book where the OMS takes it to be.               *)
(***************************************************************************)
EXTENDS BinanceFutures, OMS_proofs, Sums_proofs

----------------------------------------------------------------------------
(* What is on its way between the parts is about orders the OMS holds      *)

AnswerKinds == {"ack", "reject", "cancelled", "cancel_rejected", "amend_rejected", "amended"}

Requests ==
  {r \in Request : /\ r.id \in Ids
                   /\ r.kind = "amend" => r.price \in 1..MaxPrice /\ r.qty \in 1..MaxQty}
Answers ==
  {e \in [kind : AnswerKinds, id : Ids, price : Nat, qty : Nat] :
     e.kind = "amended" => e.price \in 1..MaxPrice /\ e.qty \in 1..MaxQty}
Executions == [kind : {"fill"}, id : Ids, price : {0}, qty : 1..MaxQty]
Reports == Executions \union {e \in Answers : e.kind = "cancelled"}
Record == [live : BOOLEAN, price : Nat, qty : Nat, cum : Nat]

Traffic ==
  /\ reqQ \in Seq(Requests)
  /\ gw.phase \in {"idle", "answered", "delete"}
  /\ gw.phase = "answered" => gw.event \in Answers
  /\ gw.phase = "delete" => gw.event.id \in Ids
  /\ ordQ \in Seq(Answers) /\ wsQ \in Seq(Reports) /\ fillQ \in Seq(Executions)
  /\ OnBook \subseteq Ids /\ book \in [OnBook -> Record]

LEMMA SeqGrows ==
  ASSUME NEW S, NEW T, S \subseteq T, NEW q \in Seq(S)
  PROVE  q \in Seq(T)
<1>1. Len(q) \in Nat /\ q \in [1..Len(q) -> S]
  BY LenProperties
<1>2. q \in [1..Len(q) -> T]
  BY <1>1
<1> QED
  BY <1>1, <1>2, SeqDef

(* Orders are never forgotten. *)
LEMMA IdsGrow ==
  ASSUME TypeOK, [OMSNext]_omsVars
  PROVE  Ids \subseteq Ids'
<1>1. orders \in Seq(Order)
  BY DEF TypeOK
<1>2. CASE Tame
  BY <1>1, <1>2, TameStep
<1>3. CASE MatchLeg /\ PlaceQuote
  <2>1. PICK o : Adds(o)
    BY <1>3, PlaceAdds DEF MatchLeg
  <2> QED
    BY <1>1, <2>1, AddStep
<1> QED
  BY <1>2, <1>3, TameOrPlaces

LEMMA TrafficGrows ==
  ASSUME Ids \subseteq Ids'
  PROVE  /\ Requests \subseteq Requests' /\ Answers \subseteq Answers'
         /\ Executions \subseteq Executions' /\ Reports \subseteq Reports'
BY DEF Requests, Answers, Executions, Reports

LEMMA TrafficInit == Init => Traffic
<1> SUFFICES ASSUME Init PROVE Traffic
  OBVIOUS
<1>1. /\ reqQ = << >> /\ ordQ = << >> /\ wsQ = << >> /\ fillQ = << >>
      /\ gw.phase = "idle" /\ OnBook = {}
  BY DEF Init, OMSInit, IdleGateway, OnBook
<1>2. \A S : << >> \in Seq(S)
  BY EmptySeq
<1>3. book \in [OnBook -> Record]
  BY <1>1 DEF Init, OnBook
<1> QED
  BY <1>1, <1>2, <1>3 DEF Traffic

(* A request names an order the OMS holds, and an amend a price and a size. *)
LEMMA RequestsStep ==
  ASSUME TypeOK, TypeOK', [OMSNext]_omsVars, reqQ \in Seq(Requests)
  PROVE  reqQ' \in Seq(Requests')
<1>1. Requests \subseteq Requests' /\ Ids \subseteq Ids'
  BY IdsGrow, TrafficGrows
<1>2. reqQ \in Seq(Requests')
  BY <1>1, SeqGrows
<1>3. ASSUME NEW req \in Requests', Published(req) \/ PublishFailed(req)
      PROVE  reqQ' \in Seq(Requests')
  BY <1>2, <1>3 DEF Published, PublishFailed
<1>4. CASE MatchLeg /\ PlaceQuote
  <2> DEFINE req == [kind |-> "new", id |-> Len(orders) + 1,
                     price |-> Target.price, qty |-> Target.qty]
  <2>1. Target \in Leg
    BY <1>4, LegInHand DEF MatchLeg
  <2>2. PICK o : Adds(o)
    BY <1>4, PlaceAdds DEF MatchLeg
  <2>3. Len(orders) + 1 \in Ids' /\ Len(orders) + 1 \in Nat
    BY <2>2, AddStep, LenProperties DEF TypeOK
  <2>4. req \in Requests'
    BY <2>1, <2>3, SizeAssumption DEF Requests, Request, Leg
  <2> QED
    BY <1>3, <1>4, <2>4 DEF PlaceQuote
<1>5. CASE MatchLeg /\ AmendQuote
  <2> DEFINE req == [kind |-> "amend", id |-> First(Free),
                     price |-> Target.price, qty |-> Target.qty]
  <2>1. Target \in Leg
    BY <1>5, LegInHand DEF MatchLeg
  <2>2. First(Free) \in Ids /\ First(Free) \in Nat
    BY <1>5, FreeMember, IdsInterval DEF AmendQuote, TypeOK
  <2>3. req \in Requests'
    BY <1>1, <2>1, <2>2, SizeAssumption DEF Requests, Request, Leg
  <2> QED
    BY <1>3, <1>5, <2>3 DEF AmendQuote
<1>6. CASE CancelOrder
  <2> DEFINE req == [kind |-> "cancel", id |-> First(cancels), price |-> 0, qty |-> 0]
  <2>1. First(cancels) \in Ids /\ First(cancels) \in Nat
    BY <1>6, FirstMember, IdsInterval DEF TypeOK, CancelOrder
  <2>2. req \in Requests'
    BY <1>1, <2>1 DEF Requests, Request
  <2> QED
    BY <1>2, <1>3, <1>6, <2>2 DEF CancelOrder
<1>7. CASE GatewayTakes
  BY <1>2, <1>7, HeadTailProperties DEF GatewayTakes
<1>8. CASE UNCHANGED reqQ
  BY <1>2, <1>8
<1> QED
  BY <1>4, <1>5, <1>6, <1>7, <1>8
     DEF OMSNext, omsVars, OnSignal, Verdict, OnRiskBlocked, OnRiskApproved,
         EngageKillSwitch, OnKillAlert, PauseStrategy, Engine, MatchLeg, KeepQuote, HoldLeg,
         CancelUnmatched, Response, OnAck, OnReject, OnCancelled, OnCancelRejected,
         OnAmendRejected, OnAmended, OnFill, Update, Sweep

(* What the OMS does by itself leaves the traffic of the other parts in order. *)
LEMMA OthersUnmoved ==
  ASSUME TypeOK, TypeOK', Traffic, [OMSNext]_omsVars, UNCHANGED <<gw, book, wsQ>>,
         ordQ' \in Seq(Answers), fillQ' \in Seq(Executions)
  PROVE  Traffic'
<1>1. /\ Ids \subseteq Ids' /\ Answers \subseteq Answers'
      /\ Executions \subseteq Executions' /\ Reports \subseteq Reports'
  BY IdsGrow, TrafficGrows
<1>2. /\ ordQ' \in Seq(Answers') /\ wsQ' \in Seq(Reports') /\ fillQ' \in Seq(Executions')
  BY <1>1, SeqGrows DEF Traffic
<1>3. reqQ' \in Seq(Requests')
  BY RequestsStep DEF Traffic
<1>4. OnBook' = OnBook /\ OnBook \subseteq Ids'
  BY <1>1 DEF Traffic, OnBook
<1> QED
  BY <1>1, <1>2, <1>3, <1>4 DEF Traffic

----------------------------------------------------------------------------
(* The gateway, the venue and the stream                                   *)

LEMMA SameIds ==
  ASSUME UNCHANGED orders
  PROVE  /\ Ids' = Ids /\ Requests' = Requests /\ Answers' = Answers
         /\ Executions' = Executions /\ Reports' = Reports
BY DEF Ids, Requests, Answers, Executions, Reports

(* The book and the stream after a step of the venue. *)
VenueSide ==
  OnBook' \subseteq Ids /\ book' \in [OnBook' -> Record] /\ wsQ' \in Seq(Reports)

LEMMA BookKept ==
  ASSUME Traffic, BookUnchanged
  PROVE  VenueSide
BY DEF Traffic, VenueSide, BookUnchanged, OnBook

LEMMA NoteAnswers ==
  ASSUME NEW k \in Ids, NEW kind \in AnswerKinds \ {"amended"}
  PROVE  /\ Note(kind, k) \in Answers
         /\ kind = "cancelled" => Note(kind, k) \in Reports
BY DEF Answers, Reports, Note, Event

LEMMA PullTyped ==
  ASSUME Traffic, NEW k \in OnBook, Pull(k)
  PROVE  VenueSide /\ OnBook' = OnBook
<1>1. k \in Ids
  BY DEF Traffic
<1>2. wsQ' \in Seq(Reports)
  BY <1>1, NoteAnswers DEF Traffic, Pull, AnswerKinds
<1>3. book \in [OnBook -> Record] /\ book' = [book EXCEPT ![k].live = FALSE]
  BY DEF Traffic, Pull
<1>4. OnBook' = OnBook
  BY <1>3 DEF OnBook
<1>5. [book[k] EXCEPT !.live = FALSE] \in Record
  BY <1>3 DEF Record
<1>6. book' \in [OnBook -> Record]
  BY <1>3, <1>5
<1> QED
  BY <1>2, <1>4, <1>6 DEF Traffic, VenueSide

LEMMA AcceptTyped ==
  ASSUME Traffic, NEW r \in Requests, Accept(r)
  PROVE  VenueSide /\ OnBook' = OnBook \union {r.id}
<1>1. r.id \in Ids /\ r.price \in Nat /\ r.qty \in Nat
  BY DEF Requests, Request
<1>2. [live |-> TRUE, price |-> r.price, qty |-> r.qty, cum |-> 0] \in Record
  BY <1>1 DEF Record
<1>3. OnBook' = OnBook \union {r.id}
  BY DEF Accept, OnBook
<1>4. book' \in [OnBook' -> Record]
  BY <1>2, <1>3 DEF Accept, Traffic
<1> QED
  BY <1>1, <1>3, <1>4 DEF Traffic, VenueSide, Accept

LEMMA ChangeTyped ==
  ASSUME Traffic, NEW r \in Requests, r.id \in OnBook, Change(r)
  PROVE  VenueSide /\ OnBook' = OnBook
<1>1. r.price \in Nat /\ r.qty \in Nat
  BY DEF Requests, Request
<1>2. book \in [OnBook -> Record]
  BY DEF Traffic
<1>3. book' = [book EXCEPT ![r.id] = [book[r.id] EXCEPT !.price = r.price, !.qty = r.qty]]
  BY <1>2 DEF Change
<1>4. [book[r.id] EXCEPT !.price = r.price, !.qty = r.qty] \in Record
  BY <1>1, <1>2 DEF Record
<1>5. OnBook' = OnBook
  BY <1>3 DEF OnBook
<1>6. book' \in [OnBook -> Record]
  BY <1>2, <1>3, <1>4
<1> QED
  BY <1>5, <1>6 DEF Traffic, VenueSide, Change

(* The gateway after a step of its own. *)
GatewaySide ==
  /\ gw'.phase \in {"idle", "answered", "delete"}
  /\ gw'.phase = "answered" => gw'.event \in Answers
  /\ gw'.phase = "delete" => gw'.event.id \in Ids

LEMMA AnswerTyped ==
  ASSUME NEW e \in Answers, Answer(e)
  PROVE  GatewaySide
BY DEF Answer, GatewaySide

LEMMA NoAnswerTyped ==
  ASSUME NoAnswer
  PROVE  GatewaySide
BY DEF NoAnswer, IdleGateway, GatewaySide

(* The request in hand. *)
LEMMA HeadRequest ==
  ASSUME Traffic, reqQ # << >>
  PROVE  Head(reqQ) \in Requests /\ Head(reqQ).id \in Ids
<1>1. Head(reqQ) \in Requests
  BY HeadTailProperties DEF Traffic
<1> QED
  BY <1>1 DEF Requests

LEMMA ServeTyped ==
  ASSUME Traffic, ServeNew \/ ServeCancel \/ ServeAmend
  PROVE  VenueSide /\ GatewaySide /\ GatewayTakes /\ UNCHANGED <<ordQ, fillQ>>
<1> DEFINE r == Head(reqQ)
<1>1. GatewayTakes /\ UNCHANGED <<ordQ, fillQ>> /\ reqQ # << >>
  BY DEF ServeNew, ServeCancel, ServeAmend, Serving
<1>2. r \in Requests /\ r.id \in Ids
  BY <1>1, HeadRequest
<1>3. \A kind \in AnswerKinds \ {"amended"} : Note(kind, r.id) \in Answers
  BY <1>2, NoteAnswers
<1>4. CASE ServeNew
  <2>1. VenueSide
    BY <1>2, <1>4, AcceptTyped, BookKept DEF ServeNew
  <2>2. GatewaySide
    BY <1>3, <1>4, AnswerTyped DEF ServeNew, AnswerKinds
  <2> QED
    BY <1>1, <2>1, <2>2
<1>5. CASE ServeCancel
  <2>1. VenueSide
    BY <1>5, PullTyped, BookKept DEF ServeCancel, Live
  <2>2. GatewaySide
    BY <1>3, <1>5, AnswerTyped, NoAnswerTyped DEF ServeCancel, AnswerKinds
  <2> QED
    BY <1>1, <2>1, <2>2
<1>6. CASE ServeAmend
  <2>1. VenueSide
    BY <1>2, <1>6, PullTyped, ChangeTyped, BookKept DEF ServeAmend, Live
  <2>2. Event("amended", r.id, r.price, r.qty) \in Answers
    <3>1. r.kind = "amend"
      BY <1>6 DEF ServeAmend, Serving
    <3> QED
      BY <1>2, <3>1 DEF Requests, Request, Answers, AnswerKinds, Event
  <2>3. gw' = [phase |-> "delete", event |-> Note("none", r.id)] => GatewaySide
    BY <1>2 DEF GatewaySide, Note, Event
  <2>4. GatewaySide
    BY <1>3, <1>6, <2>2, <2>3, AnswerTyped, NoAnswerTyped DEF ServeAmend, AnswerKinds
  <2> QED
    BY <1>1, <2>1, <2>4
<1> QED
  BY <1>4, <1>5, <1>6

LEMMA DeleteTyped ==
  ASSUME Traffic, ServeDelete
  PROVE  VenueSide /\ GatewaySide /\ UNCHANGED <<omsVars, ordQ, fillQ>>
<1>1. gw.event.id \in Ids
  BY DEF Traffic, ServeDelete
<1>2. \A kind \in AnswerKinds \ {"amended"} : Note(kind, gw.event.id) \in Answers
  BY <1>1, NoteAnswers
<1>3. VenueSide
  BY PullTyped, BookKept DEF ServeDelete, Live
<1>4. GatewaySide
  BY <1>2, AnswerTyped DEF ServeDelete, AnswerKinds
<1> QED
  BY <1>3, <1>4 DEF ServeDelete

LEMMA VenueFillsTyped ==
  ASSUME Traffic, NEW k \in OnBook, NEW q \in 1..MaxQty, VenueFills(k, q)
  PROVE  VenueSide
<1> DEFINE filled == [book[k] EXCEPT !.cum = book[k].cum + q,
                                     !.live = (book[k].cum + q < book[k].qty)]
<1>1. k \in Ids /\ q \in Nat /\ book[k] \in Record /\ book \in [OnBook -> Record]
  BY SizeAssumption DEF Traffic
<1>2. book' = [book EXCEPT ![k] = filled]
  BY <1>1 DEF VenueFills
<1>3. (book[k].cum + q < book[k].qty) \in BOOLEAN /\ book[k].cum + q \in Nat
  BY <1>1 DEF Record
<1>4. filled \in Record
  BY <1>1, <1>3 DEF Record
<1>5. OnBook' = OnBook
  BY <1>2 DEF OnBook
<1>6. book' \in [OnBook -> Record]
  BY <1>1, <1>2, <1>4
<1>7. Event("fill", k, 0, q) \in Reports
  BY <1>1 DEF Event, Reports, Executions
<1>8. wsQ' \in Seq(Reports)
  BY <1>7 DEF Traffic, VenueFills
<1> QED
  BY <1>5, <1>6, <1>8 DEF Traffic, VenueSide

(* The stream's handler passes on what is at the head of the websocket. *)
LEMMA UserDataTyped ==
  ASSUME Traffic, UserData
  PROVE  wsQ' \in Seq(Reports) /\ ordQ' \in Seq(Answers) /\ fillQ' \in Seq(Executions)
<1>1. Head(wsQ) \in Reports /\ wsQ' \in Seq(Reports)
  BY HeadTailProperties DEF Traffic, UserData
<1>2. CASE Head(wsQ).kind = "fill"
  <2>1. Head(wsQ) \in Executions
    BY <1>1, <1>2 DEF Reports, Answers, AnswerKinds
  <2>2. fillQ \in Seq(Executions) /\ ordQ \in Seq(Answers)
    BY DEF Traffic
  <2>3. fillQ' = Append(fillQ, Head(wsQ)) /\ UNCHANGED ordQ
    BY <1>2 DEF UserData
  <2> QED
    BY <1>1, <2>1, <2>2, <2>3, AppendProperties
<1>3. CASE Head(wsQ).kind # "fill"
  <2>1. Head(wsQ) \in Answers
    BY <1>1, <1>3 DEF Reports, Executions
  <2>2. fillQ \in Seq(Executions) /\ ordQ \in Seq(Answers)
    BY DEF Traffic
  <2>3. ordQ' = Append(ordQ, Head(wsQ)) /\ UNCHANGED fillQ
    BY <1>3 DEF UserData
  <2> QED
    BY <1>1, <2>1, <2>2, <2>3, AppendProperties
<1> QED
  BY <1>2, <1>3

LEMMA OrderEventResponds ==
  ASSUME Traffic, OrderEvent
  PROVE  /\ Head(ordQ) \in Answers /\ ordQ' \in Seq(Answers)
         /\ \E k \in Ids : Response(k)
         /\ UNCHANGED <<gw, book, wsQ, fillQ>>
<1>1. Head(ordQ) \in Answers /\ ordQ' \in Seq(Answers)
  BY HeadTailProperties DEF Traffic, OrderEvent
<1>2. Head(ordQ).id \in Ids
  BY <1>1 DEF Answers
<1>3. Response(Head(ordQ).id)
  BY <1>1 DEF OrderEvent, Response, Answers
<1> QED
  BY <1>1, <1>2, <1>3 DEF OrderEvent

LEMMA FillResponds ==
  ASSUME Traffic, Fill
  PROVE  /\ Head(fillQ) \in Executions /\ fillQ' \in Seq(Executions)
         /\ \E k \in Ids : Response(k)
         /\ UNCHANGED <<gw, book, wsQ, ordQ>>
<1>1. Head(fillQ) \in Executions /\ fillQ' \in Seq(Executions)
  BY HeadTailProperties DEF Traffic, Fill
<1>2. Head(fillQ).id \in Ids /\ Head(fillQ).qty \in 1..MaxQty
  BY <1>1 DEF Executions
<1>3. Response(Head(fillQ).id)
  BY <1>2 DEF Fill, Response
<1> QED
  BY <1>1, <1>2, <1>3 DEF Fill

----------------------------------------------------------------------------
(* The closed system is one of the environments OMSSpec allows             *)

(* A step of the gateway, the venue or the stream is one GatewayTakes of the OMS
   or none of its business. *)
LEMMA GatewayStep ==
  ASSUME TypeOK, Traffic, Gateway
  PROVE  [OMSNext]_omsVars /\ Traffic'
<1>1. CASE ServeNew \/ ServeCancel \/ ServeAmend
  <2>1. VenueSide /\ GatewaySide /\ GatewayTakes /\ UNCHANGED <<ordQ, fillQ>>
    BY <1>1, ServeTyped
  <2>2. UNCHANGED orders /\ reqQ' \in Seq(Requests)
    BY <2>1, HeadTailProperties DEF GatewayTakes, Traffic
  <2>3. Traffic'
    BY <2>1, <2>2, SameIds DEF Traffic, VenueSide, GatewaySide
  <2> QED
    BY <2>1, <2>3 DEF OMSNext
<1>2. CASE ServeDelete
  <2>1. VenueSide /\ GatewaySide /\ UNCHANGED <<omsVars, ordQ, fillQ>>
    BY <1>2, DeleteTyped
  <2>2. Traffic'
    BY <2>1, SameIds DEF Traffic, VenueSide, GatewaySide, omsVars
  <2> QED
    BY <2>1, <2>2
<1>3. CASE GatewayReplies
  <2>1. UNCHANGED omsVars /\ UNCHANGED <<book, wsQ, fillQ>> /\ GatewaySide
    BY <1>3, NoAnswerTyped DEF GatewayReplies
  <2>2. ordQ' \in Seq(Answers)
    <3>1. ordQ \in Seq(Answers) /\ gw.event \in Answers
      BY <1>3 DEF GatewayReplies, Traffic
    <3>2. ordQ' = Append(ordQ, gw.event) \/ UNCHANGED ordQ
      BY <1>3 DEF GatewayReplies
    <3> QED
      BY <3>1, <3>2, AppendProperties
  <2>3. OnBook' = OnBook
    BY <2>1 DEF OnBook
  <2>4. Traffic'
    BY <2>1, <2>2, <2>3, SameIds DEF Traffic, GatewaySide, omsVars
  <2> QED
    BY <2>1, <2>4
<1> QED
  BY <1>1, <1>2, <1>3 DEF Gateway

LEMMA ClosedStep ==
  ASSUME TypeOK, Traffic, [Next]_vars
  PROVE  [OMSNext]_omsVars /\ Traffic'
<1>1. ASSUME [OMSNext]_omsVars, UNCHANGED venueVars
      PROVE  Traffic'
  <2>1. ordQ' \in Seq(Answers) /\ fillQ' \in Seq(Executions) /\ UNCHANGED <<gw, book, wsQ>>
    BY <1>1 DEF Traffic, venueVars
  <2> QED
    BY <1>1, <2>1, StepTyped, OthersUnmoved
<1>2. CASE \E s \in Strategies, i \in Instruments, legs \in Ladders :
             OnSignal(s, i, legs) /\ UNCHANGED venueVars
  BY <1>1, <1>2 DEF OMSNext
<1>3. CASE EngageKillSwitch /\ UNCHANGED venueVars
  BY <1>1, <1>3 DEF OMSNext
<1>4. CASE \E s \in Strategies : PauseStrategy(s) /\ UNCHANGED venueVars
  BY <1>1, <1>4 DEF OMSNext
<1>5. CASE OMSSteps \/ Verdicts \/ KillAlert
  BY <1>1, <1>5 DEF OMSNext, OMSSteps, Verdicts, KillAlert
<1>6. CASE Swept
  <2>1. \E stale \in SUBSET {k \in Ids : orders[k].status = "PENDING_AMEND"} : Sweep(stale)
    BY <1>6 DEF Swept
  <2> QED
    BY <1>1, <1>6, <2>1 DEF OMSNext, Swept
<1>7. CASE OrderEvent
  <2>1. [OMSNext]_omsVars
    BY <1>7, OrderEventResponds DEF OMSNext
  <2>2. UNCHANGED <<gw, book, wsQ>> /\ ordQ' \in Seq(Answers) /\ fillQ' \in Seq(Executions)
    BY <1>7, OrderEventResponds DEF Traffic
  <2> QED
    BY <2>1, <2>2, StepTyped, OthersUnmoved
<1>8. CASE Fill
  <2>1. [OMSNext]_omsVars
    BY <1>8, FillResponds DEF OMSNext
  <2>2. UNCHANGED <<gw, book, wsQ>> /\ ordQ' \in Seq(Answers) /\ fillQ' \in Seq(Executions)
    BY <1>8, FillResponds DEF Traffic
  <2> QED
    BY <2>1, <2>2, StepTyped, OthersUnmoved
<1>9. CASE Gateway
  BY <1>9, GatewayStep
<1>10. CASE \E k \in OnBook : VenueCancels(k) \/ \E q \in 1..MaxQty : VenueFills(k, q)
  <2>1. VenueSide /\ UNCHANGED <<omsVars, gw, ordQ, fillQ>>
    BY <1>10, PullTyped, VenueFillsTyped DEF VenueCancels, VenueFills
  <2> QED
    BY <2>1, SameIds DEF Traffic, VenueSide, omsVars
<1>11. CASE UserData
  <2>1. UNCHANGED <<omsVars, gw, book>> /\ OnBook' = OnBook
    BY <1>11 DEF UserData, OnBook
  <2> QED
    BY <1>11, <2>1, UserDataTyped, SameIds DEF Traffic, omsVars
<1>12. CASE UNCHANGED vars
  BY <1>1, <1>12 DEF vars
<1> QED
  BY <1>2, <1>3, <1>4, <1>5, <1>6, <1>7, <1>8, <1>9, <1>10, <1>11, <1>12
     DEF Next, Environment

LEMMA ClosedInit == Init => OMSInit /\ TypeOK /\ Traffic
BY TrafficInit, InitTyped DEF Init

LEMMA ClosedInv == Spec => [](TypeOK /\ Traffic)
<1>1. ASSUME TypeOK, Traffic, [Next]_vars
      PROVE  TypeOK' /\ Traffic'
  BY <1>1, ClosedStep, StepTyped
<1> QED
  BY <1>1, ClosedInit, PTL DEF Spec

(* The gateway, the stream and the venue do nothing to the OMS that OMSSpec does
   not allow for, whatever fails: every answer and every fill is about an order the
   OMS holds (client order ids are minted by it and come back unchanged). *)
THEOREM Closed == Spec => OMSSpec
<1>1. ASSUME TypeOK, Traffic, [Next]_vars
      PROVE  [OMSNext]_omsVars
  BY <1>1, ClosedStep
<1> QED
  BY <1>1, ClosedInit, ClosedInv, PTL DEF Spec, OMSSpec

(* Hence on the venue, with all of its faults, too: a strategy never has more
   orders working than one of its signals declares (_reconcile_immediate). *)
THEOREM ClosedSnapshot == Spec => []NoStacking
BY Closed, Snapshot, PTL

(* And the OMS keeps the promise of SnapshotQuoting (the docstring of SignalEvent). *)
THEOREM ClosedImplements == Spec => PromiseKept
BY Closed, Implements, PTL

----------------------------------------------------------------------------
(* An order given up is off the book                                       *)

(* What a cancellation or a reject on its way says of an order. *)
Off(k) == ~Live(k) /\ ~NewInFlight(k)

HonestAnswers == {e \in Answers : e.kind \in {"cancelled", "reject"} => Off(e.id)}
HonestReports == {e \in Reports : e.kind = "cancelled" => Off(e.id)}

(* The first request about an order is the one that places it, it is made once, and
   the venue does not know the order before. *)
NewComesFirst ==
  \A m, n \in DOMAIN reqQ : m < n /\ reqQ[n].kind = "new" => reqQ[m].id # reqQ[n].id
NewIsUnknown == \A n \in DOMAIN reqQ : reqQ[n].kind = "new" => reqQ[n].id \notin OnBook

Honest ==
  /\ NewComesFirst /\ NewIsUnknown
  /\ gw.phase = "answered" => gw.event \in HonestAnswers
  /\ gw.phase = "delete" => gw.event.id \in OnBook
  /\ ordQ \in Seq(HonestAnswers) /\ wsQ \in Seq(HonestReports)

GivenUp == {"CANCELLED", "REJECTED"}

(* Off stays off: nothing puts an order on the book but its own request. *)
StaysOff == \A k \in Ids : Off(k) => Off(k)'

LEMMA HonestGrows ==
  ASSUME Ids \subseteq Ids', StaysOff
  PROVE  HonestAnswers \subseteq HonestAnswers' /\ HonestReports \subseteq HonestReports'
<1>1. Answers \subseteq Answers' /\ Reports \subseteq Reports'
  BY TrafficGrows
<1>2. (\A e \in Answers : e.id \in Ids) /\ (\A e \in Reports : e.id \in Ids)
  BY DEF Answers, Reports, Executions
<1> QED
  BY <1>1, <1>2 DEF HonestAnswers, HonestReports, StaysOff

LEMMA HonestInit == Init => Honest /\ GoneMeansGone
<1> SUFFICES ASSUME Init PROVE Honest /\ GoneMeansGone
  OBVIOUS
<1>1. /\ reqQ = << >> /\ ordQ = << >> /\ wsQ = << >>
      /\ gw.phase = "idle" /\ Ids = {}
  BY DEF Init, OMSInit, IdleGateway, Ids
<1>2. \A S : << >> \in Seq(S)
  BY EmptySeq
<1>3. DOMAIN reqQ = {}
  BY <1>1
<1> QED
  BY <1>1, <1>2, <1>3 DEF Honest, GoneMeansGone, NewComesFirst, NewIsUnknown

(* A request the OMS appends places an order nobody has heard of, or is about one it
   holds. *)
Asks ==
  \/ UNCHANGED reqQ
  \/ \E req \in Request : /\ reqQ' = Append(reqQ, req)
                          /\ req.kind = "new" => req.id \notin Ids

LEMMA AppendedRequest ==
  ASSUME reqQ \in Seq(Requests), NEW req \in Request, reqQ' = Append(reqQ, req),
         req.kind = "new" => req.id \notin Ids,
         OnBook \subseteq Ids, UNCHANGED book, NewComesFirst, NewIsUnknown
  PROVE  StaysOff /\ NewComesFirst' /\ NewIsUnknown'
<1>1. /\ Len(reqQ) \in Nat /\ DOMAIN reqQ = 1..Len(reqQ)
      /\ DOMAIN reqQ' = 1..(Len(reqQ) + 1)
      /\ \A n \in 1..Len(reqQ) : reqQ'[n] = reqQ[n]
      /\ reqQ'[Len(reqQ) + 1] = req
  BY LenProperties DEF Requests
<1>2. \A n \in DOMAIN reqQ : reqQ[n].id \in Ids
  BY ElementOfSeq, <1>1 DEF Requests
<1>3. OnBook' = OnBook
  BY DEF OnBook
<1>4. NewComesFirst'
  BY <1>1, <1>2 DEF NewComesFirst
<1>5. NewIsUnknown'
  BY <1>1, <1>3 DEF NewIsUnknown
<1>6. ASSUME NEW k \in Ids, NewInFlight(k)'
      PROVE  NewInFlight(k)
  BY <1>1, <1>6 DEF NewInFlight
<1>7. \A k : Live(k)' => Live(k)
  BY <1>3 DEF Live
<1> QED
  BY <1>4, <1>5, <1>6, <1>7 DEF StaysOff, Off

LEMMA AskedHonestly ==
  ASSUME reqQ \in Seq(Requests), Asks, OnBook \subseteq Ids, UNCHANGED book,
         NewComesFirst, NewIsUnknown
  PROVE  StaysOff /\ NewComesFirst' /\ NewIsUnknown'
<1>1. CASE UNCHANGED reqQ
  BY <1>1 DEF StaysOff, Off, Live, OnBook, NewInFlight, NewComesFirst, NewIsUnknown
<1> QED
  BY <1>1, AppendedRequest DEF Asks

(* The gateway takes the first request: none of the others places its order. *)
LEMMA TakenHonestly ==
  ASSUME reqQ \in Seq(Requests), reqQ # << >>, reqQ' = Tail(reqQ),
         NewComesFirst, NewIsUnknown
  PROVE  /\ \A k : NewInFlight(k)' => NewInFlight(k) /\ k # Head(reqQ).id
         /\ NewComesFirst'
         /\ \A n \in DOMAIN reqQ' : reqQ'[n].kind = "new" =>
               reqQ'[n].id \notin OnBook /\ reqQ'[n].id # Head(reqQ).id
<1>1. /\ Len(reqQ) \in Nat \ {0} /\ DOMAIN reqQ = 1..Len(reqQ)
      /\ DOMAIN reqQ' = 1..(Len(reqQ) - 1)
      /\ \A n \in 1..(Len(reqQ) - 1) : reqQ'[n] = reqQ[n + 1]
      /\ Head(reqQ) = reqQ[1]
  BY HeadTailProperties, LenProperties
<1>2. ASSUME NEW n \in DOMAIN reqQ', reqQ'[n].kind = "new"
      PROVE  /\ n + 1 \in DOMAIN reqQ /\ reqQ[n + 1] = reqQ'[n]
             /\ reqQ'[n].id \notin OnBook /\ reqQ'[n].id # Head(reqQ).id
  BY <1>1, <1>2 DEF NewComesFirst, NewIsUnknown
<1>3. \A k : NewInFlight(k)' => NewInFlight(k) /\ k # Head(reqQ).id
  BY <1>1, <1>2 DEF NewInFlight
<1>4. NewComesFirst'
  BY <1>1 DEF NewComesFirst
<1> QED
  BY <1>2, <1>3, <1>4

(* What a step gives up: nothing but what was given up before, and the orders of S. *)
GivesUp(S) ==
  \A k \in Ids' : orders'[k].status \in GivenUp =>
     (k \in Ids /\ orders[k].status \in GivenUp) \/ k \in S

LEMMA GoneKept ==
  ASSUME GoneMeansGone, StaysOff, NEW S, GivesUp(S), \A k \in S : k \in Ids /\ Off(k)
  PROVE  GoneMeansGone'
BY DEF GoneMeansGone, GivenUp, GivesUp, StaysOff, Off

LEMMA SameOrdersGiveUpNothing ==
  ASSUME UNCHANGED orders
  PROVE  GivesUp({})
BY DEF GivesUp, Ids

(* Of one order. *)
LEMMA OneOrderGivesUp ==
  ASSUME orders \in Seq(Order), NEW k \in Ids, NEW o, NEW S,
         orders' = [orders EXCEPT ![k] = o],
         o.status \in GivenUp => orders[k].status \in GivenUp \/ k \in S
  PROVE  GivesUp(S)
<1>1. orders \in [Ids -> Order]
  BY ElementOfSeq, IdsInterval, SeqDef DEF Ids
<1>2. Ids' = Ids
  BY <1>1 DEF Ids
<1> QED
  BY <1>1, <1>2 DEF GivesUp

LEMMA TransitionSpares ==
  ASSUME NEW o \in Order, NEW s, s \notin GivenUp
  PROVE  Transition(o, s).status \in GivenUp => o.status \in GivenUp
BY DEF Transition, Moved, Order

LEMMA RolledBackSpares ==
  ASSUME NEW o \in Order
  PROVE  RolledBack(o).status \in GivenUp => o.status \in GivenUp
<1> DEFINE p == [o EXCEPT !.pend = NoAmend]
<1>1. p \in Order /\ p.status = o.status
  BY ForgetKin DEF Order
<1>2. \A s \in {"FILLED", "ACKNOWLEDGED"} :
        Transition(p, s).status \in GivenUp => p.status \in GivenUp
  BY <1>1, TransitionSpares DEF GivenUp
<1>3. RolledBack(o) = Transition(p, IF Leaves(p) = 0 THEN "FILLED" ELSE "ACKNOWLEDGED")
  BY DEF RolledBack
<1> QED
  BY <1>1, <1>2, <1>3

LEMMA AmendedSpares ==
  ASSUME NEW o \in Order, NEW price, NEW qty
  PROVE  Amended(o, price, qty).status \in GivenUp => o.status \in GivenUp
<1> DEFINE p == [o EXCEPT !.pend = NoAmend]
<1>1. p \in Order /\ p.status = o.status
  BY ForgetKin DEF Order
<1> QED
  BY <1>1 DEF Amended, Moved, GivenUp, Order

LEMMA FilledSpares ==
  ASSUME NEW o \in Order, NEW q \in Nat
  PROVE  Filled(o, q).status \in GivenUp => o.status \in GivenUp
<1>1. RecordFill(o, q) \in Order /\ RecordFill(o, q).status = o.status
  BY DEF RecordFill, Order
<1> QED
  BY <1>1, TransitionSpares DEF Filled, ApplyFill, GivenUp

(* What the OMS does by itself. *)
OwnSteps ==
  \/ \E s \in Strategies, i \in Instruments, legs \in Ladders : OnSignal(s, i, legs)
  \/ Verdict \/ EngageKillSwitch \/ OnKillAlert
  \/ \E s \in Strategies : PauseStrategy(s)
  \/ Engine
  \/ \E stale \in SUBSET Ids : Sweep(stale)

(* With no publish lost, an order placed is one the venue will be asked for. *)
LEMMA PlaceIsShipped ==
  ASSUME TypeOK, MaxDrops = 0, MatchLeg, PlaceQuote
  PROVE  Asks /\ GivesUp({})
<1> DEFINE req == [kind |-> "new", id |-> Len(orders) + 1,
                   price |-> Target.price, qty |-> Target.qty]
<1>1. reqQ' = Append(reqQ, req) /\ orders' = Append(orders, NewOrder("PENDING_NEW"))
  BY DEF PlaceQuote, PublishFailed, Published, TypeOK
<1>2. PICK status \in {"PENDING_NEW", "REJECTED"} : Adds(NewOrder(status))
  BY PlaceAdds DEF MatchLeg
<1>3. Adds(NewOrder("PENDING_NEW"))
  BY <1>1, <1>2 DEF Adds, NewOrder, Order, Status, Active, Pending
<1>4. /\ Ids' = Ids \union {Len(orders) + 1} /\ Len(orders) + 1 \notin Ids
      /\ orders'[Len(orders) + 1] = NewOrder("PENDING_NEW")
      /\ \A k \in Ids : orders'[k] = orders[k]
  BY <1>3, AddStep DEF TypeOK
<1>5. GivesUp({})
  BY <1>4 DEF GivesUp, GivenUp, NewOrder
<1>6. Target \in Leg /\ Len(orders) + 1 \in Nat
  BY LegInHand, LenProperties DEF MatchLeg, TypeOK
<1>7. req \in Request
  BY <1>6, SizeAssumption DEF Request, Leg
<1> QED
  BY <1>1, <1>4, <1>5, <1>7 DEF Asks

LEMMA AmendGivesUpNothing ==
  ASSUME TypeOK, MatchLeg, AmendQuote
  PROVE  Asks /\ GivesUp({})
<1> DEFINE k == First(Free)
           req == [kind |-> "amend", id |-> k, price |-> Target.price, qty |-> Target.qty]
           o == [Moved(orders[k], "PENDING_AMEND") EXCEPT
                   !.pend = [price |-> Target.price, qty |-> Target.qty]]
<1>1. Target \in Leg /\ k \in Ids /\ k \in Nat /\ orders[k] \in Order
  BY LegInHand, FreeMember, IdsInterval, OrderTyped DEF MatchLeg, AmendQuote, TypeOK
<1>2. req \in Request
  BY <1>1, SizeAssumption DEF Request, Leg
<1>3. Asks
  BY <1>2 DEF AmendQuote, Asks, Published, PublishFailed
<1>4. o.status = "PENDING_AMEND"
  BY <1>1 DEF Moved, Order
<1>5. orders' = [orders EXCEPT ![k] = o]
  BY DEF AmendQuote
<1> QED
  BY <1>1, <1>3, <1>4, <1>5, OneOrderGivesUp DEF TypeOK, GivenUp

LEMMA CancelGivesUpNothing ==
  ASSUME TypeOK, CancelOrder
  PROVE  Asks /\ GivesUp({})
<1> DEFINE k == First(cancels)
           req == [kind |-> "cancel", id |-> k, price |-> 0, qty |-> 0]
<1>1. k \in Ids /\ k \in Nat /\ orders[k] \in Order
  BY FirstMember, IdsInterval, OrderTyped DEF TypeOK, CancelOrder
<1>2. req \in Request
  BY <1>1 DEF Request
<1>3. Asks
  BY <1>2 DEF CancelOrder, Asks, Published, PublishFailed
<1>4. CASE UNCHANGED orders
  BY <1>3, <1>4, SameOrdersGiveUpNothing
<1>5. CASE orders' = [orders EXCEPT ![k] = Moved(orders[k], "PENDING_CANCEL")]
  <2>1. Moved(orders[k], "PENDING_CANCEL").status \notin GivenUp
    BY <1>1 DEF Moved, Order, GivenUp
  <2> QED
    BY <1>1, <1>3, <1>5, <2>1, OneOrderGivesUp DEF TypeOK
<1> QED
  BY <1>4, <1>5 DEF CancelOrder

LEMMA SweepGivesUpNothing ==
  ASSUME TypeOK, NEW stale \in SUBSET Ids, Sweep(stale)
  PROVE  Asks /\ GivesUp({})
<1>1. orders' = [k \in Ids |-> IF k \in stale THEN RolledBack(orders[k]) ELSE orders[k]]
  BY DEF Sweep
<1>2. Ids' = Ids
  BY <1>1 DEF Ids
<1>3. \A k \in Ids : RolledBack(orders[k]).status \in GivenUp => orders[k].status \in GivenUp
  BY OrderTyped, RolledBackSpares DEF TypeOK
<1> QED
  BY <1>1, <1>2, <1>3 DEF GivesUp, Asks, Sweep

LEMMA OwnStepsSpare ==
  ASSUME TypeOK, MaxDrops = 0, OwnSteps
  PROVE  Asks /\ GivesUp({})
<1>1. CASE MatchLeg /\ PlaceQuote
  BY <1>1, PlaceIsShipped
<1>2. CASE MatchLeg /\ AmendQuote
  BY <1>2, AmendGivesUpNothing
<1>3. CASE CancelOrder
  BY <1>3, CancelGivesUpNothing
<1>4. CASE \E stale \in SUBSET Ids : Sweep(stale)
  BY <1>4, SweepGivesUpNothing
<1>5. CASE UNCHANGED <<orders, reqQ>>
  BY <1>5, SameOrdersGiveUpNothing DEF Asks
<1> QED
  BY <1>1, <1>2, <1>3, <1>4, <1>5
     DEF OwnSteps, OnSignal, Verdict, OnRiskBlocked, OnRiskApproved, EngageKillSwitch,
         OnKillAlert, PauseStrategy, Engine, MatchLeg, KeepQuote, HoldLeg, CancelUnmatched

(* An answer ends an order only when it is true. *)
LEMMA AnswerGivesUp ==
  ASSUME TypeOK, NEW e \in HonestAnswers,
         \/ e.kind = "ack"             /\ OnAck(e.id)
         \/ e.kind = "reject"          /\ OnReject(e.id)
         \/ e.kind = "cancelled"       /\ OnCancelled(e.id)
         \/ e.kind = "cancel_rejected" /\ OnCancelRejected(e.id)
         \/ e.kind = "amend_rejected"  /\ OnAmendRejected(e.id)
         \/ e.kind = "amended"         /\ OnAmended(e.id, e.price, e.qty)
  PROVE  Asks /\ GivesUp({k \in Ids : Off(k)})
<1> DEFINE k == e.id
           S == {j \in Ids : Off(j)}
<1>1. k \in Ids /\ orders[k] \in Order
  BY OrderTyped DEF HonestAnswers, Answers, TypeOK
<1>2. Asks
  BY DEF Asks, OnAck, OnReject, OnCancelled, OnCancelRejected, OnAmendRejected,
         OnAmended, Update
<1>3. CASE e.kind \in {"reject", "cancelled"}
  <2>1. k \in S
    BY <1>1, <1>3 DEF HonestAnswers
  <2>2. \E s \in GivenUp : orders' = [orders EXCEPT ![k] = Transition(orders[k], s)]
    BY <1>3 DEF OnReject, OnCancelled, Update, GivenUp
  <2> QED
    BY <1>1, <1>2, <2>1, <2>2, OneOrderGivesUp DEF TypeOK
<1>4. CASE e.kind \in {"ack", "cancel_rejected"}
  <2>1. orders' = [orders EXCEPT ![k] = Transition(orders[k], "ACKNOWLEDGED")]
    BY <1>4 DEF OnAck, OnCancelRejected, Update
  <2>2. Transition(orders[k], "ACKNOWLEDGED").status \in GivenUp => orders[k].status \in GivenUp
    BY <1>1, TransitionSpares DEF GivenUp
  <2> QED
    BY <1>1, <1>2, <2>1, <2>2, OneOrderGivesUp DEF TypeOK
<1>5. CASE e.kind = "amend_rejected"
  <2>1. orders' = [orders EXCEPT ![k] = RolledBack(orders[k])]
    BY <1>5 DEF OnAmendRejected, Update
  <2> QED
    BY <1>1, <1>2, <2>1, RolledBackSpares, OneOrderGivesUp DEF TypeOK
<1>6. CASE e.kind = "amended"
  <2>1. orders' = [orders EXCEPT ![k] = Amended(orders[k], e.price, e.qty)]
    BY <1>6 DEF OnAmended, Update
  <2> QED
    BY <1>1, <1>2, <2>1, AmendedSpares, OneOrderGivesUp DEF TypeOK
<1>7. e.kind \in AnswerKinds
  BY DEF HonestAnswers, Answers
<1> QED
  BY <1>3, <1>4, <1>5, <1>6, <1>7 DEF AnswerKinds

LEMMA FillGivesUpNothing ==
  ASSUME TypeOK, NEW k \in Ids, NEW q \in 1..MaxQty, OnFill(k, q)
  PROVE  Asks /\ GivesUp({})
<1>1. orders[k] \in Order /\ q \in Nat
  BY OrderTyped, SizeAssumption DEF TypeOK
<1>2. orders' = [orders EXCEPT ![k] = Filled(orders[k], q)] /\ UNCHANGED reqQ
  BY DEF OnFill, Update
<1>3. GivesUp({})
  BY <1>1, <1>2, FilledSpares, OneOrderGivesUp DEF TypeOK
<1> QED
  BY <1>2, <1>3 DEF Asks

(* A step of the OMS leaves what is on its way as honest as it was. *)
LEMMA HonestKept ==
  ASSUME TypeOK, Traffic, Honest, [OMSNext]_omsVars, Asks, UNCHANGED <<gw, book, wsQ>>,
         ordQ' \in Seq(HonestAnswers)
  PROVE  StaysOff /\ Honest'
<1>1. StaysOff /\ NewComesFirst' /\ NewIsUnknown'
  BY AskedHonestly DEF Traffic, Honest
<1>2. HonestAnswers \subseteq HonestAnswers' /\ HonestReports \subseteq HonestReports'
  BY <1>1, IdsGrow, HonestGrows
<1>3. ordQ' \in Seq(HonestAnswers') /\ wsQ' \in Seq(HonestReports')
  BY <1>2, SeqGrows DEF Honest
<1>4. OnBook' = OnBook
  BY DEF OnBook
<1> QED
  BY <1>1, <1>2, <1>3, <1>4 DEF Honest

(* What a step of the venue does to the book: it takes an order off, changes one, or
   takes in a new one. *)
LEMMA PullTakesOff ==
  ASSUME Traffic, NEW k \in OnBook, Pull(k)
  PROVE  ~Live(k)' /\ OnBook' = OnBook /\ \A j : Live(j)' => Live(j)
<1>1. /\ book \in [OnBook -> Record]
      /\ book' = [book EXCEPT ![k] = [book[k] EXCEPT !.live = FALSE]]
  BY DEF Traffic, Pull
<1>2. [book[k] EXCEPT !.live = FALSE].live = FALSE
  BY <1>1 DEF Record
<1> QED
  BY <1>1, <1>2 DEF Live, OnBook

LEMMA ChangeKeepsLive ==
  ASSUME Traffic, NEW r, r.id \in OnBook, Change(r)
  PROVE  OnBook' = OnBook /\ \A j : Live(j)' => Live(j)
<1>1. /\ book \in [OnBook -> Record]
      /\ book' = [book EXCEPT ![r.id] = [book[r.id] EXCEPT !.price = r.price, !.qty = r.qty]]
  BY DEF Traffic, Change
<1>2. [book[r.id] EXCEPT !.price = r.price, !.qty = r.qty].live = book[r.id].live
  BY <1>1 DEF Record
<1> QED
  BY <1>1, <1>2 DEF Live, OnBook

LEMMA AcceptPutsOn ==
  ASSUME Traffic, NEW r, Accept(r)
  PROVE  OnBook' = OnBook \union {r.id} /\ \A j : Live(j)' => Live(j) \/ j = r.id
BY DEF Accept, Live, OnBook

LEMMA SameBook ==
  ASSUME UNCHANGED book
  PROVE  OnBook' = OnBook /\ \A j : Live(j)' <=> Live(j)
BY DEF Live, OnBook

LEMMA FillsKeepLive ==
  ASSUME Traffic, NEW k \in OnBook, NEW q \in 1..MaxQty, VenueFills(k, q)
  PROVE  OnBook' = OnBook /\ \A j : Live(j)' => Live(j)
<1> DEFINE filled == [book[k] EXCEPT !.cum = book[k].cum + q,
                                     !.live = (book[k].cum + q < book[k].qty)]
<1>1. book \in [OnBook -> Record] /\ book' = [book EXCEPT ![k] = filled] /\ Live(k)
  BY DEF Traffic, VenueFills
<1> QED
  BY <1>1 DEF Live, OnBook

LEMMA HonestNotes ==
  ASSUME Ids' = Ids, NEW k \in Ids
  PROVE  /\ \A kind \in {"ack", "cancel_rejected", "amend_rejected"} :
              Note(kind, k) \in HonestAnswers'
         /\ \A kind \in {"cancelled", "reject"} : Off(k)' => Note(kind, k) \in HonestAnswers'
         /\ Off(k)' => Note("cancelled", k) \in HonestReports'
<1>1. Answers' = Answers /\ Reports' = Reports
  BY DEF Answers, Reports, Executions
<1>2. \A kind \in AnswerKinds \ {"amended"} :
        /\ Note(kind, k) \in Answers
        /\ kind = "cancelled" => Note(kind, k) \in Reports
        /\ Note(kind, k).id = k /\ Note(kind, k).kind = kind
  BY NoteAnswers DEF Note, Event
<1> QED
  BY <1>1, <1>2 DEF HonestAnswers, HonestReports, AnswerKinds

(* The gateway serves the first request. *)
LEMMA ServedStaysOff ==
  ASSUME Traffic, Honest, reqQ # << >>, reqQ' = Tail(reqQ), NEW r, r = Head(reqQ),
         OnBook' \subseteq OnBook \union {r.id},
         \A j : Live(j)' => Live(j) \/ (r.kind = "new" /\ j = r.id)
  PROVE  StaysOff /\ NewComesFirst' /\ NewIsUnknown' /\ ~NewInFlight(r.id)'
<1>1. reqQ \in Seq(Requests) /\ NewComesFirst /\ NewIsUnknown
  BY DEF Traffic, Honest
<1>2. /\ \A k : NewInFlight(k)' => NewInFlight(k) /\ k # r.id
      /\ NewComesFirst'
      /\ \A n \in DOMAIN reqQ' : reqQ'[n].kind = "new" =>
            reqQ'[n].id \notin OnBook /\ reqQ'[n].id # r.id
  BY <1>1, TakenHonestly
<1>3. NewIsUnknown'
  BY <1>2 DEF NewIsUnknown
<1>4. r.kind = "new" => NewInFlight(r.id)
  <2>1. 1 \in DOMAIN reqQ /\ r = reqQ[1]
    BY <1>1, HeadTailProperties, LenProperties
  <2> QED
    BY <2>1 DEF NewInFlight
<1>5. StaysOff
  BY <1>2, <1>4 DEF StaysOff, Off
<1> QED
  BY <1>2, <1>3, <1>5

(* A step of the gateway on its request, on the book side: *)
BookSide(r) ==
  \/ BookUnchanged
  \/ r.id \in OnBook /\ (Pull(r.id) \/ Change(r))
  \/ r.kind = "new" /\ Accept(r)

LEMMA BookSideLive ==
  ASSUME Traffic, NEW r, BookSide(r)
  PROVE  /\ OnBook \subseteq OnBook' /\ OnBook' \subseteq OnBook \union {r.id}
         /\ \A j : Live(j)' => Live(j) \/ (r.kind = "new" /\ j = r.id)
         /\ wsQ' = wsQ \/ (wsQ' = Append(wsQ, Note("cancelled", r.id)) /\ ~Live(r.id)')
<1>1. CASE BookUnchanged
  BY <1>1, SameBook DEF BookUnchanged
<1>2. CASE r.id \in OnBook /\ Pull(r.id)
  BY <1>2, PullTakesOff DEF Pull
<1>3. CASE r.id \in OnBook /\ Change(r)
  BY <1>3, ChangeKeepsLive DEF Change
<1>4. CASE r.kind = "new" /\ Accept(r)
  BY <1>4, AcceptPutsOn DEF Accept
<1> QED
  BY <1>1, <1>2, <1>3, <1>4 DEF BookSide

(* And on its own: what it says of the order is true of the book it leaves. *)
GatewaySays(r) ==
  \/ NoAnswer
  \/ \E kind \in {"ack", "cancel_rejected", "amend_rejected"} : Answer(Note(kind, r.id))
  \/ \E kind \in {"cancelled", "reject"} : Answer(Note(kind, r.id)) /\ ~Live(r.id)'
  \/ Answer(Event("amended", r.id, r.price, r.qty))
  \/ gw' = [phase |-> "delete", event |-> Note("none", r.id)] /\ r.id \in OnBook

LEMMA ServeNewSides ==
  ASSUME Traffic, Honest, "new_lost" \notin Faults, ServeNew, NEW r, r = Head(reqQ)
  PROVE  BookSide(r) /\ GatewaySays(r)
<1>1. r.kind = "new" /\ reqQ # << >>
  BY DEF ServeNew, Serving
<1>2. r.id \notin OnBook
  <2>1. 1 \in DOMAIN reqQ /\ r = reqQ[1]
    BY <1>1, HeadTailProperties, LenProperties DEF Traffic
  <2> QED
    BY <1>1, <2>1 DEF Honest, NewIsUnknown
<1>3. CASE Accept(r) /\ Answer(Note("ack", r.id))
  BY <1>1, <1>3 DEF BookSide, GatewaySays
<1>4. CASE BookUnchanged /\ Answer(Note("reject", r.id))
  <2>1. ~Live(r.id)'
    BY <1>2, <1>4, SameBook DEF Live, BookUnchanged
  <2> QED
    BY <1>4, <2>1 DEF BookSide, GatewaySays
<1> QED
  BY <1>3, <1>4 DEF ServeNew, Fault

LEMMA ServeCancelSides ==
  ASSUME Traffic, ServeCancel, NEW r, r = Head(reqQ)
  PROVE  BookSide(r) /\ GatewaySays(r)
<1>1. CASE Live(r.id) /\ Pull(r.id)
  BY <1>1 DEF ServeCancel, BookSide, GatewaySays, Live, Answer, NoAnswer
<1>2. CASE ~Live(r.id) /\ BookUnchanged
  <2>1. ~Live(r.id)'
    BY <1>2, SameBook DEF BookUnchanged
  <2> QED
    BY <1>2, <2>1 DEF ServeCancel, BookSide, GatewaySays
<1>3. CASE Answer(Note("cancel_rejected", r.id))
  BY <1>3 DEF ServeCancel, BookSide, GatewaySays, Live
<1> QED
  BY <1>1, <1>2, <1>3 DEF ServeCancel

LEMMA ServeAmendSides ==
  ASSUME Traffic, ServeAmend, NEW r, r = Head(reqQ)
  PROVE  BookSide(r) /\ GatewaySays(r)
<1>1. CASE ~Live(r.id) /\ BookUnchanged /\ Answer(Note("cancelled", r.id))
  <2>1. ~Live(r.id)'
    BY <1>1, SameBook DEF BookUnchanged
  <2> QED
    BY <1>1, <2>1 DEF BookSide, GatewaySays
<1>2. CASE Live(r.id) /\ BookUnchanged /\ NoAnswer
  BY <1>2 DEF BookSide, GatewaySays
<1>3. CASE Live(r.id) /\ Pull(r.id) /\ Answer(Note("cancelled", r.id))
  <2>1. r.id \in OnBook /\ ~Live(r.id)'
    BY <1>3, PullTakesOff DEF Live
  <2> QED
    BY <1>3, <2>1 DEF BookSide, GatewaySays
<1>4. CASE Live(r.id) /\ Change(r) /\ Answer(Event("amended", r.id, r.price, r.qty))
  BY <1>4 DEF BookSide, GatewaySays, Live
<1>5. CASE /\ BookUnchanged \/ (Live(r.id) /\ Change(r))
           /\ Answer(Note("amend_rejected", r.id))
  BY <1>5 DEF BookSide, GatewaySays, Live
<1>6. CASE /\ Live(r.id) /\ BookUnchanged
           /\ gw' = [phase |-> "delete", event |-> Note("none", r.id)]
  BY <1>6 DEF BookSide, GatewaySays, Live
<1> QED
  BY <1>1, <1>2, <1>3, <1>4, <1>5, <1>6 DEF ServeAmend

(* The stream after a step that reports a cancellation, if it reports one, of an
   order that is off. *)
LEMMA StreamHonest ==
  ASSUME Honest, Ids' = Ids, StaysOff, NEW k \in Ids,
         wsQ' = wsQ \/ (wsQ' = Append(wsQ, Note("cancelled", k)) /\ Off(k)')
  PROVE  wsQ' \in Seq(HonestReports')
<1>1. wsQ \in Seq(HonestReports')
  BY HonestGrows, SeqGrows DEF Honest
<1>2. Off(k)' => Note("cancelled", k) \in HonestReports'
  BY HonestNotes
<1> QED
  BY <1>1, <1>2, AppendProperties

LEMMA ServeHonest ==
  ASSUME Traffic, Honest, "new_lost" \notin Faults, ServeNew \/ ServeCancel \/ ServeAmend
  PROVE  StaysOff /\ Honest' /\ UNCHANGED orders
<1>1. GatewayTakes /\ UNCHANGED <<ordQ, fillQ>> /\ reqQ # << >>
  BY DEF ServeNew, ServeCancel, ServeAmend, Serving
<1>2. PICK r \in Requests : r = Head(reqQ)
  BY <1>1, HeadRequest
<1>3. BookSide(r) /\ GatewaySays(r)
  BY <1>2, ServeNewSides, ServeCancelSides, ServeAmendSides
<1>4. /\ OnBook \subseteq OnBook' /\ OnBook' \subseteq OnBook \union {r.id}
      /\ \A j : Live(j)' => Live(j) \/ (r.kind = "new" /\ j = r.id)
      /\ wsQ' = wsQ \/ (wsQ' = Append(wsQ, Note("cancelled", r.id)) /\ ~Live(r.id)')
  BY <1>3, BookSideLive
<1>5. StaysOff /\ NewComesFirst' /\ NewIsUnknown' /\ ~NewInFlight(r.id)'
  BY <1>1, <1>2, <1>4, ServedStaysOff DEF GatewayTakes
<1>6. UNCHANGED orders /\ Ids' = Ids /\ r.id \in Ids
  BY <1>1, <1>2, SameIds DEF GatewayTakes, Requests
<1>7. wsQ' \in Seq(HonestReports')
  BY <1>4, <1>5, <1>6, StreamHonest DEF Off
<1>8. ordQ' \in Seq(HonestAnswers')
  BY <1>1, <1>5, <1>6, HonestGrows, SeqGrows DEF Honest
<1>9. gw'.phase = "answered" => gw'.event \in HonestAnswers'
  <2>1. CASE \E kind \in {"ack", "cancel_rejected", "amend_rejected"} : Answer(Note(kind, r.id))
    BY <1>6, <2>1, HonestNotes DEF Answer
  <2>2. CASE \E kind \in {"cancelled", "reject"} : Answer(Note(kind, r.id)) /\ ~Live(r.id)'
    BY <1>5, <1>6, <2>2, HonestNotes DEF Answer, Off
  <2>3. CASE Answer(Event("amended", r.id, r.price, r.qty))
    <3>1. gw'.event \in Answers'
      BY <1>1, <1>6, <2>3, ServeTyped, SameIds DEF GatewaySide, Answer
    <3> QED
      BY <2>3, <3>1 DEF HonestAnswers, Answer, Event
  <2>4. CASE NoAnswer \/ gw' = [phase |-> "delete", event |-> Note("none", r.id)]
    BY <2>4 DEF NoAnswer, IdleGateway
  <2> QED
    BY <1>3, <2>1, <2>2, <2>3, <2>4 DEF GatewaySays
<1>10. gw'.phase = "delete" => gw'.event.id \in OnBook'
  BY <1>3, <1>4 DEF GatewaySays, Answer, NoAnswer, IdleGateway, Note, Event
<1> QED
  BY <1>5, <1>6, <1>7, <1>8, <1>9, <1>10 DEF Honest

(* A step of the venue alone, or of the gateway when it is not taking a request. *)
LEMMA VenueStaysOff ==
  ASSUME Honest, UNCHANGED <<orders, reqQ>>, OnBook' = OnBook, \A j : Live(j)' => Live(j)
  PROVE  StaysOff /\ NewComesFirst' /\ NewIsUnknown'
BY DEF Honest, StaysOff, Off, NewInFlight, NewComesFirst, NewIsUnknown

LEMMA OnBookIsPlaced ==
  ASSUME Honest, NEW k \in OnBook
  PROVE  ~NewInFlight(k)
BY DEF Honest, NewIsUnknown, NewInFlight

LEMMA DeleteHonest ==
  ASSUME Traffic, Honest, ServeDelete
  PROVE  StaysOff /\ Honest' /\ UNCHANGED orders
<1>1. PICK k \in OnBook : k = gw.event.id
  BY DEF Honest, ServeDelete
<1>2. UNCHANGED <<omsVars, ordQ, fillQ>> /\ UNCHANGED <<orders, reqQ>> /\ k \in Ids
  BY DEF ServeDelete, omsVars, Traffic
<1>3. Pull(k) \/ BookUnchanged
  BY <1>1 DEF ServeDelete
<1>4. /\ OnBook' = OnBook /\ \A j : Live(j)' => Live(j)
      /\ wsQ' = wsQ \/ (wsQ' = Append(wsQ, Note("cancelled", k)) /\ ~Live(k)')
  BY <1>3, PullTakesOff, SameBook DEF Pull, BookUnchanged
<1>5. StaysOff /\ NewComesFirst' /\ NewIsUnknown' /\ Ids' = Ids
  BY <1>2, <1>4, VenueStaysOff, SameIds
<1>6. ~NewInFlight(k)'
  BY <1>2, OnBookIsPlaced DEF NewInFlight
<1>7. wsQ' \in Seq(HonestReports')
  BY <1>2, <1>4, <1>5, <1>6, StreamHonest DEF Off
<1>8. ordQ' \in Seq(HonestAnswers')
  BY <1>2, <1>5, HonestGrows, SeqGrows DEF Honest
<1>9. \/ Answer(Note("amend_rejected", k))
      \/ Answer(Note("cancelled", k)) /\ ~Live(k)'
  <2>1. CASE Live(k) /\ Pull(k) /\ Answer(Note("cancelled", k))
    BY <2>1, PullTakesOff
  <2>2. CASE ~Live(k) /\ BookUnchanged /\ Answer(Note("cancelled", k))
    BY <2>2, SameBook DEF BookUnchanged
  <2> QED
    BY <1>1, <2>1, <2>2 DEF ServeDelete
<1>10. gw'.phase = "answered" /\ gw'.event \in HonestAnswers'
  BY <1>2, <1>5, <1>6, <1>9, HonestNotes DEF Answer, Off
<1> QED
  BY <1>2, <1>5, <1>7, <1>8, <1>10 DEF Honest

LEMMA RepliesHonest ==
  ASSUME Honest, GatewayReplies
  PROVE  StaysOff /\ Honest' /\ UNCHANGED orders
<1>1. /\ UNCHANGED <<orders, reqQ>> /\ UNCHANGED <<book, wsQ>>
      /\ gw.event \in HonestAnswers /\ gw'.phase = "idle"
  BY DEF GatewayReplies, omsVars, Honest, NoAnswer, IdleGateway
<1>2. OnBook' = OnBook /\ \A j : Live(j)' => Live(j)
  BY <1>1, SameBook
<1>3. StaysOff /\ NewComesFirst' /\ NewIsUnknown' /\ Ids' = Ids
  BY <1>1, <1>2, VenueStaysOff, SameIds
<1>4. ordQ' = Append(ordQ, gw.event) \/ UNCHANGED ordQ
  BY DEF GatewayReplies
<1>5. ordQ' \in Seq(HonestAnswers)
  BY <1>1, <1>4, AppendProperties DEF Honest
<1>6. ordQ' \in Seq(HonestAnswers') /\ wsQ' \in Seq(HonestReports')
  BY <1>1, <1>3, <1>5, HonestGrows, SeqGrows DEF Honest
<1> QED
  BY <1>1, <1>3, <1>6 DEF Honest

LEMMA TradeHonest ==
  ASSUME Traffic, Honest, NEW k \in OnBook,
         VenueCancels(k) \/ \E q \in 1..MaxQty : VenueFills(k, q)
  PROVE  StaysOff /\ Honest' /\ UNCHANGED orders
<1>1. UNCHANGED <<orders, reqQ>> /\ UNCHANGED <<gw, ordQ>> /\ k \in Ids
  BY DEF VenueCancels, VenueFills, omsVars, Traffic
<1>2. OnBook' = OnBook /\ \A j : Live(j)' => Live(j)
  BY PullTakesOff, FillsKeepLive DEF VenueCancels
<1>3. StaysOff /\ NewComesFirst' /\ NewIsUnknown' /\ Ids' = Ids
  BY <1>1, <1>2, VenueStaysOff, SameIds
<1>4. wsQ' \in Seq(HonestReports')
  <2>1. CASE VenueCancels(k)
    <3>1. ~Live(k)' /\ wsQ' = Append(wsQ, Note("cancelled", k))
      BY <2>1, PullTakesOff DEF VenueCancels, Pull
    <3>2. ~NewInFlight(k)'
      BY <1>1, OnBookIsPlaced DEF NewInFlight
    <3> QED
      BY <1>1, <1>3, <3>1, <3>2, StreamHonest DEF Off
  <2>2. CASE \E q \in 1..MaxQty : VenueFills(k, q)
    <3>1. PICK q \in 1..MaxQty : wsQ' = Append(wsQ, Event("fill", k, 0, q))
      BY <2>2 DEF VenueFills
    <3>2. Event("fill", k, 0, q) \in HonestReports'
      BY <1>1, <1>3 DEF HonestReports, Reports, Executions, Event
    <3>3. wsQ \in Seq(HonestReports')
      BY <1>3, HonestGrows, SeqGrows DEF Honest
    <3> QED
      BY <3>1, <3>2, <3>3, AppendProperties
  <2> QED
    BY <2>1, <2>2
<1>5. ordQ' \in Seq(HonestAnswers') /\ HonestAnswers \subseteq HonestAnswers'
  BY <1>1, <1>3, HonestGrows, SeqGrows DEF Honest
<1> QED
  BY <1>1, <1>2, <1>3, <1>4, <1>5 DEF Honest

LEMMA UserDataHonest ==
  ASSUME Honest, UserData
  PROVE  StaysOff /\ Honest' /\ UNCHANGED orders
<1>1. UNCHANGED <<orders, reqQ>> /\ UNCHANGED <<gw, book>>
  BY DEF UserData, omsVars
<1>2. OnBook' = OnBook /\ \A j : Live(j)' => Live(j)
  BY <1>1, SameBook
<1>3. StaysOff /\ NewComesFirst' /\ NewIsUnknown' /\ Ids' = Ids
  BY <1>1, <1>2, VenueStaysOff, SameIds
<1>4. Head(wsQ) \in HonestReports /\ wsQ' \in Seq(HonestReports)
  BY HeadTailProperties DEF Honest, UserData
<1>5. ordQ' \in Seq(HonestAnswers)
  <2>1. CASE Head(wsQ).kind = "fill"
    BY <2>1 DEF UserData, Honest
  <2>2. CASE Head(wsQ).kind # "fill"
    <3>1. Head(wsQ) \in HonestAnswers
      BY <1>4, <2>2 DEF HonestReports, HonestAnswers, Reports, Executions
    <3>2. ordQ' = Append(ordQ, Head(wsQ))
      BY <2>2 DEF UserData
    <3> QED
      BY <3>1, <3>2, AppendProperties DEF Honest
  <2> QED
    BY <2>1, <2>2
<1>6. HonestAnswers \subseteq HonestAnswers' /\ HonestReports \subseteq HonestReports'
  BY <1>3, HonestGrows
<1>7. ordQ' \in Seq(HonestAnswers') /\ wsQ' \in Seq(HonestReports')
  BY <1>4, <1>5, <1>6, SeqGrows
<1> QED
  BY <1>1, <1>2, <1>3, <1>6, <1>7 DEF Honest

(* One step of the closed system.  With no publish lost and no answer to a new order
   lost, GoneMeansGone is inductive next to Honest. *)
LEMMA GoneStep ==
  ASSUME TypeOK, Traffic, Honest, GoneMeansGone, MaxDrops = 0, "new_lost" \notin Faults,
         [Next]_vars
  PROVE  StaysOff /\ Honest' /\ GoneMeansGone'
<1>1. [OMSNext]_omsVars
  BY ClosedStep
<1>2. CASE OwnSteps /\ UNCHANGED venueVars
  <2>1. Asks /\ GivesUp({})
    BY <1>2, OwnStepsSpare
  <2>2. StaysOff /\ Honest'
    BY <1>1, <1>2, <2>1, HonestKept DEF venueVars, Honest
  <2> QED
    BY <2>1, <2>2, GoneKept
<1>3. CASE OrderEvent
  <2>1. Head(ordQ) \in HonestAnswers /\ ordQ' \in Seq(HonestAnswers)
    BY <1>3, HeadTailProperties DEF OrderEvent, Honest
  <2>2. Asks /\ GivesUp({k \in Ids : Off(k)})
    BY <1>3, <2>1, AnswerGivesUp DEF OrderEvent
  <2>3. StaysOff /\ Honest'
    BY <1>1, <1>3, <2>1, <2>2, HonestKept DEF OrderEvent
  <2> QED
    BY <2>2, <2>3, GoneKept
<1>4. CASE Fill
  <2>1. Head(fillQ).id \in Ids /\ Head(fillQ).qty \in 1..MaxQty
    BY <1>4, FillResponds DEF Executions
  <2>2. Asks /\ GivesUp({})
    BY <1>4, <2>1, FillGivesUpNothing DEF Fill
  <2>3. StaysOff /\ Honest'
    BY <1>1, <1>4, <2>2, HonestKept DEF Fill, Honest
  <2> QED
    BY <2>2, <2>3, GoneKept
<1>5. ASSUME StaysOff, Honest', UNCHANGED orders
      PROVE  StaysOff /\ Honest' /\ GoneMeansGone'
  BY <1>5, SameOrdersGiveUpNothing, GoneKept
<1>6. CASE Gateway
  BY <1>5, <1>6, ServeHonest, DeleteHonest, RepliesHonest DEF Gateway
<1>7. CASE UserData
  BY <1>5, <1>7, UserDataHonest
<1>8. CASE \E k \in OnBook : VenueCancels(k) \/ \E q \in 1..MaxQty : VenueFills(k, q)
  BY <1>5, <1>8, TradeHonest
<1>9. CASE UNCHANGED vars
  <2>1. Asks /\ UNCHANGED <<gw, book, wsQ, orders>> /\ ordQ' \in Seq(HonestAnswers)
    BY <1>9 DEF vars, omsVars, venueVars, Asks, Honest
  <2> QED
    BY <1>1, <1>5, <2>1, HonestKept
<1>10. Swept => OwnSteps /\ UNCHANGED venueVars
  BY DEF Swept, OwnSteps
<1> QED
  BY <1>2, <1>3, <1>4, <1>6, <1>7, <1>8, <1>9, <1>10
     DEF Next, Environment, OMSSteps, Verdicts, KillAlert, OwnSteps

(* An order the OMS has given up as cancelled or rejected is off the book and stays
   off it, as long as no publish and no answer to a new order is lost: the two cases
   in which the code rejects an order the venue may hold (_place_quote after a failed
   publish, _handle_new after a transport error). *)
THEOREM GoneStaysGone ==
  ASSUME MaxDrops = 0, "new_lost" \notin Faults
  PROVE  Spec => []GoneMeansGone
<1>1. Init => Honest /\ GoneMeansGone
  BY HonestInit
<1>2. ASSUME TypeOK, Traffic, Honest, GoneMeansGone, [Next]_vars
      PROVE  Honest' /\ GoneMeansGone'
  BY <1>2, GoneStep
<1> QED
  BY <1>1, <1>2, ClosedInv, PTL DEF Spec

----------------------------------------------------------------------------
(* Every execution is accounted for exactly once                           *)

(* What is traded along a queue of reports. *)
AmountOf(k) == [e \in Reports |-> Amount(e, k)]

LEMMA AmountTyped ==
  ASSUME NEW k
  PROVE  AmountOf(k) \in [Reports -> Int] /\ \A e \in Reports : Amount(e, k) \in Nat
<1>1. \A e \in Reports : Amount(e, k) \in Nat
  BY SizeAssumption DEF Amount, Reports, Executions, Answers, AnswerKinds
<1> QED
  BY <1>1 DEF AmountOf

LEMMA TradedAlong ==
  ASSUME NEW q \in Seq(Reports), NEW k
  PROVE  Traded(q, k) = SumOf(Along(AmountOf(k), q)) /\ Traded(q, k) \in Int
<1>1. \A n \in DOMAIN q : q[n] \in Reports
  BY LenProperties, ElementOfSeq
<1>2. Along(AmountOf(k), q) = [n \in DOMAIN q |-> Amount(q[n], k)]
  BY <1>1 DEF Along, AmountOf
<1>3. SumOf(Along(AmountOf(k), q)) \in Int
  BY AmountTyped, AlongInt
<1> QED
  BY <1>2, <1>3 DEF Traded

LEMMA TradedAppend ==
  ASSUME NEW q \in Seq(Reports), NEW e \in Reports, NEW k
  PROVE  Traded(Append(q, e), k) = Traded(q, k) + Amount(e, k)
<1>1. SumOf(Along(AmountOf(k), Append(q, e))) = SumOf(Along(AmountOf(k), q)) + AmountOf(k)[e]
  BY AmountTyped, AlongAppend
<1>2. AmountOf(k)[e] = Amount(e, k) /\ Append(q, e) \in Seq(Reports)
  BY AppendProperties DEF AmountOf
<1> QED
  BY <1>1, <1>2, TradedAlong

LEMMA TradedTail ==
  ASSUME NEW q \in Seq(Reports), q # << >>, NEW k
  PROVE  Traded(q, k) = Amount(Head(q), k) + Traded(Tail(q), k)
<1>1. SumOf(Along(AmountOf(k), q)) = AmountOf(k)[Head(q)] + SumOf(Along(AmountOf(k), Tail(q)))
  BY AmountTyped, AlongTail
<1>2. Head(q) \in Reports /\ Tail(q) \in Seq(Reports)
  BY HeadTailProperties
<1>3. AmountOf(k)[Head(q)] = Amount(Head(q), k)
  BY <1>2 DEF AmountOf
<1> QED
  BY <1>1, <1>2, <1>3, TradedAlong

(* Of an order nobody has heard of, nothing has traded. *)
LEMMA TradedNothing ==
  ASSUME NEW q \in Seq(Reports), NEW k, k \notin Ids
  PROVE  Traded(q, k) = 0
<1>1. \A n \in DOMAIN q : q[n] \in Reports /\ q[n].id # k
  BY LenProperties, ElementOfSeq DEF Reports, Executions, Answers
<1>2. \A n \in DOMAIN q : AmountOf(k)[q[n]] = 0
  BY <1>1 DEF AmountOf, Amount
<1> QED
  BY <1>2, AmountTyped, AlongZero, TradedAlong

(* What the OMS does by itself, or on an answer, records no fill. *)
Unfilled ==
  /\ \A k \in Ids : orders'[k].cum = orders[k].cum
  /\ \A k \in Ids' \ Ids : orders'[k].cum = 0

LEMMA CumsKept ==
  ASSUME NEW o \in Order
  PROVE  /\ \A s : Transition(o, s).cum = o.cum /\ Moved(o, s).cum = o.cum
         /\ RolledBack(o).cum = o.cum
         /\ \A price, qty : Amended(o, price, qty).cum = o.cum
<1> DEFINE p == [o EXCEPT !.pend = NoAmend]
<1>1. p \in Order /\ p.cum = o.cum
  BY ForgetKin DEF Order
<1>2. \A x \in Order : \A s : Transition(x, s).cum = x.cum /\ Moved(x, s).cum = x.cum
  BY DEF Transition, Moved, Order
<1>3. RolledBack(o).cum = o.cum
  BY <1>1, <1>2 DEF RolledBack
<1>4. ASSUME NEW price, NEW qty PROVE Amended(o, price, qty).cum = o.cum
  BY <1>1 DEF Amended, Moved, Order
<1> QED
  BY <1>2, <1>3, <1>4

LEMMA FilledAdds ==
  ASSUME NEW o \in Order, NEW q \in Nat
  PROVE  Filled(o, q).cum = o.cum + q
<1>1. RecordFill(o, q) \in Order /\ RecordFill(o, q).cum = o.cum + q
  BY DEF RecordFill, Order
<1> QED
  BY <1>1, CumsKept DEF Filled, ApplyFill

LEMMA OneOrderUnfilled ==
  ASSUME orders \in Seq(Order), NEW k \in Ids, NEW o, orders' = [orders EXCEPT ![k] = o],
         o.cum = orders[k].cum
  PROVE  Unfilled
<1>1. orders \in [Ids -> Order]
  BY ElementOfSeq, IdsInterval, SeqDef DEF Ids
<1>2. Ids' = Ids
  BY <1>1 DEF Ids
<1> QED
  BY <1>1, <1>2 DEF Unfilled

LEMMA SameOrdersUnfilled ==
  ASSUME UNCHANGED orders
  PROVE  Unfilled
BY DEF Unfilled, Ids

(* A placement asks for an order under a new id, whether or not it is shipped. *)
LEMMA PlaceAsks ==
  ASSUME TypeOK, MatchLeg, PlaceQuote
  PROVE  Asks /\ Unfilled
<1> DEFINE req == [kind |-> "new", id |-> Len(orders) + 1,
                   price |-> Target.price, qty |-> Target.qty]
<1>1. PICK status \in {"PENDING_NEW", "REJECTED"} : Adds(NewOrder(status))
  BY PlaceAdds DEF MatchLeg
<1>2. /\ Ids' = Ids \union {Len(orders) + 1} /\ Len(orders) + 1 \notin Ids
      /\ orders'[Len(orders) + 1] = NewOrder(status)
      /\ \A k \in Ids : orders'[k] = orders[k]
  BY <1>1, AddStep DEF TypeOK
<1>3. Unfilled
  BY <1>2 DEF Unfilled, NewOrder
<1>4. Target \in Leg /\ Len(orders) + 1 \in Nat
  BY LegInHand, LenProperties DEF MatchLeg, TypeOK
<1>5. req \in Request
  BY <1>4, SizeAssumption DEF Request, Leg
<1>6. reqQ' = Append(reqQ, req) \/ UNCHANGED reqQ
  BY DEF PlaceQuote, Published, PublishFailed
<1> QED
  BY <1>2, <1>3, <1>5, <1>6 DEF Asks

LEMMA OwnStepsUnfilled ==
  ASSUME TypeOK, OwnSteps
  PROVE  Asks /\ Unfilled
<1>1. CASE MatchLeg /\ PlaceQuote
  BY <1>1, PlaceAsks
<1>2. CASE MatchLeg /\ AmendQuote
  <2> DEFINE k == First(Free)
             o == [Moved(orders[k], "PENDING_AMEND") EXCEPT
                     !.pend = [price |-> Target.price, qty |-> Target.qty]]
  <2>1. k \in Ids /\ orders[k] \in Order
    BY <1>2, FreeMember, OrderTyped DEF MatchLeg, AmendQuote, TypeOK
  <2>2. o.cum = orders[k].cum
    BY <2>1 DEF Moved, Order
  <2>3. orders' = [orders EXCEPT ![k] = o]
    BY <1>2 DEF AmendQuote
  <2> QED
    BY <1>2, <2>1, <2>2, <2>3, OneOrderUnfilled, AmendGivesUpNothing DEF TypeOK
<1>3. CASE CancelOrder
  <2> DEFINE k == First(cancels)
  <2>1. k \in Ids /\ orders[k] \in Order
    BY <1>3, FirstMember, IdsInterval, OrderTyped DEF TypeOK, CancelOrder
  <2>2. UNCHANGED orders \/ orders' = [orders EXCEPT ![k] = Moved(orders[k], "PENDING_CANCEL")]
    BY <1>3 DEF CancelOrder
  <2> QED
    BY <1>3, <2>1, <2>2, CumsKept, OneOrderUnfilled, SameOrdersUnfilled, CancelGivesUpNothing
       DEF TypeOK
<1>4. CASE \E stale \in SUBSET Ids : Sweep(stale)
  <2>1. PICK stale \in SUBSET Ids : Sweep(stale)
    BY <1>4
  <2>2. orders' = [k \in Ids |-> IF k \in stale THEN RolledBack(orders[k]) ELSE orders[k]]
    BY <2>1 DEF Sweep
  <2>3. Ids' = Ids
    BY <2>2 DEF Ids
  <2>4. \A k \in Ids : RolledBack(orders[k]).cum = orders[k].cum
    BY OrderTyped, CumsKept DEF TypeOK
  <2> QED
    BY <2>1, <2>2, <2>3, <2>4, SweepGivesUpNothing DEF Unfilled
<1>5. CASE UNCHANGED <<orders, reqQ>>
  BY <1>5, SameOrdersUnfilled DEF Asks
<1> QED
  BY <1>1, <1>2, <1>3, <1>4, <1>5
     DEF OwnSteps, OnSignal, Verdict, OnRiskBlocked, OnRiskApproved, EngageKillSwitch,
         OnKillAlert, PauseStrategy, Engine, MatchLeg, KeepQuote, HoldLeg, CancelUnmatched

LEMMA AnswerUnfilled ==
  ASSUME TypeOK, Traffic, OrderEvent
  PROVE  Asks /\ Unfilled /\ UNCHANGED <<gw, book, wsQ, fillQ>>
<1> DEFINE e == Head(ordQ)
           k == e.id
<1>1. k \in Ids /\ orders[k] \in Order
  BY OrderEventResponds, OrderTyped DEF Answers, TypeOK
<1>2. \E o : orders' = [orders EXCEPT ![k] = o] /\ o.cum = orders[k].cum
  BY <1>1, CumsKept DEF OrderEvent, OnAck, OnReject, OnCancelled, OnCancelRejected,
                        OnAmendRejected, OnAmended, Update
<1>3. UNCHANGED reqQ
  BY DEF OrderEvent, OnAck, OnReject, OnCancelled, OnCancelRejected, OnAmendRejected,
         OnAmended, Update
<1> QED
  BY <1>1, <1>2, <1>3, OneOrderUnfilled, OrderEventResponds DEF TypeOK, Asks

(* What the book says of an order, listed or not. *)
BookCum(k) == IF k \in OnBook THEN book[k].cum ELSE 0

FillsAccounted(k) == orders[k].cum + Traded(wsQ, k) + Traded(fillQ, k) = BookCum(k)

FillInv == NewComesFirst /\ NewIsUnknown /\ FillConservation

LEMMA Conserved == FillConservation <=> \A k \in Ids : FillsAccounted(k)
BY DEF FillConservation, FillsAccounted, BookCum

LEMMA QueuesTyped ==
  ASSUME Traffic
  PROVE  /\ wsQ \in Seq(Reports) /\ fillQ \in Seq(Reports)
         /\ \A k : Traded(wsQ, k) \in Int /\ Traded(fillQ, k) \in Int
<1>1. wsQ \in Seq(Reports) /\ fillQ \in Seq(Reports)
  BY SeqGrows DEF Traffic, Reports
<1> QED
  BY <1>1, TradedAlong

(* The OMS acts: nothing is traded and nothing recorded. *)
LEMMA UnfilledConserves ==
  ASSUME TypeOK, Traffic, FillInv, Asks, Unfilled, UNCHANGED <<gw, book, wsQ, fillQ>>
  PROVE  FillInv'
<1>1. NewComesFirst' /\ NewIsUnknown'
  BY AskedHonestly DEF Traffic, FillInv
<1>2. ASSUME NEW k \in Ids' PROVE FillsAccounted(k)'
  <2>1. BookCum(k)' = BookCum(k) /\ Traded(wsQ, k)' = Traded(wsQ, k) /\ Traded(fillQ, k)' = Traded(fillQ, k)
    BY DEF BookCum, OnBook
  <2>2. CASE k \in Ids
    BY <2>1, <2>2, Conserved DEF FillInv, FillsAccounted, Unfilled
  <2>3. CASE k \notin Ids
    <3>1. Traded(wsQ, k) = 0 /\ Traded(fillQ, k) = 0
      BY <2>3, QueuesTyped, TradedNothing
    <3>2. BookCum(k) = 0
      BY <2>3 DEF BookCum, Traffic
    <3>3. orders'[k].cum = 0
      BY <2>3 DEF Unfilled
    <3> QED
      BY <2>1, <3>1, <3>2, <3>3 DEF FillsAccounted
  <2> QED
    BY <2>2, <2>3
<1>3. FillConservation'
  BY <1>2 DEF FillConservation, FillsAccounted, BookCum
<1> QED
  BY <1>1, <1>3 DEF FillInv

(* A step of the venue on its book that trades nothing. *)
Untraded ==
  /\ \A k : BookCum(k)' = BookCum(k)
  /\ \A k : Traded(wsQ, k)' = Traded(wsQ, k)

LEMMA CancelTradesNothing ==
  ASSUME Traffic, NEW k \in Ids,
         wsQ' = wsQ \/ wsQ' = Append(wsQ, Note("cancelled", k))
  PROVE  \A j : Traded(wsQ, j)' = Traded(wsQ, j)
<1>1. Note("cancelled", k) \in Reports
  BY NoteAnswers DEF AnswerKinds
<1>2. \A j : Amount(Note("cancelled", k), j) = 0
  BY DEF Amount, Note, Event
<1> SUFFICES ASSUME NEW j PROVE Traded(wsQ', j) = Traded(wsQ, j)
  OBVIOUS
<1>3. CASE wsQ' = Append(wsQ, Note("cancelled", k))
  BY <1>1, <1>2, <1>3, QueuesTyped, TradedAppend
<1> QED
  BY <1>3

LEMMA PullTradesNothing ==
  ASSUME Traffic, NEW k \in OnBook, Pull(k)
  PROVE  Untraded
<1>1. /\ book \in [OnBook -> Record] /\ k \in Ids
      /\ book' = [book EXCEPT ![k] = [book[k] EXCEPT !.live = FALSE]]
  BY DEF Traffic, Pull
<1>2. [book[k] EXCEPT !.live = FALSE].cum = book[k].cum
  BY <1>1 DEF Record
<1>3. OnBook' = OnBook
  BY <1>1 DEF OnBook
<1>4. \A j : BookCum(j)' = BookCum(j)
  BY <1>1, <1>2, <1>3 DEF BookCum
<1> QED
  BY <1>1, <1>4, CancelTradesNothing DEF Untraded, Pull

LEMMA BookSideUntraded ==
  ASSUME Traffic, NEW r \in Requests, BookSide(r), r.kind = "new" => r.id \notin OnBook
  PROVE  Untraded
<1>1. CASE BookUnchanged
  BY <1>1 DEF BookUnchanged, Untraded, BookCum, OnBook
<1>2. CASE r.id \in OnBook /\ Pull(r.id)
  BY <1>2, PullTradesNothing
<1>3. CASE r.id \in OnBook /\ Change(r)
  <2>1. /\ book \in [OnBook -> Record]
        /\ book' = [book EXCEPT ![r.id] = [book[r.id] EXCEPT !.price = r.price, !.qty = r.qty]]
    BY <1>3 DEF Traffic, Change
  <2>2. [book[r.id] EXCEPT !.price = r.price, !.qty = r.qty].cum = book[r.id].cum
    BY <1>3, <2>1 DEF Record
  <2>3. OnBook' = OnBook
    BY <2>1 DEF OnBook
  <2>4. \A j : BookCum(j)' = BookCum(j)
    BY <1>3, <2>1, <2>2, <2>3 DEF BookCum
  <2> QED
    BY <1>3, <2>4 DEF Untraded, Change
<1>4. CASE r.kind = "new" /\ Accept(r)
  <2>1. OnBook' = OnBook \union {r.id} /\ r.id \notin OnBook
    BY <1>4 DEF Accept, OnBook
  <2>2. \A j : BookCum(j)' = BookCum(j)
    BY <1>4, <2>1 DEF BookCum, Accept
  <2> QED
    BY <1>4, <2>2 DEF Untraded, Accept
<1> QED
  BY <1>1, <1>2, <1>3, <1>4 DEF BookSide

LEMMA UntradedConserves ==
  ASSUME Traffic, FillConservation, UNCHANGED <<orders, fillQ>>, Untraded
  PROVE  FillConservation'
<1>1. Ids' = Ids
  BY DEF Ids
<1>2. ASSUME NEW k \in Ids PROVE FillsAccounted(k)'
  BY <1>2, Conserved DEF FillsAccounted, Untraded
<1> QED
  BY <1>1, <1>2 DEF FillConservation, FillsAccounted, BookCum

LEMMA ServeConserves ==
  ASSUME Traffic, FillInv, ServeNew \/ ServeCancel \/ ServeAmend
  PROVE  FillInv'
<1>1. GatewayTakes /\ UNCHANGED <<ordQ, fillQ>> /\ reqQ # << >> /\ UNCHANGED <<orders, fillQ>>
  BY DEF ServeNew, ServeCancel, ServeAmend, Serving, GatewayTakes
<1>2. PICK r \in Requests : r = Head(reqQ)
  BY <1>1, HeadRequest
<1>3. BookSide(r)
  <2>1. CASE ServeNew
    BY <1>2, <2>1 DEF ServeNew, Serving, BookSide
  <2> QED
    BY <1>2, <2>1, ServeCancelSides, ServeAmendSides
<1>4. r.kind = "new" => r.id \notin OnBook
  <2>1. 1 \in DOMAIN reqQ /\ r = reqQ[1]
    BY <1>1, <1>2, HeadTailProperties, LenProperties DEF Traffic
  <2> QED
    BY <2>1 DEF FillInv, NewIsUnknown
<1>5. FillConservation'
  BY <1>1, <1>2, <1>3, <1>4, BookSideUntraded, UntradedConserves DEF FillInv
<1>6. /\ NewComesFirst'
      /\ \A n \in DOMAIN reqQ' : reqQ'[n].kind = "new" =>
            reqQ'[n].id \notin OnBook /\ reqQ'[n].id # r.id
  BY <1>1, <1>2, TakenHonestly DEF Traffic, FillInv, GatewayTakes
<1>7. OnBook' \subseteq OnBook \union {r.id}
  BY <1>3, BookSideLive
<1>8. NewIsUnknown'
  BY <1>6, <1>7 DEF NewIsUnknown
<1> QED
  BY <1>5, <1>6, <1>8 DEF FillInv

(* Requests and book as they were, as far as placing orders goes. *)
LEMMA RequestsKept ==
  ASSUME FillInv, UNCHANGED reqQ, OnBook' = OnBook
  PROVE  NewComesFirst' /\ NewIsUnknown'
BY DEF FillInv, NewComesFirst, NewIsUnknown

LEMMA DeleteConserves ==
  ASSUME Traffic, FillInv, ServeDelete
  PROVE  FillInv'
<1>1. UNCHANGED <<orders, reqQ, fillQ>>
  BY DEF ServeDelete, omsVars
<1>2. BookUnchanged \/ (gw.event.id \in OnBook /\ Pull(gw.event.id))
  BY DEF ServeDelete, Live
<1>3. Untraded /\ OnBook' = OnBook
  BY <1>2, PullTradesNothing, PullTakesOff DEF Untraded, BookUnchanged, BookCum, OnBook
<1> QED
  BY <1>1, <1>3, UntradedConserves, RequestsKept DEF FillInv

LEMMA QuietVenueConserves ==
  ASSUME Traffic, FillInv,
         GatewayReplies \/ (\E k \in OnBook : VenueCancels(k))
  PROVE  FillInv'
<1>1. UNCHANGED <<orders, reqQ, fillQ>>
  BY DEF GatewayReplies, VenueCancels, omsVars
<1>2. BookUnchanged \/ (\E k \in OnBook : Pull(k))
  BY DEF GatewayReplies, VenueCancels, BookUnchanged
<1>3. Untraded /\ OnBook' = OnBook
  BY <1>2, PullTradesNothing, PullTakesOff DEF Untraded, BookUnchanged, BookCum, OnBook
<1> QED
  BY <1>1, <1>3, UntradedConserves, RequestsKept DEF FillInv

(* A trade is on the book and on the stream at once. *)
LEMMA TradeConserves ==
  ASSUME TypeOK, Traffic, FillInv, NEW k \in OnBook, NEW q \in 1..MaxQty, VenueFills(k, q)
  PROVE  FillInv'
<1> DEFINE filled == [book[k] EXCEPT !.cum = book[k].cum + q,
                                     !.live = (book[k].cum + q < book[k].qty)]
           e == Event("fill", k, 0, q)
<1>1. /\ book \in [OnBook -> Record] /\ k \in Ids /\ q \in Nat
      /\ book' = [book EXCEPT ![k] = filled]
      /\ wsQ' = Append(wsQ, e) /\ UNCHANGED <<orders, reqQ, fillQ>>
  <2>1. book \in [OnBook -> Record] /\ k \in Ids /\ q \in Nat
    BY SizeAssumption DEF Traffic
  <2>2. book' = [book EXCEPT ![k] = filled]
    BY <2>1 DEF VenueFills
  <2>3. wsQ' = Append(wsQ, e) /\ UNCHANGED <<orders, reqQ, fillQ>>
    BY DEF VenueFills, omsVars
  <2> QED
    BY <2>1, <2>2, <2>3
<1>2. filled.cum = book[k].cum + q
  BY <1>1 DEF Record
<1>3. e \in Reports /\ \A j : Amount(e, j) = IF j = k THEN q ELSE 0
  BY <1>1 DEF Event, Reports, Executions, Amount
<1>4. OnBook' = OnBook /\ Ids' = Ids
  BY <1>1 DEF OnBook, Ids
<1>5. ASSUME NEW j \in Ids PROVE FillsAccounted(j)'
  <2>1. Traded(wsQ', j) = Traded(wsQ, j) + (IF j = k THEN q ELSE 0)
    BY <1>1, <1>3, QueuesTyped, TradedAppend
  <2>2. BookCum(j)' = BookCum(j) + (IF j = k THEN q ELSE 0)
    <3>1. j \in OnBook => book[j].cum \in Nat
      BY <1>1 DEF Record
    <3> QED
      BY <1>1, <1>2, <1>4, <3>1 DEF BookCum
  <2>3. orders[j].cum \in Nat /\ Traded(wsQ, j) \in Int /\ Traded(fillQ, j) \in Int
    BY QueuesTyped, OrderTyped DEF Order, TypeOK
  <2>4. BookCum(j) = orders[j].cum + Traded(wsQ, j) + Traded(fillQ, j)
    BY Conserved DEF FillInv, FillsAccounted
  <2> QED
    BY <1>1, <2>1, <2>2, <2>3, <2>4 DEF FillsAccounted
<1>6. FillConservation'
  BY <1>4, <1>5 DEF FillConservation, FillsAccounted, BookCum
<1> QED
  BY <1>1, <1>4, <1>6, RequestsKept DEF FillInv

(* The stream's handler passes an execution on. *)
LEMMA UserDataConserves ==
  ASSUME TypeOK, Traffic, FillInv, UserData
  PROVE  FillInv'
<1> DEFINE e == Head(wsQ)
<1>1. UNCHANGED <<orders, reqQ>> /\ UNCHANGED book /\ wsQ # << >> /\ wsQ' = Tail(wsQ)
  BY DEF UserData, omsVars
<1>2. OnBook' = OnBook /\ Ids' = Ids
  BY <1>1 DEF OnBook, Ids
<1>3. e \in Reports /\ \A j : Amount(e, j) \in Nat
  BY <1>1, QueuesTyped, HeadTailProperties, AmountTyped
<1>4. wsQ' \in Seq(Reports)
  BY <1>1, QueuesTyped, HeadTailProperties
<1>5. ASSUME NEW j \in Ids PROVE FillsAccounted(j)'
  <2>1. Traded(wsQ, j) = Amount(e, j) + Traded(wsQ', j) /\ Traded(wsQ', j) \in Int
    BY <1>1, <1>4, QueuesTyped, TradedTail, TradedAlong
  <2>2. Traded(fillQ', j) = Traded(fillQ, j) + Amount(e, j)
    <3>1. CASE e.kind = "fill"
      BY <1>3, <3>1, QueuesTyped, TradedAppend DEF UserData
    <3>2. CASE e.kind # "fill"
      BY <3>2, QueuesTyped DEF UserData, Amount
    <3> QED
      BY <3>1, <3>2
  <2>3. orders[j].cum \in Nat /\ Traded(fillQ, j) \in Int
    BY QueuesTyped, OrderTyped DEF Order, TypeOK
  <2>4. BookCum(j)' = BookCum(j)
    BY <1>1, <1>2 DEF BookCum
  <2>5. BookCum(j) = orders[j].cum + Traded(wsQ, j) + Traded(fillQ, j)
    BY Conserved DEF FillInv, FillsAccounted
  <2> QED
    BY <1>1, <1>3, <2>1, <2>2, <2>3, <2>4, <2>5 DEF FillsAccounted
<1>6. FillConservation'
  BY <1>2, <1>5 DEF FillConservation, FillsAccounted, BookCum
<1> QED
  BY <1>1, <1>2, <1>6, RequestsKept DEF FillInv

(* The OMS records a fill, on an active order or on a terminal one. *)
LEMMA FillConserves ==
  ASSUME TypeOK, Traffic, FillInv, Fill
  PROVE  FillInv'
<1> DEFINE e == Head(fillQ)
           k == e.id
<1>1. e \in Executions /\ UNCHANGED <<gw, book, wsQ, ordQ>> /\ fillQ # << >> /\ fillQ' = Tail(fillQ)
  BY FillResponds DEF Fill
<1>2. k \in Ids /\ e.qty \in Nat /\ e.kind = "fill" /\ e \in Reports
  <2>1. k \in Ids /\ e.qty \in 1..MaxQty /\ e.kind = "fill"
    BY <1>1 DEF Executions
  <2> QED
    BY <1>1, <2>1, SizeAssumption DEF Reports
<1>3. /\ orders \in [Ids -> Order]
      /\ orders' = [orders EXCEPT ![k] = Filled(orders[k], e.qty)] /\ UNCHANGED reqQ
  BY ElementOfSeq, IdsInterval, SeqDef DEF TypeOK, Fill, OnFill, Update
<1>4. OnBook' = OnBook /\ Ids' = Ids
  BY <1>1, <1>3 DEF OnBook, Ids
<1>5. fillQ' \in Seq(Reports)
  BY <1>1, QueuesTyped, HeadTailProperties
<1>6. ASSUME NEW j \in Ids PROVE FillsAccounted(j)'
  <2>1. Traded(fillQ, j) = Amount(e, j) + Traded(fillQ', j) /\ Traded(fillQ', j) \in Int
    BY <1>1, <1>5, QueuesTyped, TradedTail, TradedAlong
  <2>2. orders'[j].cum = orders[j].cum + Amount(e, j)
    <3>1. orders[j] \in Order /\ orders[j].cum \in Nat
      BY <1>3 DEF Order
    <3> QED
      BY <1>2, <1>3, <3>1, FilledAdds DEF Amount
  <2>3. orders[j].cum \in Nat /\ Traded(wsQ, j) \in Int /\ Amount(e, j) \in Nat
    BY <1>2, <1>3, QueuesTyped, AmountTyped DEF Order
  <2>4. BookCum(j)' = BookCum(j)
    BY <1>1, <1>4 DEF BookCum
  <2>5. BookCum(j) = orders[j].cum + Traded(wsQ, j) + Traded(fillQ, j)
    BY Conserved DEF FillInv, FillsAccounted
  <2> QED
    BY <1>1, <2>1, <2>2, <2>3, <2>4, <2>5 DEF FillsAccounted
<1>7. FillConservation'
  BY <1>4, <1>6 DEF FillConservation, FillsAccounted, BookCum
<1> QED
  BY <1>3, <1>4, <1>7, RequestsKept DEF FillInv

LEMMA FillStep ==
  ASSUME TypeOK, Traffic, FillInv, [Next]_vars
  PROVE  FillInv'
<1>1. CASE OwnSteps /\ UNCHANGED venueVars
  BY <1>1, OwnStepsUnfilled, UnfilledConserves DEF venueVars
<1>2. CASE OrderEvent
  BY <1>2, AnswerUnfilled, UnfilledConserves
<1>3. CASE Fill
  BY <1>3, FillConserves
<1>4. CASE Gateway
  BY <1>4, ServeConserves, DeleteConserves, QuietVenueConserves DEF Gateway
<1>5. CASE UserData
  BY <1>5, UserDataConserves
<1>6. CASE \E k \in OnBook : VenueCancels(k) \/ \E q \in 1..MaxQty : VenueFills(k, q)
  BY <1>6, QuietVenueConserves, TradeConserves
<1>7. CASE UNCHANGED vars
  <2>1. Asks /\ Unfilled /\ UNCHANGED <<gw, book, wsQ, fillQ>>
    BY <1>7, SameOrdersUnfilled DEF vars, omsVars, venueVars, Asks
  <2> QED
    BY <2>1, UnfilledConserves
<1>8. Swept => OwnSteps /\ UNCHANGED venueVars
  BY DEF Swept, OwnSteps
<1> QED
  BY <1>1, <1>2, <1>3, <1>4, <1>5, <1>6, <1>7, <1>8
     DEF Next, Environment, OMSSteps, Verdicts, KillAlert, OwnSteps

LEMMA FillInit == Init => FillInv
<1> SUFFICES ASSUME Init PROVE FillInv
  OBVIOUS
<1>1. reqQ = << >> /\ Ids = {} /\ DOMAIN reqQ = {}
  BY DEF Init, OMSInit, Ids
<1> QED
  BY <1>1 DEF FillInv, NewComesFirst, NewIsUnknown, FillConservation

(* Every execution is accounted for exactly once, whatever fails: what the OMS has
   recorded on an order, and what is on its way, is what the venue has traded. *)
THEOREM FillsConserved == Spec => []FillConservation
<1>1. ASSUME TypeOK, Traffic, FillInv, [Next]_vars
      PROVE  FillInv'
  BY <1>1, FillStep
<1>2. Spec => []FillInv
  BY <1>1, FillInit, ClosedInv, PTL DEF Spec
<1>3. FillInv => FillConservation
  BY DEF FillInv
<1> QED
  BY <1>2, <1>3, PTL

----------------------------------------------------------------------------
(* What one step does to the orders and the requests                       *)

Ask(kind, k, price, qty) == [kind |-> kind, id |-> k, price |-> price, qty |-> qty]

Shipped(req) == reqQ' = reqQ \/ reqQ' = Append(reqQ, req)

(* No order but k changes, and of k neither its terms nor what has traded. *)
SameBut(k) == Ids' = Ids /\ \A j \in Ids \ {k} : orders'[j] = orders[j]
SameTerms(o, p) ==
  /\ p.strat = o.strat /\ p.inst = o.inst /\ p.side = o.side
  /\ p.price = o.price /\ p.qty = o.qty /\ p.cum = o.cum

(* _place_quote, _amend_quote and cancel_order, whether or not the request is
   shipped. *)
Places(n) ==
  /\ recon.on /\ recon.todo # {}
  /\ n = Len(orders) + 1 /\ n \in Nat /\ n \notin Ids /\ Ids' = Ids \union {n}
  /\ \A k \in Ids : orders'[k] = orders[k]
  /\ Target \in Leg /\ ~StpBlocks(Target)
  /\ \/ orders'[n] = NewOrder("PENDING_NEW") /\ reqQ' = Append(reqQ, Ask("new", n, Target.price, Target.qty))
     \/ /\ orders'[n] = NewOrder("REJECTED") /\ drops < MaxDrops
        /\ Shipped(Ask("new", n, Target.price, Target.qty))

Amends(k) ==
  /\ recon.on /\ recon.todo # {}
  /\ k \in Ids /\ k \in Nat /\ SameBut(k) /\ SameTerms(orders[k], orders'[k])
  /\ orders[k].status \in Resting /\ orders'[k].status = "PENDING_AMEND"
  /\ orders[k].side = Target.side /\ Target \in Leg
  /\ Shipped(Ask("amend", k, Target.price, Target.qty))

Cancels(k) ==
  /\ k \in Ids /\ k \in Nat /\ SameBut(k) /\ SameTerms(orders[k], orders'[k])
  /\ orders[k].status \in Resting \union {"PENDING_AMEND"}
  /\ orders'[k].status = "PENDING_CANCEL"
  /\ \/ reqQ' = Append(reqQ, Ask("cancel", k, 0, 0))
     \/ drops < MaxDrops /\ Shipped(Ask("cancel", k, 0, 0))

LEMMA PlaceMoves ==
  ASSUME TypeOK, MatchLeg, PlaceQuote
  PROVE  \E n : Places(n)
<1> DEFINE n == Len(orders) + 1
<1>1. PICK status \in {"PENDING_NEW", "REJECTED"} : Adds(NewOrder(status))
  BY PlaceAdds DEF MatchLeg
<1>2. /\ Ids' = Ids \union {n} /\ n \notin Ids /\ n \in Nat
      /\ \A k \in Ids : orders'[k] = orders[k]
  BY <1>1, AddStep, LenProperties DEF TypeOK
<1>3. Target \in Leg /\ recon.on /\ recon.todo # {} /\ ~StpBlocks(Target)
  BY LegInHand DEF MatchLeg, PlaceQuote
<1>4. ASSUME NEW o, orders' = Append(orders, o)
      PROVE  orders'[n] = o
  BY <1>4, IdsInterval DEF TypeOK
<1>5. \/ orders'[n] = NewOrder("PENDING_NEW") /\ reqQ' = Append(reqQ, Ask("new", n, Target.price, Target.qty))
      \/ /\ orders'[n] = NewOrder("REJECTED") /\ drops < MaxDrops
         /\ Shipped(Ask("new", n, Target.price, Target.qty))
  BY <1>4 DEF PlaceQuote, Published, PublishFailed, Ask, Shipped
<1>6. Places(n)
  BY <1>2, <1>3, <1>5 DEF Places
<1> QED
  BY <1>6

LEMMA OneMoves ==
  ASSUME TypeOK, NEW k \in Ids, NEW o, orders' = [orders EXCEPT ![k] = o]
  PROVE  SameBut(k) /\ orders'[k] = o /\ k \in Nat
<1>1. orders \in [Ids -> Order] /\ k \in Nat
  BY ElementOfSeq, IdsInterval, SeqDef DEF TypeOK
<1> QED
  BY <1>1 DEF SameBut, Ids

LEMMA MovedIs ==
  ASSUME NEW o \in Order, NEW s
  PROVE  Moved(o, s).status = s /\ SameTerms(o, Moved(o, s))
BY DEF Moved, Order, SameTerms

LEMMA AmendMoves ==
  ASSUME TypeOK, MatchLeg, AmendQuote
  PROVE  \E k : Amends(k)
<1> DEFINE k == First(Free)
           o == [Moved(orders[k], "PENDING_AMEND") EXCEPT
                   !.pend = [price |-> Target.price, qty |-> Target.qty]]
<1>1. Target \in Leg /\ k \in Ids /\ orders[k] \in Order /\ orders[k].side = Target.side
  BY LegInHand, FreeMember, OrderTyped DEF MatchLeg, AmendQuote, TypeOK
<1>2. orders' = [orders EXCEPT ![k] = o]
  BY DEF AmendQuote
<1>3. SameBut(k) /\ orders'[k] = o /\ k \in Nat
  BY <1>1, <1>2, OneMoves
<1>4. o.status = "PENDING_AMEND" /\ SameTerms(orders[k], o)
  BY <1>1 DEF Moved, Order, SameTerms
<1>5. Shipped(Ask("amend", k, Target.price, Target.qty)) /\ orders[k].status \in Resting
  BY DEF AmendQuote, Published, PublishFailed, Shipped, Ask, Amendable
<1>6. Amends(k)
  BY <1>1, <1>3, <1>4, <1>5 DEF Amends, MatchLeg
<1> QED
  BY <1>6

LEMMA CancelMoves ==
  ASSUME TypeOK, CancelOrder
  PROVE  UNCHANGED <<orders, reqQ>> \/ \E k : Cancels(k)
<1> DEFINE k == First(cancels)
<1>1. k \in Ids /\ orders[k] \in Order
  BY FirstMember, IdsInterval, OrderTyped DEF TypeOK, CancelOrder
<1>2. CASE CanMove(orders[k], "PENDING_CANCEL")
  <2>1. orders[k].status \in Resting \union {"PENDING_AMEND"}
    BY <1>1, <1>2 DEF CanMove, LegalFrom, Order, Status, Active, Pending, Resting, Terminal
  <2>2. orders' = [orders EXCEPT ![k] = Moved(orders[k], "PENDING_CANCEL")]
    BY <1>2 DEF CancelOrder
  <2>3. SameBut(k) /\ orders'[k] = Moved(orders[k], "PENDING_CANCEL") /\ k \in Nat
    BY <1>1, <2>2, OneMoves
  <2>4. \/ reqQ' = Append(reqQ, Ask("cancel", k, 0, 0))
        \/ drops < MaxDrops /\ Shipped(Ask("cancel", k, 0, 0))
    BY <1>2 DEF CancelOrder, Published, PublishFailed, Shipped, Ask
  <2>5. Cancels(k)
    BY <1>1, <2>1, <2>3, <2>4, MovedIs DEF Cancels
  <2> QED
    BY <2>5
<1>3. CASE ~CanMove(orders[k], "PENDING_CANCEL")
  BY <1>3 DEF CancelOrder
<1> QED
  BY <1>2, <1>3

(* Signals, verdicts and alerts, and the loops they start. *)
OmsActs ==
  \/ OMSSteps \/ Verdicts \/ KillAlert
  \/ \E s \in Strategies, i \in Instruments, legs \in Ladders :
        OnSignal(s, i, legs) /\ UNCHANGED venueVars
  \/ EngageKillSwitch /\ UNCHANGED venueVars
  \/ \E s \in Strategies : PauseStrategy(s) /\ UNCHANGED venueVars

LEMMA OmsMoves ==
  ASSUME TypeOK, OmsActs
  PROVE  /\ UNCHANGED <<gw, book, wsQ, ordQ, fillQ>>
         /\ \/ UNCHANGED <<orders, reqQ>>
            \/ \E n : Places(n)
            \/ \E k : Amends(k) \/ Cancels(k)
<1>1. UNCHANGED <<gw, book, wsQ, ordQ, fillQ>>
  BY DEF OmsActs, OMSSteps, Verdicts, KillAlert, venueVars
<1>2. CASE MatchLeg /\ PlaceQuote
  BY <1>1, <1>2, PlaceMoves
<1>3. CASE MatchLeg /\ AmendQuote
  BY <1>1, <1>3, AmendMoves
<1>4. CASE CancelOrder
  BY <1>1, <1>4, CancelMoves
<1>5. CASE UNCHANGED <<orders, reqQ>>
  BY <1>1, <1>5
<1> QED
  BY <1>2, <1>3, <1>4, <1>5
     DEF OmsActs, OMSSteps, Verdicts, KillAlert, OnSignal, Verdict, OnRiskBlocked,
         OnRiskApproved, EngageKillSwitch, OnKillAlert, PauseStrategy, Engine, MatchLeg,
         KeepQuote, HoldLeg, CancelUnmatched

(* What an answer makes of an order. *)
Answered(o, e) ==
  IF e.kind \in {"ack", "cancel_rejected"} THEN Transition(o, "ACKNOWLEDGED")
  ELSE IF e.kind = "reject" THEN Transition(o, "REJECTED")
  ELSE IF e.kind = "cancelled" THEN Transition(o, "CANCELLED")
  ELSE IF e.kind = "amend_rejected" THEN RolledBack(o)
  ELSE Amended(o, e.price, e.qty)

LEMMA AnswerMoves ==
  ASSUME TypeOK, Traffic, OrderEvent, NEW e, e = Head(ordQ)
  PROVE  /\ e \in Answers /\ e.id \in Ids /\ SameBut(e.id)
         /\ orders'[e.id] = Answered(orders[e.id], e)
         /\ ordQ # << >> /\ ordQ' = Tail(ordQ) /\ ordQ' \in Seq(Answers)
         /\ UNCHANGED <<reqQ, recon, gw, book, wsQ, fillQ>>
<1>1. e \in Answers /\ ordQ' \in Seq(Answers) /\ UNCHANGED <<gw, book, wsQ, fillQ>>
  BY OrderEventResponds
<1>2. e.id \in Ids /\ e.kind \in AnswerKinds
  BY <1>1 DEF Answers
<1>3. /\ orders' = [orders EXCEPT ![e.id] = Answered(orders[e.id], e)]
      /\ ordQ # << >> /\ ordQ' = Tail(ordQ) /\ UNCHANGED <<reqQ, recon>>
  BY <1>2 DEF OrderEvent, OnAck, OnReject, OnCancelled, OnCancelRejected, OnAmendRejected,
              OnAmended, Update, Answered, AnswerKinds
<1> QED
  BY <1>1, <1>2, <1>3, OneMoves

LEMMA FillMoves ==
  ASSUME TypeOK, Traffic, Fill, NEW e, e = Head(fillQ)
  PROVE  /\ e \in Executions /\ e.id \in Ids /\ e.qty \in Nat \ {0} /\ SameBut(e.id)
         /\ orders'[e.id] = Filled(orders[e.id], e.qty)
         /\ fillQ # << >> /\ fillQ' = Tail(fillQ)
         /\ UNCHANGED <<reqQ, recon, gw, book, wsQ, ordQ>>
<1>1. e \in Executions /\ UNCHANGED <<gw, book, wsQ, ordQ>>
  BY FillResponds
<1>2. e.id \in Ids /\ e.qty \in Nat \ {0}
  BY <1>1, SizeAssumption DEF Executions
<1>3. /\ orders' = [orders EXCEPT ![e.id] = Filled(orders[e.id], e.qty)]
      /\ fillQ # << >> /\ fillQ' = Tail(fillQ) /\ UNCHANGED <<reqQ, recon>>
  BY DEF Fill, OnFill, Update
<1> QED
  BY <1>1, <1>2, <1>3, OneMoves

(* The orders a sweep gives up waiting for. *)
Sweeps(stale) ==
  /\ \A k \in stale : /\ k \in Ids /\ orders[k].status = "PENDING_AMEND"
                      /\ LateResponses \/ ~AmendInFlight(k)
  /\ Ids' = Ids
  /\ \A k \in Ids : orders'[k] = IF k \in stale THEN RolledBack(orders[k]) ELSE orders[k]
  /\ UNCHANGED <<reqQ, recon, gw, book, wsQ, ordQ, fillQ>>

LEMMA SweepMoves ==
  ASSUME TypeOK, Swept
  PROVE  \E stale : Sweeps(stale)
<1>1. PICK stale \in SUBSET {k \in Ids : /\ orders[k].status = "PENDING_AMEND"
                                         /\ LateResponses \/ ~AmendInFlight(k)} :
         Sweep(stale)
  BY DEF Swept
<1>2. /\ orders' = [k \in Ids |-> IF k \in stale THEN RolledBack(orders[k]) ELSE orders[k]]
      /\ UNCHANGED <<reqQ, recon, gw, book, wsQ, ordQ, fillQ>>
  BY <1>1 DEF Sweep, Swept, venueVars
<1>3. Ids' = Ids
  BY <1>2 DEF Ids
<1>4. Sweeps(stale)
  BY <1>1, <1>2, <1>3 DEF Sweeps
<1> QED
  BY <1>4

(* Every step of the closed system is one of these. *)
LEMMA StepCases ==
  ASSUME [Next]_vars
  PROVE  \/ OmsActs \/ OrderEvent \/ Fill \/ Swept
         \/ ServeNew \/ ServeCancel \/ ServeAmend \/ ServeDelete \/ GatewayReplies
         \/ UserData
         \/ \E k \in OnBook : VenueCancels(k) \/ \E q \in 1..MaxQty : VenueFills(k, q)
         \/ UNCHANGED vars
BY DEF Next, Environment, Gateway, OmsActs

----------------------------------------------------------------------------
(* Where on a queue an order is spoken of                                  *)

Hits(q, k, kinds) == {n \in DOMAIN q : q[n].id = k /\ q[n].kind \in kinds}
Hit(e, k, kinds) == e.id = k /\ e.kind \in kinds

LEMMA HitsAppend ==
  ASSUME NEW S, NEW q \in Seq(S), NEW e \in S, NEW Q, Q = Append(q, e), NEW k, NEW kinds
  PROVE  /\ \A n \in Hits(Q, k, kinds) :
               n \in Hits(q, k, kinds) \/ (n = Len(q) + 1 /\ Hit(e, k, kinds))
         /\ Hits(Q, k, kinds) # {} <=> Hits(q, k, kinds) # {} \/ Hit(e, k, kinds)
         /\ Len(q) + 1 \notin DOMAIN q
<1>1. /\ Len(q) \in Nat /\ DOMAIN q = 1..Len(q) /\ DOMAIN Q = 1..(Len(q) + 1)
      /\ Q[Len(q) + 1] = e /\ \A n \in 1..Len(q) : Q[n] = q[n]
  BY LenProperties, AppendProperties
<1>2. \A n \in Hits(Q, k, kinds) :
        n \in Hits(q, k, kinds) \/ (n = Len(q) + 1 /\ Hit(e, k, kinds))
  BY <1>1 DEF Hits, Hit
<1>3. Hits(q, k, kinds) \subseteq Hits(Q, k, kinds)
  BY <1>1 DEF Hits
<1>4. Hit(e, k, kinds) => Len(q) + 1 \in Hits(Q, k, kinds)
  BY <1>1 DEF Hits, Hit
<1> QED
  BY <1>1, <1>2, <1>3, <1>4

LEMMA HitsTail ==
  ASSUME NEW S, NEW q \in Seq(S), q # << >>, NEW Q, Q = Tail(q), NEW k, NEW kinds
  PROVE  /\ \A n \in Hits(Q, k, kinds) : n \in Nat \ {0} /\ n + 1 \in Hits(q, k, kinds)
         /\ \A n \in Hits(q, k, kinds) :
               \/ n = 1 /\ Hit(Head(q), k, kinds)
               \/ n \in Nat \ {0, 1} /\ n - 1 \in Hits(Q, k, kinds)
         /\ Hit(Head(q), k, kinds) => 1 \in Hits(q, k, kinds)
<1>1. /\ Len(q) \in Nat \ {0} /\ DOMAIN q = 1..Len(q)
      /\ DOMAIN Q = 1..(Len(q) - 1)
      /\ \A n \in 1..(Len(q) - 1) : Q[n] = q[n + 1]
      /\ Head(q) = q[1]
  BY HeadTailProperties, LenProperties
<1> QED
  BY <1>1 DEF Hits, Hit

(* One message about an order at most. *)
Lone(S) == \A m, n \in S : m = n

LEMMA LoneAppend ==
  ASSUME NEW S, NEW q \in Seq(S), NEW e \in S, NEW Q, Q = Append(q, e), NEW k, NEW kinds,
         Lone(Hits(q, k, kinds)), Hit(e, k, kinds) => Hits(q, k, kinds) = {}
  PROVE  Lone(Hits(Q, k, kinds))
<1>1. \A n \in Hits(Q, k, kinds) :
        n \in Hits(q, k, kinds) \/ (n = Len(q) + 1 /\ Hit(e, k, kinds))
  BY HitsAppend
<1> QED
  BY <1>1 DEF Lone

LEMMA TailHits ==
  ASSUME NEW S, NEW q \in Seq(S), q # << >>, NEW k, NEW kinds
  PROVE  /\ Hits(q, k, kinds) = {} => Hits(Tail(q), k, kinds) = {} /\ ~Hit(Head(q), k, kinds)
         /\ Hits(Tail(q), k, kinds) = {} => Hits(q, k, kinds) = {} \/ Hit(Head(q), k, kinds)
<1> DEFINE Q == Tail(q)
<1> HIDE DEF Q
<1>1. /\ \A n \in Hits(Q, k, kinds) : n \in Nat \ {0} /\ n + 1 \in Hits(q, k, kinds)
      /\ \A n \in Hits(q, k, kinds) :
            \/ n = 1 /\ Hit(Head(q), k, kinds)
            \/ n \in Nat \ {0, 1} /\ n - 1 \in Hits(Q, k, kinds)
      /\ Hit(Head(q), k, kinds) => 1 \in Hits(q, k, kinds)
  BY HitsTail DEF Q
<1> QED
  BY <1>1 DEF Q

LEMMA NoHits ==
  ASSUME NEW S, NEW q \in Seq(S), NEW k, NEW kinds, \A e \in S : ~Hit(e, k, kinds)
  PROVE  Hits(q, k, kinds) = {}
BY LenProperties, ElementOfSeq DEF Hits, Hit

----------------------------------------------------------------------------
(* An order the venue has not taken in                                     *)

Saying(k, kinds) == gw.phase = "answered" /\ Hit(gw.event, k, kinds)
Deleting(k) == gw.phase = "delete" /\ gw.event.id = k

(* All that is said of it is that it should be placed, or that it was refused. *)
Unheard(k) ==
  /\ orders[k].status \in {"PENDING_NEW", "REJECTED"}
  /\ Hits(reqQ, k, {"amend", "cancel"}) = {}
  /\ ~Deleting(k) /\ ~Saying(k, AnswerKinds \ {"reject"})
  /\ Hits(ordQ, k, AnswerKinds \ {"reject"}) = {}
  /\ Hits(wsQ, k, {"fill", "cancelled"}) = {} /\ Hits(fillQ, k, {"fill"}) = {}

UnheardInv == \A k \in Ids \ OnBook : Unheard(k)

LEMMA Queues ==
  ASSUME Traffic
  PROVE  /\ reqQ \in Seq(Requests) /\ ordQ \in Seq(Answers)
         /\ wsQ \in Seq(Reports) /\ fillQ \in Seq(Executions)
BY DEF Traffic

(* Of an order nobody has heard of nothing is said. *)
LEMMA NothingSaid ==
  ASSUME Traffic, NEW k, k \notin Ids
  PROVE  /\ \A kinds : /\ Hits(reqQ, k, kinds) = {} /\ Hits(ordQ, k, kinds) = {}
                       /\ Hits(wsQ, k, kinds) = {} /\ Hits(fillQ, k, kinds) = {}
                       /\ ~Saying(k, kinds)
         /\ ~Deleting(k) /\ k \notin OnBook
<1>1. /\ \A e \in Requests : e.id # k
      /\ \A e \in Answers : e.id # k
      /\ \A e \in Reports : e.id # k
      /\ \A e \in Executions : e.id # k
  BY DEF Requests, Answers, Reports, Executions
<1>2. \A kinds : /\ Hits(reqQ, k, kinds) = {} /\ Hits(ordQ, k, kinds) = {}
                 /\ Hits(wsQ, k, kinds) = {} /\ Hits(fillQ, k, kinds) = {}
  BY <1>1, Queues, NoHits DEF Hit
<1> QED
  BY <1>1, <1>2 DEF Traffic, Saying, Deleting, Hit

(* A request joins the queue. *)
LEMMA ShippedHits ==
  ASSUME Traffic, Traffic', Ids \subseteq Ids', NEW req, req \in Requests', Shipped(req), NEW k, NEW kinds
  PROVE  /\ Hits(reqQ, k, kinds) # {} => Hits(reqQ', k, kinds) # {}
         /\ ~Hit(req, k, kinds) => Hits(reqQ', k, kinds) = Hits(reqQ, k, kinds)
         /\ Lone(Hits(reqQ, k, kinds)) /\ (Hit(req, k, kinds) => Hits(reqQ, k, kinds) = {})
              => Lone(Hits(reqQ', k, kinds))
<1>1. reqQ \in Seq(Requests')
  BY TrafficGrows, Queues, SeqGrows
<1>2. CASE reqQ' = Append(reqQ, req)
  <2>1. \A n \in Hits(reqQ', k, kinds) :
           n \in Hits(reqQ, k, kinds) \/ (n = Len(reqQ) + 1 /\ Hit(req, k, kinds))
    <3>1. PICK Q, S : Q = reqQ' /\ S = Requests'
      OBVIOUS
    <3>2. Q = Append(reqQ, req) /\ reqQ \in Seq(S) /\ req \in S
      BY <1>1, <1>2, <3>1
    <3>3. \A n \in Hits(Q, k, kinds) :
             n \in Hits(reqQ, k, kinds) \/ (n = Len(reqQ) + 1 /\ Hit(req, k, kinds))
      BY <3>2, HitsAppend
    <3> QED
      BY <3>1, <3>3
  <2>2. Hits(reqQ, k, kinds) \subseteq Hits(reqQ', k, kinds)
    BY <1>1, <1>2, LenProperties, AppendProperties DEF Hits
  <2>3. Lone(Hits(reqQ, k, kinds)) /\ (Hit(req, k, kinds) => Hits(reqQ, k, kinds) = {})
          => Lone(Hits(reqQ', k, kinds))
    BY <1>1, <1>2, LoneAppend
  <2> QED
    BY <2>1, <2>2, <2>3
<1> QED
  BY <1>2 DEF Shipped

(* What the gateway's serving a request always is. *)
LEMMA ServeMoves ==
  ASSUME Traffic, ServeNew \/ ServeCancel \/ ServeAmend, NEW r, r = Head(reqQ)
  PROVE  /\ r \in Requests /\ r.id \in Ids /\ reqQ # << >> /\ reqQ' = Tail(reqQ)
         /\ UNCHANGED <<orders, recon, ordQ, fillQ>>
         /\ r.kind = (IF ServeNew THEN "new" ELSE IF ServeCancel THEN "cancel" ELSE "amend")
         /\ OnBook \subseteq OnBook' /\ OnBook' \subseteq OnBook \union {r.id}
         /\ gw'.phase = "idle" \/ gw'.event.id = r.id
         /\ \/ wsQ' = wsQ
            \/ wsQ' = Append(wsQ, Note("cancelled", r.id)) /\ r.id \in OnBook
<1>1. GatewayTakes /\ UNCHANGED <<ordQ, fillQ>> /\ reqQ # << >>
  BY DEF ServeNew, ServeCancel, ServeAmend, Serving
<1>2. r \in Requests /\ r.id \in Ids
  BY <1>1, HeadRequest
<1>3. r.kind = (IF ServeNew THEN "new" ELSE IF ServeCancel THEN "cancel" ELSE "amend")
  BY DEF ServeNew, ServeCancel, ServeAmend, Serving
<1>4. BookSide(r)
  BY <1>2, ServeCancelSides, ServeAmendSides DEF ServeNew, Serving, BookSide
<1>5. OnBook \subseteq OnBook' /\ OnBook' \subseteq OnBook \union {r.id}
  BY <1>4, BookSideLive
<1>6. gw'.phase = "idle" \/ gw'.event.id = r.id
  BY DEF ServeNew, ServeCancel, ServeAmend, Answer, NoAnswer, IdleGateway, Note, Event
<1>7. \/ wsQ' = wsQ
      \/ wsQ' = Append(wsQ, Note("cancelled", r.id)) /\ r.id \in OnBook
  BY <1>4 DEF BookSide, BookUnchanged, Pull, Change, Accept
<1> QED
  BY <1>1, <1>2, <1>3, <1>5, <1>6, <1>7 DEF GatewayTakes

LEMMA UnheardOwn ==
  ASSUME TypeOK, Traffic, Traffic', UnheardInv, OmsActs
  PROVE  UnheardInv'
<1>1. UNCHANGED <<gw, book, wsQ, ordQ, fillQ>> /\ OnBook' = OnBook
  BY OmsMoves DEF OnBook
<1>2. ASSUME NEW k \in Ids' \ OnBook
      PROVE  Unheard(k)'
  <2>1. CASE UNCHANGED <<orders, reqQ>>
    BY <1>1, <1>2, <2>1 DEF UnheardInv, Unheard, Saying, Deleting, Ids
  <2>2. ASSUME NEW n, Places(n)
        PROVE  Unheard(k)'
    <3> DEFINE req == Ask("new", n, Target.price, Target.qty)
    <3>1. Shipped(req) /\ n \in Ids' /\ Ids \subseteq Ids' /\ n \notin Ids
      BY <2>2 DEF Places, Shipped
    <3>2. req \in Requests'
      BY <2>2, <3>1, SizeAssumption DEF Places, Ask, Requests, Request, Leg
    <3>3. Hits(reqQ', k, {"amend", "cancel"}) = Hits(reqQ, k, {"amend", "cancel"})
      BY <3>1, <3>2, ShippedHits DEF Hit, Ask
    <3>4. CASE k = n
      <4>1. orders'[n].status \in {"PENDING_NEW", "REJECTED"}
        BY <2>2 DEF Places, NewOrder
      <4> QED
        BY <1>1, <3>1, <3>3, <3>4, <4>1, NothingSaid DEF Unheard, Saying, Deleting
    <3>5. CASE k # n
      <4>1. k \in Ids /\ orders'[k] = orders[k]
        BY <1>2, <2>2, <3>5 DEF Places
      <4> QED
        BY <1>1, <1>2, <3>3, <4>1 DEF UnheardInv, Unheard, Saying, Deleting
    <3> QED
      BY <3>4, <3>5
  <2>3. ASSUME NEW j, Amends(j) \/ Cancels(j)
        PROVE  Unheard(k)'
    <3>1. j \in Ids /\ Ids' = Ids /\ k \in Ids /\ Unheard(k)
      BY <1>2, <2>3 DEF Amends, Cancels, SameBut, UnheardInv
    <3>2. k # j
      BY <2>3, <3>1 DEF Amends, Cancels, Unheard, Resting
    <3>3. orders'[k] = orders[k]
      BY <2>3, <3>1, <3>2 DEF Amends, Cancels, SameBut
    <3>4. PICK req \in Requests' : Shipped(req) /\ req.id = j
      <4>1. j \in Nat /\ Target \in Leg => Ask("amend", j, Target.price, Target.qty) \in Requests'
        BY <3>1, SizeAssumption DEF Ask, Requests, Request, Leg
      <4>2. j \in Nat => Ask("cancel", j, 0, 0) \in Requests'
        BY <3>1 DEF Ask, Requests, Request
      <4> QED
        BY <2>3, <4>1, <4>2 DEF Amends, Cancels, Ask, Shipped
    <3>5. Hits(reqQ', k, {"amend", "cancel"}) = Hits(reqQ, k, {"amend", "cancel"})
      BY <3>1, <3>2, <3>4, ShippedHits DEF Hit
    <3> QED
      BY <1>1, <3>1, <3>3, <3>5 DEF Unheard, Saying, Deleting
  <2> QED
    BY <2>1, <2>2, <2>3, OmsMoves
<1> QED
  BY <1>1, <1>2 DEF UnheardInv

LEMMA RefusedStays ==
  ASSUME NEW o \in Order, o.status \in {"PENDING_NEW", "REJECTED"}
  PROVE  Transition(o, "REJECTED").status \in {"PENDING_NEW", "REJECTED"}
BY DEF Transition, Moved, Order

LEMMA UnheardAnswer ==
  ASSUME TypeOK, Traffic, UnheardInv, OrderEvent
  PROVE  UnheardInv'
<1>1. PICK e : e = Head(ordQ)
  OBVIOUS
<1>2. /\ e \in Answers /\ e.id \in Ids /\ SameBut(e.id)
      /\ orders'[e.id] = Answered(orders[e.id], e)
      /\ ordQ # << >> /\ ordQ' = Tail(ordQ) /\ ordQ' \in Seq(Answers)
      /\ UNCHANGED <<reqQ, recon, gw, book, wsQ, fillQ>>
  BY <1>1, AnswerMoves
<1>3. ASSUME NEW k \in Ids \ OnBook
      PROVE  Unheard(k)'
  <2>1. Unheard(k) /\ orders[k] \in Order
    BY OrderTyped DEF UnheardInv, TypeOK
  <2>2. /\ Hits(ordQ', k, AnswerKinds \ {"reject"}) = {}
        /\ ~Hit(e, k, AnswerKinds \ {"reject"})
    <3>1. ordQ \in Seq(Answers) /\ Hits(ordQ, k, AnswerKinds \ {"reject"}) = {}
      BY <2>1, Queues DEF Unheard
    <3>2. Hits(Tail(ordQ), k, AnswerKinds \ {"reject"}) = {} /\ ~Hit(Head(ordQ), k, AnswerKinds \ {"reject"})
      BY <1>2, <3>1, TailHits
    <3> QED
      BY <1>1, <1>2, <3>2
  <2>3. orders'[k].status \in {"PENDING_NEW", "REJECTED"}
    <3>1. CASE k = e.id
      <4>1. e.kind = "reject"
        BY <1>2, <2>2, <3>1 DEF Hit, Answers
      <4>2. orders'[k] = Transition(orders[k], "REJECTED")
        BY <1>2, <3>1, <4>1 DEF Answered
      <4> QED
        BY <2>1, <4>2, RefusedStays DEF Unheard
    <3>2. CASE k # e.id
      BY <1>2, <2>1, <3>2 DEF SameBut, Unheard
    <3> QED
      BY <3>1, <3>2
  <2> QED
    BY <1>2, <2>1, <2>2, <2>3 DEF Unheard, Saying, Deleting
<1> QED
  BY <1>2, <1>3 DEF UnheardInv, SameBut, OnBook

LEMMA UnheardFill ==
  ASSUME TypeOK, Traffic, UnheardInv, Fill
  PROVE  UnheardInv'
<1>1. PICK e : e = Head(fillQ)
  OBVIOUS
<1>2. /\ e \in Executions /\ e.id \in Ids /\ SameBut(e.id)
      /\ fillQ # << >> /\ fillQ' = Tail(fillQ)
      /\ UNCHANGED <<reqQ, recon, gw, book, wsQ, ordQ>>
  BY <1>1, FillMoves
<1>3. ASSUME NEW k \in Ids \ OnBook
      PROVE  Unheard(k)'
  <2>1. Unheard(k)
    BY DEF UnheardInv
  <2>2. Hits(fillQ', k, {"fill"}) = {} /\ ~Hit(e, k, {"fill"})
    <3>1. fillQ \in Seq(Executions) /\ Hits(fillQ, k, {"fill"}) = {}
      BY <2>1, Queues DEF Unheard
    <3>2. Hits(Tail(fillQ), k, {"fill"}) = {} /\ ~Hit(Head(fillQ), k, {"fill"})
      BY <1>2, <3>1, TailHits
    <3> QED
      BY <1>1, <1>2, <3>2
  <2>3. k # e.id
    BY <1>2, <2>2 DEF Hit, Executions
  <2> QED
    BY <1>2, <2>1, <2>2, <2>3 DEF Unheard, Saying, Deleting, SameBut
<1> QED
  BY <1>2, <1>3 DEF UnheardInv, SameBut, OnBook

LEMMA UnheardSweep ==
  ASSUME TypeOK, UnheardInv, Swept
  PROVE  UnheardInv'
<1>1. PICK stale : Sweeps(stale)
  BY SweepMoves
<1>2. ASSUME NEW k \in Ids \ OnBook
      PROVE  Unheard(k)'
  <2>1. Unheard(k)
    BY DEF UnheardInv
  <2>2. k \notin stale
    BY <1>1, <2>1 DEF Sweeps, Unheard
  <2> QED
    BY <1>1, <2>1, <2>2 DEF Sweeps, Unheard, Saying, Deleting
<1> QED
  BY <1>1, <1>2 DEF UnheardInv, Sweeps, OnBook

(* The stream reports what is on the book. *)
LEMMA ReportedHits ==
  ASSUME Traffic, NEW j \in OnBook, NEW e \in Reports, e.id = j,
         wsQ' = wsQ \/ wsQ' = Append(wsQ, e), NEW k, k # j, NEW kinds
  PROVE  Hits(wsQ', k, kinds) = {} <=> Hits(wsQ, k, kinds) = {}
<1>1. CASE wsQ' = Append(wsQ, e)
  <2>1. wsQ \in Seq(Reports) /\ ~Hit(e, k, kinds)
    BY Queues DEF Hit
  <2> QED
    BY <1>1, <2>1, HitsAppend
<1> QED
  BY <1>1

LEMMA CancelReported ==
  ASSUME Traffic, NEW k \in Ids
  PROVE  /\ Note("cancelled", k) \in Reports /\ Note("cancelled", k) \in Answers
         /\ Note("cancelled", k).id = k /\ Note("cancelled", k).kind = "cancelled"
BY NoteAnswers DEF AnswerKinds, Note, Event

LEMMA UnheardServe ==
  ASSUME Traffic, UnheardInv, ServeNew \/ ServeCancel \/ ServeAmend
  PROVE  UnheardInv'
<1>1. PICK r : r = Head(reqQ)
  OBVIOUS
<1>2. /\ r \in Requests /\ r.id \in Ids /\ reqQ # << >> /\ reqQ' = Tail(reqQ)
      /\ UNCHANGED <<orders, recon, ordQ, fillQ>>
      /\ r.kind = (IF ServeNew THEN "new" ELSE IF ServeCancel THEN "cancel" ELSE "amend")
      /\ OnBook \subseteq OnBook' /\ OnBook' \subseteq OnBook \union {r.id}
      /\ gw'.phase = "idle" \/ gw'.event.id = r.id
      /\ \/ wsQ' = wsQ
         \/ wsQ' = Append(wsQ, Note("cancelled", r.id)) /\ r.id \in OnBook
  BY <1>1, ServeMoves
<1>3. ASSUME NEW k \in Ids \ OnBook'
      PROVE  Unheard(k)'
  <2>1. Unheard(k) /\ k \notin OnBook
    BY <1>2 DEF UnheardInv
  <2>2. /\ Hits(reqQ', k, {"amend", "cancel"}) = {}
        /\ ~Hit(r, k, {"amend", "cancel"})
    <3>1. reqQ \in Seq(Requests) /\ Hits(reqQ, k, {"amend", "cancel"}) = {}
      BY <2>1, Queues DEF Unheard
    <3>2. Hits(Tail(reqQ), k, {"amend", "cancel"}) = {} /\ ~Hit(Head(reqQ), k, {"amend", "cancel"})
      BY <1>2, <3>1, TailHits
    <3> QED
      BY <1>1, <1>2, <3>2
  <2>3. Hits(wsQ', k, {"fill", "cancelled"}) = {}
    BY <1>2, <2>1, CancelReported, ReportedHits DEF Unheard
  <2>4. gw'.phase = "idle" \/ gw'.event.id # k \/ gw' = [phase |-> "answered", event |-> Note("reject", k)]
    <3>1. CASE ServeNew
      <4>1. CASE r.id = k
        <5>1. ~Accept(r)
          BY <1>3, <4>1 DEF Accept, OnBook
        <5> QED
          BY <1>1, <3>1, <4>1, <5>1 DEF ServeNew, Answer
      <4> QED
        BY <1>2, <4>1
    <3>2. CASE ~ServeNew
      BY <1>2, <2>2, <3>2 DEF Hit
    <3> QED
      BY <3>1, <3>2
  <2>5. ~Deleting(k)' /\ ~Saying(k, AnswerKinds \ {"reject"})'
    BY <2>4 DEF Deleting, Saying, Hit, Note, Event
  <2> QED
    BY <1>2, <2>1, <2>2, <2>3, <2>5 DEF Unheard
<1> QED
  BY <1>2, <1>3 DEF UnheardInv, Ids

LEMMA DeleteMoves ==
  ASSUME Traffic, ServeDelete, NEW j, j = gw.event.id
  PROVE  /\ UNCHANGED <<orders, recon, reqQ, ordQ, fillQ>> /\ OnBook' = OnBook /\ j \in Ids
         /\ gw'.phase = "answered" /\ gw'.event.id = j
         /\ \/ wsQ' = wsQ
            \/ wsQ' = Append(wsQ, Note("cancelled", j)) /\ j \in OnBook
<1>1. UNCHANGED <<orders, recon, reqQ, ordQ, fillQ>> /\ j \in Ids
  BY DEF ServeDelete, omsVars, Traffic
<1>2. BookUnchanged \/ (j \in OnBook /\ Pull(j))
  BY DEF ServeDelete, Live
<1>3. OnBook' = OnBook
  BY <1>2, PullTakesOff, SameBook DEF BookUnchanged
<1>4. gw'.phase = "answered" /\ gw'.event.id = j
  BY DEF ServeDelete, Answer, Note, Event
<1> QED
  BY <1>1, <1>2, <1>3, <1>4 DEF Pull, BookUnchanged

LEMMA UnheardDelete ==
  ASSUME Traffic, UnheardInv, ServeDelete
  PROVE  UnheardInv'
<1>1. PICK j : j = gw.event.id
  OBVIOUS
<1>2. /\ UNCHANGED <<orders, recon, reqQ, ordQ, fillQ>> /\ OnBook' = OnBook /\ j \in Ids
      /\ gw'.phase = "answered" /\ gw'.event.id = j
      /\ \/ wsQ' = wsQ
         \/ wsQ' = Append(wsQ, Note("cancelled", j)) /\ j \in OnBook
  BY <1>1, DeleteMoves
<1>3. ASSUME NEW k \in Ids \ OnBook
      PROVE  Unheard(k)'
  <2>1. Unheard(k) /\ k # j
    BY <1>1 DEF UnheardInv, Unheard, Deleting, ServeDelete
  <2>2. Hits(wsQ', k, {"fill", "cancelled"}) = {}
    BY <1>2, <1>3, <2>1, CancelReported, ReportedHits DEF Unheard
  <2> QED
    BY <1>2, <2>1, <2>2 DEF Unheard, Saying, Deleting, Hit
<1> QED
  BY <1>2, <1>3 DEF UnheardInv, Ids

LEMMA ReplyMoves ==
  ASSUME Traffic, GatewayReplies
  PROVE  /\ UNCHANGED <<orders, recon, reqQ, book, wsQ, fillQ>>
         /\ gw.phase = "answered" /\ gw.event \in Answers /\ gw'.phase = "idle"
         /\ \/ ordQ' = Append(ordQ, gw.event)
            \/ UNCHANGED ordQ /\ "reply_dropped" \in Faults
BY DEF GatewayReplies, omsVars, NoAnswer, IdleGateway, Fault, Traffic

LEMMA UnheardReply ==
  ASSUME Traffic, UnheardInv, GatewayReplies
  PROVE  UnheardInv'
<1>1. /\ UNCHANGED <<orders, recon, reqQ, book, wsQ, fillQ>>
      /\ gw.phase = "answered" /\ gw.event \in Answers /\ gw'.phase = "idle"
      /\ ordQ' = Append(ordQ, gw.event) \/ UNCHANGED ordQ
  BY ReplyMoves
<1>2. ASSUME NEW k \in Ids \ OnBook
      PROVE  Unheard(k)'
  <2>1. Unheard(k)
    BY DEF UnheardInv
  <2>2. Hits(ordQ', k, AnswerKinds \ {"reject"}) = {}
    <3>1. ordQ \in Seq(Answers) /\ Hits(ordQ, k, AnswerKinds \ {"reject"}) = {}
          /\ ~Hit(gw.event, k, AnswerKinds \ {"reject"})
      BY <1>1, <2>1, Queues DEF Unheard, Saying
    <3> QED
      BY <1>1, <3>1, HitsAppend
  <2> QED
    BY <1>1, <2>1, <2>2 DEF Unheard, Saying, Deleting
<1> QED
  BY <1>1, <1>2 DEF UnheardInv, Ids, OnBook

(* The stream's handler passes on an execution or a cancellation. *)
LEMMA StreamMoves ==
  ASSUME Traffic, UserData, NEW e, e = Head(wsQ)
  PROVE  /\ UNCHANGED <<orders, recon, reqQ, gw, book>>
         /\ e \in Reports /\ wsQ # << >> /\ wsQ' = Tail(wsQ)
         /\ \/ /\ e.kind = "fill" /\ e \in Executions
               /\ fillQ' = Append(fillQ, e) /\ UNCHANGED ordQ
            \/ /\ e.kind = "cancelled" /\ e \in Answers
               /\ ordQ' = Append(ordQ, e) /\ UNCHANGED fillQ
<1>1. e \in Reports /\ wsQ # << >> /\ wsQ' = Tail(wsQ) /\ UNCHANGED <<orders, recon, reqQ, gw, book>>
  BY HeadTailProperties, Queues DEF UserData, omsVars
<1>2. \/ e.kind = "fill" /\ e \in Executions
      \/ e.kind = "cancelled" /\ e \in Answers
  BY <1>1 DEF Reports, Executions
<1> QED
  BY <1>1, <1>2 DEF UserData

LEMMA UnheardStream ==
  ASSUME Traffic, UnheardInv, UserData
  PROVE  UnheardInv'
<1>1. PICK e : e = Head(wsQ)
  OBVIOUS
<1>2. /\ UNCHANGED <<orders, recon, reqQ, gw, book>>
      /\ e \in Reports /\ wsQ # << >> /\ wsQ' = Tail(wsQ)
      /\ \/ /\ e.kind = "fill" /\ e \in Executions
            /\ fillQ' = Append(fillQ, e) /\ UNCHANGED ordQ
         \/ /\ e.kind = "cancelled" /\ e \in Answers
            /\ ordQ' = Append(ordQ, e) /\ UNCHANGED fillQ
  BY <1>1, StreamMoves
<1>3. ASSUME NEW k \in Ids \ OnBook
      PROVE  Unheard(k)'
  <2>1. Unheard(k)
    BY DEF UnheardInv
  <2>2. Hits(wsQ', k, {"fill", "cancelled"}) = {} /\ ~Hit(e, k, {"fill", "cancelled"})
    <3>1. wsQ \in Seq(Reports) /\ Hits(wsQ, k, {"fill", "cancelled"}) = {}
      BY <2>1, Queues DEF Unheard
    <3>2. Hits(Tail(wsQ), k, {"fill", "cancelled"}) = {} /\ ~Hit(Head(wsQ), k, {"fill", "cancelled"})
      BY <1>2, <3>1, TailHits
    <3> QED
      BY <1>1, <1>2, <3>2
  <2>3. e.id # k
    BY <1>2, <2>2 DEF Hit
  <2>4. Hits(ordQ', k, AnswerKinds \ {"reject"}) = {} /\ Hits(fillQ', k, {"fill"}) = {}
    <3>1. /\ ordQ \in Seq(Answers) /\ Hits(ordQ, k, AnswerKinds \ {"reject"}) = {}
          /\ fillQ \in Seq(Executions) /\ Hits(fillQ, k, {"fill"}) = {}
          /\ \A kinds : ~Hit(e, k, kinds)
      BY <2>1, <2>3, Queues DEF Unheard, Hit
    <3>2. CASE fillQ' = Append(fillQ, e) /\ UNCHANGED ordQ /\ e \in Executions
      BY <3>1, <3>2, HitsAppend
    <3>3. CASE ordQ' = Append(ordQ, e) /\ UNCHANGED fillQ /\ e \in Answers
      BY <3>1, <3>3, HitsAppend
    <3> QED
      BY <1>2, <3>2, <3>3
  <2> QED
    BY <1>2, <2>1, <2>2, <2>4 DEF Unheard, Saying, Deleting
<1> QED
  BY <1>2, <1>3 DEF UnheardInv, Ids, OnBook

LEMMA TradeMoves ==
  ASSUME Traffic, NEW j \in OnBook, VenueCancels(j) \/ \E q \in 1..MaxQty : VenueFills(j, q)
  PROVE  /\ UNCHANGED <<orders, recon, reqQ, gw, ordQ, fillQ>> /\ OnBook' = OnBook /\ j \in Ids
         /\ \E e \in Reports : wsQ' = Append(wsQ, e) /\ e.id = j
<1>1. UNCHANGED <<orders, recon, reqQ, gw, ordQ, fillQ>> /\ j \in Ids
  BY DEF VenueCancels, VenueFills, omsVars, Traffic
<1>2. OnBook' = OnBook
  BY PullTakesOff, FillsKeepLive DEF VenueCancels
<1>3. ASSUME NEW q \in 1..MaxQty
      PROVE  Event("fill", j, 0, q) \in Reports /\ Event("fill", j, 0, q).id = j
  BY <1>1 DEF Event, Reports, Executions
<1>4. \E e \in Reports : wsQ' = Append(wsQ, e) /\ e.id = j
  BY <1>1, <1>3, CancelReported DEF VenueCancels, VenueFills, Pull
<1> QED
  BY <1>1, <1>2, <1>4

LEMMA UnheardTrade ==
  ASSUME Traffic, UnheardInv, NEW j \in OnBook,
         VenueCancels(j) \/ \E q \in 1..MaxQty : VenueFills(j, q)
  PROVE  UnheardInv'
<1>1. PICK e \in Reports : wsQ' = Append(wsQ, e) /\ e.id = j
  BY TradeMoves
<1>2. UNCHANGED <<orders, recon, reqQ, gw, ordQ, fillQ>> /\ OnBook' = OnBook
  BY TradeMoves
<1>3. ASSUME NEW k \in Ids \ OnBook
      PROVE  Unheard(k)'
  <2>1. Unheard(k) /\ k # j
    BY DEF UnheardInv
  <2>2. Hits(wsQ', k, {"fill", "cancelled"}) = {}
    BY <1>1, <2>1, ReportedHits DEF Unheard
  <2> QED
    BY <1>2, <2>1, <2>2 DEF Unheard, Saying, Deleting
<1> QED
  BY <1>2, <1>3 DEF UnheardInv, Ids

LEMMA UnheardStep ==
  ASSUME TypeOK, Traffic, UnheardInv, [Next]_vars
  PROVE  UnheardInv'
<1>1. CASE OmsActs
  BY <1>1, ClosedStep, UnheardOwn
<1>2. CASE UNCHANGED vars
  BY <1>2 DEF vars, omsVars, venueVars, UnheardInv, Unheard, Saying, Deleting, Ids, OnBook
<1> QED
  BY <1>1, <1>2, StepCases, UnheardAnswer, UnheardFill, UnheardSweep, UnheardServe,
     UnheardDelete, UnheardReply, UnheardStream, UnheardTrade

----------------------------------------------------------------------------
(* The terms a strategy quotes at                                          *)

(* T[d] holds the prices and sizes of side d that a ladder, or risk's cut of
   one, may ask for. *)
Terms(x) == <<x.price, x.qty>>
TermSets == [Sides -> SUBSET ((1..MaxPrice) \X (1..MaxQty))]
Allowed(T) ==
  \A legs \in Ladders : \A j \in DOMAIN legs : \A q \in 1..MaxQty :
     q = legs[j].qty \/ (RiskClamps /\ q < legs[j].qty)
       => <<legs[j].price, q>> \in T[legs[j].side]

LegsFit(T) ==
  recon.on => \A j \in DOMAIN recon.legs : Terms(recon.legs[j]) \in T[recon.legs[j].side]
OrdersFit(T) == \A k \in Ids : Terms(orders[k]) \in T[orders[k].side]
FittingRequests(T) ==
  {r \in Requests : r.kind # "cancel" => Terms(r) \in T[orders[r.id].side]}
FittingAnswers(T) ==
  {e \in Answers : e.kind = "amended" => Terms(e) \in T[orders[e.id].side]}
BookFits(T) == \A k \in OnBook : Terms(book[k]) \in T[orders[k].side]

(* No order, request, confirmation or record has other terms than those. *)
Shaped(T) ==
  /\ LegsFit(T) /\ OrdersFit(T) /\ BookFits(T)
  /\ reqQ \in Seq(FittingRequests(T)) /\ ordQ \in Seq(FittingAnswers(T))
  /\ gw.phase = "answered" => gw.event \in FittingAnswers(T)

(* Whose an order is, where and on which side, is settled when it is placed. *)
OwnersStay ==
  /\ Ids \subseteq Ids'
  /\ \A k \in Ids : /\ orders'[k].strat = orders[k].strat
                    /\ orders'[k].inst = orders[k].inst
                    /\ orders'[k].side = orders[k].side

LEMMA OwnersKept ==
  ASSUME TypeOK, [OMSNext]_omsVars
  PROVE  OwnersStay
<1>1. CASE Tame
  BY <1>1, TameStep DEF TypeOK, OwnersStay
<1>2. CASE MatchLeg /\ PlaceQuote
  <2>1. PICK n : Places(n)
    BY <1>2, PlaceMoves
  <2> QED
    BY <2>1 DEF Places, OwnersStay
<1> QED
  BY <1>1, <1>2, TameOrPlaces

LEMMA FittingGrows ==
  ASSUME OwnersStay, NEW T
  PROVE  /\ FittingRequests(T) \subseteq FittingRequests(T)'
         /\ FittingAnswers(T) \subseteq FittingAnswers(T)'
<1>1. Requests \subseteq Requests' /\ Answers \subseteq Answers'
  BY TrafficGrows DEF OwnersStay
<1> QED
  BY <1>1 DEF FittingRequests, FittingAnswers, OwnersStay, Requests, Answers

LEMMA LegsStep ==
  ASSUME TypeOK, NEW T \in TermSets, Allowed(T), LegsFit(T), OmsActs
  PROVE  LegsFit(T)'
<1>1. CASE UNCHANGED recon
  BY <1>1 DEF LegsFit
<1>2. CASE MatchLeg
  <2>1. recon.on /\ recon'.legs = recon.legs
    BY <1>2 DEF MatchLeg, KeepQuote, HoldLeg, PlaceQuote, AmendQuote, LegDone, TypeOK,
                Reconciliation
  <2> QED
    BY <2>1 DEF LegsFit
<1>3. CASE CancelUnmatched
  BY <1>3 DEF CancelUnmatched, NoRecon, LegsFit
<1>4. ASSUME NEW x \in cache, NEW keep \in SUBSET DOMAIN x.legs,
             NEW size \in [keep -> 1..MaxQty],
             \A j \in keep : size[j] = x.legs[j].qty \/ (RiskClamps /\ size[j] < x.legs[j].qty),
             OnRiskApproved(x, keep, size)
      PROVE  LegsFit(T)'
  <2>1. x.legs \in Ladders /\ x.legs \in Seq(Leg)
    BY LadderAssumption DEF TypeOK, Signal
  <2>2. recon'.legs = [j \in keep |-> [x.legs[j] EXCEPT !.qty = size[j]]]
    BY <1>4 DEF OnRiskApproved
  <2>3. ASSUME NEW j \in keep
        PROVE  Terms(recon'.legs[j]) \in T[recon'.legs[j].side]
    <3>1. x.legs[j] \in Leg /\ size[j] \in 1..MaxQty
      BY <2>1, ElementOfSeq
    <3>2. recon'.legs[j] = [x.legs[j] EXCEPT !.qty = size[j]]
      BY <2>2
    <3>3. /\ recon'.legs[j].price = x.legs[j].price /\ recon'.legs[j].qty = size[j]
          /\ recon'.legs[j].side = x.legs[j].side
      BY <3>1, <3>2 DEF Leg
    <3>4. <<x.legs[j].price, size[j]>> \in T[x.legs[j].side]
      BY <1>4, <2>1, <3>1 DEF Allowed
    <3> QED
      BY <3>3, <3>4 DEF Terms
  <2> QED
    BY <2>2, <2>3 DEF LegsFit
<1> QED
  BY <1>1, <1>2, <1>3, <1>4
     DEF OmsActs, OMSSteps, Verdicts, KillAlert, OnSignal, Verdict, OnRiskBlocked,
         EngageKillSwitch, OnKillAlert, PauseStrategy, Engine, CancelOrder

LEMMA AllowedLeg ==
  ASSUME TypeOK, NEW T \in TermSets, LegsFit(T), recon.on, recon.todo # {}
  PROVE  Terms(Target) \in T[Target.side]
BY LegInHand DEF LegsFit, Target

(* An answer gives an order its own terms or those it confirms. *)
LEMMA AnsweredTerms ==
  ASSUME NEW o \in Order, NEW e \in Answers
  PROVE  /\ Terms(Answered(o, e)) = Terms(o) \/ (e.kind = "amended" /\ Terms(Answered(o, e)) = Terms(e))
         /\ Answered(o, e).side = o.side
<1>1. ASSUME NEW s
      PROVE  Terms(Transition(o, s)) = Terms(o) /\ Transition(o, s).side = o.side
  BY DEF Terms, Transition, Moved, Order
<1>2. Terms(RolledBack(o)) = Terms(o) /\ RolledBack(o).side = o.side
  BY DEF RolledBack, Terms, Transition, Moved, Order
<1>3. /\ Terms(Amended(o, e.price, e.qty)) \in {Terms(o), Terms(e)}
      /\ Amended(o, e.price, e.qty).side = o.side
  BY DEF Amended, Terms, Moved, Order
<1> QED
  BY <1>1, <1>2, <1>3 DEF Answered, Answers, AnswerKinds

LEMMA FilledTerms ==
  ASSUME NEW o \in Order, NEW q \in Nat
  PROVE  Terms(Filled(o, q)) = Terms(o) /\ Filled(o, q).side = o.side
BY DEF Filled, ApplyFill, RecordFill, Terms, Transition, Moved, Order

LEMMA RolledBackTerms ==
  ASSUME NEW o \in Order
  PROVE  Terms(RolledBack(o)) = Terms(o) /\ RolledBack(o).side = o.side
BY DEF RolledBack, Terms, Transition, Moved, Order

LEMMA NoteFits ==
  ASSUME NEW T, NEW k \in Ids, NEW kind \in AnswerKinds \ {"amended"}
  PROVE  Note(kind, k) \in FittingAnswers(T)
BY NoteAnswers DEF FittingAnswers, Note, Event

(* The orders and what is on its way when the venue's side stays put. *)
LEMMA ShapedQueues ==
  ASSUME OwnersStay, NEW T, Shaped(T), Traffic, UNCHANGED <<gw, book>>,
         ordQ' = ordQ \/ (ordQ # << >> /\ ordQ' = Tail(ordQ))
  PROVE  /\ BookFits(T)' /\ ordQ' \in Seq(FittingAnswers(T)')
         /\ gw'.phase = "answered" => gw'.event \in FittingAnswers(T)'
<1>1. FittingAnswers(T) \subseteq FittingAnswers(T)'
  BY FittingGrows
<1>2. ordQ' \in Seq(FittingAnswers(T))
  BY HeadTailProperties DEF Shaped
<1>3. BookFits(T)'
  BY DEF Shaped, BookFits, OnBook, OwnersStay, Traffic
<1> QED
  BY <1>1, <1>2, <1>3, SeqGrows DEF Shaped

LEMMA ShapedOwn ==
  ASSUME TypeOK, Traffic, Traffic', OwnersStay, NEW T \in TermSets, Allowed(T), Shaped(T), OmsActs
  PROVE  Shaped(T)'
<1>1. UNCHANGED <<gw, book, wsQ, ordQ, fillQ>>
  BY OmsMoves
<1>2. LegsFit(T)' /\ BookFits(T)' /\ ordQ' \in Seq(FittingAnswers(T)')
      /\ (gw'.phase = "answered" => gw'.event \in FittingAnswers(T)')
  BY <1>1, LegsStep, ShapedQueues DEF Shaped
<1>3. reqQ \in Seq(FittingRequests(T)') /\ \A k \in Ids : Terms(orders[k]) \in T[orders[k].side]
  BY FittingGrows, SeqGrows DEF Shaped, OrdersFit
<1>4. ASSUME NEW req \in FittingRequests(T)', Shipped(req)
      PROVE  reqQ' \in Seq(FittingRequests(T)')
  BY <1>3, <1>4, AppendProperties DEF Shipped
<1>5. CASE UNCHANGED <<orders, reqQ>>
  BY <1>2, <1>3, <1>5 DEF Shaped, OrdersFit, Ids
<1>6. ASSUME NEW n, Places(n)
      PROVE  Shaped(T)'
  <2> DEFINE req == Ask("new", n, Target.price, Target.qty)
  <2>1. /\ Terms(Target) \in T[Target.side] /\ Ids' = Ids \union {n} /\ Shipped(req)
        /\ orders'[n].price = Target.price /\ orders'[n].qty = Target.qty
        /\ orders'[n].side = Target.side
    BY <1>6, AllowedLeg DEF Places, Shaped, NewOrder, Shipped
  <2>2. OrdersFit(T)'
    BY <1>3, <1>6, <2>1 DEF OrdersFit, Places, Terms
  <2>3. req \in FittingRequests(T)'
    BY <1>6, <2>1, SizeAssumption
       DEF FittingRequests, Requests, Request, Ask, Terms, Places, Leg
  <2> QED
    BY <1>2, <1>4, <2>1, <2>2, <2>3 DEF Shaped
<1>7. ASSUME NEW k, Amends(k)
      PROVE  Shaped(T)'
  <2> DEFINE req == Ask("amend", k, Target.price, Target.qty)
  <2>1. OrdersFit(T)'
    BY <1>3, <1>7 DEF OrdersFit, Amends, SameBut, SameTerms, Terms
  <2>2. /\ Terms(Target) \in T[Target.side] /\ Target \in Leg
        /\ k \in Ids' /\ k \in Nat /\ orders'[k].side = Target.side
    BY <1>7, AllowedLeg DEF Amends, SameTerms, SameBut, Shaped
  <2>3. req \in FittingRequests(T)'
    BY <2>2, SizeAssumption DEF FittingRequests, Requests, Request, Ask, Terms, Leg
  <2> QED
    BY <1>2, <1>4, <1>7, <2>1, <2>3 DEF Shaped, Amends
<1>8. ASSUME NEW k, Cancels(k)
      PROVE  Shaped(T)'
  <2> DEFINE req == Ask("cancel", k, 0, 0)
  <2>1. OrdersFit(T)'
    BY <1>3, <1>8 DEF OrdersFit, Cancels, SameBut, SameTerms, Terms
  <2>2. req \in FittingRequests(T)' /\ Shipped(req)
    BY <1>8 DEF FittingRequests, Requests, Request, Ask, Cancels, SameBut, Shipped
  <2> QED
    BY <1>2, <1>4, <2>1, <2>2 DEF Shaped
<1> QED
  BY <1>5, <1>6, <1>7, <1>8, OmsMoves

LEMMA ShapedUpdates ==
  ASSUME TypeOK, Traffic, OwnersStay, NEW T, Shaped(T), OrderEvent \/ Fill \/ Swept
  PROVE  Shaped(T)'
<1>1. UNCHANGED <<reqQ, recon, gw, book>> /\ (ordQ' = ordQ \/ (ordQ # << >> /\ ordQ' = Tail(ordQ)))
      /\ Ids' = Ids
  <2>1. CASE OrderEvent
    BY <2>1, AnswerMoves DEF SameBut
  <2>2. CASE Fill
    BY <2>2, FillMoves DEF SameBut
  <2>3. CASE Swept
    BY <2>3, SweepMoves DEF Sweeps
  <2> QED
    BY <2>1, <2>2, <2>3
<1>2. /\ LegsFit(T)' /\ BookFits(T)' /\ ordQ' \in Seq(FittingAnswers(T)')
      /\ (gw'.phase = "answered" => gw'.event \in FittingAnswers(T)')
      /\ reqQ' \in Seq(FittingRequests(T)')
  <2>1. reqQ \in Seq(FittingRequests(T)')
    BY FittingGrows, SeqGrows DEF Shaped
  <2> QED
    BY <1>1, <2>1, ShapedQueues DEF Shaped, LegsFit
<1>3. ASSUME NEW k \in Ids
      PROVE  Terms(orders'[k]) \in T[orders'[k].side]
  <2>1. orders[k] \in Order /\ Terms(orders[k]) \in T[orders[k].side]
    BY OrderTyped DEF TypeOK, Shaped, OrdersFit
  <2>2. CASE OrderEvent
    <3>1. PICK e : e = Head(ordQ)
      OBVIOUS
    <3>2. /\ e \in Answers /\ SameBut(e.id) /\ ordQ # << >>
          /\ orders'[e.id] = Answered(orders[e.id], e)
      BY <2>2, <3>1, AnswerMoves
    <3>3. e \in FittingAnswers(T)
      BY <3>1, <3>2, HeadTailProperties DEF Shaped
    <3>4. CASE k = e.id
      BY <2>1, <3>2, <3>3, <3>4, AnsweredTerms DEF FittingAnswers
    <3>5. CASE k # e.id
      BY <2>1, <3>2, <3>5 DEF SameBut
    <3> QED
      BY <3>4, <3>5
  <2>3. CASE Fill
    <3>1. PICK e : e = Head(fillQ)
      OBVIOUS
    <3>2. e.qty \in Nat /\ SameBut(e.id) /\ orders'[e.id] = Filled(orders[e.id], e.qty)
      BY <2>3, <3>1, FillMoves
    <3>3. CASE k = e.id
      BY <2>1, <3>2, <3>3, FilledTerms
    <3>4. CASE k # e.id
      BY <2>1, <3>2, <3>4 DEF SameBut
    <3> QED
      BY <3>3, <3>4
  <2>4. CASE Swept
    <3>1. PICK stale : Sweeps(stale)
      BY <2>4, SweepMoves
    <3> QED
      BY <2>1, <3>1, RolledBackTerms DEF Sweeps
  <2> QED
    BY <2>2, <2>3, <2>4
<1> QED
  BY <1>1, <1>2, <1>3 DEF Shaped, OrdersFit

(* The gateway's side: the orders stay as they are. *)
LEMMA ShapedElsewhere ==
  ASSUME UNCHANGED orders, NEW T, Shaped(T)
  PROVE  /\ FittingRequests(T)' = FittingRequests(T) /\ FittingAnswers(T)' = FittingAnswers(T)
         /\ OrdersFit(T)' /\ (UNCHANGED recon => LegsFit(T)')
         /\ (UNCHANGED book => BookFits(T)')
BY SameIds DEF FittingRequests, FittingAnswers, Shaped, OrdersFit, LegsFit, BookFits, OnBook, Ids

(* What becomes of one record of the book. *)
OneRecord(k) == OnBook' = OnBook /\ \A j \in OnBook \ {k} : book'[j] = book[j]

LEMMA PullRecords ==
  ASSUME Traffic, NEW k \in OnBook, Pull(k)
  PROVE  /\ OneRecord(k) /\ ~book'[k].live
         /\ Terms(book'[k]) = Terms(book[k]) /\ book'[k].cum = book[k].cum
<1>1. book[k] \in Record /\ book' = [book EXCEPT ![k] = [book[k] EXCEPT !.live = FALSE]]
  BY DEF Pull, Traffic
<1>2. OneRecord(k) /\ book'[k] = [book[k] EXCEPT !.live = FALSE]
  BY <1>1 DEF OneRecord, OnBook, Traffic
<1> QED
  BY <1>1, <1>2 DEF Record, Terms

LEMMA ChangeRecords ==
  ASSUME Traffic, NEW r, r.id \in OnBook, Change(r)
  PROVE  /\ OneRecord(r.id) /\ Terms(book'[r.id]) = Terms(r)
         /\ book'[r.id].cum = book[r.id].cum /\ book'[r.id].live = book[r.id].live
<1> DEFINE changed == [book[r.id] EXCEPT !.price = r.price, !.qty = r.qty]
<1>1. book[r.id] \in Record /\ book' = [book EXCEPT ![r.id] = changed]
  BY DEF Change, Traffic
<1>2. OneRecord(r.id) /\ book'[r.id] = changed
  BY <1>1 DEF OneRecord, OnBook, Traffic
<1>3. /\ changed.price = r.price /\ changed.qty = r.qty
      /\ changed.cum = book[r.id].cum /\ changed.live = book[r.id].live
  BY <1>1 DEF Record
<1> QED
  BY <1>2, <1>3 DEF Terms

LEMMA TradeRecords ==
  ASSUME Traffic, NEW k \in OnBook, NEW q \in 1..MaxQty, VenueFills(k, q)
  PROVE  /\ OneRecord(k) /\ Terms(book'[k]) = Terms(book[k])
         /\ book[k].cum \in Nat /\ book'[k].cum = book[k].cum + q
         /\ book'[k].live <=> book[k].cum + q < book[k].qty
<1> DEFINE filled == [book[k] EXCEPT !.cum = book[k].cum + q,
                                     !.live = (book[k].cum + q < book[k].qty)]
<1>1. book[k] \in Record /\ book' = [book EXCEPT ![k] = filled]
  BY DEF VenueFills, Traffic
<1>2. OneRecord(k) /\ book'[k] = filled
  BY <1>1 DEF OneRecord, OnBook, Traffic
<1>3. /\ filled.price = book[k].price /\ filled.qty = book[k].qty
      /\ filled.cum = book[k].cum + q /\ filled.live = (book[k].cum + q < book[k].qty)
      /\ book[k].cum \in Nat
  BY <1>1 DEF Record
<1> QED
  BY <1>2, <1>3 DEF Terms

LEMMA AcceptRecords ==
  ASSUME NEW r, Accept(r)
  PROVE  /\ OnBook' = OnBook \union {r.id} /\ \A j \in OnBook \ {r.id} : book'[j] = book[j]
         /\ book'[r.id].live /\ Terms(book'[r.id]) = Terms(r) /\ book'[r.id].cum = 0
BY DEF Accept, OnBook, Terms

(* An order leaves the book, or trades, on the terms it has. *)
LEMMA BookKeepsTerms ==
  ASSUME Traffic, NEW T, BookFits(T), UNCHANGED orders, NEW k \in OnBook,
         Pull(k) \/ \E q \in 1..MaxQty : VenueFills(k, q)
  PROVE  BookFits(T)'
<1>1. OneRecord(k) /\ Terms(book'[k]) = Terms(book[k])
  BY PullRecords, TradeRecords
<1> QED
  BY <1>1 DEF BookFits, OneRecord

LEMMA ShapedServe ==
  ASSUME Traffic, NEW T, Shaped(T), ServeNew \/ ServeCancel \/ ServeAmend
  PROVE  Shaped(T)'
<1>1. PICK r : r = Head(reqQ)
  OBVIOUS
<1>2. /\ r \in Requests /\ r.id \in Ids /\ reqQ # << >> /\ reqQ' = Tail(reqQ)
      /\ UNCHANGED <<orders, recon, ordQ, fillQ>>
      /\ r.kind = (IF ServeNew THEN "new" ELSE IF ServeCancel THEN "cancel" ELSE "amend")
  BY <1>1, ServeMoves
<1>3. r \in FittingRequests(T) /\ reqQ' \in Seq(FittingRequests(T))
  BY <1>1, <1>2, HeadTailProperties DEF Shaped
<1>4. /\ FittingRequests(T)' = FittingRequests(T) /\ FittingAnswers(T)' = FittingAnswers(T)
      /\ OrdersFit(T)' /\ LegsFit(T)' /\ (UNCHANGED book => BookFits(T)')
  BY <1>2, ShapedElsewhere
<1>5. BookFits(T)'
  <2>1. \/ BookUnchanged
        \/ r.id \in OnBook /\ (Pull(r.id) \/ (r.kind = "amend" /\ Change(r)))
        \/ r.kind = "new" /\ Accept(r)
    BY <1>1, <1>2 DEF ServeNew, ServeCancel, ServeAmend, Serving, Live
  <2>2. CASE r.id \in OnBook /\ r.kind = "amend" /\ Change(r)
    <3>1. OneRecord(r.id) /\ Terms(book'[r.id]) = Terms(r) /\ r.id \in OnBook
      BY <2>2, ChangeRecords
    <3>2. Terms(book'[r.id]) \in T[orders[r.id].side]
      BY <2>2, <3>1, <1>3 DEF FittingRequests
    <3>3. \A j \in OnBook \ {r.id} : Terms(book'[j]) = Terms(book[j])
      BY <3>1 DEF OneRecord, Terms
    <3>4. \A j \in OnBook : Terms(book'[j]) \in T[orders[j].side]
      BY <3>2, <3>3 DEF Shaped, BookFits
    <3> QED
      BY <1>2, <3>1, <3>4 DEF BookFits, OneRecord, Terms
  <2>3. CASE r.kind = "new" /\ Accept(r)
    <3>1. /\ OnBook' = OnBook \union {r.id} /\ \A j \in OnBook \ {r.id} : book'[j] = book[j]
          /\ Terms(book'[r.id]) = Terms(r)
      BY <2>3, AcceptRecords
    <3>2. Terms(book'[r.id]) \in T[orders[r.id].side]
      BY <2>3, <3>1, <1>3 DEF FittingRequests
    <3>3. \A j \in OnBook \ {r.id} : Terms(book'[j]) = Terms(book[j])
      BY <3>1 DEF Terms
    <3>4. \A j \in OnBook \union {r.id} : Terms(book'[j]) \in T[orders[j].side]
      BY <3>2, <3>3 DEF Shaped, BookFits
    <3> QED
      BY <1>2, <3>1, <3>4 DEF BookFits, Terms
  <2>4. CASE r.id \in OnBook /\ Pull(r.id)
    BY <1>2, <2>4, BookKeepsTerms DEF Shaped
  <2> QED
    BY <1>4, <2>1, <2>2, <2>3, <2>4 DEF BookUnchanged
<1>6. gw'.phase = "answered" => gw'.event \in FittingAnswers(T)
  <2>1. \/ gw'.phase # "answered"
        \/ \E kind \in AnswerKinds \ {"amended"} : Answer(Note(kind, r.id))
        \/ r.kind = "amend" /\ Answer(Event("amended", r.id, r.price, r.qty))
    BY <1>1, <1>2 DEF ServeNew, ServeCancel, ServeAmend, Serving, NoAnswer, IdleGateway, AnswerKinds
  <2>2. CASE \E kind \in AnswerKinds \ {"amended"} : Answer(Note(kind, r.id))
    BY <1>2, <2>2, NoteFits DEF Answer
  <2>3. CASE r.kind = "amend" /\ Answer(Event("amended", r.id, r.price, r.qty))
    <3>1. Event("amended", r.id, r.price, r.qty) \in FittingAnswers(T)
      BY <1>2, <1>3, <2>3 DEF Event, FittingAnswers, FittingRequests, Answers, AnswerKinds,
                              Requests, Request, Terms
    <3> QED
      BY <2>3, <3>1 DEF Answer
  <2> QED
    BY <2>1, <2>2, <2>3
<1> QED
  BY <1>2, <1>3, <1>4, <1>5, <1>6 DEF Shaped

LEMMA ShapedVenue ==
  ASSUME Traffic, NEW T, Shaped(T),
         \/ ServeDelete \/ GatewayReplies \/ UserData
         \/ \E k \in OnBook : VenueCancels(k) \/ \E q \in 1..MaxQty : VenueFills(k, q)
  PROVE  Shaped(T)'
<1>1. UNCHANGED <<orders, recon, reqQ>>
  BY DEF ServeDelete, GatewayReplies, UserData, VenueCancels, VenueFills, omsVars
<1>2. /\ FittingRequests(T)' = FittingRequests(T) /\ FittingAnswers(T)' = FittingAnswers(T)
      /\ OrdersFit(T)' /\ LegsFit(T)' /\ (UNCHANGED book => BookFits(T)')
  BY <1>1, ShapedElsewhere
<1>3. BookFits(T)'
  <2>1. UNCHANGED book \/ \E k \in OnBook : Pull(k) \/ \E q \in 1..MaxQty : VenueFills(k, q)
    BY DEF ServeDelete, GatewayReplies, UserData, VenueCancels, BookUnchanged, Live
  <2> QED
    BY <1>1, <1>2, <2>1, BookKeepsTerms DEF Shaped
<1>4. gw'.phase = "answered" => gw'.event \in FittingAnswers(T)
  <2>1. CASE ServeDelete
    <3>1. gw.event.id \in Ids
      BY <2>1 DEF ServeDelete, Traffic
    <3> QED
      BY <2>1, <3>1, NoteFits DEF ServeDelete, Answer, AnswerKinds
  <2>2. CASE ~ServeDelete
    <3>1. UNCHANGED gw \/ NoAnswer
      BY <2>2 DEF GatewayReplies, UserData, VenueCancels, VenueFills
    <3> QED
      BY <3>1 DEF NoAnswer, IdleGateway, Shaped
  <2> QED
    BY <2>1, <2>2
<1>5. ordQ' \in Seq(FittingAnswers(T))
  <2>1. CASE GatewayReplies
    <3>1. gw.event \in FittingAnswers(T) /\ ordQ \in Seq(FittingAnswers(T))
      BY <2>1 DEF GatewayReplies, Shaped
    <3> QED
      BY <2>1, <3>1, AppendProperties DEF GatewayReplies
  <2>2. CASE UserData
    <3>1. PICK e : e = Head(wsQ)
      OBVIOUS
    <3>2. \/ UNCHANGED ordQ
          \/ e.kind = "cancelled" /\ e \in Answers /\ ordQ' = Append(ordQ, e)
      BY <2>2, <3>1, StreamMoves
    <3>3. e.kind = "cancelled" /\ e \in Answers => e \in FittingAnswers(T)
      BY DEF FittingAnswers
    <3> QED
      BY <3>2, <3>3, AppendProperties DEF Shaped
  <2>3. CASE ~GatewayReplies /\ ~UserData
    BY <2>3 DEF ServeDelete, VenueCancels, VenueFills, Shaped
  <2> QED
    BY <2>1, <2>2, <2>3
<1> QED
  BY <1>1, <1>2, <1>3, <1>4, <1>5 DEF Shaped

LEMMA ShapedStep ==
  ASSUME TypeOK, Traffic, NEW T \in TermSets, Allowed(T), Shaped(T), [Next]_vars
  PROVE  Shaped(T)'
<1>1. OwnersStay /\ Traffic'
  BY ClosedStep, OwnersKept
<1>2. CASE UNCHANGED vars
  <2>1. UNCHANGED <<orders, recon, book, gw, reqQ, ordQ>>
    BY <1>2 DEF vars, omsVars, venueVars
  <2> QED
    BY <2>1, ShapedElsewhere DEF Shaped
<1> QED
  BY <1>1, <1>2, StepCases, ShapedOwn, ShapedUpdates, ShapedServe, ShapedVenue

LEMMA ShapedInit ==
  ASSUME NEW T, Init
  PROVE  Shaped(T)
BY EmptySeq DEF Init, OMSInit, Shaped, LegsFit, OrdersFit, BookFits, NoRecon, Ids, OnBook,
                IdleGateway

----------------------------------------------------------------------------
(* As many orders live on the book as the OMS works                        *)

(* FILLED is only ever said of an order whose fills make up its size. *)
Earned(o) == o.status # "EXPIRED" /\ (o.status = "FILLED" => o.cum >= o.qty)
FilledEarned == \A k \in Ids : Earned(orders[k])

LEMMA TransitionEarned ==
  ASSUME NEW o \in Order, Earned(o), NEW s, s # "EXPIRED", s = "FILLED" => o.cum >= o.qty
  PROVE  Earned(Transition(o, s)) /\ Earned(Moved(o, s))
BY DEF Earned, Transition, Moved, Order

LEMMA RolledBackEarned ==
  ASSUME NEW o \in Order, Earned(o)
  PROVE  Earned(RolledBack(o))
<1> DEFINE p == [o EXCEPT !.pend = NoAmend]
<1>1. p \in Order /\ Earned(p) /\ p.cum = o.cum /\ p.qty = o.qty /\ p.cum \in Nat /\ p.qty \in Nat
  BY ForgetKin DEF Order, Earned
<1>2. Leaves(p) = 0 => p.cum >= p.qty
  BY <1>1 DEF Leaves
<1> HIDE DEF p
<1>3. Earned(Transition(p, IF Leaves(p) = 0 THEN "FILLED" ELSE "ACKNOWLEDGED"))
  BY <1>1, <1>2, TransitionEarned
<1> QED
  BY <1>3 DEF RolledBack, p

LEMMA AnsweredEarned ==
  ASSUME NEW o \in Order, Earned(o), NEW e \in Answers
  PROVE  Earned(Answered(o, e))
<1>1. Earned(Amended(o, e.price, e.qty))
  BY DEF Earned, Amended, Moved, Order
<1> QED
  BY <1>1, TransitionEarned, RolledBackEarned DEF Answered

LEMMA FilledEarns ==
  ASSUME NEW o \in Order, Earned(o), NEW q \in Nat
  PROVE  Earned(Filled(o, q))
<1> DEFINE p == RecordFill(o, q)
<1>1. p \in Order /\ Earned(p) /\ p.cum \in Nat /\ p.qty \in Nat
  BY DEF RecordFill, Earned, Order
<1>2. Leaves(p) = 0 => p.cum >= p.qty
  BY <1>1 DEF Leaves
<1> HIDE DEF p
<1>3. Earned(Transition(p, IF Leaves(p) = 0 THEN "FILLED" ELSE "PARTIALLY_FILLED"))
  BY <1>1, <1>2, TransitionEarned
<1> QED
  BY <1>1, <1>3 DEF Filled, ApplyFill, p

LEMMA EarnedStep ==
  ASSUME TypeOK, Traffic, FilledEarned, [Next]_vars
  PROVE  FilledEarned'
<1>1. \A k \in Ids : orders[k] \in Order /\ Earned(orders[k])
  BY OrderTyped DEF TypeOK, FilledEarned
<1>2. CASE OmsActs
  <2>1. CASE UNCHANGED <<orders, reqQ>>
    BY <2>1 DEF FilledEarned, Ids
  <2>2. CASE \E n : Places(n)
    BY <1>1, <2>2 DEF Places, FilledEarned, Earned, NewOrder
  <2>3. CASE \E k : Amends(k) \/ Cancels(k)
    BY <1>1, <2>3 DEF Amends, Cancels, FilledEarned, Earned, SameBut, SameTerms
  <2> QED
    BY <1>2, <2>1, <2>2, <2>3, OmsMoves
<1>3. CASE OrderEvent
  <2>1. PICK e : e = Head(ordQ)
    OBVIOUS
  <2>2. e \in Answers /\ e.id \in Ids /\ SameBut(e.id) /\ orders'[e.id] = Answered(orders[e.id], e)
    BY <1>3, <2>1, AnswerMoves
  <2> QED
    BY <1>1, <2>2, AnsweredEarned DEF FilledEarned, SameBut
<1>4. CASE Fill
  <2>1. PICK e : e = Head(fillQ)
    OBVIOUS
  <2>2. e.id \in Ids /\ e.qty \in Nat /\ SameBut(e.id) /\ orders'[e.id] = Filled(orders[e.id], e.qty)
    BY <1>4, <2>1, FillMoves
  <2> QED
    BY <1>1, <2>2, FilledEarns DEF FilledEarned, SameBut
<1>5. CASE Swept
  BY <1>1, <1>5, SweepMoves, RolledBackEarned DEF FilledEarned, Sweeps
<1>6. CASE UNCHANGED orders
  BY <1>6 DEF FilledEarned, Ids
<1>7. \/ OmsActs \/ OrderEvent \/ Fill \/ Swept
      \/ UNCHANGED orders
  BY StepCases DEF ServeNew, ServeCancel, ServeAmend, Serving, GatewayTakes, ServeDelete,
                   GatewayReplies, UserData, VenueCancels, VenueFills, omsVars, vars
<1> QED
  BY <1>2, <1>3, <1>4, <1>5, <1>6, <1>7

(* An order stays live on the book only while something of it is left. *)
BookOpen == \A k \in OnBook : Live(k) => book[k].cum < book[k].qty

LEMMA OpenOne ==
  ASSUME BookOpen, NEW k \in OnBook, OneRecord(k), book'[k].live => book'[k].cum < book'[k].qty
  PROVE  BookOpen'
BY DEF BookOpen, OneRecord, Live

LEMMA OpenStep ==
  ASSUME TypeOK, Traffic, NEW T \in TermSets, Shaped(T), BookOpen, [Next]_vars
  PROVE  BookOpen'
<1>1. CASE UNCHANGED book
  BY <1>1 DEF BookOpen, Live, OnBook
<1>2. ASSUME NEW k \in OnBook, Pull(k)
      PROVE  BookOpen'
  BY <1>2, PullRecords, OpenOne
<1>3. ASSUME NEW k \in OnBook, NEW q \in 1..MaxQty, VenueFills(k, q)
      PROVE  BookOpen'
  <2>1. OneRecord(k) /\ (book'[k].live <=> book[k].cum + q < book[k].qty)
        /\ book'[k].cum = book[k].cum + q /\ book'[k].qty = book[k].qty
    BY <1>3, TradeRecords DEF Terms
  <2> QED
    BY <2>1, OpenOne
<1>4. ASSUME NEW r \in Requests, r.id \in OnBook, ~Exhausted(r), Change(r)
      PROVE  BookOpen'
  <2>1. /\ OneRecord(r.id) /\ book'[r.id].qty = r.qty /\ book'[r.id].cum = book[r.id].cum
        /\ book[r.id].cum \in Nat /\ r.qty \in Nat
    BY <1>4, ChangeRecords DEF Terms, Traffic, Record, Requests, Request
  <2> QED
    BY <1>4, <2>1, OpenOne DEF Exhausted
<1>5. ASSUME NEW r, r = Head(reqQ), r.kind = "new", reqQ # << >>, Accept(r)
      PROVE  BookOpen'
  <2>1. r \in FittingRequests(T)
    BY <1>5, HeadTailProperties DEF Shaped
  <2>2. r.qty \in 1..MaxQty
    <3>1. r.id \in Ids /\ Terms(r) \in T[orders[r.id].side]
      BY <1>5, <2>1 DEF FittingRequests, Requests
    <3>2. orders[r.id].side \in Sides
      BY <3>1, OrderTyped DEF Order, TypeOK
    <3> QED
      BY <3>1, <3>2 DEF Terms, TermSets
  <2> QED
    BY <1>5, <2>2, AcceptRecords, SizeAssumption DEF BookOpen, Live, Terms
<1>6. CASE ServeNew \/ ServeCancel \/ ServeAmend
  <2>1. PICK r : r = Head(reqQ)
    OBVIOUS
  <2>2. r \in Requests /\ reqQ # << >>
    BY <1>6, <2>1, ServeMoves
  <2>3. \/ UNCHANGED book
        \/ r.id \in OnBook /\ (Pull(r.id) \/ (~Exhausted(r) /\ Change(r)))
        \/ r.kind = "new" /\ Accept(r)
    BY <1>6, <2>1 DEF ServeNew, ServeCancel, ServeAmend, Serving, BookUnchanged, Live
  <2> QED
    BY <1>1, <1>2, <1>4, <1>5, <2>1, <2>2, <2>3
<1>7. CASE ServeDelete
  BY <1>1, <1>2, <1>7 DEF ServeDelete, Live, BookUnchanged
<1>8. CASE \E k \in OnBook : VenueCancels(k) \/ \E q \in 1..MaxQty : VenueFills(k, q)
  BY <1>2, <1>3, <1>8 DEF VenueCancels
<1>9. CASE OmsActs \/ OrderEvent \/ Fill \/ Swept \/ GatewayReplies \/ UserData \/ UNCHANGED vars
  <2>1. UNCHANGED book
    BY <1>9, OmsMoves DEF OrderEvent, Fill, Swept, GatewayReplies, UserData, vars, venueVars
  <2> QED
    BY <1>1, <2>1
<1> QED
  BY <1>6, <1>7, <1>8, <1>9, StepCases

(* The venue has traded at least what the OMS has recorded. *)
LEMMA RecordedTraded ==
  ASSUME TypeOK, Traffic, FillConservation, NEW k \in OnBook
  PROVE  orders[k].cum \in Nat /\ book[k].cum \in Nat /\ orders[k].cum <= book[k].cum
<1>1. Traded(wsQ, k) \in Nat /\ Traded(fillQ, k) \in Nat
  <2>1. AmountOf(k) \in [Reports -> Nat]
    BY AmountTyped DEF AmountOf
  <2> QED
    BY <2>1, QueuesTyped, TradedAlong, AlongAtLeast
<1>2. k \in Ids /\ orders[k].cum \in Nat /\ book[k].cum \in Nat
  BY OrderTyped DEF TypeOK, Traffic, Order, Record
<1>3. orders[k].cum + Traded(wsQ, k) + Traded(fillQ, k) = book[k].cum
  BY <1>2 DEF FillConservation
<1> QED
  BY <1>1, <1>2, <1>3

(* When every leg has one size, no order is taken for filled while something
   of it rests: what is live on the book is working in the OMS. *)
LEMMA LiveIsWorking ==
  ASSUME TypeOK, Traffic, FillConservation, GoneMeansGone, FilledEarned, BookOpen,
         NEW z, NEW T \in TermSets, \A d \in Sides : T[d] \subseteq (1..MaxPrice) \X {z}, Shaped(T),
         NEW k \in OnBook, Live(k)
  PROVE  orders[k].status \in Active
<1>1. k \in Ids /\ orders[k] \in Order
  BY OrderTyped DEF TypeOK, Traffic
<1>2. orders[k].status \notin GivenUp
  BY <1>1 DEF GoneMeansGone, GivenUp
<1>3. orders[k].qty = z /\ book[k].qty = z
  <2>1. orders[k].side \in Sides
    BY <1>1 DEF Order
  <2>2. Terms(orders[k]) \in (1..MaxPrice) \X {z} /\ Terms(book[k]) \in (1..MaxPrice) \X {z}
    BY <1>1, <2>1 DEF Shaped, OrdersFit, BookFits
  <2> QED
    BY <2>2 DEF Terms
<1>4. orders[k].qty \in Nat /\ book[k].cum < orders[k].qty
  BY <1>1, <1>3 DEF BookOpen, Order
<1>5. orders[k].status # "FILLED"
  BY <1>1, <1>4, RecordedTraded DEF FilledEarned, Earned
<1> QED
  BY <1>1, <1>2, <1>5 DEF FilledEarned, Earned, Order, Status, GivenUp, Terminal

(* The snapshot contract where it counts (_reconcile_immediate): when no
   publish is lost to backpressure and no order to the network, and a strategy
   quotes in one clip size that risk does not cut, it never has more orders on
   the book than its signals declare.  Every other answer the venue may give,
   and answers however late, are allowed for. *)
THEOREM VenueSnapshot ==
  ASSUME MaxDrops = 0, "new_lost" \notin Faults, ~RiskClamps, NEW z \in 1..MaxQty,
         \A legs \in Ladders : \A j \in DOMAIN legs : legs[j].qty = z
  PROVE  Spec => []VenueNoStacking
<1> DEFINE T == [d \in Sides |-> (1..MaxPrice) \X {z}]
<1>1. T \in TermSets /\ \A d \in Sides : T[d] = (1..MaxPrice) \X {z}
  BY DEF TermSets
<1>2. Allowed(T)
  <2>1. ASSUME NEW legs \in Ladders, NEW j \in DOMAIN legs
        PROVE  legs[j] \in Leg /\ legs[j].qty = z
    BY LadderAssumption, LenProperties, ElementOfSeq
  <2>2. ASSUME NEW leg \in Leg, leg.qty = z
        PROVE  <<leg.price, z>> \in T[leg.side]
    BY <1>1, <2>2 DEF Leg
  <2> QED
    BY <2>1, <2>2 DEF Allowed
<1> HIDE DEF T
<1>3. Init => Shaped(T)
  BY ShapedInit
<1>4. Init => FilledEarned /\ BookOpen
  BY DEF Init, OMSInit, FilledEarned, BookOpen, Ids, OnBook
<1>5. ASSUME TypeOK, Traffic, Shaped(T), FilledEarned, BookOpen, [Next]_vars
      PROVE  Shaped(T)' /\ FilledEarned' /\ BookOpen'
  BY <1>1, <1>2, <1>5, ShapedStep, EarnedStep, OpenStep
<1>6. ASSUME TypeOK, Traffic, FillConservation, GoneMeansGone, FilledEarned, BookOpen,
             Shaped(T), NoStacking
      PROVE  VenueNoStacking
  <2>1. ASSUME NEW s \in Strategies, NEW i \in Instruments, NEW d \in Sides
        PROVE  Cardinality({k \in OnBook : /\ Live(k) /\ orders[k].strat = s
                                            /\ orders[k].inst = i /\ orders[k].side = d})
                 <= MaxLegs
    <3> DEFINE L == {k \in OnBook : /\ Live(k) /\ orders[k].strat = s
                                    /\ orders[k].inst = i /\ orders[k].side = d}
    <3>1. L \subseteq Working(s, i, d)
      <4>1. \A k \in L : orders[k].status \in Active
        BY <1>1, <1>6, LiveIsWorking
      <4>2. L \subseteq Ids
        BY <1>6 DEF Traffic
      <4> QED
        BY <4>1, <4>2 DEF Working
    <3>2. IsFiniteSet(Working(s, i, d)) /\ Cardinality(Working(s, i, d)) <= MaxLegs
      BY <1>6, WorkingFinite DEF TypeOK, NoStacking
    <3> QED
      BY <3>1, <3>2, FewerOrders, SizeAssumption
  <2> QED
    BY <2>1 DEF VenueNoStacking
<1> QED
  BY <1>3, <1>4, <1>5, <1>6, ClosedInv, FillsConserved, GoneStaysGone, ClosedSnapshot, PTL DEF Spec

----------------------------------------------------------------------------
(* Two strategies that would trade with each other                         *)

Opposed(k, l) ==
  /\ orders[k].strat # orders[l].strat /\ orders[k].inst = orders[l].inst
  /\ orders[k].side # orders[l].side
Exposed(k) == Live(k) \/ NewInFlight(k)

(* The cancel of k is before the order l on the way to the venue. *)
Ahead(q, k, l) == \E n \in Hits(q, k, {"cancel"}), m \in Hits(q, l, {"new"}) : n < m

(* An order being cancelled is on the book, and its cancel on the way. *)
Leaving ==
  \A k \in Ids : orders[k].status = "PENDING_CANCEL" =>
     k \in OnBook /\ (Live(k) => Hits(reqQ, k, {"cancel"}) # {})

Apart ==
  \A k, l \in Ids : Exposed(k) /\ Exposed(l) /\ Opposed(k, l)
                      => Ahead(reqQ, k, l) \/ Ahead(reqQ, l, k)

LEMMA AheadAppend ==
  ASSUME NEW S, NEW q \in Seq(S), NEW e \in S, NEW k, NEW l
  PROVE  /\ Ahead(q, k, l) => Ahead(Append(q, e), k, l)
         /\ Hits(q, k, {"cancel"}) # {} /\ Hit(e, l, {"new"}) => Ahead(Append(q, e), k, l)
         /\ Hits(q, k, {"cancel"}) # {} \/ Hit(e, k, {"cancel"})
              => Hits(Append(q, e), k, {"cancel"}) # {}
<1> DEFINE Q == Append(q, e)
<1> HIDE DEF Q
<1>1. /\ Len(q) \in Nat /\ DOMAIN q = 1..Len(q) /\ DOMAIN Q = 1..(Len(q) + 1)
      /\ Q[Len(q) + 1] = e /\ \A n \in 1..Len(q) : Q[n] = q[n]
  BY LenProperties, AppendProperties DEF Q
<1>2. \A j, kinds : \A n \in Hits(q, j, kinds) : n \in Hits(Q, j, kinds) /\ n \in Nat /\ n < Len(q) + 1
  BY <1>1 DEF Hits
<1>3. /\ Hit(e, l, {"new"}) => Len(q) + 1 \in Hits(Q, l, {"new"})
      /\ Hit(e, k, {"cancel"}) => Len(q) + 1 \in Hits(Q, k, {"cancel"})
  BY <1>1 DEF Hits, Hit
<1> QED
  BY <1>2, <1>3 DEF Ahead, Q

LEMMA AheadTail ==
  ASSUME NEW S, NEW q \in Seq(S), q # << >>, NEW k, ~Hit(Head(q), k, {"cancel"})
  PROVE  /\ \A l : Ahead(q, k, l) => Ahead(Tail(q), k, l)
         /\ Hits(q, k, {"cancel"}) # {} => Hits(Tail(q), k, {"cancel"}) # {}
<1> DEFINE Q == Tail(q)
<1> HIDE DEF Q
<1>1. /\ Len(q) \in Nat \ {0} /\ DOMAIN q = 1..Len(q)
      /\ DOMAIN Q = 1..(Len(q) - 1)
      /\ \A n \in 1..(Len(q) - 1) : Q[n] = q[n + 1]
      /\ Head(q) = q[1]
  BY HeadTailProperties, LenProperties DEF Q
<1>2. \A n \in Hits(q, k, {"cancel"}) : n \in Nat \ {0, 1} /\ n - 1 \in Hits(Q, k, {"cancel"})
  BY <1>1 DEF Hits, Hit
<1>3. \A l : \A m \in Hits(q, l, {"new"}) : m \in Nat /\ (m > 1 => m - 1 \in Hits(Q, l, {"new"}))
  BY <1>1 DEF Hits, Hit
<1>4. ASSUME NEW l, NEW n \in Hits(q, k, {"cancel"}), NEW m \in Hits(q, l, {"new"}), n < m
      PROVE  Ahead(Q, k, l)
  <2>1. n - 1 \in Hits(Q, k, {"cancel"}) /\ m - 1 \in Hits(Q, l, {"new"}) /\ n - 1 < m - 1
    BY <1>2, <1>3, <1>4
  <2> QED
    BY <2>1 DEF Ahead
<1> QED
  BY <1>2, <1>4 DEF Ahead, Q

LEMMA NewHits ==
  ASSUME NEW k
  PROVE  NewInFlight(k) <=> Hits(reqQ, k, {"new"}) # {}
BY DEF NewInFlight, Hits

LEMMA ApartKept ==
  ASSUME Apart, OwnersStay, Ids' = Ids, StaysOff,
         \A k, l \in Ids : Exposed(k)' /\ Ahead(reqQ, k, l) => Ahead(reqQ', k, l)
  PROVE  Apart'
<1>1. \A k \in Ids : Exposed(k)' => Exposed(k)
  BY DEF StaysOff, Off, Exposed
<1>2. \A k, l \in Ids : Opposed(k, l)' => Opposed(k, l)
  BY DEF Opposed, OwnersStay
<1> QED
  BY <1>1, <1>2 DEF Apart

LEMMA LeavingKept ==
  ASSUME Leaving, Ids' = Ids, OnBook \subseteq OnBook',
         \A k \in Ids : orders'[k].status = "PENDING_CANCEL" => orders[k].status = "PENDING_CANCEL",
         \A k \in OnBook : Live(k)' => Live(k),
         \A k \in Ids : Live(k)' /\ Hits(reqQ, k, {"cancel"}) # {} => Hits(reqQ', k, {"cancel"}) # {}
  PROVE  Leaving'
BY DEF Leaving

(* Live on the book: working in the OMS. *)
LiveWorks == \A k \in OnBook : Live(k) => orders[k].status \in Active

LEMMA ExposedStatus ==
  ASSUME TypeOK, Traffic, Honest, GoneMeansGone, UnheardInv, LiveWorks, NEW k \in Ids, Exposed(k)
  PROVE  orders[k].status \in StpLive \/ (orders[k].status = "PENDING_CANCEL" /\ Live(k))
<1>1. CASE Live(k)
  BY <1>1 DEF LiveWorks, Live, Active, Pending, Resting, StpLive
<1>2. CASE NewInFlight(k) /\ ~Live(k)
  <2>1. k \notin OnBook
    BY <1>2, OnBookIsPlaced
  <2>2. orders[k].status \in {"PENDING_NEW", "REJECTED"} /\ orders[k].status # "REJECTED"
    BY <1>2, <2>1 DEF UnheardInv, Unheard, GoneMeansGone
  <2> QED
    BY <2>2 DEF StpLive
<1> QED
  BY <1>1, <1>2 DEF Exposed

(* Every buy and every sell the strategies may quote would trade. *)
AllCross(T) ==
  \A b \in T["BUY"], s \in T["SELL"] : b[1] >= s[1]

(* A leg is placed only against siblings that are leaving. *)
LEMMA PlaceApart ==
  ASSUME TypeOK, Traffic, Honest, GoneMeansGone, UnheardInv, LiveWorks, Leaving,
         StpEnabled, NEW T \in TermSets, Shaped(T), AllCross(T), NEW n, Places(n),
         NEW k \in Ids, Exposed(k),
         orders[k].strat # recon.strat, orders[k].inst = recon.inst, orders[k].side # Target.side
  PROVE  Hits(reqQ, k, {"cancel"}) # {}
<1>1. Terms(Target) \in T[Target.side] /\ Target \in Leg
  BY AllowedLeg DEF Places, Shaped
<1>2. Terms(orders[k]) \in T[orders[k].side] /\ orders[k] \in Order
  BY OrderTyped DEF Shaped, OrdersFit, TypeOK
<1>3. orders[k].side \in Sides /\ Target.side \in Sides
  BY <1>1, <1>2 DEF Order, Leg
<1>4. Crosses(Target.side, Target.price, orders[k])
  <2>1. CASE Target.side = "BUY"
    <3>1. orders[k].side = "SELL"
      BY <1>3, <2>1 DEF Sides
    <3>2. Terms(Target)[1] >= Terms(orders[k])[1]
      BY <1>1, <1>2, <2>1, <3>1 DEF AllCross
    <3> QED
      BY <2>1, <3>1, <3>2 DEF Crosses, Terms
  <2>2. CASE Target.side = "SELL"
    <3>1. orders[k].side = "BUY"
      BY <1>3, <2>2 DEF Sides
    <3>2. Terms(orders[k])[1] >= Terms(Target)[1]
      BY <1>1, <1>2, <2>2, <3>1 DEF AllCross
    <3> QED
      BY <1>1, <1>2, <2>2, <3>1, <3>2, SizeAssumption DEF Crosses, Terms, Order, Leg
  <2> QED
    BY <1>3, <2>1, <2>2 DEF Sides
<1>5. orders[k].status \notin StpLive
  BY <1>4 DEF Places, StpBlocks
<1>6. orders[k].status = "PENDING_CANCEL" /\ Live(k)
  BY <1>5, ExposedStatus
<1> QED
  BY <1>6 DEF Leaving

LEMMA ApartOwn ==
  ASSUME TypeOK, Traffic, Traffic', OwnersStay, StaysOff,
         Honest, GoneMeansGone, UnheardInv, LiveWorks, Leaving, Apart,
         MaxDrops = 0, StpEnabled, NEW T \in TermSets, Shaped(T), AllCross(T), OmsActs
  PROVE  Leaving' /\ Apart'
<1>1. UNCHANGED book /\ OnBook' = OnBook /\ \A k : Live(k)' <=> Live(k)
  BY OmsMoves DEF OnBook, Live
<1>2. ~(drops < MaxDrops)
  BY DEF TypeOK
<1>3. reqQ \in Seq(Requests')
  BY Queues, TrafficGrows, SeqGrows DEF OwnersStay
<1>4. CASE UNCHANGED <<orders, reqQ>>
  <2>1. Ids' = Ids
    BY <1>4 DEF Ids
  <2>2. Apart'
    BY <1>4, <2>1, ApartKept
  <2> QED
    BY <1>1, <1>4, <2>1, <2>2, LeavingKept
<1>5. ASSUME NEW n, Places(n)
      PROVE  Leaving' /\ Apart'
  <2> DEFINE req == Ask("new", n, Target.price, Target.qty)
  <2>1. /\ reqQ' = Append(reqQ, req) /\ orders'[n] = NewOrder("PENDING_NEW")
        /\ Ids' = Ids \union {n} /\ n \notin Ids /\ \A k \in Ids : orders'[k] = orders[k]
    BY <1>2, <1>5 DEF Places
  <2>2. req \in Requests' /\ Hit(req, n, {"new"})
    BY <1>5, <2>1, SizeAssumption DEF Requests, Request, Ask, Hit, Places, Leg
  <2>3. Leaving'
    <3>1. \A k \in Ids : Hits(reqQ, k, {"cancel"}) # {} => Hits(reqQ', k, {"cancel"}) # {}
      BY <1>3, <2>1, <2>2, AheadAppend
    <3>2. orders'[n].status # "PENDING_CANCEL"
      BY <2>1 DEF NewOrder
    <3> QED
      BY <1>1, <2>1, <3>1, <3>2 DEF Leaving
  <2>4. ASSUME NEW k \in Ids, Exposed(k)', Opposed(k, n)' \/ Opposed(n, k)'
        PROVE  Ahead(reqQ', k, n)
    <3>1. Exposed(k)
      BY <2>4 DEF StaysOff, Off, Exposed
    <3>2. /\ orders[k].strat # recon.strat /\ orders[k].inst = recon.inst
          /\ orders[k].side # Target.side
      BY <2>1, <2>4 DEF Opposed, NewOrder
    <3>3. Hits(reqQ, k, {"cancel"}) # {}
      BY <1>5, <3>1, <3>2, PlaceApart
    <3> QED
      BY <1>3, <2>1, <2>2, <3>3, AheadAppend
  <2>5. ASSUME NEW k \in Ids, NEW l \in Ids, Exposed(k)', Exposed(l)', Opposed(k, l)'
        PROVE  Ahead(reqQ', k, l) \/ Ahead(reqQ', l, k)
    <3>1. Exposed(k) /\ Exposed(l) /\ Opposed(k, l)
      BY <2>1, <2>5 DEF StaysOff, Off, Exposed, Opposed
    <3>2. Ahead(reqQ, k, l) \/ Ahead(reqQ, l, k)
      BY <3>1 DEF Apart
    <3> QED
      BY <1>3, <2>1, <2>2, <3>2, AheadAppend
  <2>6. ~Opposed(n, n)'
    BY DEF Opposed
  <2> QED
    BY <2>1, <2>3, <2>4, <2>5, <2>6 DEF Apart
<1>6. ASSUME NEW j, Amends(j) \/ Cancels(j)
      PROVE  Leaving' /\ Apart'
  <2>1. Ids' = Ids /\ j \in Ids /\ j \in Nat /\ SameBut(j)
    BY <1>6 DEF Amends, Cancels, SameBut
  <2>2. PICK req \in Requests' : /\ Shipped(req) /\ req.id = j
                                 /\ Cancels(j) => req.kind = "cancel" /\ reqQ' = Append(reqQ, req)
    <3>1. j \in Nat /\ Target \in Leg => Ask("amend", j, Target.price, Target.qty) \in Requests'
      BY <2>1, SizeAssumption DEF Ask, Requests, Request, Leg
    <3>2. Ask("cancel", j, 0, 0) \in Requests'
      BY <2>1 DEF Ask, Requests, Request
    <3>3. CASE Cancels(j)
      BY <1>2, <3>2, <3>3 DEF Cancels, Ask, Shipped
    <3>4. CASE Amends(j) /\ ~Cancels(j)
      BY <2>1, <3>1, <3>4 DEF Amends, Ask
    <3> QED
      BY <1>6, <3>3, <3>4
  <2>3. \A k, l : /\ Ahead(reqQ, k, l) => Ahead(reqQ', k, l)
                  /\ Hits(reqQ, k, {"cancel"}) # {} => Hits(reqQ', k, {"cancel"}) # {}
    BY <1>3, <2>2, AheadAppend DEF Shipped
  <2>4. Apart'
    BY <2>1, <2>3, ApartKept
  <2>5. ASSUME NEW k \in Ids, orders'[k].status = "PENDING_CANCEL"
        PROVE  k \in OnBook /\ (Live(k) => Hits(reqQ', k, {"cancel"}) # {})
    <3>1. CASE k = j /\ Cancels(j)
      <4>1. orders[j].status \notin {"PENDING_NEW", "REJECTED"}
        BY <3>1 DEF Cancels, Resting
      <4>2. j \in OnBook
        BY <2>1, <4>1 DEF UnheardInv, Unheard
      <4>3. Hit(req, j, {"cancel"}) /\ reqQ' = Append(reqQ, req)
        BY <2>2, <3>1 DEF Hit
      <4>4. Hits(Append(reqQ, req), j, {"cancel"}) # {}
        BY <1>3, <2>2, <4>3, AheadAppend
      <4> QED
        BY <3>1, <4>2, <4>3, <4>4
    <3>2. CASE ~(k = j /\ Cancels(j))
      <4>1. orders[k].status = "PENDING_CANCEL"
        BY <1>6, <2>1, <2>5, <3>2 DEF SameBut, Amends
      <4> QED
        BY <2>3, <4>1 DEF Leaving
    <3> QED
      BY <3>1, <3>2
  <2> QED
    BY <1>1, <2>1, <2>4, <2>5 DEF Leaving
<1> QED
  BY <1>4, <1>5, <1>6, OmsMoves

(* No answer and no fill starts a cancel. *)
LEMMA NoneLeaves ==
  ASSUME NEW o \in Order
  PROVE  /\ \A e \in Answers : Answered(o, e).status = "PENDING_CANCEL" => o.status = "PENDING_CANCEL"
         /\ \A q : Filled(o, q).status = "PENDING_CANCEL" => o.status = "PENDING_CANCEL"
         /\ RolledBack(o).status = "PENDING_CANCEL" => o.status = "PENDING_CANCEL"
<1>1. \A p : \A s : s # "PENDING_CANCEL" /\ p \in Order /\ Transition(p, s).status = "PENDING_CANCEL"
                      => p.status = "PENDING_CANCEL"
  BY DEF Transition, Moved, Order
<1>2. RolledBack(o).status = "PENDING_CANCEL" => o.status = "PENDING_CANCEL"
  BY DEF RolledBack, Transition, Moved, Order
<1>3. \A price, qty : Amended(o, price, qty).status = "PENDING_CANCEL" => o.status = "PENDING_CANCEL"
  BY DEF Amended, Moved, Order
<1>4. \A q : Filled(o, q).status = "PENDING_CANCEL" => o.status = "PENDING_CANCEL"
  BY DEF Filled, ApplyFill, RecordFill, Transition, Moved, Order
<1> QED
  BY <1>1, <1>2, <1>3, <1>4 DEF Answered, Answers, AnswerKinds

LEMMA ApartUpdates ==
  ASSUME TypeOK, Traffic, OwnersStay, StaysOff, Leaving, Apart, OrderEvent \/ Fill \/ Swept
  PROVE  Leaving' /\ Apart'
<1>1. /\ UNCHANGED <<reqQ, book>> /\ Ids' = Ids
      /\ \A k \in Ids : orders'[k].status = "PENDING_CANCEL" => orders[k].status = "PENDING_CANCEL"
  <2>1. \A k \in Ids : orders[k] \in Order
    BY OrderTyped DEF TypeOK
  <2>2. CASE OrderEvent
    BY <2>1, <2>2, AnswerMoves, NoneLeaves DEF SameBut
  <2>3. CASE Fill
    BY <2>1, <2>3, FillMoves, NoneLeaves DEF SameBut
  <2>4. CASE Swept
    BY <2>1, <2>4, SweepMoves, NoneLeaves DEF Sweeps
  <2> QED
    BY <2>2, <2>3, <2>4
<1>2. OnBook' = OnBook /\ \A k : Live(k)' <=> Live(k)
  BY <1>1 DEF OnBook, Live
<1>3. Apart'
  BY <1>1, ApartKept
<1> QED
  BY <1>1, <1>2, <1>3, LeavingKept

(* A cancel that reaches the venue takes the order off the book, when none is
   refused or lost. *)
LEMMA ApartServe ==
  ASSUME TypeOK, Traffic, OwnersStay, StaysOff, Honest, Leaving, Apart,
         Faults \intersect {"new_lost", "cancel_rejected", "cancel_lost"} = {},
         ServeNew \/ ServeCancel \/ ServeAmend
  PROVE  Leaving' /\ Apart'
<1>1. PICK r : r = Head(reqQ)
  OBVIOUS
<1>2. /\ r \in Requests /\ r.id \in Ids /\ reqQ # << >> /\ reqQ' = Tail(reqQ)
      /\ UNCHANGED orders /\ OnBook \subseteq OnBook' /\ OnBook' \subseteq OnBook \union {r.id}
      /\ r.kind = (IF ServeNew THEN "new" ELSE IF ServeCancel THEN "cancel" ELSE "amend")
  BY <1>1, ServeMoves
<1>3. Ids' = Ids /\ reqQ \in Seq(Requests)
  BY <1>2, Queues DEF Ids
<1>4. \A j : Live(j)' => Live(j) \/ (r.kind = "new" /\ j = r.id)
  <2>1. BookSide(r)
    BY <1>1, ServeNewSides, ServeCancelSides, ServeAmendSides
  <2> QED
    BY <2>1, BookSideLive
<1>5. \A j \in OnBook : Live(j)' => Live(j)
  <2>1. r.kind = "new" => r.id \notin OnBook
    <3>1. 1 \in DOMAIN reqQ /\ reqQ[1] = r
      BY <1>1, <1>2, <1>3, HeadTailProperties, LenProperties
    <3> QED
      BY <3>1 DEF Honest, NewIsUnknown
  <2> QED
    BY <1>4, <2>1
<1>6. ~NewInFlight(r.id)'
  BY <1>1, <1>2, <1>4, ServedStaysOff
<1>7. r.kind = "cancel" => ~Exposed(r.id)' /\ ~Live(r.id)'
  <2>1. ASSUME r.kind = "cancel"
        PROVE  ~Live(r.id)'
    <3>1. ServeCancel
      BY <1>2, <2>1
    <3>2. \/ r.id \in OnBook /\ Pull(r.id)
          \/ ~Live(r.id) /\ BookUnchanged
      BY <1>1, <3>1 DEF ServeCancel, Fault, Live
    <3> QED
      BY <3>2, PullTakesOff, SameBook DEF BookUnchanged
  <2> QED
    BY <1>6, <2>1 DEF Exposed
<1>8. ASSUME NEW k \in Ids, Exposed(k)'
      PROVE  /\ \A l : Ahead(reqQ, k, l) => Ahead(reqQ', k, l)
             /\ Hits(reqQ, k, {"cancel"}) # {} => Hits(reqQ', k, {"cancel"}) # {}
  <2>1. ~Hit(Head(reqQ), k, {"cancel"})
    BY <1>1, <1>7, <1>8 DEF Hit
  <2> QED
    BY <1>2, <1>3, <2>1, AheadTail
<1>9. Apart'
  BY <1>3, <1>8, ApartKept
<1>10. Leaving'
  <2>1. \A k \in Ids : Live(k)' /\ Hits(reqQ, k, {"cancel"}) # {} => Hits(reqQ', k, {"cancel"}) # {}
    BY <1>8 DEF Exposed
  <2> QED
    BY <1>2, <1>3, <1>5, <2>1, LeavingKept
<1> QED
  BY <1>9, <1>10

LEMMA ApartVenue ==
  ASSUME TypeOK, Traffic, OwnersStay, StaysOff, Leaving, Apart,
         \/ ServeDelete \/ GatewayReplies \/ UserData
         \/ \E k \in OnBook : VenueCancels(k) \/ \E q \in 1..MaxQty : VenueFills(k, q)
  PROVE  Leaving' /\ Apart'
<1>1. UNCHANGED <<orders, reqQ>> /\ Ids' = Ids
  BY DEF ServeDelete, GatewayReplies, UserData, VenueCancels, VenueFills, omsVars, Ids
<1>2. OnBook' = OnBook /\ \A j : Live(j)' => Live(j)
  <2>1. UNCHANGED book \/ \E k \in OnBook : Pull(k) \/ \E q \in 1..MaxQty : VenueFills(k, q)
    BY DEF ServeDelete, GatewayReplies, UserData, VenueCancels, BookUnchanged, Live
  <2> QED
    BY <2>1, PullTakesOff, FillsKeepLive, SameBook
<1>3. Apart'
  BY <1>1, ApartKept
<1> QED
  BY <1>1, <1>2, <1>3, LeavingKept

LEMMA ApartStep ==
  ASSUME TypeOK, Traffic, Honest, GoneMeansGone, UnheardInv, LiveWorks, Leaving, Apart,
         MaxDrops = 0, StpEnabled, Faults \intersect {"new_lost", "cancel_rejected", "cancel_lost"} = {},
         NEW T \in TermSets, Shaped(T), AllCross(T), [Next]_vars
  PROVE  Leaving' /\ Apart'
<1>1. OwnersStay /\ Traffic'
  BY ClosedStep, OwnersKept
<1>2. StaysOff
  BY GoneStep
<1>3. CASE UNCHANGED vars
  <2>1. UNCHANGED <<orders, reqQ, book>>
    BY <1>3 DEF vars, omsVars, venueVars
  <2>2. Ids' = Ids /\ OnBook' = OnBook /\ \A k : Live(k)' <=> Live(k)
    BY <2>1 DEF Ids, OnBook, Live
  <2>3. Apart'
    BY <1>1, <1>2, <2>1, <2>2, ApartKept
  <2> QED
    BY <2>1, <2>2, <2>3, LeavingKept
<1> QED
  BY <1>1, <1>2, <1>3, StepCases, ApartOwn, ApartUpdates, ApartServe, ApartVenue

(* Self-trade prevention on the venue (_stp_blocks): when no cancel is refused
   or lost, no publish is lost to backpressure and no order to the network, and
   strategies quote in one clip size that risk does not cut, two of them whose
   quotes would always trade never have orders on the book on opposite sides
   of an instrument, whatever amends, fills and expiries they race with. *)
THEOREM SelfTradePrevented ==
  ASSUME MaxDrops = 0, ~RiskClamps, StpEnabled,
         Faults \intersect {"new_lost", "cancel_rejected", "cancel_lost"} = {},
         NEW z \in 1..MaxQty,
         \A legs \in Ladders : \A j \in DOMAIN legs : legs[j].qty = z,
         \A bid, ask \in Ladders : \A i \in DOMAIN bid, j \in DOMAIN ask :
            bid[i].side = "BUY" /\ ask[j].side = "SELL" => bid[i].price >= ask[j].price
  PROVE  Spec => []NoSelfTrade
<1> DEFINE T == [d \in Sides |-> {t \in (1..MaxPrice) \X {z} :
                    \E legs \in Ladders : \E j \in DOMAIN legs :
                       legs[j].side = d /\ t = <<legs[j].price, z>>}]
<1>1. T \in TermSets /\ \A d \in Sides : T[d] \subseteq (1..MaxPrice) \X {z}
  BY DEF TermSets
<1>2. Allowed(T)
  <2>1. ASSUME NEW legs \in Ladders, NEW j \in DOMAIN legs
        PROVE  legs[j] \in Leg /\ legs[j].qty = z
    BY LadderAssumption, LenProperties, ElementOfSeq
  <2>2. ASSUME NEW legs \in Ladders, NEW j \in DOMAIN legs
        PROVE  <<legs[j].price, z>> \in T[legs[j].side]
    BY <2>1 DEF Leg
  <2> HIDE DEF T
  <2> QED
    BY <2>1, <2>2 DEF Allowed
<1>3. AllCross(T)
  BY DEF AllCross, Sides
<1> HIDE DEF T
<1>4. Init => /\ Shaped(T) /\ FilledEarned /\ BookOpen /\ UnheardInv /\ Leaving /\ Apart
              /\ Honest /\ GoneMeansGone
  <2>1. Init => FilledEarned /\ BookOpen /\ UnheardInv /\ Leaving /\ Apart
    BY DEF Init, OMSInit, FilledEarned, BookOpen, UnheardInv, Leaving, Apart, Ids, OnBook
  <2> QED
    BY <2>1, ShapedInit, HonestInit
<1>5. ASSUME TypeOK, Traffic, FillConservation, GoneMeansGone, FilledEarned, BookOpen, Shaped(T)
      PROVE  LiveWorks
  BY <1>1, <1>5, LiveIsWorking DEF LiveWorks
<1>6. ASSUME TypeOK, Traffic, FillConservation, Shaped(T), FilledEarned, BookOpen, UnheardInv,
             Leaving, Apart, Honest, GoneMeansGone, [Next]_vars
      PROVE  /\ Shaped(T)' /\ FilledEarned' /\ BookOpen' /\ UnheardInv' /\ Leaving' /\ Apart'
             /\ Honest' /\ GoneMeansGone'
  <2>1. Shaped(T)' /\ FilledEarned' /\ BookOpen' /\ UnheardInv'
    BY <1>1, <1>2, <1>6, ShapedStep, EarnedStep, OpenStep, UnheardStep
  <2>2. Honest' /\ GoneMeansGone'
    BY <1>6, GoneStep
  <2>3. Leaving' /\ Apart'
    BY <1>1, <1>3, <1>5, <1>6, ApartStep
  <2> QED
    BY <2>1, <2>2, <2>3
<1>7. ASSUME TypeOK, Traffic, Honest, Apart
      PROVE  NoSelfTrade
  <2>1. ASSUME NEW k \in OnBook, NEW l \in OnBook, Live(k), Live(l), Opposed(k, l)
        PROVE  FALSE
    <3>1. k \in Ids /\ l \in Ids /\ Exposed(k) /\ Exposed(l)
      BY <1>7, <2>1 DEF Traffic, Exposed
    <3>2. NewInFlight(k) \/ NewInFlight(l)
      BY <1>7, <2>1, <3>1, NewHits DEF Apart, Ahead
    <3> QED
      BY <1>7, <2>1, <3>2, OnBookIsPlaced
  <2> QED
    BY <2>1 DEF NoSelfTrade, Opposed
<1> QED
  BY <1>4, <1>6, <1>7, ClosedInv, FillsConserved, PTL DEF Spec

----------------------------------------------------------------------------
(* An order that never traded is where the OMS thinks it is                *)

Some(q, k, kinds) == Hits(q, k, kinds) # {}
Single(q, k, kinds) == Lone(Hits(q, k, kinds))
AllAt(q, k, kinds, x) == \A n \in Hits(q, k, kinds) : Terms(q[n]) = x

LEMMA SomeAppend ==
  ASSUME NEW S, NEW q \in Seq(S), NEW e \in S, NEW k, NEW kinds
  PROVE  /\ Some(Append(q, e), k, kinds) <=> Some(q, k, kinds) \/ Hit(e, k, kinds)
         /\ Single(q, k, kinds) /\ ~(Some(q, k, kinds) /\ Hit(e, k, kinds))
              => Single(Append(q, e), k, kinds)
         /\ \A x : AllAt(q, k, kinds, x) /\ (Hit(e, k, kinds) => Terms(e) = x)
                     => AllAt(Append(q, e), k, kinds, x)
<1> DEFINE Q == Append(q, e)
<1> HIDE DEF Q
<1>1. /\ Len(q) \in Nat /\ DOMAIN q = 1..Len(q) /\ DOMAIN Q = 1..(Len(q) + 1)
      /\ Q[Len(q) + 1] = e /\ \A n \in 1..Len(q) : Q[n] = q[n]
  BY LenProperties, AppendProperties DEF Q
<1>2. /\ \A n \in Hits(q, k, kinds) : n \in Hits(Q, k, kinds)
      /\ \A n \in Hits(Q, k, kinds) : \/ n \in Hits(q, k, kinds) /\ Q[n] = q[n]
                                      \/ n = Len(q) + 1 /\ Hit(e, k, kinds) /\ Q[n] = e
      /\ Hit(e, k, kinds) => Len(q) + 1 \in Hits(Q, k, kinds)
  BY <1>1 DEF Hits, Hit
<1>3. Some(Q, k, kinds) <=> Some(q, k, kinds) \/ Hit(e, k, kinds)
  BY <1>2 DEF Some
<1>4. Single(q, k, kinds) /\ ~(Some(q, k, kinds) /\ Hit(e, k, kinds)) => Single(Q, k, kinds)
  BY <1>2 DEF Single, Some, Lone
<1>5. \A x : AllAt(q, k, kinds, x) /\ (Hit(e, k, kinds) => Terms(e) = x) => AllAt(Q, k, kinds, x)
  BY <1>2 DEF AllAt
<1> QED
  BY <1>3, <1>4, <1>5 DEF Q

LEMMA SomeTail ==
  ASSUME NEW S, NEW q \in Seq(S), q # << >>, NEW k, NEW kinds
  PROVE  /\ Some(q, k, kinds) <=> Some(Tail(q), k, kinds) \/ Hit(Head(q), k, kinds)
         /\ Single(q, k, kinds) => /\ Single(Tail(q), k, kinds)
                                   /\ ~(Some(Tail(q), k, kinds) /\ Hit(Head(q), k, kinds))
         /\ \A x : AllAt(q, k, kinds, x) => /\ AllAt(Tail(q), k, kinds, x)
                                            /\ Hit(Head(q), k, kinds) => Terms(Head(q)) = x
<1> DEFINE Q == Tail(q)
<1> HIDE DEF Q
<1>1. /\ Len(q) \in Nat \ {0} /\ DOMAIN q = 1..Len(q)
      /\ DOMAIN Q = 1..(Len(q) - 1)
      /\ \A n \in 1..(Len(q) - 1) : Q[n] = q[n + 1]
      /\ Head(q) = q[1]
  BY HeadTailProperties, LenProperties DEF Q
<1>2. /\ \A n \in Hits(Q, k, kinds) : n \in Nat \ {0} /\ n + 1 \in Hits(q, k, kinds) /\ Q[n] = q[n + 1]
      /\ \A n \in Hits(q, k, kinds) :
            \/ n = 1 /\ Hit(Head(q), k, kinds)
            \/ n \in Nat \ {0, 1} /\ n - 1 \in Hits(Q, k, kinds)
      /\ Hit(Head(q), k, kinds) => 1 \in Hits(q, k, kinds)
  BY <1>1 DEF Hits, Hit
<1>3. Some(q, k, kinds) <=> Some(Q, k, kinds) \/ Hit(Head(q), k, kinds)
  BY <1>2 DEF Some
<1>4. Single(q, k, kinds) => Single(Q, k, kinds) /\ ~(Some(Q, k, kinds) /\ Hit(Head(q), k, kinds))
  BY <1>2 DEF Single, Some, Lone
<1>5. \A x : AllAt(q, k, kinds, x) => /\ AllAt(Q, k, kinds, x)
                                      /\ Hit(Head(q), k, kinds) => Terms(Head(q)) = x
  BY <1>1, <1>2 DEF AllAt
<1> QED
  BY <1>3, <1>4, <1>5 DEF Q

LEMMA SomeMore ==
  ASSUME NEW q, NEW k, NEW S, NEW kinds \in SUBSET S, Some(q, k, kinds)
  PROVE  Some(q, k, S)
BY DEF Some, Hits

(* A request for a new order carries the order's own terms. *)
NewTrue ==
  \A n \in DOMAIN reqQ : reqQ[n].kind = "new" => Terms(reqQ[n]) = Terms(orders[reqQ[n].id])

(* How far an order's amend has got: asked for, being served, answered. *)
AmendEnds == {"amended", "amend_rejected"}
Asked(k) == Some(reqQ, k, {"amend"})
Served(k) == Deleting(k) \/ Saying(k, AmendEnds)
Told(k) == Some(ordQ, k, AmendEnds)
Amending(k) == Asked(k) \/ Served(k) \/ Told(k)
OneAmend(k) ==
  /\ Single(reqQ, k, {"amend"}) /\ Single(ordQ, k, AmendEnds)
  /\ ~(Asked(k) /\ Served(k)) /\ ~(Asked(k) /\ Told(k)) /\ ~(Served(k) /\ Told(k))

AckOut(k) == Saying(k, {"ack"}) \/ Some(ordQ, k, {"ack"})
OneAck(k) == Single(ordQ, k, {"ack"}) /\ ~(Saying(k, {"ack"}) /\ Some(ordQ, k, {"ack"}))

(* A confirmation on its way says what the venue has. *)
AmendedOut(k) == Saying(k, {"amended"}) \/ Some(ordQ, k, {"amended"})
Confirms(k) ==
  /\ Saying(k, {"amended"}) => Terms(gw.event) = Terms(book[k])
  /\ AllAt(ordQ, k, {"amended"}, Terms(book[k]))

CancelComing(k) == Some(wsQ, k, {"cancelled"}) \/ Some(ordQ, k, {"cancelled"})
SameOnBook(k) == Terms(book[k]) = Terms(orders[k])

(* What holds of an order that never traded until it ends. *)
Tracked(k) ==
  /\ ~Live(k) => CancelComing(k)
  /\ OneAck(k) /\ (AckOut(k) => orders[k].status = "PENDING_NEW")
  /\ OneAmend(k) /\ (orders[k].status \in Resting \union {"PENDING_NEW"} => ~Amending(k))
  /\ Confirms(k)
  /\ ~AmendedOut(k) /\ (orders[k].status # "PENDING_CANCEL" \/ Amending(k)) => SameOnBook(k)

Fresh(k) == k \in OnBook /\ book[k].cum = 0 /\ ~IsTerminal(orders[k])
FreshTracked == \A k \in Ids : Fresh(k) => Tracked(k)

(* The answers when the venue refuses no cancel. *)
PlainAnswers == {e \in Answers : e.kind # "cancel_rejected"}
Plain ==
  ordQ \in Seq(PlainAnswers) /\ (gw.phase = "answered" => gw.event \in PlainAnswers)

(* A confirmation is the end of an amend. *)
LEMMA ConfirmedEnds ==
  ASSUME NEW k, AmendedOut(k)
  PROVE  Amending(k)
BY SomeMore DEF AmendedOut, Amending, Served, Told, Saying, Hit, AmendEnds

(* A queue that says of an order what it said before. *)
Alike(q, Q, k, kinds) ==
  /\ Some(Q, k, kinds) <=> Some(q, k, kinds)
  /\ Single(q, k, kinds) => Single(Q, k, kinds)
  /\ \A x : AllAt(q, k, kinds, x) => AllAt(Q, k, kinds, x)

LEMMA AlikeSame ==
  ASSUME NEW q, NEW k, NEW kinds
  PROVE  Alike(q, q, k, kinds)
BY DEF Alike

LEMMA AlikeAppend ==
  ASSUME NEW S, NEW q \in Seq(S), NEW e \in S, NEW k, NEW kinds, ~Hit(e, k, kinds)
  PROVE  Alike(q, Append(q, e), k, kinds)
BY SomeAppend DEF Alike

LEMMA AlikeTail ==
  ASSUME NEW S, NEW q \in Seq(S), q # << >>, NEW k, NEW kinds, ~Hit(Head(q), k, kinds)
  PROVE  Alike(q, Tail(q), k, kinds)
BY SomeTail DEF Alike

OrdAlike(k) ==
  /\ Alike(ordQ, ordQ', k, {"ack"}) /\ Alike(ordQ, ordQ', k, AmendEnds)
  /\ Alike(ordQ, ordQ', k, {"amended"})
ReqAlike(k) == Alike(reqQ, reqQ', k, {"amend"})

(* The gateway has as little to do with the order as before. *)
GwAlike(k) ==
  \/ gw' = gw
  \/ /\ ~Deleting(k) /\ ~Saying(k, {"ack"} \union AmendEnds)
     /\ ~Deleting(k)' /\ ~Saying(k, {"ack"} \union AmendEnds)'

OrderAlike(k) == orders'[k].status = orders[k].status /\ Terms(orders'[k]) = Terms(orders[k])

LEMMA TrackedAlike ==
  ASSUME NEW k, Tracked(k), OrderAlike(k), Terms(book'[k]) = Terms(book[k]),
         ~Live(k)' => CancelComing(k)', ReqAlike(k), OrdAlike(k), GwAlike(k)
  PROVE  Tracked(k)'
<1>1. /\ Deleting(k)' <=> Deleting(k)
      /\ Saying(k, {"ack"})' <=> Saying(k, {"ack"})
      /\ Saying(k, AmendEnds)' <=> Saying(k, AmendEnds)
      /\ Saying(k, {"amended"})' <=> Saying(k, {"amended"})
      /\ Saying(k, {"amended"}) => gw' = gw
  BY DEF GwAlike, Deleting, Saying, Hit, AmendEnds
<1>2. (AckOut(k)' <=> AckOut(k)) /\ (OneAck(k) => OneAck(k)')
  BY <1>1 DEF AckOut, OneAck, OrdAlike, Alike
<1>3. /\ Asked(k)' <=> Asked(k)
      /\ Served(k)' <=> Served(k)
      /\ Told(k)' <=> Told(k)
  BY <1>1 DEF Asked, Served, Told, ReqAlike, OrdAlike, Alike
<1>4. (Amending(k)' <=> Amending(k)) /\ (OneAmend(k) => OneAmend(k)')
  BY <1>3 DEF Amending, OneAmend, ReqAlike, OrdAlike, Alike
<1>5. (AmendedOut(k)' <=> AmendedOut(k)) /\ (Confirms(k) => Confirms(k)')
  BY <1>1 DEF AmendedOut, Confirms, OrdAlike, Alike
<1> QED
  BY <1>2, <1>4, <1>5 DEF Tracked, OrderAlike, SameOnBook

(* Where the venue's and the gateway's side stay put. *)
LEMMA QuietSide ==
  ASSUME UNCHANGED <<gw, book, wsQ, ordQ>>, NEW k
  PROVE  /\ GwAlike(k) /\ OrdAlike(k) /\ Terms(book'[k]) = Terms(book[k]) /\ book'[k].cum = book[k].cum
         /\ OnBook' = OnBook /\ (Live(k)' <=> Live(k))
         /\ (CancelComing(k)' <=> CancelComing(k))
         /\ (Served(k)' <=> Served(k)) /\ (Told(k)' <=> Told(k))
         /\ (AckOut(k)' <=> AckOut(k)) /\ (OneAck(k)' <=> OneAck(k))
         /\ (AmendedOut(k)' <=> AmendedOut(k)) /\ (Confirms(k)' <=> Confirms(k))
BY AlikeSame DEF GwAlike, OrdAlike, OnBook, Live, CancelComing, Served, Told, AckOut, OneAck,
                 AmendedOut, Confirms, Deleting, Saying

LEMMA TrackedOwn ==
  ASSUME TypeOK, Traffic, Traffic', OwnersStay, FreshTracked, OmsActs
  PROVE  FreshTracked'
<1>1. UNCHANGED <<gw, book, wsQ, ordQ, fillQ>>
  BY OmsMoves
<1>2. reqQ \in Seq(Requests')
  BY Queues, TrafficGrows, SeqGrows DEF OwnersStay
<1>3. ASSUME NEW k \in Ids, ReqAlike(k), OrderAlike(k), Fresh(k)'
      PROVE  Tracked(k)'
  <2>1. Fresh(k)
    BY <1>1, <1>3 DEF Fresh, OnBook, IsTerminal, OrderAlike
  <2>2. Tracked(k)
    BY <2>1 DEF FreshTracked
  <2>3. ~Live(k)' => CancelComing(k)'
    BY <1>1, <2>2, QuietSide DEF Tracked
  <2> QED
    BY <1>1, <1>3, <2>2, <2>3, QuietSide, TrackedAlike
<1>4. ASSUME NEW k, ~(k \in Ids)
      PROVE  ~Fresh(k)'
  BY <1>1, <1>4 DEF Fresh, OnBook, Traffic
<1>5. CASE UNCHANGED <<orders, reqQ>>
  BY <1>3, <1>4, <1>5, AlikeSame DEF FreshTracked, ReqAlike, OrderAlike
<1>6. ASSUME NEW n, Places(n)
      PROVE  FreshTracked'
  <2> DEFINE req == Ask("new", n, Target.price, Target.qty)
  <2>1. req \in Requests' /\ Shipped(req)
    BY <1>6, SizeAssumption DEF Requests, Request, Ask, Places, Leg, Shipped
  <2>2. ASSUME NEW k \in Ids
        PROVE  ReqAlike(k) /\ OrderAlike(k)
    <3>1. ~Hit(req, k, {"amend"})
      BY DEF Hit, Ask
    <3>2. Alike(reqQ, Append(reqQ, req), k, {"amend"})
      BY <1>2, <2>1, <3>1, AlikeAppend
    <3> QED
      BY <1>6, <2>1, <3>2, AlikeSame DEF Shipped, ReqAlike, OrderAlike, Places
  <2> QED
    BY <1>3, <1>4, <2>2 DEF FreshTracked
<1>7. ASSUME NEW j, Amends(j) \/ Cancels(j), NEW k \in Ids, k # j
      PROVE  ReqAlike(k) /\ OrderAlike(k)
  <2>1. /\ j \in Ids' /\ j \in Nat /\ orders'[k] = orders[k]
    BY <1>7 DEF Amends, Cancels, SameBut
  <2>2. PICK req \in Requests' : Shipped(req) /\ req.id = j
    <3>1. j \in Nat /\ Target \in Leg => Ask("amend", j, Target.price, Target.qty) \in Requests'
      BY <2>1, SizeAssumption DEF Ask, Requests, Request, Leg
    <3>2. Ask("cancel", j, 0, 0) \in Requests'
      BY <2>1 DEF Ask, Requests, Request
    <3> QED
      BY <1>7, <2>1, <3>1, <3>2 DEF Amends, Cancels, Ask, Shipped
  <2>3. Alike(reqQ, Append(reqQ, req), k, {"amend"})
    BY <1>2, <1>7, <2>2, AlikeAppend DEF Hit
  <2> QED
    BY <2>1, <2>2, <2>3, AlikeSame DEF Shipped, ReqAlike, OrderAlike
<1>8. ASSUME NEW k \in Ids, Amends(k), Fresh(k)'
      PROVE  Tracked(k)'
  <2> DEFINE req == Ask("amend", k, Target.price, Target.qty)
  <2>1. /\ orders[k].status \in Resting /\ orders'[k].status = "PENDING_AMEND"
        /\ Terms(orders'[k]) = Terms(orders[k]) /\ Shipped(req)
        /\ k \in Ids' /\ k \in Nat /\ Target \in Leg
    BY <1>8 DEF Amends, SameTerms, Terms, SameBut
  <2>2. Tracked(k)
    BY <1>1, <1>8, <2>1 DEF FreshTracked, Fresh, OnBook, IsTerminal, Resting, Terminal
  <2>3. req \in Requests'
    BY <2>1, SizeAssumption DEF Ask, Requests, Request, Leg
  <2>4. ~Amending(k) /\ ~AckOut(k) /\ orders[k].status # "PENDING_CANCEL"
    BY <2>1, <2>2 DEF Tracked, Resting
  <2>5. Single(reqQ', k, {"amend"})
    <3>1. Single(reqQ, k, {"amend"}) /\ ~Some(reqQ, k, {"amend"})
      BY <2>2, <2>4 DEF Tracked, OneAmend, Amending, Asked
    <3>2. Single(Append(reqQ, req), k, {"amend"})
      BY <1>2, <2>3, <3>1, SomeAppend
    <3> QED
      BY <2>1, <3>1, <3>2 DEF Shipped
  <2>6. Single(ordQ', k, AmendEnds)
    BY <1>1, <2>2 DEF Tracked, OneAmend
  <2>7. OneAmend(k)' /\ SameOnBook(k)'
    <3>1. ~Served(k)' /\ ~Told(k)'
      BY <1>1, <2>4, QuietSide DEF Amending
    <3>2. SameOnBook(k)
      BY <2>2, <2>4, ConfirmedEnds DEF Tracked
    <3> QED
      BY <1>1, <2>1, <2>5, <2>6, <3>1, <3>2 DEF OneAmend, SameOnBook
  <2> QED
    BY <1>1, <2>1, <2>2, <2>4, <2>7, QuietSide DEF Tracked, Resting
<1>9. ASSUME NEW k \in Ids, Cancels(k), Fresh(k)'
      PROVE  Tracked(k)'
  <2> DEFINE req == Ask("cancel", k, 0, 0)
  <2>1. /\ orders[k].status \in Resting \union {"PENDING_AMEND"}
        /\ orders'[k].status = "PENDING_CANCEL"
        /\ Terms(orders'[k]) = Terms(orders[k]) /\ Shipped(req)
        /\ k \in Ids' /\ k \in Nat
    BY <1>9 DEF Cancels, SameTerms, Terms, SameBut, Shipped
  <2>2. Tracked(k)
    BY <1>1, <1>9, <2>1 DEF FreshTracked, Fresh, OnBook, IsTerminal, Resting, Terminal
  <2>3. req \in Requests' /\ ~Hit(req, k, {"amend"})
    BY <2>1 DEF Ask, Requests, Request, Hit
  <2>4. ReqAlike(k)
    BY <1>2, <2>1, <2>3, AlikeAppend, AlikeSame DEF ReqAlike, Shipped
  <2>5. ~AckOut(k) /\ (~AmendedOut(k) => SameOnBook(k))
    BY <2>1, <2>2 DEF Tracked, Resting
  <2>6. OneAmend(k)'
    BY <1>1, <2>2, <2>4, QuietSide DEF Tracked, OneAmend, ReqAlike, Alike, Asked
  <2>7. SameOnBook(k) => SameOnBook(k)'
    BY <1>1, <2>1 DEF SameOnBook
  <2> QED
    BY <1>1, <2>1, <2>2, <2>5, <2>6, <2>7, QuietSide DEF Tracked, Resting
<1>10. ASSUME NEW j, Amends(j) \/ Cancels(j)
       PROVE  FreshTracked'
  <2>1. Ids' = Ids
    BY <1>10 DEF Amends, Cancels, SameBut
  <2> QED
    BY <1>3, <1>7, <1>8, <1>9, <1>10, <2>1 DEF FreshTracked
<1> QED
  BY <1>5, <1>6, <1>10, OmsMoves

LEMMA EndsStay ==
  ASSUME NEW o \in Order, o.status \in Terminal
  PROVE  /\ \A e \in Answers : Answered(o, e).status \in Terminal
         /\ \A q : Filled(o, q).status \in Terminal
         /\ RolledBack(o).status \in Terminal
<1>1. \A s : Transition(o, s).status \in Terminal
  BY DEF Transition, CanMove, LegalFrom, Resting, Terminal
<1>2. RolledBack(o).status \in Terminal
  BY DEF RolledBack, Transition, CanMove, LegalFrom, Resting, Terminal, Order
<1>3. \A price, qty : Amended(o, price, qty).status \in Terminal
  BY DEF Amended, CanMove, LegalFrom, Resting, Terminal, Order
<1>4. \A q : Filled(o, q).status \in Terminal
  BY DEF Filled, IsTerminal, RecordFill, Order
<1> QED
  BY <1>1, <1>2, <1>3, <1>4 DEF Answered

(* What each answer makes of an order that has not ended. *)
LEMMA AnswerOutcomes ==
  ASSUME NEW o \in Order, o.status \notin Terminal, NEW e \in PlainAnswers
  PROVE  /\ e.kind = "ack" /\ o.status = "PENDING_NEW" =>
               Answered(o, e).status = "ACKNOWLEDGED" /\ Terms(Answered(o, e)) = Terms(o)
         /\ e.kind = "reject" =>
               Answered(o, e).status \in Terminal \/ Answered(o, e) = o
         /\ e.kind = "cancelled" => Answered(o, e).status \in Terminal
         /\ e.kind = "amend_rejected" /\ o.status \in {"PENDING_AMEND", "PENDING_CANCEL"} =>
               /\ Answered(o, e).status \in {"FILLED", "ACKNOWLEDGED"}
               /\ Terms(Answered(o, e)) = Terms(o)
         /\ e.kind = "amended" /\ o.status = "PENDING_AMEND" =>
               Answered(o, e).status = "ACKNOWLEDGED" /\ Terms(Answered(o, e)) = Terms(e)
         /\ e.kind = "amended" /\ o.status = "PENDING_CANCEL" =>
               Answered(o, e).status = "PENDING_CANCEL"
         /\ e.kind \in {"ack", "reject", "cancelled", "amend_rejected", "amended"}
<1>1. o.status \in Active
  BY DEF Order, Status
<1>2. e.kind = "ack" /\ o.status = "PENDING_NEW" =>
        Answered(o, e).status = "ACKNOWLEDGED" /\ Terms(Answered(o, e)) = Terms(o)
  <2>1. o.status = "PENDING_NEW" => "ACKNOWLEDGED" \in LegalFrom(o.status)
    BY DEF LegalFrom, Resting
  <2>2. Moved(o, "ACKNOWLEDGED").status = "ACKNOWLEDGED" /\ Terms(Moved(o, "ACKNOWLEDGED")) = Terms(o)
    BY DEF Moved, Order, Terms
  <2> QED
    BY <2>1, <2>2 DEF Answered, Transition, CanMove
<1>3. e.kind = "reject" => Answered(o, e).status \in Terminal \/ Answered(o, e) = o
  BY DEF Answered, Transition, Moved, Order, Terminal
<1>4. e.kind = "cancelled" => Answered(o, e).status \in Terminal
  BY <1>1 DEF Answered, Transition, CanMove, LegalFrom, Moved, Order, Terminal, Active, Pending, Resting
<1>5. e.kind = "amend_rejected" /\ o.status \in {"PENDING_AMEND", "PENDING_CANCEL"} =>
        /\ Answered(o, e).status \in {"FILLED", "ACKNOWLEDGED"}
        /\ Terms(Answered(o, e)) = Terms(o)
  <2>1. o.status \in {"PENDING_AMEND", "PENDING_CANCEL"} =>
          RolledBack(o).status \in {"FILLED", "ACKNOWLEDGED"}
    BY DEF RolledBack, Transition, CanMove, LegalFrom, Moved, Order, Resting
  <2> QED
    BY <2>1, RolledBackTerms DEF Answered
<1>6. e.kind = "amended" /\ o.status = "PENDING_AMEND" =>
        Answered(o, e).status = "ACKNOWLEDGED" /\ Terms(Answered(o, e)) = Terms(e)
  BY DEF Answered, Amended, CanMove, LegalFrom, Moved, Order, Terms, Resting
<1>7. e.kind = "amended" /\ o.status = "PENDING_CANCEL" => Answered(o, e).status = "PENDING_CANCEL"
  BY DEF Answered, Amended, Order
<1>8. e.kind \in {"ack", "reject", "cancelled", "amend_rejected", "amended"}
  BY DEF PlainAnswers, Answers, AnswerKinds
<1> QED
  BY <1>2, <1>3, <1>4, <1>5, <1>6, <1>7, <1>8

LEMMA TrackedAnswer ==
  ASSUME TypeOK, Traffic, Plain, FreshTracked, OrderEvent
  PROVE  FreshTracked'
<1>1. PICK e : e = Head(ordQ)
  OBVIOUS
<1>2. /\ e.id \in Ids /\ SameBut(e.id) /\ orders'[e.id] = Answered(orders[e.id], e)
      /\ ordQ # << >> /\ ordQ' = Tail(ordQ) /\ ordQ \in Seq(Answers)
      /\ UNCHANGED <<reqQ, gw, book, wsQ>>
  BY <1>1, AnswerMoves, Queues
<1>3. e \in PlainAnswers /\ e \in Answers
  BY <1>1, <1>2, HeadTailProperties DEF Plain, PlainAnswers
<1>4. \A k : /\ (Live(k)' <=> Live(k)) /\ GwAlike(k) /\ ReqAlike(k)
             /\ (Saying(k, {"ack"})' <=> Saying(k, {"ack"}))
             /\ (Saying(k, {"amended"})' <=> Saying(k, {"amended"}))
             /\ (Served(k)' <=> Served(k)) /\ (Asked(k)' <=> Asked(k))
  BY <1>2, AlikeSame DEF Live, OnBook, GwAlike, ReqAlike, Saying, Served, Asked, Deleting
<1>5. ASSUME NEW k \in Ids, Fresh(k)'
      PROVE  Tracked(k)'
  <2>1. orders[k] \in Order /\ k \in OnBook
    BY <1>2, <1>5, OrderTyped DEF TypeOK, Fresh, OnBook
  <2>2. Fresh(k) /\ Tracked(k) /\ orders[k].status \notin Terminal
    <3>1. IsTerminal(orders[k]) => IsTerminal(orders'[k])
      BY <1>2, <1>3, <2>1, EndsStay DEF IsTerminal, SameBut
    <3> QED
      BY <1>2, <1>5, <2>1, <3>1 DEF Fresh, FreshTracked, IsTerminal
  <2>3. CASE \/ k # e.id
             \/ e.kind = "reject" /\ orders'[k] = orders[k]
    <3>1. ~Hit(e, k, {"ack"}) /\ ~Hit(e, k, AmendEnds) /\ ~Hit(e, k, {"amended"}) /\ ~Hit(e, k, {"cancelled"})
      BY <2>3 DEF Hit, AmendEnds
    <3>2. OrdAlike(k) /\ (Some(Tail(ordQ), k, {"cancelled"}) <=> Some(ordQ, k, {"cancelled"}))
      BY <1>1, <1>2, <3>1, AlikeTail DEF OrdAlike, Alike
    <3>3. ~Live(k)' => CancelComing(k)'
      BY <1>2, <1>4, <2>2, <3>2 DEF Tracked, CancelComing
    <3>4. OrderAlike(k)
      BY <1>2, <2>3 DEF SameBut, OrderAlike
    <3> QED
      BY <1>2, <1>4, <2>2, <3>2, <3>3, <3>4, TrackedAlike
  <2>4. CASE k = e.id /\ e.kind = "ack"
    <3>1. Hit(e, k, {"ack"}) /\ ~Hit(e, k, AmendEnds) /\ ~Hit(e, k, {"amended"}) /\ ~Hit(e, k, {"cancelled"})
      BY <2>4 DEF Hit, AmendEnds
    <3>2. /\ Alike(ordQ, Tail(ordQ), k, AmendEnds) /\ Alike(ordQ, Tail(ordQ), k, {"amended"})
          /\ Alike(ordQ, Tail(ordQ), k, {"cancelled"})
      BY <1>1, <1>2, <3>1, AlikeTail
    <3>3. /\ Some(ordQ, k, {"ack"})
          /\ Single(ordQ, k, {"ack"}) => Single(Tail(ordQ), k, {"ack"}) /\ ~Some(Tail(ordQ), k, {"ack"})
      BY <1>1, <1>2, <3>1, SomeTail
    <3>4. orders[k].status = "PENDING_NEW" /\ ~Amending(k)
      BY <2>2, <3>3 DEF Tracked, AckOut
    <3>5. orders'[k].status = "ACKNOWLEDGED" /\ Terms(orders'[k]) = Terms(orders[k])
      BY <1>2, <1>3, <2>1, <2>2, <2>4, <3>4, AnswerOutcomes
    <3>6. OneAck(k)' /\ ~AckOut(k)'
      BY <1>2, <1>4, <2>2, <3>3 DEF Tracked, OneAck, AckOut
    <3>7. ~Amending(k)' /\ OneAmend(k)'
      BY <1>2, <1>4, <2>2, <3>2, <3>4 DEF Tracked, Amending, OneAmend, Told, Alike
    <3>8. SameOnBook(k)'
      BY <1>2, <2>2, <3>4, <3>5, ConfirmedEnds DEF Tracked, SameOnBook
    <3>9. Confirms(k)'
      BY <1>2, <1>4, <2>2, <3>2 DEF Tracked, Confirms, Alike, Saying
    <3>10. ~Live(k)' => CancelComing(k)'
      BY <1>2, <1>4, <2>2, <3>2 DEF Tracked, CancelComing, Alike
    <3> QED
      BY <3>6, <3>7, <3>8, <3>9, <3>10 DEF Tracked
  <2>5. CASE k = e.id /\ e.kind \in AmendEnds
    <3>1. Hit(e, k, AmendEnds) /\ ~Hit(e, k, {"ack"}) /\ ~Hit(e, k, {"cancelled"})
      BY <2>5 DEF Hit, AmendEnds
    <3>2. Alike(ordQ, Tail(ordQ), k, {"ack"}) /\ Alike(ordQ, Tail(ordQ), k, {"cancelled"})
      BY <1>1, <1>2, <3>1, AlikeTail
    <3>3. Told(k) /\ Single(Tail(ordQ), k, AmendEnds) /\ ~Some(Tail(ordQ), k, AmendEnds)
      <4>1. Single(ordQ, k, AmendEnds)
        BY <2>2 DEF Tracked, OneAmend
      <4> QED
        BY <1>1, <1>2, <3>1, <4>1, SomeTail DEF Told
    <3>4. /\ ~Some(Tail(ordQ), k, {"amended"})
          /\ AllAt(Tail(ordQ), k, {"amended"}, Terms(book[k]))
          /\ e.kind = "amended" => Terms(e) = Terms(book[k])
          /\ e.kind = "amend_rejected" => ~Some(ordQ, k, {"amended"})
      <4>1. ~Some(Tail(ordQ), k, {"amended"})
        BY <3>3, SomeMore DEF AmendEnds
      <4>2. AllAt(ordQ, k, {"amended"}, Terms(book[k]))
        BY <2>2 DEF Tracked, Confirms
      <4>3. Hit(e, k, {"amended"}) <=> e.kind = "amended"
        BY <2>5 DEF Hit
      <4> QED
        BY <1>1, <1>2, <4>1, <4>2, <4>3, SomeTail
    <3>5. orders[k].status \in {"PENDING_AMEND", "PENDING_CANCEL"} /\ ~AckOut(k)
          /\ ~Asked(k) /\ ~Served(k)
      BY <2>1, <2>2, <3>3 DEF Tracked, Amending, OneAmend, Order, Status, Active, Pending, Resting
    <3>6. ~Amending(k)' /\ OneAmend(k)' /\ OneAck(k)' /\ ~AckOut(k)'
      <4>1. ~Asked(k)' /\ ~Served(k)' /\ ~Told(k)'
        BY <1>2, <1>4, <3>3, <3>5 DEF Told
      <4>2. Single(reqQ', k, {"amend"}) /\ Single(ordQ', k, AmendEnds)
        BY <1>2, <2>2, <3>3 DEF Tracked, OneAmend
      <4>3. OneAck(k)' /\ ~AckOut(k)'
        BY <1>2, <1>4, <2>2, <3>2, <3>5 DEF Tracked, OneAck, AckOut, Alike
      <4> QED
        BY <4>1, <4>2, <4>3 DEF Amending, OneAmend
    <3>7. ~Saying(k, {"amended"})
      BY <3>5 DEF Served, Saying, Hit, AmendEnds
    <3>8. Confirms(k)' /\ ~AmendedOut(k)'
      BY <1>2, <1>4, <3>4, <3>7 DEF Confirms, AmendedOut
    <3>9. orders'[k].status # "PENDING_CANCEL" => SameOnBook(k)'
      <4>1. CASE e.kind = "amended"
        BY <1>2, <1>3, <2>1, <2>2, <2>5, <3>4, <3>5, <4>1, AnswerOutcomes DEF SameOnBook
      <4>2. CASE e.kind = "amend_rejected"
        <5>1. ~AmendedOut(k) /\ Amending(k)
          BY <3>3, <3>4, <3>7, <4>2 DEF AmendedOut, Amending
        <5>2. SameOnBook(k)
          BY <2>2, <5>1 DEF Tracked
        <5>3. Terms(orders'[k]) = Terms(orders[k])
          BY <1>2, <1>3, <2>1, <2>2, <2>5, <3>5, <4>2, AnswerOutcomes
        <5> QED
          BY <1>2, <5>2, <5>3 DEF SameOnBook
      <4> QED
        BY <2>5, <4>1, <4>2 DEF AmendEnds
    <3>10. ~Live(k)' => CancelComing(k)'
      BY <1>2, <1>4, <2>2, <3>2 DEF Tracked, CancelComing, Alike
    <3> QED
      BY <3>6, <3>8, <3>9, <3>10 DEF Tracked
  <2>6. CASE k = e.id /\ e.kind \in {"cancelled", "reject"} /\ orders'[k] # orders[k]
    <3>1. orders'[k].status \in Terminal
      BY <1>2, <1>3, <2>1, <2>2, <2>6, AnswerOutcomes
    <3> QED
      BY <1>5, <3>1 DEF Fresh, IsTerminal
  <2>7. CASE k = e.id /\ e.kind = "cancelled"
    BY <1>2, <1>3, <1>5, <2>1, <2>2, <2>7, AnswerOutcomes DEF Fresh, IsTerminal
  <2> QED
    BY <1>2, <1>3, <2>1, <2>2, <2>3, <2>4, <2>5, <2>6, <2>7, AnswerOutcomes DEF AmendEnds
<1> QED
  BY <1>2, <1>5 DEF FreshTracked, SameBut

(* A fill on its way is of an order that has traded. *)
LEMMA FillTraded ==
  ASSUME TypeOK, Traffic, FillConservation, fillQ # << >>, NEW e, e = Head(fillQ), NEW k \in OnBook,
         k = e.id
  PROVE  book[k].cum > 0
<1>1. fillQ \in Seq(Reports) /\ e \in Executions /\ k \in Ids /\ e.qty \in Nat \ {0}
  <2>1. e \in Executions
    BY HeadTailProperties, Queues
  <2> QED
    BY <2>1, QueuesTyped, SizeAssumption DEF Executions, Traffic
<1>2. Traded(fillQ, k) = e.qty + Traded(Tail(fillQ), k)
  <2>1. Traded(fillQ, k) = Amount(e, k) + Traded(Tail(fillQ), k)
    BY <1>1, TradedTail
  <2> QED
    BY <1>1, <2>1 DEF Amount, Executions
<1>3. Traded(Tail(fillQ), k) \in Nat /\ Traded(wsQ, k) \in Nat
  <2>1. AmountOf(k) \in [Reports -> Nat]
    BY AmountTyped DEF AmountOf
  <2>2. Tail(fillQ) \in Seq(Reports) /\ wsQ \in Seq(Reports)
    BY <1>1, HeadTailProperties, QueuesTyped
  <2>3. SumOf(Along(AmountOf(k), Tail(fillQ))) \in Nat /\ SumOf(Along(AmountOf(k), wsQ)) \in Nat
    BY <2>1, <2>2, AlongAtLeast
  <2>4. /\ Traded(Tail(fillQ), k) = SumOf(Along(AmountOf(k), Tail(fillQ)))
        /\ Traded(wsQ, k) = SumOf(Along(AmountOf(k), wsQ))
    BY <2>2, TradedAlong
  <2> QED
    BY <2>3, <2>4
<1>4. orders[k].cum \in Nat
  BY <1>1, OrderTyped DEF TypeOK, Order
<1>5. orders[k].cum + Traded(wsQ, k) + Traded(fillQ, k) = book[k].cum
  BY <1>1 DEF FillConservation
<1> QED
  BY <1>1, <1>2, <1>3, <1>4, <1>5

LEMMA TrackedFill ==
  ASSUME TypeOK, Traffic, FillConservation, FreshTracked, Fill
  PROVE  FreshTracked'
<1>1. PICK e : e = Head(fillQ)
  OBVIOUS
<1>2. /\ e.id \in Ids /\ SameBut(e.id) /\ fillQ # << >>
      /\ UNCHANGED <<reqQ, gw, book, wsQ, ordQ>>
  BY <1>1, FillMoves
<1>3. ASSUME NEW k \in Ids, Fresh(k)'
      PROVE  Tracked(k)'
  <2>1. k \in OnBook /\ book[k].cum = 0
    BY <1>2, <1>3 DEF Fresh, OnBook
  <2>2. orders'[k] = orders[k]
    BY <1>1, <1>2, <2>1, FillTraded DEF SameBut
  <2>3. Fresh(k) /\ Tracked(k)
    BY <1>3, <2>1, <2>2 DEF Fresh, FreshTracked, IsTerminal
  <2>4. ReqAlike(k) /\ OrderAlike(k)
    BY <1>2, <2>2, AlikeSame DEF ReqAlike, OrderAlike
  <2>5. ~Live(k)' => CancelComing(k)'
    BY <1>2, <2>3, QuietSide DEF Tracked
  <2> QED
    BY <1>2, <2>3, <2>4, <2>5, QuietSide, TrackedAlike
<1> QED
  BY <1>2, <1>3 DEF FreshTracked, SameBut

LEMMA TrackedSweep ==
  ASSUME TypeOK, Traffic, FreshTracked, ~LateResponses, Swept
  PROVE  FreshTracked'
<1>1. PICK stale : Sweeps(stale)
  BY SweepMoves
<1>2. ASSUME NEW k \in Ids, Fresh(k)'
      PROVE  Tracked(k)'
  <2>1. orders[k] \in Order
    BY OrderTyped DEF TypeOK
  <2>2. Fresh(k) /\ Tracked(k)
    <3>1. IsTerminal(orders[k]) => IsTerminal(orders'[k])
      BY <1>1, <2>1, EndsStay DEF IsTerminal, Sweeps
    <3> QED
      BY <1>1, <1>2, <3>1 DEF Fresh, FreshTracked, OnBook, Sweeps
  <2>3. UNCHANGED <<reqQ, gw, book, wsQ, ordQ>>
    BY <1>1 DEF Sweeps
  <2>4. ~Live(k)' => CancelComing(k)'
    BY <2>2, <2>3, QuietSide DEF Tracked
  <2>5. CASE k \notin stale
    <3>1. ReqAlike(k) /\ OrderAlike(k)
      BY <1>1, <2>3, <2>5, AlikeSame DEF ReqAlike, OrderAlike, Sweeps
    <3> QED
      BY <2>2, <2>3, <2>4, <3>1, QuietSide, TrackedAlike
  <2>6. CASE k \in stale
    <3>1. orders[k].status = "PENDING_AMEND" /\ ~AmendInFlight(k) /\ orders'[k] = RolledBack(orders[k])
      BY <1>1, <2>6 DEF Sweeps
    <3>2. ~Amending(k) /\ ~AckOut(k) /\ ~AmendedOut(k)
      BY <3>1 DEF AmendInFlight, Amending, Asked, Served, Told, AckOut, AmendedOut, Some, Hits,
                  Saying, Deleting, Hit
    <3>3. SameOnBook(k)
      BY <2>2, <3>1, <3>2 DEF Tracked
    <3>4. SameOnBook(k)'
      BY <2>1, <2>3, <3>1, <3>3, RolledBackTerms DEF SameOnBook
    <3>5. ~Amending(k)' /\ OneAmend(k)'
      BY <2>2, <2>3, <3>2, QuietSide DEF Amending, Asked, OneAmend, Tracked
    <3> QED
      BY <2>2, <2>3, <2>4, <3>2, <3>4, <3>5, QuietSide DEF Tracked
  <2> QED
    BY <2>5, <2>6
<1> QED
  BY <1>1, <1>2 DEF FreshTracked, Sweeps

(* The answer joins the queue to the OMS. *)
LEMMA TrackedReply ==
  ASSUME Traffic, FreshTracked, "reply_dropped" \notin Faults, GatewayReplies
  PROVE  FreshTracked'
<1>1. /\ UNCHANGED <<orders, reqQ, book, wsQ>>
      /\ gw.phase = "answered" /\ gw.event \in Answers /\ gw'.phase = "idle"
      /\ ordQ' = Append(ordQ, gw.event) /\ ordQ \in Seq(Answers)
  BY ReplyMoves, Queues
<1>2. ASSUME NEW k \in Ids, Fresh(k)'
      PROVE  Tracked(k)'
  <2>1. Tracked(k)
    BY <1>1, <1>2 DEF Fresh, FreshTracked, OnBook
  <2>2. \A kinds : /\ Saying(k, kinds) <=> Hit(gw.event, k, kinds)
                   /\ ~Saying(k, kinds)'
    BY <1>1 DEF Saying
  <2>3. ~Deleting(k) /\ ~Deleting(k)'
    BY <1>1 DEF Deleting
  <2>4. /\ \A kinds : Some(ordQ', k, kinds) <=> Some(ordQ, k, kinds) \/ Saying(k, kinds)
        /\ \A kinds : Single(ordQ, k, kinds) /\ ~(Some(ordQ, k, kinds) /\ Saying(k, kinds))
                        => Single(ordQ', k, kinds)
        /\ \A kinds, x : AllAt(ordQ, k, kinds, x) /\ (Saying(k, kinds) => Terms(gw.event) = x)
                           => AllAt(ordQ', k, kinds, x)
    BY <1>1, <2>2, SomeAppend
  <2>5. OneAck(k)' /\ (AckOut(k)' <=> AckOut(k))
    BY <2>1, <2>2, <2>4 DEF Tracked, OneAck, AckOut
  <2>6. OneAmend(k)' /\ (Amending(k)' <=> Amending(k))
    <3>1. (Asked(k)' <=> Asked(k)) /\ ~Served(k)' /\ (Told(k)' <=> Told(k) \/ Served(k))
      BY <1>1, <2>2, <2>3, <2>4 DEF Asked, Served, Told
    <3>2. Single(reqQ', k, {"amend"}) /\ Single(ordQ', k, AmendEnds)
      BY <1>1, <2>1, <2>3, <2>4 DEF Tracked, OneAmend, Served, Told
    <3> QED
      BY <2>1, <3>1, <3>2 DEF Tracked, OneAmend, Amending
  <2>7. Confirms(k)' /\ (AmendedOut(k)' <=> AmendedOut(k))
    BY <1>1, <2>1, <2>2, <2>4 DEF Tracked, Confirms, AmendedOut
  <2>8. (Live(k)' <=> Live(k)) /\ (CancelComing(k) => CancelComing(k)')
    BY <1>1, <2>4 DEF Live, OnBook, CancelComing
  <2>9. SameOnBook(k) => SameOnBook(k)'
    BY <1>1 DEF SameOnBook
  <2> QED
    BY <1>1, <2>1, <2>5, <2>6, <2>7, <2>8, <2>9 DEF Tracked
<1> QED
  BY <1>1, <1>2 DEF FreshTracked, Ids

LEMMA TrackedStream ==
  ASSUME Traffic, FreshTracked, UserData
  PROVE  FreshTracked'
<1>1. PICK e : e = Head(wsQ)
  OBVIOUS
<1>2. /\ UNCHANGED <<orders, reqQ, gw, book>>
      /\ e \in Reports /\ wsQ # << >> /\ wsQ' = Tail(wsQ) /\ wsQ \in Seq(Reports)
      /\ ordQ \in Seq(Answers)
      /\ \/ e.kind = "fill" /\ UNCHANGED ordQ
         \/ e.kind = "cancelled" /\ e \in Answers /\ ordQ' = Append(ordQ, e)
  BY <1>1, StreamMoves, Queues
<1>3. ASSUME NEW k \in Ids, Fresh(k)'
      PROVE  Tracked(k)'
  <2>1. Tracked(k)
    BY <1>2, <1>3 DEF Fresh, FreshTracked, OnBook
  <2>2. ~Hit(e, k, {"ack"}) /\ ~Hit(e, k, AmendEnds) /\ ~Hit(e, k, {"amended"})
    BY <1>2 DEF Hit, AmendEnds
  <2>3. OrdAlike(k)
    BY <1>2, <2>2, AlikeAppend, AlikeSame DEF OrdAlike
  <2>4. CancelComing(k) => CancelComing(k)'
    <3>1. Some(wsQ, k, {"cancelled"}) <=> Some(Tail(wsQ), k, {"cancelled"}) \/ Hit(e, k, {"cancelled"})
      BY <1>1, <1>2, SomeTail
    <3>2. CASE e.kind = "cancelled" /\ e \in Answers /\ ordQ' = Append(ordQ, e)
      <4>1. Some(Append(ordQ, e), k, {"cancelled"})
              <=> Some(ordQ, k, {"cancelled"}) \/ Hit(e, k, {"cancelled"})
        BY <1>2, <3>2, SomeAppend
      <4> QED
        BY <1>2, <3>1, <3>2, <4>1 DEF CancelComing
    <3>3. CASE e.kind = "fill" /\ UNCHANGED ordQ
      BY <1>2, <3>1, <3>3 DEF CancelComing, Hit
    <3> QED
      BY <1>2, <3>2, <3>3
  <2>5. /\ ReqAlike(k) /\ OrderAlike(k) /\ GwAlike(k) /\ (Live(k)' <=> Live(k))
        /\ Terms(book'[k]) = Terms(book[k])
    BY <1>2, AlikeSame DEF ReqAlike, OrderAlike, GwAlike, Live, OnBook
  <2>6. ~Live(k)' => CancelComing(k)'
    BY <2>1, <2>4, <2>5 DEF Tracked
  <2> QED
    BY <2>1, <2>3, <2>5, <2>6, TrackedAlike
<1> QED
  BY <1>2, <1>3 DEF FreshTracked, Ids

LEMMA FewerHits ==
  ASSUME NEW q, NEW k, NEW S, Hits(q, k, S) = {}, NEW kinds \in SUBSET S
  PROVE  ~Some(q, k, kinds) /\ Single(q, k, kinds) /\ \A x : AllAt(q, k, kinds, x)
<1>1. Hits(q, k, kinds) = {}
  BY DEF Hits
<1> QED
  BY <1>1 DEF Some, Single, Lone, AllAt

(* What a request does not concern stays as it is. *)
LEMMA ServeElsewhere ==
  ASSUME Traffic, ServeNew \/ ServeCancel \/ ServeAmend, NEW r, r = Head(reqQ)
  PROVE  /\ \A j \in OnBook \ {r.id} : book'[j] = book[j]
         /\ gw.phase = "idle" /\ reqQ \in Seq(Requests)
         /\ ServeNew \/ OnBook' = OnBook
<1>1. \/ BookUnchanged
      \/ r.id \in OnBook /\ (Pull(r.id) \/ Change(r))
      \/ ServeNew /\ Accept(r)
  BY DEF ServeNew, ServeCancel, ServeAmend, Live
<1>2. /\ \A j \in OnBook \ {r.id} : book'[j] = book[j]
      /\ ServeNew \/ OnBook' = OnBook
  <2>1. CASE r.id \in OnBook /\ (Pull(r.id) \/ Change(r))
    BY <2>1, PullRecords, ChangeRecords DEF OneRecord
  <2>2. CASE ServeNew /\ Accept(r)
    BY <2>2, AcceptRecords
  <2>3. CASE BookUnchanged
    BY <2>3 DEF BookUnchanged, OnBook
  <2> QED
    BY <1>1, <2>1, <2>2, <2>3
<1> QED
  BY <1>2, Queues DEF ServeNew, ServeCancel, ServeAmend, Serving

LEMMA TrackedOthers ==
  ASSUME Traffic, FreshTracked, ServeNew \/ ServeCancel \/ ServeAmend, NEW r, r = Head(reqQ),
         NEW k \in Ids, k # r.id, Fresh(k)'
  PROVE  Tracked(k)'
<1>1. /\ r.id \in Ids /\ reqQ # << >> /\ reqQ' = Tail(reqQ) /\ UNCHANGED <<orders, ordQ>>
      /\ OnBook \subseteq OnBook' /\ OnBook' \subseteq OnBook \union {r.id}
      /\ gw'.phase = "idle" \/ gw'.event.id = r.id
      /\ \/ wsQ' = wsQ
         \/ wsQ' = Append(wsQ, Note("cancelled", r.id)) /\ r.id \in OnBook
  BY ServeMoves
<1>2. /\ \A j \in OnBook \ {r.id} : book'[j] = book[j]
      /\ gw.phase = "idle" /\ reqQ \in Seq(Requests)
  BY ServeElsewhere
<1>3. k \in OnBook /\ book'[k] = book[k] /\ (Live(k)' <=> Live(k))
  BY <1>1, <1>2 DEF Fresh, Live
<1>4. Fresh(k) /\ Tracked(k)
  BY <1>1, <1>3 DEF Fresh, FreshTracked, IsTerminal
<1>5. ReqAlike(k) /\ OrdAlike(k) /\ OrderAlike(k)
  <2>1. Alike(reqQ, Tail(reqQ), k, {"amend"})
    BY <1>1, <1>2, AlikeTail DEF Hit
  <2> QED
    BY <1>1, <2>1, AlikeSame DEF ReqAlike, OrdAlike, OrderAlike
<1>6. GwAlike(k)
  BY <1>1, <1>2 DEF GwAlike, Deleting, Saying, Hit
<1>7. CancelComing(k) => CancelComing(k)'
  <2>1. CASE wsQ' = Append(wsQ, Note("cancelled", r.id))
    <3>1. Some(Append(wsQ, Note("cancelled", r.id)), k, {"cancelled"})
            <=> Some(wsQ, k, {"cancelled"}) \/ Hit(Note("cancelled", r.id), k, {"cancelled"})
      BY <1>1, Queues, CancelReported, SomeAppend
    <3> QED
      BY <1>1, <2>1, <3>1 DEF CancelComing
  <2> QED
    BY <1>1, <2>1 DEF CancelComing
<1> QED
  BY <1>3, <1>4, <1>5, <1>6, <1>7, TrackedAlike DEF Tracked

LEMMA TrackedNew ==
  ASSUME TypeOK, Traffic, NewIsUnknown, UnheardInv, NewTrue, ServeNew,
         NEW k, k = Head(reqQ).id, Fresh(k)'
  PROVE  Tracked(k)'
<1>1. PICK r : r = Head(reqQ)
  OBVIOUS
<1>2. /\ r \in Requests /\ k = r.id /\ k \in Ids /\ reqQ # << >> /\ reqQ' = Tail(reqQ)
      /\ UNCHANGED <<orders, ordQ>> /\ r.kind = "new" /\ reqQ \in Seq(Requests)
  BY <1>1, ServeMoves, Queues
<1>3. 1 \in DOMAIN reqQ /\ r = reqQ[1]
  BY <1>1, <1>2, HeadTailProperties, LenProperties
<1>4. k \notin OnBook /\ Unheard(k) /\ Terms(r) = Terms(orders[k])
  BY <1>2, <1>3 DEF NewIsUnknown, UnheardInv, NewTrue
<1>5. Accept(r) /\ (Answer(Note("ack", k)) \/ Answer(Note("reject", k)))
  <2>1. ~BookUnchanged
    BY <1>4 DEF BookUnchanged, Fresh, OnBook
  <2> QED
    BY <1>1, <1>2, <2>1 DEF ServeNew
<1>6. Live(k)' /\ Terms(book'[k]) = Terms(orders'[k])
  BY <1>2, <1>4, <1>5, AcceptRecords DEF Live
<1>7. orders'[k].status = "PENDING_NEW"
  BY <1>2, <1>4 DEF Unheard, Fresh, IsTerminal, Terminal
<1>8. /\ ~Some(reqQ', k, {"amend"}) /\ Single(reqQ', k, {"amend"})
      /\ ~Some(ordQ', k, {"ack"}) /\ Single(ordQ', k, {"ack"})
      /\ ~Some(ordQ', k, AmendEnds) /\ Single(ordQ', k, AmendEnds)
      /\ ~Some(ordQ', k, {"amended"}) /\ \A x : AllAt(ordQ', k, {"amended"}, x)
  <2>1. Hits(Tail(reqQ), k, {"amend", "cancel"}) = {}
    BY <1>2, <1>4, TailHits DEF Unheard
  <2>2. ~Some(Tail(reqQ), k, {"amend"}) /\ Single(Tail(reqQ), k, {"amend"})
    BY <2>1, FewerHits
  <2>3. /\ {"ack"} \in SUBSET (AnswerKinds \ {"reject"})
        /\ AmendEnds \in SUBSET (AnswerKinds \ {"reject"})
        /\ {"amended"} \in SUBSET (AnswerKinds \ {"reject"})
    BY DEF AnswerKinds, AmendEnds
  <2>4. Hits(ordQ, k, AnswerKinds \ {"reject"}) = {}
    BY <1>4 DEF Unheard
  <2>5. /\ ~Some(ordQ, k, {"ack"}) /\ Single(ordQ, k, {"ack"})
        /\ ~Some(ordQ, k, AmendEnds) /\ Single(ordQ, k, AmendEnds)
        /\ ~Some(ordQ, k, {"amended"}) /\ \A x : AllAt(ordQ, k, {"amended"}, x)
    BY <2>3, <2>4, FewerHits
  <2> QED
    BY <1>2, <2>2, <2>5
<1>9. ~Deleting(k)' /\ ~Saying(k, AmendEnds)' /\ ~Saying(k, {"amended"})'
  BY <1>5 DEF Answer, Note, Event, Deleting, Saying, Hit, AmendEnds
<1> QED
  BY <1>6, <1>7, <1>8, <1>9
     DEF Tracked, OneAck, AckOut, OneAmend, Amending, Asked, Served, Told, Confirms, AmendedOut, SameOnBook

(* An order taken off the book: the stream will say so. *)
LEMMA PullTracks ==
  ASSUME Traffic, NEW k \in OnBook, Pull(k)
  PROVE  /\ OnBook' = OnBook /\ CancelComing(k)'
         /\ Terms(book'[k]) = Terms(book[k]) /\ book'[k].cum = book[k].cum
<1>1. Some(Append(wsQ, Note("cancelled", k)), k, {"cancelled"})
  BY Queues, CancelReported, SomeAppend DEF Traffic, Hit
<1> QED
  BY <1>1, PullRecords DEF OneRecord, Pull, CancelComing

LEMMA TrackedCancel ==
  ASSUME TypeOK, Traffic, FreshTracked, Faults \intersect {"cancel_rejected", "cancel_lost"} = {},
         ServeCancel, NEW k, k = Head(reqQ).id, Fresh(k)'
  PROVE  Tracked(k)'
<1>1. /\ k \in Ids /\ reqQ # << >> /\ reqQ' = Tail(reqQ) /\ UNCHANGED <<orders, ordQ>>
      /\ Head(reqQ).kind = "cancel" /\ reqQ \in Seq(Requests) /\ gw.phase = "idle"
  BY ServeMoves, ServeElsewhere DEF ServeCancel, Serving
<1>2. \/ Live(k) /\ Pull(k) /\ NoAnswer
      \/ ~Live(k) /\ BookUnchanged /\ Answer(Note("cancelled", k))
  BY DEF ServeCancel, Fault
<1>3. GwAlike(k)
  BY <1>1, <1>2 DEF GwAlike, Deleting, Saying, Hit, NoAnswer, Answer, IdleGateway, Note, Event, AmendEnds
<1>4. ReqAlike(k) /\ OrdAlike(k) /\ OrderAlike(k)
  <2>1. Alike(reqQ, Tail(reqQ), k, {"amend"})
    BY <1>1, AlikeTail DEF Hit
  <2> QED
    BY <1>1, <2>1, AlikeSame DEF ReqAlike, OrdAlike, OrderAlike
<1>5. /\ Fresh(k) /\ Terms(book'[k]) = Terms(book[k])
      /\ CancelComing(k)' \/ (UNCHANGED <<book, wsQ>>)
  <2>1. CASE Live(k) /\ Pull(k)
    BY <1>1, <2>1, PullTracks DEF Live, Fresh, IsTerminal
  <2>2. CASE BookUnchanged
    BY <1>1, <2>2 DEF BookUnchanged, Fresh, IsTerminal, OnBook
  <2> QED
    BY <1>2, <2>1, <2>2
<1>6. Tracked(k)
  BY <1>1, <1>5 DEF FreshTracked
<1>7. ~Live(k)' => CancelComing(k)'
  BY <1>1, <1>5, <1>6 DEF Tracked, Live, OnBook, CancelComing
<1> QED
  BY <1>3, <1>4, <1>5, <1>6, <1>7, TrackedAlike

(* While its amend is asked for or served, nothing else is under way with an order. *)
LEMMA AmendAlone ==
  ASSUME NEW k, Tracked(k), Asked(k) \/ Served(k)
  PROVE  /\ orders[k].status \notin Resting \union {"PENDING_NEW"}
         /\ ~Some(ordQ, k, {"ack"}) /\ ~Some(ordQ, k, AmendEnds) /\ ~Some(ordQ, k, {"amended"})
         /\ Single(ordQ, k, {"ack"}) /\ Single(ordQ, k, AmendEnds) /\ Single(reqQ, k, {"amend"})
         /\ \A x : AllAt(ordQ, k, {"amended"}, x)
<1>1. Amending(k) /\ ~Told(k)
  BY DEF Tracked, OneAmend, Amending
<1>2. ~Some(ordQ, k, {"amended"})
  BY <1>1, SomeMore DEF Told, AmendEnds
<1>3. \A x : AllAt(ordQ, k, {"amended"}, x)
  BY <1>2 DEF AllAt, Some
<1> QED
  BY <1>1, <1>2, <1>3 DEF Tracked, OneAck, AckOut, OneAmend, Told

LEMMA TrackedAmend ==
  ASSUME TypeOK, Traffic, FreshTracked, "amend_lost" \notin Faults,
         ServeAmend, NEW k, k = Head(reqQ).id, Fresh(k)'
  PROVE  Tracked(k)'
<1>1. PICK r : r = Head(reqQ)
  OBVIOUS
<1>2. /\ r \in Requests /\ k = r.id /\ k \in Ids /\ reqQ # << >> /\ reqQ' = Tail(reqQ)
      /\ UNCHANGED <<orders, ordQ>> /\ r.kind = "amend"
      /\ reqQ \in Seq(Requests) /\ gw.phase = "idle" /\ OnBook' = OnBook
  BY <1>1, ServeMoves, ServeElsewhere DEF ServeAmend, ServeNew, Serving
<1>3. \/ ~Live(k) /\ BookUnchanged /\ Answer(Note("cancelled", k))
      \/ Live(k) /\ BookUnchanged /\ NoAnswer
      \/ Live(k) /\ Pull(k) /\ Answer(Note("cancelled", k))
      \/ Live(k) /\ Change(r) /\ Answer(Event("amended", k, r.price, r.qty))
      \/ Live(k) /\ BookUnchanged /\ Answer(Note("amend_rejected", k))
      \/ Live(k) /\ BookUnchanged /\ gw' = [phase |-> "delete", event |-> Note("none", k)]
  BY <1>1, <1>2 DEF ServeAmend, Fault
<1>4. k \in OnBook /\ Fresh(k) /\ Tracked(k)
  <2>1. k \in OnBook
    BY <1>2 DEF Fresh
  <2>2. book'[k].cum = book[k].cum
    BY <1>2, <1>3, <2>1, PullTracks, ChangeRecords DEF BookUnchanged
  <2> QED
    BY <1>2, <2>1, <2>2 DEF Fresh, FreshTracked, IsTerminal
<1>5. Hit(r, k, {"amend"})
  BY <1>2 DEF Hit
<1>6. /\ Asked(k)
      /\ Single(reqQ, k, {"amend"}) => Single(Tail(reqQ), k, {"amend"}) /\ ~Some(Tail(reqQ), k, {"amend"})
  BY <1>1, <1>2, <1>5, SomeTail DEF Asked
<1>7. /\ orders[k].status \notin Resting \union {"PENDING_NEW"}
      /\ ~Some(ordQ, k, {"ack"}) /\ ~Some(ordQ, k, AmendEnds) /\ ~Some(ordQ, k, {"amended"})
      /\ Single(ordQ, k, {"ack"}) /\ Single(ordQ, k, AmendEnds) /\ Single(reqQ, k, {"amend"})
      /\ \A x : AllAt(ordQ, k, {"amended"}, x)
  BY <1>4, <1>6, AmendAlone
<1>8. SameOnBook(k)
  BY <1>2, <1>4, <1>6, <1>7 DEF Tracked, AmendedOut, Amending, Saying
<1>9. ~Saying(k, {"ack"})'
  BY <1>3 DEF Answer, NoAnswer, IdleGateway, Note, Event, Saying, Hit
<1>10. OneAck(k)' /\ ~AckOut(k)' /\ OneAmend(k)'
  BY <1>2, <1>6, <1>7, <1>9 DEF OneAck, AckOut, OneAmend, Asked, Told
<1>11. ~Live(k)' => CancelComing(k)'
  <2>1. CASE BookUnchanged
    BY <1>2, <1>4, <2>1 DEF BookUnchanged, Live, OnBook, Tracked, CancelComing
  <2>2. CASE Pull(k)
    BY <1>4, <2>2, PullTracks
  <2>3. CASE Live(k) /\ Change(r)
    BY <1>2, <1>4, <2>3, ChangeRecords DEF Live
  <2> QED
    BY <1>3, <2>1, <2>2, <2>3
<1>12. Confirms(k)' /\ (AmendedOut(k)' \/ SameOnBook(k)')
  <2>1. CASE Live(k) /\ Change(r) /\ Answer(Event("amended", k, r.price, r.qty))
    <3>1. /\ gw'.phase = "answered" /\ gw'.event.kind = "amended" /\ gw'.event.id = k
          /\ Terms(gw'.event) = Terms(r)
      BY <2>1 DEF Answer, Event, Terms
    <3>2. Terms(book'[k]) = Terms(r)
      BY <1>2, <1>4, <2>1, ChangeRecords
    <3> QED
      BY <1>2, <1>7, <3>1, <3>2 DEF Confirms, AmendedOut, Saying, Hit
  <2>2. CASE ~Saying(k, {"amended"})' /\ (BookUnchanged \/ Pull(k))
    <3>1. Terms(book'[k]) = Terms(book[k])
      BY <1>4, <2>2, PullTracks DEF BookUnchanged
    <3> QED
      BY <1>2, <1>7, <1>8, <2>2, <3>1 DEF Confirms, SameOnBook
  <2>3. \/ Live(k) /\ Change(r) /\ Answer(Event("amended", k, r.price, r.qty))
        \/ ~Saying(k, {"amended"})' /\ (BookUnchanged \/ Pull(k))
    BY <1>3 DEF Answer, NoAnswer, IdleGateway, Note, Event, Saying, Hit
  <2> QED
    BY <2>1, <2>2, <2>3
<1> QED
  BY <1>2, <1>7, <1>10, <1>11, <1>12 DEF Tracked

LEMMA TrackedServe ==
  ASSUME TypeOK, Traffic, FreshTracked, NewIsUnknown, UnheardInv, NewTrue,
         Faults \intersect {"amend_lost", "cancel_rejected", "cancel_lost"} = {},
         ServeNew \/ ServeCancel \/ ServeAmend
  PROVE  FreshTracked'
<1>1. PICK r : r = Head(reqQ)
  OBVIOUS
<1>2. UNCHANGED orders
  BY <1>1, ServeMoves
<1>3. ASSUME NEW k \in Ids, Fresh(k)'
      PROVE  Tracked(k)'
  BY <1>1, <1>3, TrackedOthers, TrackedNew, TrackedCancel, TrackedAmend
<1> QED
  BY <1>2, <1>3 DEF FreshTracked, Ids

LEMMA TrackedDelete ==
  ASSUME TypeOK, Traffic, FreshTracked,
         Faults \intersect {"cancel_rejected", "cancel_lost"} = {}, ServeDelete
  PROVE  FreshTracked'
<1>1. PICK j : j = gw.event.id
  OBVIOUS
<1>2. /\ UNCHANGED <<orders, reqQ, ordQ>> /\ OnBook' = OnBook /\ j \in Ids /\ gw.phase = "delete"
  BY <1>1, DeleteMoves DEF ServeDelete
<1>3. /\ (Live(j) /\ Pull(j)) \/ (~Live(j) /\ BookUnchanged)
      /\ Answer(Note("cancelled", j))
  BY <1>1 DEF ServeDelete, Fault
<1>4. gw'.phase = "answered" /\ gw'.event.id = j /\ gw'.event.kind = "cancelled"
  BY <1>3 DEF Answer, Note, Event
<1>5. ASSUME NEW k \in Ids, Fresh(k)'
      PROVE  Tracked(k)'
  <2>1. k \in OnBook
    BY <1>2, <1>5 DEF Fresh
  <2>2. /\ Terms(book'[k]) = Terms(book[k]) /\ book'[k].cum = book[k].cum
        /\ CancelComing(k)' \/ ((Live(k)' <=> Live(k)) /\ (CancelComing(k) => CancelComing(k)'))
    <3>1. CASE BookUnchanged
      BY <1>2, <3>1 DEF BookUnchanged, Live, OnBook, CancelComing
    <3>2. CASE Live(j) /\ Pull(j) /\ k = j
      BY <2>1, <3>2, PullTracks
    <3>3. CASE Live(j) /\ Pull(j) /\ k # j
      <4>1. book'[k] = book[k]
        BY <2>1, <3>3, PullRecords DEF Live, OneRecord
      <4>2. Some(Append(wsQ, Note("cancelled", j)), k, {"cancelled"})
              <=> Some(wsQ, k, {"cancelled"}) \/ Hit(Note("cancelled", j), k, {"cancelled"})
        BY <1>2, Queues, CancelReported, SomeAppend
      <4> QED
        BY <1>2, <2>1, <3>3, <4>1, <4>2 DEF Live, CancelComing, Pull
    <3> QED
      BY <1>3, <3>1, <3>2, <3>3
  <2>3. Tracked(k)
    BY <1>2, <1>5, <2>1, <2>2 DEF Fresh, FreshTracked, IsTerminal
  <2>4. ~Live(k)' => CancelComing(k)'
    BY <2>2, <2>3 DEF Tracked
  <2>5. CASE k # j
    <3>1. GwAlike(k)
      BY <1>1, <1>2, <1>4, <2>5 DEF GwAlike, Deleting, Saying, Hit
    <3>2. ReqAlike(k) /\ OrdAlike(k) /\ OrderAlike(k)
      BY <1>2, AlikeSame DEF ReqAlike, OrdAlike, OrderAlike
    <3> QED
      BY <2>2, <2>3, <2>4, <3>1, <3>2, TrackedAlike
  <2>6. CASE k = j
    <3>1. Served(k)
      BY <1>1, <1>2, <2>6 DEF Served, Deleting
    <3>2. /\ orders[k].status \notin Resting \union {"PENDING_NEW"}
          /\ ~Some(ordQ, k, {"ack"}) /\ ~Some(ordQ, k, AmendEnds) /\ ~Some(ordQ, k, {"amended"})
          /\ Single(ordQ, k, {"ack"}) /\ Single(ordQ, k, AmendEnds) /\ Single(reqQ, k, {"amend"})
          /\ \A x : AllAt(ordQ, k, {"amended"}, x)
      BY <2>3, <3>1, AmendAlone
    <3>3. SameOnBook(k)
      BY <1>2, <2>3, <3>1, <3>2 DEF Tracked, AmendedOut, Amending, Saying
    <3>4. ~Deleting(k)' /\ ~Saying(k, {"ack"})' /\ ~Saying(k, AmendEnds)' /\ ~Saying(k, {"amended"})'
      BY <1>4 DEF Deleting, Saying, Hit, AmendEnds
    <3>5. OneAck(k)' /\ ~AckOut(k)' /\ OneAmend(k)' /\ Confirms(k)'
      BY <1>2, <3>2, <3>4 DEF OneAck, AckOut, OneAmend, Served, Told, Confirms
    <3>6. SameOnBook(k)'
      BY <1>2, <2>2, <3>3 DEF SameOnBook
    <3> QED
      BY <1>2, <2>4, <3>2, <3>5, <3>6 DEF Tracked
  <2> QED
    BY <2>5, <2>6
<1> QED
  BY <1>2, <1>5 DEF FreshTracked, Ids

LEMMA TrackedTrade ==
  ASSUME TypeOK, Traffic, FreshTracked, NEW j \in OnBook,
         VenueCancels(j) \/ \E q \in 1..MaxQty : VenueFills(j, q)
  PROVE  FreshTracked'
<1>1. PICK e \in Reports : wsQ' = Append(wsQ, e) /\ e.id = j
  BY TradeMoves
<1>2. UNCHANGED <<orders, reqQ, gw, ordQ>> /\ OnBook' = OnBook /\ j \in Ids
  BY TradeMoves
<1>3. ASSUME NEW k \in Ids, Fresh(k)'
      PROVE  Tracked(k)'
  <2>1. k \in OnBook /\ book'[k].cum = 0
    BY <1>2, <1>3 DEF Fresh
  <2>2. CancelComing(k) => CancelComing(k)'
    <3>1. Some(Append(wsQ, e), k, {"cancelled"}) <=> Some(wsQ, k, {"cancelled"}) \/ Hit(e, k, {"cancelled"})
      BY Queues, SomeAppend
    <3> QED
      BY <1>1, <1>2, <3>1 DEF CancelComing
  <2>3. /\ Terms(book'[k]) = Terms(book[k]) /\ book'[k].cum = book[k].cum
        /\ CancelComing(k)' \/ (Live(k)' <=> Live(k))
    <3>1. CASE VenueCancels(j) /\ k = j
      BY <2>1, <3>1, PullTracks DEF VenueCancels
    <3>2. CASE k # j
      <4>1. book'[k] = book[k]
        BY <2>1, <3>2, PullRecords, TradeRecords DEF VenueCancels, OneRecord
      <4> QED
        BY <1>2, <4>1 DEF Live
    <3>3. ASSUME NEW q \in 1..MaxQty, VenueFills(j, q), k = j
          PROVE  FALSE
      <4>1. book[k].cum \in Nat /\ book'[k].cum = book[k].cum + q /\ q \in Nat \ {0}
        BY <3>3, TradeRecords, SizeAssumption
      <4> QED
        BY <2>1, <4>1
    <3> QED
      BY <3>1, <3>2, <3>3
  <2>4. Fresh(k) /\ Tracked(k)
    BY <1>2, <1>3, <2>1, <2>3 DEF Fresh, FreshTracked, IsTerminal
  <2>5. ReqAlike(k) /\ OrdAlike(k) /\ OrderAlike(k) /\ GwAlike(k)
    BY <1>2, AlikeSame DEF ReqAlike, OrdAlike, OrderAlike, GwAlike
  <2>6. ~Live(k)' => CancelComing(k)'
    BY <2>2, <2>3, <2>4 DEF Tracked
  <2> QED
    BY <2>3, <2>4, <2>5, <2>6, TrackedAlike
<1> QED
  BY <1>2, <1>3 DEF FreshTracked, Ids

(* The venue refuses no cancel, so the OMS hears of none refused. *)
LEMMA PlainStep ==
  ASSUME TypeOK, Traffic, Plain, Faults \intersect {"cancel_rejected", "cancel_lost"} = {},
         [Next]_vars
  PROVE  Plain'
<1>1. Ids \subseteq Ids' /\ PlainAnswers \subseteq PlainAnswers'
  <2>1. Ids \subseteq Ids'
    BY ClosedStep, OwnersKept DEF OwnersStay
  <2> QED
    BY <2>1, TrafficGrows DEF PlainAnswers
<1>2. CASE UNCHANGED <<gw, ordQ>>
  BY <1>1, <1>2, SeqGrows DEF Plain
<1>3. CASE ServeNew \/ ServeCancel \/ ServeAmend \/ ServeDelete
  <2>1. UNCHANGED ordQ /\ (gw'.phase = "answered" => gw'.event.kind # "cancel_rejected")
    BY <1>3 DEF ServeNew, ServeCancel, ServeAmend, ServeDelete, Serving, Fault, Answer, NoAnswer,
                IdleGateway, Note, Event
  <2>2. gw'.phase = "answered" => gw'.event \in Answers'
    BY ClosedStep DEF Traffic
  <2> QED
    BY <1>1, <2>1, <2>2, SeqGrows DEF Plain, PlainAnswers
<1>4. CASE GatewayReplies
  <2>1. gw.phase = "answered" /\ gw'.phase = "idle"
        /\ (ordQ' = Append(ordQ, gw.event) \/ UNCHANGED ordQ)
    BY <1>4, ReplyMoves
  <2>2. gw.event \in PlainAnswers' /\ ordQ \in Seq(PlainAnswers')
    BY <1>1, <2>1, SeqGrows DEF Plain
  <2> QED
    BY <2>1, <2>2, AppendProperties DEF Plain
<1>5. CASE UserData
  <2>1. PICK e : e = Head(wsQ)
    OBVIOUS
  <2>2. /\ UNCHANGED gw
        /\ UNCHANGED ordQ \/ (e.kind = "cancelled" /\ e \in Answers /\ ordQ' = Append(ordQ, e))
    BY <1>5, <2>1, StreamMoves
  <2>3. ordQ \in Seq(PlainAnswers')
    BY <1>1, SeqGrows DEF Plain
  <2>4. e.kind = "cancelled" /\ e \in Answers => e \in PlainAnswers'
    BY <1>1 DEF PlainAnswers
  <2> QED
    BY <1>1, <2>2, <2>3, <2>4, AppendProperties DEF Plain
<1>6. CASE OrderEvent
  <2>1. ordQ # << >> /\ ordQ' = Tail(ordQ) /\ UNCHANGED gw
    BY <1>6 DEF OrderEvent
  <2>2. ordQ \in Seq(PlainAnswers')
    BY <1>1, SeqGrows DEF Plain
  <2> QED
    BY <1>1, <2>1, <2>2, HeadTailProperties DEF Plain
<1>7. CASE OmsActs \/ Fill \/ Swept \/ UNCHANGED vars
  <2>1. UNCHANGED <<gw, ordQ>>
    BY <1>7, OmsMoves DEF Fill, Swept, vars, venueVars
  <2> QED
    BY <1>2, <2>1
<1>8. CASE \E k \in OnBook : VenueCancels(k) \/ \E q \in 1..MaxQty : VenueFills(k, q)
  BY <1>2, <1>8 DEF VenueCancels, VenueFills
<1> QED
  BY <1>3, <1>4, <1>5, <1>6, <1>7, <1>8, StepCases

(* Until the venue has taken an order in, nothing changes the terms it was placed on. *)

LEMMA NewTrueKept ==
  ASSUME Traffic, NewTrue, NewIsUnknown, Ids \subseteq Ids',
         \A k \in Ids \ OnBook : Terms(orders'[k]) = Terms(orders[k]),
         reqQ' = reqQ \/ (reqQ # << >> /\ reqQ' = Tail(reqQ))
  PROVE  NewTrue'
<1>1. reqQ \in Seq(Requests)
  BY Queues
<1>2. \A n \in DOMAIN reqQ : reqQ[n].id \in Ids
  BY <1>1, LenProperties, ElementOfSeq DEF Requests
<1>3. \A n \in DOMAIN reqQ : reqQ[n].kind = "new" => Terms(reqQ[n]) = Terms(orders'[reqQ[n].id])
  BY <1>2 DEF NewTrue, NewIsUnknown
<1>4. CASE reqQ # << >> /\ reqQ' = Tail(reqQ)
  <2>1. \A n \in DOMAIN Tail(reqQ) : n + 1 \in DOMAIN reqQ /\ Tail(reqQ)[n] = reqQ[n + 1]
    BY <1>1, <1>4, HeadTailProperties, LenProperties
  <2> QED
    BY <1>3, <1>4, <2>1 DEF NewTrue
<1> QED
  BY <1>3, <1>4 DEF NewTrue

LEMMA NewTrueOwn ==
  ASSUME TypeOK, Traffic, Traffic', NewTrue, OmsActs, Ids \subseteq Ids'
  PROVE  NewTrue'
<1>1. reqQ \in Seq(Requests) /\ reqQ \in Seq(Requests')
  BY Queues, TrafficGrows, SeqGrows
<1>2. \A n \in DOMAIN reqQ : reqQ[n].id \in Ids
  BY <1>1, LenProperties, ElementOfSeq DEF Requests
<1>3. ASSUME NEW req, req \in Requests', Shipped(req),
             \A k \in Ids : Terms(orders'[k]) = Terms(orders[k]),
             req.kind = "new" => Terms(req) = Terms(orders'[req.id])
      PROVE  NewTrue'
  <2>1. \A n \in DOMAIN reqQ : reqQ[n].kind = "new" => Terms(reqQ[n]) = Terms(orders'[reqQ[n].id])
    BY <1>2, <1>3 DEF NewTrue
  <2>2. CASE reqQ' = Append(reqQ, req)
    <3>1. \A n \in DOMAIN Append(reqQ, req) :
            \/ n \in DOMAIN reqQ /\ Append(reqQ, req)[n] = reqQ[n]
            \/ Append(reqQ, req)[n] = req
      BY <1>1, <1>3, AppendProperties, LenProperties
    <3> QED
      BY <1>3, <2>1, <2>2, <3>1 DEF NewTrue
  <2> QED
    BY <1>3, <2>1, <2>2 DEF NewTrue, Shipped
<1>4. ASSUME NEW n, Places(n)
      PROVE  NewTrue'
  <2> DEFINE req == Ask("new", n, Target.price, Target.qty)
  <2>1. Shipped(req) /\ n \in Ids' /\ \A k \in Ids : Terms(orders'[k]) = Terms(orders[k])
    BY <1>4 DEF Places, Shipped
  <2>2. req \in Requests' /\ req.id = n /\ Terms(req) = <<Target.price, Target.qty>>
    BY <1>4, <2>1, SizeAssumption DEF Places, Ask, Requests, Request, Leg, Terms
  <2>3. Terms(orders'[n]) = <<Target.price, Target.qty>>
    BY <1>4 DEF Places, NewOrder, Terms
  <2> QED
    BY <1>3, <2>1, <2>2, <2>3
<1>5. ASSUME NEW j, Amends(j) \/ Cancels(j)
      PROVE  NewTrue'
  <2>1. j \in Ids' /\ \A k \in Ids : Terms(orders'[k]) = Terms(orders[k])
    BY <1>5 DEF Amends, Cancels, SameBut, SameTerms, Terms
  <2>2. PICK req \in Requests' : Shipped(req) /\ req.kind # "new"
    <3>1. j \in Nat /\ Target \in Leg => Ask("amend", j, Target.price, Target.qty) \in Requests'
      BY <2>1, SizeAssumption DEF Ask, Requests, Request, Leg
    <3>2. j \in Nat => Ask("cancel", j, 0, 0) \in Requests'
      BY <2>1 DEF Ask, Requests, Request
    <3> QED
      BY <1>5, <3>1, <3>2 DEF Amends, Cancels, Ask, Shipped
  <2> QED
    BY <1>3, <2>1, <2>2
<1>6. CASE UNCHANGED <<orders, reqQ>>
  BY <1>6 DEF NewTrue
<1> QED
  BY <1>4, <1>5, <1>6, OmsMoves

LEMMA NewTrueStep ==
  ASSUME TypeOK, Traffic, UnheardInv, NewTrue, NewIsUnknown, [Next]_vars
  PROVE  NewTrue'
<1>1. Ids \subseteq Ids' /\ Traffic'
  BY ClosedStep, OwnersKept DEF OwnersStay
<1>2. CASE OrderEvent
  <2>1. PICK e : e = Head(ordQ)
    OBVIOUS
  <2>2. /\ e \in Answers /\ e.id \in Ids /\ SameBut(e.id) /\ UNCHANGED reqQ
        /\ orders'[e.id] = Answered(orders[e.id], e) /\ ordQ # << >> /\ ordQ \in Seq(Answers)
    BY <1>2, <2>1, AnswerMoves, Queues
  <2>3. ASSUME NEW k \in Ids \ OnBook
        PROVE  Terms(orders'[k]) = Terms(orders[k])
    <3>1. CASE k = e.id
      <4>1. Hits(ordQ, k, AnswerKinds \ {"reject"}) = {}
        BY DEF UnheardInv, Unheard
      <4>2. ~Hit(Head(ordQ), k, AnswerKinds \ {"reject"})
        BY <2>2, <4>1, TailHits
      <4>3. e.kind = "reject"
        BY <2>1, <2>2, <3>1, <4>2 DEF Hit, Answers
      <4>4. orders[k] \in Order
        BY OrderTyped DEF TypeOK
      <4> QED
        BY <2>2, <3>1, <4>3, <4>4, AnsweredTerms
    <3> QED
      BY <2>2, <3>1 DEF SameBut
  <2> QED
    BY <1>1, <2>2, <2>3, NewTrueKept
<1>3. CASE Fill
  <2>1. PICK e : e = Head(fillQ)
    OBVIOUS
  <2>2. /\ e.id \in Ids /\ e.qty \in Nat /\ SameBut(e.id) /\ UNCHANGED reqQ
        /\ orders'[e.id] = Filled(orders[e.id], e.qty)
    BY <1>3, <2>1, FillMoves
  <2>3. \A k \in Ids : Terms(orders'[k]) = Terms(orders[k])
    BY <2>2, FilledTerms, OrderTyped DEF SameBut, TypeOK
  <2> QED
    BY <1>1, <2>2, <2>3, NewTrueKept
<1>4. CASE Swept
  <2>1. PICK stale : Sweeps(stale)
    BY <1>4, SweepMoves
  <2>2. \A k \in Ids : Terms(orders'[k]) = Terms(orders[k])
    BY <2>1, RolledBackTerms, OrderTyped DEF Sweeps, TypeOK
  <2> QED
    BY <1>1, <2>1, <2>2, NewTrueKept DEF Sweeps
<1>5. CASE ServeNew \/ ServeCancel \/ ServeAmend
  BY <1>1, <1>5, ServeMoves, NewTrueKept
<1>6. CASE OmsActs
  BY <1>1, <1>6, NewTrueOwn
<1>7. CASE \/ ServeDelete \/ GatewayReplies \/ UserData \/ UNCHANGED vars
           \/ \E k \in OnBook : VenueCancels(k) \/ \E q \in 1..MaxQty : VenueFills(k, q)
  <2>1. UNCHANGED <<orders, reqQ>>
    BY <1>7, DeleteMoves, ReplyMoves, StreamMoves, TradeMoves DEF vars, omsVars
  <2> QED
    BY <2>1 DEF NewTrue
<1> QED
  BY <1>2, <1>3, <1>4, <1>5, <1>6, <1>7, StepCases

LEMMA TrackedStep ==
  ASSUME TypeOK, Traffic, FillInv, UnheardInv, NewTrue, Plain, FreshTracked,
         ~LateResponses,
         Faults \intersect {"amend_lost", "reply_dropped", "cancel_rejected", "cancel_lost"} = {},
         [Next]_vars
  PROVE  FreshTracked'
<1>1. OwnersStay /\ Traffic' /\ FillConservation /\ NewIsUnknown
  BY ClosedStep, OwnersKept DEF FillInv
<1>2. CASE OmsActs
  BY <1>1, <1>2, TrackedOwn
<1>3. CASE OrderEvent \/ Fill \/ Swept
  BY <1>1, <1>3, TrackedAnswer, TrackedFill, TrackedSweep
<1>4. CASE ServeNew \/ ServeCancel \/ ServeAmend
  BY <1>1, <1>4, TrackedServe
<1>5. CASE ServeDelete \/ GatewayReplies \/ UserData
  BY <1>5, TrackedDelete, TrackedReply, TrackedStream
<1>6. CASE \E k \in OnBook : VenueCancels(k) \/ \E q \in 1..MaxQty : VenueFills(k, q)
  BY <1>6, TrackedTrade
<1>7. CASE UNCHANGED vars
  <2>1. UNCHANGED <<orders, reqQ, gw, book, wsQ, ordQ>>
    BY <1>7 DEF vars, omsVars, venueVars
  <2>2. \A k \in Ids : /\ ReqAlike(k) /\ OrdAlike(k) /\ OrderAlike(k) /\ GwAlike(k)
                       /\ (Fresh(k)' <=> Fresh(k)) /\ (Live(k)' <=> Live(k))
                       /\ (CancelComing(k)' <=> CancelComing(k))
    BY <2>1, QuietSide, AlikeSame DEF ReqAlike, OrderAlike, Fresh, OnBook, IsTerminal
  <2>3. ASSUME NEW k \in Ids, Fresh(k)'
        PROVE  Tracked(k)'
    <3>1. Tracked(k) /\ (~Live(k)' => CancelComing(k)')
      BY <2>2, <2>3 DEF FreshTracked, Tracked
    <3> QED
      BY <2>1, <2>2, <3>1, TrackedAlike
  <2> QED
    BY <2>1, <2>3 DEF FreshTracked, Ids
<1> QED
  BY <1>2, <1>3, <1>4, <1>5, <1>6, <1>7, StepCases

(* Where every amend is answered before the sweep gives it up, no answer is lost
   and the venue refuses no cancel, an order that never traded is on the book at
   the OMS's price and size once nothing is in flight, whatever orders the venue
   or the exchange cancels, rejects or refuses to amend meanwhile. *)
THEOREM UntradedSettles ==
  ASSUME ~LateResponses,
         Faults \intersect {"amend_lost", "reply_dropped", "cancel_rejected", "cancel_lost"} = {}
  PROVE  Spec => []UntradedAgree
<1>1. Init => UnheardInv /\ NewTrue /\ Plain /\ FreshTracked
  <2> SUFFICES ASSUME Init PROVE UnheardInv /\ NewTrue /\ Plain /\ FreshTracked
    OBVIOUS
  <2>1. Ids = {} /\ reqQ = << >> /\ ordQ = << >> /\ gw.phase = "idle" /\ DOMAIN reqQ = {}
    BY DEF Init, OMSInit, Ids, IdleGateway
  <2> QED
    BY <2>1, EmptySeq DEF UnheardInv, NewTrue, Plain, FreshTracked
<1>2. ASSUME TypeOK, Traffic, FillInv, UnheardInv, NewTrue, Plain, FreshTracked, [Next]_vars
      PROVE  FillInv' /\ UnheardInv' /\ NewTrue' /\ Plain' /\ FreshTracked'
  BY <1>2, FillStep, UnheardStep, NewTrueStep, PlainStep, TrackedStep DEF FillInv
<1>3. ASSUME Traffic, FreshTracked
      PROVE  UntradedAgree
  <2> SUFFICES ASSUME Quiet, NEW k \in OnBook, orders[k].status \in Resting, book[k].cum = 0
               PROVE  Agree(k)
    BY DEF UntradedAgree
  <2>1. Tracked(k) /\ orders[k].status # "PENDING_CANCEL"
    BY <1>3 DEF FreshTracked, Fresh, IsTerminal, Resting, Terminal, Traffic
  <2>2. \A q, kinds : q = << >> => ~Some(q, k, kinds)
    BY DEF Some, Hits
  <2>3. ~AmendedOut(k) /\ ~CancelComing(k)
    BY <2>2 DEF Quiet, IdleGateway, AmendedOut, CancelComing, Saying
  <2> QED
    BY <2>1, <2>3 DEF Tracked, SameOnBook, Terms, Agree
<1> QED
  BY <1>1, <1>2, <1>3, ClosedInv, FillInit, PTL DEF Spec
=============================================================================
