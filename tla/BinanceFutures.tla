--------------------------- MODULE BinanceFutures ---------------------------
(***************************************************************************)
(* The OMS closed with the Binance futures order gateway                   *)
(* (order_gateways/binance/order_gateway.py), the user-data stream         *)
(* (user_data.py) and the venue as the two use it.                         *)
(*                                                                         *)
(* The gateway is one consumer of the ORDERS topic: it serves one request  *)
(* at a time, awaits the REST call, and publishes the answer.  While it    *)
(* waits the venue fills orders, the user-data stream delivers executions  *)
(* and the OMS runs.  Acks, rejects and amends come from the REST answers, *)
(* fills and cancels from the stream.  ORDERS and FILLS are two topics     *)
(* with a consumer task each, so a cancel may overtake the fill before it. *)
(*                                                                         *)
(* What the venue or the network may do wrong is one of Faults, and each   *)
(* behaviour has at most MaxFaults of them.                                *)
(***************************************************************************)
EXTENDS OMS, Sums

CONSTANTS
  Faults,        \* the faults considered
  MaxFaults,     \* bound: faults in one behaviour
  LateResponses  \* whether an answer may arrive after the amend was swept

AllFaults == {"new_rejected", "new_lost", "cancel_rejected", "cancel_lost",
              "amend_rejected", "amend_lost", "modify_limit", "would_cross",
              "venue_cancel", "reply_dropped"}

ASSUME FaultAssumption ==
  /\ Faults \subseteq AllFaults
  /\ MaxFaults \in Nat
  /\ LateResponses \in BOOLEAN

VARIABLES
  gw,      \* the gateway: the REST call in progress or the answer to publish
  book,    \* the venue's record of every order it accepted
  wsQ,     \* executions on the user-data websocket
  ordQ,    \* answers on the ORDERS topic, towards the OMS
  fillQ,   \* fills on the FILLS topic, towards the OMS
  faults   \* faults so far

venueVars == <<gw, book, wsQ, ordQ, fillQ, faults>>
vars == <<omsVars, venueVars>>

Event(kind, id, price, qty) == [kind |-> kind, id |-> id, price |-> price, qty |-> qty]
Note(kind, id) == Event(kind, id, 0, 0)

NoEvent == Note("none", 0)
IdleGateway == [phase |-> "idle", event |-> NoEvent]
Answer(e) == gw' = [phase |-> "answered", event |-> e]
NoAnswer  == gw' = IdleGateway

OnBook == DOMAIN book
Live(k) == k \in OnBook /\ book[k].live

Fault(f) == f \in Faults /\ faults < MaxFaults /\ faults' = faults + 1

BookUnchanged == UNCHANGED <<book, wsQ>>

(* The venue takes an order off the book and says so on the stream. *)
Pull(k) ==
  /\ book' = [book EXCEPT ![k].live = FALSE]
  /\ wsQ' = Append(wsQ, Note("cancelled", k))

----------------------------------------------------------------------------
(* The gateway: one request at a time                                      *)

Serving(kind) ==
  /\ gw.phase = "idle"
  /\ reqQ # << >>
  /\ Head(reqQ).kind = kind
  /\ GatewayTakes
  /\ UNCHANGED <<ordQ, fillQ>>

(* _handle_new: a REST error of any kind is published as a reject; after a
   transport error the order may be on the book all the same. *)
Accept(r) ==
  /\ book' = [k \in OnBook \union {r.id} |->
                IF k = r.id THEN [live |-> TRUE, price |-> r.price, qty |-> r.qty, cum |-> 0]
                            ELSE book[k]]
  /\ UNCHANGED wsQ

ServeNew ==
  LET r == Head(reqQ)
  IN  /\ Serving("new")
      /\ \/ Accept(r) /\ Answer(Note("ack", r.id)) /\ UNCHANGED faults
         \/ Fault("new_rejected") /\ BookUnchanged /\ Answer(Note("reject", r.id))
         \/ /\ Fault("new_lost")
            /\ Accept(r) \/ BookUnchanged
            /\ Answer(Note("reject", r.id))

(* _handle_cancel: an accepted DELETE publishes nothing, the stream will. *)
ServeCancel ==
  LET k == Head(reqQ).id
  IN  /\ Serving("cancel")
      /\ \/ Live(k) /\ Pull(k) /\ NoAnswer /\ UNCHANGED faults
         \/ ~Live(k) /\ BookUnchanged /\ Answer(Note("cancelled", k)) /\ UNCHANGED faults
         \/ Live(k) /\ Fault("cancel_rejected") /\ BookUnchanged
                    /\ Answer(Note("cancel_rejected", k))
         \/ /\ Fault("cancel_lost")
            /\ BookUnchanged \/ (Live(k) /\ Pull(k))
            /\ Answer(Note("cancel_rejected", k))

(* _handle_amend_futures.  The venue cancels a partly filled order that is
   amended to no more than what it has executed, and one whose new price
   would cross when it is post-only; it refuses an amend that changes
   nothing, and the gateway then publishes nothing. *)
Same(r)      == book[r.id].price = r.price /\ book[r.id].qty = r.qty
Exhausted(r) == r.qty <= book[r.id].cum

Change(r) ==
  /\ book' = [book EXCEPT ![r.id].price = r.price, ![r.id].qty = r.qty]
  /\ UNCHANGED wsQ

ServeAmend ==
  LET r == Head(reqQ)
      k == r.id
  IN  /\ Serving("amend")
      /\ \/ ~Live(k) /\ BookUnchanged /\ Answer(Note("cancelled", k)) /\ UNCHANGED faults
         \/ Live(k) /\ Same(r) /\ BookUnchanged /\ NoAnswer /\ UNCHANGED faults
         \/ /\ Live(k) /\ ~Same(r)
            /\ \/ Exhausted(r) /\ UNCHANGED faults
               \/ ~Exhausted(r) /\ Fault("would_cross")
            /\ Pull(k) /\ Answer(Note("cancelled", k))
         \/ /\ Live(k) /\ ~Same(r) /\ ~Exhausted(r)
            /\ Change(r) /\ Answer(Event("amended", k, r.price, r.qty)) /\ UNCHANGED faults
         \/ Live(k) /\ Fault("amend_rejected") /\ BookUnchanged
                    /\ Answer(Note("amend_rejected", k))
         \/ /\ Fault("amend_lost")
            /\ BookUnchanged \/ (Live(k) /\ ~Same(r) /\ ~Exhausted(r) /\ Change(r))
            /\ Answer(Note("amend_rejected", k))
         \/ /\ Live(k) /\ Fault("modify_limit") /\ BookUnchanged
            /\ gw' = [phase |-> "delete", event |-> Note("none", k)]

(* Mutant: the order is reported cancelled without the DELETE. *)
ReportDelete ==
  /\ gw.phase = "delete"
  /\ Answer(Note("cancelled", gw.event.id))
  /\ UNCHANGED <<omsVars, book, wsQ, ordQ, fillQ, faults>>

(* _cancel_then_terminalize: the DELETE that follows a modify-limit error. *)
ServeDelete ==
  LET k == gw.event.id
  IN  /\ gw.phase = "delete"
      /\ \/ /\ (Live(k) /\ Pull(k)) \/ (~Live(k) /\ BookUnchanged)
            /\ Answer(Note("cancelled", k)) /\ UNCHANGED faults
         \/ Live(k) /\ Fault("cancel_rejected") /\ BookUnchanged
                    /\ Answer(Note("amend_rejected", k))
         \/ /\ Fault("cancel_lost")
            /\ BookUnchanged \/ (Live(k) /\ Pull(k))
            /\ Answer(Note("amend_rejected", k))
      /\ UNCHANGED <<omsVars, ordQ, fillQ>>

(* The answer is published; _safe_publish absorbs a full bus. *)
GatewayReplies ==
  /\ gw.phase = "answered"
  /\ NoAnswer
  /\ \/ ordQ' = Append(ordQ, gw.event) /\ UNCHANGED faults
     \/ Fault("reply_dropped") /\ UNCHANGED ordQ
  /\ UNCHANGED <<omsVars, book, wsQ, fillQ>>

----------------------------------------------------------------------------
(* The venue and the user-data stream                                      *)

(* External: a trade. *)
VenueFills(k, q) ==
  /\ Live(k)
  /\ q <= book[k].qty - book[k].cum
  /\ book' = [book EXCEPT ![k].cum = @ + q,
                          ![k].live = book[k].cum + q < book[k].qty]
  /\ wsQ' = Append(wsQ, Event("fill", k, 0, q))
  /\ UNCHANGED <<omsVars, gw, ordQ, fillQ, faults>>

(* External: the venue expires or cancels an order by itself. *)
VenueCancels(k) ==
  /\ Live(k)
  /\ Fault("venue_cancel")
  /\ Pull(k)
  /\ UNCHANGED <<omsVars, gw, ordQ, fillQ>>

(* _handle_execution_report: TRADE goes to FILLS, CANCELED and EXPIRED to
   ORDERS; NEW and REPLACED are suppressed and never enter wsQ. *)
UserData ==
  /\ wsQ # << >>
  /\ wsQ' = Tail(wsQ)
  /\ IF Head(wsQ).kind = "fill"
     THEN fillQ' = Append(fillQ, Head(wsQ)) /\ UNCHANGED ordQ
     ELSE ordQ' = Append(ordQ, Head(wsQ)) /\ UNCHANGED fillQ
  /\ UNCHANGED <<omsVars, gw, book, faults>>

----------------------------------------------------------------------------
(* The OMS consumes its two queues                                         *)

OrderEvent ==
  /\ ordQ # << >>
  /\ ordQ' = Tail(ordQ)
  /\ LET e == Head(ordQ)
     IN  \/ e.kind = "ack"             /\ OnAck(e.id)
         \/ e.kind = "reject"          /\ OnReject(e.id)
         \/ e.kind = "cancelled"       /\ OnCancelled(e.id)
         \/ e.kind = "cancel_rejected" /\ OnCancelRejected(e.id)
         \/ e.kind = "amend_rejected"  /\ OnAmendRejected(e.id)
         \/ e.kind = "amended"         /\ OnAmended(e.id, e.price, e.qty)
  /\ UNCHANGED <<gw, book, wsQ, fillQ, faults>>

Fill ==
  /\ fillQ # << >>
  /\ fillQ' = Tail(fillQ)
  /\ OnFill(Head(fillQ).id, Head(fillQ).qty)
  /\ UNCHANGED <<gw, book, wsQ, ordQ, faults>>

(* An amend answers within 100ms; the sweep waits pending_amend_timeout,
   several seconds. *)
AmendInFlight(k) ==
  \/ \E n \in DOMAIN reqQ : reqQ[n].id = k /\ reqQ[n].kind = "amend"
  \/ gw.event.id = k
  \/ \E n \in DOMAIN ordQ : ordQ[n].id = k

Swept ==
  /\ \E stale \in SUBSET {k \in Ids : /\ orders[k].status = "PENDING_AMEND"
                                      /\ LateResponses \/ ~AmendInFlight(k)} :
       stale # {} /\ Sweep(stale)
  /\ UNCHANGED venueVars

----------------------------------------------------------------------------
Init ==
  /\ OMSInit
  /\ gw = IdleGateway
  /\ book = [k \in {} |-> 0]
  /\ wsQ = << >>
  /\ ordQ = << >>
  /\ fillQ = << >>
  /\ faults = 0

(* What happens to the program from outside. *)
Environment ==
  \/ \E s \in Strategies, i \in Instruments, legs \in Ladders :
        OnSignal(s, i, legs) /\ UNCHANGED venueVars
  \/ EngageKillSwitch /\ UNCHANGED venueVars
  \/ \E s \in Strategies : PauseStrategy(s) /\ UNCHANGED venueVars
  \/ \E k \in OnBook : VenueCancels(k) \/ \E q \in 1..MaxQty : VenueFills(k, q)

OMSSteps == Engine /\ UNCHANGED venueVars
Verdicts == Verdict /\ UNCHANGED venueVars
KillAlert == OnKillAlert /\ UNCHANGED venueVars
Gateway  == ServeNew \/ ServeCancel \/ ServeAmend \/ ServeDelete \/ GatewayReplies

Next ==
  \/ Environment
  \/ OMSSteps \/ Verdicts \/ KillAlert \/ OrderEvent \/ Fill \/ Swept
  \/ Gateway
  \/ UserData

Spec == Init /\ [][Next]_vars

(* Every task of the event loop that can run eventually does: the OMS's
   consumers, the risk engine's verdicts, the sweep timer, the gateway, the
   REST calls (each ends in an answer or a timeout) and the stream.  The OMS's
   own tasks take turns (Idle), and the loop serves ready tasks in order: a
   task that is ready again and again runs, hence strong fairness for them.
   Nothing obliges the market to trade, a strategy to signal or a fault to
   happen. *)
Fairness ==
  /\ WF_vars(OMSSteps) /\ WF_vars(Gateway) /\ WF_vars(UserData)
  /\ SF_vars(Verdicts) /\ SF_vars(KillAlert)
  /\ SF_vars(OrderEvent) /\ SF_vars(Fill) /\ SF_vars(Swept)

FairSpec == Spec /\ Fairness

----------------------------------------------------------------------------
(* Properties                                                              *)

(* What the executions on a queue have traded of an order. *)
Amount(e, k) == IF e.id = k /\ e.kind = "fill" THEN e.qty ELSE 0
Traded(q, k) == SumOf([n \in DOMAIN q |-> Amount(q[n], k)])

(* Every execution is accounted for exactly once: what the OMS has recorded on
   an order, terminal or not, and what is still on its way make up what the
   venue has traded (_on_fill, including the branch for terminal orders). *)
FillConservation ==
  \A k \in Ids :
     orders[k].cum + Traded(wsQ, k) + Traded(fillQ, k)
       = IF k \in OnBook THEN book[k].cum ELSE 0

NewInFlight(k) == \E n \in DOMAIN reqQ : reqQ[n].id = k /\ reqQ[n].kind = "new"

(* An order the OMS has given up as cancelled or rejected cannot trade any
   more: it is not on the book and will not get there (the gone-order answers
   of _handle_cancel and _handle_amend_futures, _cancel_then_terminalize). *)
GoneMeansGone ==
  \A k \in Ids :
     orders[k].status \in {"CANCELLED", "REJECTED"} => ~Live(k) /\ ~NewInFlight(k)

(* The snapshot contract where it counts, on the venue: a strategy never has
   more orders on the book than its signals declare (_reconcile_immediate). *)
VenueNoStacking ==
  \A s \in Strategies, i \in Instruments, d \in Sides :
     Cardinality({k \in OnBook : /\ Live(k)
                                 /\ orders[k].strat = s
                                 /\ orders[k].inst = i
                                 /\ orders[k].side = d}) <= MaxLegs

(* Nothing is on its way between the OMS and the venue. *)
Quiet ==
  /\ Idle /\ gw = IdleGateway
  /\ reqQ = << >> /\ wsQ = << >> /\ ordQ = << >> /\ fillQ = << >>

Agree(k) == /\ Live(k)
            /\ book[k].price = orders[k].price
            /\ book[k].qty = orders[k].qty

(* Once everything in flight has arrived, an order that never traded and that
   the OMS takes for resting is on the book at the OMS's price and size
   (_handle_amend, _sweep_stale_pending_amends). *)
UntradedAgree ==
  Quiet => \A k \in OnBook :
             orders[k].status \in Resting /\ book[k].cum = 0 => Agree(k)

(* The same for every order, partly filled ones included.  The code does not
   keep it: an amend confirmed after a partial fill is dropped. *)
RestingAgree ==
  Quiet => \A k \in OnBook : orders[k].status \in Resting => Agree(k)

(* Two strategies never have orders on the book that would trade with each
   other (_stp_blocks).  The code does not keep it: it judges a sibling that
   is being amended at the price it is leaving. *)
NoSelfTrade ==
  \A k, l \in OnBook :
     /\ Live(k) /\ Live(l)
     /\ orders[k].strat # orders[l].strat /\ orders[k].inst = orders[l].inst
     /\ orders[k].side = "BUY" /\ orders[l].side = "SELL"
     => book[k].price < book[l].price

(* After the kill switch, once everything in flight has arrived, no order is
   live (_cancel_all_resting).  The code does not keep it: an order in
   PENDING_NEW cannot move to PENDING_CANCEL and is skipped for good, and a
   decision on its way when the alert is handled still places orders. *)
HaltLeavesNothingLive ==
  alert = "handled" /\ Quiet => \A k \in OnBook : ~Live(k)

Waiting(k) == k \in Ids /\ orders[k].status \in Pending

(* A signal places at most one order for each of its legs. *)
MaxOrders == MaxSignals * (CHOOSE n \in {Len(legs) : legs \in Ladders} :
                             \A legs \in Ladders : Len(legs) <= n)

(* No order waits for an answer for ever: a lost amend is swept, every other
   request is answered, by the gateway or by the stream. *)
PendingResolves == \A k \in 1..MaxOrders : []<>~Waiting(k)

BeingCancelled(k) == k \in cancels /\ CanMove(orders[k], "PENDING_CANCEL")
Done(k) == k \in Ids /\ IsTerminal(orders[k])

(* A cancel that the OMS decides on ends the order, however many partial fills
   or amend answers it races with (cancel_order). *)
CancelsComplete == \A k \in 1..MaxOrders : BeingCancelled(k) ~> Done(k)
=============================================================================
