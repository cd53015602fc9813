-------------------------------- MODULE OMS --------------------------------
(***************************************************************************)
(* The order management engine (oms/engine.py): signal cache, risk         *)
(* verdicts, match-or-amend-or-replace reconciliation, self-trade          *)
(* prevention, cancel loops, kill-switch and pause cleanup, gateway        *)
(* responses, fills and the stale-amend sweep.                             *)
(*                                                                         *)
(* The engine is modelled open: which gateway response or fill arrives,    *)
(* and when, is left to the environment, so what holds here holds over     *)
(* every venue.  Module BinanceFutures closes it with a gateway and a      *)
(* venue.                                                                  *)
(*                                                                         *)
(* On the AsyncioBus a publish never suspends, so a handler of the engine  *)
(* runs to its end before any other.  The handlers that loop (reconcile,   *)
(* cancel-many) are modelled one iteration per step, with the state of the *)
(* loop in recon and cancels; no other action is enabled until the loop    *)
(* has ended (Idle).                                                       *)
(*                                                                         *)
(* Left out here: sliced legs (every leg routes to a single order),        *)
(* market orders (every leg has a price), adoption of venue orders.        *)
(***************************************************************************)
EXTENDS OrderStates, Sequences, FiniteSets

CONSTANTS
  Strategies,   \* strategy ids
  Instruments,  \* instrument ids
  MaxPrice,     \* prices are 1..MaxPrice ticks
  MaxQty,       \* leg quantities are 1..MaxQty lots
  MaxLegs,      \* legs of one side in one signal, at most
  Ladders,      \* the leg sequences a strategy may declare
  StpEnabled,   \* self_trade_prevention
  SignalsExpire,\* whether a verdict may take longer than the signal TTL
  RiskClamps,   \* whether risk may approve a leg at a smaller size
  MaxSignals,   \* bound: signals emitted
  MaxDrops      \* bound: publishes lost to backpressure

Sides == {"BUY", "SELL"}
Leg   == [side: Sides, price: 1..MaxPrice, qty: 1..MaxQty]
LegsOf(legs, d) == {j \in DOMAIN legs : legs[j].side = d}

ASSUME SizeAssumption ==
  /\ MaxPrice \in Nat
  /\ MaxQty \in Nat
  /\ MaxLegs \in Nat
  /\ MaxSignals \in Nat
  /\ MaxDrops \in Nat
  /\ StpEnabled \in BOOLEAN
  /\ SignalsExpire \in BOOLEAN
  /\ RiskClamps \in BOOLEAN

ASSUME StrategyAssumption == Strategies # {} /\ Instruments # {}

(* A signal declares at most MaxLegs legs of each side. *)
ASSUME LadderAssumption ==
  /\ Ladders \subseteq Seq(Leg)
  /\ \A legs \in Ladders, d \in Sides : Cardinality(LegsOf(legs, d)) <= MaxLegs

VARIABLES
  orders,   \* _orders in insertion order; an order's id is its position
  cache,    \* _signal_cache: the signals still waiting for a verdict
  sigs,     \* number of signals emitted; a signal's id is its number
  decided,  \* id of the last signal the risk engine's verdict was taken for
  killedAt, \* -1, or the number of signals emitted when the kill switch latched
  alert,    \* the KillSwitchEvent on its way to the OMS
  recon,    \* the _reconcile_immediate loop in progress
  cancels,  \* the orders a cancel loop in progress has still to visit
  reqQ,     \* requests published on the ORDERS topic, towards the gateway
  drops     \* publishes that raised BackpressureError

omsVars == <<orders, cache, sigs, decided, killedAt, alert, recon, cancels, reqQ, drops>>

NoAmend == [price |-> 0, qty |-> 0]

Ids == DOMAIN orders

Order == [strat: Strategies, inst: Instruments, side: Sides, price: 1..MaxPrice,
          qty: Nat, cum: Nat, status: Status, pend: [price: Nat, qty: Nat]]

Signal == [id: 1..MaxSignals, strat: Strategies, inst: Instruments, legs: Ladders]

Request == [kind: {"new", "cancel", "amend"}, id: Nat, price: Nat, qty: Nat]

Idle == ~recon.on /\ cancels = {}

NoRecon == [on |-> FALSE, sig |-> 0, strat |-> CHOOSE s \in Strategies : TRUE,
            inst |-> CHOOSE i \in Instruments : TRUE,
            legs |-> << >>, todo |-> {}, resting |-> {}, matched |-> {}]

First(S) == CHOOSE i \in S : \A j \in S : i <= j

(* Mutant: only orders the venue has confirmed. *)
ConfirmedOf(s, i) == {k \in Ids : orders[k].strat = s /\ orders[k].inst = i
                                    /\ orders[k].status \in Active \ {"PENDING_NEW"}}

(* Non-terminal orders of one strategy on one instrument. *)
ActiveOf(s, i) == {k \in Ids : orders[k].strat = s /\ orders[k].inst = i
                                 /\ ~IsTerminal(orders[k])}

(***************************************************************************)
(* Publishing a request.  _safe_publish absorbs BackpressureError and      *)
(* returns FALSE.  AsyncioBus.publish fills the subscriber queues one      *)
(* after another and raises at the first full one, so a failed publish may *)
(* or may not have reached the gateway.                                    *)
(***************************************************************************)
Published(req) == reqQ' = Append(reqQ, req) /\ UNCHANGED drops

PublishFailed(req) ==
  /\ drops < MaxDrops
  /\ drops' = drops + 1
  /\ \/ UNCHANGED reqQ
     \/ reqQ' = Append(reqQ, req)

----------------------------------------------------------------------------
(* Signals, verdicts, alerts                                               *)

(***************************************************************************)
(* _on_signal.  _evict_stale_signals drops from the front of the cache     *)
(* what is older than the TTL; ids are handed out in order, so that is     *)
(* every id up to some bound.                                              *)
(***************************************************************************)
OnSignal(s, i, legs) ==
  /\ Idle
  /\ sigs < MaxSignals
  /\ sigs' = sigs + 1
  /\ \E oldest \in IF SignalsExpire THEN 1..(sigs + 1) ELSE {1} :
        cache' = {x \in cache : x.id >= oldest}
                   \union {[id |-> sigs + 1, strat |-> s, inst |-> i, legs |-> legs]}
  /\ UNCHANGED <<orders, decided, killedAt, alert, recon, cancels, reqQ, drops>>

(***************************************************************************)
(* _on_risk_decision with approved = False: _cancel_resting pulls every    *)
(* non-terminal order of the strategy on that instrument.  Verdicts come   *)
(* in the order of the signals; one that is skipped was lost, or names an  *)
(* evicted signal, which the handler ignores.  The cached signal is popped *)
(* whatever the verdict.                                                   *)
(***************************************************************************)
TakeVerdict(x) ==
  /\ Idle
  /\ x.id > decided
  /\ decided' = x.id
  /\ cache' = cache \ {x}

OnRiskBlocked(x) ==
  /\ TakeVerdict(x)
  /\ cancels' = ActiveOf(x.strat, x.inst)
  /\ UNCHANGED <<orders, sigs, killedAt, alert, recon, reqQ, drops>>

(***************************************************************************)
(* _on_risk_decision with approved = True: the surviving legs keep their   *)
(* order and their prices; risk may have clamped their quantities.  The    *)
(* resting orders are collected once, PENDING_NEW and PENDING_CANCEL       *)
(* included.  A signal emitted after the kill switch latched is never      *)
(* approved, one judged before may still be on its way.                    *)
(***************************************************************************)
OnRiskApproved(x, keep, size) ==
  /\ TakeVerdict(x)
  /\ killedAt = -1 \/ x.id <= killedAt
  /\ recon' = [on |-> TRUE, sig |-> x.id, strat |-> x.strat, inst |-> x.inst,
               legs |-> [j \in keep |-> [x.legs[j] EXCEPT !.qty = size[j]]],
               todo |-> keep, resting |-> ActiveOf(x.strat, x.inst), matched |-> {}]
  /\ UNCHANGED <<orders, sigs, killedAt, alert, cancels, reqQ, drops>>

Verdict ==
  \E x \in cache :
    \/ OnRiskBlocked(x)
    \/ \E keep \in (SUBSET DOMAIN x.legs) \ {{}} : \E size \in [keep -> 1..MaxQty] :
          /\ \A j \in keep : \/ size[j] = x.legs[j].qty
                             \/ RiskClamps /\ size[j] < x.legs[j].qty
          /\ OnRiskApproved(x, keep, size)

(* External: the risk engine latches the switch and publishes the alert.   *)
EngageKillSwitch ==
  /\ Idle
  /\ killedAt = -1
  /\ killedAt' = sigs
  /\ \/ alert' = "queued" /\ UNCHANGED drops
     \/ drops < MaxDrops /\ drops' = drops + 1 /\ UNCHANGED alert
  /\ UNCHANGED <<orders, cache, sigs, decided, recon, cancels, reqQ>>

(* _on_alert: _cancel_all_resting visits every non-terminal order. *)
OnKillAlert ==
  /\ Idle
  /\ alert = "queued"
  /\ alert' = "handled"
  /\ cancels' = {k \in Ids : ~IsTerminal(orders[k])}
  /\ UNCHANGED <<orders, cache, sigs, decided, killedAt, recon, reqQ, drops>>

(* cancel_strategy_orders, called when an operator pauses a strategy. *)
PauseStrategy(s) ==
  /\ Idle
  /\ cancels' = {k \in Ids : orders[k].strat = s /\ ~IsTerminal(orders[k])}
  /\ UNCHANGED <<orders, cache, sigs, decided, killedAt, alert, recon, reqQ, drops>>

----------------------------------------------------------------------------
(* _reconcile_immediate, one leg per step                                  *)

NextLeg == First(recon.todo)
Target == recon.legs[NextLeg]

Free  == {k \in recon.resting \ recon.matched : orders[k].side = Target.side}
Exact == {k \in Free : orders[k].price = Target.price /\ Leaves(orders[k]) = Target.qty}

Amendable == Resting

(***************************************************************************)
(* _crosses_other_strategy: a live order of another strategy on the same   *)
(* instrument and the opposite side that the leg would match, judged at    *)
(* the price that order rests at now.                                      *)
(***************************************************************************)
(* Mutant: an order is judged once the venue has confirmed it. *)
StpConfirmed == {"ACKNOWLEDGED", "PARTIALLY_FILLED", "PENDING_AMEND"}

StpLive == {"PENDING_NEW", "ACKNOWLEDGED", "PARTIALLY_FILLED", "PENDING_AMEND"}

Crosses(side, price, other) ==
  \/ side = "BUY"  /\ other.side = "SELL" /\ price >= other.price
  \/ side = "SELL" /\ other.side = "BUY"  /\ price <= other.price

StpBlocks(leg) ==
  /\ StpEnabled
  /\ \E k \in Ids : /\ orders[k].strat # recon.strat
                    /\ orders[k].inst = recon.inst
                    /\ orders[k].status \in StpLive
                    /\ Crosses(leg.side, leg.price, orders[k])

LegDone(matchedId) ==
  recon' = [recon EXCEPT !.todo = @ \ {NextLeg}, !.matched = @ \union matchedId]

(* An order already at the leg's price and size keeps its queue position. *)
KeepQuote ==
  /\ Exact # {}
  /\ LegDone({First(Exact)})
  /\ UNCHANGED <<orders, reqQ, drops>>

(* The leg waits: its order is in flight, or it would cross a sibling. *)
HoldLeg ==
  /\ Exact = {}
  /\ \/ Free = {} /\ StpBlocks(Target) /\ LegDone({})
     \/ /\ Free # {}
        /\ orders[First(Free)].status \notin Amendable \/ StpBlocks(Target)
        /\ LegDone({First(Free)})
  /\ UNCHANGED <<orders, reqQ, drops>>

(* _place_quote: an order whose request did not ship is REJECTED at once. *)
NewOrder(status) ==
  [strat |-> recon.strat, inst |-> recon.inst, side |-> Target.side,
   price |-> Target.price, qty |-> Target.qty, cum |-> 0,
   status |-> status, pend |-> NoAmend]

PlaceQuote ==
  LET req == [kind |-> "new", id |-> Len(orders) + 1,
              price |-> Target.price, qty |-> Target.qty]
  IN  /\ Exact = {} /\ Free = {} /\ ~StpBlocks(Target)
      /\ LegDone({})
      /\ \/ Published(req) /\ orders' = Append(orders, NewOrder("PENDING_NEW"))
         \/ PublishFailed(req) /\ orders' = Append(orders, NewOrder("REJECTED"))

(* _amend_quote: the outcome of the publish is ignored. *)
AmendQuote ==
  LET k   == First(Free)
      req == [kind |-> "amend", id |-> k, price |-> Target.price, qty |-> Target.qty]
  IN  /\ Exact = {} /\ Free # {}
      /\ orders[k].status \in Amendable /\ ~StpBlocks(Target)
      /\ LegDone({k})
      /\ orders' = [orders EXCEPT ![k] =
             [Moved(@, "PENDING_AMEND") EXCEPT !.pend = [price |-> Target.price,
                                                         qty |-> Target.qty]]]
      /\ Published(req) \/ PublishFailed(req)

MatchLeg ==
  /\ recon.on /\ recon.todo # {}
  /\ KeepQuote \/ HoldLeg \/ PlaceQuote \/ AmendQuote
  /\ UNCHANGED <<cache, sigs, decided, killedAt, alert, cancels>>

(* Every resting order no leg claimed is cancelled, except one mid-amend. *)
CancelUnmatched ==
  /\ recon.on /\ recon.todo = {}
  /\ cancels' = {k \in recon.resting \ recon.matched : orders[k].status # "PENDING_AMEND"}
  /\ recon' = NoRecon
  /\ UNCHANGED <<orders, cache, sigs, decided, killedAt, alert, reqQ, drops>>

(* cancel_order: the status moves first; an illegal move (PENDING_NEW,     *)
(* PENDING_CANCEL) ends the call with nothing published.                   *)
CancelOrder ==
  /\ cancels # {}
  /\ LET k   == First(cancels)
         req == [kind |-> "cancel", id |-> k, price |-> 0, qty |-> 0]
     IN  /\ cancels' = cancels \ {k}
         /\ IF CanMove(orders[k], "PENDING_CANCEL")
            THEN /\ orders' = [orders EXCEPT ![k] = Moved(@, "PENDING_CANCEL")]
                 /\ Published(req) \/ PublishFailed(req)
            ELSE UNCHANGED <<orders, reqQ, drops>>
  /\ UNCHANGED <<cache, sigs, decided, killedAt, alert, recon>>

----------------------------------------------------------------------------
(* Gateway responses (_on_order_event) and fills                           *)

Update(k, o) ==
  /\ Idle
  /\ orders' = [orders EXCEPT ![k] = o]
  /\ UNCHANGED <<cache, sigs, decided, killedAt, alert, recon, cancels, reqQ, drops>>

(* Mutant: the acknowledgement sets the status whatever it was. *)
OnAckUnchecked(k) == Update(k, Moved(orders[k], "ACKNOWLEDGED"))

OnAck(k)            == Update(k, Transition(orders[k], "ACKNOWLEDGED"))
OnReject(k)         == Update(k, Transition(orders[k], "REJECTED"))
OnCancelled(k)      == Update(k, Transition(orders[k], "CANCELLED"))
OnCancelRejected(k) == Update(k, Transition(orders[k], "ACKNOWLEDGED"))

(* Mutant: the pending amend is forgotten, the status is not. *)
RolledBackHalf(o) == [o EXCEPT !.pend = NoAmend]

(* The roll-back of a rejected or timed-out amend: FILLED if the fills have
   consumed the order meanwhile, else back to ACKNOWLEDGED. *)
RolledBack(o) ==
  LET p == [o EXCEPT !.pend = NoAmend]
  IN  Transition(p, IF Leaves(p) = 0 THEN "FILLED" ELSE "ACKNOWLEDGED")

OnAmendRejected(k) == Update(k, RolledBack(orders[k]))

(* Mutant: the resulting price and size are not taken over. *)
AmendedStatusOnly(o, price, qty) ==
  LET p == [o EXCEPT !.pend = NoAmend]
  IN  IF o.status # "PENDING_CANCEL" THEN Transition(p, "ACKNOWLEDGED") ELSE p

(* _handle_amend: price and quantity are taken only if the order can still
   move to ACKNOWLEDGED, and never on an order being cancelled. *)
Amended(o, price, qty) ==
  LET p == [o EXCEPT !.pend = NoAmend]
  IN  IF o.status # "PENDING_CANCEL" /\ CanMove(o, "ACKNOWLEDGED")
      THEN [Moved(p, "ACKNOWLEDGED") EXCEPT !.price = price, !.qty = qty]
      ELSE p

OnAmended(k, price, qty) == Update(k, Amended(orders[k], price, qty))

(* Mutant: a fill that finds its order terminal is dropped. *)
FilledIfActive(o, q) == IF IsTerminal(o) THEN o ELSE ApplyFill(o, q)

(* _on_fill: a fill on a terminal order is recorded, its status stays. *)
Filled(o, q) == IF IsTerminal(o) THEN RecordFill(o, q) ELSE ApplyFill(o, q)

OnFill(k, q) == Update(k, Filled(orders[k], q))

(* _sweep_stale_pending_amends, on the driver's timer: every amend older
   than the timeout is taken for lost. *)
Sweep(stale) ==
  /\ Idle
  /\ orders' = [k \in Ids |-> IF k \in stale THEN RolledBack(orders[k]) ELSE orders[k]]
  /\ UNCHANGED <<cache, sigs, decided, killedAt, alert, recon, cancels, reqQ, drops>>

----------------------------------------------------------------------------
OMSInit ==
  /\ orders = << >>
  /\ cache = {}
  /\ sigs = 0
  /\ decided = 0
  /\ killedAt = -1
  /\ alert = "none"
  /\ recon = NoRecon
  /\ cancels = {}
  /\ reqQ = << >>
  /\ drops = 0

(* The steps the engine takes by itself once a handler has begun. *)
Engine == MatchLeg \/ CancelUnmatched \/ CancelOrder

Response(k) ==
  \/ OnAck(k)
  \/ OnReject(k)
  \/ OnCancelled(k)
  \/ OnCancelRejected(k)
  \/ OnAmendRejected(k)
  \/ \E price \in 1..MaxPrice, qty \in 1..MaxQty : OnAmended(k, price, qty)
  \/ \E q \in 1..MaxQty : OnFill(k, q)

(* External: the gateway takes the oldest request. *)
GatewayTakes ==
  /\ reqQ # << >>
  /\ reqQ' = Tail(reqQ)
  /\ UNCHANGED <<orders, cache, sigs, decided, killedAt, alert, recon, cancels, drops>>

OMSNext ==
  \/ \E s \in Strategies, i \in Instruments, legs \in Ladders : OnSignal(s, i, legs)
  \/ Verdict
  \/ EngageKillSwitch
  \/ OnKillAlert
  \/ \E s \in Strategies : PauseStrategy(s)
  \/ Engine
  \/ \E k \in Ids : Response(k)
  \/ \E stale \in SUBSET {k \in Ids : orders[k].status = "PENDING_AMEND"} : Sweep(stale)
  \/ GatewayTakes

OMSSpec == OMSInit /\ [][OMSNext]_omsVars

----------------------------------------------------------------------------
(* Properties of the OMS alone: they hold whatever the gateway answers.    *)

(* The legs of a loop: some legs of a ladder, under their positions in it. *)
Plans == UNION {[J -> Leg] : J \in {{}} \union UNION {SUBSET DOMAIN legs : legs \in Ladders}}

Reconciliation == [on: BOOLEAN, sig: 0..MaxSignals, strat: Strategies, inst: Instruments,
                   legs: Plans, todo: SUBSET Nat, resting: SUBSET Nat, matched: SUBSET Nat]

TypeOK ==
  /\ orders \in Seq(Order)
  /\ cache \subseteq Signal
  /\ sigs \in 0..MaxSignals /\ decided \in 0..MaxSignals
  /\ killedAt \in -1..MaxSignals
  /\ alert \in {"none", "queued", "handled"}
  /\ recon \in Reconciliation
  /\ recon.todo \subseteq DOMAIN recon.legs
  /\ recon.matched \subseteq recon.resting /\ recon.resting \subseteq Ids
  /\ cancels \subseteq Ids
  /\ reqQ \in Seq(Request)
  /\ drops \in 0..MaxDrops

Working(s, i, d) == {k \in Ids : /\ orders[k].strat = s /\ orders[k].inst = i
                                  /\ orders[k].side = d /\ orders[k].status \in Active}

(* The snapshot contract of SignalEvent, on which the position limit relies:
   however fast a strategy re-quotes, and whatever is still in flight, it never
   has more orders working on a side than one signal declares there. *)
NoStacking ==
  \A s \in Strategies, i \in Instruments, d \in Sides :
     Cardinality(Working(s, i, d)) <= MaxLegs

(* While the loop runs, the orders its legs have claimed and the ones it has
   placed are no more than the legs it has been through; that is why a leg that
   finds nothing left to claim may place an order. *)
Claimed(d)   == {k \in recon.matched : orders[k].side = d}
Placed(d)    == Working(recon.strat, recon.inst, d) \ recon.resting
LegsSeen(d)  == LegsOf(recon.legs, d) \ recon.todo

LoopInv ==
  recon.on => \A d \in Sides :
    /\ IsFiniteSet(LegsOf(recon.legs, d))
    /\ Cardinality(LegsOf(recon.legs, d)) <= MaxLegs
    /\ Cardinality(Claimed(d) \union Placed(d)) <= Cardinality(LegsSeen(d))

StackingInv == TypeOK /\ NoStacking /\ LoopInv

(* The OMS implements the snapshot promise. *)
Slots == Strategies \X Instruments \X Sides

Promise == INSTANCE SnapshotQuoting WITH
  Slots    <- Slots,
  Capacity <- MaxLegs,
  working  <- [slot \in Slots |-> Working(slot[1], slot[2], slot[3])],
  retired  <- {k \in Ids : IsTerminal(orders[k])}

PromiseKept == Promise!Spec
=============================================================================
