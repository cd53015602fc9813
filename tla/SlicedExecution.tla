-------------------------- MODULE SlicedExecution --------------------------
(***************************************************************************)
(* The sliced half of the OMS: the router that decides which legs an       *)
(* execution algorithm works (oms/router.py), the schedules of TWAP and    *)
(* VWAP (oms/execution_algos), the reconciliation of the running           *)
(* algorithms with the legs a signal declares, the driver that sends the   *)
(* slices that are due, and the snapshot of working exposure that changes  *)
(* publish for the risk engine (oms/engine.py, risk/state.py), but for the *)
(* resync's corrections, which nobody is told of.                          *)
(*                                                                         *)
(* A handler runs to its end before any other, so each is one step.  The   *)
(* legs that are not sliced are the business of module OMS, and so is the  *)
(* kind of answer a gateway gives: here any answer may arrive at any time. *)
(* Snapshots published within one handler are superseded by its last.      *)
(* Quantities are counted in a unit finer than the instrument's lot: what  *)
(* the algorithms divide is a decimal, and nothing rounds it to lots.      *)
(***************************************************************************)
EXTENDS Scene, StrategyRegistry, OrderStates, Sums

CONSTANTS
  Legs,          \* a sequence of leg ids
  Owner,         \* leg -> strategy
  Intent,        \* leg -> passive, normal or urgent
  Priced,        \* the legs with a limit price
  Threshold,     \* slice_notional_threshold, in units at the mark
  MaxSingle,     \* max_single_notional, in units at the mark
  Profile,       \* leg -> the weights of its buckets; all equal is TWAP
  Sizes,         \* the quantities a strategy asks for
  Amounts,       \* the quantities the venue speaks of: fills, totals, amended orders
  Bounds         \* the bounds a behaviour may have: signals, pauses, answers of the
                 \* gateway, slice intervals, slices, slices that meet a full queue

VARIABLES
  now, marked,  \* the clock; whether a mark is known (_latest_mark)
  children,     \* the child orders, in the order they were sent
  algo,         \* leg -> _algos: quantity, slices sent and start, or None
  snapQ,        \* the last snapshot on its way to the risk engine, or None
  known,        \* the risk engine's _working
  untold,       \* the working exposure has changed since the last snapshot: that
                \* was dropped, or the resync has corrected an order since
  losses,       \* slices that met a full queue
  answers,      \* answers of the gateway
  bound,        \* the bounds of this behaviour
  wanted,       \* history: the legs the last verdicts asked to be sliced
  began         \* history: leg -> children sent when its algorithm began

slicedVars == <<now, marked, children, algo, snapQ, known, untold, losses,
               answers, bound, wanted, began>>

AllLegs == ToSet(Legs)

OwnLegs(s) == {l \in AllLegs : Owner[l] = s}

Signals(s) == [strat : {s}, size : [OwnLegs(s) -> Sizes \union {0}]]

Nothing == [s \in Strategies |-> 0]

(* Leg ids are distinct; ConfigError where a profile is empty, negative or nil. *)
ASSUME LegAssumption ==
  /\ Legs \in Seq(AllLegs) /\ \A i, j \in DOMAIN Legs : Legs[i] = Legs[j] => i = j
  /\ Owner \in [AllLegs -> Strategies] /\ Sizes \subseteq Nat /\ Amounts \subseteq Nat \ {0}
  /\ \A l \in AllLegs : Profile[l] \in Seq(Nat) /\ Profile[l] # << >> /\ SumOf(Profile[l]) > 0

(* A snapshot is a dict, never None. *)
ASSUME SnapshotAssumption == None \notin [Strategies -> Int]

SlicedInit ==
  /\ now = 0 /\ marked = FALSE /\ children = << >>
  /\ algo = [l \in AllLegs |-> None]
  /\ snapQ = None /\ known = Nothing /\ untold = FALSE /\ losses = 0
  /\ answers = 0 /\ bound \in Bounds
  /\ wanted = {} /\ began = [l \in AllLegs |-> 0]

----------------------------------------------------------------------------
(* The router: small, passive and unpriceable legs are placed at once. *)
Notional(l, q) == IF l \in Priced \/ marked THEN q ELSE None

Limit(l) == IF Intent[l] = "urgent" THEN MaxSingle ELSE Threshold

Sliced(l, q) == Intent[l] # "passive" /\ Notional(l, q) # None /\ q > Limit(l)

(* The buckets: shares of the quantity as decimals keep them, to the unit here, and
   the last one absorbs what is left.  None is rounded to lots. *)
Plan(l, q) ==
  LET w == Profile[l]
      share == [b \in DOMAIN w |-> (q * w[b]) \div SumOf(w)]
  IN  [share EXCEPT ![Len(w)] = q - Sums(share)[Len(w) - 1]]

(* The first bucket of a sliced leg holds something, as each of TWAP's does: the
   router makes no other algorithm. *)
ASSUME PromptAssumption ==
  /\ Threshold \in Nat /\ MaxSingle \in Nat
  /\ \A l \in AllLegs, q \in Sizes : q > Limit(l) => Plan(l, q)[1] > 0

Done(l, a) == a.sent = Len(Profile[l])

----------------------------------------------------------------------------
(* The engine's state, as a handler passes it on. *)
Book == [children |-> children, algo |-> algo]

Live(b, l) == \E k \in DOMAIN b.children : b.children[k].leg = l /\ ~IsTerminal(b.children[k])

Retired(b, l) == [b EXCEPT !.algo[l] = None]

RetiredIfDone(b, l) ==
  IF b.algo[l] # None /\ Done(l, b.algo[l]) /\ ~Live(b, l) THEN Retired(b, l) ELSE b

(* next_slice.  Empty buckets are passed over; each bucket waits for its time. *)
Due(l, a) ==
  LET plan == Plan(l, a.qty)
      open == {i \in (a.sent + 1)..Len(plan) :
                 a.start + i - 1 <= now /\ \A j \in (a.sent + 1)..(i - 1) : plan[j] = 0}
  IN  [upTo |-> Max(open \union {a.sent}),
       qty |-> IF open = {} THEN 0 ELSE plan[Max(open)]]

(* Mutant: the OMS rounds what the algorithm emits down to a lot of two units. *)
ChildRounded(l, q, fits) ==
  LET lots == (q \div 2) * 2
  IN  [leg |-> l, sent |-> lots, qty |-> lots, cum |-> 0, heard |-> 0,
       status |-> IF fits THEN "PENDING_NEW" ELSE "REJECTED"]

(* _submit_child sends the quantity as the algorithm emits it; an order that meets a
   full queue is REJECTED.  heard is what the stream has reported of it so far. *)
Child(l, q, fits) ==
  [leg |-> l, sent |-> q, qty |-> q, cum |-> 0, heard |-> 0,
   status |-> IF fits THEN "PENDING_NEW" ELSE "REJECTED"]

(* _drive_algo *)
Driven(b, l, fits) ==
  IF b.algo[l] = None THEN b
  ELSE LET due == Due(l, b.algo[l])
       IN  RetiredIfDone([algo |-> [b.algo EXCEPT ![l].sent = due.upTo],
                          children |-> IF due.qty = 0 THEN b.children
                                       ELSE Append(b.children, Child(l, due.qty, fits))], l)

(* cancel_order of the children in ks: one that is PENDING_NEW cannot be cancelled
   and is passed over. *)
CancelAll(b, ks) ==
  [b EXCEPT !.children = [k \in DOMAIN b.children |->
     IF k \in ks THEN Transition(b.children[k], "PENDING_CANCEL") ELSE b.children[k]]]

ChildrenOf(b, ls) == {k \in DOMAIN b.children : b.children[k].leg \in ls}

(* working_exposures *)
Exposure(c, s) == IF Owner[c.leg] = s /\ ~IsTerminal(c) THEN Leaves(c) ELSE 0

Working(b) ==
  [s \in Strategies |-> SumOf([k \in DOMAIN b.children |-> Exposure(b.children[k], s)])]

----------------------------------------------------------------------------
(* _publish_open_orders, after whatever the handler did; a dropped snapshot heals
   with the next one. *)
PublishOpenOrders(b) ==
  \/ snapQ' = Working(b) /\ untold' = FALSE
  \/ bound.losses > 0 /\ untold' = TRUE /\ UNCHANGED snapQ

Becomes(b) == children' = b.children /\ algo' = b.algo

(* The slices of a handler fit the ORDERS queue, or meet it full. *)
Fit(fits, b) ==
  /\ Len(b.children) <= bound.slices
  /\ fits \/ Len(b.children) > Len(children)
  /\ losses' = losses + (IF fits THEN 0 ELSE 1)
  /\ losses' <= bound.losses

OnOpenOrders ==
  /\ snapQ # None
  /\ known' = snapQ /\ snapQ' = None
  /\ UNCHANGED <<now, marked, children, algo, untold, losses, answers, bound, wanted, began, registryVars>>

OnMarketData ==
  /\ ~marked /\ marked' = TRUE
  /\ UNCHANGED <<now, children, algo, snapQ, known, untold, losses, answers, bound, wanted, began, registryVars>>

Tick ==
  /\ now < bound.time /\ now' = now + 1
  /\ UNCHANGED <<marked, children, algo, snapQ, known, untold, losses, answers, bound, wanted, began, registryVars>>

(* A leg that runs goes on as it was; a new one sends what is due at once. *)
Started(b, l, q, fits) ==
  IF b.algo[l] # None THEN b
  ELSE Driven([b EXCEPT !.algo[l] = [qty |-> q, sent |-> 0, start |-> now]], l, fits)

(* Mutant: the children are cancelled, the algorithm goes on. *)
WithdrawnChildren(b, ls) == CancelAll(b, ChildrenOf(b, ls))

(* _retire_algo, then _cancel_children. *)
Withdrawn(b, ls) ==
  CancelAll([b EXCEPT !.algo = [l \in AllLegs |-> IF l \in ls THEN None ELSE @[l]]],
            ChildrenOf(b, ls))

Unwanted(x, sliced) == {l \in AllLegs : algo[l] # None /\ Owner[l] = x.strat /\ l \notin sliced}

(* _reconcile_sliced: one leg after another, after the algorithms no longer wanted. *)
Reconciled(x, sliced, fits) ==
  LET upTo[n \in 0..Len(Legs)] ==
        IF n = 0 THEN Withdrawn(Book, Unwanted(x, sliced))
        ELSE IF Legs[n] \in sliced THEN Started(upTo[n - 1], Legs[n], x.size[Legs[n]], fits)
        ELSE upTo[n - 1]
  IN  upTo[Len(Legs)]

(* _on_risk_decision, approved: the legs of the signal that are routed to an
   algorithm, in their order, after the algorithms it no longer wants. *)
Approved(fits) ==
  /\ sigQ # << >>
  /\ LET x == Head(sigQ)
         sliced == {l \in DOMAIN x.size : Sliced(l, x.size[l])}
         b == Reconciled(x, sliced, fits)
     IN  /\ Becomes(b) /\ Fit(fits, b) /\ PublishOpenOrders(b)
         /\ wanted' = {l \in wanted : Owner[l] # x.strat} \union sliced
         /\ began' = [l \in AllLegs |-> IF l \in sliced /\ algo[l] = None THEN Len(children)
                                         ELSE began[l]]
  /\ sigQ' = Tail(sigQ)
  /\ UNCHANGED <<now, marked, known, answers, bound, paused, said, inFlight>>

(* Blocked by risk, or the verdict is lost: nothing happens to what is sliced. *)
Blocked ==
  /\ sigQ # << >> /\ sigQ' = Tail(sigQ)
  /\ UNCHANGED <<paused, said, inFlight, slicedVars>>

(* _algo_driver comes to one leg. *)
DriverWakes(l, fits) ==
  LET b == Driven(Book, l, fits)
  IN  /\ algo[l] # None /\ b # Book
      /\ Becomes(b) /\ Fit(fits, b)
      /\ IF b.children # children THEN PublishOpenOrders(b) ELSE UNCHANGED <<snapQ, untold>>
      /\ UNCHANGED <<now, marked, known, answers, bound, wanted, began, registryVars>>

(* The kill switch: _cancel_all_resting. *)
OnAlert ==
  /\ Becomes(Withdrawn(Book, AllLegs)) /\ children # << >>
  /\ wanted' = {}
  /\ UNCHANGED <<now, marked, snapQ, known, untold, losses, answers, bound, began, registryVars>>

(* The dashboard pauses a strategy: the registry first, then
   cancel_strategy_orders, which finds the legs by their orders. *)
LegsSent(s) == {l \in OwnLegs(s) : ChildrenOf(Book, {l}) # {}}

PauseStrategy(s) ==
  /\ Pause(s)
  /\ Becomes(Withdrawn(Book, LegsSent(s)))
  /\ wanted' = {l \in wanted : Owner[l] # s}
  /\ UNCHANGED <<now, marked, snapQ, known, untold, losses, answers, bound, began>>

----------------------------------------------------------------------------
(* The gateway's answers *)

Answer(k, o) ==
  /\ answers < bound.answers /\ answers' = answers + 1
  /\ o # children[k]
  /\ children' = [children EXCEPT ![k] = o]
  /\ UNCHANGED <<now, marked, known, losses, bound, wanted, began, registryVars>>

OnAck(k) ==
  /\ children[k].status = "PENDING_NEW"
  /\ Answer(k, Transition(children[k], "ACKNOWLEDGED"))
  /\ UNCHANGED <<algo, snapQ, untold>>

OnEnd(k, s) ==
  /\ Answer(k, Transition(children[k], s))
  /\ PublishOpenOrders([Book EXCEPT !.children = children'])
  /\ UNCHANGED algo

OnCancelRejected(k) ==
  /\ children[k].status = "PENDING_CANCEL"
  /\ Answer(k, Transition(children[k], "ACKNOWLEDGED"))
  /\ UNCHANGED <<algo, snapQ, untold>>

(* An execution the stream reports: it may be one the resync has counted before. *)
Filled(o, q) ==
  [(IF IsTerminal(o) THEN RecordFill(o, q) ELSE ApplyFill(o, q)) EXCEPT !.heard = @ + q]

(* Mutant: a fill that leaves something open changes no exposure. *)
OnFillQuiet(k, q) ==
  /\ q <= children[k].qty - children[k].heard
  /\ Answer(k, Filled(children[k], q))
  /\ IF children'[k].status = "PARTIALLY_FILLED"
     THEN UNCHANGED <<snapQ, untold>>
     ELSE PublishOpenOrders([Book EXCEPT !.children = children'])
  /\ algo' = RetiredIfDone([Book EXCEPT !.children = children'], children[k].leg).algo

(* _on_fill: the fill that ends the last child retires an algorithm that is done;
   one that comes after the end is only recorded. *)
OnFill(k, q) ==
  LET late == IsTerminal(children[k])
      b == [Book EXCEPT !.children = children']
  IN  /\ q <= children[k].qty - children[k].heard
      /\ Answer(k, Filled(children[k], q))
      /\ algo' = (IF late THEN b ELSE RetiredIfDone(b, children[k].leg)).algo
      /\ PublishOpenOrders(b)

(* The resync's view of an order that is open here: its fills ratchet forward, its
   quantity is taken as it is, for an outsider may have amended it. *)
Corrected(o, cum, q) == [o EXCEPT !.cum = IF cum > @ THEN cum ELSE @, !.qty = q]

(* adopt_order of an order that is tracked: _refresh_adopted_order publishes nothing. *)
Refresh(k, cum, q) ==
  /\ ~IsTerminal(children[k]) /\ cum <= q
  /\ Answer(k, Corrected(children[k], cum, q))
  /\ untold' = TRUE /\ UNCHANGED <<algo, snapQ>>

(* terminalize_from_venue, from a row in which FILLED means all of it: the fills count
   even where the status may not follow, and then nothing is published. *)
Terminalize(k, s, cum) ==
  LET o == Corrected(children[k], cum, children[k].qty) IN
  /\ ~IsTerminal(children[k]) /\ cum <= children[k].qty
  /\ (s = "FILLED") <=> (cum = children[k].qty)
  /\ Answer(k, Transition(o, s))
  /\ IF CanMove(o, s) THEN PublishOpenOrders([Book EXCEPT !.children = children'])
     ELSE untold' = TRUE /\ UNCHANGED snapQ
  /\ UNCHANGED algo

SlicedNext ==
  \/ OnOpenOrders \/ OnMarketData \/ Tick \/ Blocked \/ OnAlert
  \/ \E fits \in BOOLEAN : Approved(fits) \/ \E l \in AllLegs : DriverWakes(l, fits)
  \/ \E s \in Strategies : PauseStrategy(s) \/ (Resume(s) /\ UNCHANGED slicedVars)
  \/ \E k \in DOMAIN children : \/ OnAck(k) \/ OnCancelRejected(k)
                                \/ OnEnd(k, "REJECTED") \/ OnEnd(k, "CANCELLED")
                                \/ \E q \in Amounts \union {children[k].qty} :
                                     \/ OnFill(k, q)
                                     \/ \E cum \in {0, q} : Refresh(k, cum, q)
                                     \/ \E s \in Terminal : Terminalize(k, s, q)
  \/ \E to \in {Registered} \union {<<s>> : s \in Strategies} :
       \E reply \in [ToSet(to) -> UNION {Signals(s) : s \in Strategies} \union {None}] :
         /\ \A s \in ToSet(to) : reply[s] \in Signals(s) \union {None}
         /\ Dispatch(to, reply) /\ said' <= bound.signals /\ UNCHANGED slicedVars

SlicedSpec == RegistryInit /\ SlicedInit /\ [][SlicedNext]_<<registryVars, slicedVars>>

----------------------------------------------------------------------------
Issued(l) == SumOf([k \in DOMAIN children |->
                      IF children[k].leg = l /\ k > began[l] THEN children[k].sent ELSE 0])

(* An algorithm sends no more than the quantity its leg had when it began, however
   often the leg is declared again at another size, and exactly that when its schedule
   has been sent: because the children are sent as they are divided, to the last
   decimal, and not rounded to lots on the way. *)
WithinLeg ==
  \A l \in AllLegs : algo[l] # None =>
    /\ Issued(l) <= algo[l].qty
    /\ Done(l, algo[l]) => Issued(l) = algo[l].qty

(* A slice is sent only for a leg the last approved signal of its strategy wanted
   sliced, none after the kill switch or a pause withdrew it, and none for a paused
   strategy, unless a signal of it was on its way through risk when the pause came:
   neither the driver nor the reconciliation revives what was withdrawn. *)
NoSliceUnwanted ==
  [][\A k \in DOMAIN children' \ DOMAIN children :
        LET l == children'[k].leg
        IN  l \in wanted' /\ (Owner[l] \notin paused \/ inFlight[Owner[l]])]_slicedVars

(* Once the snapshots have been handled, the risk engine works with the exposure
   the OMS has, unless the last snapshot was dropped or the resync has corrected an
   order since: every other change of what is open publishes one. *)
WorkingIsKnown == snapQ = None /\ ~untold => known = Working(Book)
=============================================================================
