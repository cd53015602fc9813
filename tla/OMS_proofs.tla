----------------------------- MODULE OMS_proofs -----------------------------
(***************************************************************************)
(* Theorems about the OMS under every environment (OMSSpec): type          *)
(* correctness and the snapshot contract, for every set of strategies and  *)
(* instruments, every family of ladders and every bound.                   *)
(***************************************************************************)
EXTENDS OMS, TLAPS, FiniteSetTheorems, SequenceTheorems, WellFoundedInduction

----------------------------------------------------------------------------
(* Lemmas about the operators of the model                                 *)

(* First picks a member: every non-empty set of naturals has a least one. *)
LEMMA FirstMember ==
  ASSUME NEW S \in SUBSET Nat, S # {}
  PROVE  First(S) \in S
<1>1. PICK x \in S : \A y \in S : ~ (<<y, x>> \in OpToRel(<, Nat))
  BY NatLessThanWellFounded, WFMin
<1>2. ASSUME NEW y \in S, y < x
      PROVE  <<y, x>> \in OpToRel(<, Nat)
  BY <1>2, Zenon DEF OpToRel
<1>3. \A y \in S : ~ (y < x)
  BY <1>1, <1>2, Zenon
<1>4. \A y \in S : x <= y
  BY <1>3
<1> QED
  BY <1>4 DEF First

(* What every handler of a response does to an order: the fields that place it
   in a slot stay, and a terminal order stays terminal. *)
Kin(o, p) ==
  /\ p \in Order
  /\ p.strat = o.strat /\ p.inst = o.inst /\ p.side = o.side
  /\ o.status \in Terminal => p.status \in Terminal

LEMMA TransitionKin ==
  ASSUME NEW o \in Order, NEW s \in Status
  PROVE  Kin(o, Transition(o, s))
  BY DEF Kin, Transition, CanMove, Moved, LegalFrom, Order, Status, Active, Pending,
         Resting, Terminal

LEMMA KinTransitive ==
  ASSUME NEW o, NEW p, NEW q, Kin(o, p), Kin(p, q)
  PROVE  Kin(o, q)
  BY DEF Kin

LEMMA ForgetKin ==
  ASSUME NEW o \in Order
  PROVE  /\ [o EXCEPT !.pend = NoAmend] \in Order
         /\ Kin(o, [o EXCEPT !.pend = NoAmend])
  BY DEF Kin, Order, NoAmend

LEMMA RolledBackKin ==
  ASSUME NEW o \in Order
  PROVE  Kin(o, RolledBack(o))
<1> DEFINE p == [o EXCEPT !.pend = NoAmend]
           s == IF Leaves(p) = 0 THEN "FILLED" ELSE "ACKNOWLEDGED"
<1>1. p \in Order /\ Kin(o, p)
  BY ForgetKin
<1>2. s \in Status
  BY DEF Status, Active, Pending, Resting, Terminal
<1>3. Kin(p, Transition(p, s))
  BY <1>1, <1>2, TransitionKin
<1> QED
  BY <1>1, <1>3, KinTransitive DEF RolledBack

LEMMA AmendedKin ==
  ASSUME NEW o \in Order, NEW price \in 1..MaxPrice, NEW qty \in Nat
  PROVE  Kin(o, Amended(o, price, qty))
  BY DEF Kin, Amended, CanMove, Moved, LegalFrom, Order, NoAmend, Status, Active, Pending,
         Resting, Terminal

LEMMA FilledKin ==
  ASSUME NEW o \in Order, NEW q \in Nat
  PROVE  Kin(o, Filled(o, q))
<1> DEFINE p == RecordFill(o, q)
           s == IF Leaves(p) = 0 THEN "FILLED" ELSE "PARTIALLY_FILLED"
<1>1. p \in Order /\ Kin(o, p)
  BY DEF RecordFill, Order, Kin
<1>2. s \in Status
  BY DEF Status, Active, Pending, Resting, Terminal
<1>3. Kin(p, Transition(p, s))
  BY <1>1, <1>2, TransitionKin
<1> QED
  BY <1>1, <1>3, KinTransitive DEF Filled, ApplyFill

----------------------------------------------------------------------------
(* Lemmas about one step on the orders                                     *)

(* A step that adds no order and turns each into one of its kin. *)
Tame ==
  /\ orders' \in Seq(Order)
  /\ Len(orders') = Len(orders)
  /\ \A k \in Ids : Kin(orders[k], orders'[k])

LEMMA IdsInterval ==
  ASSUME orders \in Seq(Order)
  PROVE  Len(orders) \in Nat /\ Ids = 1..Len(orders) /\ Ids \in SUBSET Nat
BY LenProperties DEF Ids

LEMMA OrderTyped ==
  ASSUME orders \in Seq(Order), NEW k \in Ids
  PROVE  orders[k] \in Order
BY IdsInterval, ElementOfSeq

LEMMA SameOrdersTame ==
  ASSUME orders \in Seq(Order), UNCHANGED orders
  PROVE  Tame
BY OrderTyped DEF Tame, Kin

LEMMA OneOrderTame ==
  ASSUME orders \in Seq(Order), NEW k \in Ids, NEW o, Kin(orders[k], o),
         orders' = [orders EXCEPT ![k] = o]
  PROVE  Tame
<1>1. o \in Order
  BY DEF Kin
<1>2. Ids = 1..Len(orders)
  BY IdsInterval
<1>3. /\ orders' \in Seq(Order)
      /\ Len(orders') = Len(orders)
      /\ \A j \in 1..Len(orders) : orders'[j] = IF j = k THEN o ELSE orders[j]
  BY <1>1, <1>2, ExceptSeq
<1>4. ASSUME NEW j \in Ids
      PROVE  Kin(orders[j], orders'[j])
  BY <1>2, <1>3, OrderTyped DEF Kin
<1> QED
  BY <1>3, <1>4 DEF Tame

(* After a tame step the ids are the same, and a slot holds no new order. *)
LEMMA TameStep ==
  ASSUME orders \in Seq(Order), Tame
  PROVE  /\ Ids' = Ids
         /\ \A k \in Ids : /\ orders'[k].strat = orders[k].strat
                           /\ orders'[k].inst = orders[k].inst
                           /\ orders'[k].side = orders[k].side
         /\ \A s, i, d : Working(s, i, d)' \subseteq Working(s, i, d)
<1>1. Ids' = Ids
  BY LenProperties DEF Tame, Ids
<1>2. \A k \in Ids : orders[k] \in Order /\ orders'[k] \in Order
  BY OrderTyped DEF Tame, Kin
<1>3. \A k \in Ids : orders'[k].status \in Active => orders[k].status \in Active
  BY <1>2 DEF Tame, Kin, Order, Status, Active, Pending, Resting, Terminal
<1> QED
  BY <1>1, <1>3 DEF Tame, Kin, Working

LEMMA WorkingFinite ==
  ASSUME orders \in Seq(Order), NEW s, NEW i, NEW d
  PROVE  /\ Working(s, i, d) \subseteq Ids
         /\ IsFiniteSet(Working(s, i, d))
<1>1. Working(s, i, d) \subseteq Ids
  BY DEF Working
<1>2. IsFiniteSet(Ids)
  BY IdsInterval, FS_Interval
<1> QED
  BY <1>1, <1>2, FS_Subset

----------------------------------------------------------------------------
(* Type correctness                                                        *)

LEMMA StatusesDisjoint == Active \intersect Terminal = {} /\ Status = Active \union Terminal
BY DEF Status, Active, Pending, Resting, Terminal

LEMMA PublishedTyped ==
  ASSUME TypeOK, NEW req \in Request, Published(req) \/ PublishFailed(req)
  PROVE  reqQ' \in Seq(Request) /\ drops' \in 0..MaxDrops
BY SizeAssumption, SMTT(30) DEF TypeOK, Published, PublishFailed

LEMMA ActiveOfIds ==
  ASSUME NEW s, NEW i
  PROVE  ActiveOf(s, i) \subseteq Ids
BY DEF ActiveOf

LEMMA NoReconTyped ==
  /\ NoRecon \in Reconciliation
  /\ NoRecon.todo = {} /\ NoRecon.matched = {} /\ NoRecon.resting = {}
<1>1. NoRecon.legs \in Plans
  <2>1. << >> \in Seq(Leg) /\ Len(<< >>) = 0
    BY EmptySeq
  <2>2. << >> \in [1..0 -> Leg]
    BY <2>1, LenProperties
  <2>3. 1..0 = {}
    OBVIOUS
  <2> QED
    BY <2>2, <2>3 DEF NoRecon, Plans
<1> QED
  BY <1>1, StrategyAssumption, SizeAssumption DEF NoRecon, Reconciliation

LEMMA InitTyped == OMSInit => TypeOK
BY NoReconTyped, SizeAssumption DEF OMSInit, TypeOK

(* The steps outside the loops leave the orders alone or update some of them. *)
LEMMA SignalStep ==
  ASSUME TypeOK, NEW s \in Strategies, NEW i \in Instruments, NEW legs \in Ladders,
         OnSignal(s, i, legs)
  PROVE  TypeOK'
<1>1. sigs' \in 1..MaxSignals
  BY SizeAssumption DEF OnSignal, TypeOK
<1>2. [id |-> sigs + 1, strat |-> s, inst |-> i, legs |-> legs] \in Signal
  BY <1>1 DEF Signal, OnSignal
<1>3. cache' \subseteq Signal
  BY <1>2 DEF OnSignal, TypeOK
<1> QED
  BY <1>1, <1>3 DEF OnSignal, TypeOK, Ids

LEMMA BlockedStep ==
  ASSUME TypeOK, NEW x \in cache, OnRiskBlocked(x)
  PROVE  TypeOK'
BY ActiveOfIds DEF OnRiskBlocked, TakeVerdict, TypeOK, Signal, Ids

LEMMA ApprovedPlan ==
  ASSUME NEW legs \in Ladders, NEW keep \in SUBSET DOMAIN legs,
         NEW size \in [keep -> 1..MaxQty]
  PROVE  /\ [j \in keep |-> [legs[j] EXCEPT !.qty = size[j]]] \in Plans
         /\ keep \subseteq Nat
<1>1. legs \in Seq(Leg)
  BY LadderAssumption
<1>2. DOMAIN legs = 1..Len(legs) /\ Len(legs) \in Nat /\ \A j \in DOMAIN legs : legs[j] \in Leg
  BY <1>1, LenProperties, ElementOfSeq
<1>3. \A j \in keep : [legs[j] EXCEPT !.qty = size[j]] \in Leg
  BY <1>2 DEF Leg
<1>4. [j \in keep |-> [legs[j] EXCEPT !.qty = size[j]]] \in [keep -> Leg]
  BY <1>3
<1> QED
  BY <1>2, <1>4 DEF Plans

LEMMA ApprovedStep ==
  ASSUME TypeOK, NEW x \in cache, NEW keep \in SUBSET DOMAIN x.legs,
         NEW size \in [keep -> 1..MaxQty], OnRiskApproved(x, keep, size)
  PROVE  TypeOK'
<1>1. x \in Signal
  BY DEF TypeOK
<1>2. x.id \in 1..MaxSignals /\ x.strat \in Strategies /\ x.inst \in Instruments
        /\ x.legs \in Ladders
  BY <1>1 DEF Signal
<1>3. /\ [j \in keep |-> [x.legs[j] EXCEPT !.qty = size[j]]] \in Plans
      /\ keep \subseteq Nat
  BY <1>2, ApprovedPlan
<1>4. ActiveOf(x.strat, x.inst) \subseteq Ids /\ Ids \in SUBSET Nat
  BY ActiveOfIds, IdsInterval DEF TypeOK
<1>5. recon' \in Reconciliation
  BY <1>2, <1>3, <1>4, SizeAssumption DEF OnRiskApproved, Reconciliation
<1>6. /\ recon'.todo \subseteq DOMAIN recon'.legs
      /\ recon'.matched \subseteq recon'.resting /\ recon'.resting \subseteq Ids
  BY <1>4 DEF OnRiskApproved
<1>7. UNCHANGED <<orders, sigs, killedAt, alert, cancels, reqQ, drops>>
        /\ cache' \subseteq cache /\ decided' = x.id
  BY DEF OnRiskApproved, TakeVerdict
<1> QED
  BY <1>2, <1>5, <1>6, <1>7, SizeAssumption DEF TypeOK, Ids

LEMMA CleanupStep ==
  ASSUME TypeOK,
         EngageKillSwitch \/ OnKillAlert \/ (\E s \in Strategies : PauseStrategy(s))
  PROVE  TypeOK'
<1>1. CASE EngageKillSwitch
  BY <1>1, SizeAssumption DEF EngageKillSwitch, TypeOK, Ids
<1>2. CASE OnKillAlert
  BY <1>2 DEF OnKillAlert, TypeOK, Ids
<1>3. CASE \E s \in Strategies : PauseStrategy(s)
  BY <1>3 DEF PauseStrategy, TypeOK, Ids
<1> QED
  BY <1>1, <1>2, <1>3

(* Inside the reconcile loop: the leg in hand, and the orders it may claim. *)
LEMMA LegInHand ==
  ASSUME TypeOK, recon.todo # {}
  PROVE  NextLeg \in recon.todo /\ NextLeg \in DOMAIN recon.legs /\ Target \in Leg
<1>1. recon.todo \in SUBSET Nat /\ recon.todo \subseteq DOMAIN recon.legs
        /\ recon.legs \in Plans
  BY DEF TypeOK, Reconciliation
<1>2. NextLeg \in recon.todo
  BY <1>1, FirstMember DEF NextLeg
<1>3. \A j \in DOMAIN recon.legs : recon.legs[j] \in Leg
  BY <1>1 DEF Plans
<1> QED
  BY <1>1, <1>2, <1>3 DEF Target

LEMMA FreeMember ==
  ASSUME TypeOK, NEW F \in SUBSET Free, F # {}
  PROVE  /\ First(F) \in F
         /\ First(F) \in recon.resting
         /\ First(F) \in Ids
         /\ orders[First(F)].side = Target.side
<1>1. Free \subseteq recon.resting /\ recon.resting \subseteq Ids /\ Ids \in SUBSET Nat
  BY IdsInterval DEF Free, TypeOK
<1>2. F \in SUBSET Nat
  BY <1>1
<1>3. First(F) \in F
  BY <1>2, FirstMember
<1> QED
  BY <1>1, <1>3 DEF Free

(* A leg ends by claiming nothing, or one order of its own side. *)
Claim(M) ==
  /\ LegDone(M)
  /\ M \in SUBSET recon.resting
  /\ M = {} \/ \E k \in Ids : M = {k} /\ orders[k].side = Target.side

LEMMA KeepOrHoldClaims ==
  ASSUME TypeOK, KeepQuote \/ HoldLeg
  PROVE  UNCHANGED <<orders, reqQ, drops>> /\ \E M : Claim(M)
<1>1. CASE KeepQuote
  <2>1. Exact \in SUBSET Free /\ Exact # {}
    BY <1>1 DEF KeepQuote, Exact
  <2>2. Claim({First(Exact)})
    BY <1>1, <2>1, FreeMember DEF KeepQuote, Claim
  <2> QED
    BY <1>1, <2>2 DEF KeepQuote
<1>2. CASE HoldLeg
  <2>1. CASE Free = {}
    <3>1. Claim({})
      BY <1>2, <2>1 DEF HoldLeg, Claim
    <3> QED
      BY <1>2, <3>1 DEF HoldLeg
  <2>2. CASE Free # {}
    <3>1. Claim({First(Free)})
      BY <1>2, <2>2, FreeMember DEF HoldLeg, Claim
    <3> QED
      BY <1>2, <3>1 DEF HoldLeg
  <2> QED
    BY <2>1, <2>2
<1> QED
  BY <1>1, <1>2

LEMMA AmendClaims ==
  ASSUME TypeOK, recon.todo # {}, AmendQuote
  PROVE  /\ Tame
         /\ \E M : Claim(M)
         /\ reqQ' \in Seq(Request) /\ drops' \in 0..MaxDrops
<1> DEFINE k   == First(Free)
           req == [kind |-> "amend", id |-> k, price |-> Target.price, qty |-> Target.qty]
           o   == [Moved(orders[k], "PENDING_AMEND") EXCEPT
                     !.pend = [price |-> Target.price, qty |-> Target.qty]]
<1>1. k \in recon.resting /\ k \in Ids /\ orders[k].side = Target.side
  BY FreeMember DEF AmendQuote
<1>2. Target.price \in Nat /\ Target.qty \in Nat
  BY LegInHand, SizeAssumption DEF Leg
<1>3. k \in Nat /\ orders[k] \in Order
  BY <1>1, IdsInterval, OrderTyped DEF TypeOK
<1>4. orders[k].status \in Resting
  BY DEF AmendQuote, Amendable
<1>5. Kin(orders[k], o)
  BY <1>2, <1>3, <1>4 DEF Kin, Moved, Order, Status, Active, Pending, Resting, Terminal
<1>6. orders' = [orders EXCEPT ![k] = o]
  BY DEF AmendQuote
<1>7. Tame
  BY <1>1, <1>5, <1>6, OneOrderTame DEF TypeOK
<1>8. Claim({k})
  BY <1>1 DEF AmendQuote, Claim
<1>9. req \in Request
  BY <1>2, <1>3 DEF Request
<1>10. Published(req) \/ PublishFailed(req)
  BY DEF AmendQuote
<1>11. reqQ' \in Seq(Request) /\ drops' \in 0..MaxDrops
  BY <1>9, <1>10, PublishedTyped
<1> QED
  BY <1>7, <1>8, <1>11

(* A step that adds one order at the end, in the slot of the leg in hand. *)
Adds(o) ==
  /\ o \in Order
  /\ o.strat = recon.strat /\ o.inst = recon.inst /\ o.side = Target.side
  /\ orders' = Append(orders, o)

LEMMA PlaceAdds ==
  ASSUME TypeOK, recon.todo # {}, PlaceQuote
  PROVE  /\ Free = {} /\ Claim({})
         /\ \E status \in {"PENDING_NEW", "REJECTED"} : Adds(NewOrder(status))
         /\ reqQ' \in Seq(Request) /\ drops' \in 0..MaxDrops
<1> DEFINE req == [kind |-> "new", id |-> Len(orders) + 1,
                   price |-> Target.price, qty |-> Target.qty]
<1>1. /\ Target.price \in 1..MaxPrice /\ Target.qty \in Nat /\ Target.price \in Nat
      /\ Target.side \in Sides
  BY LegInHand, SizeAssumption DEF Leg
<1>2. recon.strat \in Strategies /\ recon.inst \in Instruments
  BY DEF TypeOK, Reconciliation
<1>3. \A status \in {"PENDING_NEW", "REJECTED"} : NewOrder(status) \in Order
  BY <1>1, <1>2 DEF NewOrder, Order, NoAmend, Status, Active, Pending, Resting, Terminal
<1>4. \E status \in {"PENDING_NEW", "REJECTED"} : Adds(NewOrder(status))
  BY <1>3 DEF PlaceQuote, Adds, NewOrder
<1>5. Len(orders) \in Nat
  BY LenProperties DEF TypeOK
<1>6. req \in Request
  BY <1>1, <1>5 DEF Request
<1>7. Published(req) \/ PublishFailed(req)
  BY DEF PlaceQuote
<1>8. reqQ' \in Seq(Request) /\ drops' \in 0..MaxDrops
  BY <1>6, <1>7, PublishedTyped
<1>9. Free = {} /\ Claim({})
  BY DEF PlaceQuote, Claim
<1> QED
  BY <1>4, <1>8, <1>9

LEMMA AddStep ==
  ASSUME orders \in Seq(Order), NEW o, Adds(o)
  PROVE  /\ orders' \in Seq(Order)
         /\ Ids' = Ids \union {Len(orders) + 1}
         /\ Len(orders) + 1 \notin Ids
         /\ orders'[Len(orders) + 1] = o
         /\ \A k \in Ids : orders'[k] = orders[k]
<1>1. Len(orders) \in Nat /\ Ids = 1..Len(orders)
  BY IdsInterval
<1>2. orders' \in Seq(Order) /\ Len(orders') = Len(orders) + 1
  BY DEF Adds
<1>3. Ids' = 1..(Len(orders) + 1)
  BY <1>2, LenProperties DEF Ids
<1>4. /\ orders'[Len(orders) + 1] = o
      /\ \A k \in 1..Len(orders) : orders'[k] = orders[k]
  BY <1>1 DEF Adds
<1> QED
  BY <1>1, <1>2, <1>3, <1>4

(* Whatever the leg claims, the loop's record keeps its type. *)
LEMMA ClaimTyped ==
  ASSUME TypeOK, recon.todo # {}, NEW M, Claim(M), Ids \subseteq Ids'
  PROVE  /\ recon' \in Reconciliation
         /\ recon'.todo \subseteq DOMAIN recon'.legs
         /\ recon'.matched \subseteq recon'.resting /\ recon'.resting \subseteq Ids'
         /\ recon' = [recon EXCEPT !.todo = recon.todo \ {NextLeg},
                                   !.matched = recon.matched \union M]
<1>1. M \subseteq recon.resting
  BY DEF Claim
<1>2. recon' = [recon EXCEPT !.todo = recon.todo \ {NextLeg},
                             !.matched = recon.matched \union M]
  BY DEF Claim, LegDone
<1>3. recon' \in Reconciliation
  BY <1>1, <1>2 DEF TypeOK, Reconciliation
<1> QED
  BY <1>1, <1>2, <1>3 DEF TypeOK, Reconciliation

LEMMA MatchTyped ==
  ASSUME TypeOK, MatchLeg
  PROVE  TypeOK'
<1> USE DEF MatchLeg
<1>1. ASSUME orders' \in Seq(Order), Ids \subseteq Ids', NEW M, Claim(M),
             reqQ' \in Seq(Request), drops' \in 0..MaxDrops
      PROVE  TypeOK'
  <2>1. cancels' \subseteq Ids'
    BY <1>1 DEF TypeOK
  <2> QED
    BY <1>1, <2>1, ClaimTyped DEF TypeOK
<1>2. CASE KeepQuote \/ HoldLeg
  <2>1. UNCHANGED <<orders, reqQ, drops>> /\ \E M : Claim(M)
    BY <1>2, KeepOrHoldClaims
  <2> QED
    BY <1>1, <2>1 DEF TypeOK, Ids
<1>3. CASE AmendQuote
  BY <1>1, <1>3, AmendClaims, TameStep DEF TypeOK, Tame
<1>4. CASE PlaceQuote
  BY <1>1, <1>4, PlaceAdds, AddStep DEF TypeOK
<1> QED
  BY <1>2, <1>3, <1>4

LEMMA CancelUnmatchedTyped ==
  ASSUME TypeOK, CancelUnmatched
  PROVE  TypeOK' /\ UNCHANGED orders
<1>1. NoRecon \in Reconciliation /\ NoRecon.todo = {}
        /\ NoRecon.matched = {} /\ NoRecon.resting = {}
  BY NoReconTyped
<1>2. recon' = NoRecon
  BY DEF CancelUnmatched
<1> QED
  BY <1>1, <1>2 DEF CancelUnmatched, TypeOK, Ids

LEMMA CancelOrderStep ==
  ASSUME TypeOK, CancelOrder
  PROVE  TypeOK' /\ Tame
<1> DEFINE k   == First(cancels)
           req == [kind |-> "cancel", id |-> k, price |-> 0, qty |-> 0]
<1>1. k \in cancels /\ k \in Ids /\ k \in Nat
  BY FirstMember, IdsInterval DEF TypeOK, CancelOrder
<1>2. /\ cancels' = cancels \ {k}
      /\ UNCHANGED <<cache, sigs, decided, killedAt, alert, recon>>
  BY DEF CancelOrder
<1>3. CASE CanMove(orders[k], "PENDING_CANCEL")
  <2>1. /\ orders' = [orders EXCEPT ![k] = Moved(orders[k], "PENDING_CANCEL")]
        /\ Published(req) \/ PublishFailed(req)
    BY <1>3 DEF CancelOrder
  <2>2. Moved(orders[k], "PENDING_CANCEL") = Transition(orders[k], "PENDING_CANCEL")
    BY <1>3 DEF Transition
  <2>3. Kin(orders[k], Moved(orders[k], "PENDING_CANCEL"))
    BY <1>1, <2>2, OrderTyped, TransitionKin DEF TypeOK, Status, Active, Pending
  <2>4. Tame
    BY <1>1, <2>1, <2>3, OneOrderTame DEF TypeOK
  <2>5. req \in Request
    BY <1>1 DEF Request
  <2>6. reqQ' \in Seq(Request) /\ drops' \in 0..MaxDrops
    BY <2>1, <2>5, PublishedTyped
  <2> QED
    BY <1>2, <2>4, <2>6, TameStep DEF TypeOK, Tame
<1>4. CASE ~ CanMove(orders[k], "PENDING_CANCEL")
  <2>1. UNCHANGED <<orders, reqQ, drops>>
    BY <1>4 DEF CancelOrder
  <2> QED
    BY <1>2, <2>1, SameOrdersTame DEF TypeOK, Ids
<1> QED
  BY <1>3, <1>4

(* Every response updates one order into one of its kin. *)
LEMMA UpdateStep ==
  ASSUME TypeOK, NEW k \in Ids, NEW o, Kin(orders[k], o), Update(k, o)
  PROVE  TypeOK' /\ Tame
<1>1. Tame
  BY OneOrderTame DEF Update, TypeOK
<1>2. UNCHANGED <<cache, sigs, decided, killedAt, alert, recon, cancels, reqQ, drops>>
  BY DEF Update
<1> QED
  BY <1>1, <1>2, TameStep DEF TypeOK, Tame

LEMMA ResponseStep ==
  ASSUME TypeOK, NEW k \in Ids, Response(k)
  PROVE  TypeOK' /\ Tame
<1>1. orders[k] \in Order
  BY OrderTyped DEF TypeOK
<1>2. \A s \in Status : Kin(orders[k], Transition(orders[k], s))
  BY <1>1, TransitionKin
<1>3. {"ACKNOWLEDGED", "REJECTED", "CANCELLED"} \subseteq Status
  BY DEF Status, Active, Resting, Terminal
<1>4. CASE OnAck(k) \/ OnReject(k) \/ OnCancelled(k) \/ OnCancelRejected(k)
  BY <1>2, <1>3, <1>4, UpdateStep DEF OnAck, OnReject, OnCancelled, OnCancelRejected
<1>5. CASE OnAmendRejected(k)
  BY <1>1, <1>5, RolledBackKin, UpdateStep DEF OnAmendRejected
<1>6. ASSUME NEW price \in 1..MaxPrice, NEW qty \in 1..MaxQty, OnAmended(k, price, qty)
      PROVE  TypeOK' /\ Tame
  <2>1. qty \in Nat
    BY SizeAssumption
  <2> QED
    BY <1>1, <1>6, <2>1, AmendedKin, UpdateStep DEF OnAmended
<1>7. ASSUME NEW q \in 1..MaxQty, OnFill(k, q)
      PROVE  TypeOK' /\ Tame
  <2>1. q \in Nat
    BY SizeAssumption
  <2> QED
    BY <1>1, <1>7, <2>1, FilledKin, UpdateStep DEF OnFill
<1> QED
  BY <1>4, <1>5, <1>6, <1>7 DEF Response

LEMMA SweepStep ==
  ASSUME TypeOK, NEW stale, Sweep(stale)
  PROVE  TypeOK' /\ Tame
<1>1. Len(orders) \in Nat /\ Ids = 1..Len(orders)
  BY IdsInterval DEF TypeOK
<1>2. \A k \in Ids : Kin(orders[k], orders'[k])
  BY OrderTyped, RolledBackKin DEF Sweep, TypeOK, Kin
<1>3. orders' \in [1..Len(orders) -> Order]
  BY <1>1, <1>2 DEF Sweep, Kin
<1>4. orders' \in Seq(Order) /\ Len(orders') = Len(orders)
  BY <1>1, <1>3, SeqDef, LenProperties
<1>5. Tame
  BY <1>2, <1>4 DEF Tame
<1> QED
  BY <1>5, TameStep DEF TypeOK, Tame, Sweep

LEMMA TakeStep ==
  ASSUME TypeOK, GatewayTakes
  PROVE  TypeOK' /\ Tame
<1>1. reqQ' \in Seq(Request)
  BY HeadTailProperties DEF GatewayTakes, TypeOK
<1> QED
  BY <1>1, SameOrdersTame DEF GatewayTakes, TypeOK, Ids

LEMMA StepTyped ==
  ASSUME TypeOK, [OMSNext]_omsVars
  PROVE  TypeOK'
<1>1. CASE \E s \in Strategies, i \in Instruments, legs \in Ladders : OnSignal(s, i, legs)
  BY <1>1, SignalStep
<1>2. CASE Verdict
  BY <1>2, BlockedStep, ApprovedStep DEF Verdict
<1>3. CASE EngageKillSwitch \/ OnKillAlert \/ \E s \in Strategies : PauseStrategy(s)
  BY <1>3, CleanupStep
<1>4. CASE Engine
  BY <1>4, MatchTyped, CancelUnmatchedTyped, CancelOrderStep DEF Engine
<1>5. CASE \E k \in Ids : Response(k)
  BY <1>5, ResponseStep
<1>6. CASE \E stale \in SUBSET {k \in Ids : orders[k].status = "PENDING_AMEND"} : Sweep(stale)
  BY <1>6, SweepStep
<1>7. CASE GatewayTakes
  BY <1>7, TakeStep
<1>8. CASE UNCHANGED omsVars
  BY <1>8 DEF omsVars, TypeOK, Ids
<1> QED
  BY <1>1, <1>2, <1>3, <1>4, <1>5, <1>6, <1>7, <1>8 DEF OMSNext

(* The OMS's records keep their types whatever the environment sends: in
   particular every id a loop visits is the id of an order it holds. *)
THEOREM TypeCorrect == OMSSpec => []TypeOK
BY InitTyped, StepTyped, PTL DEF OMSSpec

----------------------------------------------------------------------------
(* The snapshot contract                                                   *)

(* One more element on the left costs one more on the right. *)
LEMMA GrowTogether ==
  ASSUME NEW S, NEW D, NEW T, NEW x, NEW j,
         IsFiniteSet(S), IsFiniteSet(D), Cardinality(S) <= Cardinality(D),
         T \subseteq S \union {x}, j \notin D
  PROVE  Cardinality(T) <= Cardinality(D \union {j})
<1>1. IsFiniteSet(S \union {x})
      /\ Cardinality(S \union {x}) = IF x \in S THEN Cardinality(S) ELSE Cardinality(S) + 1
  BY FS_AddElement
<1>2. IsFiniteSet(T) /\ Cardinality(T) <= Cardinality(S \union {x})
  BY <1>1, FS_Subset
<1>3. Cardinality(D \union {j}) = Cardinality(D) + 1
  BY FS_AddElement
<1>4. Cardinality(S) \in Nat /\ Cardinality(D) \in Nat
  BY FS_CardinalityType
<1>5. Cardinality(T) \in Nat
  BY <1>2, FS_CardinalityType
<1>6. Cardinality(S \union {x}) \in Nat /\ Cardinality(S \union {x}) <= Cardinality(S) + 1
  BY <1>1, <1>4
<1> QED
  BY <1>2, <1>3, <1>4, <1>5, <1>6

LEMMA FewerOrders ==
  ASSUME NEW S, NEW T, NEW n \in Nat, IsFiniteSet(S), T \subseteq S, Cardinality(S) <= n
  PROVE  Cardinality(T) <= n
<1>1. IsFiniteSet(T) /\ Cardinality(T) <= Cardinality(S)
  BY FS_Subset
<1> QED
  BY <1>1, FS_CardinalityType

(* A tame step stacks nothing. *)
LEMMA TameStacksNothing ==
  ASSUME TypeOK, NoStacking, Tame
  PROVE  NoStacking'
<1>1. ASSUME NEW s \in Strategies, NEW i \in Instruments, NEW d \in Sides
      PROVE  Cardinality(Working(s, i, d)') <= MaxLegs
  <2>1. Working(s, i, d)' \subseteq Working(s, i, d)
    BY TameStep DEF TypeOK
  <2>2. IsFiniteSet(Working(s, i, d)) /\ Cardinality(Working(s, i, d)) <= MaxLegs
    BY WorkingFinite DEF TypeOK, NoStacking
  <2> QED
    BY <2>1, <2>2, FewerOrders, SizeAssumption
<1> QED
  BY <1>1 DEF NoStacking

(* The loop starts with a plan that fits, and nothing claimed or placed. *)
LEMMA LadderFits ==
  ASSUME NEW legs \in Ladders, NEW d \in Sides
  PROVE  /\ IsFiniteSet(LegsOf(legs, d))
         /\ Cardinality(LegsOf(legs, d)) <= MaxLegs
         /\ \A j \in DOMAIN legs : legs[j] \in Leg
<1>1. legs \in Seq(Leg) /\ Cardinality(LegsOf(legs, d)) <= MaxLegs
  BY LadderAssumption
<1>2. DOMAIN legs = 1..Len(legs) /\ Len(legs) \in Nat /\ \A j \in DOMAIN legs : legs[j] \in Leg
  BY <1>1, LenProperties, ElementOfSeq
<1>3. IsFiniteSet(1..Len(legs))
  BY <1>2, FS_Interval
<1>4. IsFiniteSet(LegsOf(legs, d))
  BY <1>2, <1>3, FS_Subset DEF LegsOf
<1> QED
  BY <1>1, <1>2, <1>4

LEMMA PlanFits ==
  ASSUME NEW legs \in Ladders, NEW keep \in SUBSET DOMAIN legs,
         NEW size \in [keep -> 1..MaxQty], NEW plan,
         plan = [j \in keep |-> [legs[j] EXCEPT !.qty = size[j]]], NEW d \in Sides
  PROVE  /\ IsFiniteSet(LegsOf(plan, d))
         /\ Cardinality(LegsOf(plan, d)) <= MaxLegs
<1>1. \A j \in DOMAIN plan : j \in DOMAIN legs /\ plan[j].side = legs[j].side
  BY LadderFits DEF Leg
<1>2. LegsOf(plan, d) \subseteq LegsOf(legs, d)
  BY <1>1 DEF LegsOf
<1>3. /\ IsFiniteSet(LegsOf(legs, d))
      /\ Cardinality(LegsOf(legs, d)) <= MaxLegs
  BY LadderFits
<1>4. IsFiniteSet(LegsOf(plan, d))
  BY <1>2, <1>3, FS_Subset
<1>5. Cardinality(LegsOf(plan, d)) <= MaxLegs
  BY <1>2, <1>3, FewerOrders, SizeAssumption
<1> QED
  BY <1>4, <1>5

LEMMA LoopStarts ==
  ASSUME TypeOK, NEW x \in cache, NEW keep \in SUBSET DOMAIN x.legs,
         NEW size \in [keep -> 1..MaxQty], OnRiskApproved(x, keep, size)
  PROVE  LoopInv'
<1>1. ASSUME NEW d \in Sides
      PROVE  /\ IsFiniteSet(LegsOf(recon.legs, d)')
             /\ Cardinality(LegsOf(recon.legs, d)') <= MaxLegs
             /\ Cardinality((Claimed(d) \union Placed(d))') <= Cardinality(LegsSeen(d)')
  <2>1. x.legs \in Ladders
    BY DEF TypeOK, Signal
  <2>2. recon'.legs = [j \in keep |-> [x.legs[j] EXCEPT !.qty = size[j]]]
    BY DEF OnRiskApproved
  <2>3. /\ IsFiniteSet(LegsOf(recon'.legs, d))
        /\ Cardinality(LegsOf(recon'.legs, d)) <= MaxLegs
    BY <2>1, <2>2, PlanFits, Zenon
  <2>4. LegsOf(recon.legs, d)' = LegsOf(recon'.legs, d)
    BY Zenon DEF LegsOf
  <2>5. \A k \in Ids : orders[k].status \in Active => orders[k].status \notin Terminal
    BY DEF Active, Pending, Resting, Terminal
  <2>6. /\ recon'.matched = {} /\ recon'.resting = ActiveOf(x.strat, x.inst)
        /\ recon'.strat = x.strat /\ recon'.inst = x.inst /\ UNCHANGED orders
    BY DEF OnRiskApproved
  <2>7. Claimed(d)' = {} /\ Placed(d)' = {}
    BY <2>5, <2>6 DEF Claimed, Placed, Working, ActiveOf, IsTerminal, Ids
  <2>8. IsFiniteSet(LegsSeen(d)')
    BY <2>3, <2>4, FS_Subset DEF LegsSeen
  <2>9. Cardinality(LegsSeen(d)') \in Nat /\ (Claimed(d) \union Placed(d))' = {}
    BY <2>7, <2>8, FS_CardinalityType
  <2> QED
    BY <2>3, <2>4, <2>9, FS_EmptySet
<1> QED
  BY <1>1 DEF LoopInv

(* What a leg may do to the count: one order of its side enters, no more. *)
Counted(d) == Claimed(d) \union Placed(d)

LEMMA CountedFinite ==
  ASSUME TypeOK, NEW d
  PROVE  Counted(d) \subseteq Ids /\ IsFiniteSet(Counted(d))
<1>1. Counted(d) \subseteq Ids
  BY DEF Counted, Claimed, Placed, Working, TypeOK
<1>2. IsFiniteSet(Ids)
  BY IdsInterval, FS_Interval DEF TypeOK
<1> QED
  BY <1>1, <1>2, FS_Subset

LEMMA LegCounts ==
  ASSUME TypeOK, LoopInv, recon.on, recon.todo # {}, NEW M, LegDone(M), NEW x,
         \A d \in Sides : Counted(d)' \subseteq
                            Counted(d) \union (IF d = Target.side THEN {x} ELSE {})
  PROVE  LoopInv'
<1>1. /\ recon'.todo = recon.todo \ {NextLeg} /\ recon'.legs = recon.legs
      /\ NextLeg \in recon.todo /\ NextLeg \in DOMAIN recon.legs
      /\ Target = recon.legs[NextLeg]
  BY LegInHand DEF LegDone, TypeOK, Reconciliation, Target
<1>2. ASSUME NEW d \in Sides
      PROVE  /\ IsFiniteSet(LegsOf(recon.legs, d)')
             /\ Cardinality(LegsOf(recon.legs, d)') <= MaxLegs
             /\ Cardinality(Counted(d)') <= Cardinality(LegsSeen(d)')
  <2>1. LegsOf(recon.legs, d)' = LegsOf(recon.legs, d)
    BY <1>1 DEF LegsOf
  <2>2. /\ IsFiniteSet(LegsOf(recon.legs, d))
        /\ Cardinality(LegsOf(recon.legs, d)) <= MaxLegs
        /\ Cardinality(Counted(d)) <= Cardinality(LegsSeen(d))
    BY DEF LoopInv, Counted
  <2>3. IsFiniteSet(LegsSeen(d)) /\ IsFiniteSet(Counted(d))
    BY <2>2, CountedFinite, FS_Subset DEF LegsSeen
  <2>4. CASE d = Target.side
    <3>1. LegsSeen(d)' = LegsSeen(d) \union {NextLeg} /\ NextLeg \notin LegsSeen(d)
      BY <1>1, <2>4 DEF LegsSeen, LegsOf
    <3>2. Counted(d)' \subseteq Counted(d) \union {x}
      BY <2>4
    <3>3. Cardinality(Counted(d)') <= Cardinality(LegsSeen(d) \union {NextLeg})
      BY <2>2, <2>3, <3>1, <3>2, GrowTogether
    <3> QED
      BY <2>1, <2>2, <3>1, <3>3
  <2>5. CASE d # Target.side
    <3>1. LegsSeen(d)' = LegsSeen(d)
      BY <1>1, <2>5 DEF LegsSeen, LegsOf
    <3>2. Counted(d)' \subseteq Counted(d)
      BY <2>5
    <3>3. Cardinality(LegsSeen(d)) \in Nat
      BY <2>3, FS_CardinalityType
    <3>4. Cardinality(Counted(d)') <= Cardinality(LegsSeen(d))
      BY <2>2, <2>3, <3>2, <3>3, FewerOrders
    <3> QED
      BY <2>1, <2>2, <3>1, <3>4
  <2> QED
    BY <2>4, <2>5
<1> QED
  BY <1>2 DEF LoopInv, Counted

(* A leg that keeps, holds or amends. *)
LEMMA ClaimCounts ==
  ASSUME TypeOK, LoopInv, recon.on, recon.todo # {}, NEW M, Claim(M), Tame
  PROVE  LoopInv'
<1>1. /\ recon'.matched = recon.matched \union M /\ recon'.resting = recon.resting
      /\ recon'.strat = recon.strat /\ recon'.inst = recon.inst
      /\ LegDone(M) /\ recon.matched \subseteq Ids
  BY DEF Claim, LegDone, TypeOK, Reconciliation
<1>2. PICK x : M \subseteq {x} /\ \A k \in M : k \in Ids /\ orders[k].side = Target.side
  BY DEF Claim
<1>3. /\ \A k \in Ids : orders'[k].side = orders[k].side
      /\ \A s, i, d : Working(s, i, d)' \subseteq Working(s, i, d)
  BY TameStep DEF TypeOK
<1>4. ASSUME NEW d \in Sides
      PROVE  Counted(d)' \subseteq Counted(d) \union (IF d = Target.side THEN {x} ELSE {})
  <2>1. Claimed(d)' \subseteq Claimed(d) \union (IF d = Target.side THEN {x} ELSE {})
    BY <1>1, <1>2, <1>3 DEF Claimed
  <2>2. PICK s, i : s = recon.strat /\ i = recon.inst
    OBVIOUS
  <2>3. Working(recon.strat, recon.inst, d)' = Working(s, i, d)'
    BY <1>1, <2>2 DEF Working
  <2>4. Placed(d)' \subseteq Placed(d)
    BY <1>1, <1>3, <2>2, <2>3 DEF Placed
  <2> QED
    BY <2>1, <2>4 DEF Counted
<1> QED
  BY <1>1, <1>4, LegCounts

(* A leg that places: nothing of its side was left to claim, so what the slot
   holds is what the loop has counted. *)
LEMMA PlaceCounts ==
  ASSUME TypeOK, NoStacking, LoopInv, recon.on, recon.todo # {}, PlaceQuote
  PROVE  LoopInv' /\ NoStacking'
<1> DEFINE n == Len(orders) + 1
<1>1. PICK status \in {"PENDING_NEW", "REJECTED"} : Adds(NewOrder(status))
  BY PlaceAdds
<1>2. Free = {} /\ Claim({})
  BY PlaceAdds
<1>3. /\ Ids' = Ids \union {n} /\ n \notin Ids
      /\ orders'[n].strat = recon.strat /\ orders'[n].inst = recon.inst
      /\ orders'[n].side = Target.side
      /\ \A k \in Ids : orders'[k] = orders[k]
  BY <1>1, AddStep DEF Adds, TypeOK
<1>4. /\ recon'.matched = recon.matched /\ recon'.resting = recon.resting
      /\ recon'.strat = recon.strat /\ recon'.inst = recon.inst
      /\ LegDone({}) /\ recon.matched \subseteq Ids /\ recon.resting \subseteq Ids
      /\ recon'.on /\ recon'.legs = recon.legs
  BY <1>2 DEF Claim, LegDone, TypeOK, Reconciliation
<1>5. \A s, i, d : Working(s, i, d)' \subseteq
         Working(s, i, d) \union
           (IF s = recon.strat /\ i = recon.inst /\ d = Target.side THEN {n} ELSE {})
  BY <1>3 DEF Working
<1>6. ASSUME NEW d \in Sides
      PROVE  Counted(d)' \subseteq Counted(d) \union (IF d = Target.side THEN {n} ELSE {})
  <2>1. Claimed(d)' \subseteq Claimed(d)
    BY <1>3, <1>4 DEF Claimed
  <2>2. PICK s, i : s = recon.strat /\ i = recon.inst
    OBVIOUS
  <2>3. Working(recon.strat, recon.inst, d)' = Working(s, i, d)'
    BY <1>4, <2>2 DEF Working
  <2>4. Placed(d)' \subseteq Placed(d) \union (IF d = Target.side THEN {n} ELSE {})
    BY <1>4, <1>5, <2>2, <2>3 DEF Placed
  <2> QED
    BY <2>1, <2>4 DEF Counted
<1>7. LoopInv'
  BY <1>4, <1>6, LegCounts
<1>8. ASSUME NEW s \in Strategies, NEW i \in Instruments, NEW d \in Sides
      PROVE  Cardinality(Working(s, i, d)') <= MaxLegs
  <2>1. CASE s = recon.strat /\ i = recon.inst /\ d = Target.side
    <3>1. Working(s, i, d) \subseteq Counted(d)
      BY <1>2, <2>1 DEF Counted, Claimed, Placed, Working, Free
    <3>2. \A k \in Ids : k \in Counted(d) => k \in Counted(d)'
      BY <1>3, <1>4 DEF Counted, Claimed, Placed, Working
    <3>3. n \in Working(s, i, d)' => n \in Counted(d)'
      BY <1>3, <1>4, <2>1 DEF Counted, Placed, Working
    <3>4. Working(s, i, d)' \subseteq Counted(d)'
      BY <1>5, <3>1, <3>2, <3>3, CountedFinite
    <3>5. /\ IsFiniteSet(LegsOf(recon.legs, d)')
          /\ Cardinality(LegsOf(recon.legs, d)') <= MaxLegs
          /\ Cardinality(Counted(d)') <= Cardinality(LegsSeen(d)')
      BY <1>4, <1>7 DEF LoopInv, Counted
    <3>6. LegsSeen(d)' \subseteq LegsOf(recon.legs, d)'
      BY DEF LegsSeen
    <3>7. Cardinality(LegsSeen(d)') <= MaxLegs
      BY <3>5, <3>6, FewerOrders, SizeAssumption
    <3>8. IsFiniteSet(Counted(d)')
      <4>1. IsFiniteSet(Counted(d) \union {n})
        BY CountedFinite, FS_AddElement
      <4> QED
        BY <1>6, <2>1, <4>1, FS_Subset
    <3>9. Cardinality(Counted(d)') \in Nat /\ Cardinality(LegsSeen(d)') \in Nat
      BY <3>5, <3>6, <3>8, FS_Subset, FS_CardinalityType
    <3>10. Cardinality(Counted(d)') <= MaxLegs
      BY <3>5, <3>7, <3>9, SizeAssumption
    <3> QED
      BY <3>4, <3>8, <3>10, FewerOrders, SizeAssumption
  <2>2. CASE ~ (s = recon.strat /\ i = recon.inst /\ d = Target.side)
    <3>1. Working(s, i, d)' \subseteq Working(s, i, d)
      BY <1>5, <2>2
    <3>2. IsFiniteSet(Working(s, i, d)) /\ Cardinality(Working(s, i, d)) <= MaxLegs
      BY WorkingFinite DEF TypeOK, NoStacking
    <3> QED
      BY <3>1, <3>2, FewerOrders, SizeAssumption
  <2> QED
    BY <2>1, <2>2
<1> QED
  BY <1>7, <1>8 DEF NoStacking

(* One step of the loop; its first step and its last. *)
LEMMA MatchStacksNothing ==
  ASSUME StackingInv, MatchLeg
  PROVE  NoStacking' /\ LoopInv'
<1> USE DEF StackingInv, MatchLeg
<1>1. CASE KeepQuote \/ HoldLeg
  <2>1. UNCHANGED <<orders, reqQ, drops>> /\ \E M : Claim(M)
    BY <1>1, KeepOrHoldClaims
  <2>2. Tame
    BY <2>1, SameOrdersTame DEF TypeOK
  <2> QED
    BY <2>1, <2>2, ClaimCounts, TameStacksNothing
<1>2. CASE AmendQuote
  BY <1>2, AmendClaims, ClaimCounts, TameStacksNothing
<1>3. CASE PlaceQuote
  BY <1>3, PlaceCounts
<1> QED
  BY <1>1, <1>2, <1>3

(* A tame step that leaves the loop's record alone. *)
LEMMA TameKeepsCount ==
  ASSUME TypeOK, LoopInv, Tame, UNCHANGED recon
  PROVE  LoopInv'
<1>1. ASSUME recon.on, NEW d \in Sides
      PROVE  Cardinality(Counted(d)') <= Cardinality(LegsSeen(d))
  <2>1. PICK s, i : s = recon.strat /\ i = recon.inst
    OBVIOUS
  <2>2. Working(recon.strat, recon.inst, d)' = Working(s, i, d)'
    BY <2>1 DEF Working
  <2>3. Counted(d)' \subseteq Counted(d)
    BY <2>1, <2>2, TameStep DEF Counted, Claimed, Placed, TypeOK
  <2>4. IsFiniteSet(Counted(d)) /\ IsFiniteSet(LegsSeen(d))
    BY <1>1, CountedFinite, FS_Subset DEF LoopInv, LegsSeen
  <2>5. Cardinality(LegsSeen(d)) \in Nat
    BY <2>4, FS_CardinalityType
  <2>6. Cardinality(Counted(d)) <= Cardinality(LegsSeen(d))
    BY <1>1 DEF LoopInv, Counted
  <2> QED
    BY <2>3, <2>4, <2>5, <2>6, FewerOrders
<1> QED
  BY <1>1 DEF LoopInv, Counted, LegsSeen, LegsOf

LEMMA VerdictStacksNothing ==
  ASSUME StackingInv, Verdict
  PROVE  NoStacking' /\ LoopInv'
<1>1. UNCHANGED orders
  BY DEF Verdict, OnRiskBlocked, OnRiskApproved
<1>2. Tame
  BY <1>1, SameOrdersTame DEF StackingInv, TypeOK
<1>3. NoStacking'
  BY <1>2, TameStacksNothing DEF StackingInv
<1>4. ASSUME NEW x \in cache, OnRiskBlocked(x)
      PROVE  LoopInv'
  BY <1>2, <1>4, TameKeepsCount DEF OnRiskBlocked, StackingInv
<1>5. LoopInv'
  BY <1>4, LoopStarts DEF Verdict, StackingInv
<1> QED
  BY <1>3, <1>5

LEMMA StackingStep ==
  ASSUME StackingInv, [OMSNext]_omsVars
  PROVE  StackingInv'
<1>1. TypeOK'
  BY StepTyped DEF StackingInv
<1>2. orders \in Seq(Order)
  BY DEF StackingInv, TypeOK
<1>3. ASSUME Tame, UNCHANGED recon
      PROVE  NoStacking' /\ LoopInv'
  BY <1>3, TameStacksNothing, TameKeepsCount DEF StackingInv
<1>4. CASE \E s \in Strategies, i \in Instruments, legs \in Ladders : OnSignal(s, i, legs)
  BY <1>1, <1>2, <1>3, <1>4, SameOrdersTame DEF OnSignal, StackingInv
<1>5. CASE Verdict
  BY <1>1, <1>5, VerdictStacksNothing DEF StackingInv
<1>6. CASE EngageKillSwitch \/ OnKillAlert \/ \E s \in Strategies : PauseStrategy(s)
  BY <1>1, <1>2, <1>3, <1>6, SameOrdersTame
     DEF EngageKillSwitch, OnKillAlert, PauseStrategy, StackingInv
<1>7. CASE MatchLeg
  BY <1>1, <1>7, MatchStacksNothing DEF StackingInv
<1>8. CASE CancelUnmatched
  <2>1. Tame /\ ~ recon'.on
    BY <1>2, <1>8, SameOrdersTame DEF CancelUnmatched, NoRecon
  <2> QED
    BY <1>1, <2>1, TameStacksNothing DEF LoopInv, StackingInv
<1>9. CASE CancelOrder
  BY <1>1, <1>3, <1>9, CancelOrderStep DEF CancelOrder, StackingInv
<1>10. ASSUME NEW k \in Ids, Response(k)
       PROVE  StackingInv'
  <2>1. Tame
    BY <1>10, ResponseStep DEF StackingInv
  <2>2. UNCHANGED recon
    BY <1>10 DEF Response, OnAck, OnReject, OnCancelled, OnCancelRejected, OnAmendRejected,
                 OnAmended, OnFill, Update
  <2> QED
    BY <1>1, <1>3, <2>1, <2>2 DEF StackingInv
<1>11. ASSUME NEW stale, Sweep(stale)
       PROVE  StackingInv'
  BY <1>1, <1>3, <1>11, SweepStep DEF Sweep, StackingInv
<1>12. CASE GatewayTakes
  BY <1>1, <1>3, <1>12, TakeStep DEF GatewayTakes, StackingInv
<1>13. CASE UNCHANGED omsVars
  BY <1>1, <1>2, <1>3, <1>13, SameOrdersTame DEF omsVars, StackingInv
<1> QED
  BY <1>4, <1>5, <1>6, <1>7, <1>8, <1>9, <1>10, <1>11, <1>12, <1>13 DEF OMSNext, Engine

LEMMA StackingInit == OMSInit => StackingInv
<1> SUFFICES ASSUME OMSInit PROVE StackingInv
  OBVIOUS
<1>1. \A s, i, d : Working(s, i, d) = {}
  BY DEF OMSInit, Working, Ids
<1>2. NoStacking
  BY <1>1, FS_EmptySet, SizeAssumption DEF NoStacking
<1>3. LoopInv
  BY DEF OMSInit, NoRecon, LoopInv
<1> QED
  BY <1>2, <1>3, InitTyped DEF StackingInv

(* However the gateway answers, and in whatever order, a strategy never has
   more orders working on a side of an instrument than one of its signals
   declares there.  NoStacking by itself is not inductive: that a leg may place
   an order rests on the count LoopInv keeps through the loop. *)
THEOREM Snapshot == OMSSpec => []NoStacking
<1>1. OMSSpec => []StackingInv
  BY StackingInit, StackingStep, PTL DEF OMSSpec
<1>2. StackingInv => NoStacking
  BY DEF StackingInv
<1> QED
  BY <1>1, <1>2, PTL

----------------------------------------------------------------------------
(* The OMS implements SnapshotQuoting                                      *)

LEMMA TameOrPlaces ==
  ASSUME TypeOK, [OMSNext]_omsVars
  PROVE  Tame \/ (MatchLeg /\ PlaceQuote)
<1>1. orders \in Seq(Order)
  BY DEF TypeOK
<1>2. CASE UNCHANGED orders
  BY <1>1, <1>2, SameOrdersTame
<1>3. CASE MatchLeg
  BY <1>2, <1>3, KeepOrHoldClaims, AmendClaims DEF MatchLeg
<1>4. CASE CancelOrder
  BY <1>4, CancelOrderStep
<1>5. CASE \E k \in Ids : Response(k)
  BY <1>5, ResponseStep
<1>6. CASE \E stale : Sweep(stale)
  BY <1>6, SweepStep
<1> QED
  BY <1>2, <1>3, <1>4, <1>5, <1>6
     DEF OMSNext, omsVars, OnSignal, Verdict, OnRiskBlocked, OnRiskApproved,
         EngageKillSwitch, OnKillAlert, PauseStrategy, Engine, CancelUnmatched, GatewayTakes

(* The refinement mapping, named. *)
MappedWorking == [slot \in Slots |-> Working(slot[1], slot[2], slot[3])]
MappedRetired == {k \in Ids : IsTerminal(orders[k])}

LEMMA OwnSlot ==
  ASSUME TypeOK, NEW k \in Ids, orders[k].status \in Active
  PROVE  \E slot \in Slots : k \in MappedWorking[slot]
<1> DEFINE slot == <<orders[k].strat, orders[k].inst, orders[k].side>>
<1>1. orders[k] \in Order
  BY OrderTyped DEF TypeOK
<1>2. slot \in Slots
  BY <1>1 DEF Order, Slots
<1>3. k \in Working(slot[1], slot[2], slot[3])
  BY DEF Working
<1> QED
  BY <1>2, <1>3 DEF MappedWorking

(* A tame step retires the orders it ends, together, or changes nothing. *)
LEMMA TameRetires ==
  ASSUME TypeOK, Tame
  PROVE  \E gone \in SUBSET UNION {MappedWorking[slot] : slot \in Slots} :
            /\ MappedWorking' = [slot \in Slots |-> MappedWorking[slot] \ gone]
            /\ MappedRetired' = MappedRetired \union gone
<1> DEFINE gone == {k \in Ids : /\ orders[k].status \in Active
                                /\ orders'[k].status \in Terminal}
<1>1. Ids' = Ids
  BY TameStep DEF TypeOK
<1>2. \A k \in Ids : /\ orders[k] \in Order /\ orders'[k] \in Order
                     /\ Kin(orders[k], orders'[k])
  BY OrderTyped DEF TypeOK, Tame, Kin
<1>3. \A k \in Ids : /\ orders[k].status \in Active <=> orders[k].status \notin Terminal
                     /\ orders'[k].status \in Active <=> orders'[k].status \notin Terminal
  BY <1>2, StatusesDisjoint DEF Order
<1>4. gone \in SUBSET UNION {MappedWorking[slot] : slot \in Slots}
  BY OwnSlot
<1>5. \A s, i, d : Working(s, i, d)' = Working(s, i, d) \ gone
  BY <1>1, <1>2, <1>3 DEF Working, Kin
<1>6. MappedWorking' = [slot \in Slots |-> MappedWorking[slot] \ gone]
  BY <1>5 DEF MappedWorking
<1>7. MappedRetired' = MappedRetired \union gone
  BY <1>1, <1>2, <1>3 DEF MappedRetired, IsTerminal, Kin
<1> QED
  BY <1>4, <1>6, <1>7

LEMMA TameMaps ==
  ASSUME TypeOK, Tame
  PROVE  [Promise!Next]_(Promise!vars)
<1>1. PICK gone \in SUBSET UNION {MappedWorking[slot] : slot \in Slots} :
            /\ MappedWorking' = [slot \in Slots |-> MappedWorking[slot] \ gone]
            /\ MappedRetired' = MappedRetired \union gone
  BY TameRetires
<1>2. CASE gone = {}
  <2>1. MappedWorking' = [slot \in Slots |-> MappedWorking[slot]] /\ MappedRetired' = MappedRetired
    BY <1>1, <1>2
  <2>2. MappedWorking' = MappedWorking
    BY <2>1 DEF MappedWorking
  <2> QED
    BY <2>1, <2>2 DEF Promise!vars, MappedWorking, MappedRetired
<1>3. CASE gone # {}
  <2>1. Promise!Leave(gone)
    BY <1>1, <1>3 DEF Promise!Leave, MappedWorking, MappedRetired
  <2> QED
    BY <1>1, <2>1 DEF Promise!Next, MappedWorking
<1> QED
  BY <1>2, <1>3

(* A placed order enters its slot; one refused by the bus is spent at once. *)
LEMMA PlaceMaps ==
  ASSUME StackingInv, NoStacking', MatchLeg, PlaceQuote
  PROVE  [Promise!Next]_(Promise!vars)
<1> DEFINE n    == Len(orders) + 1
           slot == <<recon.strat, recon.inst, Target.side>>
<1>1. TypeOK /\ orders \in Seq(Order) /\ recon.todo # {}
  BY DEF StackingInv, TypeOK, MatchLeg
<1>2. PICK status \in {"PENDING_NEW", "REJECTED"} : Adds(NewOrder(status))
  BY <1>1, PlaceAdds
<1>3. /\ Ids' = Ids \union {n} /\ n \notin Ids
      /\ orders'[n] = NewOrder(status)
      /\ \A k \in Ids : orders'[k] = orders[k]
  BY <1>1, <1>2, AddStep
<1>4. /\ NewOrder(status).strat = recon.strat /\ NewOrder(status).inst = recon.inst
      /\ NewOrder(status).side = Target.side /\ NewOrder(status).status = status
  BY DEF NewOrder
<1>5. slot \in Slots
  BY <1>1, LegInHand DEF Slots, TypeOK, Reconciliation, Leg
<1>6. n \notin MappedRetired /\ \A s \in Slots : n \notin MappedWorking[s]
  BY <1>3 DEF MappedRetired, MappedWorking, Working
<1>7. n \notin Promise!Used
  BY <1>6 DEF Promise!Used, MappedRetired, MappedWorking
<1>8. CASE status = "PENDING_NEW"
  <2>1. MappedRetired' = MappedRetired
    BY <1>3, <1>4, <1>8 DEF MappedRetired, IsTerminal, Terminal
  <2>2. \A s, i, d : Working(s, i, d)' = IF <<s, i, d>> = slot
                                         THEN Working(s, i, d) \union {n}
                                         ELSE Working(s, i, d)
    BY <1>3, <1>4, <1>8 DEF Working, Active, Pending
  <2>3. MappedWorking' = [MappedWorking EXCEPT ![slot] = @ \union {n}]
    <3>1. ASSUME NEW t \in Slots
          PROVE  MappedWorking'[t] = IF t = slot THEN MappedWorking[t] \union {n}
                                                 ELSE MappedWorking[t]
      <4>1. t = <<t[1], t[2], t[3]>>
        BY DEF Slots
      <4> QED
        BY <2>2, <4>1 DEF MappedWorking
    <3> QED
      BY <1>5, <3>1 DEF MappedWorking
  <2>4. Cardinality(MappedWorking[slot]) < MaxLegs
    <3>1. PICK s \in Strategies, i \in Instruments, d \in Sides : slot = <<s, i, d>>
      BY <1>5 DEF Slots
    <3>2. Working(s, i, d)' = Working(s, i, d) \union {n} /\ n \notin Working(s, i, d)
      <4>1. Working(s, i, d)' = Working(s, i, d) \union {n}
        BY <2>2, <3>1, Zenon
      <4>2. n \notin Working(s, i, d)
        BY <1>3 DEF Working
      <4> QED
        BY <4>1, <4>2
    <3>3. IsFiniteSet(Working(s, i, d))
      BY <1>1, WorkingFinite
    <3>4. Cardinality(Working(s, i, d)') = Cardinality(Working(s, i, d)) + 1
      BY <3>2, <3>3, FS_AddElement
    <3>5. Cardinality(Working(s, i, d)') <= MaxLegs
      BY DEF NoStacking
    <3>6. Cardinality(Working(s, i, d)) \in Nat
      BY <3>3, FS_CardinalityType
    <3>7. MappedWorking[slot] = Working(s, i, d)
      BY <1>5, <3>1 DEF MappedWorking
    <3> QED
      BY <3>4, <3>5, <3>6, <3>7, SizeAssumption
  <2>5. Promise!Enter(slot, n)
    <3>1. Promise!Cardinality(MappedWorking[slot]) = Cardinality(MappedWorking[slot])
      BY Zenon DEF Promise!Cardinality, Cardinality
    <3> HIDE DEF slot, n
    <3> QED
      BY <1>7, <2>1, <2>3, <2>4, <3>1, Zenon DEF Promise!Enter, MappedWorking, MappedRetired
  <2>6. n \in MappedWorking'[slot]
    BY <1>5, <2>3 DEF MappedWorking
  <2> QED
    BY <1>5, <2>5, <2>6 DEF Promise!Next, MappedWorking
<1>9. CASE status = "REJECTED"
  <2>1. MappedRetired' = MappedRetired \union {n}
    BY <1>3, <1>4, <1>9 DEF MappedRetired, IsTerminal, Terminal
  <2>2. \A s, i, d : Working(s, i, d)' = Working(s, i, d)
    BY <1>3, <1>4, <1>9 DEF Working, Active, Pending, Resting
  <2>3. MappedWorking' = MappedWorking
    BY <2>2 DEF MappedWorking
  <2>4. Promise!Refuse(n)
    BY <1>7, <2>1, <2>3 DEF Promise!Refuse, MappedWorking, MappedRetired
  <2>5. n \in MappedRetired'
    BY <2>1
  <2> QED
    BY <2>4, <2>5 DEF Promise!Next, MappedRetired
<1> QED
  BY <1>8, <1>9

LEMMA PromiseInit == OMSInit => Promise!Init
<1> SUFFICES ASSUME OMSInit PROVE Promise!Init
  OBVIOUS
<1>1. Ids = {}
  BY DEF OMSInit, Ids
<1>2. MappedWorking = [slot \in Slots |-> {}] /\ MappedRetired = {}
  BY <1>1 DEF MappedWorking, MappedRetired, Working
<1> QED
  BY <1>2 DEF Promise!Init, MappedWorking, MappedRetired

(* The OMS implements the snapshot contract as SnapshotQuoting states it: an
   order enters a slot under an id never used before and while there is room,
   and what has left a slot (filled, cancelled, rejected) never comes back,
   whichever answers and fills arrive late. *)
THEOREM Implements == OMSSpec => PromiseKept
<1>1. ASSUME StackingInv, StackingInv', [OMSNext]_omsVars
      PROVE  [Promise!Next]_(Promise!vars)
  BY <1>1, TameOrPlaces, TameMaps, PlaceMaps DEF StackingInv
<1>2. OMSSpec => []StackingInv
  BY StackingInit, StackingStep, PTL DEF OMSSpec
<1> QED
  BY <1>1, <1>2, PromiseInit, PTL DEF OMSSpec, PromiseKept, Promise!Spec
=============================================================================
