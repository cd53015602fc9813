----------------------------- MODULE TradingDay -----------------------------
(***************************************************************************)
(* The loop that bounds a strategy's position: signals are judged against  *)
(* the positions the risk engine knows, the OMS works what was approved,   *)
(* fills reach the position engine and the risk engine over two queues and *)
(* the position engine's updates reach risk over a third.                  *)
(*                                                                         *)
(* The OMS and the venue are abstract here (modules OMS, BinanceFutures):  *)
(* working is the approved legs of the last verdict, side by side, and an  *)
(* order the OMS asks the venue to cancel is gone from it.  An order that  *)
(* is not acknowledged yet cannot be cancelled: it stays.                  *)
(* What a desk is configured with, and what its environment does, is one   *)
(* of Desks; every bound on a behaviour is a field of it:                  *)
(*   methods, rules, signals   accounting, rule lists, signals emitted     *)
(*   fills, ticks, trades      fills, mid prices, trades of the market     *)
(*   maxFills .. maxSnaps      how many of each, and of analytics snapshots*)
(*   lag                       length of the fill, update and alert queues *)
(*   hours                     last tick of the clock                      *)
(*   operator                  whether an operator uses the kill switch    *)
(*   open                      fills come from outside the working orders  *)
(***************************************************************************)
EXTENDS PositionEngine, RiskEngine, FlowToxicity

CONSTANTS Desks

VARIABLES
  desk,      \* the configuration, one of Desks
  flow,      \* the VPIN estimator of each instrument
  working,   \* the orders of the last approved verdict: its signal, and its legs
  acked,     \* the legs of working whose order the OMS knows to be acknowledged
  spent,     \* how much of each bound has been used
  traded,    \* history: net quantity and cash flow per instrument
  handled,   \* history: fills the risk engine has handled, per instrument
  overtaken, \* history: an update reached risk before a fill it covers
  lagged,    \* history: a verdict was given, or worked, on a stale position
  latchedAt, \* history: signals judged when the kill switch latched, or None
  passedAt,  \* history: when approved signals were judged
  midnight,  \* history: realized PnL at the last midnight, None if in doubt
  inFlight,  \* history: signals whose verdict the kill alert overtook
  spared,    \* history: <<signal, leg>> not acknowledged when the alert was handled
  tape       \* history: the VPIN values of each instrument

history  == <<handled, overtaken, lagged, latchedAt, passedAt, midnight, inFlight,
              spared, tape>>
dayVars  == <<posVars, riskVars, desk, flow, working, acked, spent, traded, history>>

Sides == {"BUY", "SELL"}

Fills == [inst : Instruments, side : Sides, qty : Nat \ {0}, price : Int, fee : Int]
Legs  == [side : Sides, qty : Nat, price : Nat]

ASSUME DeskAssumption ==
  \A d \in Desks :
    /\ d.methods \subseteq Methods /\ d.fills \subseteq Fills /\ d.ticks \subseteq Int
    /\ \A rl \in d.rules : rl \in Seq(ToSet(rl)) /\ \A k \in DOMAIN rl : RuleTypeOK(rl[k])
    /\ \A sig \in d.signals : sig.inst \in Instruments /\ sig.legs \in Seq(Legs)

NoWork == [id |-> 0, inst |-> None, legs |-> << >>]

(* What is working on one side. *)
Resting(w, side) ==
  SumOf([j \in 1..Max({0} \union DOMAIN w.legs) |->
           IF j \in DOMAIN w.legs /\ w.legs[j].side = side THEN w.legs[j].qty ELSE 0])

DayInit ==
  /\ desk \in Desks
  /\ PosInit(desk.methods)
  /\ RiskInit(desk.rules, Instruments)
  /\ flow = [i \in Instruments |-> FreshVpin]
  /\ working = NoWork /\ acked = {}
  /\ spent = [fills |-> 0, ticks |-> 0, trades |-> 0, snaps |-> 0]
  /\ traded = [i \in Instruments |-> [net |-> 0, cash |-> 0]]
  /\ handled = [i \in Instruments |-> 0]
  /\ overtaken = FALSE /\ lagged = FALSE
  /\ latchedAt = None
  /\ passedAt = {}
  /\ midnight = 0
  /\ inFlight = {} /\ spared = {}
  /\ tape = [i \in Instruments |-> << >>]

Spend(kind, bound) ==
  /\ spent[kind] < bound
  /\ spent' = [spent EXCEPT ![kind] = @ + 1]

Latched == latchedAt' = IF ~kill'.on THEN None ELSE IF kill.on THEN latchedAt ELSE judged'

(* Risk knows the true position and nothing it approved is on its way. *)
CaughtUp(i) == rs.pos[i] = traded[i].net /\ verdictQ = << >>

----------------------------------------------------------------------------
(* A fill is published: both subscribers' queues get it. *)
Fill(f) ==
  /\ Spend("fills", desk.maxFills)
  /\ Len(bookQ) < desk.lag /\ Len(fillQ) < desk.lag
  /\ bookQ' = Append(bookQ, f)
  /\ fillQ' = Append(fillQ, f)
  /\ traded' = [traded EXCEPT ![f.inst] =
        [net  |-> @.net + Sign(f.side) * f.qty,
         cash |-> @.cash - Sign(f.side) * f.qty * f.price - f.fee]]
  /\ lagged' = (lagged \/ verdictQ # << >>)
  /\ UNCHANGED <<method, books, opened, marks, updates, absorbed, lost>>
  /\ UNCHANGED <<rules, now, rs, kill, verdictQ, alertQ, dropped, judged>>
  /\ UNCHANGED <<desk, flow, acked>>
  /\ UNCHANGED <<handled, overtaken, latchedAt, passedAt, midnight, inFlight, spared, tape>>

VenueFill ==
  \E f \in desk.fills :
    \/ desk.open /\ Fill(f) /\ UNCHANGED working
    \/ \E j \in DOMAIN working.legs :
         /\ f.inst = working.inst /\ f.side = working.legs[j].side
         /\ f.qty <= working.legs[j].qty
         /\ working' = [working EXCEPT !.legs[j].qty = @ - f.qty]
         /\ Fill(f)

(* The position engine's steps. *)
Positions ==
  /\ \/ PositionOnFill /\ UNCHANGED spent
     \/ Len(updates) < desk.lag /\ MarkToMarketAll /\ UNCHANGED spent
     \/ \E i \in Instruments, mid \in desk.ticks :
          PositionOnTick(i, mid) /\ Spend("ticks", desk.maxTicks)
  /\ UNCHANGED <<riskVars, desk, flow, working, acked, traded, history>>

(* The risk engine's steps. *)
Signal ==
  /\ judged < desk.maxSignals
  /\ \E sig \in desk.signals :
       /\ RiskOnSignal(sig)
       /\ lagged' = (lagged \/ ~CaughtUp(sig.inst))
       /\ LET v == Verdict(sig, WithSignal(rs, now), now)
          IN  passedAt' = IF kill.on \/ ~v.approved THEN passedAt
                          ELSE passedAt \union {<<judged', sig.inst, now>>}
  /\ Latched
  /\ UNCHANGED <<posVars, desk, flow, working, acked, spent, traded, handled, overtaken, midnight, inFlight, spared, tape>>

RiskFill ==
  /\ RiskOnFill
  /\ handled' = [handled EXCEPT ![Head(fillQ).inst] = @ + 1]
  /\ UNCHANGED <<posVars, desk, flow, working, acked, spent, traded>>
  /\ UNCHANGED <<overtaken, lagged, latchedAt, passedAt, midnight, inFlight, spared, tape>>

RiskUpdate ==
  /\ updates # << >>
  /\ LET u == Head(updates)
     IN  /\ RiskOnUpdate(u)
         /\ overtaken' = (overtaken \/ u.absorbed > handled[u.inst])
  /\ updates' = Tail(updates)
  /\ UNCHANGED <<method, books, opened, marks, bookQ, absorbed, lost>>
  /\ UNCHANGED <<desk, flow, working, acked, spent, traded>>
  /\ UNCHANGED <<handled, lagged, latchedAt, passedAt, midnight, inFlight, spared, tape>>

(* The analytics service takes a trade of the market; or a tick, and risk handles
   the snapshot, which may have no VPIN yet. *)
MarketTrade ==
  /\ Spend("trades", desk.maxTrades)
  /\ \E t \in desk.trades : flow' = [flow EXCEPT ![t.inst] = WithTrade(@, t.price, t.volume)]
  /\ UNCHANGED <<posVars, riskVars, desk, working, acked, traded, history>>

Analytics ==
  /\ Spend("snaps", desk.maxSnaps)
  /\ \E i \in Instruments :
       IF flow[i].last = None THEN UNCHANGED <<riskVars, tape>>
       ELSE RiskOnAnalytics(i, flow[i].last) /\ tape' = [tape EXCEPT ![i] = Append(@, flow[i].last)]
  /\ UNCHANGED <<posVars, desk, flow, working, acked, traded>>
  /\ UNCHANGED <<handled, overtaken, lagged, latchedAt, passedAt, midnight, inFlight, spared>>

Operator ==
  /\ desk.operator
  /\ Len(alertQ) < desk.lag
  /\ OperatorEngages \/ OperatorResets
  /\ Latched
  /\ UNCHANGED <<posVars, desk, flow, working, acked, spent, traded>>
  /\ UNCHANGED <<handled, overtaken, lagged, passedAt, midnight, inFlight, spared, tape>>

(* The OMS hears that an order works. *)
OMSHearsAck ==
  /\ \E j \in DOMAIN working.legs \ acked : acked' = acked \union {j}
  /\ UNCHANGED <<posVars, riskVars, desk, flow, working, spent, traded, history>>

(* What the OMS cannot cancel: cancel_order gives up on an order that is PENDING_NEW. *)
Uncancelled(w) ==
  [w EXCEPT !.legs = [j \in DOMAIN w.legs \ acked |-> w.legs[j]]]

(* _on_risk_decision: the legs approved are quoted; a refusal cancels what rests. *)
OMSWorks ==
  /\ verdictQ # << >>
  /\ LET d == Head(verdictQ)
     IN  working' = IF d.approved THEN [id |-> d.id, inst |-> d.inst, legs |-> d.legs]
                    ELSE IF d.inst = working.inst THEN Uncancelled(working) ELSE working
  /\ acked' = IF Head(verdictQ).approved THEN {} ELSE acked \intersect DOMAIN working'.legs
  /\ verdictQ' = Tail(verdictQ)
  /\ UNCHANGED <<posVars, rules, now, rs, kill, fillQ, alertQ, dropped, judged>>
  /\ UNCHANGED <<desk, flow, spent, traded, history>>

(* _on_alert: _cancel_all_resting asks for every cancel before the OMS does anything
   else, for a publish never suspends. *)
OMSHalts ==
  /\ alertQ # << >>
  /\ alertQ' = Tail(alertQ)
  /\ working' = Uncancelled(working)
  /\ acked' = {}
  /\ inFlight' = {verdictQ[k].id : k \in DOMAIN verdictQ}
  /\ spared' = {<<working.id, j>> : j \in DOMAIN working'.legs}
  /\ UNCHANGED <<posVars, rules, now, rs, kill, fillQ, verdictQ, dropped, judged>>
  /\ UNCHANGED <<desk, flow, spent, traded>>
  /\ UNCHANGED <<handled, overtaken, lagged, latchedAt, passedAt, midnight, tape>>

Settled == bookQ = << >> /\ fillQ = << >> /\ updates = << >>

Realized == Total([i \in DOMAIN books |-> books[i].realized], opened)

(* Time passes. *)
ClockTick ==
  /\ now < desk.hours
  /\ now' = now + 1
  /\ midnight' = IF DayOf(now') = DayOf(now) THEN midnight
                 ELSE IF Settled THEN Realized ELSE None
  /\ UNCHANGED <<posVars, rules, rs, kill, fillQ, verdictQ, alertQ, dropped, judged>>
  /\ UNCHANGED <<desk, flow, working, acked, spent, traded>>
  /\ UNCHANGED <<handled, overtaken, lagged, latchedAt, passedAt, inFlight, spared, tape>>

DayNext ==
  \/ VenueFill \/ Positions
  \/ Signal \/ RiskFill \/ RiskUpdate \/ MarketTrade \/ Analytics \/ Operator
  \/ OMSHearsAck \/ OMSWorks \/ OMSHalts
  \/ ClockTick

DaySpec == DayInit /\ [][DayNext]_dayVars

----------------------------------------------------------------------------
(* Whatever the accounting method, and in whatever order lots are closed, what a
   book has realized and what its open lots are worth at a mark add up to the
   money that went in and out plus the position at that mark.  So does the portfolio,
   once every position has a mark: its total profit is its cash plus its net exposure. *)
Unhandled(i) == {k \in DOMAIN bookQ : bookQ[k].inst = i}
EquityIdentity ==
  /\ \A i \in DOMAIN books : Unhandled(i) = {} =>
       /\ Quantity(method, books[i]) = traded[i].net
       /\ \A mark \in Prices :
            books[i].realized + Unrealized(method, books[i], mark)
              = traded[i].cash + traded[i].net * mark
  /\ bookQ = << >> /\ (\A i \in DOMAIN books : Quantity(method, books[i]) # 0 => marks[i] # NoMark) =>
       Portfolio.realized + Portfolio.unrealized
         = Total([i \in DOMAIN books |-> traded[i].cash], opened) + Portfolio.net

(* Risk reads positions from fills (deltas) and from updates (absolute values).
   Once everything has been handled it knows every position, provided no update
   overtook a fill and none was lost. *)
RiskKnowsPositions ==
  Settled /\ ~overtaken /\ lost = 0 => \A i \in Instruments : rs.pos[i] = traded[i].net

(* The position cap: as long as all that is filled is what works, and every verdict was
   given on the true position and worked before the next fill, position plus resting
   orders stay within it. *)
CapRules == {rules[k] : k \in {k \in DOMAIN rules : rules[k].class = "max_position"}}
CapHolds ==
  ~lagged /\ ~desk.open => \A r \in CapRules, i \in Instruments :
    LET net == traded[i].net
        w == IF working.inst = i THEN working ELSE NoWork
    IN  /\ net + Resting(w, "BUY") <= r.maxLong \/ Resting(w, "BUY") = 0
        /\ net - Resting(w, "SELL") >= -r.maxShort \/ Resting(w, "SELL") = 0

(* Nothing judged after the kill switch latched is traded: an approval on its way
   to the OMS, or being worked, is of a signal judged before, or of the one that
   tripped the switch. *)
NothingAfterLatch ==
  kill.on =>
    /\ working.id <= latchedAt
    /\ \A k \in DOMAIN verdictQ : verdictQ[k].approved => verdictQ[k].id <= latchedAt

(* A latch whose event is not lost clears the book: what works after the OMS has
   handled it is of a verdict the alert overtook, or was not acknowledged then. *)
HaltClears ==
  kill.on /\ dropped = 0 /\ alertQ = << >> =>
    \A j \in DOMAIN working.legs : working.id \in inFlight \/ <<working.id, j>> \in spared

(* A throttle bounds the approvals in every window of its length, the window's
   two ends included, when it is the only reader of the signal history. *)
Throttles == {k \in DOMAIN rules : rules[k].class = "throttle"}
ThrottleBounds ==
  \A k \in Throttles : Throttles = {k} =>
    \A t \in 0..now :
      Cardinality({p \in passedAt : p[3] \in (t - rules[k].window)..t}) <= rules[k].maxSignals

(* The daily loss: as long as one instrument is all that was traded, with every event
   handled in order and the books settled at midnight, no signal passes once the day's
   realized loss has reached the cap.  With a second instrument it may: risk has one
   profit for the strategy, that of the book it heard of last. *)
LossExceeds(rule) == Realized - midnight <= -rule.maxLoss
LossStops ==
  [][\A k \in DOMAIN rules :
       /\ rules[k].class = "daily_loss"
       /\ Settled /\ lost = 0 /\ midnight # None
       /\ \E i \in Instruments : DOMAIN books \subseteq {i}
       /\ LossExceeds(rules[k])
       => passedAt' = passedAt]_dayVars

(* The VPIN breaker halts trading only for a run of breaches on one instrument,
   up to the last value seen; a single spike, or spikes with a calm value between
   them, do not. *)
SustainedIn(values, rule) ==
  /\ Len(values) >= rule.sustained
  /\ \A n \in 0..(rule.sustained - 1) : values[Len(values) - n] >= rule.threshold
VpinSustained ==
  [][~kill.on /\ kill'.on /\ kill'.by = "vpin"
     => \E k \in DOMAIN rules, i \in Instruments :
          rules[k].class = "vpin" /\ SustainedIn(tape[i], rules[k])]_dayVars
=============================================================================
