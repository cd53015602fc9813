---------------------------- MODULE Desk_proofs ----------------------------
(***************************************************************************)
(* The desk, for every configuration: any rules, any signals, any          *)
(* accounting method, queues of any length, and an operator who may reset  *)
(* the kill switch and trip it again; and the strategies that quote on it. *)
(*                                                                         *)
(* First, what a latched kill switch promises.  Signals are numbered as    *)
(* they are judged, so what was judged before the latch has a number up to *)
(* latchedAt.  That is not enough for the halt: once the alerts are        *)
(* handled, what can still be worked is what was in the queue at the last  *)
(* of them, or could not be cancelled then.                                *)
(***************************************************************************)
EXTENDS TradingDay, Quoters, Sums_proofs, FiniteSetTheorems, TLAPS

IsQueue(q) == \E S : q \in Seq(S)

Worked == working = [id |-> working.id, inst |-> working.inst, legs |-> working.legs]

DayTypeOK ==
  /\ judged \in Nat /\ dropped \in Nat
  /\ kill.on \in BOOLEAN
  /\ IsQueue(verdictQ) /\ IsQueue(alertQ)
  /\ Worked
  /\ \A k \in 1..Len(verdictQ) : verdictQ[k].id \in Nat

(* No number is given twice. *)
Numbered ==
  /\ working.id \in 0..judged
  /\ \A k \in 1..Len(verdictQ) : verdictQ[k].id \in 0..judged

(* While the switch is latched, approvals are from before. *)
Before ==
  kill.on =>
    /\ latchedAt \in 0..judged
    /\ working.id <= latchedAt
    /\ \A k \in 1..Len(verdictQ) : verdictQ[k].approved => verdictQ[k].id <= latchedAt

(* When all alerts are handled, they were on their way at the last of them, and so was
   what works, but for the legs that were not acknowledged then. *)
Cleared ==
  kill.on /\ dropped = 0 /\ alertQ = << >> =>
    /\ \A j \in DOMAIN working.legs : working.id \in inFlight \/ <<working.id, j>> \in spared
    /\ \A k \in 1..Len(verdictQ) : verdictQ[k].approved => verdictQ[k].id \in inFlight

DayInv == DayTypeOK /\ Numbered /\ Before /\ Cleared

----------------------------------------------------------------------------
(* A queue after a put: what was there, and the new one behind it. *)
LEMMA Put ==
  ASSUME NEW q, IsQueue(q), NEW e
  PROVE  /\ IsQueue(Append(q, e)) /\ Append(q, e) # << >>
         /\ \A k \in 1..Len(Append(q, e)) :
              (k \in 1..Len(q) /\ Append(q, e)[k] = q[k]) \/ Append(q, e)[k] = e
<1>1. PICK S : q \in Seq(S)
  BY DEF IsQueue
<1> DEFINE T == S \union {e}
<1>2. q \in Seq(T) /\ e \in T
  BY <1>1
<1> HIDE DEF T
<1>3. Append(q, e) \in Seq(T) /\ Len(q) \in Nat /\ Len(Append(q, e)) = Len(q) + 1
  BY <1>2
<1>4. \A k \in 1..Len(q) : Append(q, e)[k] = q[k]
  BY <1>2
<1>5. Append(q, e)[Len(q) + 1] = e
  BY <1>2
<1>6. \A k \in 1..Len(Append(q, e)) : k \in 1..Len(q) \/ k = Len(q) + 1
  BY <1>3
<1>7. Append(q, e) # << >>
  BY <1>3
<1> QED BY <1>3, <1>4, <1>5, <1>6, <1>7 DEF IsQueue

(* A queue after its first is taken. *)
LEMMA Take ==
  ASSUME NEW q, IsQueue(q), q # << >>
  PROVE  /\ IsQueue(Tail(q)) /\ 1 \in 1..Len(q) /\ Head(q) = q[1]
         /\ \A k \in 1..Len(Tail(q)) : k + 1 \in 1..Len(q) /\ Tail(q)[k] = q[k + 1]
<1>1. PICK S : q \in Seq(S)
  BY DEF IsQueue
<1>2. Tail(q) \in Seq(S) /\ Len(q) \in Nat \ {0} /\ Len(Tail(q)) = Len(q) - 1
  BY <1>1
<1>3. Head(q) = q[1] /\ \A k \in 1..Len(Tail(q)) : Tail(q)[k] = q[k + 1]
  BY <1>1, <1>2
<1> QED BY <1>2, <1>3 DEF IsQueue

----------------------------------------------------------------------------
(* The day begins with the switch off. *)
LEMMA DayInitInv == DayInit => DayInv
<1> SUFFICES ASSUME DayInit PROVE DayInv
  OBVIOUS
<1>1. /\ judged = 0 /\ dropped = 0 /\ kill = NotEngaged
      /\ verdictQ = << >> /\ alertQ = << >> /\ working = NoWork
  BY DEF DayInit, RiskInit
<1>2. IsQueue(<< >>)
  BY DEF IsQueue
<1>3. working.id = 0 /\ Worked /\ ~kill.on /\ DOMAIN working.legs = {}
  BY <1>1 DEF NoWork, Worked, NotEngaged
<1> QED BY <1>1, <1>2, <1>3 DEF DayInv, DayTypeOK, Numbered, Before, Cleared, NotEngaged

(* The parts of the state the switch has to do with. *)
switch == <<judged, dropped, kill, verdictQ, alertQ, working, latchedAt, inFlight,
            spared>>

(* Steps elsewhere leave it as it is. *)
LEMMA Untouched == DayInv /\ UNCHANGED switch => DayInv'
BY DEF DayInv, DayTypeOK, Numbered, Before, Cleared, Worked, switch

(* An execution only takes from what is working. *)
LEMMA VenueFillKeeps == DayInv /\ VenueFill => DayInv'
<1> SUFFICES ASSUME DayInv, VenueFill PROVE DayInv'
  OBVIOUS
<1>1. PICK f \in desk.fills :
        /\ Fill(f)
        /\ \/ UNCHANGED working
           \/ \E j \in DOMAIN working.legs : working' = [working EXCEPT !.legs[j].qty = @ - f.qty]
  BY DEF VenueFill
<1>2. UNCHANGED <<judged, dropped, kill, verdictQ, alertQ, latchedAt, inFlight, spared>>
  BY <1>1 DEF Fill
<1>3. CASE UNCHANGED working
  BY <1>2, <1>3, Untouched DEF switch
<1>4. ASSUME NEW j \in DOMAIN working.legs, working' = [working EXCEPT !.legs[j].qty = @ - f.qty]
      PROVE  DayInv'
  <2>1. working = [id |-> working.id, inst |-> working.inst, legs |-> working.legs]
    BY DEF DayInv, DayTypeOK, Worked
  <2>2. working'.id = working.id /\ Worked' /\ DOMAIN working'.legs = DOMAIN working.legs
    BY <2>1, <1>4 DEF Worked
  <2> QED BY <2>2, <1>2 DEF DayInv, DayTypeOK, Numbered, Before, Cleared
<1> QED BY <1>1, <1>3, <1>4

(* A signal: latched, it is refused; else it is judged, and may trip the switch. *)
LEMMA SignalKeeps == DayInv /\ Signal => DayInv'
<1> SUFFICES ASSUME DayInv, Signal PROVE DayInv'
  OBVIOUS
<1>1. DayTypeOK /\ Numbered /\ Before /\ Cleared
  BY DEF DayInv
<1>2. PICK sig \in desk.signals : RiskOnSignal(sig)
  BY DEF Signal
<1>3. PICK heard \in BOOLEAN, told \in BOOLEAN :
        /\ \/ told /\ OnSignalKilled(sig, heard)
           \/ OnSignalJudged(sig, heard, told)
        /\ dropped' = dropped + (IF heard THEN 0 ELSE 1) + (IF told THEN 0 ELSE 1)
  <2>1. PICK heard \in BOOLEAN, told \in BOOLEAN :
          /\ \/ told /\ OnSignalKilled(sig, heard)
             \/ OnSignalJudged(sig, heard, told)
          /\ Losses((IF heard THEN 0 ELSE 1) + (IF told THEN 0 ELSE 1))
    BY <1>2 DEF RiskOnSignal
  <2>2. dropped' = dropped + (IF heard THEN 0 ELSE 1) + (IF told THEN 0 ELSE 1)
    BY <2>1, <1>1 DEF Losses, DayTypeOK
  <2> QED BY <2>1, <2>2
<1>4. /\ judged' = judged + 1 /\ judged \in Nat /\ dropped' \in Nat
      /\ dropped' = 0 => dropped = 0 /\ told
      /\ UNCHANGED <<working, inFlight, spared>>
      /\ latchedAt' = IF ~kill'.on THEN None ELSE IF kill.on THEN latchedAt ELSE judged'
  BY <1>1, <1>2, <1>3 DEF RiskOnSignal, Signal, Latched, DayTypeOK
<1>5. PICK d : /\ Sent(verdictQ, d, heard) /\ d.id = judged + 1
               /\ kill.on => ~d.approved
  <2>1. CASE OnSignalKilled(sig, heard)
    <3>1. Refusal(sig).id = judged + 1 /\ ~Refusal(sig).approved
      BY DEF Refusal, Decision
    <3> QED BY <3>1, <2>1 DEF OnSignalKilled
  <2>2. CASE OnSignalJudged(sig, heard, told)
    <3> DEFINE v == Verdict(sig, WithSignal(rs, now), now)
    <3>1. Sent(verdictQ, Decision(sig, v), heard) /\ ~kill.on
      BY <2>2 DEF OnSignalJudged
    <3>2. Decision(sig, v).id = judged + 1
      BY DEF Decision
    <3> QED BY <3>1, <3>2
  <2> QED BY <2>1, <2>2, <1>3
<1>6. /\ kill'.on \in BOOLEAN /\ IsQueue(alertQ')
      /\ kill.on => kill'.on /\ alertQ' = alertQ
      /\ ~kill.on /\ kill'.on /\ told => alertQ' # << >>
  <2>1. CASE UNCHANGED <<kill, alertQ>>
    BY <2>1, <1>1 DEF DayTypeOK
  <2>2. ASSUME NEW by, Engage(by, told), ~kill.on
        PROVE  kill'.on /\ kill'.on \in BOOLEAN /\ IsQueue(alertQ') /\ (told => alertQ' # << >>)
    <3>1. kill' = [on |-> TRUE, by |-> by] /\ Sent(alertQ, by, told)
      BY <2>2 DEF Engage
    <3>2. IsQueue(Append(alertQ, by)) /\ Append(alertQ, by) # << >>
      BY <1>1, Put DEF DayTypeOK
    <3> QED BY <3>1, <3>2, <1>1 DEF Sent, DayTypeOK
  <2> QED BY <2>1, <2>2, <1>3 DEF OnSignalKilled, OnSignalJudged
<1>7. /\ IsQueue(verdictQ')
      /\ \A k \in 1..Len(verdictQ') :
           (k \in 1..Len(verdictQ) /\ verdictQ'[k] = verdictQ[k]) \/ verdictQ'[k] = d
  <2>1. verdictQ' = verdictQ \/ verdictQ' = Append(verdictQ, d)
    BY <1>5 DEF Sent
  <2>2. CASE verdictQ' = verdictQ BY <2>2, <1>1 DEF DayTypeOK
  <2>3. CASE verdictQ' = Append(verdictQ, d) BY <2>3, <1>1, Put DEF DayTypeOK
  <2> QED BY <2>1, <2>2, <2>3
<1>8. DayTypeOK'
  BY <1>1, <1>4, <1>5, <1>6, <1>7 DEF DayTypeOK, Worked
<1>9. Numbered'
  <2>1. working'.id \in 0..judged'
    BY <1>1, <1>4 DEF Numbered
  <2>2. ASSUME NEW k \in 1..Len(verdictQ')
        PROVE  verdictQ'[k].id \in 0..judged'
    <3>1. (k \in 1..Len(verdictQ) /\ verdictQ'[k] = verdictQ[k]) \/ verdictQ'[k] = d
      BY <1>7
    <3>2. d.id \in 0..judged'
      BY <1>4, <1>5
    <3>3. k \in 1..Len(verdictQ) => verdictQ[k].id \in 0..judged'
      BY <1>1, <1>4 DEF Numbered
    <3> QED BY <3>1, <3>2, <3>3
  <2> QED BY <2>1, <2>2 DEF Numbered
<1>10. Before'
  <2>1. CASE kill.on
    BY <2>1, <1>1, <1>4, <1>5, <1>6, <1>7 DEF Before
  <2>2. CASE ~kill.on
    BY <2>2, <1>4, <1>9 DEF Before, Numbered
  <2> QED BY <2>1, <2>2
<1>11. Cleared'
  <2>1. CASE kill.on
    BY <2>1, <1>1, <1>4, <1>5, <1>6, <1>7 DEF Cleared
  <2>2. CASE ~kill.on
    BY <2>2, <1>4, <1>6 DEF Cleared
  <2> QED BY <2>1, <2>2
<1> QED BY <1>8, <1>9, <1>10, <1>11 DEF DayInv

(* The operator trips the switch, or resets it. *)
LEMMA OperatorKeeps == DayInv /\ Operator => DayInv'
<1> SUFFICES ASSUME DayInv, Operator PROVE DayInv'
  OBVIOUS
<1>1. DayTypeOK /\ Numbered /\ Before /\ Cleared
  BY DEF DayInv
<1>2. /\ UNCHANGED <<working, inFlight, spared>>
      /\ latchedAt' = IF ~kill'.on THEN None ELSE IF kill.on THEN latchedAt ELSE judged'
  BY DEF Operator, Latched
<1>3. CASE OperatorResets
  <2>1. UNCHANGED <<judged, dropped, verdictQ, alertQ>> /\ kill' = NotEngaged
    BY <1>3 DEF OperatorResets
  <2>2. kill'.on = FALSE
    BY <2>1 DEF NotEngaged
  <2> QED BY <2>1, <2>2, <1>1, <1>2 DEF DayInv, DayTypeOK, Numbered, Before, Cleared, Worked
<1>4. CASE OperatorEngages
  <2>1. PICK told \in BOOLEAN :
          Engage("operator", told) /\ dropped' = dropped + (IF told THEN 0 ELSE 1)
    BY <1>4 DEF OperatorEngages, Losses
  <2>2. UNCHANGED <<judged, verdictQ>>
    BY <1>4 DEF OperatorEngages
  <2>3. CASE kill.on
    <3>1. UNCHANGED <<kill, alertQ>>
      BY <2>1, <2>3 DEF Engage
    <3>2. dropped' \in Nat /\ (dropped' = 0 => dropped = 0)
      BY <2>1, <1>1 DEF DayTypeOK
    <3>3. latchedAt' = latchedAt
      BY <3>1, <2>3, <1>2
    <3> QED BY <3>1, <3>2, <3>3, <2>2, <1>1, <1>2
            DEF DayInv, DayTypeOK, Numbered, Before, Cleared, Worked
  <2>4. CASE ~kill.on
    <3>1. kill' = [on |-> TRUE, by |-> "operator"] /\ Sent(alertQ, "operator", told)
      BY <2>1, <2>4 DEF Engage
    <3>2. IsQueue(Append(alertQ, "operator")) /\ Append(alertQ, "operator") # << >>
      BY <1>1, Put DEF DayTypeOK
    <3>3. /\ kill'.on /\ kill'.on \in BOOLEAN /\ IsQueue(alertQ') /\ dropped' \in Nat
          /\ dropped' = 0 => alertQ' # << >>
      BY <3>1, <3>2, <2>1, <1>1 DEF Sent, DayTypeOK
    <3>4. latchedAt' = judged
      BY <3>3, <2>2, <2>4, <1>2
    <3> QED BY <3>3, <3>4, <2>2, <1>1, <1>2
            DEF DayInv, DayTypeOK, Numbered, Before, Cleared, Worked
  <2> QED BY <2>3, <2>4, <1>1 DEF DayTypeOK
<1> QED BY <1>3, <1>4 DEF Operator

(* What cannot be cancelled is of the same signal, and less. *)
LEMMA UncancelledIs ==
  ASSUME Worked
  PROVE  LET w == Uncancelled(working)
         IN  /\ w = [id |-> w.id, inst |-> w.inst, legs |-> w.legs]
             /\ w.id = working.id /\ w.inst = working.inst
             /\ DOMAIN w.legs \subseteq DOMAIN working.legs
             /\ w.legs = [j \in DOMAIN working.legs \ acked |-> working.legs[j]]
BY DEF Worked, Uncancelled

(* The OMS takes the next verdict. *)
LEMMA OMSWorksKeeps == DayInv /\ OMSWorks => DayInv'
<1> SUFFICES ASSUME DayInv, OMSWorks PROVE DayInv'
  OBVIOUS
<1>1. DayTypeOK /\ Numbered /\ Before /\ Cleared /\ verdictQ # << >>
  BY DEF DayInv, OMSWorks
<1>2. /\ UNCHANGED <<judged, dropped, kill, alertQ, latchedAt, inFlight, spared>>
      /\ verdictQ' = Tail(verdictQ)
      /\ working' = IF Head(verdictQ).approved
                    THEN [id |-> Head(verdictQ).id, inst |-> Head(verdictQ).inst,
                          legs |-> Head(verdictQ).legs]
                    ELSE IF Head(verdictQ).inst = working.inst THEN Uncancelled(working) ELSE working
  BY DEF OMSWorks, history
<1>3. /\ IsQueue(verdictQ') /\ 1 \in 1..Len(verdictQ) /\ Head(verdictQ) = verdictQ[1]
      /\ \A k \in 1..Len(verdictQ') :
           k + 1 \in 1..Len(verdictQ) /\ verdictQ'[k] = verdictQ[k + 1]
  BY <1>1, <1>2, Take DEF DayTypeOK
<1>4. CASE Head(verdictQ).approved
  <2>1. working'.id = verdictQ[1].id /\ Worked' /\ verdictQ[1].approved
    BY <1>2, <1>3, <1>4 DEF Worked
  <2> QED BY <2>1, <1>1, <1>2, <1>3 DEF DayInv, DayTypeOK, Numbered, Before, Cleared
<1>5. CASE ~Head(verdictQ).approved
  <2>1. working'.id = working.id /\ Worked' /\ DOMAIN working'.legs \subseteq DOMAIN working.legs
    BY <1>1, <1>2, <1>5, UncancelledIs DEF Worked, DayTypeOK
  <2> QED BY <2>1, <1>1, <1>2, <1>3 DEF DayInv, DayTypeOK, Numbered, Before, Cleared
<1> QED BY <1>4, <1>5

(* The OMS takes a kill alert. *)
LEMMA OMSHaltsKeeps == DayInv /\ OMSHalts => DayInv'
<1> SUFFICES ASSUME DayInv, OMSHalts PROVE DayInv'
  OBVIOUS
<1>1. DayTypeOK /\ Numbered /\ Before /\ alertQ # << >>
  BY DEF DayInv, OMSHalts
<1>2. /\ UNCHANGED <<judged, dropped, kill, verdictQ, latchedAt>>
      /\ alertQ' = Tail(alertQ) /\ working' = Uncancelled(working)
      /\ inFlight' = {verdictQ[k].id : k \in DOMAIN verdictQ}
      /\ spared' = {<<working.id, j>> : j \in DOMAIN working'.legs}
  BY DEF OMSHalts
<1>3. IsQueue(alertQ')
  BY <1>1, <1>2, Take DEF DayTypeOK
<1>4. working'.id = working.id /\ Worked'
  BY <1>1, <1>2, UncancelledIs DEF Worked, DayTypeOK
<1>5. \A k \in 1..Len(verdictQ) : verdictQ[k].id \in inFlight'
  <2>1. DOMAIN verdictQ = 1..Len(verdictQ)
    BY <1>1 DEF DayTypeOK, IsQueue
  <2> QED BY <2>1, <1>2
<1>6. \A j \in DOMAIN working'.legs : <<working'.id, j>> \in spared'
  BY <1>2, <1>4
<1> QED BY <1>1, <1>2, <1>3, <1>4, <1>5, <1>6 DEF DayInv, DayTypeOK, Numbered, Before, Cleared

(* Every step of the day keeps the invariant. *)
LEMMA DayStep == DayInv /\ [DayNext]_dayVars => DayInv'
<1> SUFFICES ASSUME DayInv, [DayNext]_dayVars PROVE DayInv'
  OBVIOUS
<1>1. CASE VenueFill BY <1>1, VenueFillKeeps
<1>2. CASE Positions
  BY <1>2, Untouched DEF Positions, riskVars, history, switch
<1>3. CASE Signal BY <1>3, SignalKeeps
<1>4. CASE RiskFill
  BY <1>4, Untouched DEF RiskFill, RiskOnFill, switch
<1>5. CASE RiskUpdate
  BY <1>5, Untouched DEF RiskUpdate, RiskOnUpdate, switch
<1>6. CASE MarketTrade
  BY <1>6, Untouched DEF MarketTrade, riskVars, history, switch
<1>7. CASE Analytics
  BY <1>7, Untouched DEF Analytics, RiskOnAnalytics, riskVars, switch
<1>8. CASE Operator BY <1>8, OperatorKeeps
<1>9. CASE OMSWorks BY <1>9, OMSWorksKeeps
<1>10. CASE OMSHalts BY <1>10, OMSHaltsKeeps
<1>11. CASE ClockTick
  BY <1>11, Untouched DEF ClockTick, switch
<1>12. CASE OMSHearsAck
  BY <1>12, Untouched DEF OMSHearsAck, riskVars, history, switch
<1>13. CASE UNCHANGED dayVars
  BY <1>13, Untouched DEF dayVars, riskVars, history, switch
<1> QED
  BY <1>1, <1>2, <1>3, <1>4, <1>5, <1>6, <1>7, <1>8, <1>9, <1>10, <1>11, <1>12, <1>13 DEF DayNext

(* So it always holds. *)
LEMMA DayInvariant == DaySpec => []DayInv
BY DayInitInv, DayStep, PTL DEF DaySpec

(* A latched switch refuses every signal (the short-circuit of _on_signal), whatever
   the rules, and whatever was reset before. *)
THEOREM LatchRefuses == DaySpec => []NothingAfterLatch
<1>1. DayInv => NothingAfterLatch
  <2> SUFFICES ASSUME DayInv, kill.on
               PROVE  /\ working.id <= latchedAt
                      /\ \A k \in DOMAIN verdictQ :
                           verdictQ[k].approved => verdictQ[k].id <= latchedAt
    BY DEF NothingAfterLatch
  <2>1. DOMAIN verdictQ = 1..Len(verdictQ)
    BY DEF DayInv, DayTypeOK, IsQueue
  <2> QED BY <2>1 DEF DayInv, Before
<1> QED BY <1>1, DayInvariant, PTL

(* An alert that is not lost (_engage_kill_switch) clears what works: what is left of it
   was not acknowledged when the alert was handled (cancel_order gives up on it). *)
THEOREM LatchClears == DaySpec => []HaltClears
<1>1. DayInv => HaltClears
  BY DEF DayInv, Cleared, HaltClears
<1> QED BY <1>1, DayInvariant, PTL

----------------------------------------------------------------------------
(***************************************************************************)
(* What the rules make of the state of the risk engine: they find the      *)
(* positions and the flow there were, and trim the history.                *)
(***************************************************************************)

(* What a desk is configured with stays as it was. *)
Configured ==
  /\ desk \in Desks /\ rules \in desk.rules /\ method \in desk.methods

LEMMA RulesAre ==
  ASSUME Configured
  PROVE  /\ rules \in Seq(ToSet(rules)) /\ Len(rules) \in Nat /\ DOMAIN rules = 1..Len(rules)
         /\ \A k \in 1..Len(rules) : RuleTypeOK(rules[k])
<1>1. rules \in Seq(ToSet(rules)) /\ \A k \in DOMAIN rules : RuleTypeOK(rules[k])
  BY DeskAssumption DEF Configured
<1> QED
  BY <1>1, LenProperties

(* A state the risk engine may be in. *)
IsRiskState(r) ==
  /\ r = [pos |-> r.pos, seen |-> r.seen, realized |-> r.realized, unrealized |-> r.unrealized,
          base |-> r.base, day |-> r.day, peak |-> r.peak, recent |-> r.recent,
          vpin |-> r.vpin, breach |-> r.breach]
  /\ r.recent \in Seq(Nat)

(* What the day's profit is measured from, once the day has been looked at. *)
Baseline(r, t) == IF r.day # DayOf(t) THEN r.realized ELSE r.base

(* What the reads of the rules may make of a state, if they leave its history in R. *)
Reads(r, t, R) ==
  {q \in [pos : {r.pos}, seen : {r.seen}, realized : {r.realized}, unrealized : {r.unrealized},
          base : {r.base, r.realized}, day : {r.day, DayOf(t)}, peak : {r.peak, None}, recent : R,
          vpin : {r.vpin}, breach : {r.breach}] : Baseline(q, t) = Baseline(r, t)}

(* A history in R stays in R. *)
Trims(t, R) ==
  \A q \in R, k \in Throttles : Sifted(q, {x \in ToSet(q) : x >= t - rules[k].window}) \in R

LEMMA ReadsClosed ==
  ASSUME Configured, NEW r, NEW t, NEW R, Trims(t, R), NEW q \in Reads(r, t, R), NEW k \in 1..Len(rules)
  PROVE  AfterJudging(rules[k], q, t) \in Reads(r, t, R)
<1>1. DOMAIN rules = 1..Len(rules)
  BY RulesAre
<1>2. CASE rules[k].class = "throttle"
  <2>1. k \in Throttles
    BY <1>1, <1>2 DEF Throttles
  <2>2. q.recent \in R
    BY DEF Reads
  <2>3. Sifted(q.recent, {x \in ToSet(q.recent) : x >= t - rules[k].window}) \in R
    BY <2>1, <2>2 DEF Trims
  <2>4. AfterJudging(rules[k], q, t) =
          [q EXCEPT !.recent = Sifted(q.recent, {x \in ToSet(q.recent) : x >= t - rules[k].window})]
    BY <1>2 DEF AfterJudging, Trimmed
  <2> QED
    BY <2>3, <2>4 DEF Reads, Baseline
<1>3. CASE rules[k].class = "daily_loss"
  <2>1. AfterJudging(rules[k], q, t) = IF q.seen THEN RolledOver(q, t) ELSE q
    BY <1>3 DEF AfterJudging
  <2>2. CASE q.day # DayOf(t)
    <3> DEFINE p == [q EXCEPT !.base = q.realized, !.day = DayOf(t), !.peak = None]
    <3>1. RolledOver(q, t) = p
      BY <2>2 DEF RolledOver
    <3>2. q.realized = r.realized /\ Baseline(q, t) = Baseline(r, t)
      BY DEF Reads
    <3>3. /\ p.day = DayOf(t) /\ p.base = q.realized
          /\ p \in [pos : {r.pos}, seen : {r.seen}, realized : {r.realized}, unrealized : {r.unrealized},
                    base : {r.base, r.realized}, day : {r.day, DayOf(t)}, peak : {r.peak, None}, recent : R,
                    vpin : {r.vpin}, breach : {r.breach}]
      BY <3>2 DEF Reads
    <3> HIDE DEF p
    <3>4. Baseline(p, t) = Baseline(r, t)
      BY <2>2, <3>2, <3>3 DEF Baseline
    <3>5. p \in Reads(r, t, R)
      BY <3>3, <3>4 DEF Reads
    <3> QED BY <2>1, <3>1, <3>5
  <2>3. CASE q.day = DayOf(t)
    <3>1. RolledOver(q, t) = [q EXCEPT !.peak = None]
      BY <2>3 DEF RolledOver
    <3> QED BY <2>1, <2>3, <3>1 DEF Reads, Baseline
  <2> QED BY <2>2, <2>3
<1>4. CASE rules[k].class \notin {"throttle", "daily_loss"}
  <2>1. AfterJudging(rules[k], q, t) = q
    BY <1>4 DEF AfterJudging
  <2> QED BY <2>1
<1> QED BY <1>2, <1>3, <1>4

(* So each rule finds the positions and the flow there were, and a history in R. *)
LEMMA StatesFound ==
  ASSUME Configured, NEW r, NEW t, NEW R, Trims(t, R), NEW q0 \in Reads(r, t, R)
  PROVE  \A k \in 0..Len(rules) : StateFor(q0, t)[k] \in Reads(r, t, R)
<1> DEFINE N == Len(rules)
           B == Reads(r, t, R)
           To(k, q) == AfterJudging(rules[k], q, t)
           Solves(f) == f = [k \in 0..N |-> IF k = 0 THEN q0 ELSE To(k, f[k - 1])]
           g == [z \in Nat \X B |-> IF z[1] \in 1..N THEN To(z[1], z[2]) ELSE z[2]]
           u == CHOOSE f : Solves(f)
<1>1. N \in Nat
  BY RulesAre
<1>2. \A k \in 1..N, q \in B : To(k, q) \in B
  BY ReadsClosed
<1> HIDE DEF To, B
<1>3. g \in [Nat \X B -> B]
  <2>1. ASSUME NEW z \in Nat \X B PROVE (IF z[1] \in 1..N THEN To(z[1], z[2]) ELSE z[2]) \in B
    <3>1. z[2] \in B
      OBVIOUS
    <3> QED BY <3>1, <1>2
  <2> QED BY <2>1
<1> HIDE DEF g
<1>4. PICK p \in [0..N -> B] : p[0] = q0 /\ \A n \in 1..N : p[n] = g[<<n, p[n - 1]>>]
  <2>1. q0 \in B
    BY DEF B
  <2>2. CanStep(N, B, q0, g)
    BY <1>1, <1>3, <2>1, FoldExists
  <2> QED BY <2>2, Zenon DEF CanStep
<1>5. \A n \in 1..N : p[n] = To(n, p[n - 1])
  <2> SUFFICES ASSUME NEW n \in 1..N PROVE p[n] = To(n, p[n - 1])
    OBVIOUS
  <2>1. n - 1 \in 0..N /\ n \in Nat
    BY <1>1
  <2>2. p[n - 1] \in B /\ <<n, p[n - 1]>> \in Nat \X B
    BY <1>4, <2>1
  <2>3. g[<<n, p[n - 1]>>] = To(n, p[n - 1])
    BY <2>2 DEF g
  <2> QED BY <1>4, <2>3
<1>6. Solves(p)
  <2>1. \A n \in 0..N : p[n] = IF n = 0 THEN q0 ELSE To(n, p[n - 1])
    BY <1>1, <1>4, <1>5
  <2> QED BY <1>4, <2>1
<1>7. Solves(u)
  <2> HIDE DEF Solves
  <2> QED BY <1>6
<1>8. StateFor(q0, t) = u
  BY DEF StateFor, To
<1> HIDE DEF u
<1>9. ASSUME NEW m \in 0..N PROVE u[m] \in B
  <2>1. u[0] = p[0]
    BY <1>1, <1>4, <1>7
  <2>2. ASSUME NEW n \in 1..m, u[n - 1] = p[n - 1] PROVE u[n] = p[n]
    <3>1. n \in 0..N /\ n # 0 /\ n \in 1..N
      BY <1>1
    <3>2. u[n] = To(n, u[n - 1])
      BY <1>7, <3>1
    <3> QED BY <1>5, <2>2, <3>1, <3>2
  <2>3. m \in Nat
    BY <1>1
  <2>4. u[m] = p[m]
    BY <2>1, <2>2, <2>3, StepsAgree
  <2> QED BY <1>4, <2>4
<1> QED
  BY <1>8, <1>9 DEF B

(* A signal that passes has legs, and every rule has passed them in such a state. *)
Passed(sig, r, t, R, kept, v) ==
  /\ kept \in SUBSET (DOMAIN sig.legs) /\ kept # {}
  /\ v.legs = [j \in kept |-> Sized(sig.legs[j], Clamped(sig.legs[j], Results(sig, j, r, t)))]
  /\ \A j \in kept, k \in 1..Len(rules) :
       /\ Results(sig, j, r, t)[k].ok
       /\ \E q \in Reads(r, t, R) : Results(sig, j, r, t)[k] = Judge(rules[k], sig, j, q, t)

LEMMA ResultsAre ==
  ASSUME Configured, NEW r, NEW t, NEW R, Trims(t, R), r \in Reads(r, t, R),
         NEW sig, NEW j, NEW k \in 1..Len(rules)
  PROVE  /\ DOMAIN Results(sig, j, r, t) = 1..Len(rules)
         /\ \E q \in Reads(r, t, R) : Results(sig, j, r, t)[k] = Judge(rules[k], sig, j, q, t)
<1> DEFINE start == IF j = 1 THEN r ELSE StateFor(r, t)[Len(rules)]
<1>1. DOMAIN rules = 1..Len(rules) /\ Len(rules) \in Nat
  BY RulesAre
<1>2. start \in Reads(r, t, R)
  <2>1. Len(rules) \in 0..Len(rules)
    BY <1>1
  <2> QED BY <2>1, StatesFound
<1>3. Results(sig, j, r, t) = [n \in 1..Len(rules) |-> Judge(rules[n], sig, j, StateFor(start, t)[n - 1], t)]
  BY <1>1 DEF Results
<1> HIDE DEF start
<1>4. StateFor(start, t)[k - 1] \in Reads(r, t, R)
  <2>1. k - 1 \in 0..Len(rules)
    BY <1>1
  <2> QED BY <1>2, <2>1, StatesFound
<1> QED
  BY <1>3, <1>4

LEMMA PassedAre ==
  ASSUME Configured, NEW r, NEW t, NEW R, Trims(t, R), r \in Reads(r, t, R),
         NEW sig, sig.legs \in Seq(Legs), Verdict(sig, r, t).approved
  PROVE  \E kept : Passed(sig, r, t, R, kept, Verdict(sig, r, t))
<1> DEFINE legs  == DOMAIN sig.legs
           res   == [j \in legs |-> Results(sig, j, r, t)]
           trips == Tripping(res)
           heard == IF trips = {} THEN legs ELSE 1..Min(trips)
           size  == [j \in legs |-> Clamped(sig.legs[j], res[j])]
           kept  == {j \in heard : /\ Rejecting(res[j]) = {}
                                   /\ ~BelowMinNotional(sig, sig.legs[j], size[j])}
           passed == kept # {} /\ (sig.atomic => kept = legs)
           v == Verdict(sig, r, t)
<1>1. v.approved = passed
  BY DEF Verdict
<1>2. v.legs = IF passed THEN [j \in kept |-> Sized(sig.legs[j], size[j])] ELSE << >>
  BY DEF Verdict
<1>3. kept # {}
  BY <1>1
<1>4. legs = 1..Len(sig.legs) /\ Len(sig.legs) \in Nat
  BY LenProperties
<1>5. heard \subseteq legs
  <2>1. CASE trips = {}
    BY <2>1
  <2>2. CASE trips # {}
    <3>1. trips \in SUBSET Nat /\ trips \subseteq legs
      BY <1>4 DEF Tripping
    <3> HIDE DEF trips
    <3>3. Min(trips) \in trips
      BY <2>2, <3>1, MinIs
    <3>4. heard = 1..Min(trips)
      BY <2>2
    <3> HIDE DEF heard, legs
    <3>5. PICK m : m = Min(trips) /\ m \in 1..Len(sig.legs)
      BY <1>4, <3>1, <3>3
    <3>6. 1..m \subseteq 1..Len(sig.legs)
      BY <1>4, <3>5
    <3> QED BY <1>4, <3>4, <3>5, <3>6
  <2> QED BY <2>1, <2>2
<1> HIDE DEF heard
<1>6. kept \in SUBSET legs
  BY <1>5
<1>7. ASSUME NEW j \in kept, NEW k \in 1..Len(rules)
      PROVE  /\ Results(sig, j, r, t)[k].ok
             /\ \E q \in Reads(r, t, R) : Results(sig, j, r, t)[k] = Judge(rules[k], sig, j, q, t)
  <2>1. Rejecting(res[j]) = {} /\ res[j] = Results(sig, j, r, t)
    BY <1>6
  <2>2. k \in DOMAIN Results(sig, j, r, t)
    BY ResultsAre
  <2>3. Results(sig, j, r, t)[k].ok
    BY <2>1, <2>2 DEF Rejecting
  <2> QED BY <2>3, ResultsAre
<1>8. v.legs = [j \in kept |-> Sized(sig.legs[j], Clamped(sig.legs[j], Results(sig, j, r, t)))]
  <2>1. \A j \in kept : size[j] = Clamped(sig.legs[j], Results(sig, j, r, t))
    BY <1>6
  <2> QED BY <1>1, <1>2, <2>1
<1> HIDE DEF kept
<1>9. Passed(sig, r, t, R, kept, v)
  BY <1>3, <1>6, <1>7, <1>8 DEF Passed
<1> QED
  BY <1>9

DeskTypeOK == Configured /\ now \in Nat /\ judged \in Nat /\ IsRiskState(rs)

LEMMA ThrottleIs ==
  ASSUME Configured, NEW k \in Throttles
  PROVE  /\ k \in 1..Len(rules) /\ rules[k].class = "throttle"
         /\ rules[k].window \in Nat /\ rules[k].maxSignals \in Nat
<1>1. k \in 1..Len(rules) /\ rules[k].class = "throttle" /\ RuleTypeOK(rules[k])
  BY RulesAre DEF Throttles
<1> QED
  BY <1>1 DEF RuleTypeOK

LEMMA HistoriesTrim ==
  ASSUME Configured, NEW t \in Nat
  PROVE  Trims(t, Seq(Nat))
<1> SUFFICES ASSUME NEW q \in Seq(Nat), NEW k \in Throttles
             PROVE  Sifted(q, {x \in ToSet(q) : x >= t - rules[k].window}) \in Seq(Nat)
  BY DEF Trims
<1> DEFINE S == {x \in ToSet(q) : x >= t - rules[k].window}
<1> HIDE DEF S
<1>1. Sifted(q, S) \in Seq({x \in Nat : x \in S})
  BY SiftedTyped
<1>2. {x \in Nat : x \in S} \subseteq Nat
  OBVIOUS
<1>3. Sifted(q, S) \in Seq(Nat)
  BY <1>1, <1>2, QueueGrows
<1> QED BY <1>3 DEF S

(* A signal is recorded. *)
LEMMA Recorded ==
  ASSUME IsRiskState(rs), now \in Nat
  PROVE  /\ IsRiskState(WithSignal(rs, now))
         /\ WithSignal(rs, now) = [rs EXCEPT !.recent = Append(rs.recent, now)]
         /\ WithSignal(rs, now).recent = Append(rs.recent, now)
         /\ WithSignal(rs, now).pos = rs.pos /\ WithSignal(rs, now).breach = rs.breach
         /\ WithSignal(rs, now).vpin = rs.vpin
<1>1. Append(rs.recent, now) \in Seq(Nat)
  BY AppendProperties DEF IsRiskState
<1>2. WithSignal(rs, now) = [rs EXCEPT !.recent = Append(rs.recent, now)]
  BY DEF WithSignal
<1> QED
  BY <1>1, <1>2 DEF IsRiskState

LEMMA ReadsItself ==
  ASSUME NEW r, IsRiskState(r), NEW t, NEW R, r.recent \in R
  PROVE  r \in Reads(r, t, R)
BY DEF IsRiskState, Reads

LEMMA ReadsKeep ==
  ASSUME NEW r, NEW t, NEW R, NEW q \in Reads(r, t, R)
  PROVE  /\ q.pos = r.pos /\ q.breach = r.breach /\ q.vpin = r.vpin /\ q.recent \in R
         /\ R \subseteq Seq(Nat) => IsRiskState(q)
BY DEF IsRiskState, Reads

(* What a signal does to the state of the risk engine. *)
LEMMA SignalReads ==
  ASSUME DeskTypeOK, Signal, NEW R, Trims(now, R), WithSignal(rs, now).recent \in R
  PROVE  rs' \in Reads(WithSignal(rs, now), now, R)
<1> DEFINE r0 == WithSignal(rs, now)
<1>1. r0 \in Reads(r0, now, R)
  BY Recorded, ReadsItself DEF DeskTypeOK
<1>2. PICK sig \in desk.signals, heard \in BOOLEAN, told \in BOOLEAN :
        OnSignalKilled(sig, heard) \/ OnSignalJudged(sig, heard, told)
  BY DEF Signal, RiskOnSignal
<1>3. CASE OnSignalKilled(sig, heard)
  BY <1>1, <1>3 DEF OnSignalKilled
<1>4. CASE OnSignalJudged(sig, heard, told)
  <2>1. rs' = StateFor(r0, now)[Len(rules)]
    BY <1>4 DEF OnSignalJudged
  <2>2. Len(rules) \in 0..Len(rules)
    BY RulesAre DEF DeskTypeOK
  <2> QED BY <1>1, <2>1, <2>2, StatesFound DEF DeskTypeOK
<1> QED BY <1>2, <1>3, <1>4

(* Fills, updates and snapshots leave the history of signals alone. *)
LEMMA OtherMoves ==
  ASSUME DeskTypeOK, [DayNext]_dayVars, ~Signal
  PROVE  IsRiskState(rs') /\ rs'.recent = rs.recent
<1> DEFINE Same(r) == IsRiskState(r) /\ r.recent = rs.recent
<1>1. IsRiskState(rs)
  BY DEF DeskTypeOK
<1>2. CASE rs' = rs
  BY <1>1, <1>2
<1>3. CASE RiskFill
  <2>1. rs' = WithFill(rs, Head(fillQ))
    BY <1>3 DEF RiskFill, RiskOnFill
  <2> QED BY <1>1, <2>1 DEF WithFill, IsRiskState
<1>4. CASE RiskUpdate
  <2>1. rs' = WithUpdate(rs, Head(updates), now)
    BY <1>4 DEF RiskUpdate, RiskOnUpdate
  <2> DEFINE u == Head(updates)
             placed == [rs EXCEPT !.pos[u.inst] = u.qty]
             bucket == IF rs.seen THEN RolledOver(placed, now)
                       ELSE [placed EXCEPT !.seen = TRUE, !.day = DayOf(now)]
             equity == u.realized + u.unrealized
  <2>2. Same(placed)
    BY <1>1, SMTT(30) DEF IsRiskState
  <2> HIDE DEF placed
  <2>3. Same(bucket)
    BY <2>2 DEF IsRiskState, RolledOver
  <2>4. WithUpdate(rs, u, now) =
          [bucket EXCEPT !.realized = u.realized, !.unrealized = u.unrealized,
                         !.peak = IF bucket.peak = None \/ bucket.peak < equity THEN equity ELSE bucket.peak]
    BY DEF WithUpdate, placed
  <2> HIDE DEF bucket, equity
  <2>5. Same(WithUpdate(rs, u, now))
    BY <2>3, <2>4 DEF IsRiskState
  <2> QED BY <2>1, <2>5
<1>5. CASE Analytics
  <2>1. CASE rs' = rs
    BY <1>2, <2>1
  <2>2. ASSUME NEW i \in Instruments, rs' = WithVpin(rs, i, flow[i].last)
        PROVE  Same(rs')
    BY <1>1, <2>2 DEF WithVpin, IsRiskState
  <2> QED BY <1>5, <2>1, <2>2 DEF Analytics, RiskOnAnalytics, riskVars
<1>6. rs' = rs \/ RiskFill \/ RiskUpdate \/ Analytics
  BY DEF DayNext, VenueFill, Fill, Positions, MarketTrade, Operator, OperatorEngages, OperatorResets,
         OMSHearsAck, OMSWorks, OMSHalts, ClockTick, dayVars, riskVars
<1> QED BY <1>2, <1>3, <1>4, <1>5, <1>6

LEMMA DeskTyped ==
  ASSUME DeskTypeOK, [DayNext]_dayVars
  PROVE  DeskTypeOK' /\ now' >= now /\ judged' >= judged /\ rules' = rules /\ desk' = desk
<1>1. /\ UNCHANGED <<desk, rules, method>>
      /\ now' = now \/ (now' = now + 1 /\ ClockTick)
      /\ judged' = judged \/ (judged' = judged + 1 /\ Signal)
  BY DEF DayNext, VenueFill, Fill, Positions, PositionOnFill, MarkToMarketAll, PositionOnTick, posVars,
         Signal, RiskOnSignal, RiskFill, RiskOnFill, RiskUpdate, RiskOnUpdate, MarketTrade, Analytics,
         RiskOnAnalytics, Operator, OperatorEngages, OperatorResets,
         OMSHearsAck, OMSWorks, OMSHalts, ClockTick, dayVars, riskVars
<1>2. IsRiskState(rs')
  <2>1. CASE Signal
    <3>1. WithSignal(rs, now).recent \in Seq(Nat)
      BY Recorded DEF DeskTypeOK, IsRiskState
    <3>2. Trims(now, Seq(Nat))
      BY HistoriesTrim DEF DeskTypeOK
    <3> QED BY <2>1, <3>1, <3>2, SignalReads, ReadsKeep
  <2>2. CASE ~Signal
    BY <2>2, OtherMoves
  <2> QED BY <2>1, <2>2
<1> QED
  BY <1>1, <1>2 DEF DeskTypeOK, Configured, IsRiskState

LEMMA DeskOpens == DayInit => DeskTypeOK
<1> SUFFICES ASSUME DayInit PROVE DeskTypeOK
  OBVIOUS
<1>1. /\ desk \in Desks /\ rules \in desk.rules /\ method \in desk.methods
      /\ now = 0 /\ judged = 0 /\ rs = FreshRiskState(Instruments)
  BY DEF DayInit, PosInit, RiskInit
<1>2. << >> \in Seq(Nat)
  BY EmptySeq
<1>3. IsRiskState(FreshRiskState(Instruments))
  BY <1>2 DEF IsRiskState, FreshRiskState
<1> QED BY <1>1, <1>3 DEF DeskTypeOK, Configured

----------------------------------------------------------------------------
(***************************************************************************)
(* The throttle.  The history of signals has every approval that still     *)
(* counts, so an approval finds room for itself.                           *)
(***************************************************************************)

(* The approvals from a moment on, and the signals the history has from then on. *)
Since(c) == {p \in passedAt : p[3] >= c}
AtLeast(c) == [x \in Nat |-> IF x >= c THEN 1 ELSE 0]
CountFrom(q, c) == SumOf(Along(AtLeast(c), q))

(* The history has every approval that still counts in the window. *)
Remembers ==
  \A k \in Throttles : Throttles = {k} =>
    \A c \in Int : c >= now - rules[k].window => Cardinality(Since(c)) <= CountFrom(rs.recent, c)

ThrottleInv ==
  /\ DeskTypeOK
  /\ IsFiniteSet(passedAt)
  /\ \A p \in passedAt : p[1] \in 1..judged /\ p[3] \in 0..now
  /\ Remembers
  /\ ThrottleBounds

LEMMA CountTyped ==
  ASSUME NEW c \in Int
  PROVE  AtLeast(c) \in [Nat -> Int]
BY DEF AtLeast

(* Cutting the history at a moment keeps what counts from then on, *)
LEMMA CutCounts ==
  ASSUME NEW q \in Seq(Nat), NEW b \in Int, NEW c \in Int, c >= b
  PROVE  LET cut == Sifted(q, {x \in ToSet(q) : x >= b})
         IN  /\ cut \in Seq(Nat)
             /\ CountFrom(cut, c) = CountFrom(q, c)
<1> DEFINE A == ToSet(q)
           S == {x \in ToSet(q) : x >= b}
           f == [x \in A |-> AtLeast(c)[x]]
<1>1. q \in Seq(A) /\ A \subseteq Nat
  <2>1. Len(q) \in Nat /\ \A i \in 1..Len(q) : q[i] \in Nat /\ q[i] \in A
    BY LenProperties, ElementOfSeq DEF ToSet
  <2>2. A \subseteq Nat
    BY LenProperties, ElementOfSeq DEF ToSet
  <2>3. q \in [1..Len(q) -> A]
    BY <2>1, LenProperties
  <2>4. q \in Seq(A)
    BY <2>1, <2>3, FunctionSeq
  <2> QED BY <2>2, <2>4
<1> HIDE DEF A
<1>2. f \in [A -> Int] /\ \A x \in A : x \notin S => f[x] = 0
  <2>1. \A x \in A : AtLeast(c)[x] \in Int
    BY <1>1 DEF AtLeast
  <2>2. \A x \in A : x \notin S => AtLeast(c)[x] = 0
    BY <1>1 DEF AtLeast, A
  <2> QED BY <2>1, <2>2
<1> HIDE DEF f
<1>3. SumOf(Along(f, Sifted(q, S))) = SumOf(Along(f, q))
  <2>1. \A n \in 1..Len(q) : q[n] \in A
    BY <1>1, ElementOfSeq
  <2> HIDE DEF S
  <2>2. \A n \in 1..Len(q) : q[n] \notin S => f[q[n]] = 0
    BY <1>2, <2>1
  <2> QED BY <1>1, <1>2, <2>2, SumSifted
<1>4. Sifted(q, S) \in Seq(A)
  <2>1. Sifted(q, S) \in Seq({x \in A : x \in S})
    BY <1>1, SiftedTyped
  <2>2. {x \in A : x \in S} \subseteq A
    OBVIOUS
  <2> HIDE DEF S
  <2> QED BY <2>1, <2>2, QueueGrows
<1>5. ASSUME NEW w \in Seq(A) PROVE Along(f, w) = Along(AtLeast(c), w)
  <2>1. \A n \in DOMAIN w : w[n] \in A
    BY <1>5, LenProperties, ElementOfSeq
  <2> QED BY <2>1 DEF Along, f
<1>6. Sifted(q, S) \in Seq(Nat)
  BY <1>1, <1>4, QueueGrows
<1> QED
  BY <1>1, <1>3, <1>4, <1>5, <1>6 DEF CountFrom

(* The ones and zeros of a history. *)
LEMMA AlongCount ==
  ASSUME NEW q \in Seq(Nat), NEW c \in Int
  PROVE  /\ Along(AtLeast(c), q) \in Seq(Int) /\ Len(Along(AtLeast(c), q)) = Len(q)
         /\ \A n \in 1..Len(q) : Along(AtLeast(c), q)[n] = AtLeast(c)[q[n]]
<1>1. \A S : \A g \in [S -> Int] : \A v \in Seq(S) :
         /\ Along(g, v) \in Seq(Int) /\ Len(Along(g, v)) = Len(v)
         /\ \A n \in 1..Len(v) : Along(g, v)[n] = g[v[n]]
  BY AlongTyped, SMTT(30)
<1>2. PICK N : N = Nat
  OBVIOUS
<1>3. AtLeast(c) \in [N -> Int] /\ q \in Seq(N)
  BY <1>2, CountTyped
<1> QED BY <1>1, <1>3

(* and all that is left counts. *)
LEMMA CutLength ==
  ASSUME NEW q \in Seq(Nat), NEW b \in Int
  PROVE  Len(Sifted(q, {x \in ToSet(q) : x >= b})) = CountFrom(q, b)
<1> DEFINE S == {x \in ToSet(q) : x >= b}
           cut == Sifted(q, S)
<1>1. cut \in Seq({x \in Nat : x \in S})
  BY SiftedTyped
<1>2. cut \in Seq(Nat) /\ CountFrom(cut, b) = CountFrom(q, b)
  BY CutCounts
<1>3. Len(cut) \in Nat /\ DOMAIN cut = 1..Len(cut) /\ \A n \in 1..Len(cut) : cut[n] \in Nat /\ cut[n] >= b
  <2> DEFINE T == {x \in Nat : x \in S}
  <2>1. \A x \in T : x \in Nat /\ x >= b
    OBVIOUS
  <2> HIDE DEF T, cut
  <2>2. \A n \in 1..Len(cut) : cut[n] \in T
    BY <1>1, ElementOfSeq DEF T
  <2> QED BY <1>2, <2>1, <2>2, LenProperties
<1> HIDE DEF cut
<1> DEFINE a == Along(AtLeast(b), cut)
<1>4. a \in Seq(Int) /\ Len(a) = Len(cut) /\ \A n \in 1..Len(cut) : a[n] = AtLeast(b)[cut[n]]
  BY <1>2, AlongCount DEF a
<1>5. \A n \in 1..Len(cut) : AtLeast(b)[cut[n]] = 1
  BY <1>3 DEF AtLeast
<1>6. \A n \in 1..Len(a) : a[n] = 1
  BY <1>4, <1>5, SMTT(30)
<1> HIDE DEF a
<1>7. SumOf(a) = Len(a)
  BY <1>4, <1>6, SumOnes
<1> QED
  BY <1>2, <1>4, <1>7 DEF a, CountFrom, cut

LEMMA CountNat ==
  ASSUME NEW q \in Seq(Nat), NEW c \in Int
  PROVE  CountFrom(q, c) \in Nat
<1>1. AtLeast(c) \in [Nat -> Nat]
  BY DEF AtLeast
<1> QED
  BY <1>1, AlongAtLeast DEF CountFrom

LEMMA CountAppend ==
  ASSUME NEW q \in Seq(Nat), NEW x \in Nat, NEW c \in Int
  PROVE  /\ CountFrom(Append(q, x), c) = CountFrom(q, c) + IF x >= c THEN 1 ELSE 0
         /\ CountFrom(q, c) \in Nat
<1>1. AtLeast(c) \in [Nat -> Int] /\ AtLeast(c) \in [Nat -> Nat]
  BY DEF AtLeast
<1>2. AtLeast(c)[x] = IF x >= c THEN 1 ELSE 0
  BY DEF AtLeast
<1> QED
  BY <1>1, <1>2, AlongAppend, AlongAtLeast, ZenonT(40) DEF CountFrom

(* A history that was cut is not cut further. *)
LEMMA CutTwice ==
  ASSUME NEW q \in Seq(Nat), NEW b \in Int
  PROVE  LET cut == Sifted(q, {x \in ToSet(q) : x >= b})
         IN  Sifted(cut, {x \in ToSet(cut) : x >= b}) = cut
<1> DEFINE w == Sifted(q, {x \in ToSet(q) : x >= b})
           T == {x \in Nat : x \in {y \in ToSet(q) : y >= b}}
           S == {x \in ToSet(w) : x >= b}
<1>1. \A x \in T : x >= b
  OBVIOUS
<1> HIDE DEF T
<1>2. w \in Seq(T)
  BY SiftedTyped DEF T
<1> HIDE DEF w
<1>3. Len(w) \in Nat /\ DOMAIN w = 1..Len(w) /\ \A n \in 1..Len(w) : w[n] \in T /\ w[n] \in S
  BY <1>1, <1>2, LenProperties, ElementOfSeq DEF ToSet
<1> HIDE DEF S
<1>4. Sifted(w, S) = w
  BY <1>2, <1>3, SiftedAll
<1> QED BY <1>4 DEF w, S

(* With one throttle, a signal leaves the history as it was, or cut at its window. *)
LEMMA OneThrottleTrims ==
  ASSUME Configured, NEW t \in Nat, NEW q \in Seq(Nat), NEW k \in Throttles, Throttles = {k}
  PROVE  Trims(t, {q, Sifted(q, {x \in ToSet(q) : x >= t - rules[k].window})})
<1> DEFINE b == t - rules[k].window
           Cut(w) == Sifted(w, {x \in ToSet(w) : x >= b})
<1>1. b \in Int
  BY ThrottleIs
<1> HIDE DEF b
<1>2. Cut(Cut(q)) = Cut(q)
  BY <1>1, CutTwice
<1>3. \A v \in {q, Cut(q)}, m \in Throttles : Cut(v) \in {q, Cut(q)} /\ m = k
  BY <1>2
<1> QED
  BY <1>3 DEF Trims, b

(* A signal is judged. *)
LEMMA SignalThrottled ==
  ASSUME ThrottleInv, Signal
  PROVE  Remembers' /\ ThrottleBounds' /\ IsFiniteSet(passedAt')
         /\ \A p \in passedAt' : p[1] \in 1..judged' /\ p[3] \in 0..now'
<1>1. /\ Configured /\ now \in Nat /\ judged \in Nat /\ IsRiskState(rs) /\ rs.recent \in Seq(Nat)
      /\ IsFiniteSet(passedAt) /\ \A p \in passedAt : p[1] \in 1..judged /\ p[3] \in 0..now
  BY DEF ThrottleInv, DeskTypeOK, IsRiskState
<1>2. PICK sig \in desk.signals, heard \in BOOLEAN, told \in BOOLEAN :
        /\ OnSignalKilled(sig, heard) \/ OnSignalJudged(sig, heard, told)
        /\ passedAt' = IF kill.on \/ ~Verdict(sig, WithSignal(rs, now), now).approved THEN passedAt
                       ELSE passedAt \union {<<judged', sig.inst, now>>}
  BY DEF Signal, RiskOnSignal
<1>3. judged' = judged + 1 /\ UNCHANGED <<rules, now, desk>>
  BY DEF Signal, RiskOnSignal
<1> DEFINE r0 == WithSignal(rs, now)
           q0 == Append(rs.recent, now)
           new == <<judged', sig.inst, now>>
           passes == ~kill.on /\ Verdict(sig, r0, now).approved
<1>4. q0 \in Seq(Nat) /\ r0.recent = q0 /\ IsRiskState(r0)
  BY <1>1, Recorded DEF IsRiskState
<1>5. passedAt' = IF passes THEN passedAt \union {new} ELSE passedAt
  BY <1>2
<1>6. /\ new \notin passedAt /\ new[1] = judged + 1 /\ new[3] = now
      /\ IsFiniteSet(passedAt') /\ \A p \in passedAt' : p[1] \in 1..judged' /\ p[3] \in 0..now'
  <2>1. new[1] = judged + 1 /\ new[3] = now
    BY <1>3
  <2>2. new \notin passedAt
    BY <1>1, <2>1
  <2>3. IsFiniteSet(passedAt \union {new})
    BY <1>1, FS_AddElement
  <2> HIDE DEF new, passes
  <2> QED BY <1>1, <1>3, <1>5, <2>1, <2>2, <2>3
<1> HIDE DEF new
<1>7. ASSUME NEW k \in Throttles, Throttles = {k}
      PROVE  /\ \A c \in Int : c >= now - rules[k].window => CountFrom(rs'.recent, c) = CountFrom(q0, c)
             /\ passes => CountFrom(q0, now - rules[k].window) <= rules[k].maxSignals
  <2> DEFINE b == now - rules[k].window
             cut == Sifted(q0, {x \in ToSet(q0) : x >= b})
             R == {q0, cut}
  <2>1. b \in Int /\ rules[k].maxSignals \in Nat /\ k \in 1..Len(rules) /\ rules[k].class = "throttle"
    BY <1>1, ThrottleIs
  <2>2. Trims(now, R)
    BY <1>1, <1>4, <1>7, OneThrottleTrims
  <2> HIDE DEF b
  <2>3. \A c \in Int : c >= b => CountFrom(cut, c) = CountFrom(q0, c)
    BY <1>4, <2>1, CutCounts
  <2>8. cut \in Seq(Nat)
    <3>1. b >= b
      BY <2>1
    <3> QED BY <1>4, <2>1, <3>1, CutCounts
  <2>4. Len(cut) = CountFrom(q0, b)
    BY <1>4, <2>1, CutLength
  <2>5. Sifted(cut, {x \in ToSet(cut) : x >= b}) = cut
    BY <1>4, <2>1, CutTwice
  <2> HIDE DEF cut
  <2>6. rs'.recent \in {q0, cut}
    BY <1>4, <2>2, SignalReads, ReadsKeep DEF ThrottleInv
  <2>7. ASSUME passes PROVE CountFrom(q0, b) <= rules[k].maxSignals
    <3>1. sig.legs \in Seq(Legs)
      BY <1>1, DeskAssumption DEF Configured
    <3>2. r0 \in Reads(r0, now, R)
      BY <1>4, ReadsItself
    <3>3. PICK kept : Passed(sig, r0, now, R, kept, Verdict(sig, r0, now))
      BY <1>1, <2>2, <2>7, <3>1, <3>2, PassedAre
    <3>4. PICK j \in kept : TRUE
      BY <3>3 DEF Passed
    <3>5. PICK w \in Reads(r0, now, R) :
            Results(sig, j, r0, now)[k].ok /\ Results(sig, j, r0, now)[k] = Judge(rules[k], sig, j, w, now)
      BY <2>1, <3>3, <3>4 DEF Passed
    <3>6. Judge(rules[k], sig, j, w, now) = Throttle(rules[k], w, now)
      BY <2>1 DEF Judge
    <3>7. Trimmed(w, now, rules[k].window).recent = cut
      <4>1. w.recent \in R /\ IsRiskState(w)
        <5>1. R \subseteq Seq(Nat)
          BY <1>4, <2>8
        <5> HIDE DEF R
        <5> QED BY <3>5, <5>1, ReadsKeep
      <4>2. Trimmed(w, now, rules[k].window) =
              [w EXCEPT !.recent = Sifted(w.recent, {x \in ToSet(w.recent) : x >= b})]
        BY DEF Trimmed, b
      <4>3. Trimmed(w, now, rules[k].window).recent = Sifted(w.recent, {x \in ToSet(w.recent) : x >= b})
        BY <4>1, <4>2 DEF IsRiskState
      <4>4. CASE w.recent = q0
        BY <4>3, <4>4 DEF cut
      <4>5. CASE w.recent = cut
        BY <2>5, <4>3, <4>5
      <4> QED BY <4>1, <4>4, <4>5
    <3>8. ~(Len(cut) > rules[k].maxSignals)
      BY <3>5, <3>6, <3>7 DEF Throttle, Reject
    <3>9. CountFrom(q0, b) \in Nat
      BY <1>4, <2>1, CountNat
    <3> QED BY <2>1, <2>4, <3>8, <3>9
  <2> QED BY <2>3, <2>6, <2>7 DEF b
<1> HIDE DEF passes
<1>8. ASSUME NEW c \in Int
      PROVE  /\ Since(c)' = IF passes /\ now >= c THEN Since(c) \union {new} ELSE Since(c)
             /\ IsFiniteSet(Since(c)) /\ new \notin Since(c)
             /\ Cardinality(Since(c)) \in Nat
             /\ Cardinality(Since(c))' = Cardinality(Since(c)) + IF passes /\ now >= c THEN 1 ELSE 0
  <2>1. Since(c)' = IF passes /\ now >= c THEN Since(c) \union {new} ELSE Since(c)
    BY <1>5, <1>6 DEF Since
  <2>2. IsFiniteSet(Since(c)) /\ new \notin Since(c)
    BY <1>1, <1>6, FS_Subset DEF Since
  <2>3. Cardinality(Since(c)) \in Nat /\ Cardinality(Since(c) \union {new}) = Cardinality(Since(c)) + 1
    BY <2>2, FS_AddElement, FS_CardinalityType
  <2> QED BY <2>1, <2>2, <2>3
<1>9. Throttles' = Throttles
  BY <1>3 DEF Throttles
<1>10. ASSUME NEW k \in Throttles, Throttles = {k}
       PROVE  \A c \in Int : c >= now - rules[k].window =>
                Cardinality(Since(c))' <= CountFrom(rs'.recent, c)
  <2> SUFFICES ASSUME NEW c \in Int, c >= now - rules[k].window
               PROVE  Cardinality(Since(c))' <= CountFrom(rs'.recent, c)
    OBVIOUS
  <2>1. Cardinality(Since(c)) <= CountFrom(rs.recent, c)
    BY <1>10 DEF ThrottleInv, Remembers
  <2>2. CountFrom(q0, c) = CountFrom(rs.recent, c) + (IF now >= c THEN 1 ELSE 0) /\ CountFrom(rs.recent, c) \in Nat
    BY <1>1, CountAppend
  <2>3. CountFrom(rs'.recent, c) = CountFrom(q0, c)
    BY <1>7, <1>10
  <2> HIDE DEF q0
  <2> QED BY <1>8, <2>1, <2>2, <2>3
<1>11. Remembers'
  BY <1>3, <1>9, <1>10 DEF Remembers
<1>12. ThrottleBounds'
  <2> SUFFICES ASSUME NEW k \in Throttles, Throttles = {k}, NEW t \in 0..now
               PROVE  Cardinality({p \in passedAt' : p[3] \in (t - rules[k].window)..t}) <= rules[k].maxSignals
    BY <1>3, <1>9 DEF ThrottleBounds
  <2> DEFINE b == t - rules[k].window
  <2>1. rules[k].window \in Nat /\ rules[k].maxSignals \in Nat
    BY <1>1, ThrottleIs
  <2>2. CASE t < now \/ ~passes
    <3>1. {p \in passedAt' : p[3] \in b..t} = {p \in passedAt : p[3] \in b..t}
      BY <1>1, <1>5, <1>6, <2>2
    <3>2. Cardinality({p \in passedAt : p[3] \in b..t}) <= rules[k].maxSignals
      BY DEF ThrottleInv, ThrottleBounds
    <3> QED BY <3>1, <3>2
  <2>3. CASE t = now /\ passes
    <3> PICK c \in Int : c = b
      BY <1>1, <2>1
    <3>1. {p \in passedAt' : p[3] \in b..t} = Since(c)'
      BY <1>1, <1>3, <1>6, <2>1, <2>3 DEF Since
    <3>2. c >= now - rules[k].window /\ c = now - rules[k].window
      BY <1>1, <2>1, <2>3
    <3>3. Cardinality(Since(c))' <= CountFrom(rs'.recent, c)
      BY <1>10, <3>2
    <3>4. CountFrom(rs'.recent, c) = CountFrom(q0, c) /\ CountFrom(q0, c) <= rules[k].maxSignals
      BY <1>7, <2>3, <3>2
    <3>5. CountFrom(q0, c) \in Nat /\ Cardinality(Since(c))' \in Nat
      <4>1. CountFrom(q0, c) \in Nat
        BY <1>4, CountNat
      <4> HIDE DEF q0
      <4> QED BY <1>8, <4>1
    <3> HIDE DEF q0, b
    <3>6. Cardinality(Since(c))' <= rules[k].maxSignals
      BY <2>1, <3>3, <3>4, <3>5
    <3> QED BY <3>1, <3>6 DEF b
  <2> QED BY <1>1, <2>2, <2>3
<1> QED BY <1>6, <1>11, <1>12

LEMMA ThrottleStep == ThrottleInv /\ [DayNext]_dayVars => ThrottleInv'
<1> SUFFICES ASSUME ThrottleInv, [DayNext]_dayVars PROVE ThrottleInv'
  OBVIOUS
<1>1. DeskTypeOK' /\ DeskTypeOK /\ now' >= now /\ judged' >= judged /\ rules' = rules
  BY DeskTyped DEF ThrottleInv
<1>2. CASE Signal
  BY <1>1, <1>2, SignalThrottled DEF ThrottleInv
<1>3. CASE ~Signal
  <2>1. passedAt' = passedAt /\ (now' = now \/ now' = now + 1)
    BY <1>3 DEF DayNext, VenueFill, Fill, Positions, riskVars, RiskFill, RiskOnFill, RiskUpdate, RiskOnUpdate,
         MarketTrade, Analytics, RiskOnAnalytics, Operator, OperatorEngages, OperatorResets,
         OMSHearsAck, OMSWorks, OMSHalts, ClockTick, dayVars, history
  <2>2. rs'.recent = rs.recent
    BY <1>1, <1>3, OtherMoves
  <2>3. now \in Nat /\ judged \in Nat /\ now' \in Nat /\ judged' \in Nat
    BY <1>1 DEF DeskTypeOK
  <2>4. IsFiniteSet(passedAt') /\ \A p \in passedAt' : p[1] \in 1..judged' /\ p[3] \in 0..now'
    BY <1>1, <2>1, <2>3 DEF ThrottleInv
  <2>5. Throttles' = Throttles
    BY <1>1 DEF Throttles
  <2>6. ASSUME NEW k \in Throttles, Throttles = {k}
        PROVE  rules[k].window \in Nat /\ rules[k].maxSignals \in Nat
    BY <1>1, ThrottleIs DEF DeskTypeOK
  <2>7. Remembers'
    <3> SUFFICES ASSUME NEW k \in Throttles, Throttles = {k}, NEW c \in Int, c >= now' - rules[k].window
                 PROVE  Cardinality(Since(c)) <= CountFrom(rs.recent, c)
      BY <1>1, <2>1, <2>2, <2>5 DEF Remembers, Since
    <3>1. c >= now - rules[k].window
      BY <1>1, <2>3, <2>6
    <3> QED BY <3>1 DEF ThrottleInv, Remembers
  <2>8. ThrottleBounds'
    <3> SUFFICES ASSUME NEW k \in Throttles, Throttles = {k}, NEW t \in 0..now'
                 PROVE  Cardinality({p \in passedAt : p[3] \in (t - rules[k].window)..t}) <= rules[k].maxSignals
      BY <1>1, <2>1, <2>5 DEF ThrottleBounds
    <3> DEFINE In(u) == {p \in passedAt : p[3] \in (u - rules[k].window)..u}
    <3>1. ASSUME NEW u \in 0..now PROVE Cardinality(In(u)) <= rules[k].maxSignals
      BY DEF ThrottleInv, ThrottleBounds
    <3>2. CASE t \in 0..now
      BY <3>1, <3>2
    <3>3. CASE t = now + 1
      <4>1. In(t) \subseteq In(now)
        BY <2>3, <2>6, <3>3 DEF ThrottleInv
      <4>2. IsFiniteSet(In(now)) /\ IsFiniteSet(In(t))
        BY FS_Subset DEF ThrottleInv
      <4>3. Cardinality(In(t)) <= Cardinality(In(now)) /\ Cardinality(In(t)) \in Nat /\ Cardinality(In(now)) \in Nat
        BY <4>1, <4>2, FS_Subset, FS_CardinalityType
      <4>4. Cardinality(In(now)) <= rules[k].maxSignals
        BY <2>3, <3>1
      <4> HIDE DEF In
      <4>5. Cardinality(In(t)) <= rules[k].maxSignals
        BY <2>6, <4>3, <4>4
      <4> QED BY <4>5 DEF In
    <3> QED BY <2>1, <2>3, <3>2, <3>3
  <2> QED BY <1>1, <2>4, <2>7, <2>8 DEF ThrottleInv
<1> QED BY <1>2, <1>3

LEMMA ThrottleBegins == DayInit => ThrottleInv
<1> SUFFICES ASSUME DayInit PROVE ThrottleInv
  OBVIOUS
<1>1. DeskTypeOK
  BY DeskOpens
<1>2. passedAt = {} /\ rs.recent = << >> /\ now = 0
  BY DEF DayInit, RiskInit, FreshRiskState
<1>3. IsFiniteSet(passedAt) /\ Cardinality({}) = 0
  BY <1>2, FS_EmptySet
<1>4. \A c \in Int : Since(c) = {} /\ CountFrom(<< >>, c) = 0
  <2> SUFFICES ASSUME NEW c \in Int PROVE Since(c) = {} /\ CountFrom(<< >>, c) = 0
    OBVIOUS
  <2>1. Along(AtLeast(c), << >>) = << >>
    BY DEF Along
  <2> QED BY <1>2, <2>1, SumEmpty DEF Since, CountFrom
<1>5. Remembers
  <2> SUFFICES ASSUME NEW c \in Int PROVE Cardinality(Since(c)) <= CountFrom(rs.recent, c)
    BY DEF Remembers
  <2>1. Cardinality(Since(c)) = 0 /\ CountFrom(rs.recent, c) = 0
    BY <1>2, <1>3, <1>4
  <2> QED BY <2>1
<1>6. ThrottleBounds
  <2> SUFFICES ASSUME NEW k \in Throttles, NEW t \in 0..now
               PROVE  Cardinality({p \in passedAt : p[3] \in (t - rules[k].window)..t}) <= rules[k].maxSignals
    BY DEF ThrottleBounds
  <2>1. rules[k].maxSignals \in Nat
    BY <1>1, ThrottleIs DEF DeskTypeOK
  <2> DEFINE In == {p \in passedAt : p[3] \in (t - rules[k].window)..t}
  <2>2. In = {}
    BY <1>2
  <2> HIDE DEF In
  <2>3. Cardinality(In) = 0
    BY <1>3, <2>2
  <2>4. Cardinality(In) <= rules[k].maxSignals
    BY <2>1, <2>3
  <2> QED BY <2>4 DEF In
<1> QED BY <1>1, <1>2, <1>3, <1>5, <1>6 DEF ThrottleInv

(* However signals, resets and the clock interleave, no window of the throttle's length
   (signals_in_window) holds more approvals than it allows, when no other rule trims the
   history. *)
THEOREM ApprovalsAreThrottled == DaySpec => []ThrottleBounds
<1>1. ThrottleInv => ThrottleBounds
  BY DEF ThrottleInv
<1> QED BY <1>1, ThrottleBegins, ThrottleStep, PTL DEF DaySpec

----------------------------------------------------------------------------
(***************************************************************************)
(* The VPIN breaker.  A counter of breaches stands for a run of the last   *)
(* values on the tape.                                                     *)
(***************************************************************************)

(* A rule that trips the switch has judged a leg to be worth it. *)
LEMMA Trips ==
  ASSUME Configured, NEW r, NEW t, NEW R, Trims(t, R), r \in Reads(r, t, R),
         NEW sig, sig.legs \in Seq(Legs), Verdict(sig, r, t).trip # None
  PROVE  \E j \in DOMAIN sig.legs, k \in 1..Len(rules), q \in Reads(r, t, R) :
           rules[k].class = Verdict(sig, r, t).trip /\ Judge(rules[k], sig, j, q, t).sev = "KILL"
<1> DEFINE legs  == DOMAIN sig.legs
           res   == [j \in legs |-> Results(sig, j, r, t)]
           trips == Tripping(res)
<1>1. Verdict(sig, r, t).trip = IF trips = {} THEN None ELSE rules[FirstReject(res[Min(trips)])].class
  BY DEF Verdict, TrippedBy
<1>2. trips # {}
  BY <1>1
<1>3. legs = 1..Len(sig.legs) /\ Len(sig.legs) \in Nat
  BY LenProperties
<1>4. trips \in SUBSET Nat
  BY <1>3 DEF Tripping
<1>5. PICK j \in trips : j = Min(trips)
  <2> HIDE DEF trips
  <2> QED BY <1>2, <1>4, MinIs
<1>6. j \in legs /\ res[j] = Results(sig, j, r, t) /\ Rejecting(res[j]) # {}
      /\ res[j][FirstReject(res[j])].sev = "KILL"
  BY <1>5 DEF Tripping
<1>7. Rejecting(res[j]) # {} /\ Rejecting(res[j]) \subseteq 1..Len(rules)
  <2>1. Len(rules) = 0 \/ 1 \in 1..Len(rules)
    BY RulesAre
  <2>2. DOMAIN Results(sig, j, r, t) = 1..Len(rules)
    BY RulesAre DEF Results
  <2> QED BY <1>5, <1>6, <2>2 DEF Rejecting
<1>8. PICK k \in 1..Len(rules) : k = FirstReject(res[j])
  <2> DEFINE S == Rejecting(res[j])
  <2> HIDE DEF S
  <2>1. S \in SUBSET Nat /\ S # {} /\ S \subseteq 1..Len(rules)
    <3>1. 1..Len(rules) \subseteq Nat
      BY RulesAre
    <3> QED BY <1>7, <3>1 DEF S
  <2>2. Min(S) \in S
    BY <2>1, MinIs
  <2> QED BY <2>1, <2>2 DEF FirstReject, S
<1>9. res[j][k].sev = "KILL" /\ rules[k].class = Verdict(sig, r, t).trip
  BY <1>1, <1>2, <1>5, <1>6, <1>8
<1>10. PICK q \in Reads(r, t, R) : Results(sig, j, r, t)[k] = Judge(rules[k], sig, j, q, t)
  BY ResultsAre
<1> QED BY <1>6, <1>9, <1>10

----------------------------------------------------------------------------
(* The run of values a counter stands for. *)
Known == {50, 70, 80, 90}

Ran(values, th, n) == \A m \in 0..(n - 1) : values[Len(values) - m] >= th

VpinInv ==
  /\ DeskTypeOK
  /\ DOMAIN rs.breach = Instruments /\ DOMAIN tape = Instruments
  /\ \A i \in Instruments :
       /\ \E S : tape[i] \in Seq(S)
       /\ DOMAIN rs.breach[i] = Known
       /\ \A th \in Known : rs.breach[i][th] \in 0..Len(tape[i]) /\ Ran(tape[i], th, rs.breach[i][th])

(* One more value: a breach makes the run longer, a calm value ends it. *)
LEMMA RunGrows ==
  ASSUME NEW S, NEW s \in Seq(S), NEW v, NEW th, NEW n \in 0..Len(s), Ran(s, th, n)
  PROVE  /\ v >= th => n + 1 \in 0..Len(Append(s, v)) /\ Ran(Append(s, v), th, n + 1)
         /\ 0 \in 0..Len(Append(s, v)) /\ Ran(Append(s, v), th, 0)
         /\ \E T : Append(s, v) \in Seq(T)
<1> PICK T : T = S \union {v}
  OBVIOUS
<1>1. s \in Seq(T) /\ v \in T
  BY QueueGrows
<1>2. /\ Append(s, v) \in Seq(T) /\ Len(Append(s, v)) = Len(s) + 1 /\ Len(s) \in Nat
      /\ \A m \in 1..Len(s) : Append(s, v)[m] = s[m]
      /\ Append(s, v)[Len(s) + 1] = v
  BY <1>1, AppendProperties, LenProperties
<1>3. ASSUME v >= th, NEW m \in 0..n PROVE Append(s, v)[Len(s) + 1 - m] >= th
  <2>1. CASE m = 0
    BY <1>2, <1>3, <2>1
  <2>2. CASE m # 0
    <3>1. m - 1 \in 0..(n - 1) /\ Len(s) - (m - 1) = Len(s) + 1 - m /\ Len(s) + 1 - m \in 1..Len(s)
      BY <1>2, <2>2
    <3>2. s[Len(s) - (m - 1)] >= th
      BY <3>1 DEF Ran
    <3> QED BY <1>2, <3>1, <3>2
  <2> QED BY <2>1, <2>2
<1>4. n \in Nat /\ n <= Len(s)
  BY <1>2
<1> DEFINE a == Append(s, v)
<1> HIDE DEF a
<1>5. v >= th => Ran(a, th, n + 1)
  <2> SUFFICES ASSUME v >= th, NEW m \in 0..(n + 1 - 1) PROVE a[Len(a) - m] >= th
    BY DEF Ran
  <2>1. m \in 0..n /\ Len(a) = Len(s) + 1
    BY <1>2, <1>4 DEF a
  <2> QED BY <1>3, <2>1 DEF a
<1>6. Ran(a, th, 0)
  BY DEF Ran
<1> QED BY <1>2, <1>4, <1>5, <1>6 DEF a

(* A snapshot is handled. *)
LEMMA SnapshotRuns ==
  ASSUME VpinInv, Analytics, DeskTypeOK'
  PROVE  VpinInv'
<1>1. PICK i \in Instruments :
        \/ UNCHANGED <<riskVars, tape>>
        \/ rs' = WithVpin(rs, i, flow[i].last) /\ tape' = [tape EXCEPT ![i] = Append(@, flow[i].last)]
  BY DEF Analytics, RiskOnAnalytics
<1>2. CASE UNCHANGED <<riskVars, tape>>
  BY <1>2 DEF VpinInv, riskVars
<1>3. CASE rs' = WithVpin(rs, i, flow[i].last) /\ tape' = [tape EXCEPT ![i] = Append(@, flow[i].last)]
  <2> DEFINE v == flow[i].last
             more == [th \in Known |-> IF v >= th THEN rs.breach[i][th] + 1 ELSE 0]
  <2>1. rs'.breach = [rs.breach EXCEPT ![i] = more]
    <3>1. DOMAIN rs.breach[i] = Known
      BY DEF VpinInv
    <3>2. rs' = [rs EXCEPT !.vpin[i] = v, !.breach[i] = more]
      BY <1>3, <3>1 DEF WithVpin
    <3>3. rs = [pos |-> rs.pos, seen |-> rs.seen, realized |-> rs.realized, unrealized |-> rs.unrealized,
                base |-> rs.base, day |-> rs.day, peak |-> rs.peak, recent |-> rs.recent,
                vpin |-> rs.vpin, breach |-> rs.breach]
      BY DEF VpinInv, DeskTypeOK, IsRiskState
    <3> HIDE DEF more, v
    <3> QED BY <3>2, <3>3
  <2>2. tape' = [tape EXCEPT ![i] = Append(tape[i], v)]
    BY <1>3
  <2> HIDE DEF v
  <2>3. DOMAIN rs'.breach = Instruments /\ DOMAIN tape' = Instruments
    BY <2>1, <2>2 DEF VpinInv
  <2>4. ASSUME NEW j \in Instruments
        PROVE  /\ \E S : tape'[j] \in Seq(S)
               /\ DOMAIN rs'.breach[j] = Known
               /\ \A th \in Known : rs'.breach[j][th] \in 0..Len(tape'[j])
                                    /\ Ran(tape'[j], th, rs'.breach[j][th])
    <3>1. CASE j # i
      <4>1. rs'.breach[j] = rs.breach[j] /\ tape'[j] = tape[j]
        BY <2>1, <2>2, <3>1 DEF VpinInv
      <4> QED BY <4>1 DEF VpinInv
    <3>2. CASE j = i
      <4>1. rs'.breach[j] = more /\ tape'[j] = Append(tape[i], v)
        BY <2>1, <2>2, <3>2 DEF VpinInv
      <4>2. PICK S : tape[i] \in Seq(S)
        BY DEF VpinInv
      <4>3. DOMAIN more = Known
        OBVIOUS
      <4>4. ASSUME NEW th \in Known
            PROVE  /\ more[th] \in 0..Len(Append(tape[i], v)) /\ Ran(Append(tape[i], v), th, more[th])
                   /\ \E T : Append(tape[i], v) \in Seq(T)
        <5>1. rs.breach[i][th] \in 0..Len(tape[i]) /\ Ran(tape[i], th, rs.breach[i][th])
          BY DEF VpinInv
        <5>2. /\ v >= th => /\ rs.breach[i][th] + 1 \in 0..Len(Append(tape[i], v))
                            /\ Ran(Append(tape[i], v), th, rs.breach[i][th] + 1)
              /\ 0 \in 0..Len(Append(tape[i], v)) /\ Ran(Append(tape[i], v), th, 0)
              /\ \E T : Append(tape[i], v) \in Seq(T)
          BY <4>2, <5>1, RunGrows
        <5>3. more[th] = IF v >= th THEN rs.breach[i][th] + 1 ELSE 0
          OBVIOUS
        <5> HIDE DEF more
        <5> QED BY <5>2, <5>3
      <4>5. 50 \in Known
        BY DEF Known
      <4> HIDE DEF more
      <4> QED BY <4>1, <4>3, <4>4, <4>5
    <3> QED BY <3>1, <3>2
  <2> HIDE DEF more
  <2> QED BY <2>3, <2>4 DEF VpinInv
<1> QED BY <1>1, <1>2, <1>3

(* Nothing else touches a counter. *)
LEMMA CountersKept ==
  ASSUME DeskTypeOK, [DayNext]_dayVars, ~Analytics
  PROVE  rs'.breach = rs.breach /\ tape' = tape
<1>1. IsRiskState(rs)
  BY DEF DeskTypeOK
<1>2. tape' = tape
  BY DEF DayNext, VenueFill, Fill, Positions, Signal, RiskFill, RiskUpdate, MarketTrade, Operator,
         OMSHearsAck, OMSWorks, OMSHalts, ClockTick, dayVars, history
<1>3. CASE rs' = rs
  BY <1>2, <1>3
<1>4. CASE Signal
  <2>1. WithSignal(rs, now).recent \in Seq(Nat)
    BY Recorded DEF DeskTypeOK, IsRiskState
  <2>2. Trims(now, Seq(Nat))
    BY HistoriesTrim DEF DeskTypeOK
  <2> QED BY <1>2, <1>4, <2>1, <2>2, SignalReads, ReadsKeep, Recorded DEF DeskTypeOK
<1>5. CASE RiskFill
  <2>1. rs' = WithFill(rs, Head(fillQ))
    BY <1>5 DEF RiskFill, RiskOnFill
  <2> QED BY <1>1, <1>2, <2>1 DEF WithFill, IsRiskState
<1>6. CASE RiskUpdate
  <2>1. rs' = WithUpdate(rs, Head(updates), now)
    BY <1>6 DEF RiskUpdate, RiskOnUpdate
  <2> DEFINE u == Head(updates)
             placed == [rs EXCEPT !.pos[u.inst] = u.qty]
             bucket == IF rs.seen THEN RolledOver(placed, now)
                       ELSE [placed EXCEPT !.seen = TRUE, !.day = DayOf(now)]
             equity == u.realized + u.unrealized
             Same(r) == IsRiskState(r) /\ r.breach = rs.breach
  <2>2. Same(placed)
    BY <1>1, SMTT(30) DEF IsRiskState
  <2> HIDE DEF placed
  <2>3. Same(bucket)
    BY <2>2 DEF IsRiskState, RolledOver
  <2>4. WithUpdate(rs, u, now) =
          [bucket EXCEPT !.realized = u.realized, !.unrealized = u.unrealized,
                         !.peak = IF bucket.peak = None \/ bucket.peak < equity THEN equity ELSE bucket.peak]
    BY DEF WithUpdate, placed
  <2> HIDE DEF bucket, equity
  <2>5. Same(WithUpdate(rs, u, now))
    BY <2>3, <2>4 DEF IsRiskState
  <2> QED BY <1>2, <2>1, <2>5
<1>7. rs' = rs \/ RiskFill \/ RiskUpdate \/ Signal
  BY DEF DayNext, VenueFill, Fill, Positions, MarketTrade, Operator, OperatorEngages, OperatorResets,
         OMSHearsAck, OMSWorks, OMSHalts, ClockTick, dayVars, riskVars
<1> QED BY <1>2, <1>3, <1>4, <1>5, <1>6, <1>7

LEMMA VpinStep == VpinInv /\ [DayNext]_dayVars => VpinInv'
<1> SUFFICES ASSUME VpinInv, [DayNext]_dayVars PROVE VpinInv'
  OBVIOUS
<1>1. DeskTypeOK /\ DeskTypeOK'
  BY DeskTyped DEF VpinInv
<1>2. CASE Analytics
  BY <1>1, <1>2, SnapshotRuns
<1>3. CASE ~Analytics
  <2>1. rs'.breach = rs.breach /\ tape' = tape
    BY <1>1, <1>3, CountersKept
  <2> QED BY <1>1, <2>1 DEF VpinInv
<1> QED BY <1>2, <1>3

LEMMA VpinBegins == DayInit => VpinInv
<1> SUFFICES ASSUME DayInit PROVE VpinInv
  OBVIOUS
<1>1. DeskTypeOK
  BY DeskOpens
<1>2. /\ rs.breach = [i \in Instruments |-> [t \in Known |-> 0]]
      /\ tape = [i \in Instruments |-> << >>]
  BY DEF DayInit, RiskInit, FreshRiskState, Known
<1>3. << >> \in Seq({}) /\ Len(<< >>) = 0
  BY EmptySeq
<1>4. \A th \in Known : 0 \in 0..Len(<< >>) /\ Ran(<< >>, th, 0)
  BY <1>3 DEF Ran
<1> QED BY <1>1, <1>2, <1>3, <1>4 DEF VpinInv

LEMMA VpinTrips ==
  ASSUME VpinInv, [DayNext]_dayVars, ~kill.on, kill'.on, kill'.by = "vpin"
  PROVE  \E k \in DOMAIN rules, i \in Instruments :
           rules[k].class = "vpin" /\ SustainedIn(tape[i], rules[k])
<1>1. Configured /\ now \in Nat /\ IsRiskState(rs)
  BY DEF VpinInv, DeskTypeOK
<1>2. Signal
  <2>1. kill' = kill \/ Signal \/ Operator
    BY DEF DayNext, VenueFill, Fill, Positions, RiskFill, RiskOnFill, RiskUpdate, RiskOnUpdate, MarketTrade,
           Analytics, RiskOnAnalytics, OMSHearsAck, OMSWorks, OMSHalts, ClockTick, dayVars, riskVars
  <2>2. CASE Operator
    <3>1. kill' = kill \/ kill' = [on |-> TRUE, by |-> "operator"] \/ kill' = [on |-> FALSE, by |-> None]
      BY <2>2 DEF Operator, OperatorEngages, OperatorResets, Engage, NotEngaged
    <3> QED BY <3>1
  <2> QED BY <2>1, <2>2
<1>3. PICK sig \in desk.signals, heard \in BOOLEAN, told \in BOOLEAN : OnSignalJudged(sig, heard, told)
  BY <1>2 DEF Signal, RiskOnSignal, OnSignalKilled
<1> DEFINE r0 == WithSignal(rs, now)
           v == Verdict(sig, r0, now)
<1>4. v.trip # None /\ v.trip = "vpin"
  BY <1>3 DEF OnSignalJudged, Engage
<1>5. sig.inst \in Instruments /\ sig.legs \in Seq(Legs)
  BY <1>1, DeskAssumption DEF Configured
<1>6. /\ IsRiskState(r0) /\ r0.recent \in Seq(Nat) /\ r0.breach = rs.breach
      /\ Trims(now, Seq(Nat)) /\ r0 \in Reads(r0, now, Seq(Nat))
  BY <1>1, Recorded, HistoriesTrim, ReadsItself DEF IsRiskState
<1>7. PICK j \in DOMAIN sig.legs, k \in 1..Len(rules), q \in Reads(r0, now, Seq(Nat)) :
        rules[k].class = "vpin" /\ Judge(rules[k], sig, j, q, now).sev = "KILL"
  <2> HIDE DEF r0
  <2>1. Verdict(sig, r0, now).trip # None
    BY <1>4
  <2>2. \E j \in DOMAIN sig.legs, k \in 1..Len(rules), q \in Reads(r0, now, Seq(Nat)) :
          rules[k].class = Verdict(sig, r0, now).trip /\ Judge(rules[k], sig, j, q, now).sev = "KILL"
    BY <1>1, <1>5, <1>6, <2>1, Trips
  <2> QED BY <1>4, <2>2
<1>8. q.breach = rs.breach
  BY <1>6, <1>7, ReadsKeep
<1> DEFINE i == sig.inst
           rule == rules[k]
<1>9. rule.threshold \in Nat /\ rule.sustained \in Nat /\ k \in DOMAIN rules
  BY <1>1, <1>7, RulesAre DEF RuleTypeOK
<1>10. BreachTicks(q, i, rule.threshold) >= rule.sustained
  <2>1. Judge(rule, sig, j, q, now) = Vpin(rule, sig, q)
    BY <1>7 DEF Judge
  <2> QED BY <1>7, <2>1 DEF Vpin, Raised, Reject, Approve
<1>11. /\ \E S : tape[i] \in Seq(S)
       /\ DOMAIN rs.breach[i] = Known
       /\ \A th \in Known : rs.breach[i][th] \in 0..Len(tape[i]) /\ Ran(tape[i], th, rs.breach[i][th])
  BY <1>5 DEF VpinInv
<1>12. Len(tape[i]) \in Nat
  BY <1>11, LenProperties
<1>13. SustainedIn(tape[i], rule)
  <2>1. CASE rule.threshold \in Known
    <3>1. rs.breach[i][rule.threshold] >= rule.sustained
      BY <1>8, <1>10, <1>11, <2>1 DEF BreachTicks
    <3>2. PICK b \in 0..Len(tape[i]) : b = rs.breach[i][rule.threshold] /\ Ran(tape[i], rule.threshold, b)
      BY <1>11, <2>1
    <3>3. Len(tape[i]) >= rule.sustained /\ 0..(rule.sustained - 1) \subseteq 0..(b - 1)
      BY <1>9, <1>12, <3>1, <3>2
    <3> QED BY <3>2, <3>3 DEF SustainedIn, Ran
  <2>2. CASE rule.threshold \notin Known
    <3>1. rule.sustained = 0
      BY <1>8, <1>9, <1>10, <1>11, <2>2 DEF BreachTicks
    <3>2. 0..(0 - 1) = {}
      OBVIOUS
    <3> QED BY <1>12, <3>1, <3>2 DEF SustainedIn
  <2> QED BY <2>1, <2>2
<1> QED BY <1>5, <1>7, <1>9, <1>13

(* The VPIN rule latches the switch only when its instrument's last values, as many as
   the rule asks for, all reached its threshold (vpin_breach_ticks). *)
THEOREM OnlySustainedFlowHalts == DaySpec => VpinSustained
<1>1. VpinInv /\ [DayNext]_dayVars => (~kill.on /\ kill'.on /\ kill'.by = "vpin"
     => \E k \in DOMAIN rules, i \in Instruments :
          rules[k].class = "vpin" /\ SustainedIn(tape[i], rules[k]))
  BY VpinTrips
<1> QED BY <1>1, VpinBegins, VpinStep, PTL DEF DaySpec, VpinSustained

----------------------------------------------------------------------------
(***************************************************************************)
(* The position cap.  At most one verdict waits; it and what works fit the *)
(* cap on the true position, and a fill moves as much from the legs as to  *)
(* the position.                                                           *)
(***************************************************************************)

(* What is at work: a leg for some of the numbers up to n. *)
IsWork(w) == \E n \in Nat : DOMAIN w.legs \subseteq 1..n /\ w.legs \in [DOMAIN w.legs -> Legs]

(* What leg j has on a side. *)
Share(w, side, j) == IF j \in DOMAIN w.legs /\ w.legs[j].side = side THEN w.legs[j].qty ELSE 0
Shares(w, side, n) == [j \in 1..n |-> Share(w, side, j)]

LEMMA SharesAre ==
  ASSUME NEW w, w.legs \in [DOMAIN w.legs -> Legs], NEW side, NEW n \in Nat
  PROVE  /\ Shares(w, side, n) \in Seq(Nat) /\ Shares(w, side, n) \in Seq(Int) /\ Len(Shares(w, side, n)) = n
         /\ \A j \in 1..n : Shares(w, side, n)[j] = Share(w, side, j) /\ Share(w, side, j) \in Nat
<1>1. \A j \in 1..n : Share(w, side, j) \in Nat
  BY DEF Share, Legs
<1>2. Shares(w, side, n) \in [1..n -> Nat]
  BY <1>1 DEF Shares
<1>3. Shares(w, side, n) \in Seq(Nat) /\ Len(Shares(w, side, n)) = n
  BY <1>2, FunctionSeq
<1>4. Shares(w, side, n) \in Seq(Int)
  BY <1>3, QueueGrows
<1> QED BY <1>1, <1>3, <1>4 DEF Shares

(* However far one counts. *)
LEMMA RestingIs ==
  ASSUME NEW w, w.legs \in [DOMAIN w.legs -> Legs], NEW side, NEW n \in Nat, DOMAIN w.legs \subseteq 1..n
  PROVE  Resting(w, side) = SumOf(Shares(w, side, n)) /\ Resting(w, side) \in Nat
<1> DEFINE S == {0} \union DOMAIN w.legs
           m == Max(S)
           s == Shares(w, side, n)
           t == Shares(w, side, m)
<1>1. m \in 0..n /\ \A j \in DOMAIN w.legs : j <= m
  <2>1. S \in SUBSET (0..n) /\ S # {}
    <3>1. 0 \in 0..n /\ 1..n \subseteq 0..n
      OBVIOUS
    <3> QED BY <3>1
  <2> HIDE DEF S
  <2>2. \E x \in S : \A y \in S : x >= y
    BY <2>1, GreatestNumber
  <2>3. Max(S) \in S /\ \A y \in S : Max(S) >= y
    BY <2>2 DEF Max
  <2>4. \A j \in DOMAIN w.legs : j \in S
    BY DEF S
  <2>5. \A j \in S : j \in Nat
    BY <2>1
  <2> QED BY <2>1, <2>3, <2>4, <2>5
<1>2. Resting(w, side) = SumOf(t)
  BY DEF Resting, Shares, Share
<1> HIDE DEF m
<1>3. /\ s \in Seq(Nat) /\ s \in Seq(Int) /\ Len(s) = n /\ t \in Seq(Int) /\ Len(t) = m
      /\ \A j \in 1..n : s[j] = Share(w, side, j)
      /\ \A j \in 1..m : t[j] = Share(w, side, j)
  <2>1. m \in Nat
    BY <1>1
  <2> QED BY <2>1, SharesAre
<1>4. \A j \in (m + 1)..n : s[j] = 0
  BY <1>1, <1>3 DEF Share
<1>5. Sums(s)[m] = Sums(t)[m]
  <2>1. \A j \in 1..m : s[j] = t[j]
    BY <1>1, <1>3
  <2>2. m \in Nat /\ m <= Len(s) /\ m <= Len(t)
    BY <1>1, <1>3
  <2>3. s \in Seq(Int) /\ t \in Seq(Int)
    BY <1>3
  <2> HIDE DEF s, t
  <2> QED BY <2>1, <2>2, <2>3, SumsPrefix
<1>6. Sums(s)[m] = Sums(s)[n] /\ Sums(s)[m] \in Nat
  <2>1. m \in 0..Len(s) /\ n \in 0..Len(s) /\ m <= n
    BY <1>1, <1>3
  <2> HIDE DEF s, t
  <2> QED BY <1>3, <1>4, <2>1, SumsGrow
<1> HIDE DEF s, t
<1> QED BY <1>2, <1>3, <1>5, <1>6 DEF SumOf, s

(* A fill takes its quantity from the leg it fills. *)
LEMMA RestingFilled ==
  ASSUME NEW w, IsWork(w), NEW j \in DOMAIN w.legs, NEW q \in Nat \ {0}, q <= w.legs[j].qty,
         NEW v, v.legs = [w.legs EXCEPT ![j].qty = @ - q]
  PROVE  /\ IsWork(v) /\ DOMAIN v.legs = DOMAIN w.legs
         /\ Resting(w, w.legs[j].side) >= q
         /\ \A side \in Sides : /\ Resting(w, side) \in Nat /\ Resting(v, side) \in Nat
                                /\ Resting(v, side) = Resting(w, side) - IF side = w.legs[j].side THEN q ELSE 0
<1>1. PICK n \in Nat : DOMAIN w.legs \subseteq 1..n /\ w.legs \in [DOMAIN w.legs -> Legs]
  BY DEF IsWork
<1> DEFINE leg == w.legs[j]
           cut == [leg EXCEPT !.qty = leg.qty - q]
<1>2. leg \in Legs /\ cut \in Legs /\ cut.qty = leg.qty - q /\ cut.side = leg.side /\ leg.qty \in Nat
  BY <1>1 DEF Legs
<1>3. v.legs = [w.legs EXCEPT ![j] = cut]
  BY <1>1
<1> HIDE DEF cut
<1>4. DOMAIN v.legs = DOMAIN w.legs /\ v.legs \in [DOMAIN v.legs -> Legs]
  BY <1>1, <1>2, <1>3
<1>5. IsWork(v)
  BY <1>1, <1>4 DEF IsWork
<1>6. ASSUME NEW side \in Sides
      PROVE  /\ Resting(w, side) \in Nat /\ Resting(v, side) \in Nat
             /\ Resting(v, side) = Resting(w, side) - IF side = leg.side THEN q ELSE 0
  <2> DEFINE s == Shares(w, side, n)
             t == Shares(v, side, n)
             x == Share(v, side, j)
  <2>1. /\ Resting(w, side) = SumOf(s) /\ Resting(w, side) \in Nat
        /\ Resting(v, side) = SumOf(t) /\ Resting(v, side) \in Nat
    BY <1>1, <1>4, RestingIs
  <2>2. /\ s \in Seq(Int) /\ Len(s) = n /\ t \in Seq(Int) /\ Len(t) = n
        /\ \A k \in 1..n : s[k] = Share(w, side, k) /\ t[k] = Share(v, side, k) /\ Share(v, side, k) \in Nat
    BY <1>1, <1>4, SharesAre, SMTT(30)
  <2>3. \A k \in 1..n : k # j => Share(v, side, k) = Share(w, side, k)
    BY <1>1, <1>3, <1>4 DEF Share
  <2>4. /\ Share(w, side, j) = IF side = leg.side THEN leg.qty ELSE 0
        /\ x = IF side = leg.side THEN leg.qty - q ELSE 0
    BY <1>1, <1>2, <1>3, <1>4 DEF Share
  <2>5. j \in 1..n
    BY <1>1
  <2> HIDE DEF s, t, x
  <2>6. x \in Int
    BY <1>2, <2>4
  <2>7. t = [s EXCEPT ![j] = x]
    <3>1. [s EXCEPT ![j] = x] \in Seq(Int) /\ Len([s EXCEPT ![j] = x]) = n
      <4>1. DOMAIN s = 1..n /\ s \in [1..n -> Int]
        BY <2>2, LenProperties
      <4>2. [s EXCEPT ![j] = x] \in [1..n -> Int]
        BY <2>6, <4>1
      <4> QED BY <4>2, FunctionSeq
    <3>2. DOMAIN s = 1..n
      BY <2>2, LenProperties
    <3>3. \A k \in 1..n : t[k] = [s EXCEPT ![j] = x][k]
      BY <2>2, <2>3, <2>5, <3>2 DEF x
    <3> HIDE DEF x
    <3> QED BY <2>2, <3>1, <3>3, SeqEqual
  <2>8. SumOf(t) = SumOf(s) + x - s[j]
    BY <2>2, <2>5, <2>6, <2>7, SumExcept
  <2>9. SumOf(s) \in Nat /\ s[j] = Share(w, side, j)
    BY <2>1, <2>2, <2>5
  <2> QED BY <1>2, <2>1, <2>4, <2>8, <2>9
<1>7. leg.side \in Sides
  BY <1>2 DEF Legs
<1>8. Resting(w, leg.side) >= q
  <2>1. Resting(v, leg.side) = Resting(w, leg.side) - q /\ Resting(v, leg.side) \in Nat /\ Resting(w, leg.side) \in Nat
    BY <1>6, <1>7
  <2> QED BY <2>1
<1> QED BY <1>4, <1>5, <1>6, <1>8

(* Fewer legs ask for no more. *)
LEMMA RestingLeft ==
  ASSUME NEW w, IsWork(w), NEW D, D \subseteq DOMAIN w.legs, NEW v, v.legs = [j \in D |-> w.legs[j]]
  PROVE  /\ IsWork(v)
         /\ \A side \in Sides : /\ Resting(w, side) \in Nat /\ Resting(v, side) \in Nat
                                /\ Resting(v, side) <= Resting(w, side)
<1>1. PICK n \in Nat : DOMAIN w.legs \subseteq 1..n /\ w.legs \in [DOMAIN w.legs -> Legs]
  BY DEF IsWork
<1>2. DOMAIN v.legs = D /\ D \subseteq 1..n /\ v.legs \in [D -> Legs] /\ \A j \in D : v.legs[j] = w.legs[j]
  BY <1>1
<1>3. IsWork(v)
  BY <1>1, <1>2 DEF IsWork
<1>4. ASSUME NEW side \in Sides
      PROVE  /\ Resting(w, side) \in Nat /\ Resting(v, side) \in Nat
             /\ Resting(v, side) <= Resting(w, side)
  <2> DEFINE s == Shares(w, side, n)
             t == Shares(v, side, n)
  <2>1. /\ Resting(w, side) = SumOf(s) /\ Resting(w, side) \in Nat
        /\ Resting(v, side) = SumOf(t) /\ Resting(v, side) \in Nat
    BY <1>1, <1>2, RestingIs
  <2>2. /\ s \in Seq(Int) /\ Len(s) = n /\ \A k \in 1..n : s[k] = Share(w, side, k)
        /\ t \in Seq(Int) /\ Len(t) = n /\ \A k \in 1..n : t[k] = Share(v, side, k)
    BY <1>1, <1>2, SharesAre, SMTT(30)
  <2>3. \A k \in 1..n : Share(v, side, k) <= Share(w, side, k)
    BY <1>1, <1>2 DEF Share, Legs
  <2> HIDE DEF s, t
  <2>4. SumOf(t) <= SumOf(s)
    BY <2>2, <2>3, SumAtMost
  <2> QED BY <2>1, <2>4
<1> QED BY <1>3, <1>4

(* What the other legs ask for on the side of leg j. *)
Others(sig, j) ==
  [k \in DOMAIN sig.legs |-> IF k # j /\ sig.legs[k].side = sig.legs[j].side THEN sig.legs[k].qty ELSE 0]

LEMMA OthersAre ==
  ASSUME NEW sig, sig.legs \in Seq(Legs), NEW j \in DOMAIN sig.legs
  PROVE  /\ DOMAIN sig.legs = 1..Len(sig.legs) /\ Len(sig.legs) \in Nat
         /\ \A k \in DOMAIN sig.legs : sig.legs[k] \in Legs
         /\ Others(sig, j) \in Seq(Int) /\ Len(Others(sig, j)) = Len(sig.legs)
         /\ \A k \in DOMAIN sig.legs :
              Others(sig, j)[k] = IF k # j /\ sig.legs[k].side = sig.legs[j].side THEN sig.legs[k].qty ELSE 0
         /\ Siblings(sig, j) = SumOf(Others(sig, j)) /\ Siblings(sig, j) \in Nat
<1>1. DOMAIN sig.legs = 1..Len(sig.legs) /\ Len(sig.legs) \in Nat /\ \A k \in DOMAIN sig.legs : sig.legs[k] \in Legs
  BY LenProperties, ElementOfSeq
<1>2. Others(sig, j) \in [1..Len(sig.legs) -> Nat]
  BY <1>1 DEF Others, Legs
<1>3. Others(sig, j) \in Seq(Nat) /\ Len(Others(sig, j)) = Len(sig.legs)
  BY <1>1, <1>2, FunctionSeq
<1>4. Others(sig, j) \in Seq(Int)
  BY <1>3, QueueGrows
<1>5. Siblings(sig, j) = SumOf(Others(sig, j))
  BY DEF Siblings, Others
<1>6. SumOf(Others(sig, j)) \in Int
  BY <1>4, SumInt
<1>7. SumOf(Others(sig, j)) >= 0
  <2>1. \A i \in 1..Len(Others(sig, j)) : Others(sig, j)[i] >= 0
    BY <1>2, <1>3
  <2> QED BY <1>4, <2>1, SumAtLeast
<1>8. Siblings(sig, j) \in Nat
  BY <1>5, <1>6, <1>7
<1> QED BY <1>1, <1>3, <1>4, <1>5, <1>8 DEF Others

(* The quantity a cap has room for. *)
Room(rule, sig, j, pos) ==
  IF sig.legs[j].side = "BUY" THEN rule.maxLong - (pos + Siblings(sig, j))
  ELSE pos - Siblings(sig, j) + rule.maxShort

(* A verdict's clamp is a quantity, and that of a cap leaves no more than its room. *)
LEMMA ClampsAre ==
  ASSUME NEW rule, RuleTypeOK(rule), NEW sig, sig.legs \in Seq(Legs), NEW j \in DOMAIN sig.legs,
         NEW r, r.pos[sig.inst] \in Int, NEW t
  PROVE  LET v == Judge(rule, sig, j, r, t)
         IN  /\ v.clamp = None \/ v.clamp \in Nat
             /\ rule.class = "max_position" /\ v.ok =>
                  LET room == Room(rule, sig, j, r.pos[sig.inst])
                  IN  room \in Nat /\ IF v.clamp = None THEN sig.legs[j].qty <= room ELSE v.clamp <= room
<1> DEFINE v == Judge(rule, sig, j, r, t)
           leg == sig.legs[j]
           room == Room(rule, sig, j, r.pos[sig.inst])
<1>1. leg \in Legs /\ leg.qty \in Nat /\ leg.price \in Nat /\ Siblings(sig, j) \in Nat
  BY OthersAre DEF Legs
<1>2. CASE rule.class = "max_position"
  <2>1. v = MaxPosition(rule, sig, j, r)
    BY <1>2 DEF Judge
  <2>2. room \in Int
    BY <1>1, <1>2 DEF Room, RuleTypeOK
  <2>3. MaxPosition(rule, sig, j, r) =
          IF room <= 0 THEN Reject("BLOCK") ELSE IF room < leg.qty THEN ClampTo(room) ELSE Approve
    BY DEF MaxPosition, Room
  <2> HIDE DEF room, v
  <2>4. /\ v.clamp = None \/ v.clamp \in Nat
        /\ v.ok => room \in Nat /\ IF v.clamp = None THEN leg.qty <= room ELSE v.clamp <= room
    BY <1>1, <2>1, <2>2, <2>3, NoneAssumption DEF Reject, ClampTo, Approve
  <2> QED BY <2>4 DEF room, v
<1>3. CASE rule.class = "max_order_size"
  <2>1. v = MaxOrderSize(rule, leg)
    BY <1>3 DEF Judge
  <2> QED BY <1>3, <2>1 DEF MaxOrderSize, RuleTypeOK, ClampTo, Approve
<1>4. CASE rule.class = "max_notional"
  <2>1. v = MaxNotional(rule, leg)
    BY <1>4 DEF Judge
  <2>2. rule.maxNotional \in Nat
    BY <1>4 DEF RuleTypeOK
  <2>3. leg.price # 0 => rule.maxNotional \div leg.price \in Int
    BY <1>1, <2>2
  <2> DEFINE d == rule.maxNotional \div leg.price
  <2>4. v = IF leg.price = 0 \/ leg.price * leg.qty <= rule.maxNotional THEN Approve
            ELSE IF d <= 0 THEN Reject("BLOCK") ELSE ClampTo(d)
    BY <2>1 DEF MaxNotional
  <2> HIDE DEF d, v
  <2>5. v.clamp = None \/ v.clamp \in Nat
    BY <2>3, <2>4 DEF Approve, Reject, ClampTo, d
  <2> QED BY <1>4, <2>5 DEF v
<1>5. CASE rule.class \notin {"max_position", "max_order_size", "max_notional"}
  <2>1. rule.class \in {"throttle", "vpin", "daily_loss", "drawdown", "allowlist"}
    BY <1>5 DEF RuleTypeOK
  <2>2. v.clamp = None
    BY <2>1 DEF Judge, Throttle, Vpin, DailyLoss, Drawdown, Allowlist, Approve, Reject, Raised
  <2> QED BY <1>5, <2>2
<1> QED BY <1>2, <1>3, <1>4, <1>5

(* The size that passes is none of them exceeded. *)
LEMMA ClampedIs ==
  ASSUME NEW leg, leg.qty \in Nat, NEW res, \A k \in DOMAIN res : res[k].clamp = None \/ res[k].clamp \in Nat
  PROVE  /\ Clamped(leg, res) \in Nat /\ Clamped(leg, res) <= leg.qty
         /\ \A k \in DOMAIN res : res[k].clamp # None => Clamped(leg, res) <= res[k].clamp
<1> DEFINE S == {leg.qty} \union {res[k].clamp : k \in {k \in DOMAIN res : res[k].clamp # None}}
<1>1. S \in SUBSET Nat /\ S # {} /\ leg.qty \in S
  OBVIOUS
<1>2. \A k \in DOMAIN res : res[k].clamp # None => res[k].clamp \in S
  OBVIOUS
<1>3. Clamped(leg, res) = Min(S)
  BY DEF Clamped
<1> HIDE DEF S
<1>4. Min(S) \in S /\ \A n \in S : Min(S) <= n
  BY <1>1, MinIs
<1> QED BY <1>1, <1>2, <1>3, <1>4

(* Position and resting orders stay within every cap. *)
Bounded(net, w) ==
  \A r \in CapRules :
    /\ net + Resting(w, "BUY") <= r.maxLong \/ Resting(w, "BUY") = 0
    /\ net - Resting(w, "SELL") >= -r.maxShort \/ Resting(w, "SELL") = 0

LEMMA Fits ==
  ASSUME NEW p \in Int, NEW x \in Nat, NEW z \in Nat, NEW o \in Nat, NEW cap \in Nat, x <= z + o
  PROVE  /\ z <= cap - (p + o) => p + x <= cap
         /\ z <= p - o + cap => p - x >= -cap
OBVIOUS

LEMMA ApprovedFits ==
  ASSUME Configured, NEW r, NEW t, NEW R, Trims(t, R), r \in Reads(r, t, R),
         NEW sig, sig.legs \in Seq(Legs), r.pos[sig.inst] \in Int, Verdict(sig, r, t).approved,
         NEW w, w.legs = Verdict(sig, r, t).legs
  PROVE  IsWork(w) /\ Bounded(r.pos[sig.inst], w)
<1>1. PICK kept : Passed(sig, r, t, R, kept, Verdict(sig, r, t))
  BY PassedAre
<1> DEFINE n == Len(sig.legs)
           size(j) == Clamped(sig.legs[j], Results(sig, j, r, t))
<1>2. DOMAIN sig.legs = 1..n /\ n \in Nat /\ \A j \in 1..n : sig.legs[j] \in Legs
  BY LenProperties, ElementOfSeq
<1>3. kept \in SUBSET (1..n) /\ w.legs = [j \in kept |-> Sized(sig.legs[j], size(j))]
  BY <1>1, <1>2 DEF Passed
<1>4. PICK p \in Int : p = r.pos[sig.inst]
  OBVIOUS
<1>5. ASSUME NEW j \in kept
      PROVE  /\ size(j) \in Nat /\ size(j) <= sig.legs[j].qty
             /\ \A k \in 1..Len(rules) : rules[k].class = "max_position" =>
                  Room(rules[k], sig, j, p) \in Nat /\ size(j) <= Room(rules[k], sig, j, p)
  <2> DEFINE res == Results(sig, j, r, t)
  <2>1. DOMAIN res = 1..Len(rules)
    BY RulesAre DEF Results
  <2>2. j \in DOMAIN sig.legs /\ sig.legs[j].qty \in Nat
    BY <1>2, <1>3 DEF Legs
  <2>3. ASSUME NEW k \in 1..Len(rules)
        PROVE  /\ res[k].clamp = None \/ res[k].clamp \in Nat
               /\ rules[k].class = "max_position" =>
                    /\ Room(rules[k], sig, j, p) \in Nat
                    /\ IF res[k].clamp = None THEN sig.legs[j].qty <= Room(rules[k], sig, j, p)
                       ELSE res[k].clamp <= Room(rules[k], sig, j, p)
    <3>1. PICK q \in Reads(r, t, R) : res[k].ok /\ res[k] = Judge(rules[k], sig, j, q, t)
      BY <1>1 DEF Passed
    <3>2. q.pos = r.pos /\ q.pos[sig.inst] \in Int /\ q.pos[sig.inst] = p
      BY <1>4, <3>1, ReadsKeep
    <3>3. RuleTypeOK(rules[k])
      BY RulesAre
    <3> HIDE DEF res
    <3>4. LET v == Judge(rules[k], sig, j, q, t)
          IN  /\ v.clamp = None \/ v.clamp \in Nat
              /\ rules[k].class = "max_position" /\ v.ok =>
                   LET room == Room(rules[k], sig, j, q.pos[sig.inst])
                   IN  room \in Nat /\ IF v.clamp = None THEN sig.legs[j].qty <= room ELSE v.clamp <= room
      BY <2>2, <3>2, <3>3, ClampsAre
    <3> QED BY <3>1, <3>2, <3>4
  <2> HIDE DEF res
  <2>4. /\ Clamped(sig.legs[j], res) \in Nat /\ Clamped(sig.legs[j], res) <= sig.legs[j].qty
        /\ \A k \in DOMAIN res : res[k].clamp # None => Clamped(sig.legs[j], res) <= res[k].clamp
    BY <2>1, <2>2, <2>3, ClampedIs
  <2>5. size(j) = Clamped(sig.legs[j], res)
    BY DEF res
  <2> HIDE DEF size
  <2>6. ASSUME NEW k \in 1..Len(rules), rules[k].class = "max_position"
        PROVE  Room(rules[k], sig, j, p) \in Nat /\ size(j) <= Room(rules[k], sig, j, p)
    <3>1. res[k].clamp # None => size(j) <= res[k].clamp /\ res[k].clamp \in Nat
      BY <2>1, <2>3, <2>4, <2>5
    <3>2. size(j) <= sig.legs[j].qty /\ size(j) \in Nat
      BY <2>4, <2>5
    <3> QED BY <2>2, <2>3, <2>6, <3>1, <3>2
  <2> QED BY <2>4, <2>5, <2>6
<1> HIDE DEF size
<1>6. ASSUME NEW j \in kept
      PROVE  /\ Sized(sig.legs[j], size(j)) \in Legs
             /\ Sized(sig.legs[j], size(j)).qty = size(j) /\ Sized(sig.legs[j], size(j)).side = sig.legs[j].side
  BY <1>2, <1>3, <1>5 DEF Sized, Legs
<1>7. DOMAIN w.legs = kept /\ w.legs \in [kept -> Legs]
      /\ \A j \in kept : w.legs[j].qty = size(j) /\ w.legs[j].side = sig.legs[j].side
  BY <1>3, <1>6
<1>8. IsWork(w) /\ DOMAIN w.legs \subseteq 1..n /\ w.legs \in [DOMAIN w.legs -> Legs]
  BY <1>2, <1>3, <1>7 DEF IsWork
<1>9. ASSUME NEW j \in kept
      PROVE  Resting(w, sig.legs[j].side) <= size(j) + Siblings(sig, j) /\ Siblings(sig, j) \in Nat
  <2> DEFINE side == sig.legs[j].side
             s == Shares(w, side, n)
             o == Others(sig, j)
             t1 == [o EXCEPT ![j] = size(j)]
  <2>1. /\ s \in Seq(Int) /\ Len(s) = n /\ Resting(w, side) = SumOf(s)
        /\ \A k \in 1..n : s[k] = Share(w, side, k)
    BY <1>2, <1>8, SharesAre, RestingIs
  <2>2. j \in DOMAIN sig.legs /\ j \in 1..n
    BY <1>2, <1>3
  <2>3. /\ o \in Seq(Int) /\ Len(o) = n /\ Siblings(sig, j) = SumOf(o) /\ Siblings(sig, j) \in Nat
        /\ \A k \in 1..n : o[k] = IF k # j /\ sig.legs[k].side = side THEN sig.legs[k].qty ELSE 0
    BY <1>2, <2>2, OthersAre
  <2>4. size(j) \in Int
    BY <1>5
  <2> HIDE DEF s, o
  <2>5. t1 \in Seq(Int) /\ Len(t1) = n /\ \A k \in 1..n : t1[k] = IF k = j THEN size(j) ELSE o[k]
    <3>1. DOMAIN o = 1..n /\ o \in [1..n -> Int]
      BY <2>3, LenProperties
    <3>2. t1 \in [1..n -> Int]
      BY <2>4, <3>1
    <3> QED BY <1>2, <3>1, <3>2, FunctionSeq
  <2>6. SumOf(t1) = SumOf(o) + size(j) - o[j]
    BY <2>2, <2>3, <2>4, SumExcept
  <2>7. o[j] = 0
    BY <2>2, <2>3
  <2> HIDE DEF t1
  <2>8. \A k \in 1..n : s[k] <= t1[k]
    <3> SUFFICES ASSUME NEW k \in 1..n PROVE s[k] <= t1[k]
      OBVIOUS
    <3>1. s[k] = IF k \in kept /\ sig.legs[k].side = side THEN size(k) ELSE 0
      BY <1>7, <2>1 DEF Share
    <3>2. t1[k] = IF k = j THEN size(j) ELSE IF sig.legs[k].side = side THEN sig.legs[k].qty ELSE 0
      BY <2>3, <2>5
    <3>3. sig.legs[k].qty \in Nat /\ size(j) \in Nat
      BY <1>2, <1>5 DEF Legs
    <3>4. k \in kept => size(k) \in Nat /\ size(k) <= sig.legs[k].qty
      BY <1>5
    <3> HIDE DEF side
    <3> QED BY <3>1, <3>2, <3>3, <3>4
  <2>9. SumOf(s) <= SumOf(t1)
    BY <2>1, <2>5, <2>8, SumAtMost
  <2>10. SumOf(s) <= size(j) + Siblings(sig, j)
    BY <2>3, <2>4, <2>6, <2>7, <2>9
  <2> QED BY <2>1, <2>3, <2>10
<1>10. ASSUME NEW side \in Sides, \A j \in kept : sig.legs[j].side # side
       PROVE  Resting(w, side) = 0
  <2> DEFINE s == Shares(w, side, n)
  <2>1. /\ s \in Seq(Int) /\ Len(s) = n /\ Resting(w, side) = SumOf(s)
        /\ \A k \in 1..n : s[k] = Share(w, side, k)
    BY <1>2, <1>8, SharesAre, RestingIs
  <2>2. \A k \in 1..n : s[k] = 0
    BY <1>7, <1>10, <2>1 DEF Share
  <2> HIDE DEF s
  <2> QED BY <2>1, <2>2, SumZero
<1>11. \A side \in Sides : Resting(w, side) \in Nat
  BY <1>2, <1>3, <1>7, RestingIs
<1>12. ASSUME NEW k \in 1..Len(rules), rules[k].class = "max_position"
       PROVE  /\ p + Resting(w, "BUY") <= rules[k].maxLong \/ Resting(w, "BUY") = 0
              /\ p - Resting(w, "SELL") >= -rules[k].maxShort \/ Resting(w, "SELL") = 0
  <2>1. rules[k].maxLong \in Nat /\ rules[k].maxShort \in Nat
    BY <1>12, RulesAre DEF RuleTypeOK
  <2>2. ASSUME NEW j \in kept, sig.legs[j].side = "BUY"
        PROVE  p + Resting(w, "BUY") <= rules[k].maxLong
    <3>1. size(j) \in Nat /\ size(j) <= rules[k].maxLong - (p + Siblings(sig, j))
      BY <1>5, <1>12, <2>2 DEF Room
    <3>2. Resting(w, "BUY") <= size(j) + Siblings(sig, j) /\ Siblings(sig, j) \in Nat /\ Resting(w, "BUY") \in Nat
      BY <1>9, <1>11, <2>2 DEF Sides
    <3> QED BY <1>4, <2>1, <3>1, <3>2, Fits
  <2>3. ASSUME NEW j \in kept, sig.legs[j].side = "SELL"
        PROVE  p - Resting(w, "SELL") >= -rules[k].maxShort
    <3>1. size(j) \in Nat /\ size(j) <= p - Siblings(sig, j) + rules[k].maxShort
      BY <1>5, <1>12, <2>3 DEF Room
    <3>2. Resting(w, "SELL") <= size(j) + Siblings(sig, j) /\ Siblings(sig, j) \in Nat /\ Resting(w, "SELL") \in Nat
      BY <1>9, <1>11, <2>3 DEF Sides
    <3> QED BY <1>4, <2>1, <3>1, <3>2, Fits
  <2> QED BY <1>10, <2>2, <2>3 DEF Sides
<1>13. Bounded(p, w)
  <2>1. \A k \in DOMAIN rules : k \in 1..Len(rules)
    BY RulesAre
  <2> QED BY <1>12, <2>1 DEF Bounded, CapRules
<1> QED BY <1>4, <1>8, <1>13

(* What a verdict or the OMS has may be traded without breaking a cap. *)
Fitting(w) == IsWork(w) /\ w.inst \in Instruments /\ Bounded(traded[w.inst].net, w)

TradedTyped ==
  /\ traded = [i \in Instruments |-> [net |-> traded[i].net, cash |-> traded[i].cash]]
  /\ \A i \in Instruments : traded[i].net \in Int

CapInv ==
  /\ DeskTypeOK /\ TradedTyped
  /\ \E S : verdictQ \in Seq(S)
  /\ ~lagged /\ ~desk.open =>
       /\ working = [id |-> working.id, inst |-> working.inst, legs |-> working.legs]
       /\ DOMAIN working.legs = {} \/ Fitting(working)
       /\ Len(verdictQ) <= 1
       /\ \A k \in 1..Len(verdictQ) : verdictQ[k].approved => Fitting(verdictQ[k])

(* A fill of what works, while no verdict waits. *)
LEMMA FillCapped ==
  ASSUME CapInv, VenueFill, DeskTypeOK'
  PROVE  CapInv'
<1>1. PICK f \in desk.fills :
        /\ Fill(f)
        /\ \/ desk.open
           \/ \E j \in DOMAIN working.legs :
                /\ f.inst = working.inst /\ f.side = working.legs[j].side
                /\ f.qty <= working.legs[j].qty
                /\ working' = [working EXCEPT !.legs[j].qty = @ - f.qty]
  BY DEF VenueFill
<1>2. f \in Fills
  BY DeskAssumption DEF CapInv, DeskTypeOK, Configured
<1> DEFINE i == f.inst
           net == traded[i].net + Sign(f.side) * f.qty
           cash == traded[i].cash - Sign(f.side) * f.qty * f.price - f.fee
           entry == [net |-> net, cash |-> cash]
<1>3. /\ traded' = [traded EXCEPT ![i] = entry] /\ i \in Instruments
      /\ verdictQ' = verdictQ /\ lagged' = (lagged \/ verdictQ # << >>) /\ UNCHANGED <<desk, rules>>
  BY <1>1, <1>2 DEF Fill, Fills
<1>4. net \in Int /\ f.qty \in Nat \ {0} /\ f.side \in Sides
      /\ net = IF f.side = "BUY" THEN traded[i].net + f.qty ELSE traded[i].net - f.qty
  BY <1>2, <1>3 DEF Fills, Sign, CapInv, TradedTyped
<1>5. /\ entry.net = net /\ entry = [net |-> entry.net, cash |-> entry.cash]
  OBVIOUS
<1> HIDE DEF entry, net, i
<1>6. TradedTyped' /\ traded'[i].net = net
  BY <1>3, <1>4, <1>5 DEF CapInv, TradedTyped
<1>7. ASSUME ~lagged', ~desk'.open
      PROVE  /\ working' = [id |-> working'.id, inst |-> working'.inst, legs |-> working'.legs]
             /\ Fitting(working)' /\ verdictQ' = << >>
  <2>1. ~lagged /\ ~desk.open /\ verdictQ = << >>
    BY <1>3, <1>7
  <2>2. PICK j \in DOMAIN working.legs :
          /\ i = working.inst /\ f.side = working.legs[j].side
          /\ f.qty <= working.legs[j].qty
          /\ working' = [working EXCEPT !.legs[j].qty = @ - f.qty]
    BY <1>1, <2>1 DEF i
  <2>3. Fitting(working) /\ working = [id |-> working.id, inst |-> working.inst, legs |-> working.legs]
    BY <2>1, <2>2 DEF CapInv
  <2>4. /\ working'.legs = [working.legs EXCEPT ![j].qty = @ - f.qty] /\ working'.inst = working.inst
        /\ working' = [id |-> working'.id, inst |-> working'.inst, legs |-> working'.legs]
    BY <2>2, <2>3
  <2>5. /\ IsWork(working') /\ Resting(working, f.side) >= f.qty
        /\ \A side \in Sides : /\ Resting(working, side) \in Nat /\ Resting(working', side) \in Nat
                               /\ Resting(working', side) = Resting(working, side) - IF side = f.side THEN f.qty ELSE 0
    <3>1. IsWork(working)
      BY <2>3 DEF Fitting
    <3>2. PICK v : v = working'
      OBVIOUS
    <3>3. f.qty \in Nat \ {0} /\ f.qty <= working.legs[j].qty /\ v.legs = [working.legs EXCEPT ![j].qty = @ - f.qty]
      BY <1>4, <2>2, <2>4, <3>2
    <3>4. /\ IsWork(v) /\ Resting(working, working.legs[j].side) >= f.qty
          /\ \A side \in Sides : /\ Resting(working, side) \in Nat /\ Resting(v, side) \in Nat
                                 /\ Resting(v, side) = Resting(working, side)
                                                       - IF side = working.legs[j].side THEN f.qty ELSE 0
      BY <3>1, <3>3, RestingFilled
    <3> QED BY <2>2, <3>2, <3>4
  <2>6. \A r \in CapRules :
          /\ net + Resting(working', "BUY") <= r.maxLong \/ Resting(working', "BUY") = 0
          /\ net - Resting(working', "SELL") >= -r.maxShort \/ Resting(working', "SELL") = 0
    <3> SUFFICES ASSUME NEW r \in CapRules
                 PROVE  /\ net + Resting(working', "BUY") <= r.maxLong \/ Resting(working', "BUY") = 0
                        /\ net - Resting(working', "SELL") >= -r.maxShort \/ Resting(working', "SELL") = 0
      OBVIOUS
    <3>1. /\ traded[i].net + Resting(working, "BUY") <= r.maxLong \/ Resting(working, "BUY") = 0
          /\ traded[i].net - Resting(working, "SELL") >= -r.maxShort \/ Resting(working, "SELL") = 0
      BY <2>2, <2>3 DEF Fitting, Bounded
    <3>2. r.maxLong \in Nat /\ r.maxShort \in Nat
      <4>1. PICK k \in 1..Len(rules) : r = rules[k] /\ rules[k].class = "max_position"
        BY RulesAre DEF CapRules, CapInv, DeskTypeOK
      <4> QED BY <4>1, RulesAre DEF RuleTypeOK, CapInv, DeskTypeOK
    <3>3. traded[i].net \in Int /\ f.qty \in Nat \ {0}
      BY <1>3, <1>4 DEF CapInv, TradedTyped
    <3>4. CASE f.side = "BUY"
      <4>1. /\ Resting(working', "BUY") = Resting(working, "BUY") - f.qty /\ Resting(working, "BUY") >= f.qty
            /\ Resting(working', "SELL") = Resting(working, "SELL")
            /\ Resting(working, "BUY") \in Nat /\ Resting(working, "SELL") \in Nat
            /\ net = traded[i].net + f.qty
        BY <1>4, <2>5, <3>4 DEF Sides
      <4> QED BY <3>1, <3>2, <3>3, <4>1
    <3>5. CASE f.side = "SELL"
      <4>1. /\ Resting(working', "SELL") = Resting(working, "SELL") - f.qty /\ Resting(working, "SELL") >= f.qty
            /\ Resting(working', "BUY") = Resting(working, "BUY")
            /\ Resting(working, "BUY") \in Nat /\ Resting(working, "SELL") \in Nat
            /\ net = traded[i].net - f.qty
        BY <1>4, <2>5, <3>5 DEF Sides
      <4> QED BY <3>1, <3>2, <3>3, <4>1
    <3> QED BY <1>4, <3>4, <3>5 DEF Sides
  <2>7. Fitting(working)'
    <3>1. CapRules' = CapRules /\ working'.inst = i /\ traded'[i].net = net
      BY <1>3, <1>6, <2>2, <2>4 DEF CapRules
    <3>2. Bounded(traded[working.inst].net, working)'
      BY <2>6, <3>1 DEF Bounded, Resting
    <3>3. IsWork(working)'
      BY <2>5 DEF IsWork
    <3> QED BY <1>3, <3>1, <3>2, <3>3 DEF Fitting
  <2> QED BY <1>3, <2>1, <2>4, <2>7
<1>8. Len(<< >>) = 0
  BY EmptySeq
<1> QED BY <1>3, <1>6, <1>7, <1>8 DEF CapInv

(* What fits, fits as long as the position is the same. *)
LEMMA StillFits ==
  ASSUME NEW w, Fitting(w), UNCHANGED <<rules, traded>>
  PROVE  IsWork(w) /\ w.inst \in Instruments
         /\ \A r \in CapRules' :
              /\ traded'[w.inst].net + Resting(w, "BUY") <= r.maxLong \/ Resting(w, "BUY") = 0
              /\ traded'[w.inst].net - Resting(w, "SELL") >= -r.maxShort \/ Resting(w, "SELL") = 0
BY DEF Fitting, Bounded, CapRules

LEMMA WorkStillFits ==
  ASSUME Fitting(working), UNCHANGED <<rules, traded, working>>
  PROVE  Fitting(working)'
BY DEF Fitting, Bounded, CapRules, IsWork, Resting

(* So does what is left of it when the rest is cancelled. *)
LEMMA UncancelledFits ==
  ASSUME CapInv, ~lagged, ~desk.open, UNCHANGED <<rules, traded>>,
         working' = working \/ working' = Uncancelled(working)
  PROVE  /\ working' = [id |-> working'.id, inst |-> working'.inst, legs |-> working'.legs]
         /\ DOMAIN working'.legs = {} \/ Fitting(working)'
<1>1. Worked /\ (DOMAIN working.legs = {} \/ Fitting(working))
  BY DEF CapInv, Worked
<1>2. CASE working' = working
  BY <1>1, <1>2, WorkStillFits DEF Worked
<1>3. CASE working' = Uncancelled(working)
  <2> DEFINE D == DOMAIN working.legs \ acked
  <2>1. PICK v : v = working'
    OBVIOUS
  <2>2. /\ v = [id |-> v.id, inst |-> v.inst, legs |-> v.legs] /\ v.inst = working.inst
        /\ v.legs = [j \in D |-> working.legs[j]] /\ DOMAIN v.legs \subseteq DOMAIN working.legs
    BY <1>1, <1>3, <2>1, UncancelledIs
  <2>3. CASE DOMAIN working.legs = {}
    BY <2>1, <2>2, <2>3
  <2>4. CASE Fitting(working)
    <3> DEFINE i == working.inst
    <3>1. IsWork(working) /\ i \in Instruments /\ Bounded(traded[i].net, working) /\ traded[i].net \in Int
      BY <2>4 DEF Fitting, CapInv, TradedTyped
    <3>2. D \subseteq DOMAIN working.legs
      OBVIOUS
    <3> HIDE DEF D
    <3>3. /\ IsWork(v)
          /\ \A side \in Sides : /\ Resting(working, side) \in Nat /\ Resting(v, side) \in Nat
                                 /\ Resting(v, side) <= Resting(working, side)
      BY <2>2, <3>1, <3>2, RestingLeft
    <3>4. ASSUME NEW r \in CapRules
          PROVE  /\ traded[i].net + Resting(v, "BUY") <= r.maxLong \/ Resting(v, "BUY") = 0
                 /\ traded[i].net - Resting(v, "SELL") >= -r.maxShort \/ Resting(v, "SELL") = 0
      <4>1. r.maxLong \in Nat /\ r.maxShort \in Nat
        <5>1. PICK k \in 1..Len(rules) : r = rules[k] /\ rules[k].class = "max_position"
          BY RulesAre DEF CapRules, CapInv, DeskTypeOK
        <5> QED BY <5>1, RulesAre DEF RuleTypeOK, CapInv, DeskTypeOK
      <4>2. /\ traded[i].net + Resting(working, "BUY") <= r.maxLong \/ Resting(working, "BUY") = 0
            /\ traded[i].net - Resting(working, "SELL") >= -r.maxShort \/ Resting(working, "SELL") = 0
        BY <3>1 DEF Bounded
      <4>3. /\ Resting(v, "BUY") \in Nat /\ Resting(v, "BUY") <= Resting(working, "BUY")
            /\ Resting(working, "BUY") \in Nat
            /\ Resting(v, "SELL") \in Nat /\ Resting(v, "SELL") <= Resting(working, "SELL")
            /\ Resting(working, "SELL") \in Nat
        BY <3>3 DEF Sides
      <4> QED BY <3>1, <4>1, <4>2, <4>3
    <3>5. Bounded(traded[v.inst].net, v) /\ v.inst \in Instruments
      BY <2>2, <3>1, <3>4 DEF Bounded
    <3>6. Fitting(v)
      BY <3>3, <3>5 DEF Fitting
    <3>7. Fitting(working)'
      BY <2>1, <3>6, ZenonT(40) DEF Fitting, Bounded, CapRules, IsWork, Resting
    <3> QED BY <2>1, <2>2, <3>7
  <2> QED BY <1>1, <2>3, <2>4
<1> QED BY <1>2, <1>3

(* A signal is judged. *)
LEMMA SignalCapped ==
  ASSUME CapInv, Signal, DeskTypeOK'
  PROVE  CapInv'
<1>1. PICK sig \in desk.signals, heard \in BOOLEAN, told \in BOOLEAN :
        /\ OnSignalKilled(sig, heard) \/ OnSignalJudged(sig, heard, told)
        /\ lagged' = (lagged \/ ~CaughtUp(sig.inst))
  BY DEF Signal, RiskOnSignal
<1>2. UNCHANGED <<rules, desk, traded, working>>
  BY DEF Signal, RiskOnSignal
<1>3. Configured /\ now \in Nat /\ IsRiskState(rs)
  BY DEF CapInv, DeskTypeOK
<1>4. sig.inst \in Instruments /\ sig.legs \in Seq(Legs)
  BY <1>3, DeskAssumption DEF Configured
<1> DEFINE r0 == WithSignal(rs, now)
           v == Verdict(sig, r0, now)
           d == IF OnSignalKilled(sig, heard) THEN Refusal(sig) ELSE Decision(sig, v)
<1>5. PICK dec : /\ verdictQ' = IF heard THEN Append(verdictQ, dec) ELSE verdictQ
                 /\ dec.inst = sig.inst
                 /\ dec.approved => v.approved /\ dec.legs = v.legs
  <2>1. CASE OnSignalKilled(sig, heard)
    <3>1. Refusal(sig).inst = sig.inst /\ Refusal(sig).approved = FALSE
      BY DEF Refusal, Decision
    <3> QED BY <2>1, <3>1 DEF OnSignalKilled, Sent
  <2>2. CASE OnSignalJudged(sig, heard, told)
    <3>1. /\ Decision(sig, v).inst = sig.inst /\ Decision(sig, v).approved = v.approved
          /\ Decision(sig, v).legs = v.legs
      BY DEF Decision
    <3> HIDE DEF v
    <3>2. verdictQ' = IF heard THEN Append(verdictQ, Decision(sig, v)) ELSE verdictQ
      BY <2>2 DEF OnSignalJudged, Sent, v
    <3> QED BY <3>1, <3>2
  <2> QED BY <1>1, <2>1, <2>2
<1>6. TradedTyped'
  BY <1>2 DEF CapInv, TradedTyped
<1>7. \E S : verdictQ' \in Seq(S)
  <2>1. PICK S : verdictQ \in Seq(S)
    BY DEF CapInv
  <2> PICK T : T = S \union {dec}
    OBVIOUS
  <2>2. verdictQ \in Seq(T) /\ dec \in T
    BY <2>1, QueueGrows
  <2>3. Append(verdictQ, dec) \in Seq(T)
    BY <2>2, AppendProperties
  <2> QED BY <1>5, <2>2, <2>3
<1>8. ASSUME ~lagged', ~desk'.open
      PROVE  /\ working' = [id |-> working'.id, inst |-> working'.inst, legs |-> working'.legs]
             /\ DOMAIN working'.legs = {} \/ Fitting(working)'
             /\ Len(verdictQ') <= 1
             /\ \A k \in 1..Len(verdictQ') : verdictQ'[k].approved => Fitting(verdictQ[k])'
  <2>1. ~lagged /\ ~desk.open /\ verdictQ = << >> /\ rs.pos[sig.inst] = traded[sig.inst].net
    BY <1>1, <1>2, <1>8 DEF CaughtUp
  <2>2. /\ working' = [id |-> working'.id, inst |-> working'.inst, legs |-> working'.legs]
        /\ DOMAIN working'.legs = {} \/ Fitting(working)'
    BY <1>2, <2>1, WorkStillFits DEF CapInv
  <2>3. Len(<< >>) = 0 /\ Append(<< >>, dec) = <<dec>> /\ Len(<<dec>>) = 1 /\ <<dec>>[1] = dec
    OBVIOUS
  <2>4. ASSUME dec.approved
        PROVE  /\ IsWork(dec) /\ dec.inst \in Instruments /\ Bounded(traded[dec.inst].net, dec)
    <3>1. /\ IsRiskState(r0) /\ r0.recent \in Seq(Nat) /\ r0.pos = rs.pos
          /\ Trims(now, Seq(Nat)) /\ r0 \in Reads(r0, now, Seq(Nat))
      BY <1>3, Recorded, HistoriesTrim, ReadsItself DEF IsRiskState
    <3>2. r0.pos[sig.inst] \in Int /\ r0.pos[sig.inst] = traded[dec.inst].net
      BY <1>4, <1>5, <2>1, <3>1 DEF CapInv, TradedTyped
    <3>3. Verdict(sig, r0, now).approved /\ dec.legs = Verdict(sig, r0, now).legs
      BY <1>5, <2>4
    <3> HIDE DEF r0
    <3>4. IsWork(dec) /\ Bounded(r0.pos[sig.inst], dec)
      BY <1>3, <1>4, <3>1, <3>2, <3>3, ApprovedFits
    <3> QED BY <1>4, <1>5, <3>2, <3>4
  <2>5. dec.approved =>
          /\ IsWork(dec) /\ dec.inst \in Instruments
          /\ \A r \in CapRules' :
              /\ traded'[dec.inst].net + Resting(dec, "BUY") <= r.maxLong \/ Resting(dec, "BUY") = 0
              /\ traded'[dec.inst].net - Resting(dec, "SELL") >= -r.maxShort \/ Resting(dec, "SELL") = 0
    BY <1>2, <2>4, StillFits DEF Fitting
  <2>6. CASE verdictQ' = << >>
    BY <2>2, <2>3, <2>6
  <2>7. CASE verdictQ' = <<dec>>
    <3>1. Len(verdictQ') = 1 /\ verdictQ'[1] = dec
      BY <2>3, <2>7
    <3>2. dec.approved => Fitting(verdictQ[1])'
      BY <2>5, <3>1 DEF Fitting, Bounded, IsWork, Resting
    <3> QED BY <2>2, <3>1, <3>2
  <2> QED BY <1>5, <2>1, <2>3, <2>6, <2>7
<1> QED BY <1>6, <1>7, <1>8 DEF CapInv

(* The OMS takes a verdict. *)
LEMMA WorkCapped ==
  ASSUME CapInv, OMSWorks, DeskTypeOK'
  PROVE  CapInv'
<1>1. PICK S : verdictQ \in Seq(S)
  BY DEF CapInv
<1> DEFINE d == Head(verdictQ)
           Q == Tail(verdictQ)
           taken == [id |-> d.id, inst |-> d.inst, legs |-> d.legs]
<1>2. /\ verdictQ # << >> /\ verdictQ' = Q
      /\ working' = IF d.approved THEN taken
                    ELSE IF d.inst = working.inst THEN Uncancelled(working) ELSE working
      /\ UNCHANGED <<rules, desk, traded, lagged>>
  BY DEF OMSWorks, history
<1>3. /\ Q \in Seq(S) /\ d = verdictQ[1] /\ Len(verdictQ) \in Nat /\ 1 \in 1..Len(verdictQ)
      /\ Len(Q) = Len(verdictQ) - 1
  BY <1>1, <1>2, EmptySeq, LenProperties, HeadTailProperties
<1> HIDE DEF d, Q
<1>4. TradedTyped'
  BY <1>2 DEF CapInv, TradedTyped
<1>5. /\ taken.inst = d.inst /\ taken.legs = d.legs
      /\ taken = [id |-> taken.id, inst |-> taken.inst, legs |-> taken.legs]
  OBVIOUS
<1> HIDE DEF taken
<1>6. ASSUME ~lagged', ~desk'.open
      PROVE  /\ working' = [id |-> working'.id, inst |-> working'.inst, legs |-> working'.legs]
             /\ DOMAIN working'.legs = {} \/ Fitting(working)'
             /\ Len(verdictQ') = 0
  <2>1. Len(verdictQ) <= 1 /\ (d.approved => Fitting(d))
    BY <1>2, <1>3, <1>6 DEF CapInv
  <2>2. Len(verdictQ') = 0
    BY <1>2, <1>3, <2>1
  <2>3. CASE ~d.approved
    <3>1. working' = working \/ working' = Uncancelled(working)
      BY <1>2, <2>3
    <3>2. ~lagged /\ ~desk.open
      BY <1>2, <1>6
    <3> QED BY <1>2, <2>2, <3>1, <3>2, UncancelledFits
  <2>4. CASE d.approved
    <3>1. Fitting(taken)
      BY <1>5, <2>1, <2>4 DEF Fitting, IsWork, Bounded, Resting
    <3>2. working' = taken
      BY <1>2, <2>4
    <3>3. Fitting(working)'
      BY <1>2, <3>1, <3>2, ZenonT(40) DEF Fitting, IsWork, Bounded, Resting, CapRules
    <3> QED BY <1>5, <2>2, <3>2, <3>3
  <2> QED BY <2>3, <2>4
<1> QED BY <1>2, <1>3, <1>4, <1>6 DEF CapInv

LEMMA CapStep == CapInv /\ [DayNext]_dayVars => CapInv'
<1> SUFFICES ASSUME CapInv, [DayNext]_dayVars PROVE CapInv'
  OBVIOUS
<1>1. DeskTypeOK /\ DeskTypeOK' /\ rules' = rules /\ desk' = desk
  BY DeskTyped DEF CapInv
<1>2. CASE VenueFill
  BY <1>1, <1>2, FillCapped
<1>3. CASE Signal
  BY <1>1, <1>3, SignalCapped
<1>4. CASE OMSWorks
  BY <1>1, <1>4, WorkCapped
<1>5. CASE UNCHANGED <<traded, verdictQ, lagged>> /\ (working' = working \/ working' = Uncancelled(working))
  <2>2. TradedTyped' /\ \E S : verdictQ' \in Seq(S)
    BY <1>5 DEF CapInv, TradedTyped
  <2>3. \A k : Fitting(verdictQ[k]) => Fitting(verdictQ[k])'
    BY <1>1, <1>5, ZenonT(40) DEF Fitting, Bounded, CapRules, IsWork, Resting
  <2>4. ~lagged /\ ~desk.open =>
          /\ working' = [id |-> working'.id, inst |-> working'.inst, legs |-> working'.legs]
          /\ DOMAIN working'.legs = {} \/ Fitting(working)'
    BY <1>1, <1>5, UncancelledFits
  <2> QED BY <1>1, <1>5, <2>2, <2>3, <2>4 DEF CapInv
<1>6. \/ VenueFill \/ Signal \/ OMSWorks
      \/ UNCHANGED <<traded, verdictQ, lagged>> /\ (working' = working \/ working' = Uncancelled(working))
  BY DEF DayNext, Positions, riskVars, RiskFill, RiskOnFill, RiskUpdate, RiskOnUpdate,
         MarketTrade, Analytics, RiskOnAnalytics, Operator, OperatorEngages, OperatorResets,
         OMSHearsAck, OMSHalts, ClockTick, dayVars, history
<1> QED BY <1>2, <1>3, <1>4, <1>5, <1>6

LEMMA CapBegins == DayInit => CapInv
<1> SUFFICES ASSUME DayInit PROVE CapInv
  OBVIOUS
<1>1. DeskTypeOK
  BY DeskOpens
<1>2. /\ working = NoWork /\ verdictQ = << >>
      /\ traded = [i \in Instruments |-> [net |-> 0, cash |-> 0]]
  BY DEF DayInit, RiskInit
<1>3. << >> \in Seq({}) /\ Len(<< >>) = 0
  BY EmptySeq
<1>4. TradedTyped
  BY <1>2 DEF TradedTyped
<1>5. DOMAIN NoWork.legs = {} /\ NoWork = [id |-> NoWork.id, inst |-> NoWork.inst, legs |-> NoWork.legs]
  BY DEF NoWork
<1> QED BY <1>1, <1>2, <1>3, <1>4, <1>5 DEF CapInv

LEMMA CapFollows == CapInv => CapHolds
<1> SUFFICES ASSUME CapInv, ~lagged, ~desk.open, NEW r \in CapRules, NEW i \in Instruments
             PROVE  LET net == traded[i].net
                        w == IF working.inst = i THEN working ELSE NoWork
                    IN  /\ net + Resting(w, "BUY") <= r.maxLong \/ Resting(w, "BUY") = 0
                        /\ net - Resting(w, "SELL") >= -r.maxShort \/ Resting(w, "SELL") = 0
  BY DEF CapHolds
<1> DEFINE w == IF working.inst = i THEN working ELSE NoWork
<1>1. CASE DOMAIN w.legs = {}
  <2>1. \A side : Resting(w, side) = 0
    <3> SUFFICES ASSUME NEW side PROVE Resting(w, side) = 0
      OBVIOUS
    <3>1. {0} \union DOMAIN w.legs = {0}
      BY <1>1
    <3> HIDE DEF w
    <3>2. Max({0}) = 0
      BY DEF Max
    <3>3. 1..0 = {}
      OBVIOUS
    <3> DEFINE on == [j \in 1..Max({0} \union DOMAIN w.legs) |->
                        IF j \in DOMAIN w.legs /\ w.legs[j].side = side THEN w.legs[j].qty ELSE 0]
    <3>4. on = << >>
      <4>1. 1..Max({0} \union DOMAIN w.legs) = 1..0
        BY <3>1, <3>2, Zenon
      <4>2. DOMAIN on = 1..0 /\ on = [j \in DOMAIN on |-> on[j]]
        BY <4>1
      <4> HIDE DEF on
      <4>3. on \in [1..0 -> {}]
        BY <3>3, <4>2
      <4>4. on \in Seq({}) /\ Len(on) = 0
        BY <4>3, FunctionSeq
      <4> QED BY <4>4, EmptySeq
    <3>5. Resting(w, side) = SumOf(on)
      BY DEF Resting
    <3> HIDE DEF on
    <3> QED BY <3>4, <3>5, SumEmpty
  <2> QED BY <2>1
<1>2. CASE DOMAIN w.legs # {}
  <2>1. w = working /\ working.inst = i
    BY <1>2 DEF NoWork
  <2>2. Fitting(working)
    BY <1>2, <2>1 DEF CapInv
  <2> QED BY <2>1, <2>2 DEF Fitting, Bounded
<1> QED BY <1>1, <1>2

(* While every verdict is given and worked on the true position, position plus resting orders
   stay within each cap, whatever the other rules clamp (MaxPositionRule.evaluate). *)
THEOREM CapsHold == DaySpec => []CapHolds
BY CapBegins, CapStep, CapFollows, PTL DEF DaySpec

----------------------------------------------------------------------------
(***************************************************************************)
(* The books.  Lots weigh what they cost or how many they are; a fill takes *)
(* its quantity off one end, and what it takes and what it leaves weigh    *)
(* what there was.                                                         *)
(***************************************************************************)

(* A lot may be empty while it is consumed; what a book holds is not. *)
Lots == [qty : Nat, price : Int]
OpenLots == [qty : Nat \ {0}, price : Int]

(* Lots weighed by their prices: with One it is their volume, with Same their cost. *)
Worth(g) == [lot \in Lots |-> lot.qty * g[lot.price]]
Weigh(g, lots) == SumOf(Along(Worth(g), lots))
One  == [x \in Int |-> 1]
Same == [x \in Int |-> x]

LEMMA WorthTyped ==
  ASSUME NEW g \in [Int -> Int]
  PROVE  Worth(g) \in [Lots -> Int] /\ \A lot \in Lots : Worth(g)[lot] = lot.qty * g[lot.price]
<1>1. ASSUME NEW lot \in Lots PROVE lot.qty * g[lot.price] \in Int
  <2>1. lot.qty \in Int /\ g[lot.price] \in Int
    BY DEF Lots
  <2>2. \A a, b \in Int : a * b \in Int
    OBVIOUS
  <2> QED BY <2>1, <2>2
<1> QED BY <1>1 DEF Worth

LEMMA AlongLots ==
  ASSUME NEW f \in [Lots -> Int], NEW lots \in Seq(Lots)
  PROVE  /\ Along(f, lots) \in Seq(Int) /\ Len(Along(f, lots)) = Len(lots)
         /\ \A n \in 1..Len(lots) : Along(f, lots)[n] = f[lots[n]]
BY AlongTyped

LEMMA WeighInt ==
  ASSUME NEW g \in [Int -> Int], NEW lots \in Seq(Lots)
  PROVE  /\ Weigh(g, lots) \in Int
         /\ Along(Worth(g), lots) \in Seq(Int) /\ Len(Along(Worth(g), lots)) = Len(lots) /\ Len(lots) \in Nat
         /\ DOMAIN lots = 1..Len(lots)
         /\ \A k \in 1..Len(lots) : lots[k] \in Lots /\ Along(Worth(g), lots)[k] = lots[k].qty * g[lots[k].price]
<1>2. /\ Along(Worth(g), lots) \in Seq(Int) /\ Len(Along(Worth(g), lots)) = Len(lots)
      /\ Len(lots) \in Nat /\ DOMAIN lots = 1..Len(lots)
      /\ \A n \in 1..Len(lots) : lots[n] \in Lots /\ Along(Worth(g), lots)[n] = Worth(g)[lots[n]]
  <2>1. Len(lots) \in Nat /\ DOMAIN lots = 1..Len(lots) /\ \A n \in 1..Len(lots) : lots[n] \in Lots
    BY LenProperties, ElementOfSeq
  <2>2. Worth(g) \in [Lots -> Int]
    BY WorthTyped
  <2>3. /\ Along(Worth(g), lots) \in Seq(Int) /\ Len(Along(Worth(g), lots)) = Len(lots)
        /\ \A n \in 1..Len(lots) : Along(Worth(g), lots)[n] = Worth(g)[lots[n]]
    BY <2>2, AlongLots, Zenon
  <2> QED BY <2>1, <2>3
<1>3. Weigh(g, lots) \in Int
  BY <1>2, SumInt DEF Weigh
<1> QED BY <1>2, <1>3, WorthTyped

LEMMA WeightsTyped == One \in [Int -> Int] /\ Same \in [Int -> Int]
BY DEF One, Same

LEMMA VolumeIs ==
  ASSUME NEW lots \in Seq(Lots)
  PROVE  /\ Volume(lots) = Weigh(One, lots) /\ Volume(lots) \in Nat
         /\ Sizes(lots) \in Seq(Int) /\ Sizes(lots) \in Seq(Nat) /\ Len(Sizes(lots)) = Len(lots)
         /\ \A k \in 1..Len(lots) : Sizes(lots)[k] = lots[k].qty
<1> DEFINE a == Along(Worth(One), lots)
           s == Sizes(lots)
<1>1. /\ a \in Seq(Int) /\ Len(a) = Len(lots) /\ Len(lots) \in Nat /\ DOMAIN lots = 1..Len(lots)
      /\ \A k \in 1..Len(lots) : lots[k] \in Lots /\ a[k] = lots[k].qty * One[lots[k].price]
  BY WeightsTyped, WeighInt
<1>2. s \in [1..Len(lots) -> Nat] /\ \A k \in 1..Len(lots) : s[k] = lots[k].qty
  BY <1>1 DEF Sizes, Lots
<1>3. s \in Seq(Nat) /\ Len(s) = Len(lots)
  BY <1>1, <1>2, FunctionSeq
<1>4. s \in Seq(Int)
  BY <1>3, QueueGrows
<1>5. \A k \in 1..Len(lots) : a[k] = s[k]
  <2> SUFFICES ASSUME NEW k \in 1..Len(lots) PROVE a[k] = s[k]
    OBVIOUS
  <2>1. lots[k].qty \in Int /\ One[lots[k].price] = 1
    BY <1>1 DEF Lots, One
  <2>2. \A x \in Int : x * 1 = x
    OBVIOUS
  <2> QED BY <1>1, <1>2, <2>1, <2>2
<1> HIDE DEF a, s
<1>6. a = s
  BY <1>1, <1>3, <1>4, <1>5, SeqEqual
<1>7. SumOf(s) >= 0 /\ SumOf(s) \in Int
  <2>1. \A k \in 1..Len(s) : s[k] >= 0
    BY <1>2, <1>3
  <2> QED BY <1>4, <2>1, SumAtLeast, SumInt
<1> QED BY <1>2, <1>3, <1>4, <1>6, <1>7 DEF Volume, Weigh, a, s

LEMMA CostIs ==
  ASSUME NEW lots \in Seq(Lots)
  PROVE  Cost(lots) = Weigh(Same, lots) /\ Cost(lots) \in Int
<1> DEFINE a == Along(Worth(Same), lots)
           s == [k \in DOMAIN lots |-> lots[k].qty * lots[k].price]
<1>1. /\ a \in Seq(Int) /\ Len(a) = Len(lots) /\ Len(lots) \in Nat /\ DOMAIN lots = 1..Len(lots)
      /\ \A k \in 1..Len(lots) : lots[k] \in Lots /\ a[k] = lots[k].qty * Same[lots[k].price]
      /\ Weigh(Same, lots) \in Int
  BY WeightsTyped, WeighInt
<1>2. \A k \in 1..Len(lots) : s[k] = a[k] /\ a[k] \in Int
  <2> SUFFICES ASSUME NEW k \in 1..Len(lots) PROVE s[k] = a[k] /\ a[k] \in Int
    OBVIOUS
  <2>1. lots[k].price \in Int /\ Same[lots[k].price] = lots[k].price
    BY <1>1 DEF Lots, Same
  <2>2. s[k] = lots[k].qty * lots[k].price
    BY <1>1
  <2>3. a[k] \in Int
    BY <1>1, ElementOfSeq
  <2> HIDE DEF s, a
  <2> QED BY <1>1, <2>1, <2>2, <2>3
<1>3. DOMAIN s = 1..Len(lots) /\ s = [k \in DOMAIN s |-> s[k]]
  BY <1>1
<1> HIDE DEF a, s
<1>4. s \in [1..Len(lots) -> Int]
  BY <1>2, <1>3
<1>5. s \in Seq(Int) /\ Len(s) = Len(lots)
  BY <1>1, <1>4, FunctionSeq
<1>6. a = s
  BY <1>1, <1>2, <1>5, SeqEqual
<1>7. Cost(lots) = SumOf(s)
  BY DEF Cost, s
<1> QED BY <1>1, <1>6, <1>7 DEF Weigh, a

(* Backwards the lots weigh the same. *)
LEMMA ConsumedWeighs ==
  ASSUME NEW meth, NEW g \in [Int -> Int], NEW A \in SUBSET Lots, NEW lots \in Seq(A)
  PROVE  /\ Consumed(meth, lots) \in Seq(A) /\ Weigh(g, Consumed(meth, lots)) = Weigh(g, lots)
         /\ Consumed(meth, lots) = << >> <=> lots = << >>
<1>0. lots \in Seq(Lots)
  BY QueueGrows
<1>1. /\ Reverse(lots) \in Seq(A) /\ Len(Reverse(lots)) = Len(lots) /\ Len(lots) \in Nat
      /\ \A n \in 1..Len(lots) : Reverse(lots)[n] = lots[Len(lots) - n + 1] /\ Len(lots) - n + 1 \in 1..Len(lots)
  BY ReverseIs
<1>2. Reverse(lots) \in Seq(Lots)
  BY <1>1, QueueGrows
<1> DEFINE a == Along(Worth(g), lots)
           b == Along(Worth(g), Reverse(lots))
<1>3. /\ a \in Seq(Int) /\ Len(a) = Len(lots)
      /\ \A k \in 1..Len(lots) : a[k] = lots[k].qty * g[lots[k].price]
  BY <1>0, WeighInt
<1>4. /\ b \in Seq(Int) /\ Len(b) = Len(lots)
      /\ \A k \in 1..Len(lots) : b[k] = Reverse(lots)[k].qty * g[Reverse(lots)[k].price]
  BY <1>1, <1>2, WeighInt, ZenonT(40)
<1> HIDE DEF a, b
<1>5. /\ Reverse(a) \in Seq(Int) /\ Len(Reverse(a)) = Len(a)
      /\ \A n \in 1..Len(a) : Reverse(a)[n] = a[Len(a) - n + 1]
  BY <1>3, ReverseIs
<1>6. ASSUME NEW n \in 1..Len(lots) PROVE b[n] = Reverse(a)[n]
  <2>1. PICK m \in 1..Len(lots) : m = Len(lots) - n + 1
    BY <1>1
  <2>2. b[n] = Reverse(lots)[n].qty * g[Reverse(lots)[n].price] /\ Reverse(lots)[n] = lots[m]
    BY <1>1, <1>4, <2>1
  <2>3. Reverse(a)[n] = a[m] /\ a[m] = lots[m].qty * g[lots[m].price]
    BY <1>3, <1>5, <2>1
  <2> QED BY <2>2, <2>3
<1>7. b = Reverse(a)
  BY <1>3, <1>4, <1>5, <1>6, SeqEqual
<1>8. SumOf(b) = SumOf(a)
  BY <1>3, <1>7, SumReverse
<1>9. Reverse(lots) = << >> <=> lots = << >>
  BY <1>1, EmptySeq
<1> QED BY <1>1, <1>8, <1>9 DEF Consumed, Weigh, a, b

(* Of a volume, no more is taken than there is. *)
Least(n, m) == IF n <= m THEN n ELSE m

LEMMA WithinIs ==
  ASSUME NEW n \in Nat, NEW b \in Nat, NEW q \in Nat
  PROVE  /\ Within(n - b, q) \in Nat /\ Within(n - b, q) <= q
         /\ Least(n, b) + Within(n - b, q) = Least(n, b + q)
BY DEF Within, Least

LEMMA TakenIs ==
  ASSUME NEW queue \in Seq(Lots), NEW n \in Nat
  PROVE  /\ Taken(queue, n) \in Seq(Lots) /\ Len(Taken(queue, n)) = Len(queue)
         /\ DOMAIN Taken(queue, n) = DOMAIN queue
         /\ \A k \in 1..Len(queue) : /\ Taken(queue, n)[k].price = queue[k].price
                                     /\ Taken(queue, n)[k].qty <= queue[k].qty
         /\ Volume(Taken(queue, n)) = Least(n, Volume(queue))
<1> DEFINE N == Len(queue)
           c == Sums(Sizes(queue))
           z == Sizes(queue)
           t == Taken(queue, n)
           w == Sizes(t)
           d == Sums(w)
           p == [k \in 0..N |-> Least(n, c[k])]
<1>1. /\ N \in Nat /\ DOMAIN queue = 1..N /\ \A k \in 1..N : queue[k] \in Lots
      /\ z \in Seq(Int) /\ z \in Seq(Nat) /\ Len(z) = N /\ \A k \in 1..N : z[k] = queue[k].qty
  BY LenProperties, ElementOfSeq, VolumeIs
<1>2. /\ c[0] = 0 /\ Volume(queue) = c[N]
      /\ \A k \in 0..N : c[k] \in Nat
      /\ \A k \in 1..N : c[k] = c[k - 1] + queue[k].qty /\ queue[k].qty \in Nat
  <2>1. /\ c[0] = 0 /\ Volume(queue) = c[N]
        /\ \A k \in 1..N : c[k] = c[k - 1] + z[k]
    BY <1>1, SumsStep DEF Volume
  <2>2. \A k \in 0..N : c[k] \in Nat
    <3> SUFFICES ASSUME NEW k \in 0..N PROVE c[k] \in Nat
      OBVIOUS
    <3>1. k \in 0..Len(z) /\ k <= k
      BY <1>1
    <3> HIDE DEF z
    <3> QED BY <1>1, <3>1, SumsGrow DEF z
  <2> QED BY <1>1, <2>1, <2>2 DEF Lots
<1>3. t = [k \in 1..N |-> [queue[k] EXCEPT !.qty = Within(n - c[k - 1], queue[k].qty)]]
  BY <1>1 DEF Taken
<1> HIDE DEF c, t, z, N
<1>4. ASSUME NEW k \in 1..N
      PROVE  /\ t[k] \in Lots /\ t[k].price = queue[k].price
             /\ t[k].qty = Within(n - c[k - 1], queue[k].qty)
             /\ t[k].qty <= queue[k].qty /\ t[k].qty \in Nat
             /\ Least(n, c[k - 1]) + t[k].qty = Least(n, c[k])
  <2>1. k - 1 \in 0..N /\ c[k - 1] \in Nat
    BY <1>1, <1>2
  <2>2. /\ Within(n - c[k - 1], queue[k].qty) \in Nat /\ Within(n - c[k - 1], queue[k].qty) <= queue[k].qty
        /\ Least(n, c[k - 1]) + Within(n - c[k - 1], queue[k].qty) = Least(n, c[k - 1] + queue[k].qty)
    BY <1>2, <2>1, WithinIs
  <2>3. t[k] = [queue[k] EXCEPT !.qty = Within(n - c[k - 1], queue[k].qty)]
    BY <1>3
  <2> QED BY <1>1, <1>2, <2>2, <2>3 DEF Lots
<1>5. t \in [1..N -> Lots]
  BY <1>3, <1>4
<1>6. t \in Seq(Lots) /\ Len(t) = N /\ DOMAIN t = 1..N
  BY <1>1, <1>5, FunctionSeq
<1>7. /\ w \in Seq(Int) /\ Len(w) = N /\ \A k \in 1..N : w[k] = t[k].qty
  BY <1>6, VolumeIs
<1> HIDE DEF w
<1>8. /\ d[0] = 0 /\ SumOf(w) = d[N] /\ \A k \in 1..N : d[k] = d[k - 1] + w[k]
  BY <1>7, SumsStep
<1> HIDE DEF d
<1>9. p[0] = 0
  BY <1>1, <1>2 DEF Least
<1>10. ASSUME NEW k \in 1..N, d[k - 1] = p[k - 1] PROVE d[k] = p[k]
  <2>1. k \in 0..N /\ k - 1 \in 0..N
    BY <1>1
  <2>2. p[k] = Least(n, c[k]) /\ p[k - 1] = Least(n, c[k - 1])
    BY <2>1
  <2>3. d[k] = d[k - 1] + t[k].qty
    BY <1>7, <1>8
  <2> HIDE DEF p
  <2> QED BY <1>4, <1>10, <2>2, <2>3
<1>11. p[N] = Least(n, c[N])
  BY <1>1
<1> HIDE DEF p
<1>12. d[N] = p[N]
  BY <1>1, <1>8, <1>9, <1>10, StepsAgree
<1> QED
  BY <1>1, <1>2, <1>4, <1>6, <1>8, <1>11, <1>12 DEF Volume, t, w, N

(* What the lots are when that has been taken from them. *)
Rest(queue, n) == [k \in DOMAIN queue |-> [queue[k] EXCEPT !.qty = queue[k].qty - Taken(queue, n)[k].qty]]

LEMMA LotFields ==
  \A x \in Lots : x.qty \in Nat /\ x.qty \in Int /\ x.price \in Int
BY DEF Lots

LEMMA LotTakenFrom ==
  ASSUME NEW x \in Lots, NEW y \in Lots, y.qty <= x.qty
  PROVE  /\ x.qty - y.qty \in Nat
         /\ [x EXCEPT !.qty = x.qty - y.qty] \in Lots
         /\ [x EXCEPT !.qty = x.qty - y.qty].qty = x.qty - y.qty
         /\ [x EXCEPT !.qty = x.qty - y.qty].price = x.price
<1>1. x.qty \in Nat /\ y.qty \in Nat
  BY LotFields
<1>2. PICK q \in Nat : q = x.qty - y.qty
  BY <1>1
<1> QED BY <1>2 DEF Lots

LEMMA LeftIs ==
  ASSUME NEW queue \in Seq(Lots), NEW n \in Nat, NEW g \in [Int -> Int]
  PROVE  /\ Left(queue, n) \in Seq(OpenLots)
         /\ Weigh(g, Left(queue, n)) + Weigh(g, Taken(queue, n)) = Weigh(g, queue)
<1> DEFINE N == Len(queue)
           t == Taken(queue, n)
           r == Rest(queue, n)
           S == {lot \in ToSet(r) : lot.qty > 0}
<1>1. N \in Nat /\ DOMAIN queue = 1..N /\ \A k \in 1..N : queue[k] \in Lots
  BY LenProperties, ElementOfSeq
<1>2. /\ t \in Seq(Lots) /\ Len(t) = N
      /\ \A k \in 1..N : t[k] \in Lots /\ t[k].price = queue[k].price /\ t[k].qty <= queue[k].qty
  BY TakenIs, ElementOfSeq
<1>3. r = [k \in 1..N |-> [queue[k] EXCEPT !.qty = queue[k].qty - t[k].qty]]
  BY <1>1 DEF Rest
<1> HIDE DEF t, r, N
<1>4. \A k \in 1..N : /\ r[k] \in Lots /\ r[k].price = queue[k].price
                      /\ r[k].qty = queue[k].qty - t[k].qty
  BY <1>1, <1>2, <1>3, LotTakenFrom
<1>5. r \in [1..N -> Lots]
  BY <1>3, <1>4
<1>6. r \in Seq(Lots) /\ Len(r) = N /\ DOMAIN r = 1..N
  BY <1>1, <1>5, FunctionSeq
<1>7. Left(queue, n) = Sifted(r, S)
  BY DEF Left, Rest, r
<1>8. Weigh(g, r) + Weigh(g, t) = Weigh(g, queue)
  <2> DEFINE a == Along(Worth(g), r)
             b == Along(Worth(g), t)
             e == Along(Worth(g), queue)
  <2>1. /\ a \in Seq(Int) /\ Len(a) = N /\ \A k \in 1..N : a[k] = r[k].qty * g[r[k].price]
    BY <1>6, WeighInt
  <2>2. /\ b \in Seq(Int) /\ Len(b) = N /\ \A k \in 1..N : b[k] = t[k].qty * g[t[k].price]
    BY <1>2, WeighInt
  <2>3. /\ e \in Seq(Int) /\ Len(e) = N /\ \A k \in 1..N : e[k] = queue[k].qty * g[queue[k].price]
    BY WeighInt DEF N
  <2> HIDE DEF a, b, e
  <2>4. ASSUME NEW k \in 1..N PROVE e[k] = a[k] + b[k]
    <3>1. PICK x \in Int : x = g[queue[k].price]
      BY <1>1, LotFields
    <3>2. PICK q \in Int : q = queue[k].qty
      BY <1>1, LotFields
    <3>3. PICK y \in Int : y = t[k].qty
      BY <1>2, LotFields
    <3>4. a[k] = (q - y) * x /\ b[k] = y * x /\ e[k] = q * x
      BY <1>2, <1>4, <2>1, <2>2, <2>3, <3>1, <3>2, <3>3
    <3>5. q * x = (q - y) * x + y * x
      OBVIOUS
    <3> QED BY <3>4, <3>5
  <2>5. SumOf(e) = SumOf(a) + SumOf(b)
    BY <2>1, <2>2, <2>3, <2>4, SumPlus, ZenonT(40)
  <2> QED BY <2>5 DEF Weigh, a, b, e
<1>9. Sifted(r, S) \in Seq(OpenLots)
  <2>1. Sifted(r, S) \in Seq({x \in Lots : x \in S})
    BY <1>6, SiftedTyped
  <2>2. {x \in Lots : x \in S} \subseteq OpenLots
    BY SMTT(30) DEF Lots, OpenLots
  <2> HIDE DEF S
  <2> QED BY <2>1, <2>2, QueueGrows
<1>10. Weigh(g, Sifted(r, S)) = Weigh(g, r)
  <2>1. ASSUME NEW k \in 1..Len(r), r[k] \notin S PROVE Worth(g)[r[k]] = 0
    <3>1. r[k] \in Lots /\ r[k] \in ToSet(r)
      BY <1>4, <1>6, <2>1 DEF ToSet
    <3>2. r[k].qty = 0
      <4>1. PICK q \in Nat : q = r[k].qty
        BY <3>1, LotFields
      <4>2. ~(q > 0)
        BY <2>1, <3>1, <4>1
      <4> HIDE DEF S
      <4>3. q = 0
        BY <4>2
      <4> QED BY <4>1, <4>3
    <3>3. Worth(g)[r[k]] = 0 * g[r[k].price] /\ g[r[k].price] \in Int
      BY <3>1, <3>2, WorthTyped, LotFields
    <3> QED BY <3>3, SMTT(30)
  <2>2. Worth(g) \in [Lots -> Int]
    BY WorthTyped
  <2> HIDE DEF S
  <2>3. SumOf(Along(Worth(g), Sifted(r, S))) = SumOf(Along(Worth(g), r))
    BY <1>6, <2>1, <2>2, SumSifted
  <2> QED BY <2>3 DEF Weigh
<1> QED BY <1>7, <1>8, <1>9, <1>10 DEF t

(* A lot book has lots of its side, and none when it has no side. *)
LotBookOK(b) ==
  /\ b = [lots |-> b.lots, side |-> b.side, realized |-> b.realized]
  /\ b.lots \in Seq(OpenLots) /\ b.side \in {-1, 0, 1} /\ b.realized \in Int
  /\ b.side = 0 => b.lots = << >>

(* What the book would be worth if it were closed at a mark. *)
Equity(b, m) == b.realized + b.side * (m * Volume(b.lots) - Cost(b.lots))

LEMMA OpenLotsAre ==
  ASSUME NEW lots \in Seq(OpenLots)
  PROVE  /\ lots \in Seq(Lots) /\ OpenLots \subseteq Lots
         /\ Volume(lots) = Weigh(One, lots) /\ Volume(lots) \in Nat
         /\ Cost(lots) = Weigh(Same, lots) /\ Cost(lots) \in Int
         /\ lots # << >> => Volume(lots) > 0
<1>1. OpenLots \subseteq Lots
  BY DEF OpenLots, Lots
<1>2. lots \in Seq(Lots)
  BY <1>1, QueueGrows
<1>3. lots # << >> => Volume(lots) > 0
  <2> SUFFICES ASSUME lots # << >> PROVE Volume(lots) > 0
    OBVIOUS
  <2> DEFINE s == Sizes(lots)
  <2>1. s \in Seq(Int) /\ Len(s) = Len(lots) /\ \A k \in 1..Len(lots) : s[k] = lots[k].qty
    BY <1>2, VolumeIs
  <2>2. Len(lots) \in Nat \ {0} /\ \A k \in 1..Len(lots) : lots[k] \in OpenLots
    BY EmptySeq, LenProperties, ElementOfSeq
  <2> HIDE DEF s
  <2>3. \A k \in 1..Len(s) : s[k] > 0
    BY <2>1, <2>2 DEF OpenLots
  <2>4. s # << >>
    BY <2>1, <2>2, EmptySeq
  <2>5. SumOf(s) > 0
    BY <2>1, <2>3, <2>4, SumPositive
  <2> QED BY <2>5 DEF Volume, s
<1> QED BY <1>1, <1>2, <1>3, VolumeIs, CostIs

LEMMA NoLotsWeighNothing == Volume(<< >>) = 0 /\ Cost(<< >>) = 0
<1>1. Sizes(<< >>) = << >> /\ [k \in DOMAIN << >> |-> << >>[k].qty * << >>[k].price] = << >>
  BY DEF Sizes
<1> QED BY <1>1, SumEmpty DEF Volume, Cost

LEMMA OneMoreLot ==
  ASSUME NEW lots \in Seq(OpenLots), NEW lot \in OpenLots
  PROVE  /\ Append(lots, lot) \in Seq(OpenLots)
         /\ Volume(Append(lots, lot)) = Volume(lots) + lot.qty
         /\ Cost(Append(lots, lot)) = Cost(lots) + lot.qty * lot.price
<1>1. Append(lots, lot) \in Seq(OpenLots)
  BY AppendProperties
<1>2. lots \in Seq(Lots) /\ lot \in Lots
  BY OpenLotsAre
<1>3. ASSUME NEW g \in [Int -> Int]
      PROVE  Weigh(g, Append(lots, lot)) = Weigh(g, lots) + lot.qty * g[lot.price]
  <2>1. Worth(g) \in [Lots -> Int] /\ Worth(g)[lot] = lot.qty * g[lot.price]
    BY <1>2, WorthTyped
  <2>2. SumOf(Along(Worth(g), Append(lots, lot))) = SumOf(Along(Worth(g), lots)) + Worth(g)[lot]
    BY <1>2, <2>1, AlongAppend
  <2> QED BY <2>1, <2>2 DEF Weigh
<1>4. /\ Weigh(One, Append(lots, lot)) = Weigh(One, lots) + lot.qty * One[lot.price]
      /\ Weigh(Same, Append(lots, lot)) = Weigh(Same, lots) + lot.qty * Same[lot.price]
  BY <1>3, WeightsTyped
<1>5. lot.price \in Int /\ lot.qty \in Int /\ One[lot.price] = 1 /\ Same[lot.price] = lot.price
      /\ lot.qty * 1 = lot.qty
  BY DEF OpenLots, One, Same
<1>6. /\ Volume(lots) = Weigh(One, lots) /\ Cost(lots) = Weigh(Same, lots)
      /\ Volume(Append(lots, lot)) = Weigh(One, Append(lots, lot))
      /\ Cost(Append(lots, lot)) = Weigh(Same, Append(lots, lot))
  BY <1>1, OpenLotsAre
<1> QED BY <1>1, <1>4, <1>5, <1>6

(* What a fill takes from the lots, and what it leaves. *)
LEMMA Closes ==
  ASSUME NEW meth, NEW lots \in Seq(OpenLots), NEW n \in Nat
  PROVE  LET queue == Consumed(meth, lots)
             taken == Taken(queue, n)
             left  == Consumed(meth, Left(queue, n))
         IN  /\ left \in Seq(OpenLots)
             /\ Volume(taken) = Least(n, Volume(lots)) /\ Volume(taken) \in Nat /\ Cost(taken) \in Int
             /\ Volume(left) = Volume(lots) - Volume(taken)
             /\ Cost(left) = Cost(lots) - Cost(taken)
<1> DEFINE queue == Consumed(meth, lots)
           taken == Taken(queue, n)
           rest  == Left(queue, n)
           left  == Consumed(meth, rest)
<1>1. OpenLots \in SUBSET Lots /\ lots \in Seq(Lots)
  BY OpenLotsAre
<1>2. queue \in Seq(OpenLots) /\ queue \in Seq(Lots)
  <2>1. queue \in Seq(OpenLots)
    BY <1>1, WeightsTyped, ConsumedWeighs
  <2> HIDE DEF queue
  <2> QED BY <1>1, <2>1, QueueGrows
<1>3. ASSUME NEW g \in [Int -> Int] PROVE Weigh(g, queue) = Weigh(g, lots)
  BY <1>1, ConsumedWeighs
<1> HIDE DEF queue
<1>4. taken \in Seq(Lots) /\ Volume(taken) = Least(n, Volume(queue))
  BY <1>2, TakenIs
<1>5. rest \in Seq(OpenLots)
  BY <1>2, WeightsTyped, LeftIs
<1>6. ASSUME NEW g \in [Int -> Int] PROVE Weigh(g, rest) + Weigh(g, taken) = Weigh(g, queue)
  BY <1>2, LeftIs
<1> HIDE DEF taken, rest
<1>7. left \in Seq(OpenLots)
  BY <1>1, <1>5, WeightsTyped, ConsumedWeighs
<1>8. ASSUME NEW g \in [Int -> Int] PROVE Weigh(g, left) = Weigh(g, rest)
  BY <1>1, <1>5, ConsumedWeighs
<1> HIDE DEF left
<1>9. ASSUME NEW g \in [Int -> Int]
      PROVE  /\ Weigh(g, left) = Weigh(g, lots) - Weigh(g, taken)
             /\ Weigh(g, queue) = Weigh(g, lots)
  <2>1. Weigh(g, left) \in Int /\ Weigh(g, lots) \in Int /\ Weigh(g, taken) \in Int
    <3>1. left \in Seq(Lots)
      BY <1>7, OpenLotsAre
    <3> QED BY <1>1, <1>4, <3>1, WeighInt
  <2>2. Weigh(g, left) + Weigh(g, taken) = Weigh(g, lots)
    BY <1>3, <1>6, <1>8
  <2> QED BY <1>3, <2>1, <2>2, SMTT(30)
<1>10. /\ Weigh(One, left) = Weigh(One, lots) - Weigh(One, taken)
       /\ Weigh(One, queue) = Weigh(One, lots)
       /\ Weigh(Same, left) = Weigh(Same, lots) - Weigh(Same, taken)
  BY <1>9, WeightsTyped
<1>11. /\ Volume(left) = Weigh(One, left) /\ Cost(left) = Weigh(Same, left)
       /\ Volume(lots) = Weigh(One, lots) /\ Cost(lots) = Weigh(Same, lots)
       /\ Volume(queue) = Weigh(One, queue)
  BY <1>2, <1>7, OpenLotsAre
<1>12. /\ Volume(taken) = Weigh(One, taken) /\ Cost(taken) = Weigh(Same, taken)
       /\ Volume(taken) \in Nat /\ Cost(taken) \in Int
  BY <1>4, VolumeIs, CostIs
<1>13. /\ left \in Seq(OpenLots)
       /\ Volume(taken) = Least(n, Volume(lots)) /\ Volume(taken) \in Nat /\ Cost(taken) \in Int
       /\ Volume(left) = Volume(lots) - Volume(taken)
       /\ Cost(left) = Cost(lots) - Cost(taken)
  BY <1>4, <1>7, <1>10, <1>11, <1>12
<1> QED BY <1>13 DEF left, rest, taken, queue

(* Polynomials in the mark m, the fill's price p and quantity n, the volume V and cost C. *)
LEMMA Opens ==
  ASSUME NEW r \in Int, NEW fee \in Int, NEW m \in Int, NEW p \in Int, NEW n \in Int,
         NEW V \in Int, NEW C \in Int
  PROVE  /\ (r - fee) + 1 * (m * (V + n) - (C + n * p)) = (r + 1 * (m * V - C)) - fee + 1 * n * (m - p)
         /\ (r - fee) + (-1) * (m * (V + n) - (C + n * p)) = (r + (-1) * (m * V - C)) - fee + (-1) * n * (m - p)
         /\ (r - fee) + 1 * (m * (0 + n) - (0 + n * p)) = (r + 0 * (m * 0 - 0)) - fee + 1 * n * (m - p)
         /\ (r - fee) + (-1) * (m * (0 + n) - (0 + n * p)) = (r + 0 * (m * 0 - 0)) - fee + (-1) * n * (m - p)
OBVIOUS

(* What is left of V and C when the fill closes n of them at cost T. *)
LEMMA ClosesPart ==
  ASSUME NEW r \in Int, NEW fee \in Int, NEW m \in Int, NEW p \in Int, NEW n \in Int,
         NEW V \in Int, NEW C \in Int, NEW T \in Int
  PROVE  /\ (r - fee + (-1) * (p * n - T)) + (-1) * (m * (V - n) - (C - T))
              = (r + (-1) * (m * V - C)) - fee + 1 * n * (m - p)
         /\ (r - fee + 1 * (p * n - T)) + 1 * (m * (V - n) - (C - T))
              = (r + 1 * (m * V - C)) - fee + (-1) * n * (m - p)
OBVIOUS

LEMMA ClosesAll ==
  ASSUME NEW r \in Int, NEW fee \in Int, NEW m \in Int, NEW p \in Int, NEW n \in Int,
         NEW V \in Int, NEW C \in Int
  PROVE  /\ (r - fee + (-1) * (p * V - C)) + 1 * (m * (n - V) - (n - V) * p)
              = (r + (-1) * (m * V - C)) - fee + 1 * n * (m - p)
         /\ (r - fee + 1 * (p * V - C)) + (-1) * (m * (n - V) - (n - V) * p)
              = (r + 1 * (m * V - C)) - fee + (-1) * n * (m - p)
OBVIOUS

LEMMA SignIs == \A s : Sign(s) = IF s = "BUY" THEN 1 ELSE -1
BY DEF Sign

(* A fill changes the position by its signed quantity, and what the book is worth at any
   mark by what the fill is worth there, less the fee. *)
LEMMA LotFillIs ==
  ASSUME NEW meth, NEW b, LotBookOK(b), NEW f \in Fills
  PROVE  LET a == LotFill(meth, b, f)
         IN  /\ LotBookOK(a)
             /\ a.side * Volume(a.lots) = b.side * Volume(b.lots) + Sign(f.side) * f.qty
             /\ \A m \in Int : Equity(a, m) = Equity(b, m) - f.fee + Sign(f.side) * f.qty * (m - f.price)
<1> DEFINE sign   == Sign(f.side)
           lot    == [qty |-> f.qty, price |-> f.price]
           queue  == Consumed(meth, b.lots)
           taken  == Taken(queue, f.qty)
           left   == Consumed(meth, Left(queue, f.qty))
           excess == f.qty - Volume(taken)
           more   == [lot EXCEPT !.qty = excess]
           a      == LotFill(meth, b, f)
           V == Volume(b.lots)
           C == Cost(b.lots)
           T == Volume(taken)
           K == Cost(taken)
           n == f.qty
           p == f.price
           r == b.realized
           fee == f.fee
<1>1. /\ n \in Nat \ {0} /\ p \in Int /\ fee \in Int /\ lot \in OpenLots
      /\ lot.qty = n /\ lot.price = p
  BY DEF Fills, OpenLots
<1>2. /\ b.lots \in Seq(OpenLots) /\ b.side \in {-1, 0, 1} /\ r \in Int
      /\ b.side = 0 => b.lots = << >>
  BY DEF LotBookOK
<1>3. V \in Nat /\ C \in Int
  BY <1>2, OpenLotsAre
<1>4. sign \in {-1, 1}
  BY SignIs
<1>5. /\ left \in Seq(OpenLots) /\ T = Least(n, V) /\ T \in Nat /\ K \in Int
      /\ Volume(left) = V - T /\ Cost(left) = C - K
  BY <1>1, <1>2, Closes, ZenonT(40)
<1>6. more \in OpenLots \/ excess <= 0
  <2>1. more = [qty |-> excess, price |-> p]
    OBVIOUS
  <2>2. excess \in Int
    BY <1>1, <1>5
  <2> HIDE DEF excess
  <2>3. excess > 0 => excess \in Nat \ {0}
    BY <2>2
  <2> QED BY <1>1, <2>1, <2>2, <2>3 DEF OpenLots
<1>7. more.qty = excess /\ more.price = p
  OBVIOUS
<1> HIDE DEF sign, lot, queue, taken, left, V, C, T, K, more, n, p, r, fee
<1>8. CASE b.side \in {0, sign}
  <2> DEFINE lots == Append(b.lots, lot)
  <2>1. a = [lots |-> lots, side |-> sign, realized |-> r - fee]
    BY <1>8 DEF LotFill, sign, lot, r, fee
  <2>2. lots \in Seq(OpenLots) /\ Volume(lots) = V + n /\ Cost(lots) = C + n * p
    BY <1>1, <1>2, OneMoreLot DEF V, C
  <2>3. b.side = 0 => V = 0 /\ C = 0
    BY <1>2, NoLotsWeighNothing DEF V, C
  <2> HIDE DEF lots
  <2>4. a.lots = lots /\ a.side = sign /\ a.realized = r - fee
    BY <2>1
  <2>5. LotBookOK(a)
    <3>1. r - fee \in Int
      BY <1>1, <1>2
    <3> QED BY <1>4, <2>1, <2>2, <2>4, <3>1 DEF LotBookOK
  <2>6. a.side * Volume(a.lots) = b.side * V + sign * n
    <3>1. a.side * Volume(a.lots) = sign * (V + n)
      BY <2>2, <2>4
    <3>2. CASE sign = 1
      BY <1>1, <1>3, <1>8, <2>3, <3>1, <3>2
    <3>3. CASE sign = -1
      BY <1>1, <1>3, <1>8, <2>3, <3>1, <3>3
    <3> QED BY <1>4, <3>2, <3>3
  <2>7. ASSUME NEW m \in Int PROVE Equity(a, m) = Equity(b, m) - fee + sign * n * (m - p)
    <3>1. Equity(a, m) = (r - fee) + sign * (m * (V + n) - (C + n * p))
      BY <2>2, <2>4 DEF Equity
    <3>2. Equity(b, m) = r + b.side * (m * V - C)
      BY DEF Equity, r, V, C
    <3>3. CASE b.side = 0
      <4>1. V = 0 /\ C = 0
        BY <2>3, <3>3
      <4> QED BY <1>1, <1>2, <1>4, <3>1, <3>2, <3>3, <4>1, Opens
    <3>4. CASE b.side = sign
      BY <1>1, <1>2, <1>3, <1>4, <3>1, <3>2, <3>4, Opens
    <3> QED BY <1>8, <3>3, <3>4
  <2> QED BY <2>5, <2>6, <2>7 DEF n, p, V, sign, fee
<1>9. CASE b.side \notin {0, sign} /\ n > V
  <2>1. T = V /\ excess = n - V /\ n - V > 0
    BY <1>1, <1>3, <1>5, <1>9 DEF Least, T, n
  <2>2. left = << >>
    <3>1. Volume(left) = 0
      BY <1>3, <1>5, <2>1
    <3> QED BY <1>5, <3>1, OpenLotsAre
  <2>3. K = C
    <3>1. Cost(left) = 0
      BY <2>2, NoLotsWeighNothing
    <3> QED BY <1>3, <1>5, <3>1
  <2> DEFINE lots == <<more>>
             gain == r - fee + b.side * (p * T - K)
  <2>4. a = [lots |-> lots, side |-> sign, realized |-> gain]
    BY <1>9, <2>1, <2>2 DEF LotFill, sign, lot, r, fee, p, T, K, queue, taken, left, more, n
  <2>5. lots \in Seq(OpenLots) /\ Volume(lots) = n - V /\ Cost(lots) = (n - V) * p
    <3>1. PICK e \in Seq(OpenLots) : e = << >>
      BY EmptySeq
    <3>2. Append(e, more) = lots
      BY <3>1
    <3>3. more \in OpenLots
      <4>1. excess > 0 /\ excess \in Int
        BY <1>1, <1>3, <2>1
      <4> HIDE DEF excess
      <4> QED BY <1>6, <4>1
    <3>4. /\ Append(e, more) \in Seq(OpenLots)
          /\ Volume(Append(e, more)) = Volume(e) + more.qty
          /\ Cost(Append(e, more)) = Cost(e) + more.qty * more.price
      BY <3>3, OneMoreLot
    <3>5. Volume(e) = 0 /\ Cost(e) = 0
      BY <3>1, NoLotsWeighNothing
    <3>6. more.qty = n - V /\ more.price = p /\ more.qty * more.price \in Int
      <4>1. \A x, y \in Int : x * y \in Int
        OBVIOUS
      <4> QED BY <1>1, <1>3, <1>7, <2>1, <4>1 DEF T, n
    <3> HIDE DEF lots
    <3> QED BY <1>1, <1>3, <3>2, <3>4, <3>5, <3>6
  <2> HIDE DEF lots, gain
  <2>6. a.lots = lots /\ a.side = sign /\ a.realized = gain
    BY <2>4
  <2>7. b.side = IF sign = 1 THEN -1 ELSE 1
    BY <1>2, <1>4, <1>9
  <2>8. gain = r - fee + b.side * (p * V - C) /\ gain \in Int
    <3>1. \A x, y \in Int : x * y \in Int
      OBVIOUS
    <3>2. p * V \in Int
      BY <1>1, <1>3, <3>1
    <3>3. b.side * (p * V - C) \in Int
      BY <1>2, <1>3, <3>1, <3>2
    <3> QED BY <1>1, <1>2, <2>1, <2>3, <3>3 DEF gain
  <2>9. LotBookOK(a)
    BY <1>4, <2>4, <2>5, <2>6, <2>8 DEF LotBookOK
  <2>10. a.side * Volume(a.lots) = b.side * V + sign * n
    <3>1. a.side * Volume(a.lots) = sign * (n - V)
      BY <2>5, <2>6
    <3>2. CASE sign = 1
      BY <1>1, <1>3, <2>7, <3>1, <3>2
    <3>3. CASE sign = -1
      BY <1>1, <1>3, <2>7, <3>1, <3>3
    <3> QED BY <1>4, <3>2, <3>3
  <2>11. ASSUME NEW m \in Int PROVE Equity(a, m) = Equity(b, m) - fee + sign * n * (m - p)
    <3>1. Equity(a, m) = (r - fee + b.side * (p * V - C)) + sign * (m * (n - V) - (n - V) * p)
      BY <2>5, <2>6, <2>8 DEF Equity
    <3>2. Equity(b, m) = r + b.side * (m * V - C)
      BY DEF Equity, r, V, C
    <3>3. CASE sign = 1
      <4>1. b.side = -1
        BY <2>7, <3>3
      <4> QED BY <1>1, <1>2, <1>3, <3>1, <3>2, <3>3, <4>1, ClosesAll
    <3>4. CASE sign = -1
      <4>1. b.side = 1
        BY <2>7, <3>4
      <4> QED BY <1>1, <1>2, <1>3, <3>1, <3>2, <3>4, <4>1, ClosesAll
    <3> QED BY <1>4, <3>3, <3>4
  <2> QED BY <2>9, <2>10, <2>11 DEF n, p, V, sign, fee
<1>10. CASE b.side \notin {0, sign} /\ ~(n > V)
  <2>1. T = n /\ excess = 0
    BY <1>1, <1>3, <1>5, <1>10 DEF Least, T, n
  <2> DEFINE gain == r - fee + b.side * (p * T - K)
             side == IF left # << >> THEN b.side ELSE 0
  <2>2. a = [lots |-> left, side |-> side, realized |-> gain]
    BY <1>10, <2>1 DEF LotFill, sign, lot, r, fee, p, T, K, queue, taken, left, more, n
  <2> HIDE DEF gain, side
  <2>3. a.lots = left /\ a.side = side /\ a.realized = gain
    BY <2>2
  <2>4. b.side = IF sign = 1 THEN -1 ELSE 1
    BY <1>2, <1>4, <1>10
  <2>5. gain = r - fee + b.side * (p * n - K) /\ gain \in Int
    <3>1. \A x, y \in Int : x * y \in Int
      OBVIOUS
    <3>2. p * n \in Int
      BY <1>1, <3>1
    <3>3. b.side * (p * n - K) \in Int
      BY <1>2, <1>5, <3>1, <3>2
    <3> QED BY <1>1, <1>2, <2>1, <3>3 DEF gain
  <2>6. side \in {-1, 0, 1} /\ (side = 0 => left = << >>)
    BY <1>2, <1>10 DEF side
  <2>7. LotBookOK(a)
    BY <1>5, <2>2, <2>3, <2>5, <2>6 DEF LotBookOK
  <2>8. side # b.side => side = 0 /\ V - n = 0 /\ C - K = 0
    <3>1. left = << >> => Volume(left) = 0 /\ Cost(left) = 0
      BY NoLotsWeighNothing
    <3> QED BY <1>5, <2>1, <3>1 DEF side
  <2>9. Volume(a.lots) = V - n /\ Cost(a.lots) = C - K
    BY <1>5, <2>1, <2>3
  <2>10. side * (V - n) = b.side * (V - n)
    <3>1. CASE side = b.side
      BY <3>1
    <3>2. CASE side # b.side
      <4>1. side = 0 /\ V - n = 0
        BY <2>8, <3>2
      <4> QED BY <1>2, <4>1
    <3> QED BY <3>1, <3>2
  <2>11. a.side * Volume(a.lots) = b.side * V + sign * n
    <3>1. a.side * Volume(a.lots) = b.side * (V - n)
      BY <2>3, <2>9, <2>10
    <3>2. CASE sign = 1
      BY <1>1, <1>3, <2>4, <3>1, <3>2
    <3>3. CASE sign = -1
      BY <1>1, <1>3, <2>4, <3>1, <3>3
    <3> QED BY <1>4, <3>2, <3>3
  <2>12. ASSUME NEW m \in Int PROVE Equity(a, m) = Equity(b, m) - fee + sign * n * (m - p)
    <3>1. Equity(a, m) = (r - fee + b.side * (p * n - K)) + side * (m * (V - n) - (C - K))
      BY <2>3, <2>5, <2>9 DEF Equity
    <3>2. Equity(b, m) = r + b.side * (m * V - C)
      BY DEF Equity, r, V, C
    <3>3. side * (m * (V - n) - (C - K)) = b.side * (m * (V - n) - (C - K))
      <4>1. CASE side = b.side
        BY <4>1
      <4>2. CASE side # b.side
        <5>1. side = 0 /\ V - n = 0 /\ C - K = 0
          BY <2>8, <4>2
        <5>2. m * 0 - 0 = 0 /\ b.side * 0 = 0
          BY <1>2
        <5> QED BY <5>1, <5>2
      <4> QED BY <4>1, <4>2
    <3>4. CASE sign = 1
      <4>1. b.side = -1
        BY <2>4, <3>4
      <4> QED BY <1>1, <1>2, <1>3, <1>5, <3>1, <3>2, <3>3, <3>4, <4>1, ClosesPart
    <3>5. CASE sign = -1
      <4>1. b.side = 1
        BY <2>4, <3>5
      <4> QED BY <1>1, <1>2, <1>3, <1>5, <3>1, <3>2, <3>3, <3>5, <4>1, ClosesPart
    <3> QED BY <1>4, <3>4, <3>5
  <2> QED BY <2>7, <2>11, <2>12 DEF n, p, V, sign, fee
<1> QED BY <1>8, <1>9, <1>10

(* The weighted-average book keeps the position too. *)
AverageOK(b) ==
  b = [qty |-> b.qty, avg |-> b.avg, realized |-> b.realized] /\ b.qty \in Int

LEMMA AverageFillIs ==
  ASSUME NEW b, AverageOK(b), NEW f \in Fills
  PROVE  LET a == AverageFill(b, f)
         IN  AverageOK(a) /\ a.qty = b.qty + Sign(f.side) * f.qty
<1> DEFINE signed == Sign(f.side) * f.qty
           a == AverageFill(b, f)
<1>1. signed \in Int /\ b.qty \in Int
  BY DEF Fills, Sign, AverageOK
<1>2. b.qty + signed \in Int /\ (b.qty = 0 => b.qty + signed = signed)
  BY <1>1
<1>3. \E avg, realized : a = [qty |-> b.qty + signed, avg |-> avg, realized |-> realized]
  <2>1. CASE b.qty = 0
    BY <1>2, <2>1 DEF AverageFill
  <2>2. CASE b.qty # 0 /\ (b.qty > 0) = (signed > 0)
    BY <2>2 DEF AverageFill
  <2>3. CASE b.qty # 0 /\ (b.qty > 0) # (signed > 0)
    BY <2>3 DEF AverageFill
  <2> QED BY <2>1, <2>2, <2>3
<1> HIDE DEF signed, a
<1>4. AverageOK(a) /\ a.qty = b.qty + signed
  BY <1>2, <1>3 DEF AverageOK
<1> QED BY <1>4 DEF signed, a

----------------------------------------------------------------------------
(***************************************************************************)
(* The positions risk knows.  What was traded is in a book or on its way to *)
(* it; risk and the books count one stream of fills; and the last update on *)
(* its way for an instrument tells what its book holds now.                *)
(***************************************************************************)

(* The book of an instrument, an empty one if it was never traded, and what it holds. *)
Ledger(m, bs, i) == IF i \in DOMAIN bs THEN bs[i] ELSE NewBook(m)
Carried(m, bs, i) == Quantity(m, Ledger(m, bs, i))

BookOK(m, b) == IF m = "WAVG" THEN AverageOK(b) ELSE LotBookOK(b)

(* What the fills of an instrument add up to: in quantity, in number. *)
Acquired(i) == [f \in Fills |-> IF f.inst = i THEN Sign(f.side) * f.qty ELSE 0]
Counted(i) == [f \in Fills |-> IF f.inst = i THEN 1 ELSE 0]
Flow(w, q) == SumOf(Along(w, q))

LEMMA BookAbsorbs ==
  ASSUME NEW m, NEW b, BookOK(m, b), NEW f \in Fills
  PROVE  /\ BookOK(m, BookFill(m, b, f))
         /\ Quantity(m, BookFill(m, b, f)) = Quantity(m, b) + Sign(f.side) * f.qty
         /\ Quantity(m, b) \in Int
<1>1. CASE m = "WAVG"
  <2>1. AverageOK(b) /\ b.qty \in Int
    BY <1>1 DEF BookOK, AverageOK
  <2>2. AverageOK(AverageFill(b, f)) /\ AverageFill(b, f).qty = b.qty + Sign(f.side) * f.qty
    BY <2>1, AverageFillIs
  <2> QED BY <1>1, <2>1, <2>2 DEF BookOK, BookFill, Quantity
<1>2. CASE m # "WAVG"
  <2>1. LotBookOK(b)
    BY <1>2 DEF BookOK
  <2>2. /\ LotBookOK(LotFill(m, b, f))
        /\ LotFill(m, b, f).side * Volume(LotFill(m, b, f).lots)
             = b.side * Volume(b.lots) + Sign(f.side) * f.qty
    BY <2>1, LotFillIs
  <2>3. b.side * Volume(b.lots) \in Int
    <3>1. Volume(b.lots) \in Int /\ b.side \in Int
      BY <2>1, OpenLotsAre DEF LotBookOK
    <3>2. \A x, y \in Int : x * y \in Int
      OBVIOUS
    <3> QED BY <3>1, <3>2
  <2> QED BY <1>2, <2>1, <2>2, <2>3 DEF BookOK, BookFill, Quantity
<1> QED BY <1>1, <1>2

LEMMA NewBookIs ==
  ASSUME NEW m
  PROVE  BookOK(m, NewBook(m)) /\ Quantity(m, NewBook(m)) = 0
<1>1. AverageOK(EmptyAverage) /\ EmptyAverage.qty = 0
  BY DEF AverageOK, EmptyAverage
<1>2. LotBookOK(EmptyLots)
  <2>1. << >> \in Seq(OpenLots)
    BY EmptySeq
  <2> QED BY <2>1 DEF LotBookOK, EmptyLots
<1>3. EmptyLots.side * Volume(EmptyLots.lots) = 0
  BY NoLotsWeighNothing DEF EmptyLots
<1> QED BY <1>1, <1>2, <1>3 DEF BookOK, NewBook, Quantity

LEMMA WeightsOfFills ==
  ASSUME NEW i
  PROVE  /\ Acquired(i) \in [Fills -> Int] /\ Counted(i) \in [Fills -> Nat] /\ Counted(i) \in [Fills -> Int]
         /\ \A f \in Fills : /\ Acquired(i)[f] = IF f.inst = i THEN Sign(f.side) * f.qty ELSE 0
                             /\ Counted(i)[f] = IF f.inst = i THEN 1 ELSE 0
<1>1. \A f \in Fills : Sign(f.side) * f.qty \in Int
  BY SignIs DEF Fills
<1> QED BY <1>1 DEF Acquired, Counted

LEMMA FlowGrows ==
  ASSUME NEW w \in [Fills -> Int], NEW q \in Seq(Fills), NEW f \in Fills
  PROVE  /\ Append(q, f) \in Seq(Fills) /\ Flow(w, Append(q, f)) = Flow(w, q) + w[f]
         /\ Flow(w, q) \in Int /\ w[f] \in Int
BY AlongAppend, AlongInt, AppendProperties DEF Flow

LEMMA FlowMoves ==
  ASSUME NEW w \in [Fills -> Int], NEW q \in Seq(Fills), q # << >>
  PROVE  /\ Head(q) \in Fills /\ Tail(q) \in Seq(Fills) /\ Flow(w, q) = w[Head(q)] + Flow(w, Tail(q))
         /\ Flow(w, q) \in Int /\ Flow(w, Tail(q)) \in Int /\ w[Head(q)] \in Int
<1>1. Head(q) \in Fills /\ Tail(q) \in Seq(Fills)
  BY HeadTailProperties
<1> QED BY <1>1, AlongTail, AlongInt DEF Flow

LEMMA NoFlow ==
  ASSUME NEW w \in [Fills -> Int]
  PROVE  Flow(w, << >>) = 0
<1>1. Along(w, << >>) = << >>
  BY DEF Along
<1> QED BY <1>1, SumEmpty DEF Flow

(* What was traded of an instrument is in its book or on its way there. *)
BooksInv ==
  /\ Configured /\ TradedTyped
  /\ bookQ \in Seq(Fills) /\ DOMAIN books \subseteq Instruments /\ opened \in Seq(DOMAIN books)
  /\ \A i \in Instruments :
       /\ BookOK(method, Ledger(method, books, i))
       /\ traded[i].net = Carried(method, books, i) + Flow(Acquired(i), bookQ)

LEMMA HeldInt ==
  ASSUME NEW m, NEW bs, NEW i, BookOK(m, Ledger(m, bs, i))
  PROVE  Carried(m, bs, i) \in Int
<1> DEFINE b == Ledger(m, bs, i)
<1> HIDE DEF b
<1>1. CASE m = "WAVG"
  BY <1>1 DEF BookOK, AverageOK, Carried, Quantity, b
<1>2. CASE m # "WAVG"
  <2>1. LotBookOK(b)
    BY <1>2 DEF BookOK, b
  <2>2. Volume(b.lots) \in Int /\ b.side \in Int
    BY <2>1, OpenLotsAre DEF LotBookOK
  <2>3. \A x, y \in Int : x * y \in Int
    OBVIOUS
  <2>4. b.side * Volume(b.lots) \in Int
    BY <2>2, <2>3
  <2> QED BY <1>2, <2>4 DEF Carried, Quantity, b
<1> QED BY <1>1, <1>2

(* A fill is published to both queues. *)
LEMMA FillTraded ==
  ASSUME Configured, TradedTyped, VenueFill
  PROVE  \E f \in Fills :
           /\ f \in desk.fills /\ Fill(f)
           /\ bookQ' = Append(bookQ, f) /\ fillQ' = Append(fillQ, f)
           /\ f.inst \in Instruments /\ Sign(f.side) * f.qty \in Int
           /\ UNCHANGED <<method, books, desk, rules, absorbed, updates, lost, handled, overtaken, rs, marks, opened>>
           /\ TradedTyped'
           /\ \A i \in Instruments :
                /\ i # f.inst => traded'[i] = traded[i]
                /\ i = f.inst => /\ traded'[i].net = traded[i].net + Sign(f.side) * f.qty
                                 /\ traded'[i].cash = traded[i].cash - Sign(f.side) * f.qty * f.price - f.fee
<1>1. PICK f \in desk.fills : Fill(f)
  BY DEF VenueFill
<1>2. f \in Fills
  BY DeskAssumption DEF Configured
<1>3. f.inst \in Instruments /\ Sign(f.side) * f.qty \in Int
  BY <1>2, SignIs DEF Fills
<1> DEFINE signed == Sign(f.side) * f.qty
           paid == Sign(f.side) * f.qty * f.price
<1>4. traded' = [traded EXCEPT ![f.inst] = [net |-> traded[f.inst].net + signed,
                                            cash |-> traded[f.inst].cash - paid - f.fee]]
  BY <1>1 DEF Fill
<1>5. signed \in Int
  BY <1>3
<1> HIDE DEF signed, paid
<1>6. traded[f.inst].net + signed \in Int
  BY <1>3, <1>5 DEF TradedTyped
<1>7. /\ TradedTyped'
      /\ \A i \in Instruments :
           /\ i # f.inst => traded'[i] = traded[i]
           /\ i = f.inst => /\ traded'[i].net = traded[i].net + signed
                            /\ traded'[i].cash = traded[i].cash - paid - f.fee
  <2>1. DOMAIN traded = Instruments
    BY DEF TradedTyped
  <2>2. DOMAIN traded' = Instruments
    BY <1>4, <2>1
  <2>3. \A i \in Instruments :
           /\ i # f.inst => traded'[i] = traded[i]
           /\ i = f.inst => traded'[i] = [net |-> traded[f.inst].net + signed,
                                          cash |-> traded[f.inst].cash - paid - f.fee]
    BY <1>4, <2>1
  <2>4. \A i \in Instruments : traded[i] = [net |-> traded[i].net, cash |-> traded[i].cash] /\ traded[i].net \in Int
    BY DEF TradedTyped
  <2>5. \A i \in Instruments :
           traded'[i] = [net |-> traded'[i].net, cash |-> traded'[i].cash] /\ traded'[i].net \in Int
    BY <1>6, <2>3, <2>4
  <2>6. traded' = [i \in Instruments |-> traded'[i]]
    BY <1>4, <2>1, <2>2
  <2>7. traded' = [i \in Instruments |-> [net |-> traded'[i].net, cash |-> traded'[i].cash]]
    BY <2>5, <2>6
  <2> QED BY <2>3, <2>5, <2>7 DEF TradedTyped
<1> QED BY <1>1, <1>2, <1>3, <1>7 DEF Fill, signed, paid

LEMMA FillBooked ==
  ASSUME BooksInv, VenueFill
  PROVE  BooksInv'
<1>1. /\ Configured /\ TradedTyped /\ bookQ \in Seq(Fills) /\ DOMAIN books \subseteq Instruments
      /\ opened \in Seq(DOMAIN books)
      /\ \A i \in Instruments :
           /\ BookOK(method, Ledger(method, books, i))
           /\ traded[i].net = Carried(method, books, i) + Flow(Acquired(i), bookQ)
  BY DEF BooksInv
<1>2. PICK f \in Fills :
           /\ bookQ' = Append(bookQ, f) /\ f.inst \in Instruments /\ Sign(f.side) * f.qty \in Int
           /\ UNCHANGED <<method, books, opened, desk, rules>>
           /\ TradedTyped'
           /\ \A i \in Instruments :
                /\ i # f.inst => traded'[i] = traded[i]
                /\ i = f.inst => traded'[i].net = traded[i].net + Sign(f.side) * f.qty
  BY <1>1, FillTraded
<1>3. Append(bookQ, f) \in Seq(Fills)
  BY <1>1, AppendProperties
<1>4. ASSUME NEW i \in Instruments
      PROVE  /\ BookOK(method', Ledger(method', books', i))
             /\ traded'[i].net = Carried(method', books', i) + Flow(Acquired(i), bookQ')
  <2>1. BookOK(method', Ledger(method', books', i)) /\ Carried(method', books', i) = Carried(method, books, i)
    BY <1>1, <1>2
  <2>2. /\ Flow(Acquired(i), bookQ') = Flow(Acquired(i), bookQ) + Acquired(i)[f]
        /\ Flow(Acquired(i), bookQ) \in Int
        /\ Acquired(i)[f] = IF f.inst = i THEN Sign(f.side) * f.qty ELSE 0
    BY <1>1, <1>2, WeightsOfFills, FlowGrows
  <2>3. Carried(method, books, i) \in Int
    BY <1>1, HeldInt
  <2>4. traded[i].net = Carried(method, books, i) + Flow(Acquired(i), bookQ)
    BY <1>1
  <2>5. CASE i = f.inst
    BY <1>2, <2>1, <2>2, <2>3, <2>4, <2>5
  <2>6. CASE i # f.inst
    BY <1>2, <2>1, <2>2, <2>3, <2>4, <2>6
  <2> QED BY <2>1, <2>5, <2>6
<1>5. Configured' /\ DOMAIN books' \subseteq Instruments /\ bookQ' \in Seq(Fills)
  BY <1>1, <1>2, <1>3 DEF Configured
<1>6. opened' \in Seq(DOMAIN books')
  <2>1. DOMAIN books' = DOMAIN books
    BY <1>2
  <2> QED BY <1>1, <1>2, <2>1
<1> QED BY <1>2, <1>4, <1>5, <1>6 DEF BooksInv

(* The position engine takes a fill. *)
LEMMA FillAbsorbed ==
  ASSUME BooksInv, PositionOnFill
  PROVE  LET f == Head(bookQ)
         IN  /\ bookQ # << >> /\ f \in Fills /\ f.inst \in Instruments
             /\ bookQ' = Tail(bookQ) /\ bookQ' \in Seq(Fills) /\ method' = method /\ marks' = marks
             /\ DOMAIN books' = DOMAIN books \union {f.inst} /\ opened' \in Seq(DOMAIN books')
             /\ \A i \in Instruments :
                  /\ BookOK(method, Ledger(method, books', i))
                  /\ i # f.inst => Ledger(method, books', i) = Ledger(method, books, i)
                  /\ i = f.inst => Ledger(method, books', i) = BookFill(method, Ledger(method, books, i), f)
                  /\ Carried(method, books', i) = Carried(method, books, i) + Acquired(i)[f]
<1> DEFINE f == Head(bookQ)
           j == f.inst
           b == BookFill(method, BookOf(j), f)
<1>1. /\ bookQ # << >> /\ bookQ' = Tail(bookQ) /\ method' = method /\ marks' = marks
      /\ books' = [i \in DOMAIN books \union {j} |-> IF i = j THEN b ELSE books[i]]
      /\ opened' = IF j \in DOMAIN books THEN opened ELSE Append(opened, j)
  BY DEF PositionOnFill
<1>2. f \in Fills /\ Tail(bookQ) \in Seq(Fills)
  BY <1>1, HeadTailProperties DEF BooksInv
<1>3. j \in Instruments
  BY <1>2 DEF Fills
<1>4. b = BookFill(method, Ledger(method, books, j), f)
  BY DEF BookOf, Ledger
<1> HIDE DEF f, j, b
<1>5. \A i : Ledger(method, books', i) = IF i = j THEN b ELSE Ledger(method, books, i)
  BY <1>1 DEF Ledger
<1>6. DOMAIN books' = DOMAIN books \union {j}
  BY <1>1
<1>7. /\ BookOK(method, b)
      /\ Quantity(method, b) = Carried(method, books, j) + Sign(f.side) * f.qty
  <2>1. BookOK(method, Ledger(method, books, j))
    BY <1>3 DEF BooksInv
  <2> QED BY <1>2, <1>4, <2>1, BookAbsorbs DEF Carried
<1>8. ASSUME NEW i \in Instruments
      PROVE  /\ BookOK(method, Ledger(method, books', i))
             /\ Carried(method, books', i) = Carried(method, books, i) + Acquired(i)[f]
  <2>1. BookOK(method, Ledger(method, books, i))
    BY DEF BooksInv
  <2>2. Carried(method, books, i) \in Int
    BY <2>1, HeldInt
  <2>3. Acquired(i)[f] = IF j = i THEN Sign(f.side) * f.qty ELSE 0
    BY <1>2, WeightsOfFills DEF j
  <2>4. CASE i = j
    BY <1>5, <1>7, <2>3, <2>4 DEF Carried
  <2>5. CASE i # j
    <3>1. Carried(method, books', i) = Carried(method, books, i)
      BY <1>5, <2>5 DEF Carried
    <3> QED BY <1>5, <2>1, <2>2, <2>3, <2>5, <3>1
  <2> QED BY <2>4, <2>5
<1>9. opened' \in Seq(DOMAIN books')
  <2>1. PICK D : D = DOMAIN books /\ opened \in Seq(D)
    BY DEF BooksInv
  <2>2. opened \in Seq(D \union {j})
    BY <2>1, QueueGrows
  <2>3. Append(opened, j) \in Seq(D \union {j})
    BY <2>2, AppendProperties
  <2> QED BY <1>1, <1>6, <2>1, <2>2, <2>3
<1> QED BY <1>1, <1>2, <1>3, <1>4, <1>5, <1>6, <1>8, <1>9 DEF f, j

LEMMA FillStillBooked ==
  ASSUME BooksInv, Positions, PositionOnFill
  PROVE  BooksInv'
<1>1. /\ Configured /\ TradedTyped /\ bookQ \in Seq(Fills) /\ DOMAIN books \subseteq Instruments
      /\ opened \in Seq(DOMAIN books)
      /\ \A i \in Instruments :
           /\ BookOK(method, Ledger(method, books, i))
           /\ traded[i].net = Carried(method, books, i) + Flow(Acquired(i), bookQ)
  BY DEF BooksInv
<1>2. PICK f : /\ bookQ # << >> /\ f = Head(bookQ) /\ f \in Fills /\ f.inst \in Instruments
      /\ bookQ' = Tail(bookQ) /\ bookQ' \in Seq(Fills) /\ method' = method
      /\ DOMAIN books' = DOMAIN books \union {f.inst} /\ opened' \in Seq(DOMAIN books')
      /\ \A i \in Instruments :
           /\ BookOK(method, Ledger(method, books', i))
           /\ Carried(method, books', i) = Carried(method, books, i) + Acquired(i)[f]
  BY FillAbsorbed
<1>3. UNCHANGED <<desk, rules, traded>>
  BY DEF Positions, riskVars
<1>4. ASSUME NEW i \in Instruments
      PROVE  traded'[i].net = Carried(method', books', i) + Flow(Acquired(i), bookQ')
  <2>1. /\ Flow(Acquired(i), bookQ) = Acquired(i)[f] + Flow(Acquired(i), Tail(bookQ))
        /\ Flow(Acquired(i), Tail(bookQ)) \in Int /\ Acquired(i)[f] \in Int
    BY <1>1, <1>2, WeightsOfFills, FlowMoves
  <2>2. Carried(method, books, i) \in Int
    BY <1>1, HeldInt
  <2>3. Carried(method', books', i) = Carried(method, books, i) + Acquired(i)[f]
    BY <1>2
  <2>4. traded[i].net = Carried(method, books, i) + Flow(Acquired(i), bookQ)
    BY <1>1
  <2> QED BY <1>2, <1>3, <2>1, <2>2, <2>3, <2>4
<1>5. Configured' /\ TradedTyped'
  BY <1>1, <1>2, <1>3 DEF Configured, TradedTyped
<1>6. DOMAIN books' \subseteq Instruments
  BY <1>1, <1>2
<1> QED BY <1>2, <1>4, <1>5, <1>6 DEF BooksInv

LEMMA OthersKeepBooks ==
  ASSUME [DayNext]_dayVars
  PROVE  \/ VenueFill
         \/ Positions /\ PositionOnFill
         \/ UNCHANGED <<desk, rules, method, books, bookQ, traded, absorbed, opened>>
BY DEF DayNext, Positions, PositionOnTick, MarkToMarketAll, posVars, Signal, RiskOnSignal, RiskFill, RiskOnFill,
       RiskUpdate, RiskOnUpdate, MarketTrade, Analytics, RiskOnAnalytics, Operator, OperatorEngages,
       OperatorResets, OMSHearsAck, OMSWorks, OMSHalts, ClockTick, dayVars, riskVars

LEMMA BooksStep == BooksInv /\ [DayNext]_dayVars => BooksInv'
<1> SUFFICES ASSUME BooksInv, [DayNext]_dayVars PROVE BooksInv'
  OBVIOUS
<1>1. CASE UNCHANGED <<desk, rules, method, books, opened, bookQ, traded>>
  BY <1>1 DEF BooksInv, Configured, TradedTyped
<1> QED BY <1>1, FillBooked, FillStillBooked, OthersKeepBooks

LEMMA BooksBegin == DayInit => BooksInv
<1> SUFFICES ASSUME DayInit PROVE BooksInv
  OBVIOUS
<1>1. Configured /\ TradedTyped
  BY DeskOpens, CapBegins DEF DeskTypeOK, CapInv
<1>2. bookQ = << >> /\ opened = << >> /\ books = << >> /\ traded = [i \in Instruments |-> [net |-> 0, cash |-> 0]]
  BY DEF DayInit, PosInit
<1>3. bookQ \in Seq(Fills) /\ DOMAIN books = {} /\ opened \in Seq(DOMAIN books)
  BY <1>2, EmptySeq
<1>4. ASSUME NEW i \in Instruments
      PROVE  /\ BookOK(method, Ledger(method, books, i))
             /\ traded[i].net = Carried(method, books, i) + Flow(Acquired(i), bookQ)
  <2>1. Ledger(method, books, i) = NewBook(method)
    BY <1>3 DEF Ledger
  <2>2. Flow(Acquired(i), << >>) = 0
    BY WeightsOfFills, NoFlow
  <2>3. traded[i].net = 0
    BY <1>2
  <2> QED BY <1>2, <2>1, <2>2, <2>3, NewBookIs DEF Carried
<1> QED BY <1>1, <1>3, <1>4 DEF BooksInv

(* An update tells of an instrument and its quantity. *)
Reports(S) == \A u \in S : u.inst \in Instruments /\ u.qty \in Int
Awaited(q, i) == \E k \in 1..Len(q) : q[k].inst = i
LastOfItsKind(q, k) == \A n \in 1..Len(q) : n > k => q[n].inst # q[k].inst

(* The last update on its way for an instrument tells what its book holds now. *)
Telling(u, a, m, bs) == u.qty = Carried(m, bs, u.inst) /\ u.absorbed = a[u.inst]
Current(q, a, m, bs) == \A k \in 1..Len(q) : LastOfItsKind(q, k) => Telling(q[k], a, m, bs)

LEMMA CurrentGrows ==
  ASSUME NEW S, NEW q \in Seq(S), NEW e \in Seq(S), NEW a, NEW b, NEW m, NEW bs, NEW bt,
         Current(q, a, m, bs), \A k \in 1..Len(e) : Telling(e[k], b, m, bt),
         \A k \in 1..Len(q) : ~Awaited(e, q[k].inst) =>
           Carried(m, bt, q[k].inst) = Carried(m, bs, q[k].inst) /\ b[q[k].inst] = a[q[k].inst]
  PROVE  /\ Current(q \o e, b, m, bt)
         /\ \A i : ~Awaited(q \o e, i) => ~Awaited(q, i) /\ ~Awaited(e, i)
<1> DEFINE r == q \o e
<1>1. /\ Len(r) = Len(q) + Len(e) /\ Len(q) \in Nat /\ Len(e) \in Nat
      /\ \A k \in 1..Len(q) : r[k] = q[k] /\ k \in 1..Len(r)
      /\ \A k \in 1..Len(e) : r[Len(q) + k] = e[k] /\ Len(q) + k \in 1..Len(r)
      /\ \A k \in 1..Len(r) : k \in 1..Len(q) \/ (k - Len(q) \in 1..Len(e) /\ r[k] = e[k - Len(q)])
  <2>1. Len(q) \in Nat /\ Len(e) \in Nat
    BY LenProperties
  <2>2. /\ Len(r) = Len(q) + Len(e)
        /\ \A i \in 1..(Len(q) + Len(e)) : r[i] = IF i <= Len(q) THEN q[i] ELSE e[i - Len(q)]
    BY ConcatProperties
  <2> HIDE DEF r
  <2>3. ASSUME NEW k \in 1..Len(q) PROVE r[k] = q[k] /\ k \in 1..Len(r)
    BY <2>1, <2>2
  <2>4. ASSUME NEW k \in 1..Len(e) PROVE r[Len(q) + k] = e[k] /\ Len(q) + k \in 1..Len(r)
    <3>1. Len(q) + k \in 1..(Len(q) + Len(e)) /\ ~(Len(q) + k <= Len(q)) /\ (Len(q) + k) - Len(q) = k
      BY <2>1
    <3> QED BY <2>2, <3>1
  <2>5. ASSUME NEW k \in 1..Len(r) PROVE k \in 1..Len(q) \/ (k - Len(q) \in 1..Len(e) /\ r[k] = e[k - Len(q)])
    BY <2>1, <2>2
  <2> QED BY <2>1, <2>2, <2>3, <2>4, <2>5
<1> HIDE DEF r
<1>2. ASSUME NEW k \in 1..Len(r), LastOfItsKind(r, k) PROVE Telling(r[k], b, m, bt)
  <2>1. CASE k - Len(q) \in 1..Len(e) /\ r[k] = e[k - Len(q)]
    BY <2>1
  <2>2. CASE k \in 1..Len(q)
    <3>1. r[k] = q[k]
      BY <1>1, <2>2
    <3>2. ASSUME NEW n \in 1..Len(q), n > k PROVE q[n].inst # q[k].inst
      <4>1. n \in 1..Len(r) /\ r[n] = q[n]
        BY <1>1
      <4> QED BY <1>2, <3>1, <3>2, <4>1 DEF LastOfItsKind
    <3>3. ASSUME NEW n \in 1..Len(e) PROVE e[n].inst # q[k].inst
      <4>1. Len(q) + n \in 1..Len(r) /\ r[Len(q) + n] = e[n] /\ Len(q) + n > k
        BY <1>1, <2>2
      <4> QED BY <1>2, <3>1, <4>1 DEF LastOfItsKind
    <3>4. Telling(q[k], a, m, bs)
      BY <2>2, <3>2 DEF Current, LastOfItsKind
    <3>5. ~Awaited(e, q[k].inst)
      BY <3>3 DEF Awaited
    <3> QED BY <2>2, <3>1, <3>4, <3>5 DEF Telling
  <2> QED BY <1>1, <2>1, <2>2
<1>3. ASSUME NEW i, ~Awaited(r, i) PROVE ~Awaited(q, i) /\ ~Awaited(e, i)
  <2>1. ASSUME NEW n \in 1..Len(q) PROVE q[n].inst # i
    <3>1. n \in 1..Len(r) /\ r[n] = q[n]
      BY <1>1
    <3> QED BY <1>3, <3>1 DEF Awaited
  <2>2. ASSUME NEW n \in 1..Len(e) PROVE e[n].inst # i
    <3>1. Len(q) + n \in 1..Len(r) /\ r[Len(q) + n] = e[n]
      BY <1>1
    <3> QED BY <1>3, <3>1 DEF Awaited
  <2> QED BY <2>1, <2>2 DEF Awaited
<1> QED BY <1>2, <1>3 DEF Current, r

(* The first update goes. *)
LEMMA CurrentMoves ==
  ASSUME NEW S, NEW q \in Seq(S), q # << >>, NEW a, NEW m, NEW bs, Current(q, a, m, bs)
  PROVE  /\ Current(Tail(q), a, m, bs)
         /\ \A i : ~Awaited(Tail(q), i) =>
              (i = Head(q).inst /\ Telling(Head(q), a, m, bs)) \/ (i # Head(q).inst /\ ~Awaited(q, i))
<1> DEFINE r == Tail(q)
<1>1. /\ Len(q) \in Nat \ {0} /\ Len(r) = Len(q) - 1 /\ Head(q) = q[1]
      /\ \A k \in 1..Len(r) : r[k] = q[k + 1]
  BY EmptySeq, LenProperties, HeadTailProperties
<1> HIDE DEF r
<1>2. ASSUME NEW k \in 1..Len(r), LastOfItsKind(r, k) PROVE Telling(r[k], a, m, bs)
  <2>1. k + 1 \in 1..Len(q) /\ r[k] = q[k + 1]
    BY <1>1
  <2>2. ASSUME NEW n \in 1..Len(q), n > k + 1 PROVE q[n].inst # q[k + 1].inst
    <3>1. n - 1 \in 1..Len(r) /\ n - 1 > k /\ (n - 1) + 1 = n
      BY <1>1, <2>2
    <3>2. r[n - 1] = q[n]
      BY <1>1, <3>1
    <3> QED BY <1>2, <2>1, <3>1, <3>2 DEF LastOfItsKind
  <2> QED BY <2>1, <2>2 DEF Current, LastOfItsKind
<1>3. ASSUME NEW i, ~Awaited(r, i)
      PROVE (i = q[1].inst /\ Telling(q[1], a, m, bs)) \/ (i # q[1].inst /\ ~Awaited(q, i))
  <2>1. ASSUME NEW n \in 1..Len(q), n > 1 PROVE q[n].inst # i
    <3>1. n - 1 \in 1..Len(r) /\ (n - 1) + 1 = n
      BY <1>1, <2>1
    <3>2. r[n - 1] = q[n]
      BY <1>1, <3>1
    <3> QED BY <1>3, <3>1, <3>2 DEF Awaited
  <2>2. 1 \in 1..Len(q)
    BY <1>1
  <2>3. CASE i = q[1].inst
    <3>1. LastOfItsKind(q, 1)
      BY <2>1, <2>3 DEF LastOfItsKind
    <3> QED BY <2>2, <2>3, <3>1 DEF Current
  <2>4. CASE i # q[1].inst
    <3>1. \A n \in 1..Len(q) : n = 1 \/ n > 1
      BY <1>1
    <3> QED BY <2>1, <2>4, <3>1 DEF Awaited
  <2> QED BY <2>3, <2>4
<1> QED BY <1>1, <1>2, <1>3 DEF Current, r

(* Backpressure may drop one of the updates published: what is left are such updates. *)
LEMMA StillReports ==
  ASSUME NEW S, Reports(S), NEW q \in Seq(S), NEW T, Reports(T), NEW e \in Seq(T), NEW k \in DOMAIN e
  PROVE  /\ Reports(S \union T) /\ q \in Seq(S \union T) /\ e \in Seq(S \union T)
         /\ q \o e \in Seq(S \union T) /\ q \o RemoveAt(e, k) \in Seq(S \union T)
<1> DEFINE U == S \union T
<1>1. q \in Seq(U) /\ e \in Seq(U)
  BY QueueGrows
<1>2. Reports(U)
  BY DEF Reports
<1> HIDE DEF U
<1>3. Len(e) \in Nat /\ DOMAIN e = 1..Len(e) /\ \A n \in 1..Len(e) : e[n] \in U
  BY <1>1, LenProperties, ElementOfSeq
<1>4. SubSeq(e, 1, k - 1) \in Seq(U) /\ SubSeq(e, k + 1, Len(e)) \in Seq(U)
  <2>1. k \in Int /\ k \in 1..Len(e)
    BY <1>3
  <2>2. (\A n \in 1..(k - 1) : e[n] \in U) /\ (\A n \in (k + 1)..Len(e) : e[n] \in U)
    BY <1>3, <2>1
  <2> QED BY <1>3, <2>1, <2>2, SubSeqProperties
<1>5. RemoveAt(e, k) \in Seq(U)
  BY <1>4, ConcatProperties DEF RemoveAt
<1> QED BY <1>1, <1>2, <1>5, ConcatProperties DEF U

LEMMA OneReport ==
  ASSUME NEW u, u.inst \in Instruments, u.qty \in Int
  PROVE  Reports({u}) /\ <<u>> \in Seq({u}) /\ Len(<<u>>) = 1 /\ <<u>>[1] = u
BY DEF Reports

(* Fills absorbed by the book or handled by risk: both counts come from one stream.
   Risk is behind the books or ahead of them, and unless an update was lost or came
   before a fill it covers, what risk does not know yet it will be told. *)
Tallied ==
  /\ absorbed \in [Instruments -> Nat] /\ handled \in [Instruments -> Nat] /\ lost \in Nat
  /\ fillQ \in Seq(Fills)
  /\ \A i \in Instruments :
       absorbed[i] + Flow(Counted(i), bookQ) = handled[i] + Flow(Counted(i), fillQ)

Told(q, i, a, h, held, pos) ==
  ~Awaited(q, i) => (a > 0 => h >= a) /\ (h = a => pos = held)

KnownInv ==
  /\ BooksInv /\ DeskTypeOK /\ Tallied
  /\ rs.pos \in [Instruments -> Int]
  /\ \E S : Reports(S) /\ updates \in Seq(S)
  /\ lost = 0 /\ ~overtaken =>
       /\ Current(updates, absorbed, method, books)
       /\ \A i \in Instruments :
            Told(updates, i, absorbed[i], handled[i], Carried(method, books, i), rs.pos[i])

LEMMA KnownParts ==
  ASSUME KnownInv
  PROVE  /\ BooksInv /\ DeskTypeOK /\ Configured /\ Tallied
         /\ absorbed \in [Instruments -> Nat] /\ handled \in [Instruments -> Nat] /\ lost \in Nat
         /\ bookQ \in Seq(Fills) /\ fillQ \in Seq(Fills)
         /\ rs.pos \in [Instruments -> Int] /\ IsRiskState(rs)
         /\ \A i \in Instruments : Carried(method, books, i) \in Int
BY HeldInt DEF KnownInv, BooksInv, Tallied, DeskTypeOK

LEMMA KnownFollows == KnownInv => RiskKnowsPositions
<1> SUFFICES ASSUME KnownInv, bookQ = << >>, fillQ = << >>, updates = << >>, ~overtaken, lost = 0,
                    NEW i \in Instruments
             PROVE  rs.pos[i] = traded[i].net
  BY DEF RiskKnowsPositions, Settled
<1>1. Flow(Counted(i), << >>) = 0 /\ Flow(Acquired(i), << >>) = 0
  BY WeightsOfFills, NoFlow
<1>2. absorbed[i] = handled[i]
  BY <1>1, KnownParts DEF Tallied
<1>3. traded[i].net = Carried(method, books, i)
  BY <1>1, KnownParts DEF BooksInv
<1>4. ~Awaited(updates, i)
  BY EmptySeq DEF Awaited
<1> QED BY <1>2, <1>3, <1>4 DEF KnownInv, Told

(* A fill is published to both. *)
LEMMA FillTallied ==
  ASSUME KnownInv, VenueFill, DeskTypeOK', BooksInv'
  PROVE  KnownInv'
<1>1. PICK f \in Fills :
           /\ bookQ' = Append(bookQ, f) /\ fillQ' = Append(fillQ, f)
           /\ UNCHANGED <<method, books, absorbed, updates, lost, handled, overtaken, rs>>
  BY KnownParts, FillTraded DEF BooksInv
<1>2. ASSUME NEW i \in Instruments
      PROVE  absorbed'[i] + Flow(Counted(i), bookQ') = handled'[i] + Flow(Counted(i), fillQ')
  <2>1. /\ Flow(Counted(i), bookQ') = Flow(Counted(i), bookQ) + Counted(i)[f]
        /\ Flow(Counted(i), fillQ') = Flow(Counted(i), fillQ) + Counted(i)[f]
        /\ Flow(Counted(i), bookQ) \in Int /\ Flow(Counted(i), fillQ) \in Int /\ Counted(i)[f] \in Int
    BY <1>1, KnownParts, WeightsOfFills, FlowGrows
  <2>2. absorbed[i] + Flow(Counted(i), bookQ) = handled[i] + Flow(Counted(i), fillQ)
        /\ absorbed[i] \in Int /\ handled[i] \in Int
    BY KnownParts DEF Tallied
  <2>3. absorbed'[i] = absorbed[i] /\ handled'[i] = handled[i]
    BY <1>1
  <2>4. \A a, x, h, y, c \in Int : a + x = h + y => a + (x + c) = h + (y + c)
    OBVIOUS
  <2> QED BY <2>1, <2>2, <2>3, <2>4
<1>3. fillQ' \in Seq(Fills)
  BY <1>1, KnownParts, AppendProperties
<1>4. Tallied'
  BY <1>1, <1>2, <1>3, KnownParts DEF Tallied
<1> QED BY <1>1, <1>4 DEF KnownInv

(* The position engine tells what its books hold: after a fill, or of all of them. *)
LEMMA Publishes ==
  ASSUME KnownInv, NEW T, Reports(T), NEW e \in Seq(T), PublishUpdates(e),
         UNCHANGED <<method, handled, overtaken, rs>>,
         BooksInv', DeskTypeOK', Tallied',
         \A k \in 1..Len(e) : Telling(e[k], absorbed', method, books'),
         \A i \in Instruments : ~Awaited(e, i) =>
           Carried(method, books', i) = Carried(method, books, i) /\ absorbed'[i] = absorbed[i]
  PROVE  KnownInv'
<1>1. PICK S : Reports(S) /\ updates \in Seq(S)
  BY DEF KnownInv
<1>2. lost \in Nat
  BY KnownParts
<1>3. CASE updates' = updates \o e /\ lost' = lost
  <2>1. /\ Reports(S \union T) /\ updates \in Seq(S \union T) /\ e \in Seq(S \union T)
        /\ updates' \in Seq(S \union T)
    <3>1. CASE e = << >>
      <4>1. Reports(S \union T) /\ updates \in Seq(S \union T)
        BY <1>1, QueueGrows DEF Reports
      <4>2. e \in Seq(S \union T)
        BY QueueGrows
      <4> QED BY <1>3, <4>1, <4>2, ConcatProperties
    <3>2. CASE e # << >>
      <4>1. 1 \in DOMAIN e
        BY <3>2, EmptySeq, LenProperties
      <4> QED BY <1>1, <1>3, <4>1, StillReports
    <3> QED BY <3>1, <3>2
  <2>2. ASSUME lost' = 0, ~overtaken'
        PROVE  /\ Current(updates', absorbed', method', books')
               /\ \A i \in Instruments :
                    Told(updates', i, absorbed'[i], handled'[i], Carried(method', books', i), rs'.pos[i])
    <3>1. /\ Current(updates, absorbed, method, books)
          /\ \A i \in Instruments :
               Told(updates, i, absorbed[i], handled[i], Carried(method, books, i), rs.pos[i])
      BY <1>3, <2>2 DEF KnownInv
    <3>2. /\ Current(updates \o e, absorbed', method, books')
          /\ \A i : ~Awaited(updates \o e, i) => ~Awaited(updates, i) /\ ~Awaited(e, i)
      <4>1. \A k \in 1..Len(updates) : ~Awaited(e, updates[k].inst) =>
              /\ Carried(method, books', updates[k].inst) = Carried(method, books, updates[k].inst)
              /\ absorbed'[updates[k].inst] = absorbed[updates[k].inst]
        <5>1. \A k \in 1..Len(updates) : updates[k].inst \in Instruments
          BY <1>1, ElementOfSeq DEF Reports
        <5> QED BY <5>1
      <4> QED BY <2>1, <3>1, <4>1, CurrentGrows
    <3>3. ASSUME NEW i \in Instruments
          PROVE  Told(updates', i, absorbed'[i], handled'[i], Carried(method', books', i), rs'.pos[i])
      <4> SUFFICES ASSUME ~Awaited(updates', i)
                   PROVE  /\ absorbed'[i] > 0 => handled'[i] >= absorbed'[i]
                          /\ handled'[i] = absorbed'[i] => rs'.pos[i] = Carried(method', books', i)
        BY DEF Told
      <4>1. ~Awaited(updates, i) /\ ~Awaited(e, i)
        BY <1>3, <3>2
      <4>2. Carried(method, books', i) = Carried(method, books, i) /\ absorbed'[i] = absorbed[i]
        BY <4>1
      <4> QED BY <3>1, <4>1, <4>2 DEF Told
    <3> QED BY <1>3, <3>2, <3>3
  <2>3. rs'.pos \in [Instruments -> Int]
    BY KnownParts
  <2> QED BY <2>1, <2>2, <2>3 DEF KnownInv
<1>4. CASE lost' = lost + 1 /\ \E k \in DOMAIN e : updates' = updates \o RemoveAt(e, k)
  <2>1. Reports(S \union T) /\ updates' \in Seq(S \union T)
    <3>1. PICK k \in DOMAIN e : updates' = updates \o RemoveAt(e, k)
      BY <1>4
    <3>2. Reports(S \union T) /\ updates \o RemoveAt(e, k) \in Seq(S \union T)
      BY <1>1, StillReports
    <3> QED BY <3>1, <3>2
  <2>2. rs'.pos \in [Instruments -> Int]
    BY KnownParts
  <2>3. lost' # 0
    BY <1>2, <1>4
  <2> QED BY <2>1, <2>2, <2>3 DEF KnownInv
<1> QED BY <1>3, <1>4 DEF PublishUpdates

(* The position engine takes a fill, and tells of it. *)
LEMMA TakesFill ==
  ASSUME KnownInv, Positions, PositionOnFill, DeskTypeOK', BooksInv'
  PROVE  KnownInv'
<1> DEFINE f == Head(bookQ)
           j == f.inst
           u == UpdateOf(j, BookFill(method, BookOf(j), f),
                         IF marks[j] = NoMark THEN f.price ELSE marks[j], absorbed[j] + 1)
<1>1. /\ bookQ # << >> /\ f \in Fills /\ j \in Instruments
      /\ bookQ' = Tail(bookQ) /\ bookQ' \in Seq(Fills) /\ method' = method
      /\ \A i \in Instruments :
           /\ BookOK(method, Ledger(method, books', i))
           /\ i = j => Ledger(method, books', i) = BookFill(method, Ledger(method, books, i), f)
           /\ i # j => Ledger(method, books', i) = Ledger(method, books, i)
  BY KnownParts, FillAbsorbed
<1>2. /\ PublishUpdates(<<u>>) /\ absorbed' = [absorbed EXCEPT ![j] = absorbed[j] + 1]
      /\ UNCHANGED <<handled, overtaken, rs, fillQ>>
  BY DEF Positions, PositionOnFill, riskVars, history
<1>3. u.inst = j /\ u.qty = Quantity(method, BookFill(method, BookOf(j), f)) /\ u.absorbed = absorbed[j] + 1
  BY DEF UpdateOf
<1>4. BookOf(j) = Ledger(method, books, j)
  BY DEF BookOf, Ledger
<1> HIDE DEF u, f, j
<1>5. absorbed'[j] = absorbed[j] + 1 /\ \A i \in Instruments : i # j => absorbed'[i] = absorbed[i]
  BY <1>1, <1>2, KnownParts
<1>6. u.qty = Carried(method, books', j) /\ u.qty \in Int
  <2>1. u.qty = Carried(method, books', j)
    BY <1>1, <1>3, <1>4 DEF Carried
  <2> QED BY <1>1, <2>1, HeldInt
<1>7. Tallied'
  <2>1. absorbed' \in [Instruments -> Nat]
    BY <1>1, <1>2, KnownParts
  <2>2. ASSUME NEW i \in Instruments
        PROVE  absorbed'[i] + Flow(Counted(i), bookQ') = handled'[i] + Flow(Counted(i), fillQ')
    <3>1. /\ Flow(Counted(i), bookQ) = Counted(i)[f] + Flow(Counted(i), bookQ')
          /\ Flow(Counted(i), bookQ) \in Int /\ Flow(Counted(i), bookQ') \in Int
          /\ Counted(i)[f] = IF j = i THEN 1 ELSE 0
      BY <1>1, KnownParts, WeightsOfFills, FlowMoves DEF f, j
    <3>2. absorbed[i] + Flow(Counted(i), bookQ) = handled[i] + Flow(Counted(i), fillQ)
          /\ absorbed[i] \in Int /\ handled[i] \in Int
      BY KnownParts DEF Tallied
    <3>3. absorbed'[i] = absorbed[i] + Counted(i)[f]
      BY <1>5, <3>1, <3>2
    <3>4. handled'[i] + Flow(Counted(i), fillQ') = handled[i] + Flow(Counted(i), fillQ)
      BY <1>2
    <3>5. Counted(i)[f] \in Int
      BY <3>1
    <3>6. \A a, c, x \in Int : (a + c) + x = a + (c + x)
      OBVIOUS
    <3> QED BY <3>1, <3>2, <3>3, <3>4, <3>5, <3>6
  <2>3. lost' \in Nat
    BY <1>2, KnownParts DEF PublishUpdates
  <2> QED BY <1>1, <1>2, <2>1, <2>2, <2>3, KnownParts DEF Tallied
<1>8. Reports({u}) /\ <<u>> \in Seq({u}) /\ Len(<<u>>) = 1 /\ <<u>>[1] = u
  BY <1>1, <1>3, <1>6, OneReport
<1>9. \A k \in 1..Len(<<u>>) : Telling(<<u>>[k], absorbed', method, books')
  <2>1. Telling(u, absorbed', method, books')
    BY <1>3, <1>5, <1>6 DEF Telling
  <2> QED BY <1>8, <2>1
<1>10. \A i \in Instruments : ~Awaited(<<u>>, i) =>
         Carried(method, books', i) = Carried(method, books, i) /\ absorbed'[i] = absorbed[i]
  <2> SUFFICES ASSUME NEW i \in Instruments, ~Awaited(<<u>>, i)
               PROVE  Carried(method, books', i) = Carried(method, books, i) /\ absorbed'[i] = absorbed[i]
    OBVIOUS
  <2>1. i # j
    BY <1>3, <1>8 DEF Awaited
  <2> QED BY <1>1, <1>5, <2>1 DEF Carried
<1>11. UNCHANGED <<method, handled, overtaken, rs>>
  BY <1>1, <1>2
<1> QED BY <1>2, <1>7, <1>8, <1>9, <1>10, <1>11, Publishes

(* It tells of all its books. *)
LEMMA MarksBooks ==
  ASSUME KnownInv, Positions, MarkToMarketAll, DeskTypeOK', BooksInv'
  PROVE  KnownInv'
<1> DEFINE Said(i) == UpdateOf(i, books[i], marks[i], absorbed[i])
           T == {Said(i) : i \in DOMAIN books}
           e == [k \in DOMAIN Markable |-> Said(Markable[k])]
<1>1. /\ PublishUpdates(e)
      /\ UNCHANGED <<method, books, absorbed, bookQ, handled, overtaken, rs, fillQ>>
  BY DEF Positions, MarkToMarketAll, riskVars, history
<1>2. Markable \in Seq(DOMAIN books)
  <2>1. opened \in Seq(DOMAIN books)
    BY KnownParts DEF BooksInv
  <2>2. Markable \in Seq({x \in DOMAIN books :
                           x \in {i \in DOMAIN books : Quantity(method, books[i]) # 0 /\ marks[i] # NoMark}})
    BY <2>1, SiftedTyped DEF Markable
  <2> QED BY <2>2, QueueGrows
<1>3. Len(Markable) \in Nat /\ DOMAIN Markable = 1..Len(Markable)
      /\ \A k \in 1..Len(Markable) : Markable[k] \in DOMAIN books
  BY <1>2, LenProperties, ElementOfSeq
<1>4. \A i \in DOMAIN books : Telling(Said(i), absorbed', method, books') /\ Said(i).inst \in Instruments
                              /\ Said(i).qty \in Int
  <2> SUFFICES ASSUME NEW i \in DOMAIN books
               PROVE  Telling(Said(i), absorbed', method, books') /\ Said(i).inst \in Instruments
                      /\ Said(i).qty \in Int
    OBVIOUS
  <2>1. Said(i).inst = i /\ Said(i).qty = Quantity(method, books[i]) /\ Said(i).absorbed = absorbed[i]
    BY DEF UpdateOf
  <2>2. i \in Instruments
    BY KnownParts DEF BooksInv
  <2>3. Quantity(method, books[i]) = Carried(method, books, i)
    BY DEF Carried, Ledger
  <2> HIDE DEF Said
  <2> QED BY <1>1, <2>1, <2>2, <2>3, KnownParts DEF Telling
<1> HIDE DEF Said
<1>5. e \in [1..Len(Markable) -> T] /\ \A k \in 1..Len(Markable) : e[k] = Said(Markable[k])
  BY <1>3
<1>6. Reports(T)
  BY <1>4 DEF Reports
<1> HIDE DEF T, e
<1>7. e \in Seq(T) /\ Len(e) = Len(Markable)
  BY <1>3, <1>5, FunctionSeq
<1>8. \A k \in 1..Len(e) : Telling(e[k], absorbed', method, books')
  BY <1>3, <1>4, <1>5, <1>7
<1>9. Tallied'
  <2>1. lost' \in Nat
    BY <1>1, KnownParts DEF PublishUpdates
  <2> QED BY <1>1, <2>1, KnownParts DEF Tallied
<1>10. \A i \in Instruments : Carried(method, books', i) = Carried(method, books, i) /\ absorbed'[i] = absorbed[i]
  BY <1>1
<1> QED BY <1>1, <1>6, <1>7, <1>8, <1>9, <1>10, Publishes

LEMMA PositionsOfRisk ==
  ASSUME IsRiskState(rs)
  PROVE  /\ \A f : WithFill(rs, f).pos = [rs.pos EXCEPT ![f.inst] = rs.pos[f.inst] + (IF f.side = "BUY" THEN f.qty ELSE -f.qty)]
         /\ \A u, t : WithUpdate(rs, u, t).pos = [rs.pos EXCEPT ![u.inst] = u.qty]
         /\ \A i, v : WithVpin(rs, i, v).pos = rs.pos
<1>1. ASSUME NEW f PROVE WithFill(rs, f).pos = [rs.pos EXCEPT ![f.inst] = rs.pos[f.inst] + (IF f.side = "BUY" THEN f.qty ELSE -f.qty)]
  BY DEF WithFill, IsRiskState
<1>2. ASSUME NEW u, NEW t PROVE WithUpdate(rs, u, t).pos = [rs.pos EXCEPT ![u.inst] = u.qty]
  <2> DEFINE Moved(r) == /\ r = [pos |-> r.pos, seen |-> r.seen, realized |-> r.realized, unrealized |-> r.unrealized,
                                 base |-> r.base, day |-> r.day, peak |-> r.peak, recent |-> r.recent,
                                 vpin |-> r.vpin, breach |-> r.breach]
                         /\ r.pos = [rs.pos EXCEPT ![u.inst] = u.qty]
             placed == [rs EXCEPT !.pos[u.inst] = u.qty]
             bucket == IF rs.seen THEN RolledOver(placed, t)
                       ELSE [placed EXCEPT !.seen = TRUE, !.day = DayOf(t)]
             equity == u.realized + u.unrealized
  <2>1. Moved(placed)
    BY DEF IsRiskState
  <2> HIDE DEF placed
  <2>2. Moved(bucket)
    BY <2>1 DEF RolledOver
  <2>3. WithUpdate(rs, u, t) =
          [bucket EXCEPT !.realized = u.realized, !.unrealized = u.unrealized,
                         !.peak = IF bucket.peak = None \/ bucket.peak < equity THEN equity ELSE bucket.peak]
    BY DEF WithUpdate, placed
  <2> HIDE DEF bucket, equity
  <2> QED BY <2>2, <2>3
<1>3. ASSUME NEW i, NEW v PROVE WithVpin(rs, i, v).pos = rs.pos
  BY DEF WithVpin, IsRiskState
<1> QED BY <1>1, <1>2, <1>3

(* Risk takes a fill: it cannot catch up with a book that owes it an update. *)
LEMMA FillHandled ==
  ASSUME KnownInv, RiskFill, DeskTypeOK', BooksInv'
  PROVE  KnownInv'
<1> DEFINE f == Head(fillQ)
           j == f.inst
           n == IF f.side = "BUY" THEN f.qty ELSE -f.qty
<1>1. /\ fillQ # << >> /\ fillQ' = Tail(fillQ) /\ rs' = WithFill(rs, f)
      /\ handled' = [handled EXCEPT ![j] = handled[j] + 1]
      /\ UNCHANGED <<method, books, absorbed, updates, lost, overtaken, bookQ>>
  BY DEF RiskFill, RiskOnFill, posVars
<1>2. f \in Fills /\ Tail(fillQ) \in Seq(Fills)
  BY <1>1, KnownParts, HeadTailProperties
<1>3. j \in Instruments /\ n \in Int
  BY <1>2 DEF Fills
<1>4. rs'.pos = [rs.pos EXCEPT ![j] = rs.pos[j] + n]
  BY <1>1, KnownParts, PositionsOfRisk
<1> HIDE DEF f, n, j
<1>5. rs'.pos \in [Instruments -> Int] /\ \A i \in Instruments : i # j => rs'.pos[i] = rs.pos[i]
  <2>1. rs.pos \in [Instruments -> Int] /\ rs.pos[j] + n \in Int
    BY <1>3, KnownParts
  <2> QED BY <1>3, <1>4, <2>1
<1>6. handled' \in [Instruments -> Nat] /\ handled'[j] = handled[j] + 1
      /\ \A i \in Instruments : i # j => handled'[i] = handled[i]
  BY <1>1, <1>3, KnownParts
<1>7. Tallied'
  <2>1. ASSUME NEW i \in Instruments
        PROVE  absorbed'[i] + Flow(Counted(i), bookQ') = handled'[i] + Flow(Counted(i), fillQ')
    <3>1. /\ Flow(Counted(i), fillQ) = Counted(i)[f] + Flow(Counted(i), fillQ')
          /\ Flow(Counted(i), fillQ) \in Int /\ Flow(Counted(i), fillQ') \in Int
          /\ Counted(i)[f] = IF j = i THEN 1 ELSE 0
      BY <1>1, <1>2, KnownParts, WeightsOfFills, FlowMoves DEF f, j
    <3>2. absorbed[i] + Flow(Counted(i), bookQ) = handled[i] + Flow(Counted(i), fillQ)
          /\ absorbed[i] \in Int /\ handled[i] \in Int
      BY KnownParts DEF Tallied
    <3>3. handled'[i] = handled[i] + Counted(i)[f]
      BY <1>6, <3>1, <3>2
    <3>4. absorbed'[i] + Flow(Counted(i), bookQ') = absorbed[i] + Flow(Counted(i), bookQ)
      BY <1>1
    <3>5. Counted(i)[f] \in Int
      BY <3>1
    <3>6. \A a, c, x \in Int : (a + c) + x = a + (c + x)
      OBVIOUS
    <3> QED BY <3>1, <3>2, <3>3, <3>4, <3>5, <3>6
  <2> QED BY <1>1, <1>2, <1>6, <2>1, KnownParts DEF Tallied
<1>8. ASSUME lost' = 0, ~overtaken'
      PROVE  /\ Current(updates', absorbed', method', books')
             /\ \A i \in Instruments :
                  Told(updates', i, absorbed'[i], handled'[i], Carried(method', books', i), rs'.pos[i])
  <2>1. /\ Current(updates, absorbed, method, books)
        /\ \A i \in Instruments :
             Told(updates, i, absorbed[i], handled[i], Carried(method, books, i), rs.pos[i])
    BY <1>1, <1>8 DEF KnownInv
  <2>2. ASSUME NEW i \in Instruments
        PROVE  Told(updates, i, absorbed[i], handled'[i], Carried(method, books, i), rs'.pos[i])
    <3>1. CASE i # j
      BY <1>5, <1>6, <2>1, <3>1
    <3>2. CASE i = j
      <4>1. absorbed[i] \in Nat /\ handled[i] \in Nat /\ handled'[i] = handled[i] + 1
        BY <1>6, <3>2, KnownParts
      <4> QED BY <2>1, <4>1 DEF Told
    <3> QED BY <3>1, <3>2
  <2> QED BY <1>1, <2>1, <2>2
<1> QED BY <1>1, <1>5, <1>7, <1>8 DEF KnownInv

(* Risk takes an update. *)
LEMMA UpdateHandled ==
  ASSUME KnownInv, RiskUpdate, DeskTypeOK', BooksInv'
  PROVE  KnownInv'
<1> DEFINE u == Head(updates)
           j == u.inst
<1>1. /\ updates # << >> /\ updates' = Tail(updates) /\ rs' = WithUpdate(rs, u, now)
      /\ overtaken' = (overtaken \/ u.absorbed > handled[j])
      /\ UNCHANGED <<method, books, absorbed, lost, handled, bookQ, fillQ>>
  BY DEF RiskUpdate, RiskOnUpdate
<1>2. PICK S : Reports(S) /\ updates \in Seq(S)
  BY DEF KnownInv
<1>3. u \in S /\ Tail(updates) \in Seq(S)
  BY <1>1, <1>2, HeadTailProperties
<1>4. j \in Instruments /\ u.qty \in Int
  BY <1>2, <1>3 DEF Reports
<1>5. rs'.pos = [rs.pos EXCEPT ![j] = u.qty]
  BY <1>1, KnownParts, PositionsOfRisk
<1> HIDE DEF u, j
<1>6. /\ rs'.pos \in [Instruments -> Int] /\ rs'.pos[j] = u.qty
      /\ \A i \in Instruments : i # j => rs'.pos[i] = rs.pos[i]
  BY <1>4, <1>5, KnownParts
<1>7. Tallied'
  BY <1>1, KnownParts DEF Tallied
<1>8. ASSUME lost' = 0, ~overtaken'
      PROVE  /\ Current(updates', absorbed', method', books')
             /\ \A i \in Instruments :
                  Told(updates', i, absorbed'[i], handled'[i], Carried(method', books', i), rs'.pos[i])
  <2>1. /\ Current(updates, absorbed, method, books)
        /\ \A i \in Instruments :
             Told(updates, i, absorbed[i], handled[i], Carried(method, books, i), rs.pos[i])
        /\ ~(u.absorbed > handled[j])
    BY <1>1, <1>8 DEF KnownInv
  <2>2. /\ Current(Tail(updates), absorbed, method, books)
        /\ \A i : ~Awaited(Tail(updates), i) =>
             (i = j /\ Telling(u, absorbed, method, books)) \/ (i # j /\ ~Awaited(updates, i))
    BY <1>1, <1>2, <2>1, CurrentMoves DEF u, j
  <2>3. ASSUME NEW i \in Instruments
        PROVE  Told(Tail(updates), i, absorbed[i], handled[i], Carried(method, books, i), rs'.pos[i])
    <3> SUFFICES ASSUME ~Awaited(Tail(updates), i)
                 PROVE  /\ absorbed[i] > 0 => handled[i] >= absorbed[i]
                        /\ handled[i] = absorbed[i] => rs'.pos[i] = Carried(method, books, i)
      BY DEF Told
    <3>1. CASE i = j
      <4>1. u.qty = Carried(method, books, j) /\ u.absorbed = absorbed[j]
        BY <2>2, <3>1 DEF Telling, j
      <4>2. absorbed[j] \in Nat /\ handled[j] \in Nat
        BY <1>4, KnownParts
      <4> QED BY <1>6, <2>1, <3>1, <4>1, <4>2
    <3>2. CASE i # j
      <4>1. ~Awaited(updates, i)
        BY <2>2, <3>2
      <4>2. Told(updates, i, absorbed[i], handled[i], Carried(method, books, i), rs.pos[i])
        BY <2>1
      <4>3. rs'.pos[i] = rs.pos[i]
        BY <1>6, <3>2
      <4> QED BY <4>1, <4>2, <4>3 DEF Told
    <3> QED BY <3>1, <3>2
  <2> QED BY <1>1, <2>2, <2>3
<1>9. Reports(S) /\ updates' \in Seq(S)
  BY <1>1, <1>2, <1>3
<1> QED BY <1>6, <1>7, <1>8, <1>9 DEF KnownInv

LEMMA KnownKept ==
  ASSUME KnownInv, DeskTypeOK', BooksInv', rs'.pos = rs.pos,
         UNCHANGED <<method, books, absorbed, updates, lost, handled, overtaken, bookQ, fillQ>>
  PROVE  KnownInv'
BY DEF KnownInv, Tallied

LEMMA PositionsKept ==
  ASSUME DeskTypeOK, [DayNext]_dayVars
  PROVE  RiskFill \/ RiskUpdate \/ rs'.pos = rs.pos
<1>1. CASE Signal
  <2>1. WithSignal(rs, now).recent \in Seq(Nat)
    BY Recorded DEF DeskTypeOK, IsRiskState
  <2>2. Trims(now, Seq(Nat))
    BY HistoriesTrim DEF DeskTypeOK
  <2>3. rs' \in Reads(WithSignal(rs, now), now, Seq(Nat))
    BY <1>1, <2>1, <2>2, SignalReads
  <2> QED BY <2>3, ReadsKeep, Recorded DEF DeskTypeOK
<1>2. CASE Analytics
  <2>1. ASSUME NEW i \in Instruments, rs' = WithVpin(rs, i, flow[i].last) PROVE rs'.pos = rs.pos
    BY <2>1, PositionsOfRisk DEF DeskTypeOK
  <2> QED BY <1>2, <2>1 DEF Analytics, RiskOnAnalytics, riskVars
<1>3. RiskFill \/ RiskUpdate \/ Signal \/ Analytics \/ rs' = rs
  BY DEF DayNext, VenueFill, Fill, Positions, MarketTrade, Operator, OperatorEngages, OperatorResets,
         OMSHearsAck, OMSWorks, OMSHalts, ClockTick, dayVars, riskVars
<1> QED BY <1>1, <1>2, <1>3

LEMMA QueuesKept ==
  ASSUME [DayNext]_dayVars
  PROVE  \/ VenueFill \/ RiskFill \/ RiskUpdate
         \/ Positions /\ (PositionOnFill \/ MarkToMarketAll)
         \/ UNCHANGED <<method, books, absorbed, updates, lost, handled, overtaken, bookQ, fillQ>>
BY DEF DayNext, Positions, PositionOnTick, posVars, Signal, RiskOnSignal, MarketTrade, Analytics,
       RiskOnAnalytics, Operator, OperatorEngages, OperatorResets, OMSHearsAck, OMSWorks, OMSHalts, ClockTick,
       dayVars, riskVars, history

LEMMA KnownStep == KnownInv /\ [DayNext]_dayVars => KnownInv'
<1> SUFFICES ASSUME KnownInv, [DayNext]_dayVars PROVE KnownInv'
  OBVIOUS
<1>1. DeskTypeOK' /\ BooksInv'
  BY KnownParts, DeskTyped, BooksStep
<1>2. CASE VenueFill
  BY <1>1, <1>2, FillTallied
<1>3. CASE RiskFill
  BY <1>1, <1>3, FillHandled
<1>4. CASE RiskUpdate
  BY <1>1, <1>4, UpdateHandled
<1>5. CASE Positions /\ (PositionOnFill \/ MarkToMarketAll)
  BY <1>1, <1>5, TakesFill, MarksBooks
<1>6. CASE UNCHANGED <<method, books, absorbed, updates, lost, handled, overtaken, bookQ, fillQ>>
  <2>1. RiskFill \/ RiskUpdate \/ rs'.pos = rs.pos
    BY KnownParts, PositionsKept
  <2> QED BY <1>1, <1>3, <1>4, <1>6, <2>1, KnownKept
<1> QED BY <1>2, <1>3, <1>4, <1>5, <1>6, QueuesKept

LEMMA KnownBegins == DayInit => KnownInv
<1> SUFFICES ASSUME DayInit PROVE KnownInv
  OBVIOUS
<1>1. DeskTypeOK /\ BooksInv
  BY DeskOpens, BooksBegin
<1>2. /\ bookQ = << >> /\ fillQ = << >> /\ updates = << >> /\ lost = 0 /\ books = << >>
      /\ absorbed = [i \in Instruments |-> 0] /\ handled = [i \in Instruments |-> 0]
      /\ rs = FreshRiskState(Instruments)
  BY DEF DayInit, PosInit, RiskInit
<1>3. rs.pos = [i \in Instruments |-> 0]
  BY <1>2 DEF FreshRiskState
<1>4. fillQ \in Seq(Fills) /\ updates \in Seq({}) /\ Len(updates) = 0 /\ Reports({}) /\ DOMAIN books = {}
  BY <1>2, EmptySeq DEF Reports
<1>5. Tallied
  BY <1>2, <1>4 DEF Tallied
<1>6. \A i \in Instruments : Carried(method, books, i) = 0
  BY <1>4, NewBookIs DEF Carried, Ledger
<1>7. Current(updates, absorbed, method, books)
  BY <1>4 DEF Current
<1> QED BY <1>1, <1>2, <1>3, <1>4, <1>5, <1>6, <1>7 DEF KnownInv, Told

(* Whatever the order risk reads the fills (apply_fill) and the updates
   (apply_position_update) in: when everything is handled, risk knows every position,
   unless an update was lost or came before a fill it covers. *)
THEOREM PositionsAreKnown == DaySpec => []RiskKnowsPositions
BY KnownBegins, KnownStep, KnownFollows, PTL DEF DaySpec

----------------------------------------------------------------------------
(***************************************************************************)
(* The equity.  A fill adds to the worth of a book, at every mark, what the *)
(* cash and the position at that mark add up to.                           *)
(***************************************************************************)

(* What a fill on its way will add to the worth of a book, at a mark. *)
Effect(i, m) == [f \in Fills |-> IF f.inst = i THEN Sign(f.side) * f.qty * (m - f.price) - f.fee ELSE 0]

(* What a book would be worth if it were closed, and what is on its way to it, are the
   money that went in and out plus the position at the mark. *)
EquityInv ==
  /\ BooksInv
  /\ marks \in [Instruments -> Int]
  /\ \A i \in Instruments : traded[i].cash \in Int
  /\ method # "WAVG" => \A i \in Instruments : \A m \in Int :
       Equity(Ledger(method, books, i), m) + Flow(Effect(i, m), bookQ) = traded[i].cash + traded[i].net * m

LEMMA EffectTyped ==
  ASSUME NEW i, NEW m \in Int
  PROVE  /\ Effect(i, m) \in [Fills -> Int]
         /\ \A f \in Fills :
              Effect(i, m)[f] = IF f.inst = i THEN Sign(f.side) * f.qty * (m - f.price) - f.fee ELSE 0
<1>1. \A f \in Fills : Sign(f.side) * f.qty * (m - f.price) - f.fee \in Int
  <2> SUFFICES ASSUME NEW f \in Fills PROVE Sign(f.side) * f.qty * (m - f.price) - f.fee \in Int
    OBVIOUS
  <2>1. Sign(f.side) * f.qty \in Int /\ m - f.price \in Int /\ f.fee \in Int
    BY SignIs DEF Fills
  <2>2. \A x, y, z \in Int : x * y - z \in Int
    OBVIOUS
  <2> QED BY <2>1, <2>2
<1> QED BY <1>1 DEF Effect

LEMMA EquityInt ==
  ASSUME NEW b, LotBookOK(b), NEW m \in Int
  PROVE  Equity(b, m) \in Int /\ b.realized \in Int /\ b.side * (m * Volume(b.lots) - Cost(b.lots)) \in Int
<1>1. Volume(b.lots) \in Int /\ Cost(b.lots) \in Int /\ b.side \in Int /\ b.realized \in Int
  BY OpenLotsAre DEF LotBookOK
<1>2. \A x, y \in Int : x * y \in Int
  OBVIOUS
<1>3. m * Volume(b.lots) \in Int
  BY <1>1, <1>2
<1>4. b.side * (m * Volume(b.lots) - Cost(b.lots)) \in Int
  BY <1>1, <1>2, <1>3
<1> QED BY <1>1, <1>4 DEF Equity

(* s is the signed quantity. *)
LEMMA Paid ==
  ASSUME NEW c \in Int, NEW n \in Int, NEW s \in Int, NEW p \in Int, NEW fee \in Int, NEW m \in Int
  PROVE  (c - s * p - fee) + (n + s) * m = (c + n * m) + (s * (m - p) - fee)
OBVIOUS

(* A fill is published. *)
LEMMA FillPaid ==
  ASSUME EquityInv, VenueFill, BooksInv'
  PROVE  EquityInv'
<1>1. PICK f \in Fills :
           /\ bookQ' = Append(bookQ, f)
           /\ f.inst \in Instruments /\ Sign(f.side) * f.qty \in Int
           /\ UNCHANGED <<method, books, marks>>
           /\ \A i \in Instruments :
                /\ i # f.inst => traded'[i] = traded[i]
                /\ i = f.inst => /\ traded'[i].net = traded[i].net + Sign(f.side) * f.qty
                                 /\ traded'[i].cash = traded[i].cash - Sign(f.side) * f.qty * f.price - f.fee
  BY FillTraded DEF EquityInv, BooksInv
<1> DEFINE s == Sign(f.side) * f.qty
<1>2. s \in Int /\ f.price \in Int /\ f.fee \in Int
  BY <1>1 DEF Fills
<1>3. /\ \A i \in Instruments :
           /\ i # f.inst => traded'[i] = traded[i]
           /\ i = f.inst => traded'[i].net = traded[i].net + s /\ traded'[i].cash = traded[i].cash - s * f.price - f.fee
      /\ \A m \in Int, i \in Instruments : Effect(i, m)[f] = IF f.inst = i THEN s * (m - f.price) - f.fee ELSE 0
  BY <1>1, EffectTyped
<1> HIDE DEF s
<1>4. \A i \in Instruments : traded[i].net \in Int /\ traded[i].cash \in Int
  BY DEF EquityInv, BooksInv, TradedTyped
<1>5. \A i \in Instruments : traded'[i].cash \in Int
  <2>1. \A x, y, z, w \in Int : x - y * z - w \in Int
    OBVIOUS
  <2>2. traded[f.inst].cash - s * f.price - f.fee \in Int
    BY <1>1, <1>2, <1>4, <2>1
  <2> QED BY <1>3, <1>4, <2>2
<1>6. ASSUME method' # "WAVG", NEW i \in Instruments, NEW m \in Int
      PROVE  Equity(Ledger(method', books', i), m) + Flow(Effect(i, m), bookQ') = traded'[i].cash + traded'[i].net * m
  <2>1. Equity(Ledger(method, books, i), m) + Flow(Effect(i, m), bookQ) = traded[i].cash + traded[i].net * m
    BY <1>1, <1>6 DEF EquityInv
  <2>2. bookQ \in Seq(Fills) /\ LotBookOK(Ledger(method, books, i))
    BY <1>1, <1>6 DEF EquityInv, BooksInv, BookOK
  <2>3. /\ Flow(Effect(i, m), bookQ') = Flow(Effect(i, m), bookQ) + Effect(i, m)[f]
        /\ Flow(Effect(i, m), bookQ) \in Int /\ Effect(i, m)[f] \in Int
    BY <1>1, <2>2, EffectTyped, FlowGrows
  <2>4. Equity(Ledger(method, books, i), m) \in Int
    BY <2>2, EquityInt
  <2>5. Equity(Ledger(method', books', i), m) = Equity(Ledger(method, books, i), m)
    BY <1>1
  <2>6. CASE i = f.inst
    <3>1. traded'[i].cash + traded'[i].net * m = (traded[i].cash + traded[i].net * m) + (s * (m - f.price) - f.fee)
      <4>1. traded'[i].net = traded[i].net + s /\ traded'[i].cash = traded[i].cash - s * f.price - f.fee
        BY <1>3, <2>6
      <4>2. traded[i].net \in Int /\ traded[i].cash \in Int
        BY <1>4
      <4>3. (traded[i].cash - s * f.price - f.fee) + (traded[i].net + s) * m
              = (traded[i].cash + traded[i].net * m) + (s * (m - f.price) - f.fee)
        BY <1>2, <4>2, Paid
      <4> QED BY <4>1, <4>3
    <3>2. Effect(i, m)[f] = s * (m - f.price) - f.fee
      BY <1>3, <2>6
    <3>3. \A e, x, y : e \in Int /\ x \in Int /\ y \in Int => e + (x + y) = (e + x) + y
      OBVIOUS
    <3> QED BY <2>1, <2>3, <2>4, <2>5, <3>1, <3>2, <3>3
  <2>7. CASE i # f.inst
    <3>1. Effect(i, m)[f] = 0 /\ traded'[i] = traded[i]
      BY <1>3, <2>7
    <3> QED BY <2>1, <2>3, <2>5, <3>1
  <2> QED BY <2>6, <2>7
<1>7. marks' \in [Instruments -> Int]
  BY <1>1 DEF EquityInv
<1> QED BY <1>5, <1>6, <1>7 DEF EquityInv

(* The position engine takes a fill. *)
LEMMA FillWorth ==
  ASSUME EquityInv, Positions, PositionOnFill, BooksInv'
  PROVE  EquityInv'
<1>1. PICK f : /\ bookQ # << >> /\ f = Head(bookQ) /\ f \in Fills /\ f.inst \in Instruments
      /\ bookQ' = Tail(bookQ) /\ method' = method /\ marks' = marks
      /\ \A i \in Instruments :
           /\ i # f.inst => Ledger(method, books', i) = Ledger(method, books, i)
           /\ i = f.inst => Ledger(method, books', i) = BookFill(method, Ledger(method, books, i), f)
  BY FillAbsorbed DEF EquityInv
<1>2. traded' = traded
  BY DEF Positions
<1>3. ASSUME method' # "WAVG", NEW i \in Instruments, NEW m \in Int
      PROVE  Equity(Ledger(method', books', i), m) + Flow(Effect(i, m), bookQ') = traded'[i].cash + traded'[i].net * m
  <2>1. Equity(Ledger(method, books, i), m) + Flow(Effect(i, m), bookQ) = traded[i].cash + traded[i].net * m
    BY <1>1, <1>3 DEF EquityInv
  <2>2. bookQ \in Seq(Fills) /\ LotBookOK(Ledger(method, books, i))
    BY <1>1, <1>3 DEF EquityInv, BooksInv, BookOK
  <2>3. /\ Flow(Effect(i, m), bookQ) = Effect(i, m)[f] + Flow(Effect(i, m), Tail(bookQ))
        /\ Flow(Effect(i, m), Tail(bookQ)) \in Int /\ Effect(i, m)[f] \in Int
    BY <1>1, <2>2, EffectTyped, FlowMoves
  <2>4. Equity(Ledger(method, books, i), m) \in Int
    BY <2>2, EquityInt
  <2>5. Equity(Ledger(method', books', i), m) = Equity(Ledger(method, books, i), m) + Effect(i, m)[f]
    <3>1. CASE i = f.inst
      <4>1. Ledger(method', books', i) = LotFill(method, Ledger(method, books, i), f)
        BY <1>1, <1>3, <3>1 DEF BookFill
      <4>2. Equity(LotFill(method, Ledger(method, books, i), f), m)
              = Equity(Ledger(method, books, i), m) - f.fee + Sign(f.side) * f.qty * (m - f.price)
        BY <1>1, <2>2, LotFillIs
      <4>3. Effect(i, m)[f] = Sign(f.side) * f.qty * (m - f.price) - f.fee
        BY <1>1, <3>1, EffectTyped
      <4>4. f.fee \in Int /\ Sign(f.side) * f.qty * (m - f.price) \in Int
        <5>1. Sign(f.side) * f.qty \in Int /\ m - f.price \in Int /\ f.fee \in Int
          BY <1>1, SignIs DEF Fills
        <5>2. \A x, y \in Int : x * y \in Int
          OBVIOUS
        <5> QED BY <5>1, <5>2
      <4>5. \A e, x, y \in Int : e - x + y = e + (y - x)
        OBVIOUS
      <4> QED BY <2>4, <4>1, <4>2, <4>3, <4>4, <4>5
    <3>2. CASE i # f.inst
      <4>1. Effect(i, m)[f] = 0
        BY <1>1, <3>2, EffectTyped
      <4> QED BY <1>1, <2>4, <3>2, <4>1
    <3> QED BY <3>1, <3>2
  <2>6. \A e, x, y \in Int : (e + x) + y = e + (x + y)
    OBVIOUS
  <2> QED BY <1>1, <1>2, <2>1, <2>3, <2>4, <2>5, <2>6
<1>4. marks' \in [Instruments -> Int] /\ \A i \in Instruments : traded'[i].cash \in Int
  BY <1>1, <1>2 DEF EquityInv
<1> QED BY <1>3, <1>4 DEF EquityInv

LEMMA MarksKept ==
  ASSUME Configured, marks \in [Instruments -> Int], [DayNext]_dayVars
  PROVE  marks' \in [Instruments -> Int]
<1>1. CASE marks' = marks
  BY <1>1
<1>2. CASE Positions
  <2>1. ASSUME NEW i \in Instruments, NEW mid \in desk.ticks, PositionOnTick(i, mid)
        PROVE  marks' \in [Instruments -> Int]
    <3>1. mid \in Int
      BY DeskAssumption DEF Configured
    <3> QED BY <2>1, <3>1 DEF PositionOnTick
  <2> QED BY <1>1, <1>2, <2>1 DEF Positions, PositionOnFill, MarkToMarketAll
<1>3. Positions \/ marks' = marks
  BY DEF DayNext, VenueFill, Fill, posVars, Signal, RiskFill,
         RiskUpdate, MarketTrade, Analytics, Operator, OMSHearsAck, OMSWorks, OMSHalts, ClockTick, dayVars
<1> QED BY <1>1, <1>2, <1>3

LEMMA EquityStep == EquityInv /\ [DayNext]_dayVars => EquityInv'
<1> SUFFICES ASSUME EquityInv, [DayNext]_dayVars PROVE EquityInv'
  OBVIOUS
<1>1. BooksInv /\ BooksInv'
  BY BooksStep DEF EquityInv
<1>2. CASE UNCHANGED <<method, books, bookQ, traded>>
  <2>1. marks' \in [Instruments -> Int]
    BY MarksKept DEF EquityInv, BooksInv
  <2> QED BY <1>1, <1>2, <2>1 DEF EquityInv
<1> QED BY <1>1, <1>2, FillPaid, FillWorth, OthersKeepBooks

LEMMA EquityBegins == DayInit => EquityInv
<1> SUFFICES ASSUME DayInit PROVE EquityInv
  OBVIOUS
<1>1. BooksInv
  BY BooksBegin
<1>2. /\ bookQ = << >> /\ books = << >> /\ marks = [i \in Instruments |-> 0]
      /\ traded = [i \in Instruments |-> [net |-> 0, cash |-> 0]]
  BY DEF DayInit, PosInit, NoMark
<1>3. ASSUME method # "WAVG", NEW i \in Instruments, NEW m \in Int
      PROVE  Equity(Ledger(method, books, i), m) + Flow(Effect(i, m), bookQ) = traded[i].cash + traded[i].net * m
  <2>1. Ledger(method, books, i) = EmptyLots
    <3>1. DOMAIN books = {}
      BY <1>2, EmptySeq
    <3> QED BY <1>3, <3>1 DEF Ledger, NewBook
  <2>2. Flow(Effect(i, m), << >>) = 0
    BY EffectTyped, NoFlow
  <2>3. traded[i].cash = 0 /\ traded[i].net = 0
    BY <1>2
  <2>4. Equity(EmptyLots, m) = 0
    <3>1. EmptyLots.realized = 0 /\ EmptyLots.side = 0 /\ EmptyLots.lots = << >>
      BY DEF EmptyLots
    <3> QED BY <3>1, NoLotsWeighNothing DEF Equity
  <2> QED BY <1>2, <2>1, <2>2, <2>3, <2>4
<1> QED BY <1>1, <1>2, <1>3 DEF EquityInv

IntsOn(D, x) == x \in [D -> Int]
Balanced(D, f, g, h, k) == \A i \in D : f[i] + g[i] = h[i] + k[i]

LEMMA AlongEach ==
  ASSUME NEW D, NEW x, IntsOn(D, x), NEW q \in Seq(D)
  PROVE  Along(x, q) \in Seq(Int) /\ Len(Along(x, q)) = Len(q) /\ \A n \in 1..Len(q) : Along(x, q)[n] = x[q[n]]
BY AlongTyped DEF IntsOn

LEMMA TotalsAddUp ==
  ASSUME NEW D, NEW q \in Seq(D), NEW f, NEW g, NEW h, NEW k,
         IntsOn(D, f), IntsOn(D, g), IntsOn(D, h), IntsOn(D, k), Balanced(D, f, g, h, k)
  PROVE  Total(f, q) + Total(g, q) = Total(h, q) + Total(k, q)
<1> DEFINE e == [i \in D |-> f[i] + g[i]]
<1>1. IntsOn(D, e) /\ \A i \in D : e[i] = f[i] + g[i] /\ e[i] = h[i] + k[i]
  BY DEF IntsOn, Balanced
<1> HIDE DEF e
<1>2. /\ Along(f, q) \in Seq(Int) /\ Len(Along(f, q)) = Len(q) /\ \A n \in 1..Len(q) : Along(f, q)[n] = f[q[n]]
      /\ Along(g, q) \in Seq(Int) /\ Len(Along(g, q)) = Len(q) /\ \A n \in 1..Len(q) : Along(g, q)[n] = g[q[n]]
  BY AlongEach
<1>3. /\ Along(h, q) \in Seq(Int) /\ Len(Along(h, q)) = Len(q) /\ \A n \in 1..Len(q) : Along(h, q)[n] = h[q[n]]
      /\ Along(k, q) \in Seq(Int) /\ Len(Along(k, q)) = Len(q) /\ \A n \in 1..Len(q) : Along(k, q)[n] = k[q[n]]
  BY AlongEach
<1>4. Along(e, q) \in Seq(Int) /\ Len(Along(e, q)) = Len(q) /\ \A n \in 1..Len(q) : Along(e, q)[n] = e[q[n]]
  BY <1>1, AlongEach
<1>5. \A n \in 1..Len(q) : q[n] \in D
  BY ElementOfSeq
<1>6. SumOf(Along(e, q)) = SumOf(Along(f, q)) + SumOf(Along(g, q))
  <2>1. \A n \in 1..Len(Along(g, q)) : Along(e, q)[n] = Along(f, q)[n] + Along(g, q)[n]
    BY <1>1, <1>2, <1>4, <1>5, ZenonT(40)
  <2> QED BY <1>2, <1>4, <2>1, SumPlus
<1>7. SumOf(Along(e, q)) = SumOf(Along(h, q)) + SumOf(Along(k, q))
  <2>1. \A n \in 1..Len(Along(k, q)) : Along(e, q)[n] = Along(h, q)[n] + Along(k, q)[n]
    BY <1>1, <1>3, <1>4, <1>5, ZenonT(40)
  <2> QED BY <1>3, <1>4, <2>1, SumPlus
<1> QED BY <1>6, <1>7 DEF Total

(* A lot book none of whose fills are on their way. *)
LEMMA BookIsWorth ==
  ASSUME EquityInv, method # "WAVG", NEW i \in DOMAIN books, Unhandled(i) = {}
  PROVE  /\ Quantity(method, books[i]) = traded[i].net /\ Quantity(method, books[i]) \in Int
         /\ \A m \in Int :
              /\ books[i].realized \in Int /\ Unrealized(method, books[i], m) \in Int
              /\ books[i].realized + Unrealized(method, books[i], m) = traded[i].cash + traded[i].net * m
<1>1. /\ bookQ \in Seq(Fills) /\ i \in Instruments /\ LotBookOK(books[i])
      /\ Ledger(method, books, i) = books[i]
  BY DEF EquityInv, BooksInv, BookOK, Ledger
<1>2. \A n \in DOMAIN bookQ : bookQ[n].inst # i /\ bookQ[n] \in Fills
  <2>1. DOMAIN bookQ = 1..Len(bookQ)
    BY <1>1, LenProperties
  <2> QED BY <1>1, <2>1, ElementOfSeq DEF Unhandled
<1>3. Flow(Acquired(i), bookQ) = 0
  <2>1. \A n \in DOMAIN bookQ : Acquired(i)[bookQ[n]] = 0
    BY <1>2, WeightsOfFills
  <2> QED BY <1>1, <2>1, WeightsOfFills, AlongZero DEF Flow
<1>4. traded[i].net = Carried(method, books, i) /\ Carried(method, books, i) \in Int
  <2>1. Carried(method, books, i) \in Int
    BY <1>1, HeldInt DEF EquityInv, BooksInv
  <2>2. traded[i].net = Carried(method, books, i) + Flow(Acquired(i), bookQ)
    BY <1>1 DEF EquityInv, BooksInv
  <2> QED BY <1>3, <2>1, <2>2
<1>5. Quantity(method, books[i]) = Carried(method, books, i)
  BY <1>1 DEF Carried
<1>6. ASSUME NEW m \in Int
      PROVE  /\ books[i].realized \in Int /\ Unrealized(method, books[i], m) \in Int
             /\ books[i].realized + Unrealized(method, books[i], m) = traded[i].cash + traded[i].net * m
  <2>1. Flow(Effect(i, m), bookQ) = 0
    <3>1. \A n \in DOMAIN bookQ : Effect(i, m)[bookQ[n]] = 0
      BY <1>2, EffectTyped
    <3> QED BY <1>1, <3>1, EffectTyped, AlongZero DEF Flow
  <2>2. Equity(books[i], m) + Flow(Effect(i, m), bookQ) = traded[i].cash + traded[i].net * m
    BY <1>1 DEF EquityInv
  <2>3. Unrealized(method, books[i], m) = books[i].side * (m * Volume(books[i].lots) - Cost(books[i].lots))
    BY DEF Unrealized
  <2>4. /\ Equity(books[i], m) \in Int /\ books[i].realized \in Int
        /\ books[i].side * (m * Volume(books[i].lots) - Cost(books[i].lots)) \in Int
    BY <1>1, EquityInt
  <2>5. Equity(books[i], m) = books[i].realized + Unrealized(method, books[i], m)
    BY <2>3 DEF Equity
  <2> QED BY <2>1, <2>2, <2>3, <2>4, <2>5
<1> QED BY <1>4, <1>5, <1>6

LEMMA EquityFollows == EquityInv => (method # "WAVG" => EquityIdentity)
<1> SUFFICES ASSUME EquityInv, method # "WAVG" PROVE EquityIdentity
  OBVIOUS
<1>1. ASSUME NEW i \in DOMAIN books, Unhandled(i) = {}
      PROVE  /\ Quantity(method, books[i]) = traded[i].net
             /\ \A mark \in Prices : books[i].realized + Unrealized(method, books[i], mark)
                                       = traded[i].cash + traded[i].net * mark
  BY <1>1, BookIsWorth, PricesAssumption
<1>2. ASSUME bookQ = << >>
      PROVE  Portfolio.realized + Portfolio.unrealized
               = Total([i \in DOMAIN books |-> traded[i].cash], opened) + Portfolio.net
  <2> DEFINE D == DOMAIN books
             f == [i \in D |-> books[i].realized]
             g == [i \in D |-> Unrealized(method, books[i], marks[i])]
             h == [i \in D |-> traded[i].cash]
             k == [i \in D |-> Quantity(method, books[i]) * marks[i]]
  <2>1. Portfolio.realized = Total(f, opened) /\ Portfolio.unrealized = Total(g, opened)
        /\ Portfolio.net = Total(k, opened)
    BY DEF Portfolio, Aggregate
  <2>2. ASSUME NEW i \in D
        PROVE  /\ f[i] \in Int /\ g[i] \in Int /\ h[i] \in Int /\ k[i] \in Int
               /\ f[i] + g[i] = h[i] + k[i]
    <3>1. i \in Instruments /\ marks[i] \in Int /\ traded[i].cash \in Int
      BY DEF EquityInv, BooksInv
    <3>2. Unhandled(i) = {}
      BY <1>2, EmptySeq DEF Unhandled
    <3>3. /\ Quantity(method, books[i]) = traded[i].net /\ Quantity(method, books[i]) \in Int
          /\ books[i].realized \in Int /\ Unrealized(method, books[i], marks[i]) \in Int
          /\ books[i].realized + Unrealized(method, books[i], marks[i])
               = traded[i].cash + traded[i].net * marks[i]
      BY <3>1, <3>2, BookIsWorth
    <3>4. \A x, y \in Int : x * y \in Int
      OBVIOUS
    <3> QED BY <3>1, <3>3, <3>4
  <2>3. opened \in Seq(D)
    BY DEF EquityInv, BooksInv
  <2> HIDE DEF D
  <2>4. IntsOn(D, f) /\ IntsOn(D, g) /\ IntsOn(D, h) /\ IntsOn(D, k) /\ Balanced(D, f, g, h, k)
    BY <2>2 DEF IntsOn, Balanced
  <2> HIDE DEF f, g, h, k
  <2>5. Total(f, opened) + Total(g, opened) = Total(h, opened) + Total(k, opened)
    BY <2>3, <2>4, TotalsAddUp
  <2> QED BY <2>1, <2>5 DEF h, D
<1> QED BY <1>1, <1>2 DEF EquityIdentity

(* Whichever lots _pop_lot closes first, a FIFO or a LIFO book neither makes nor loses
   money, and neither does the portfolio (aggregate_portfolio).  The average of a WAVG book
   is a quotient, exact only for prices that divide. *)
THEOREM EquityAddsUp == DaySpec => [](method # "WAVG" => EquityIdentity)
<1>1. EquityInv => (method # "WAVG" => EquityIdentity)
  BY EquityFollows
<1> QED BY <1>1, EquityBegins, EquityStep, PTL DEF DaySpec

----------------------------------------------------------------------------
(***************************************************************************)
(* The daily loss.  As long as there is one book, the last update on its   *)
(* way, or risk itself when none is, has what the book has realized, and   *)
(* the day's profit is measured from what it had realized at midnight.     *)
(***************************************************************************)

(* No instrument but i was ever traded. *)
OneBook(i) == (DOMAIN books = {} /\ opened = << >>) \/ (DOMAIN books = {i} /\ opened = <<i>>)

(* A book whose profit is a number. *)
Costed(m, b) == b.realized \in Int /\ (m = "WAVG" => b.avg \in Int)

ToldProfit == IF updates = << >> THEN rs.realized ELSE updates[Len(updates)].realized

DayKept == rs.day \in Int /\ rs.day <= DayOf(now) /\ (~rs.seen => rs.realized = 0 /\ rs.base = 0)

ProfitKnown(i) ==
  /\ DayKept /\ OneBook(i)
  /\ \A j \in DOMAIN books : Costed(method, books[j])
  /\ lost = 0 => ToldProfit = Realized /\ (midnight # None => Baseline(rs, now) = midnight)

LossInv == KnownInv /\ \A i : DOMAIN books \subseteq {i} => ProfitKnown(i)

LEMMA DaysPass ==
  ASSUME NEW t \in Nat
  PROVE  DayOf(t) \in Int /\ DayOf(t) <= DayOf(t + 1) /\ DayOf(0) = 0
<1> DEFINE D == DayLength
           a == t \div D
           b == (t + 1) \div D
<1>1. D \in Nat \ {0}
  BY DayAssumption
<1>2. a \in Int /\ D * a <= t /\ t < D * a + D
  BY <1>1
<1>3. b \in Int /\ D * b <= t + 1 /\ t + 1 < D * b + D
  BY <1>1
<1>4. 0 \div D = 0
  BY <1>1
<1> HIDE DEF D, a, b
<1>5. a <= b
  <2> SUFFICES ASSUME b <= a - 1 PROVE FALSE
    BY <1>2, <1>3
  <2>1. D * b <= D * (a - 1)
    BY <1>1, <1>2, <1>3
  <2>2. D * (a - 1) = D * a - D
    BY <1>1, <1>2
  <2>3. D * b \in Int /\ D * a \in Int
    BY <1>1, <1>2, <1>3
  <2> QED BY <1>1, <1>2, <1>3, <2>1, <2>2, <2>3
<1> QED BY <1>2, <1>4, <1>5 DEF DayOf, a, b, D

(* What one book has realized is what the portfolio has. *)
LEMMA OneTotal ==
  ASSUME NEW bs, NEW order, NEW i,
         (DOMAIN bs = {} /\ order = << >>) \/ (DOMAIN bs = {i} /\ order = <<i>>),
         \A j \in DOMAIN bs : bs[j].realized \in Int
  PROVE  Total([j \in DOMAIN bs |-> bs[j].realized], order) = IF DOMAIN bs = {} THEN 0 ELSE bs[i].realized
<1> DEFINE f == [j \in DOMAIN bs |-> bs[j].realized]
<1>1. CASE DOMAIN bs = {} /\ order = << >>
  <2>1. Along(f, << >>) = << >>
    BY DEF Along
  <2> QED BY <1>1, <2>1, SumEmpty DEF Total
<1>2. CASE DOMAIN bs = {i} /\ order = <<i>>
  <2>1. PICK D : D = DOMAIN bs /\ i \in D
    BY <1>2
  <2>2. f \in [D -> Int] /\ f[i] = bs[i].realized /\ f[i] \in Int
    BY <2>1
  <2> HIDE DEF f
  <2>3. << >> \in Seq(D) /\ i \in D /\ f \in [D -> Int]
    BY <2>1, <2>2, EmptySeq
  <2>4. SumOf(Along(f, order)) = SumOf(Along(f, << >>)) + f[i]
    <3>1. SumOf(Along(f, Append(<< >>, i))) = SumOf(Along(f, << >>)) + f[i]
      BY ONLY <2>3, AlongAppend
    <3>2. order = Append(<< >>, i)
      BY <1>2
    <3> QED BY <3>1, <3>2
  <2>5. Along(f, << >>) = << >>
    BY DEF Along
  <2>6. SumOf(Along(f, order)) = f[i]
    BY <2>2, <2>4, <2>5, SumEmpty
  <2> QED BY <1>2, <2>2, <2>6 DEF Total, f
<1> QED BY <1>1, <1>2

(* The last of the updates published is the last on its way. *)
LEMMA PublishTells ==
  ASSUME NEW S, updates \in Seq(S), NEW T, NEW e \in Seq(T), e # << >>, NEW x,
         \A k \in 1..Len(e) : e[k].realized = x, PublishUpdates(e), lost \in Nat
  PROVE  lost' = 0 => lost = 0 /\ updates' # << >> /\ updates'[Len(updates')].realized = x
<1> SUFFICES ASSUME lost' = 0
             PROVE  lost = 0 /\ updates' # << >> /\ updates'[Len(updates')].realized = x
  OBVIOUS
<1>1. updates' = updates \o e /\ lost' = lost
  BY DEF PublishUpdates
<1>2. PICK U : U = S \union T
  OBVIOUS
<1>3. updates \in Seq(U) /\ e \in Seq(U)
  BY <1>2, QueueGrows
<1>4. Len(updates) \in Nat /\ Len(e) \in Nat \ {0}
  BY <1>3, LenProperties, EmptySeq
<1> DEFINE r == updates \o e
<1>5. /\ r \in Seq(U) /\ Len(r) = Len(updates) + Len(e)
      /\ \A n \in 1..(Len(updates) + Len(e)) :
           r[n] = IF n <= Len(updates) THEN updates[n] ELSE e[n - Len(updates)]
  BY <1>3, ConcatProperties
<1> HIDE DEF r
<1>6. Len(r) # 0 /\ r[Len(r)] = e[Len(e)]
  <2>1. /\ Len(r) \in 1..(Len(updates) + Len(e)) /\ ~(Len(r) <= Len(updates))
        /\ Len(r) - Len(updates) = Len(e) /\ Len(r) # 0
    BY <1>4, <1>5
  <2> QED BY <1>5, <2>1
<1>7. Len(e) \in 1..Len(e)
  BY <1>4
<1>8. r # << >>
  BY <1>6, EmptySeq
<1> QED BY <1>1, <1>6, <1>7, <1>8 DEF r

(* A fill leaves a number too. *)
LEMMA AverageFillCosts ==
  ASSUME NEW b, AverageOK(b), b.avg \in Int, b.realized \in Int, NEW f \in Fills
  PROVE  AverageFill(b, f).avg \in Int /\ AverageFill(b, f).realized \in Int
<1> DEFINE signed == Sign(f.side) * f.qty
           qty == b.qty + signed
           side == IF b.qty > 0 THEN 1 ELSE -1
           closed == Within(f.qty, Magnitude(b.qty))
           charged == b.realized - f.fee
           gain == side * (f.price - b.avg) * closed
           total == b.avg * Magnitude(b.qty) + f.price * f.qty
           a == AverageFill(b, f)
<1>1. \A x, y \in Int : x * y \in Int
  OBVIOUS
<1>2. f.qty \in Int /\ f.price \in Int /\ f.fee \in Int /\ Sign(f.side) \in Int /\ b.qty \in Int
  BY SignIs DEF Fills, AverageOK
<1>3. Magnitude(b.qty) \in Int /\ Magnitude(b.qty) >= 0
  BY <1>2 DEF Magnitude
<1>4. signed \in Int /\ qty \in Int /\ side \in Int /\ closed \in Int /\ charged \in Int
  BY <1>1, <1>2, <1>3 DEF Within
<1>5. gain \in Int
  <2>1. f.price - b.avg \in Int
    BY <1>2
  <2> HIDE DEF side, closed
  <2> QED BY <1>1, <1>4, <2>1
<1>6. total \in Int
  BY <1>1, <1>2, <1>3
<1>7. qty # 0 => total \div Magnitude(qty) \in Int
  <2> HIDE DEF total, qty
  <2>1. qty # 0 => Magnitude(qty) \in Nat \ {0}
    BY <1>4 DEF Magnitude
  <2>2. \A x \in Int, y \in Nat \ {0} : x \div y \in Int
    OBVIOUS
  <2> QED BY <1>6, <2>1, <2>2
<1>8. CASE b.qty = 0
  <2>1. a = [qty |-> signed, avg |-> f.price, realized |-> charged]
    BY <1>8 DEF AverageFill
  <2> HIDE DEF a, signed, charged
  <2> QED BY <1>2, <1>4, <2>1 DEF a
<1>9. CASE b.qty # 0 /\ (b.qty > 0) = (signed > 0)
  <2>1. a = [qty |-> qty, realized |-> charged, avg |-> total \div Magnitude(qty)]
    BY <1>9 DEF AverageFill
  <2>2. qty # 0
    BY <1>2, <1>4, <1>9
  <2> HIDE DEF a, qty, charged, total
  <2> QED BY <1>4, <1>7, <2>1, <2>2 DEF a
<1>10. CASE b.qty # 0 /\ (b.qty > 0) # (signed > 0)
  <2>1. a = [qty |-> qty, realized |-> charged + gain,
             avg |-> IF qty = 0 THEN 0 ELSE IF closed = f.qty THEN b.avg ELSE f.price]
    BY <1>10 DEF AverageFill
  <2> HIDE DEF a, qty, charged, gain, closed
  <2>2. charged + gain \in Int
    BY <1>4, <1>5
  <2> QED BY <1>2, <2>1, <2>2 DEF a
<1> QED BY <1>8, <1>9, <1>10

LEMMA BookCosts ==
  ASSUME NEW m, NEW b, BookOK(m, b), Costed(m, b), NEW f \in Fills
  PROVE  Costed(m, BookFill(m, b, f))
<1>1. CASE m = "WAVG"
  <2>1. AverageOK(b) /\ b.avg \in Int /\ b.realized \in Int
    BY <1>1 DEF BookOK, Costed
  <2> QED BY <1>1, <2>1, AverageFillCosts DEF Costed, BookFill
<1>2. CASE m # "WAVG"
  <2>1. LotBookOK(LotFill(m, b, f))
    BY <1>2, LotFillIs DEF BookOK
  <2> QED BY <1>2, <2>1 DEF Costed, BookFill, LotBookOK
<1> QED BY <1>1, <1>2

LEMMA NewBookCosts == ASSUME NEW m PROVE Costed(m, NewBook(m))
BY DEF Costed, NewBook, EmptyAverage, EmptyLots

(* An update opens the day, and says what has been realized. *)
LEMMA UpdateRolls ==
  ASSUME NEW r, IsRiskState(r), NEW u, NEW t
  PROVE  LET s == WithUpdate(r, u, t)
         IN  /\ s.seen /\ s.day = DayOf(t) /\ s.realized = u.realized
             /\ s.base = IF r.seen THEN Baseline(r, t) ELSE r.base
<1> DEFINE placed == [r EXCEPT !.pos[u.inst] = u.qty]
           bucket == IF r.seen THEN RolledOver(placed, t)
                     ELSE [placed EXCEPT !.seen = TRUE, !.day = DayOf(t)]
           equity == u.realized + u.unrealized
           Fields(q) == q = [pos |-> q.pos, seen |-> q.seen, realized |-> q.realized, unrealized |-> q.unrealized,
                             base |-> q.base, day |-> q.day, peak |-> q.peak, recent |-> q.recent,
                             vpin |-> q.vpin, breach |-> q.breach]
<1>1. Fields(placed) /\ placed.seen = r.seen /\ placed.realized = r.realized
      /\ placed.base = r.base /\ placed.day = r.day
  BY DEF IsRiskState
<1> HIDE DEF placed
<1>2. /\ Fields(bucket) /\ bucket.seen /\ bucket.day = DayOf(t)
      /\ bucket.base = IF r.seen THEN Baseline(r, t) ELSE r.base
  <2>1. CASE r.seen /\ r.day # DayOf(t)
    <3>1. bucket = [placed EXCEPT !.base = placed.realized, !.day = DayOf(t), !.peak = None]
      BY <1>1, <2>1 DEF RolledOver
    <3> QED BY <1>1, <2>1, <3>1 DEF Baseline
  <2>2. CASE r.seen /\ r.day = DayOf(t)
    <3>1. bucket = [placed EXCEPT !.peak = None]
      BY <1>1, <2>2 DEF RolledOver
    <3> QED BY <1>1, <2>2, <3>1 DEF Baseline
  <2>3. CASE ~r.seen
    <3>1. bucket = [placed EXCEPT !.seen = TRUE, !.day = DayOf(t)]
      BY <2>3
    <3> QED BY <1>1, <2>3, <3>1
  <2> QED BY <2>1, <2>2, <2>3
<1>3. WithUpdate(r, u, t) =
        [bucket EXCEPT !.realized = u.realized, !.unrealized = u.unrealized,
                       !.peak = IF bucket.peak = None \/ bucket.peak < equity THEN equity ELSE bucket.peak]
  BY DEF WithUpdate, placed
<1> HIDE DEF bucket, equity
<1> QED BY <1>2, <1>3

(* No other step touches the profit; a signal may open the day. *)
SameProfit(r, s, t) ==
  /\ s.realized = r.realized /\ s.seen = r.seen /\ s.base \in {r.base, r.realized}
  /\ s.day \in {r.day, DayOf(t)} /\ Baseline(s, t) = Baseline(r, t)

LEMMA ProfitKept ==
  ASSUME DeskTypeOK, [DayNext]_dayVars
  PROVE  RiskUpdate \/ SameProfit(rs, rs', now)
<1>1. IsRiskState(rs)
  BY DEF DeskTypeOK
<1>2. CASE Signal
  <2>1. WithSignal(rs, now).recent \in Seq(Nat)
    BY Recorded DEF DeskTypeOK, IsRiskState
  <2>2. Trims(now, Seq(Nat))
    BY HistoriesTrim DEF DeskTypeOK
  <2>3. rs' \in Reads(WithSignal(rs, now), now, Seq(Nat))
    BY <1>2, <2>1, <2>2, SignalReads
  <2>4. SameProfit(WithSignal(rs, now), rs', now)
    BY <2>3 DEF Reads, SameProfit
  <2>5. WithSignal(rs, now) = [rs EXCEPT !.recent = Append(rs.recent, now)]
    BY <1>1, Recorded DEF DeskTypeOK
  <2>6. /\ WithSignal(rs, now).realized = rs.realized /\ WithSignal(rs, now).seen = rs.seen
        /\ WithSignal(rs, now).base = rs.base /\ WithSignal(rs, now).day = rs.day
    BY <1>1, <2>5 DEF IsRiskState
  <2> QED BY <2>4, <2>6 DEF SameProfit, Baseline
<1>3. CASE RiskFill
  <2>1. rs' = WithFill(rs, Head(fillQ))
    BY <1>3 DEF RiskFill, RiskOnFill
  <2>2. rs'.realized = rs.realized /\ rs'.seen = rs.seen /\ rs'.base = rs.base /\ rs'.day = rs.day
    BY <1>1, <2>1 DEF WithFill, IsRiskState
  <2> QED BY <2>2 DEF SameProfit, Baseline
<1>4. CASE Analytics
  <2>1. ASSUME NEW i \in Instruments, rs' = WithVpin(rs, i, flow[i].last) PROVE SameProfit(rs, rs', now)
    <3>1. rs'.realized = rs.realized /\ rs'.seen = rs.seen /\ rs'.base = rs.base /\ rs'.day = rs.day
      BY <1>1, <2>1 DEF WithVpin, IsRiskState
    <3> QED BY <3>1 DEF SameProfit, Baseline
  <2>2. rs' = rs => SameProfit(rs, rs', now)
    BY DEF SameProfit
  <2> QED BY <1>4, <2>1, <2>2 DEF Analytics, RiskOnAnalytics, riskVars
<1>5. RiskFill \/ RiskUpdate \/ Signal \/ Analytics \/ rs' = rs
  BY DEF DayNext, VenueFill, Fill, Positions, MarketTrade, Operator, OperatorEngages, OperatorResets,
         OMSHearsAck, OMSWorks, OMSHalts, ClockTick, dayVars, riskVars
<1>6. rs' = rs => SameProfit(rs, rs', now)
  BY DEF SameProfit
<1> QED BY <1>2, <1>3, <1>4, <1>5, <1>6

(* What is realized is what the book has realized. *)
LEMMA RealizedIs ==
  ASSUME NEW i, OneBook(i), \A j \in DOMAIN books : Costed(method, books[j])
  PROVE  Realized = IF DOMAIN books = {} THEN 0 ELSE books[i].realized
<1>1. (DOMAIN books = {} /\ opened = << >>) \/ (DOMAIN books = {i} /\ opened = <<i>>)
  BY DEF OneBook
<1>2. \A j \in DOMAIN books : books[j].realized \in Int
  BY DEF Costed
<1> QED BY <1>1, <1>2, OneTotal DEF Realized

(* Midnight passes. *)
LEMMA ClockKnown ==
  ASSUME KnownInv, NEW i, ProfitKnown(i), ClockTick
  PROVE  ProfitKnown(i)'
<1>1. now \in Nat /\ now' = now + 1 /\ UNCHANGED <<rs, desk, books, opened, bookQ, method, updates, lost>>
  BY KnownParts DEF ClockTick, posVars, DeskTypeOK
<1>2. DayOf(now) \in Int /\ DayOf(now') \in Int /\ DayOf(now) <= DayOf(now')
  <2>1. now + 1 \in Nat
    BY <1>1
  <2> QED BY <1>1, <2>1, DaysPass
<1>3. DayKept'
  BY <1>1, <1>2 DEF ProfitKnown, DayKept
<1>4. OneBook(i)' /\ \A j \in DOMAIN books' : Costed(method', books'[j])
  BY <1>1 DEF ProfitKnown, OneBook
<1>5. ToldProfit' = ToldProfit /\ Realized' = Realized
  BY <1>1 DEF ToldProfit, Realized
<1>6. ASSUME lost = 0, midnight' # None PROVE Baseline(rs', now') = midnight'
  <2>1. CASE DayOf(now') = DayOf(now)
    <3>1. midnight' = midnight
      BY <2>1 DEF ClockTick
    <3> QED BY <1>1, <1>6, <2>1, <3>1 DEF ProfitKnown, Baseline
  <2>2. CASE DayOf(now') # DayOf(now)
    <3>1. Settled /\ midnight' = Realized
      BY <1>6, <2>2 DEF ClockTick
    <3>2. rs.realized = Realized
      BY <1>6, <3>1 DEF ProfitKnown, ToldProfit, Settled
    <3>3. rs'.day # DayOf(now')
      BY <1>1, <1>2, <2>2 DEF ProfitKnown, DayKept
    <3> QED BY <1>1, <3>1, <3>2, <3>3 DEF Baseline
  <2> QED BY <2>1, <2>2
<1> QED BY <1>1, <1>3, <1>4, <1>5, <1>6 DEF ProfitKnown

(* Risk takes an update: it is the last, or the last is still to come. *)
LEMMA UpdateKnown ==
  ASSUME KnownInv, NEW i, ProfitKnown(i), RiskUpdate
  PROVE  ProfitKnown(i)'
<1> DEFINE u == Head(updates)
<1>1. /\ updates # << >> /\ updates' = Tail(updates) /\ rs' = WithUpdate(rs, u, now)
      /\ UNCHANGED <<now, midnight, desk, books, opened, bookQ, method, lost>>
  BY DEF RiskUpdate, RiskOnUpdate
<1>2. /\ rs'.seen /\ rs'.day = DayOf(now) /\ rs'.realized = u.realized
      /\ rs'.base = IF rs.seen THEN Baseline(rs, now) ELSE rs.base
  BY <1>1, KnownParts, UpdateRolls
<1>3. DayOf(now) \in Int
  BY KnownParts, DaysPass DEF DeskTypeOK
<1>4. DayKept'
  BY <1>1, <1>2, <1>3 DEF DayKept
<1>5. OneBook(i)' /\ \A j \in DOMAIN books' : Costed(method', books'[j])
  BY <1>1 DEF ProfitKnown, OneBook
<1>6. ToldProfit' = ToldProfit
  <2>1. PICK S : updates \in Seq(S)
    BY DEF KnownInv
  <2>2. /\ Len(updates) \in Nat \ {0} /\ u = updates[1] /\ Len(updates') = Len(updates) - 1
        /\ updates' \in Seq(S) /\ \A k \in 1..Len(updates') : updates'[k] = updates[k + 1]
    BY <1>1, <2>1
  <2>3. CASE Len(updates) = 1
    <3>1. updates' = << >>
      BY <2>2, <2>3, EmptySeq
    <3> QED BY <1>1, <1>2, <2>2, <2>3, <3>1 DEF ToldProfit
  <2>4. CASE Len(updates) # 1
    <3>1. Len(updates') \in 1..Len(updates') /\ Len(updates') + 1 = Len(updates)
      BY <2>2, <2>4
    <3>2. updates'[Len(updates')] = updates[Len(updates)] /\ updates' # << >>
      BY <2>2, <3>1, EmptySeq
    <3> QED BY <1>1, <3>2 DEF ToldProfit
  <2> QED BY <2>3, <2>4
<1>7. Baseline(rs', now') = Baseline(rs, now)
  <2>1. Baseline(rs', now') = rs'.base
    BY <1>1, <1>2 DEF Baseline
  <2>2. ~rs.seen => Baseline(rs, now) = rs.base
    BY DEF ProfitKnown, DayKept, Baseline
  <2> QED BY <1>2, <2>1, <2>2
<1>8. Realized' = Realized
  BY <1>1 DEF Realized
<1> QED BY <1>1, <1>4, <1>5, <1>6, <1>7, <1>8 DEF ProfitKnown

(* A fill is published. *)
LEMMA FillKnown ==
  ASSUME KnownInv, NEW i, ProfitKnown(i), VenueFill
  PROVE  ProfitKnown(i)'
<1>1. PICK f \in Fills :
        /\ f \in desk.fills /\ Fill(f) /\ bookQ' = Append(bookQ, f)
        /\ UNCHANGED <<method, books, desk, updates, lost, rs, opened>>
  BY KnownParts, FillTraded DEF BooksInv
<1>2. UNCHANGED <<now, midnight>>
  BY <1>1 DEF Fill
<1>3. OneBook(i)'
  BY <1>1 DEF ProfitKnown, OneBook
<1>4. ToldProfit' = ToldProfit /\ Realized' = Realized /\ DayKept'
  BY <1>1, <1>2 DEF ToldProfit, Realized, DayKept, ProfitKnown
<1> QED BY <1>1, <1>2, <1>3, <1>4 DEF ProfitKnown

(* The book takes a fill and tells what it has realized. *)
LEMMA BookKnown ==
  ASSUME KnownInv, NEW i, ProfitKnown(i), Positions, PositionOnFill, DOMAIN books' \subseteq {i}
  PROVE  ProfitKnown(i)'
<1> DEFINE f == Head(bookQ)
           b == BookFill(method, BookOf(f.inst), f)
           u == UpdateOf(f.inst, b, IF marks[f.inst] = NoMark THEN f.price ELSE marks[f.inst], absorbed[f.inst] + 1)
<1>1. /\ bookQ # << >> /\ bookQ' = Tail(bookQ) /\ method' = method /\ PublishUpdates(<<u>>)
      /\ books' = [j \in DOMAIN books \union {f.inst} |-> IF j = f.inst THEN b ELSE books[j]]
      /\ opened' = IF f.inst \in DOMAIN books THEN opened ELSE Append(opened, f.inst)
  BY DEF PositionOnFill
<1>2. UNCHANGED <<desk, now, rs, midnight>>
  BY DEF Positions, riskVars, history
<1>3. u.realized = b.realized
  BY DEF UpdateOf
<1>4. f \in Fills /\ f.inst = i
  <2>1. f.inst \in DOMAIN books'
    BY <1>1
  <2>2. f \in Fills
    BY <1>1, KnownParts, FillAbsorbed
  <2> QED BY <2>1, <2>2
<1>5. Costed(method, b)
  <2>1. i \in Instruments
    BY <1>4 DEF Fills
  <2>2. BookOf(i) = Ledger(method, books, i) /\ BookOK(method, BookOf(i))
    BY <2>1, KnownParts DEF BooksInv, BookOf, Ledger
  <2>3. Costed(method, BookOf(i))
    BY NewBookCosts DEF BookOf, ProfitKnown
  <2> QED BY <1>4, <2>2, <2>3, BookCosts
<1> HIDE DEF b, u, f
<1>6. DOMAIN books' = {i} /\ books'[i] = b /\ opened' = <<i>>
  <2>1. (DOMAIN books = {} /\ opened = << >>) \/ (DOMAIN books = {i} /\ opened = <<i>>)
    BY DEF ProfitKnown, OneBook
  <2>2. DOMAIN books' = DOMAIN books \union {i} /\ books'[i] = b
    BY <1>1, <1>4
  <2>3. Append(<< >>, i) = <<i>>
    OBVIOUS
  <2> QED BY <1>1, <1>4, <2>1, <2>2, <2>3
<1>7. OneBook(i)' /\ \A j \in DOMAIN books' : Costed(method', books'[j])
  BY <1>1, <1>5, <1>6 DEF OneBook
<1>8. Realized' = b.realized
  <2>1. \A j \in DOMAIN books' : books'[j].realized \in Int
    BY <1>7 DEF Costed
  <2>2. Total([j \in DOMAIN books' |-> books'[j].realized], opened') = b.realized
    <3>1. DOMAIN books' # {}
      BY <1>6
    <3> QED BY <1>6, <2>1, <3>1, OneTotal
  <2> QED BY <2>2 DEF Realized
<1>9. lost' = 0 => lost = 0 /\ ToldProfit' = b.realized
  <2>1. PICK S : updates \in Seq(S)
    BY DEF KnownInv
  <2>2. <<u>> \in Seq({u}) /\ <<u>> # << >> /\ \A k \in 1..Len(<<u>>) : <<u>>[k].realized = b.realized
    BY <1>3
  <2>3. lost \in Nat
    BY KnownParts
  <2>4. lost' = 0 => lost = 0 /\ updates' # << >> /\ updates'[Len(updates')].realized = b.realized
    BY <1>1, <2>1, <2>2, <2>3, PublishTells
  <2> QED BY <2>4 DEF ToldProfit
<1>10. DayKept' /\ Baseline(rs', now') = Baseline(rs, now)
  BY <1>2 DEF DayKept, ProfitKnown
<1> QED BY <1>2, <1>7, <1>8, <1>9, <1>10 DEF ProfitKnown

(* The book is marked to market, and tells it again. *)
LEMMA MarkKnown ==
  ASSUME KnownInv, NEW i, ProfitKnown(i), Positions, MarkToMarketAll
  PROVE  ProfitKnown(i)'
<1> DEFINE Said(j) == UpdateOf(j, books[j], marks[j], absorbed[j])
           T == {Said(j) : j \in DOMAIN books}
           e == [k \in DOMAIN Markable |-> Said(Markable[k])]
<1>1. /\ PublishUpdates(e) /\ Markable # << >>
      /\ UNCHANGED <<method, books, opened, bookQ, desk, now, rs, midnight>>
  BY DEF Positions, MarkToMarketAll, riskVars, history
<1>2. Markable \in Seq(DOMAIN books)
  <2>1. opened \in Seq(DOMAIN books)
    BY KnownParts DEF BooksInv
  <2>2. Markable \in Seq({x \in DOMAIN books :
                           x \in {j \in DOMAIN books : Quantity(method, books[j]) # 0 /\ marks[j] # NoMark}})
    BY <2>1, SiftedTyped DEF Markable
  <2> QED BY <2>2, QueueGrows
<1>3. Len(Markable) \in Nat \ {0} /\ DOMAIN Markable = 1..Len(Markable)
      /\ \A k \in 1..Len(Markable) : Markable[k] \in DOMAIN books
  BY <1>1, <1>2, LenProperties, ElementOfSeq, EmptySeq
<1>4. DOMAIN books = {i}
  <2>1. Markable[1] \in DOMAIN books
    BY <1>3
  <2> QED BY <2>1 DEF ProfitKnown, OneBook
<1>5. \A j \in DOMAIN books : Said(j).realized = books[i].realized
  BY <1>4 DEF UpdateOf
<1> HIDE DEF Said
<1>6. e \in [1..Len(Markable) -> T] /\ \A k \in 1..Len(Markable) : e[k] = Said(Markable[k])
  BY <1>3
<1> HIDE DEF T, e
<1>7. e \in Seq(T) /\ Len(e) = Len(Markable) /\ e # << >>
  <2>1. e \in Seq(T) /\ Len(e) = Len(Markable)
    BY <1>3, <1>6, FunctionSeq
  <2> QED BY <1>3, <2>1, EmptySeq
<1>8. \A k \in 1..Len(e) : e[k].realized = books[i].realized
  BY <1>3, <1>5, <1>6, <1>7
<1>9. lost' = 0 => lost = 0 /\ ToldProfit' = books[i].realized
  <2>1. PICK S : updates \in Seq(S)
    BY DEF KnownInv
  <2>2. lost \in Nat
    BY KnownParts
  <2>3. lost' = 0 => lost = 0 /\ updates' # << >> /\ updates'[Len(updates')].realized = books[i].realized
    BY <1>1, <1>7, <1>8, <2>1, <2>2, PublishTells
  <2> QED BY <2>3 DEF ToldProfit
<1>10. Realized = books[i].realized /\ Realized' = Realized
  <2>1. DOMAIN books # {}
    BY <1>4
  <2> QED BY <1>1, <2>1, RealizedIs DEF ProfitKnown, Realized
<1>11. OneBook(i)' /\ DayKept' /\ \A j \in DOMAIN books' : Costed(method', books'[j])
  BY <1>1 DEF ProfitKnown, OneBook, DayKept
<1> QED BY <1>1, <1>9, <1>10, <1>11 DEF ProfitKnown

(* No other step tells or takes anything. *)
LEMMA RestKnown ==
  ASSUME KnownInv, NEW i, ProfitKnown(i), rs.day \in Int, SameProfit(rs, rs', now),
         UNCHANGED <<updates, lost, books, opened, bookQ, midnight, now, desk, method>>
  PROVE  ProfitKnown(i)'
<1>1. DayOf(now) \in Int
  BY KnownParts, DaysPass DEF DeskTypeOK
<1>2. DayKept'
  BY <1>1 DEF ProfitKnown, DayKept, SameProfit
<1>3. OneBook(i)' /\ \A j \in DOMAIN books' : Costed(method', books'[j])
  BY DEF ProfitKnown, OneBook
<1>4. ToldProfit' = ToldProfit /\ Realized' = Realized /\ Baseline(rs', now') = Baseline(rs, now)
  BY DEF ToldProfit, Realized, SameProfit
<1> QED BY <1>2, <1>3, <1>4 DEF ProfitKnown

LEMMA ProfitMoves ==
  ASSUME [DayNext]_dayVars
  PROVE  \/ VenueFill \/ RiskUpdate \/ ClockTick
         \/ Positions /\ (PositionOnFill \/ MarkToMarketAll)
         \/ UNCHANGED <<updates, lost, books, opened, bookQ, midnight, now, desk, method>>
BY DEF DayNext, Positions, PositionOnTick, posVars, Signal, RiskOnSignal, RiskFill, RiskOnFill, MarketTrade,
       Analytics, RiskOnAnalytics, Operator, OperatorEngages, OperatorResets, OMSHearsAck, OMSWorks, OMSHalts,
       dayVars, riskVars, history

(* A book is never closed for good. *)
LEMMA BooksGrow == ASSUME [DayNext]_dayVars PROVE DOMAIN books \subseteq DOMAIN books'
<1>1. CASE Positions /\ PositionOnFill
  BY <1>1 DEF PositionOnFill
<1>2. CASE books' = books
  BY <1>2
<1>3. (Positions /\ PositionOnFill) \/ books' = books
  BY ProfitMoves DEF VenueFill, Fill, RiskUpdate, ClockTick, posVars, MarkToMarketAll
<1> QED BY <1>1, <1>2, <1>3

LEMMA LossStep == LossInv /\ [DayNext]_dayVars => LossInv'
<1> SUFFICES ASSUME LossInv, [DayNext]_dayVars PROVE LossInv'
  OBVIOUS
<1>1. KnownInv /\ KnownInv'
  BY KnownStep DEF LossInv
<1> SUFFICES ASSUME NEW i, DOMAIN books' \subseteq {i} PROVE ProfitKnown(i)'
  BY <1>1 DEF LossInv
<1>2. ProfitKnown(i)
  <2>1. DOMAIN books \subseteq DOMAIN books'
    BY BooksGrow
  <2> QED BY <2>1 DEF LossInv
<1>3. RiskUpdate \/ SameProfit(rs, rs', now)
  BY <1>1, KnownParts, ProfitKept
<1>4. rs.day \in Int
  BY <1>2 DEF ProfitKnown, DayKept
<1> QED BY <1>1, <1>2, <1>3, <1>4, ProfitMoves, FillKnown, UpdateKnown, ClockKnown, BookKnown, MarkKnown, RestKnown

LEMMA LossBegins == DayInit => LossInv
<1> SUFFICES ASSUME DayInit, NEW i PROVE ProfitKnown(i)
  BY KnownBegins DEF LossInv
<1>1. /\ books = << >> /\ opened = << >> /\ bookQ = << >>
      /\ updates = << >> /\ now = 0 /\ midnight = 0 /\ rs = FreshRiskState(Instruments)
  BY DEF DayInit, PosInit, RiskInit
<1>3. DOMAIN books = {} /\ Len(bookQ) = 0
  BY <1>1, EmptySeq
<1>4. OneBook(i)
  BY <1>1, <1>3 DEF OneBook
<1>5. rs.realized = 0 /\ rs.base = 0 /\ rs.day = 0 /\ ~rs.seen
  BY <1>1 DEF FreshRiskState
<1>6. DayOf(now) = 0
  BY <1>1, DaysPass
<1>7. ToldProfit = 0 /\ Baseline(rs, now) = 0 /\ DayKept
  BY <1>1, <1>5, <1>6 DEF ToldProfit, Baseline, DayKept
<1>8. Realized = 0
  BY <1>3, <1>4, RealizedIs
<1> QED BY <1>1, <1>3, <1>4, <1>7, <1>8 DEF ProfitKnown

(* A signal judged when the loss has reached its limit is rejected. *)
LEMMA LossRejects ==
  ASSUME KnownInv, NEW i, ProfitKnown(i), Signal, NEW k \in DOMAIN rules, rules[k].class = "daily_loss",
         Settled, lost = 0, midnight # None, LossExceeds(rules[k])
  PROVE  passedAt' = passedAt
<1>1. PICK sig \in desk.signals :
        passedAt' = IF kill.on \/ ~Verdict(sig, WithSignal(rs, now), now).approved THEN passedAt
                    ELSE passedAt \union {<<judged', sig.inst, now>>}
  BY DEF Signal
<1> DEFINE r0 == WithSignal(rs, now)
<1>2. Configured /\ now \in Nat /\ IsRiskState(rs)
  BY KnownParts DEF DeskTypeOK
<1>3. r0.recent \in Seq(Nat) /\ r0 \in Reads(r0, now, Seq(Nat)) /\ Trims(now, Seq(Nat))
  <2>1. IsRiskState(r0)
    BY <1>2, Recorded
  <2> QED BY <1>2, <2>1, ReadsItself, HistoriesTrim DEF IsRiskState
<1>4. r0.realized = rs.realized /\ r0.base = rs.base /\ r0.day = rs.day
  <2>1. r0 = [rs EXCEPT !.recent = Append(rs.recent, now)]
    BY <1>2, Recorded
  <2> QED BY <1>2, <2>1 DEF IsRiskState
<1>5. rs.realized = Realized /\ Baseline(rs, now) = midnight
  BY DEF ProfitKnown, ToldProfit, Settled
<1> HIDE DEF r0
<1>6. ASSUME Verdict(sig, r0, now).approved PROVE FALSE
  <2>1. sig.legs \in Seq(Legs)
    BY <1>2, DeskAssumption DEF Configured
  <2>2. PICK kept : Passed(sig, r0, now, Seq(Nat), kept, Verdict(sig, r0, now))
    BY <1>2, <1>3, <1>6, <2>1, PassedAre
  <2>3. PICK j \in kept : TRUE
    BY <2>2 DEF Passed
  <2>4. k \in 1..Len(rules)
    BY <1>2, RulesAre
  <2>5. PICK q \in Reads(r0, now, Seq(Nat)) :
          Results(sig, j, r0, now)[k].ok /\ Results(sig, j, r0, now)[k] = Judge(rules[k], sig, j, q, now)
    BY <2>2, <2>3, <2>4 DEF Passed
  <2>6. Judge(rules[k], sig, j, q, now) = DailyLoss(rules[k], q, now)
    BY DEF Judge
  <2>7. RolledOver(q, now).realized = Realized /\ RolledOver(q, now).base = midnight
    <3>1. q.realized = Realized /\ Baseline(q, now) = midnight
      BY <1>4, <1>5, <2>5 DEF Reads, Baseline
    <3>2. q = [pos |-> q.pos, seen |-> q.seen, realized |-> q.realized, unrealized |-> q.unrealized,
               base |-> q.base, day |-> q.day, peak |-> q.peak, recent |-> q.recent,
               vpin |-> q.vpin, breach |-> q.breach]
      BY <2>5 DEF Reads
    <3>3. RolledOver(q, now).realized = q.realized /\ RolledOver(q, now).base = Baseline(q, now)
      BY <3>2 DEF RolledOver, Baseline
    <3> QED BY <3>1, <3>3
  <2>8. RealizedToday(RolledOver(q, now)) = Realized - midnight
    BY <2>7 DEF RealizedToday
  <2>9. DailyLoss(rules[k], q, now) = Reject("KILL")
    BY <2>8 DEF DailyLoss, LossExceeds
  <2> QED BY <2>5, <2>6, <2>9 DEF Reject
<1> QED BY <1>1, <1>6 DEF r0

(* As long as one instrument is all that was traded, once the day's realized loss has
   reached the cap (risk/rules/daily_loss_limit.py, over
   get_realized_pnl_today and the rollover it does first) no signal passes: with every event
   handled, none lost and the books settled at midnight, what the engine measures is the
   loss, whatever the reads of the other rules and the clock have done to its state. *)
THEOREM DailyLossStops == DaySpec => LossStops
<1>1. DayInit => LossInv
  BY LossBegins
<1>2. LossInv /\ [DayNext]_dayVars =>
        [\A k \in DOMAIN rules :
           /\ rules[k].class = "daily_loss"
           /\ Settled /\ lost = 0 /\ midnight # None
           /\ \E i \in Instruments : DOMAIN books \subseteq {i}
           /\ LossExceeds(rules[k])
           => passedAt' = passedAt]_dayVars
  <2> SUFFICES ASSUME LossInv, [DayNext]_dayVars, NEW k \in DOMAIN rules, rules[k].class = "daily_loss",
                      Settled, lost = 0, midnight # None, LossExceeds(rules[k]),
                      NEW i \in Instruments, DOMAIN books \subseteq {i}
               PROVE  passedAt' = passedAt
    OBVIOUS
  <2>1. KnownInv /\ ProfitKnown(i)
    BY DEF LossInv
  <2>2. CASE Signal
    BY <2>1, <2>2, LossRejects
  <2>3. CASE passedAt' = passedAt
    BY <2>3
  <2>4. Signal \/ passedAt' = passedAt
    BY DEF DayNext, VenueFill, Fill, Positions, RiskFill, RiskUpdate, MarketTrade, Analytics, Operator,
           OMSHearsAck, OMSWorks, OMSHalts, ClockTick, dayVars, history
  <2> QED BY <2>2, <2>3, <2>4
<1> QED BY <1>1, <1>2, LossStep, PTL DEF DaySpec, LossStops

----------------------------------------------------------------------------
(***************************************************************************)
(* The strategies' inventory.  What a signal asks for fits the position it *)
(* was made for, and that position is no further from the true one than    *)
(* the fills under way: so what works never asks for more than the limit   *)
(* and these.                                                              *)
(***************************************************************************)

(* An order of either side with something left. *)
Sound(w) == \A l \in DOMAIN w : l.side \in QuoteSides /\ w[l] \in Nat \ {0}

Countable(w) == \A side \in QuoteSides : IsFiniteSet(LotsOf(w, side))

(* What a ladder asks for. *)
Asking(legs) == [l \in legs |-> l.qty]

(* A side a ladder quotes fits the position it was made for. *)
Suits(legs, b) ==
  /\ Sound(Asking(legs)) /\ Countable(Asking(legs))
  /\ \A side \in QuoteSides :
       (\E l \in legs : l.side = side) =>
         Cardinality(LotsOf(Asking(legs), side)) - Away(side) * b <= Limit

(* No further apart than the fills under way. *)
Near(a, b) == a \in Int /\ b \in Int /\ a - b \in -MaxSurprise..MaxSurprise

QuotesInv ==
  /\ Sound(bookOf) /\ Countable(bookOf)
  /\ inventory \in Int /\ booked \in Int
  /\ late \in Seq({-1, 1}) /\ Len(late) <= MaxSurprise
  /\ inventory = booked + SumOf(late)
  /\ sentQ # << >> =>
       LET s == Head(sentQ) IN Near(inventory, s.booked) /\ Suits(s.legs, s.booked)
  /\ InventoryBounded

----------------------------------------------------------------------------
(* Steps of one lot, as many as there are, go no further than their number. *)
LEMMA StepsReach ==
  ASSUME NEW s \in Seq({-1, 1})
  PROVE  /\ SumOf(s) \in Int
         /\ SumOf(s) <= Len(s) /\ -Len(s) <= SumOf(s)
<1> DEFINE n == Len(s)
           up == [i \in 1..n |-> 1]
           down == [i \in 1..n |-> -1]
           level == [i \in 1..n |-> 0]
<1>1. /\ s \in Seq(Int) /\ n \in Nat
      /\ \A i \in 1..n : s[i] \in Int /\ s[i] <= 1 /\ -1 <= s[i]
  BY LenProperties, ElementOfSeq, QueueGrows
<1>2. /\ up \in Seq(Int) /\ down \in Seq(Int) /\ level \in Seq(Int)
      /\ Len(up) = n /\ Len(down) = n /\ Len(level) = n
      /\ \A i \in 1..n : up[i] = 1 /\ down[i] = -1 /\ level[i] = 0
  BY <1>1, FunctionSeq
<1> HIDE DEF up, down, level
<1>3. SumOf(s) <= SumOf(up) /\ SumOf(down) <= SumOf(s)
  <2>1. \A i \in 1..n : s[i] <= up[i] /\ down[i] <= s[i]
    BY <1>1, <1>2
  <2>2. Len(s) = n
    OBVIOUS
  <2> HIDE DEF n
  <2> QED BY <1>1, <1>2, <2>1, <2>2, SumAtMost
<1>4. SumOf(up) = n /\ SumOf(level) = 0 /\ SumOf(level) = SumOf(up) + SumOf(down)
  <2>1. SumOf(up) = n
    BY <1>2, SumOnes
  <2>2. SumOf(level) = 0
    BY <1>2, SumZero
  <2>3. SumOf(level) = SumOf(up) + SumOf(down)
    <3>1. Len(up) = Len(down) /\ Len(level) = Len(down)
          /\ \A i \in 1..Len(down) : level[i] = up[i] + down[i]
      BY <1>2
    <3> QED BY <1>2, <3>1, SumPlus
  <2> QED BY <2>1, <2>2, <2>3
<1>5. SumOf(s) \in Int /\ SumOf(down) \in Int
  BY <1>1, <1>2, SumInt
<1> QED
  BY <1>1, <1>3, <1>4, <1>5

(* The lots of the orders of a side, of a book and of one with less in it. *)
LEMMA LotsIn ==
  ASSUME NEW w, NEW side, NEW x
  PROVE  x \in LotsOf(w, side) <=> \E l \in DOMAIN w : \E n \in 1..w[l] : l.side = side /\ x = <<l, n>>
BY DEF LotsOf

LEMMA LotsWithin ==
  ASSUME NEW w, NEW v, NEW side, IsFiniteSet(LotsOf(w, side)),
         \A l \in DOMAIN v : l.side = side => l \in DOMAIN w /\ v[l] = w[l]
  PROVE  /\ IsFiniteSet(LotsOf(v, side))
         /\ Cardinality(LotsOf(v, side)) \in Nat /\ Cardinality(LotsOf(w, side)) \in Nat
         /\ Cardinality(LotsOf(v, side)) <= Cardinality(LotsOf(w, side))
<1>1. LotsOf(v, side) \subseteq LotsOf(w, side)
  <2> SUFFICES ASSUME NEW x \in LotsOf(v, side) PROVE x \in LotsOf(w, side)
    OBVIOUS
  <2>1. PICK l \in DOMAIN v, n \in Nat : n \in 1..v[l] /\ l.side = side /\ x = <<l, n>>
    BY LotsIn
  <2>2. l \in DOMAIN w /\ n \in 1..w[l]
    BY <2>1
  <2> QED BY <2>1, <2>2, LotsIn
<1> QED
  BY <1>1, FS_Subset, FS_CardinalityType

(* One lot less of one order. *)
LEMMA LotTraded ==
  ASSUME NEW w, Sound(w), Countable(w), NEW leg \in DOMAIN w, NEW v,
         DOMAIN v = {l \in DOMAIN w : l # leg \/ w[l] > 1},
         \A l \in DOMAIN v : v[l] = IF l = leg THEN w[l] - 1 ELSE w[l]
  PROVE  /\ Sound(v) /\ Countable(v)
         /\ \A side \in QuoteSides :
              Cardinality(LotsOf(v, side))
                = Cardinality(LotsOf(w, side)) - IF leg.side = side THEN 1 ELSE 0
<1>1. Sound(v)
  BY DEF Sound
<1>2. ASSUME NEW side \in QuoteSides, leg.side # side
      PROVE  LotsOf(v, side) = LotsOf(w, side)
  <2>1. ASSUME NEW x PROVE x \in LotsOf(v, side) <=> x \in LotsOf(w, side)
    <3>1. \A l : l.side = side => (l \in DOMAIN v <=> l \in DOMAIN w) /\ (l \in DOMAIN v => v[l] = w[l])
      BY <1>2
    <3> QED BY <3>1, LotsIn
  <2> QED BY <2>1
<1>3. ASSUME NEW side \in QuoteSides, leg.side = side
      PROVE  /\ <<leg, w[leg]>> \in LotsOf(w, side)
             /\ LotsOf(v, side) = LotsOf(w, side) \ {<<leg, w[leg]>>}
  <2>1. w[leg] \in Nat \ {0}
    BY DEF Sound
  <2>2. <<leg, w[leg]>> \in LotsOf(w, side)
    BY <1>3, <2>1, LotsIn
  <2>3. ASSUME NEW x \in LotsOf(v, side) PROVE x \in LotsOf(w, side) \ {<<leg, w[leg]>>}
    <3>1. PICK l \in DOMAIN v, n \in Nat : n \in 1..v[l] /\ l.side = side /\ x = <<l, n>>
      BY LotsIn
    <3>2. w[l] \in Nat \ {0} /\ l \in DOMAIN w /\ v[l] = IF l = leg THEN w[l] - 1 ELSE w[l]
      BY DEF Sound
    <3>3. n \in 1..w[l] /\ (l = leg => n # w[leg])
      BY <3>1, <3>2
    <3> QED BY <3>1, <3>2, <3>3, LotsIn
  <2>4. ASSUME NEW x \in LotsOf(w, side), x # <<leg, w[leg]>> PROVE x \in LotsOf(v, side)
    <3>1. PICK l \in DOMAIN w, n \in Nat : n \in 1..w[l] /\ l.side = side /\ x = <<l, n>>
      BY LotsIn
    <3>2. w[l] \in Nat \ {0}
      BY DEF Sound
    <3>3. l = leg => n # w[l]
      BY <2>4, <3>1
    <3>4. l \in DOMAIN v /\ n \in 1..v[l]
      BY <3>1, <3>2, <3>3
    <3> QED BY <3>1, <3>4, LotsIn
  <2> QED BY <2>2, <2>3, <2>4
<1>4. ASSUME NEW side \in QuoteSides
      PROVE  /\ IsFiniteSet(LotsOf(v, side))
             /\ Cardinality(LotsOf(v, side))
                  = Cardinality(LotsOf(w, side)) - IF leg.side = side THEN 1 ELSE 0
  <2>1. IsFiniteSet(LotsOf(w, side)) /\ Cardinality(LotsOf(w, side)) \in Nat
    BY FS_CardinalityType DEF Countable
  <2>2. CASE leg.side = side
    BY <1>3, <2>1, <2>2, FS_RemoveElement
  <2>3. CASE leg.side # side
    BY <1>2, <2>1, <2>3
  <2> QED BY <2>2, <2>3
<1> QED
  BY <1>1, <1>4 DEF Countable

(* So many orders of one size. *)
LEMMA LadderLots ==
  ASSUME NEW legs, NEW side, NEW n \in Nat, NEW q \in Nat, NEW g,
         \A l \in legs : l.side = side => l.qty = q /\ \E i \in 1..n : l = g[i]
  PROVE  /\ IsFiniteSet(LotsOf(Asking(legs), side))
         /\ Cardinality(LotsOf(Asking(legs), side)) <= q * n
<1> DEFINE S == LotsOf(Asking(legs), side)
           P == (1..q) \X (1..n)
           at(l) == CHOOSE i \in 1..n : l = g[i]
           f == [x \in S |-> <<x[2], at(x[1])>>]
<1>1. ASSUME NEW x \in S
      PROVE  /\ x = <<x[1], x[2]>> /\ x[2] \in 1..q
             /\ at(x[1]) \in 1..n /\ x[1] = g[at(x[1])]
  <2>1. PICK l \in legs, k \in Nat : k \in 1..l.qty /\ l.side = side /\ x = <<l, k>>
    BY LotsIn DEF Asking
  <2>2. l.qty = q /\ \E i \in 1..n : l = g[i]
    BY <2>1
  <2>3. at(l) \in 1..n /\ l = g[at(l)]
    BY <2>2
  <2> QED BY <2>1, <2>2, <2>3
<1>2. f \in Injection(S, P)
  <2>1. f \in [S -> P]
    BY <1>1
  <2>2. \A x \in S : f[x] = <<x[2], at(x[1])>>
    OBVIOUS
  <2> HIDE DEF f, at, S
  <2>3. ASSUME NEW x \in S, NEW y \in S, f[x] = f[y] PROVE x = y
    <3>1. <<x[2], at(x[1])>> = <<y[2], at(y[1])>>
      BY <2>2, <2>3
    <3>2. at(x[1]) = at(y[1]) /\ x[2] = y[2]
      BY <3>1
    <3> QED BY <3>2, <1>1
  <2> QED BY <2>1, <2>3 DEF Injection, IsInjective
<1>3. IsFiniteSet(P) /\ Cardinality(P) = q * n
  <2>1. IsFiniteSet(1..n) /\ IsFiniteSet(1..q) /\ Cardinality(1..n) = n /\ Cardinality(1..q) = q
    BY FS_Interval
  <2>2. IsFiniteSet((1..q) \X (1..n))
        /\ Cardinality((1..q) \X (1..n)) = Cardinality(1..q) * Cardinality(1..n)
    BY <2>1, FS_Product, Zenon
  <2> QED BY <2>1, <2>2
<1> HIDE DEF f, P
<1> QED
  BY <1>2, <1>3, FS_Injection

----------------------------------------------------------------------------
(* What a strategy asks for on a side: up to n orders of its size, and only where its
   position allows the side. *)
Ladder(legs, n) ==
  \E price : \A l \in legs : \E side \in Open, i \in 1..n : l = Leg(side, price[<<side, i>>])

Rungs == IF maker \in {"grid", "glft"} THEN Levels ELSE 1

LEMMA Pruned ==
  ASSUME NEW legs, NEW n, Ladder(legs, n), NEW some, some \subseteq legs
  PROVE  Ladder(some, n)
<1>1. PICK price : \A l \in legs : \E side \in Open, i \in 1..n : l = Leg(side, price[<<side, i>>])
  BY DEF Ladder
<1>2. \A l \in some : \E side \in Open, i \in 1..n : l = Leg(side, price[<<side, i>>])
  BY <1>1
<1> QED BY <1>2 DEF Ladder

LEMMA OnePerSide ==
  ASSUME NEW legs, NEW price, \A l \in legs : \E side \in Open : l = Leg(side, price[side])
  PROVE  Ladder(legs, 1)
<1> DEFINE p == [x \in QuoteSides \X (1..1) |-> price[x[1]]]
<1>1. ASSUME NEW side \in Open
      PROVE  1 \in 1..1 /\ p[<<side, 1>>] = price[side]
  <2>1. 1 \in 1..1 /\ <<side, 1>> \in QuoteSides \X (1..1)
    BY DEF Open
  <2> QED BY <2>1
<1> HIDE DEF p
<1>2. \A l \in legs : \E side \in Open, i \in 1..1 : l = Leg(side, p[<<side, i>>])
  BY <1>1
<1> QED BY <1>2 DEF Ladder

(* The seven strategies: a ladder of their size, or the order of the one that fades. *)
LEMMA WantedIs == Wanted = MeanReversion \/ Ladder(Wanted, Rungs)
<1>1. ASSUME NEW centre PROVE Ladder(TwoSided(centre), 1)
  <2> DEFINE at(side) == centre + Skew + Away(side) * HalfSpread
             price == [side \in QuoteSides |-> at(side)]
  <2>1. ASSUME NEW l \in TwoSided(centre) PROVE \E side \in Open : l = Leg(side, at(side))
    BY DEF TwoSided
  <2>2. ASSUME NEW side \in Open PROVE price[side] = at(side)
    BY DEF Open
  <2> HIDE DEF at, price
  <2> QED BY <2>1, <2>2, OnePerSide
<1>2. ASSUME NEW half PROVE Ladder(OnHeld(half), 1)
  <2> DEFINE price == [side \in QuoteSides |-> Held(side, half)]
  <2>1. ASSUME NEW l \in OnHeld(half) PROVE \E side \in Open : l = Leg(side, Held(side, half))
    BY DEF OnHeld
  <2>2. ASSUME NEW side \in Open PROVE price[side] = Held(side, half)
    BY DEF Open
  <2> HIDE DEF price
  <2> QED BY <2>1, <2>2, OnePerSide
<1>3. Ladder(Grid, Levels)
  <2> DEFINE rung(side, i) == Mid + Skew + Away(side) * i * Step
             p == [x \in QuoteSides \X (1..Levels) |-> rung(x[1], x[2])]
  <2>1. ASSUME NEW l \in Grid
        PROVE  \E side \in Open, i \in 1..Levels : l = Leg(side, rung(side, i))
    BY DEF Grid
  <2>2. ASSUME NEW side \in Open, NEW i \in 1..Levels PROVE p[<<side, i>>] = rung(side, i)
    BY DEF Open
  <2> HIDE DEF rung, p
  <2>3. \A l \in Grid : \E side \in Open, i \in 1..Levels : l = Leg(side, p[<<side, i>>])
    BY <2>1, <2>2
  <2> QED BY <2>3 DEF Ladder
<1>4. Ladder(Glft, Levels)
  <2> DEFINE rung(side, i) == Held(side, HalfSpread) + Away(side) * i * Step
             p == [x \in QuoteSides \X (1..Levels) |-> rung(x[1], x[2] - 1)]
  <2>1. ASSUME NEW l \in Glft
        PROVE  \E side \in Open, i \in 0..(Levels - 1) : l = Leg(side, rung(side, i))
    <3>1. PICK k \in OnHeld(HalfSpread), i \in 0..(Levels - 1) :
            l = Leg(k.side, k.price + Away(k.side) * i * Step)
      BY DEF Glft
    <3>2. PICK side \in Open : k = Leg(side, Held(side, HalfSpread))
      BY DEF OnHeld
    <3>3. k.side = side /\ k.price = Held(side, HalfSpread)
      BY <3>2 DEF Leg
    <3> QED BY <3>1, <3>3
  <2>2. ASSUME NEW side \in Open, NEW i \in 0..(Levels - 1)
        PROVE  i + 1 \in 1..Levels /\ p[<<side, i + 1>>] = rung(side, i)
    <3>1. i + 1 \in 1..Levels /\ (i + 1) - 1 = i
      BY QuotesAssumption
    <3>2. <<side, i + 1>> \in QuoteSides \X (1..Levels)
      BY <3>1 DEF Open
    <3>3. p[<<side, i + 1>>] = rung(side, (i + 1) - 1)
      BY <3>2
    <3> HIDE DEF p, rung
    <3> QED BY <3>1, <3>3
  <2> HIDE DEF rung, p
  <2>3. \A l \in Glft : \E side \in Open, i \in 1..Levels : l = Leg(side, p[<<side, i>>])
    BY <2>1, <2>2
  <2> QED BY <2>3 DEF Ladder
<1>5. /\ ObiAlpha \subseteq OnHeld(HalfSpread)
      /\ AvellanedaStoikov \subseteq OnHeld(Half)
  BY DEF ObiAlpha, AvellanedaStoikov
<1>6. Ladder(ObiAlpha, 1) /\ Ladder(AvellanedaStoikov, 1)
  BY <1>2, <1>5, Pruned
<1>7. Ladder(MarketMaking, 1) /\ Ladder(MicropriceMM, 1)
  BY <1>1 DEF MarketMaking, MicropriceMM
<1> QED
  BY <1>3, <1>4, <1>6, <1>7 DEF Wanted, Rungs

(* The order of the one that fades, for its size or its whole position. *)
LEMMA FadesOne ==
  ASSUME booked \in Int
  PROVE  \/ MeanReversion = {}
         \/ \E side \in QuoteSides, q \in Nat \ {0} :
              /\ MeanReversion = {[side |-> side, price |-> None, qty |-> q]}
              /\ q - Away(side) * booked <= Size
BY QuotesAssumption DEF MeanReversion, QuoteSides, Away

(* A ladder fits the position it is made for. *)
LEMMA LadderFits ==
  ASSUME NEW legs, Ladder(legs, Rungs), booked \in Int, Wanted # MeanReversion
  PROVE  Suits(legs, booked)
<1>1. PICK price : \A l \in legs : \E side \in Open, i \in 1..Rungs : l = Leg(side, price[<<side, i>>])
  BY DEF Ladder
<1>2. Rungs \in Nat /\ Size \in Nat \ {0} /\ MaxInventory \in Nat /\ Size * Rungs \in Nat
      /\ Limit = MaxInventory - 1 + Size * Rungs
  <2>1. maker # "mean_reversion"
    BY DEF Wanted
  <2>2. Rungs \in Nat /\ Size \in Nat \ {0} /\ MaxInventory \in Nat
    BY QuotesAssumption DEF Rungs
  <2> QED BY <2>1, <2>2 DEF Limit, Rungs
<1>3. ASSUME NEW l \in legs
      PROVE  l.side \in Open /\ l.side \in QuoteSides /\ l.qty = Size
             /\ \E i \in 1..Rungs : l = Leg(l.side, price[<<l.side, i>>])
  <2>1. PICK side \in Open, i \in 1..Rungs : l = Leg(side, price[<<side, i>>])
    BY <1>1
  <2>2. l.side = side /\ l.qty = Size /\ side \in QuoteSides
    BY <2>1 DEF Leg, Open
  <2> QED BY <2>1, <2>2
<1>4. ASSUME NEW side \in QuoteSides
      PROVE  /\ IsFiniteSet(LotsOf(Asking(legs), side))
             /\ Cardinality(LotsOf(Asking(legs), side)) <= Size * Rungs
  <2> DEFINE g == [i \in 1..Rungs |-> Leg(side, price[<<side, i>>])]
  <2>1. ASSUME NEW l \in legs, l.side = side PROVE l.qty = Size /\ \E i \in 1..Rungs : l = g[i]
    BY <1>3, <2>1
  <2> HIDE DEF g
  <2> QED BY <1>2, <2>1, LadderLots
<1>5. ASSUME NEW side \in QuoteSides, NEW l \in legs, l.side = side
      PROVE  Cardinality(LotsOf(Asking(legs), side)) - Away(side) * booked <= Limit
  <2>1. side \in Open
    BY <1>3, <1>5
  <2>2. - Away(side) * booked <= MaxInventory - 1
    BY <1>2, <2>1, QuotesAssumption DEF Open, Allowed, Away, QuoteSides
  <2>3. Cardinality(LotsOf(Asking(legs), side)) \in Nat
    BY <1>4, FS_CardinalityType
  <2>4. Away(side) * booked \in Int /\ -Away(side) * booked = -(Away(side) * booked)
    BY DEF Away, QuoteSides
  <2> QED BY <1>2, <1>4, <2>2, <2>3, <2>4
<1>6. Sound(Asking(legs))
  BY <1>2, <1>3 DEF Sound, Asking
<1>7. Countable(Asking(legs))
  BY <1>4 DEF Countable
<1> QED
  BY <1>5, <1>6, <1>7 DEF Suits

LEMMA WantedFits ==
  ASSUME booked \in Int
  PROVE  Suits(Wanted, booked)
<1>1. CASE Wanted = MeanReversion
  <2>1. ASSUME Wanted = {} PROVE Suits(Wanted, booked)
    <3>1. \A side : LotsOf(Asking({}), side) = {}
      BY DEF LotsOf, Asking
    <3> QED BY <2>1, <3>1, FS_EmptySet DEF Suits, Sound, Countable, Asking
  <2>2. ASSUME NEW side \in QuoteSides, NEW q \in Nat \ {0},
               Wanted = {[side |-> side, price |-> None, qty |-> q]},
               q - Away(side) * booked <= Size
        PROVE  Suits(Wanted, booked)
    <3> DEFINE leg == [side |-> side, price |-> None, qty |-> q]
               g == [i \in 1..1 |-> leg]
               w == Asking(Wanted)
    <3>1. \A l \in Wanted : l = leg /\ l = g[1] /\ l.side = side /\ l.qty = q /\ 1 \in 1..1
      BY <2>2
    <3>2. \A l \in DOMAIN w : l.side \in QuoteSides /\ w[l] \in Nat \ {0}
      BY <3>1 DEF Asking
    <3> HIDE DEF g, leg, w
    <3>3. ASSUME NEW s \in QuoteSides
          PROVE  IsFiniteSet(LotsOf(w, s)) /\ Cardinality(LotsOf(w, s)) <= q * 1
      <4>1. \A l \in Wanted : l.side = s => l.qty = q /\ \E i \in 1..1 : l = g[i]
        BY <3>1
      <4>2. q \in Nat /\ 1 \in Nat
        OBVIOUS
      <4> QED BY <4>1, <4>2, LadderLots DEF w
    <3>4. Cardinality(LotsOf(w, side)) - Away(side) * booked <= Size
      <4>1. Cardinality(LotsOf(w, side)) \in Nat
        BY <3>3, FS_CardinalityType
      <4>2. Away(side) * booked \in Int
        BY DEF Away, QuoteSides
      <4> QED BY <4>1, <4>2, <3>3, <2>2, QuotesAssumption
    <3>5. Size <= Limit /\ Size \in Int /\ Limit \in Int
      <4>1. Size * Levels >= Size /\ Size * Levels \in Int
        BY QuotesAssumption
      <4> QED BY <4>1, QuotesAssumption DEF Limit
    <3>6. Cardinality(LotsOf(w, side)) - Away(side) * booked <= Limit
      <4>1. Cardinality(LotsOf(w, side)) \in Nat
        BY <3>3, FS_CardinalityType
      <4>2. Away(side) * booked \in Int
        BY DEF Away, QuoteSides
      <4> QED BY <3>4, <3>5, <4>1, <4>2
    <3> QED BY <3>1, <3>2, <3>3, <3>6 DEF Suits, Sound, Countable, w
  <2> QED BY <1>1, <2>1, <2>2, FadesOne
<1>2. CASE Wanted # MeanReversion
  BY <1>2, WantedIs, LadderFits
<1> QED BY <1>1, <1>2

----------------------------------------------------------------------------
(* What works after a step is, side by side, of the signal that was worked or of what
   worked before. *)
Of(v, w, side) == \A l \in DOMAIN v : l.side = side => l \in DOMAIN w /\ v[l] = w[l]

LEMMA BookChanges ==
  ASSUME QuotesInv, UNCHANGED <<maker, inventory, booked, late>>, Sound(bookOf'),
         sentQ' = << >>,
         \A side \in QuoteSides :
           \/ Of(bookOf', bookOf, side)
           \/ /\ sentQ # << >> /\ \E l \in Head(sentQ).legs : l.side = side
              /\ Of(bookOf', Asking(Head(sentQ).legs), side)
  PROVE  QuotesInv'
<1>1. ASSUME NEW side \in QuoteSides
      PROVE  IsFiniteSet(LotsOf(bookOf', side)) /\ Exposure(side)' <= Limit + MaxSurprise
  <2> DEFINE v == bookOf'
             w == bookOf
  <2>0. /\ Cardinality(LotsOf(v, side)) - Away(side) * inventory = Exposure(side)'
        /\ Cardinality(LotsOf(w, side)) - Away(side) * inventory = Exposure(side)
        /\ Exposure(side) <= Limit + MaxSurprise
    BY DEF Exposure, QuotesInv, InventoryBounded
  <2>9. Limit \in Int /\ Away(side) * inventory \in Int /\ MaxSurprise \in Nat
    <3>1. Size * Levels \in Int
      BY QuotesAssumption
    <3> QED BY <3>1, QuotesAssumption DEF QuotesInv, Limit, Away
  <2>1. CASE Of(v, w, side)
    <3>1. IsFiniteSet(LotsOf(w, side))
      BY DEF QuotesInv, Countable
    <3>2. /\ IsFiniteSet(LotsOf(v, side))
          /\ Cardinality(LotsOf(v, side)) \in Nat /\ Cardinality(LotsOf(w, side)) \in Nat
          /\ Cardinality(LotsOf(v, side)) <= Cardinality(LotsOf(w, side))
      BY <2>1, <3>1, LotsWithin DEF Of
    <3> QED BY <2>0, <2>9, <3>2
  <2>2. ASSUME sentQ # << >>, \E l \in Head(sentQ).legs : l.side = side,
               Of(v, Asking(Head(sentQ).legs), side)
        PROVE  IsFiniteSet(LotsOf(v, side)) /\ Exposure(side)' <= Limit + MaxSurprise
    <3> DEFINE s == Head(sentQ)
               u == Asking(s.legs)
    <3>1. /\ Near(inventory, s.booked) /\ Countable(u)
          /\ Cardinality(LotsOf(u, side)) - Away(side) * s.booked <= Limit
      BY <2>2 DEF QuotesInv, Suits
    <3>2. IsFiniteSet(LotsOf(u, side))
      BY <3>1 DEF Countable
    <3>3. /\ IsFiniteSet(LotsOf(v, side))
          /\ Cardinality(LotsOf(v, side)) \in Nat /\ Cardinality(LotsOf(u, side)) \in Nat
          /\ Cardinality(LotsOf(v, side)) <= Cardinality(LotsOf(u, side))
      BY <2>2, <3>2, LotsWithin DEF Of
    <3>4. /\ Away(side) * s.booked \in Int
          /\ Away(side) * s.booked - Away(side) * inventory <= MaxSurprise
      BY <3>1, QuotesAssumption DEF Near, Away, QuoteSides
    <3> HIDE DEF s, u, v
    <3>5. Cardinality(LotsOf(v, side)) - Away(side) * inventory <= Limit + MaxSurprise
      BY <2>9, <3>1, <3>3, <3>4
    <3> QED BY <2>0, <3>3, <3>5
  <2> QED BY <2>1, <2>2
<1>2. Limit' = Limit
  BY DEF Limit
<1> QED
  BY <1>1, <1>2 DEF QuotesInv, InventoryBounded, Countable

LEMMA WorksKeeps == ASSUME QuotesInv, Works PROVE QuotesInv'
<1> DEFINE legs == Head(sentQ).legs
           fresh == IF maker = "mean_reversion"
                    THEN {l \in legs : \A o \in DOMAIN bookOf : o.side # l.side}
                    ELSE {l \in legs : Guarded(l)}
           stays == IF maker = "mean_reversion" THEN DOMAIN bookOf ELSE {}
<1>1. /\ sentQ # << >> /\ sentQ' = << >>
      /\ bookOf' = [l \in fresh \union stays |-> IF l \in fresh THEN l.qty ELSE bookOf[l]]
      /\ UNCHANGED <<maker, inventory, booked, late>>
  BY DEF Works
<1>2. /\ fresh \subseteq legs /\ stays \subseteq DOMAIN bookOf
      /\ \A l \in fresh : \A o \in stays : o.side # l.side
  OBVIOUS
<1>3. Sound(Asking(legs)) /\ Sound(bookOf)
  BY <1>1 DEF QuotesInv, Suits
<1>4. /\ \A l \in legs : l.side \in QuoteSides /\ l.qty \in Nat \ {0}
      /\ \A l \in DOMAIN bookOf : l.side \in QuoteSides /\ bookOf[l] \in Nat \ {0}
  BY <1>3 DEF Sound, Asking
<1> HIDE DEF fresh, stays, legs
<1>5. /\ DOMAIN bookOf' = fresh \union stays
      /\ \A l \in fresh : bookOf'[l] = l.qty
      /\ \A l \in stays : l \notin fresh => bookOf'[l] = bookOf[l]
  BY <1>1
<1>6. Sound(bookOf')
  BY <1>2, <1>4, <1>5 DEF Sound
<1>7. ASSUME NEW side \in QuoteSides
      PROVE  \/ Of(bookOf', bookOf, side)
             \/ (\E l \in legs : l.side = side) /\ Of(bookOf', Asking(legs), side)
  <2>1. CASE \E l \in fresh : l.side = side
    <3>1. Of(bookOf', Asking(legs), side)
      BY <1>2, <1>5, <2>1 DEF Of, Asking
    <3> QED BY <1>2, <2>1, <3>1
  <2>2. CASE ~\E l \in fresh : l.side = side
    BY <1>2, <1>5, <2>2 DEF Of
  <2> QED BY <2>1, <2>2
<1> QED
  BY <1>1, <1>6, <1>7, BookChanges DEF legs

LEMMA FailsKeeps == ASSUME QuotesInv, NEW blocked, Fails(blocked) PROVE QuotesInv'
<1>1. /\ sentQ' = << >> /\ UNCHANGED <<maker, inventory, booked, late>>
      /\ bookOf' = bookOf \/ bookOf' = << >>
  BY DEF Fails
<1>2. DOMAIN << >> = {}
  OBVIOUS
<1>3. Sound(bookOf') /\ \A side \in QuoteSides : Of(bookOf', bookOf, side)
  BY <1>1, <1>2 DEF QuotesInv, Sound, Of
<1> QED
  BY <1>1, <1>3, BookChanges

(* What was not yet booked when a signal is made. *)
LEMMA LateReaches ==
  ASSUME QuotesInv
  PROVE  Near(inventory, booked)
<1>1. SumOf(late) \in Int /\ SumOf(late) <= Len(late) /\ -Len(late) <= SumOf(late)
  BY StepsReach DEF QuotesInv
<1>2. Len(late) \in Nat
  BY LenProperties DEF QuotesInv
<1> QED
  BY <1>1, <1>2, QuotesAssumption DEF QuotesInv, Near

LEMMA TickKeeps == ASSUME QuotesInv, OnTick PROVE QuotesInv'
<1> DEFINE new == [legs |-> Wanted, booked |-> booked]
<1>1. /\ UNCHANGED <<maker, bookOf, inventory, booked, late>>
      /\ sentQ' = sentQ \/ sentQ' = <<new>>
  BY DEF OnTick
<1>2. Near(inventory, booked) /\ Suits(Wanted, booked)
  BY LateReaches, WantedFits DEF QuotesInv
<1>3. sentQ' # << >> => LET s == Head(sentQ') IN Near(inventory, s.booked) /\ Suits(s.legs, s.booked)
  <2>1. CASE sentQ' = sentQ
    BY <2>1 DEF QuotesInv
  <2>2. CASE sentQ' = <<new>>
    <3>1. Head(sentQ') = new /\ new.booked = booked /\ new.legs = Wanted
      BY <2>2
    <3> HIDE DEF new
    <3> QED BY <3>1, <1>2
  <2> QED BY <1>1, <2>1, <2>2
<1>4. Limit' = Limit
  BY <1>1 DEF Limit
<1> QED
  BY <1>1, <1>3, <1>4 DEF QuotesInv, Suits, InventoryBounded, Exposure

LEMMA TradeKeeps == ASSUME QuotesInv, NEW leg \in DOMAIN bookOf, Trades(leg) PROVE QuotesInv'
<1> DEFINE w == bookOf
           v == bookOf'
           d == -Away(leg.side)
<1>1. /\ v = [l \in {l \in DOMAIN w : l # leg \/ w[l] > 1} |-> IF l = leg THEN w[l] - 1 ELSE w[l]]
      /\ inventory' = inventory - Away(leg.side)
      /\ inventory' - Reckoned \in -MaxSurprise..MaxSurprise
      /\ Len(late) < MaxSurprise /\ late' = Append(late, d)
      /\ UNCHANGED <<maker, sentQ, booked>>
  BY DEF Trades
<1>2. leg.side \in QuoteSides /\ d \in {-1, 1} /\ inventory' = inventory + d
      /\ inventory' \in Int
  <2>1. leg.side \in QuoteSides /\ inventory \in Int
    BY DEF QuotesInv, Sound
  <2>2. Away(leg.side) \in {-1, 1}
    BY <2>1 DEF QuoteSides, Away
  <2> QED BY <1>1, <2>1, <2>2
<1>3. /\ Sound(v) /\ Countable(v)
      /\ \A side \in QuoteSides :
           Cardinality(LotsOf(v, side))
             = Cardinality(LotsOf(w, side)) - IF leg.side = side THEN 1 ELSE 0
  <2>1. /\ DOMAIN v = {l \in DOMAIN w : l # leg \/ w[l] > 1}
        /\ \A l \in DOMAIN v : v[l] = IF l = leg THEN w[l] - 1 ELSE w[l]
    BY <1>1
  <2>2. Sound(w) /\ Countable(w)
    BY DEF QuotesInv
  <2> HIDE DEF v, w
  <2> QED BY <2>1, <2>2, LotTraded DEF w
<1>4. /\ late' \in Seq({-1, 1}) /\ Len(late') <= MaxSurprise
      /\ inventory' = booked + SumOf(late')
  <2>1. late \in Seq({-1, 1}) /\ late \in Seq(Int) /\ d \in Int
    BY <1>2, QueueGrows DEF QuotesInv
  <2>2. SumOf(late') = SumOf(late) + d /\ SumOf(late) \in Int
    BY <1>1, <2>1, SumAppend, SumInt
  <2>3. Len(late') = Len(late) + 1 /\ Len(late) \in Nat /\ late' \in Seq({-1, 1})
    BY <1>1, <1>2, <2>1
  <2>4. inventory = booked + SumOf(late) /\ booked \in Int
    BY DEF QuotesInv
  <2>5. inventory' = booked + SumOf(late')
    BY <1>2, <2>1, <2>2, <2>4
  <2>6. Len(late') <= MaxSurprise
    BY <1>1, <2>3, QuotesAssumption
  <2> QED BY <1>1, <2>3, <2>5, <2>6
<1>5. sentQ # << >> => LET s == Head(sentQ) IN Near(inventory', s.booked) /\ Suits(s.legs, s.booked)
  BY <1>1, <1>2 DEF Reckoned, QuotesInv, Near
<1>6. ASSUME NEW side \in QuoteSides PROVE Exposure(side)' <= Limit + MaxSurprise
  <2>1. /\ Exposure(side)' = Cardinality(LotsOf(v, side)) - Away(side) * inventory'
        /\ Exposure(side) = Cardinality(LotsOf(w, side)) - Away(side) * inventory
        /\ Exposure(side) <= Limit + MaxSurprise
    BY DEF Exposure, QuotesInv, InventoryBounded
  <2>2. Cardinality(LotsOf(w, side)) \in Nat
    BY FS_CardinalityType DEF QuotesInv, Countable
  <2>3. /\ Away(side) * inventory \in Int /\ Away(side) * inventory' \in Int
        /\ leg.side = side => Away(side) * inventory' = Away(side) * inventory - 1
        /\ leg.side # side => Away(side) * inventory' = Away(side) * inventory + 1
    BY <1>1, <1>2 DEF Away, QuoteSides, QuotesInv
  <2>4. Limit + MaxSurprise \in Int
    <3>1. Size * Levels \in Int
      BY QuotesAssumption
    <3> QED BY <3>1, QuotesAssumption DEF Limit
  <2>5. Cardinality(LotsOf(v, side)) = Cardinality(LotsOf(w, side)) - IF leg.side = side THEN 1 ELSE 0
    BY <1>3
  <2> HIDE DEF v, w, d
  <2> QED BY <2>1, <2>2, <2>3, <2>4, <2>5
<1>7. Limit' = Limit
  BY <1>1 DEF Limit
<1> HIDE DEF d
<1> QED
  BY <1>1, <1>2, <1>3, <1>4, <1>5, <1>6, <1>7 DEF QuotesInv, Suits, InventoryBounded

LEMMA BookedKeeps == ASSUME QuotesInv, Books PROVE QuotesInv'
<1>1. /\ late # << >> /\ late' = Tail(late) /\ booked' = booked + Head(late)
      /\ UNCHANGED <<maker, sentQ, bookOf, inventory>>
  BY DEF Books
<1>2. late \in Seq({-1, 1}) /\ late \in Seq(Int)
  BY QueueGrows DEF QuotesInv
<1>3. SumOf(late) = Head(late) + SumOf(late') /\ SumOf(late') \in Int /\ Head(late) \in Int
  <2>1. Head(late) = late[1] /\ Head(late) \in Int /\ late' \in Seq(Int)
    BY <1>1, <1>2
  <2> QED BY <1>1, <1>2, <2>1, SumTail, SumInt
<1>4. late' \in Seq({-1, 1}) /\ Len(late') <= Len(late) /\ Len(late') \in Nat /\ Len(late) \in Nat
  BY <1>1, <1>2
<1>5. Limit' = Limit
  BY <1>1 DEF Limit
<1> QED
  BY <1>1, <1>3, <1>4, <1>5, QuotesAssumption, SMTT(30) DEF QuotesInv, Suits, InventoryBounded, Exposure

LEMMA QuotesStep == QuotesInv /\ [QuotesNext]_quoteVars => QuotesInv'
<1> SUFFICES ASSUME QuotesInv, [QuotesNext]_quoteVars PROVE QuotesInv'
  OBVIOUS
<1>1. ASSUME UNCHANGED <<maker, sentQ, bookOf, inventory, booked, late>> PROVE QuotesInv'
  BY <1>1 DEF QuotesInv, Suits, InventoryBounded, Exposure, Limit
<1>2. CASE Cooled \/ CalmsDown \/ UNCHANGED quoteVars
  BY <1>1, <1>2 DEF Cooled, CalmsDown, quoteVars
<1> QED
  BY <1>2, TickKeeps, WorksKeeps, BookedKeeps, FailsKeeps, TradeKeeps DEF QuotesNext

LEMMA QuotesBegin == QuotesInit => QuotesInv
<1> SUFFICES ASSUME QuotesInit PROVE QuotesInv
  OBVIOUS
<1>1. /\ sentQ = << >> /\ bookOf = << >> /\ inventory = 0 /\ booked = 0 /\ late = << >>
      /\ DOMAIN bookOf = {} /\ late \in Seq({-1, 1}) /\ Len(late) = 0
  BY DEF QuotesInit
<1>2. ASSUME NEW side \in QuoteSides
      PROVE  /\ IsFiniteSet(LotsOf(bookOf, side)) /\ Cardinality(LotsOf(bookOf, side)) = 0
  <2>1. LotsOf(bookOf, side) = {}
    BY <1>1 DEF LotsOf
  <2> QED BY <2>1, FS_EmptySet
<1>3. Limit \in Int /\ Limit >= 0
  <2>1. Size * Levels \in Nat
    BY QuotesAssumption
  <2> QED BY <2>1, QuotesAssumption DEF Limit
<1>4. ASSUME NEW side \in QuoteSides PROVE Exposure(side) <= Limit + MaxSurprise
  BY <1>1, <1>2, <1>3, QuotesAssumption DEF Exposure, Away, QuoteSides
<1> QED
  BY <1>1, <1>2, <1>4, SumEmpty, QuotesAssumption DEF QuotesInv, Sound, Countable, InventoryBounded

(* However the market moves, fills are late and signals are lost: what rests on a side
   and the position stay within max_position, a ladder and the surprise (on_tick of the
   seven strategies). *)
THEOREM InventoryIsBounded == QuotesSpec => []InventoryBounded
<1>1. QuotesInv => InventoryBounded
  BY DEF QuotesInv
<1> QED
  BY <1>1, QuotesBegin, QuotesStep, PTL DEF QuotesSpec
=============================================================================
