----------------------------- MODULE RiskEngine -----------------------------
(***************************************************************************)
(* The risk engine (risk/engine.py) and its kill switch                    *)
(* (risk/kill_switch.py).  A handler never suspends on AsyncioBus, so the  *)
(* judgement of a signal is one step.                                      *)
(*                                                                         *)
(* fillQ is the engine's subscription to FILLS; verdictQ and alertQ are    *)
(* the OMS's to RISK_DECISIONS and ALERTS.                                 *)
(***************************************************************************)
EXTENDS RiskRules, FiniteSets, FiniteSetsExt

CONSTANTS MaxVerdictDrops

VARIABLES
  rules,     \* the rules registered, in order
  now,       \* the clock
  rs,        \* _state
  kill,      \* the kill switch: engaged, and by what
  fillQ,     \* fills waiting for the engine
  verdictQ,  \* decisions on their way to the OMS
  alertQ,    \* kill-switch events on their way to the OMS
  dropped,   \* _dropped_events
  judged     \* number of signals judged; a signal's id is its number

riskVars == <<rules, now, rs, kill, fillQ, verdictQ, alertQ, dropped, judged>>

NotEngaged == [on |-> FALSE, by |-> None]

RiskInit(ruleSets, instruments) ==
  /\ rules \in ruleSets
  /\ now = 0
  /\ rs = FreshRiskState(instruments)
  /\ kill = NotEngaged
  /\ fillQ = << >> /\ verdictQ = << >> /\ alertQ = << >>
  /\ dropped = 0 /\ judged = 0

----------------------------------------------------------------------------
(* Judging one leg                                                         *)

(* The state each rule finds: the reads of the rules before it have been at
   it, and from the second leg on those of every rule. *)
StateFor(r0, t) ==
  LET upTo[k \in 0..Len(rules)] == IF k = 0 THEN r0 ELSE AfterJudging(rules[k], upTo[k - 1], t)
  IN  upTo

Results(sig, j, r0, t) ==
  LET start == IF j = 1 THEN r0 ELSE StateFor(r0, t)[Len(rules)]
  IN  [k \in DOMAIN rules |-> Judge(rules[k], sig, j, StateFor(start, t)[k - 1], t)]

Rejecting(res) == {k \in DOMAIN res : ~res[k].ok}

(* next(r for r in results if not r.approved) *)
FirstReject(res) == Min(Rejecting(res))

(* The tightest clamp, the requested size being the ceiling. *)
Clamped(leg, res) ==
  Min({leg.qty} \union {res[k].clamp : k \in {k \in DOMAIN res : res[k].clamp # None}})

Sized(leg, q) == [leg EXCEPT !.qty = q]

BelowMinNotional(sig, leg, q) ==
  sig.minNotional > 0 /\ leg.price > 0 /\ leg.price * q < sig.minNotional

(* The severities compare by their names: BLOCK < INFO < KILL < WARN. *)
SeverityRank == [BLOCK |-> 1, INFO |-> 2, KILL |-> 3, WARN |-> 4]

WorstSeverity(S) ==
  CHOOSE x \in {"INFO"} \union S : \A y \in {"INFO"} \union S : SeverityRank[y] <= SeverityRank[x]

----------------------------------------------------------------------------
(* Judging a signal                                                        *)

(* The legs whose rejection trips the kill switch, and the rule that does it first. *)
Tripping(res) ==
  {j \in DOMAIN res : Rejecting(res[j]) # {} /\ res[j][FirstReject(res[j])].sev = "KILL"}

TrippedBy(res) ==
  IF Tripping(res) = {} THEN None ELSE rules[FirstReject(res[Min(Tripping(res))])].class

(***************************************************************************)
(* Legs are judged in order until one trips the kill switch, which rejects *)
(* the rest.  The legs before it stay approved unless the signal is        *)
(* atomic.                                                                 *)
(***************************************************************************)
Verdict(sig, r0, t) ==
  LET legs  == DOMAIN sig.legs
      res   == [j \in legs |-> Results(sig, j, r0, t)]
      heard == IF Tripping(res) = {} THEN legs ELSE 1..Min(Tripping(res))
      size  == [j \in legs |-> Clamped(sig.legs[j], res[j])]
      kept  == {j \in heard : /\ Rejecting(res[j]) = {}
                              /\ ~BelowMinNotional(sig, sig.legs[j], size[j])}
      sevs  == {res[j][k].sev : j \in heard, k \in DOMAIN rules}
      passed == kept # {} /\ (sig.atomic => kept = legs)
  IN  [approved |-> passed,
       legs |-> IF passed THEN [j \in kept |-> Sized(sig.legs[j], size[j])] ELSE << >>,
       sev  |-> IF passed THEN "INFO" ELSE WorstSeverity(sevs \cap DOMAIN SeverityRank),
       trip |-> TrippedBy(res)]

(* _safe_publish absorbs BackpressureError: the event is gone. *)
Sent(q, event, heard) == q' = IF heard THEN Append(q, event) ELSE q

Decision(sig, v) ==
  [id |-> judged + 1, inst |-> sig.inst, approved |-> v.approved, legs |-> v.legs,
   sev |-> v.sev]

Refusal(sig) == Decision(sig, [approved |-> FALSE, legs |-> << >>, sev |-> "KILL"])

(* Mutant: a latched switch is one more rule's reject, the others still decide. *)
OnSignalStillJudged(sig, heard) ==
  /\ kill.on
  /\ rs' = WithSignal(rs, now)
  /\ Sent(verdictQ, Decision(sig, Verdict(sig, rs, now)), heard)
  /\ UNCHANGED <<kill, alertQ>>

(* The kill switch short-circuits the rules; the signal still counts. *)
OnSignalKilled(sig, heard) ==
  /\ kill.on
  /\ rs' = WithSignal(rs, now)
  /\ Sent(verdictQ, Refusal(sig), heard)
  /\ UNCHANGED <<kill, alertQ>>

(* Mutant: was_engaged is read after the latch. *)
EngageThenLook(by, told) == kill' = [on |-> TRUE, by |-> by] /\ UNCHANGED alertQ

(* _engage_kill_switch: the first reason latches, and is published once. *)
Engage(by, told) ==
  IF kill.on
  THEN UNCHANGED <<kill, alertQ>>
  ELSE /\ kill' = [on |-> TRUE, by |-> by]
       /\ Sent(alertQ, by, told)

OnSignalJudged(sig, heard, told) ==
  LET r0 == WithSignal(rs, now)
      v  == Verdict(sig, r0, now)
  IN  /\ ~kill.on
      /\ rs' = StateFor(r0, now)[Len(rules)]
      /\ IF v.trip = None THEN told /\ UNCHANGED <<kill, alertQ>> ELSE Engage(v.trip, told)
      /\ Sent(verdictQ, Decision(sig, v), heard)

(* Losses counts the events lost, up to the bound. *)
Losses(n) == dropped' = dropped + n /\ dropped' <= MaxVerdictDrops

RiskOnSignal(sig) ==
  /\ \E heard, told \in BOOLEAN :
        /\ \/ told /\ OnSignalKilled(sig, heard)
           \/ OnSignalJudged(sig, heard, told)
        /\ Losses((IF heard THEN 0 ELSE 1) + (IF told THEN 0 ELSE 1))
  /\ judged' = judged + 1
  /\ UNCHANGED <<rules, now, fillQ>>

----------------------------------------------------------------------------
(* The other subscriptions, and the operator                               *)

RiskOnFill ==
  /\ fillQ # << >>
  /\ rs' = WithFill(rs, Head(fillQ))
  /\ fillQ' = Tail(fillQ)
  /\ UNCHANGED <<rules, now, kill, verdictQ, alertQ, dropped, judged>>

RiskOnUpdate(u) ==
  /\ rs' = WithUpdate(rs, u, now)
  /\ UNCHANGED <<rules, now, kill, fillQ, verdictQ, alertQ, dropped, judged>>

RiskOnAnalytics(i, v) ==
  /\ rs' = WithVpin(rs, i, v)
  /\ UNCHANGED <<rules, now, kill, fillQ, verdictQ, alertQ, dropped, judged>>

(* engage_kill_switch, the operator's trip. *)
OperatorEngages ==
  /\ \E told \in BOOLEAN :
        /\ told \/ ~kill.on
        /\ Engage("operator", told)
        /\ Losses(IF told THEN 0 ELSE 1)
  /\ UNCHANGED <<rules, now, rs, fillQ, verdictQ, judged>>

(* KillSwitch.reset *)
OperatorResets ==
  /\ kill.on
  /\ kill' = NotEngaged
  /\ UNCHANGED <<rules, now, rs, fillQ, verdictQ, alertQ, dropped, judged>>
=============================================================================
