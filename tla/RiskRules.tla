----------------------------- MODULE RiskRules -----------------------------
(***************************************************************************)
(* The pre-trade rules (risk/rules/).  A rule is a record of its class and *)
(* parameters; its verdict on a leg is approve, approve clamped to a       *)
(* quantity, or reject with a severity (risk/base.py, RuleResult).         *)
(***************************************************************************)
EXTENDS RiskState, Sums

Approve       == [ok |-> TRUE,  clamp |-> None, sev |-> "INFO"]
ClampTo(q)    == [ok |-> TRUE,  clamp |-> q,    sev |-> "INFO"]
Reject(sev)   == [ok |-> FALSE, clamp |-> None, sev |-> sev]

(* What the constructors of the rules accept. *)
RuleTypeOK(rule) ==
  CASE rule.class = "max_position"   -> rule.maxLong \in Nat /\ rule.maxShort \in Nat
    [] rule.class = "max_order_size" -> rule.maxQty \in Nat
    [] rule.class = "max_notional"   -> rule.maxNotional \in Nat
    [] rule.class = "throttle"       -> rule.maxSignals \in Nat /\ rule.window \in Nat
    [] rule.class = "vpin"           -> rule.threshold \in Nat /\ rule.sustained \in Nat
    [] OTHER -> rule.class \in {"daily_loss", "drawdown", "allowlist"}

(* Mutant: the legs of a signal do not share the cap. *)
NoSiblings(sig, j) == 0

(* Quantity asked for on one side by the legs of a signal other than leg j. *)
Siblings(sig, j) ==
  SumOf([k \in DOMAIN sig.legs |->
           IF k # j /\ sig.legs[k].side = sig.legs[j].side THEN sig.legs[k].qty ELSE 0])

MaxPosition(rule, sig, j, rs) ==
  LET leg  == sig.legs[j]
      room == IF leg.side = "BUY"
              THEN rule.maxLong - (rs.pos[sig.inst] + Siblings(sig, j))
              ELSE rs.pos[sig.inst] - Siblings(sig, j) + rule.maxShort
  IN  IF room <= 0 THEN Reject("BLOCK")
      ELSE IF room < leg.qty THEN ClampTo(room) ELSE Approve

MaxOrderSize(rule, leg) ==
  IF leg.qty <= rule.maxQty THEN Approve ELSE ClampTo(rule.maxQty)

(* A market leg has price 0 here; the rule cannot judge it. *)
MaxNotional(rule, leg) ==
  IF leg.price = 0 \/ leg.price * leg.qty <= rule.maxNotional THEN Approve
  ELSE IF rule.maxNotional \div leg.price <= 0 THEN Reject("BLOCK")
  ELSE ClampTo(rule.maxNotional \div leg.price)

(* The window holds the signal under judgement too. *)
Throttle(rule, rs, now) ==
  IF Len(Trimmed(rs, now, rule.window).recent) > rule.maxSignals THEN Reject("WARN") ELSE Approve

DailyLoss(rule, rs, now) ==
  IF RealizedToday(RolledOver(rs, now)) <= -rule.maxLoss THEN Reject("KILL") ELSE Approve

Drawdown(rule, rs) ==
  LET dd == DrawdownPct(rs)
  IN  IF dd = NoDrawdown THEN Approve
      ELSE IF dd >= rule.kill THEN Reject("KILL")
      ELSE IF dd >= rule.warn THEN Reject("WARN") ELSE Approve

(* Below the threshold evaluate hands approve a second positional argument;
   it raises, and the engine treats the exception as a reject. *)
Raised == Reject("BLOCK")

Vpin(rule, sig, rs) ==
  LET v == rs.vpin[sig.inst]
  IN  IF v = None THEN Approve
      ELSE IF v < rule.threshold THEN Raised
      ELSE IF BreachTicks(rs, sig.inst, rule.threshold) >= rule.sustained THEN Reject("KILL")
      ELSE Reject("BLOCK")

Allowlist(rule, sig) == IF sig.inst \in rule.allowed THEN Approve ELSE Reject("BLOCK")

(* rule.evaluate *)
Judge(rule, sig, j, rs, now) ==
  CASE rule.class = "max_position"   -> MaxPosition(rule, sig, j, rs)
    [] rule.class = "max_order_size" -> MaxOrderSize(rule, sig.legs[j])
    [] rule.class = "max_notional"   -> MaxNotional(rule, sig.legs[j])
    [] rule.class = "throttle"       -> Throttle(rule, rs, now)
    [] rule.class = "daily_loss"     -> DailyLoss(rule, rs, now)
    [] rule.class = "drawdown"       -> Drawdown(rule, rs)
    [] rule.class = "vpin"           -> Vpin(rule, sig, rs)
    [] rule.class = "allowlist"      -> Allowlist(rule, sig)

(* What the rule's reads leave behind in the state. *)
AfterJudging(rule, rs, now) ==
  CASE rule.class = "throttle"   -> Trimmed(rs, now, rule.window)
    [] rule.class = "daily_loss" -> IF rs.seen THEN RolledOver(rs, now) ELSE rs
    [] OTHER                     -> rs
=============================================================================
