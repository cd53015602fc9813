----------------------------- MODULE RiskState -----------------------------
(***************************************************************************)
(* What the risk engine remembers (risk/state.py) as a record, and the     *)
(* operations on it.  Reads that change the state (the daily PnL rolls     *)
(* over, the throttle window is trimmed) return the changed record too.    *)
(*                                                                         *)
(* One strategy.  Times are ticks, DayLength of them to a UTC day.  VPIN   *)
(* is in per cent.  Working-order exposure (get_working) is left out: no   *)
(* rule reads it.                                                          *)
(***************************************************************************)
EXTENDS Absence, Integers, SequencesExt, Sifting

CONSTANT DayLength

ASSUME DayAssumption == DayLength \in Nat \ {0}

DayOf(now) == now \div DayLength

FreshRiskState(instruments) ==
  [pos |-> [i \in instruments |-> 0],    \* _positions
   seen |-> FALSE,                       \* the strategy has a daily bucket
   realized |-> 0, unrealized |-> 0,     \* the bucket: latest values,
   base |-> 0, day |-> 0,                \* baseline and day of the baseline
   peak |-> None,                        \* _session_peak_equity
   recent |-> << >>,                     \* _recent_signals
   vpin |-> [i \in instruments |-> None],
   breach |-> [i \in instruments |-> [t \in {50, 70, 80, 90} |-> 0]]]

(* Mutant: the baseline goes the way of the peak. *)
RolledAlways(rs, now) == [rs EXCEPT !.base = rs.realized, !.day = DayOf(now), !.peak = None]

(* _maybe_rollover: the peak goes whether or not the day has changed. *)
RolledOver(rs, now) ==
  IF rs.day # DayOf(now)
  THEN [rs EXCEPT !.base = rs.realized, !.day = DayOf(now), !.peak = None]
  ELSE [rs EXCEPT !.peak = None]

(* apply_fill *)
WithFill(rs, f) ==
  [rs EXCEPT !.pos[f.inst] = @ + (IF f.side = "BUY" THEN f.qty ELSE -f.qty)]

(* Mutant: the update's quantity is taken for a change. *)
WithUpdateAdded(rs, u, now) == [rs EXCEPT !.pos[u.inst] = @ + u.qty]

(* apply_position_update: absolute values, from the book of one instrument. *)
WithUpdate(rs, u, now) ==
  LET placed == [rs EXCEPT !.pos[u.inst] = u.qty]
      bucket == IF rs.seen THEN RolledOver(placed, now)
                ELSE [placed EXCEPT !.seen = TRUE, !.day = DayOf(now)]
      equity == u.realized + u.unrealized
  IN  [bucket EXCEPT !.realized = u.realized, !.unrealized = u.unrealized,
                     !.peak = IF @ = None \/ @ < equity THEN equity ELSE @]

(* Mutant: a calm value leaves the counters alone. *)
WithVpinSticky(rs, i, v) ==
  [rs EXCEPT !.vpin[i] = v,
             !.breach[i] = [t \in DOMAIN @ |-> IF v >= t THEN @[t] + 1 ELSE @[t]]]

(* apply_analytics_snapshot: a counter for each of the thresholds it knows. *)
WithVpin(rs, i, v) ==
  [rs EXCEPT !.vpin[i] = v,
             !.breach[i] = [t \in DOMAIN @ |-> IF v >= t THEN @[t] + 1 ELSE 0]]

(* start_new_session: the operator's reset of the daily loss. *)
NewSession(rs, now) ==
  IF rs.seen THEN [rs EXCEPT !.base = rs.realized, !.day = DayOf(now)] ELSE rs

(* record_signal *)
WithSignal(rs, now) == [rs EXCEPT !.recent = Append(@, now)]

(* Mutant: the cutoff itself is evicted. *)
TrimmedAtCutoff(rs, now, window) ==
  [rs EXCEPT !.recent = SelectSeq(@, LAMBDA t : t > now - window)]

(* signals_in_window evicts what is older than the window it was asked for. *)
Trimmed(rs, now, window) ==
  [rs EXCEPT !.recent = Sifted(@, {t \in ToSet(@) : t >= now - window})]

RealizedToday(rs) == rs.realized - rs.base

(* get_drawdown_pct, in per cent, negative when there is nothing to compare. *)
NoDrawdown == -1
DrawdownPct(rs) ==
  IF ~rs.seen \/ rs.peak = None THEN NoDrawdown
  ELSE IF rs.peak <= 0 THEN NoDrawdown
  ELSE LET fall == rs.peak - (rs.realized + rs.unrealized)
       IN  IF fall < 0 THEN 0 ELSE (100 * fall) \div rs.peak

(* get_vpin_breach_ticks: a threshold that is not counted reads 0. *)
BreachTicks(rs, i, threshold) ==
  IF threshold \in DOMAIN rs.breach[i] THEN rs.breach[i][threshold] ELSE 0
=============================================================================
