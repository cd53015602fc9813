------------------------------- MODULE Replay -------------------------------
(***************************************************************************)
(* The backtest: the replay loop that owns the simulated clock             *)
(* (backtest/engine.py, core/clock.py), the data it replays                *)
(* (backtest/data_source.py) and the venue that answers by scheduling      *)
(* events for later (backtest/order_gateway.py).                           *)
(*                                                                         *)
(* Nothing but the loop runs while it does not wait; it waits in _settle,  *)
(* for a fixed number of turns, in which the other tasks handle some of    *)
(* what is queued: all of it, or not.  What strategies, risk and OMS make  *)
(* of an event is left open: any request, at any turn.                     *)
(***************************************************************************)
EXTENDS Scene, Absence, Integers, FiniteSets, SequencesExt

CONSTANTS
  BtOrders,   \* order ids: 1..n, minted in order
  Latencies,  \* submit_ack_ms, cancel_ack_ms and fill_ms
  LastTime,   \* bound: timestamps of the data
  MaxData,    \* bound: data events
  MaxWishes   \* bound: cancels

(* No latency is negative, nor is a timestamp. *)
ASSUME ReplayAssumption == Latencies \subseteq [ack : Nat, cancel : Nat, fill : Nat] /\ LastTime \in Nat

VARIABLES
  clock,     \* the simulated clock
  loop,      \* where the replay loop is: fetch, upto, publish, due, rest or ended
  settling,  \* whether it waits in _settle
  data,      \* the data event in hand, or None
  fed,       \* data events so far
  wires,     \* the trades and the requests the venue has still to handle
  schedule,  \* the venue's heap
  seq,       \* its counter
  book,      \* the orders in _resting
  placed,    \* the orders placed
  wishes,    \* cancels asked for
  latency,   \* the configured latencies
  punctual   \* history: whether every event came when it was due

replayVars == <<clock, loop, settling, data, fed, wires, schedule, seq, book, placed,
                wishes, latency, punctual>>

ReplayInit ==
  /\ clock = 0 /\ loop = "fetch" /\ settling = FALSE /\ data = None /\ fed = 0
  /\ wires = << >> /\ schedule = {} /\ seq = 0
  /\ book = {} /\ placed = {} /\ wishes = 0
  /\ latency \in Latencies
  /\ punctual = TRUE

----------------------------------------------------------------------------
(* The schedule *)

Earliest == CHOOSE e \in schedule :
              \A f \in schedule : e.due < f.due \/ (e.due = f.due /\ e.seq <= f.seq)

(* Several events of one handler, each with its delay. *)
Scheduled(evs) ==
  /\ schedule' = schedule \union
       {[due |-> clock + evs[i].delay, seq |-> seq + i, is |-> evs[i].is, id |-> evs[i].id] :
          i \in DOMAIN evs}
  /\ seq' = seq + Len(evs)

In(delay, is, o) == [delay |-> delay, is |-> is, id |-> o]

(* A fill in one piece, or in two. *)
FillsIn(delay, o, twice) ==
  <<In(delay, "FILL", o)>> \o IF twice THEN <<In(delay + latency.fill, "FILL", o)>> ELSE << >>

----------------------------------------------------------------------------
(* The replay loop *)

(* __anext__: the data is in chronological order. *)
Fetch(ts) ==
  /\ loop = "fetch" /\ ~settling
  /\ fed < MaxData /\ fed' = fed + 1
  /\ data' = ts /\ loop' = "upto"
  /\ UNCHANGED <<clock, settling, wires, schedule, seq, book, placed, wishes, latency, punctual>>

DataEnds ==
  /\ loop = "fetch" /\ ~settling
  /\ loop' = "rest"
  /\ UNCHANGED <<clock, settling, data, fed, wires, schedule, seq, book, placed, wishes,
                 latency, punctual>>

(* drain_due, once: publish what is due, and let the tasks work on it. *)
Popped(now) ==
  LET e == Earliest
  IN  /\ schedule' = schedule \ {e}
      /\ punctual' = (punctual /\ e.due = now /\ now >= clock)

DueBy(t) == \E e \in schedule : e.due <= t

(* Mutant: what is due at the very moment is left for later. *)
PendingBefore(t) == \E e \in schedule : e.due < t

PendingUpTo(t) == DueBy(t)

(* set_time, which raises where punctual would become FALSE. *)
SetTime(t) == clock' = t

(* _drain_up_to: the clock jumps to what is due first, no further than t; all that
   is due then is published before the tasks run. *)
DrainUpTo ==
  /\ loop = "upto" /\ ~settling /\ PendingUpTo(data)
  /\ SetTime(Earliest.due)
  /\ Popped(clock')
  /\ settling' = ~\E e \in schedule' : e.due <= clock'
  /\ UNCHANGED <<loop, data, fed, wires, seq, book, placed, wishes, latency>>

(* Then the clock jumps to the event, which is published. *)
PublishData(trade) ==
  /\ loop = "upto" /\ ~settling /\ ~PendingUpTo(data)
  /\ SetTime(data)
  /\ punctual' = (punctual /\ ~DueBy(data) /\ data >= clock)
  /\ wires' = IF trade THEN Append(wires, [is |-> "trade", id |-> None]) ELSE wires
  /\ loop' = "due" /\ settling' = TRUE
  /\ UNCHANGED <<data, fed, schedule, seq, book, placed, wishes, latency>>

DrainDue ==
  /\ loop = "due" /\ ~settling /\ DueBy(clock)
  /\ Popped(clock)
  /\ settling' = ~\E e \in schedule' : e.due <= clock
  /\ UNCHANGED <<clock, loop, data, fed, wires, seq, book, placed, wishes, latency>>

(* A snapshot may be due as well, with its own settling. *)
RoundEnds(snapshot) ==
  /\ loop = "due" /\ ~settling /\ ~DueBy(clock)
  /\ loop' = "fetch" /\ settling' = snapshot
  /\ UNCHANGED <<clock, data, fed, wires, schedule, seq, book, placed, wishes, latency, punctual>>

(* _drain_remaining *)
DrainRemaining ==
  /\ loop = "rest" /\ ~settling /\ schedule # {}
  /\ SetTime(IF Earliest.due > clock THEN Earliest.due ELSE clock)
  /\ Popped(clock')
  /\ settling' = ~\E e \in schedule' : e.due <= clock'
  /\ UNCHANGED <<loop, data, fed, wires, seq, book, placed, wishes, latency>>

(* The last marks and snapshots, and the bus stops. *)
RunEnds ==
  /\ loop = "rest" /\ ~settling /\ schedule = {}
  /\ loop' = "ended"
  /\ UNCHANGED <<clock, settling, data, fed, wires, schedule, seq, book, placed, wishes,
                 latency, punctual>>

Settled ==
  /\ settling /\ settling' = FALSE
  /\ UNCHANGED <<clock, loop, data, fed, wires, schedule, seq, book, placed, wishes, latency,
                 punctual>>

----------------------------------------------------------------------------
(* While the loop settles, the tasks run. *)

Asked(w) ==
  /\ settling
  /\ wires' = Append(wires, w)
  /\ UNCHANGED <<clock, loop, settling, data, fed, schedule, seq, book, latency, punctual>>

AskSubmit(o, kind) ==
  /\ o = Cardinality(placed) + 1 /\ placed' = placed \union {o}
  /\ Asked([is |-> kind, id |-> o]) /\ UNCHANGED wishes

AskCancel(o) ==
  /\ o \in placed /\ wishes < MaxWishes /\ wishes' = wishes + 1
  /\ Asked([is |-> "cancel", id |-> o]) /\ UNCHANGED placed

(* The venue has a task for trades and one for requests, each in order. *)
Foremost(w) == \A i \in 1..(w - 1) : (wires[i].is = "trade") # (wires[w].is = "trade")

Handled(w) ==
  /\ settling /\ Foremost(w)
  /\ wires' = RemoveAt(wires, w)
  /\ UNCHANGED <<clock, loop, settling, data, fed, placed, wishes, latency, punctual>>

(* Rejected: at random, as a post-only order that would cross, or for want of a
   price. *)
VenueRejects(w) ==
  /\ Handled(w) /\ wires[w].is \in {"market", "limit"}
  /\ \/ Scheduled(<<In(latency.ack, "REJECTED", wires[w].id)>>)
     \/ /\ wires[w].is = "market"
        /\ Scheduled(<<In(latency.ack, "ACK", wires[w].id), In(latency.ack, "REJECTED", wires[w].id)>>)
  /\ UNCHANGED book

VenueFills(w, twice) ==
  /\ Handled(w) /\ wires[w].is \in {"market", "limit"}
  /\ Scheduled(<<In(latency.ack, "ACK", wires[w].id)>>
                 \o FillsIn(latency.ack + latency.fill, wires[w].id, twice))
  /\ UNCHANGED book

VenueRests(w) ==
  /\ Handled(w) /\ wires[w].is = "limit"
  /\ Scheduled(<<In(latency.ack, "ACK", wires[w].id)>>)
  /\ book' = book \union {wires[w].id}

VenueCancels(w) ==
  /\ Handled(w) /\ wires[w].is = "cancel"
  /\ Scheduled(<<In(latency.cancel, IF wires[w].id \in book THEN "CANCELLED" ELSE "REJECTED",
                    wires[w].id)>>)
  /\ book' = book \ {wires[w].id}

(* A trade fills the resting orders it goes through, whole. *)
VenueMatches(w, crossed, split) ==
  /\ Handled(w) /\ wires[w].is = "trade"
  /\ Scheduled(FlattenSeq(SetToSeq({FillsIn(latency.fill, o, o \in split) : o \in crossed})))
  /\ book' = book \ crossed

ReplayNext ==
  \/ DataEnds \/ DrainUpTo \/ DrainDue \/ DrainRemaining \/ RunEnds \/ Settled
  \/ \E ts \in (IF data = None THEN 0 ELSE data)..LastTime : Fetch(ts)
  \/ \E b \in BOOLEAN : PublishData(b) \/ RoundEnds(b)
  \/ \E o \in BtOrders : \/ AskCancel(o)
                         \/ \E kind \in {"market", "limit"} : AskSubmit(o, kind)
  \/ \E w \in DOMAIN wires :
       \/ VenueRejects(w) \/ VenueRests(w) \/ VenueCancels(w)
       \/ \E twice \in BOOLEAN : VenueFills(w, twice)
       \/ \E crossed \in SUBSET book : \E split \in SUBSET crossed : VenueMatches(w, crossed, split)

ReplaySpec == ReplayInit /\ [][ReplayNext]_replayVars

----------------------------------------------------------------------------
(* Simulated time is consistent, though the loop never waits for the tasks to
   finish: the clock never goes back, what the venue scheduled is published at the
   very moment it was due for, and no data before what was due by then. *)
PunctualReplay == punctual

=============================================================================
