----------------------------- MODULE VenueSync -----------------------------
(***************************************************************************)
(* What the process learns about its orders by asking the venue: the       *)
(* bootstrap at start, the periodic resync (state_bootstrap.py), and what  *)
(* adopt_order, _refresh_adopted_order and terminalize_from_venue of the   *)
(* OMS do with an answer.                                                  *)
(*                                                                         *)
(* A request and its answer are two steps: an answer describes the venue   *)
(* as it was when it was sent.  The bus never suspends a publisher, so     *)
(* what is done with one answer is one step.                               *)
(***************************************************************************)
EXTENDS Absence, OrderStates, Sequences, FiniteSets, SequencesExt

CONSTANTS
  Clients,  \* client order ids
  Symbols   \* tracked instruments, a sequence

VARIABLES
  oms,     \* client order id -> the OMS's order, or None
  gone,    \* _consecutive_gone, up to the threshold
  pass,    \* the bootstrap or resync in progress
  netShown \* external subscriber: the net positions last published

syncVars == <<oms, gone, pass, netShown>>

Threshold == 2   \* _GONE_THRESHOLD

----------------------------------------------------------------------------
(* The OMS's side, on one order and one row of an answer. *)

(* Mutant: the total is taken for a difference. *)
RatchetedAdds(o, row) == [o EXCEPT !.cum = IF row.cum > @ THEN @ + row.cum ELSE @]

Ratcheted(o, row) == [o EXCEPT !.cum = IF row.cum > @ THEN row.cum ELSE @]

(* Quantity and price are the venue's; the fill total only goes forward. *)
Refreshed(o, row) ==
  IF IsTerminal(o) THEN o ELSE [Ratcheted(o, row) EXCEPT !.qty = row.qty]

(* Mutant: only known orders are refreshed. *)
AdoptedIfKnown(o, row) == IF o # None THEN Refreshed(o, row) ELSE None

(* An order the OMS does not know enters in the state it is in. *)
Adopted(o, row) ==
  IF o # None THEN Refreshed(o, row)
  ELSE [status |-> IF row.cum > 0 THEN "PARTIALLY_FILLED" ELSE "ACKNOWLEDGED",
        inst |-> row.inst, qty |-> row.qty, cum |-> row.cum]

(* Mutant: what has left the open orders was cancelled. *)
TerminalizedGuess(o, row) ==
  IF IsTerminal(o) THEN o ELSE Transition(Ratcheted(o, row), "CANCELLED")

Terminalized(o, row) ==
  IF IsTerminal(o) THEN o ELSE Transition(Ratcheted(o, row), row.status)

----------------------------------------------------------------------------
(* One pass over the tracked instruments. *)

Idle == [at |-> "idle", todo |-> << >>, rows |-> << >>, seen |-> {},
         fetched |-> {}, suspects |-> {}, boot |-> FALSE]
Starting(boot) == [Idle EXCEPT !.at = "ask", !.todo = Symbols, !.boot = boot]

Open(book) == {c \in Clients : book[c] # None /\ ~IsTerminal(book[c])}

(* _terminalize_gone_orders up to its first request: every open order of an
   instrument that was fetched is counted, and the ones absent for long enough
   are bucketed by instrument.  A bootstrap does not judge. *)
Judged(book, p) == {c \in Open(book) : book[c].inst \in p.fetched}
Present(book, p) == {c \in Judged(book, p) : book[c].status \in Pending \/ c \in p.seen}
Missed(book, p) == Judged(book, p) \ Present(book, p)

Counted(book, p, c) ==
  IF c \in Present(book, p) \/ c \notin Open(book) THEN 0
  ELSE IF c \in Missed(book, p) /\ gone[c] < Threshold THEN gone[c] + 1
  ELSE gone[c]

Suspects(book, p) == {c \in Missed(book, p) : Counted(book, p, c) >= Threshold}

InstrumentsOf(book, S) == {s \in Range(Symbols) : \E c \in S : book[c].inst = s}
Buckets(book, S) == SelectSeq(Symbols, LAMBDA s : s \in InstrumentsOf(book, S))

(* After an instrument: the next one, or the judgement. *)
Advance(book, p) ==
  IF Len(p.todo) > 1
  THEN /\ pass' = [p EXCEPT !.at = "ask", !.todo = Tail(@)]
       /\ UNCHANGED gone
  ELSE IF p.boot
  THEN pass' = [p EXCEPT !.at = "positions"] /\ UNCHANGED gone
  ELSE LET S == Suspects(book, p)
       IN  /\ gone' = [c \in Clients |-> Counted(book, p, c)]
           /\ pass' = [p EXCEPT !.at = IF S = {} THEN "positions" ELSE "query",
                                !.todo = Buckets(book, S), !.suspects = S]

----------------------------------------------------------------------------
(* _resync_loop: the interval is over. *)
ResyncStarts ==
  /\ pass.at = "idle"
  /\ pass' = Starting(FALSE)
  /\ UNCHANGED <<oms, gone, netShown>>

(* GET /openOrders: answered with rows, or failed.  Only an instrument that was
   fetched is judged. *)
OpenOrdersAnswered(rows) ==
  /\ pass.at = "ask"
  /\ pass' = [pass EXCEPT !.at = "adopt", !.rows = rows]
  /\ UNCHANGED <<oms, gone, netShown>>

OpenOrdersFail ==
  /\ pass.at = "ask"
  /\ Advance(oms, pass)
  /\ UNCHANGED <<oms, netShown>>

NewlyAdopted == {c \in DOMAIN pass.rows : oms[c] = None}

(* Mutant: an instrument with no open order is not taken for fetched. *)
AdoptOpenOrdersIfAny ==
  /\ pass.at = "adopt"
  /\ oms' = [c \in Clients |-> IF c \in DOMAIN pass.rows THEN Adopted(oms[c], pass.rows[c])
                                                        ELSE oms[c]]
  /\ Advance(oms', [pass EXCEPT !.rows = << >>, !.seen = @ \union DOMAIN pass.rows,
                                 !.fetched = IF DOMAIN pass.rows = {} THEN @
                                             ELSE @ \union {Head(pass.todo)}])
  /\ UNCHANGED netShown

AdoptOpenOrders ==
  /\ pass.at = "adopt"
  /\ oms' = [c \in Clients |-> IF c \in DOMAIN pass.rows THEN Adopted(oms[c], pass.rows[c])
                                                        ELSE oms[c]]
  /\ Advance(oms', [pass EXCEPT !.rows = << >>, !.seen = @ \union DOMAIN pass.rows,
                                 !.fetched = @ \union {Head(pass.todo)}])
  /\ UNCHANGED netShown

(* GET /allOrders for one instrument, its terminal orders included. *)
AllOrdersAnswered(rows) ==
  /\ pass.at = "query"
  /\ pass' = [pass EXCEPT !.at = "resolve", !.rows = rows]
  /\ UNCHANGED <<oms, gone, netShown>>

NextQuery ==
  pass' = [pass EXCEPT !.at = IF Len(pass.todo) > 1 THEN "query" ELSE "positions",
                       !.rows = << >>, !.todo = Tail(@)]

AllOrdersFail ==
  /\ pass.at = "query"
  /\ NextQuery
  /\ UNCHANGED <<oms, gone, netShown>>

(* _resolve_gone_orders: an order the answer does not list is left alone, one it
   lists as live starts its count again, one it lists as ended has ended. *)
Listed == {c \in pass.suspects : oms[c].inst = Head(pass.todo) /\ c \in DOMAIN pass.rows}

(* Mutant: gone means cancelled, unless it is known to have filled. *)
ResolveGoneAssumed ==
  /\ pass.at = "resolve"
  /\ oms' = [c \in Clients |->
        IF c \notin Listed THEN oms[c]
        ELSE IF pass.rows[c].status = "FILLED" THEN Terminalized(oms[c], pass.rows[c])
        ELSE Transition(oms[c], "CANCELLED")]
  /\ gone' = [c \in Clients |-> IF c \in Listed THEN 0 ELSE gone[c]]
  /\ NextQuery
  /\ UNCHANGED netShown

ResolveGone ==
  /\ pass.at = "resolve"
  /\ oms' = [c \in Clients |->
        IF c \in Listed /\ pass.rows[c].status \in Terminal
        THEN Terminalized(oms[c], pass.rows[c]) ELSE oms[c]]
  /\ gone' = [c \in Clients |-> IF c \in Listed THEN 0 ELSE gone[c]]
  /\ NextQuery
  /\ UNCHANGED netShown

(* GET /positionRisk: the venue's net positions are published as they are. *)
PositionsAnswered(net) ==
  /\ pass.at = "positions"
  /\ pass' = Idle
  /\ netShown' = net
  /\ UNCHANGED <<oms, gone>>

PositionsFail ==
  /\ pass.at = "positions"
  /\ pass' = Idle
  /\ UNCHANGED <<oms, gone, netShown>>
=============================================================================
