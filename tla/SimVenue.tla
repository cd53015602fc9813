------------------------------ MODULE SimVenue ------------------------------
(***************************************************************************)
(* The simulated venue of paper trading (order_gateways/simulation.py),    *)
(* with the orders of the OMS it answers.  The gateway has two consumer    *)
(* tasks, one for ORDERS and one for MARKET_DATA, and both sleep inside    *)
(* their handlers to imitate latency: a match under way overlaps with the  *)
(* cancel or the amend of the same order.  The OMS hears of answers and of *)
(* fills on two topics, in any order.                                      *)
(*                                                                         *)
(* Prices, the top of the book and fees are left out: whether an order     *)
(* would cross, and whether a trade goes through a resting one, is left    *)
(* open.  A fill is delivered in one piece or in two.                      *)
(***************************************************************************)
EXTENDS Scene, Absence, OrderStates, SequencesExt

CONSTANTS
  SimOrders,  \* order ids
  MaxLot,     \* quantities are 1..MaxLot
  MaxAsks     \* bound: cancels and amends asked for

SimKinds == {"market", "limit", "post_only"}

(* An order that is not there is none of the orders there could be. *)
ASSUME SimAssumption ==
  /\ MaxLot \in Nat
  /\ None \notin SimOrders
  /\ None \notin [qty : Nat, cum : Nat, status : Status]
  /\ None \notin [qty : Nat, leaves : Nat, on : BOOLEAN]

VARIABLES
  mine,    \* the OMS's orders, or None before they are placed
  reqs,    \* ORDERS, towards the gateway: requests
  resting, \* order -> quantity, leaves and whether it is in _resting, or None
  server,  \* the ORDERS consumer: where its handler sleeps, with its request
  matcher, \* the MARKET_DATA consumer: likewise, with the orders still to visit
  answerQ, \* ORDERS, towards the OMS: acks, rejects, cancelled, amended
  fillQ,   \* FILLS, towards the OMS
  asks,    \* cancels and amends asked for
  filled,  \* history: order -> lots of the fills published
  largest, \* history: order -> the largest quantity asked for
  closed,  \* history: the orders reported as cancelled
  shrunk   \* history: the orders amended below what was taken of them

simVars == <<mine, reqs, resting, server, matcher, answerQ, fillQ, asks, filled, largest,
             closed, shrunk>>

Idle == [at |-> "idle", req |-> None, rest |-> 0]
Still == [at |-> "idle", todo |-> {}, id |-> None, rest |-> 0]

SimInit ==
  /\ mine = [o \in SimOrders |-> None] /\ resting = mine
  /\ reqs = << >> /\ answerQ = << >> /\ fillQ = << >> /\ asks = 0
  /\ server = Idle /\ matcher = Still
  /\ filled = [o \in SimOrders |-> 0] /\ largest = filled
  /\ closed = {} /\ shrunk = {}

----------------------------------------------------------------------------
(* The OMS *)

SimPlace(o, q, kind) ==
  /\ mine[o] = None
  /\ mine' = [mine EXCEPT ![o] = [qty |-> q, cum |-> 0, status |-> "PENDING_NEW"]]
  /\ reqs' = Append(reqs, [do |-> "submit", id |-> o, qty |-> q, kind |-> kind])
  /\ largest' = [largest EXCEPT ![o] = q]
  /\ UNCHANGED <<resting, server, matcher, answerQ, fillQ, asks, filled, closed, shrunk>>

SimAsk(o, do, status, q) ==
  /\ asks < MaxAsks /\ asks' = asks + 1
  /\ mine[o] # None /\ CanMove(mine[o], status)
  /\ mine' = [mine EXCEPT ![o] = Moved(@, status)]
  /\ reqs' = Append(reqs, [do |-> do, id |-> o, qty |-> q, kind |-> None])
  /\ largest' = [largest EXCEPT ![o] = IF q > @ THEN q ELSE @]
  /\ UNCHANGED <<resting, server, matcher, answerQ, fillQ, filled, closed, shrunk>>

SimCancel(o) == SimAsk(o, "cancel", "PENDING_CANCEL", 0)

SimAmend(o, q) ==
  mine[o] # None /\ mine[o].status \in Resting /\ SimAsk(o, "amend", "PENDING_AMEND", q)

(* OrderAmended sets the quantity only while the order still waits for it. *)
AnswerTaken(m, a) ==
  IF a.is = "AMENDED"
  THEN IF m.status # "PENDING_CANCEL" /\ CanMove(m, "ACKNOWLEDGED")
       THEN [Moved(m, "ACKNOWLEDGED") EXCEPT !.qty = a.qty] ELSE m
  ELSE Transition(m, a.is)

OnAnswer ==
  /\ answerQ # << >>
  /\ LET a == Head(answerQ) IN mine' = [mine EXCEPT ![a.id] = AnswerTaken(@, a)]
  /\ answerQ' = Tail(answerQ)
  /\ UNCHANGED <<reqs, resting, server, matcher, fillQ, asks, filled, largest, closed, shrunk>>

OnSimFill ==
  /\ fillQ # << >>
  /\ LET f == Head(fillQ)
     IN  mine' = [mine EXCEPT ![f.id] = IF IsTerminal(@) THEN RecordFill(@, f.qty)
                                        ELSE ApplyFill(@, f.qty)]
  /\ fillQ' = Tail(fillQ)
  /\ UNCHANGED <<reqs, resting, server, matcher, answerQ, asks, filled, largest, closed, shrunk>>

----------------------------------------------------------------------------
(* The gateway's publishes *)

Says(o, is, q) == answerQ' = Append(answerQ, [id |-> o, is |-> is, qty |-> q])

Fills(o, q) ==
  /\ fillQ' = Append(fillQ, [id |-> o, qty |-> q])
  /\ filled' = [filled EXCEPT ![o] = @ + q]

Quiet == UNCHANGED <<fillQ, filled>>

----------------------------------------------------------------------------
(* The ORDERS consumer: every handler sleeps first. *)

ServeNext ==
  /\ server.at = "idle" /\ reqs # << >>
  /\ server' = [at |-> Head(reqs).do, req |-> Head(reqs), rest |-> 0]
  /\ reqs' = Tail(reqs)
  /\ UNCHANGED <<mine, resting, matcher, answerQ, fillQ, asks, filled, largest, closed, shrunk>>

(* Rejected at random, or a post-only order that would cross. *)
SubmitRejected ==
  /\ server.at = "submit"
  /\ Says(server.req.id, "REJECTED", 0) /\ Quiet
  /\ server' = Idle
  /\ UNCHANGED <<mine, reqs, resting, matcher, asks, largest, closed, shrunk>>

(* Acknowledged, and then either filled, after another sleep, or left to rest. *)
SubmitCrosses ==
  /\ server.at = "submit" /\ server.req.kind # "post_only"
  /\ Says(server.req.id, "ACKNOWLEDGED", 0) /\ Quiet
  /\ server' = [server EXCEPT !.at = "filling", !.rest = server.req.qty]
  /\ UNCHANGED <<mine, reqs, resting, matcher, asks, largest, closed, shrunk>>

SubmitRests ==
  /\ server.at = "submit" /\ server.req.kind # "market"
  /\ Says(server.req.id, "ACKNOWLEDGED", 0) /\ Quiet
  /\ resting' = [resting EXCEPT ![server.req.id] =
                              [qty |-> server.req.qty, leaves |-> server.req.qty, on |-> TRUE]]
  /\ server' = Idle
  /\ UNCHANGED <<mine, reqs, matcher, asks, largest, closed, shrunk>>

(* _fill_market: rejected if there is no book and the order has no price. *)
NoPrice ==
  /\ server.at = "filling" /\ server.req.kind = "market" /\ server.rest = server.req.qty
  /\ Says(server.req.id, "REJECTED", 0) /\ Quiet
  /\ server' = Idle
  /\ UNCHANGED <<mine, reqs, resting, matcher, asks, largest, closed, shrunk>>

(* _emit_fills: the first part, or all of it; then the rest, after a sleep. *)
EmitFill(q) ==
  /\ server.at = "filling"
  /\ q = server.rest \/ server.rest = server.req.qty
  /\ Fills(server.req.id, q)
  /\ server' = IF q = server.rest THEN Idle ELSE [server EXCEPT !.rest = @ - q]
  /\ UNCHANGED <<mine, reqs, resting, matcher, answerQ, asks, largest, closed, shrunk>>

Rests(o) == resting[o] # None /\ resting[o].on

(* Nothing rests under that id: an OrderRejected, for a cancel and for an amend. *)
NotFound ==
  /\ server.at \in {"cancel", "amend"} /\ ~Rests(server.req.id)
  /\ Says(server.req.id, "REJECTED", 0) /\ Quiet
  /\ server' = Idle
  /\ UNCHANGED <<mine, reqs, resting, matcher, asks, largest, closed, shrunk>>

(* Mutant: the order is reported as cancelled, and stays on the book. *)
CancelledInName ==
  /\ server.at = "cancel" /\ Rests(server.req.id)
  /\ Says(server.req.id, "CANCELLED", 0) /\ Quiet
  /\ closed' = closed \union {server.req.id}
  /\ server' = Idle
  /\ UNCHANGED <<mine, reqs, resting, matcher, asks, largest, shrunk>>

Cancelled ==
  /\ server.at = "cancel" /\ Rests(server.req.id)
  /\ resting' = [resting EXCEPT ![server.req.id].on = FALSE]
  /\ Says(server.req.id, "CANCELLED", 0) /\ Quiet
  /\ closed' = closed \union {server.req.id}
  /\ server' = Idle
  /\ UNCHANGED <<mine, reqs, matcher, asks, largest, shrunk>>

(* Mutant: what has been filled may be filled again. *)
AmendedWhole(r, q) == [r EXCEPT !.qty = q, !.leaves = q]

AmendedTo(r, q) ==
  LET done == r.qty - r.leaves
  IN  [r EXCEPT !.qty = q, !.leaves = IF q > done THEN q - done ELSE 0]

Amended ==
  /\ server.at = "amend" /\ Rests(server.req.id)
  /\ resting' = [resting EXCEPT ![server.req.id] = AmendedTo(@, server.req.qty)]
  /\ Says(server.req.id, "AMENDED", server.req.qty) /\ Quiet
  /\ shrunk' = IF server.req.qty < resting[server.req.id].qty - resting[server.req.id].leaves
               THEN shrunk \union {server.req.id} ELSE shrunk
  /\ server' = Idle
  /\ UNCHANGED <<mine, reqs, matcher, asks, largest, closed>>

----------------------------------------------------------------------------
(* The MARKET_DATA consumer: a trade visits the orders that rested when it came.
   One that is taken off the book meanwhile is filled all the same. *)

TradeArrives ==
  /\ matcher.at = "idle"
  /\ \E o \in SimOrders : Rests(o)
  /\ matcher' = [Still EXCEPT !.at = "visit", !.todo = {o \in SimOrders : Rests(o)}]
  /\ UNCHANGED <<mine, reqs, resting, server, answerQ, fillQ, asks, filled, largest, closed, shrunk>>

Visit(o, crosses) ==
  /\ matcher.at = "visit" /\ o \in matcher.todo
  /\ crosses => Rests(o)
  /\ matcher' = [matcher EXCEPT !.todo = @ \ {o}, !.at = IF crosses THEN "match" ELSE @,
                                !.id = IF crosses THEN o ELSE @]
  /\ UNCHANGED <<mine, reqs, resting, server, answerQ, fillQ, asks, filled, largest, closed, shrunk>>

VisitsEnd ==
  /\ matcher.at = "visit" /\ matcher.todo = {}
  /\ matcher' = Still
  /\ UNCHANGED <<mine, reqs, resting, server, answerQ, fillQ, asks, filled, largest, closed, shrunk>>

(* What the order has left is taken at once, its second part is told later. *)
MatchEmits(q) ==
  LET o == matcher.id
      all == resting[o].leaves
  IN  /\ matcher.at = "match" /\ q <= all /\ (q = 0 => all = 0)
      /\ IF q = 0 THEN Quiet ELSE Fills(o, q)
      /\ resting' = [resting EXCEPT ![o].leaves = 0, ![o].on = @ /\ q < all]
      /\ matcher' = IF q < all THEN [matcher EXCEPT !.at = "second", !.rest = all - q]
                    ELSE [matcher EXCEPT !.at = "visit", !.id = None]
      /\ UNCHANGED <<mine, reqs, server, answerQ, asks, largest, closed, shrunk>>

MatchSecond ==
  /\ matcher.at = "second"
  /\ Fills(matcher.id, matcher.rest)
  /\ resting' = [resting EXCEPT ![matcher.id].on = @ /\ resting[matcher.id].leaves # 0]
  /\ matcher' = [matcher EXCEPT !.at = "visit", !.id = None, !.rest = 0]
  /\ UNCHANGED <<mine, reqs, server, answerQ, asks, largest, closed, shrunk>>

SimNext ==
  \/ ServeNext \/ SubmitRejected \/ SubmitCrosses \/ SubmitRests \/ NoPrice
  \/ NotFound \/ Cancelled \/ Amended
  \/ TradeArrives \/ VisitsEnd \/ MatchSecond \/ OnAnswer \/ OnSimFill
  \/ \E q \in 1..server.rest : EmitFill(q)
  \/ \E q \in 0..MaxLot : MatchEmits(q)
  \/ \E o \in SimOrders :
       \/ SimCancel(o)
       \/ \E crosses \in BOOLEAN : Visit(o, crosses)
       \/ \E q \in 1..MaxLot : SimAmend(o, q) \/ \E kind \in SimKinds : SimPlace(o, q, kind)

SimSpec == SimInit /\ [][SimNext]_simVars

----------------------------------------------------------------------------
(* The simulated venue never sells more of an order than the largest quantity it
   was asked for, however a match, an amend and a cancel of the same order
   overlap, unless it was amended below what had been taken of it: that is
   forgotten with the quantity.  The OMS counts all of it, in whatever order it
   hears. *)
SimOverfill ==
  \A o \in SimOrders :
    /\ o \notin shrunk => filled[o] <= largest[o]
    /\ fillQ = << >> /\ mine[o] # None => mine[o].cum = filled[o]

(* An order reported as cancelled is filled only by a match that had begun before:
   no later trade meets it. *)
SimCancelEnds ==
  [][\A o \in closed :
       filled'[o] # filled[o] \/ matcher'.id = o => matcher.id = o]_simVars
=============================================================================
