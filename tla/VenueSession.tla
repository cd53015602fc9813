---------------------------- MODULE VenueSession ----------------------------
(***************************************************************************)
(* A process and the venue over several sessions and several lives of the  *)
(* process: the user-data stream reports what happens to its orders, the   *)
(* resync asks, the reconciler compares positions, and each of the three   *)
(* may be the only one that works.                                         *)
(*                                                                         *)
(* External here: the venue, and the gateway's requests, which are taken   *)
(* or lost with the process (BinanceFutures has the gateway's errors).     *)
(* The OMS's handlers are those of OrderStates.  env is what may happen:   *)
(*   calm       no pass or comparison runs while a report is on its way,   *)
(*              and nothing trades during a comparison                     *)
(*   lots       size of an order                                           *)
(*   deaf       the stream is never connected                              *)
(*   clients    the orders the process places                              *)
(*   cancels, crashes, keys, drops, blips   how often an order is cancelled*)
(*              by the OMS, the process crashes, a key is issued, the      *)
(*              connection or the key is lost, and a request to the venue  *)
(*              fails or lists too little                                  *)
(*   resyncs    passes after the bootstrap; -1 for no bound                *)
(*   compares   comparisons of positions                                   *)
(***************************************************************************)
EXTENDS Scene, UserStream, VenueSync, Sums

CONSTANTS Envs, Instrument

(* An order is for a number of lots, and there are so many of them. *)
ASSUME SessionAssumption == IsFiniteSet(Clients) /\ \A e \in Envs : e.lots \in Nat

VARIABLES
  env,    \* one of Envs
  venue,  \* external: client order id -> the order at the venue
  reqs,   \* external: requests on their way to the venue
  acks,   \* external: acknowledgements on their way back to the gateway
  mapped, \* _client_to_order_id
  mapQ,   \* ORDERS events for the stream's snoop
  ordQ,   \* ORDERS events for the OMS
  fillQ,  \* FILLS events for the OMS and the position engine
  held,   \* PositionEngine: net lots from fills
  compare,\* a reconcile_once in progress: the venue balance it was given
  alarms, \* balance mismatches alerted
  spent,  \* how much of each bound is used
  missed  \* history: a report of the venue was not delivered to the OMS

procVars == <<mapped, mapQ, ordQ, fillQ, held, compare, alarms>>
sessVars == <<linkVars, syncVars, procVars, env, venue, reqs, acks, spent, missed>>

Absent == [inst |-> None, status |-> "ABSENT", qty |-> env.lots, cum |-> 0]
Live(c) == venue[c].status = "NEW"

(* What has been bought at the venue, over all orders. *)
Net == LET ids == SetToSeq(Clients)
       IN  SumOf([k \in DOMAIN ids |-> venue[ids[k]].cum])

Spend(what) ==
  /\ spent[what] < env[what]
  /\ spent' = [spent EXCEPT ![what] = @ + 1]

Quiet == wire = << >> /\ ordQ = << >> /\ fillQ = << >> /\ mapQ = << >> /\ acks = {}
Allowed == env.calm => Quiet

Lost == missed' = TRUE
Reported(frame) == Sends(frame) /\ (IF Hears THEN UNCHANGED missed ELSE Lost)

SessInit ==
  /\ env \in Envs
  /\ LinkInit
  /\ oms = [c \in Clients |-> None]
  /\ gone = [c \in Clients |-> 0]
  /\ pass = Starting(TRUE)
  /\ netShown = 0
  /\ venue = [c \in Clients |-> Absent]
  /\ reqs = {} /\ acks = {}
  /\ mapped = {} /\ mapQ = << >> /\ ordQ = << >> /\ fillQ = << >>
  /\ held = 0 /\ compare = None /\ alarms = 0
  /\ spent = [cancels |-> 0, crashes |-> 0, drops |-> 0, blips |-> 0, resyncs |-> 0,
              compares |-> 0]
  /\ missed = FALSE

----------------------------------------------------------------------------
(* The process's orders.  Strategies start once the bootstrap is over. *)

Place(c) ==
  /\ c \in env.clients /\ ~pass.boot
  /\ oms[c] = None /\ venue[c] = Absent /\ <<"new", c>> \notin reqs
  /\ oms' = [oms EXCEPT ![c] = [status |-> "PENDING_NEW", inst |-> Instrument[c],
                                qty |-> env.lots, cum |-> 0]]
  /\ reqs' = reqs \union {<<"new", c>>}
  /\ mapQ' = Append(mapQ, c)
  /\ UNCHANGED <<linkVars, gone, pass, netShown, mapped, ordQ, fillQ, held, compare, alarms>>
  /\ UNCHANGED <<env, venue, acks, spent, missed>>

CancelOrder(c) ==
  /\ oms[c] # None /\ CanMove(oms[c], "PENDING_CANCEL")
  /\ <<"cancel", c>> \notin reqs
  /\ Spend("cancels")
  /\ oms' = [oms EXCEPT ![c] = Transition(@, "PENDING_CANCEL")]
  /\ reqs' = reqs \union {<<"cancel", c>>}
  /\ UNCHANGED <<linkVars, gone, pass, netShown, procVars, env, venue, acks, missed>>

(* The stream's snoop, the OMS's ORDERS and FILLS handlers. *)
Snoop ==
  /\ mapQ # << >>
  /\ mapped' = mapped \union {Head(mapQ)}
  /\ mapQ' = Tail(mapQ)
  /\ UNCHANGED <<linkVars, syncVars, ordQ, fillQ, held, compare, alarms>>
  /\ UNCHANGED <<env, venue, reqs, acks, spent, missed>>

OrderEvent ==
  /\ ordQ # << >>
  /\ ordQ' = Tail(ordQ)
  /\ LET c == Head(ordQ)[2]
         to == IF Head(ordQ)[1] = "ack" THEN "ACKNOWLEDGED" ELSE "CANCELLED"
     IN  oms' = [oms EXCEPT ![c] = IF @ = None THEN None ELSE Transition(@, to)]
  /\ UNCHANGED <<linkVars, gone, pass, netShown, mapped, mapQ, fillQ, held, compare, alarms>>
  /\ UNCHANGED <<env, venue, reqs, acks, spent, missed>>

(* Mutant: the position follows the OMS. *)
FillEventIfOpen ==
  /\ fillQ # << >>
  /\ fillQ' = Tail(fillQ)
  /\ LET c == Head(fillQ)
         known == oms[c] # None /\ ~IsTerminal(oms[c])
     IN  /\ held' = IF known THEN held + 1 ELSE held
         /\ oms' = [oms EXCEPT ![c] = IF known THEN ApplyFill(@, 1) ELSE @]
  /\ UNCHANGED <<linkVars, gone, pass, netShown, mapped, mapQ, ordQ, compare, alarms>>
  /\ UNCHANGED <<env, venue, reqs, acks, spent, missed>>

FillEvent ==
  /\ fillQ # << >>
  /\ fillQ' = Tail(fillQ)
  /\ held' = held + 1
  /\ LET c == Head(fillQ)
     IN  oms' = [oms EXCEPT ![c] = IF @ = None THEN None
                                   ELSE IF IsTerminal(@) THEN RecordFill(@, 1) ELSE ApplyFill(@, 1)]
  /\ UNCHANGED <<linkVars, gone, pass, netShown, mapped, mapQ, ordQ, compare, alarms>>
  /\ UNCHANGED <<env, venue, reqs, acks, spent, missed>>

(* _handle_frame: a report on an order the stream has no id for is skipped. *)
HandleFrame ==
  /\ stream.at = "open" /\ wire # << >>
  /\ wire' = Tail(wire)
  /\ LET kind == Head(wire)[1]
         c == Head(wire)[2]
     IN  IF c \notin mapped THEN Lost /\ UNCHANGED <<fillQ, ordQ>>
         ELSE IF kind = "TRADE"
         THEN fillQ' = Append(fillQ, c) /\ UNCHANGED <<ordQ, missed>>
         ELSE ordQ' = Append(ordQ, <<"cancelled", c>>) /\ UNCHANGED <<fillQ, missed>>
  /\ UNCHANGED <<listen, validKey, stream, syncVars, mapped, mapQ, held, compare, alarms>>
  /\ UNCHANGED <<env, venue, reqs, acks, spent>>

----------------------------------------------------------------------------
(* External: the venue and the gateway. *)

VenueAccepts(c) ==
  /\ <<"new", c>> \in reqs
  /\ reqs' = reqs \ {<<"new", c>>}
  /\ venue' = [venue EXCEPT ![c].status = "NEW", ![c].inst = Instrument[c]]
  /\ acks' = IF oms[c] = None THEN acks ELSE acks \union {c}
  /\ UNCHANGED <<linkVars, syncVars, procVars, env, spent, missed>>

GatewayAcks(c) ==
  /\ c \in acks
  /\ acks' = acks \ {c}
  /\ ordQ' = Append(ordQ, <<"ack", c>>)
  /\ mapQ' = Append(mapQ, c)
  /\ UNCHANGED <<linkVars, syncVars, mapped, fillQ, held, compare, alarms>>
  /\ UNCHANGED <<env, venue, reqs, spent, missed>>

(* A DELETE that finds no live order is answered with a cancellation. *)
VenueCancels(c) ==
  /\ <<"cancel", c>> \in reqs
  /\ reqs' = reqs \ {<<"cancel", c>>}
  /\ IF Live(c)
     THEN venue' = [venue EXCEPT ![c].status = "CANCELLED"] /\ Reported(<<"CANCELED", c>>)
                  /\ UNCHANGED ordQ
     ELSE ordQ' = Append(ordQ, <<"cancelled", c>>) /\ UNCHANGED <<venue, wire, missed>>
  /\ UNCHANGED <<listen, validKey, stream, syncVars, mapped, mapQ, fillQ, held, compare, alarms>>
  /\ UNCHANGED <<env, acks, spent>>

VenueFills(c) ==
  /\ Live(c)
  /\ env.calm => compare = None
  /\ venue' = [venue EXCEPT ![c].cum = @ + 1,
                            ![c].status = IF @ = "NEW" /\ venue[c].cum + 1 = env.lots
                                          THEN "FILLED" ELSE @]
  /\ Reported(<<"TRADE", c>>)
  /\ UNCHANGED <<listen, validKey, stream, syncVars, procVars, env, reqs, acks, spent>>

(* The venue expires an order, or a person cancels it there. *)
VenueEnds(c) ==
  /\ Live(c)
  /\ venue' = [venue EXCEPT ![c].status = "EXPIRED"]
  /\ Reported(<<"EXPIRED", c>>)
  /\ UNCHANGED <<listen, validKey, stream, syncVars, procVars, env, reqs, acks, spent>>

Venue == \E c \in Clients : VenueAccepts(c) \/ GatewayAcks(c) \/ VenueCancels(c)
                              \/ VenueFills(c) \/ VenueEnds(c)

----------------------------------------------------------------------------
(* Asking the venue. *)

At(s) == {c \in Clients : venue[c].inst = s}
RowsOf(S) == [c \in S |-> venue[c]]

AskOpenOrders ==
  \/ /\ OpenOrdersAnswered(RowsOf({c \in At(Head(pass.todo)) : Live(c)}))
     /\ UNCHANGED spent
  \/ /\ Spend("blips")   \* an answer that does not list every open order
     /\ \E S \in SUBSET {c \in At(Head(pass.todo)) : Live(c)} : OpenOrdersAnswered(RowsOf(S))
  \/ Spend("blips") /\ OpenOrdersFail

AskAllOrders ==
  \/ AllOrdersAnswered(RowsOf(At(Head(pass.todo)))) /\ UNCHANGED spent
  \/ /\ Spend("blips")   \* an order too old for the look-back
     /\ \E S \in SUBSET At(Head(pass.todo)) : AllOrdersAnswered(RowsOf(S))
  \/ Spend("blips") /\ AllOrdersFail

AskPositions ==
  \/ PositionsAnswered(Net) /\ UNCHANGED spent
  \/ Spend("blips") /\ PositionsFail

Sync ==
  /\ Allowed
  /\ \/ ResyncStarts /\ (IF env.resyncs = -1 THEN UNCHANGED spent ELSE Spend("resyncs"))
     \/ pass.at = "ask" /\ AskOpenOrders
     \/ pass.at = "query" /\ AskAllOrders
     \/ AskPositions
     \/ ResolveGone /\ UNCHANGED spent
  /\ UNCHANGED <<linkVars, procVars, env, venue, reqs, acks, missed>>

(* Adoption publishes OrderAcknowledged, for the snoop and for the OMS itself. *)
Adopt ==
  /\ Allowed
  /\ AdoptOpenOrders
  /\ LET new == SetToSeq(NewlyAdopted)
     IN  /\ mapQ' = mapQ \o new
         /\ ordQ' = ordQ \o [k \in DOMAIN new |-> <<"ack", new[k]>>]
  /\ UNCHANGED <<linkVars, mapped, fillQ, held, compare, alarms>>
  /\ UNCHANGED <<env, venue, reqs, acks, spent, missed>>

(* reconcile_once on a spot account: the balance of the base asset, net of what
   it was before the process traded, against the books' quantity. *)
AskBalance ==
  /\ Allowed
  /\ compare = None
  /\ Spend("compares")
  /\ compare' = Net
  /\ UNCHANGED <<linkVars, syncVars, mapped, mapQ, ordQ, fillQ, held, alarms>>
  /\ UNCHANGED <<env, venue, reqs, acks, missed>>

Compare ==
  /\ Allowed
  /\ compare # None
  /\ alarms' = IF compare # held THEN 1 ELSE alarms
  /\ compare' = None
  /\ UNCHANGED <<linkVars, syncVars, mapped, mapQ, ordQ, fillQ, held>>
  /\ UNCHANGED <<env, venue, reqs, acks, spent, missed>>

----------------------------------------------------------------------------
(* The connection, and the process's own end. *)

Connection ==
  /\ ~env.deaf
  /\ \/ UNCHANGED spent /\ (TakeKey \/ Connect \/ BackoffEnds)
     \/ listen.key + 1 <= env.keys /\ KeepaliveRefused /\ UNCHANGED spent
     \/ listen.key + 1 <= env.keys /\ Spend("blips") /\ KeepaliveFails
     \/ Spend("blips") /\ ReissueFails
     \/ Reissue /\ UNCHANGED spent
     \/ Spend("drops") /\ (ConnectFails \/ KeyExpires)
     \/ Recreated /\ UNCHANGED spent
     \/ Spend("drops") /\ Disconnect
  /\ missed' = (missed \/ (wire # << >> /\ wire' # wire))
  /\ UNCHANGED <<syncVars, procVars, env, venue, reqs, acks>>

(* The process dies and starts again: it knows nothing.  A request it had sent
   may still arrive. *)
Crash ==
  /\ Spend("crashes")
  /\ FreshLink(listen.key + 1)
  /\ oms' = [c \in Clients |-> None]
  /\ gone' = [c \in Clients |-> 0]
  /\ pass' = Starting(TRUE)
  /\ netShown' = 0
  /\ reqs' \in SUBSET reqs
  /\ acks' = {}
  /\ mapped' = {} /\ mapQ' = << >> /\ ordQ' = << >> /\ fillQ' = << >>
  /\ held' = 0 /\ compare' = None /\ alarms' = 0
  /\ missed' = TRUE
  /\ UNCHANGED <<env, venue>>

Process ==
  \/ \E c \in Clients : Place(c) \/ CancelOrder(c)
  \/ Snoop \/ OrderEvent \/ FillEvent \/ HandleFrame
  \/ Adopt \/ Compare \/ AskBalance

SessNext == Process \/ Venue \/ Sync \/ Connection \/ Crash

SessSpec == SessInit /\ [][SessNext]_sessVars

OnSession == Moves("session")

(* The process's tasks run, its timers fire and the gateway's calls return; a
   venue that answers badly does so only a bounded number of times. *)
SessFair ==
  /\ WF_sessVars(OnSession /\ Snoop)
  /\ WF_sessVars(OnSession /\ OrderEvent)
  /\ WF_sessVars(OnSession /\ FillEvent)
  /\ WF_sessVars(OnSession /\ HandleFrame)
  /\ WF_sessVars(OnSession /\ Adopt)
  /\ WF_sessVars(OnSession /\ Sync)
  /\ WF_sessVars(OnSession /\ Connection)
  /\ \A c \in Clients : WF_sessVars(OnSession /\ GatewayAcks(c))

----------------------------------------------------------------------------
(* A fill is reported by the stream as a difference and by an answer as a total.
   As long as no answer is used while a report is under way, no fill is counted
   twice: the OMS never takes an order for more filled than it is. *)
CountsNoFillTwice ==
  env.calm => \A c \in Clients : oms[c] # None => oms[c].cum <= venue[c].cum

(* Nor does it take an order for finished that still rests at the venue, whatever
   reports and answers were lost, and over restarts. *)
EndedIsGone ==
  env.calm => \A c \in Clients : oms[c] # None /\ IsTerminal(oms[c]) => ~Live(c)

(* An order is terminalized by the resync only to the status it ended in at the
   venue, never on a guess: however little the answers listed. *)
NeverOnGuess ==
  [][\A c \in Clients :
       /\ pass.at = "resolve" /\ pass' # pass
       /\ oms[c] # None /\ ~IsTerminal(oms[c])
       /\ oms'[c] # None /\ IsTerminal(oms'[c])
       => oms'[c].status = venue[c].status]_sessVars

(* With a position that was built in one life of the process and reported in
   full, the reconciler has nothing to alert. *)
NoFalseAlarm == env.calm /\ ~missed => alarms = 0

(* An order that ended unreported does not stay open for ever: the resync finds it
   gone, asks, and ends it, also when the stream never comes back. *)
ResyncHeals ==
  \A c \in Clients :
    []<>~(env.resyncs = -1 /\ oms[c] # None /\ oms[c].status \in Resting /\ ~Live(c))

(* An order left at the venue by an earlier life of the process does not rest there
   unknown for ever: it is adopted. *)
AdoptsWhatRests == \A c \in Clients : []<>~(env.resyncs = -1 /\ Live(c) /\ oms[c] = None)

(* A key issued while the loop backs off, or waits, starts a session with the newest key:
   the event is not lost in the backoff, whatever ended the session before.  One issued
   while a session is open, or being opened, starts none: the task that ends the session
   takes the event, and the loop then waits for the key after it. *)
KeyWakesStream ==
  ~env.deaf /\ listen.event /\ stream.at \in {"waiting", "backoff"}
    ~> stream.at = "connecting" /\ stream.key = listen.key
=============================================================================
