------------------------ MODULE VenueSession_proofs ------------------------
(***************************************************************************)
(* The resync never ends an order on a guess, for any set of orders and    *)
(* instruments, any number of requests that fail or list too little and    *)
(* any number of restarts.  An answer may be old by the time it is used;   *)
(* what makes it safe is that an order that has ended at the venue never   *)
(* comes back: its client order id is sent once.                           *)
(*                                                                         *)
(* No fill is counted twice, what the OMS takes for finished does not rest *)
(* at the venue, and the reconciler alerts nothing that is not so, as long *)
(* as no answer is used while a report is under way.  A fill is in one     *)
(* place: on the connection, on its way to the OMS, or counted.            *)
(***************************************************************************)
EXTENDS VenueSession, Sums_proofs, FiniteSetTheorems, TLAPS

(* What the handlers read and change is there. *)
Shaped ==
  /\ DOMAIN oms = Clients /\ DOMAIN venue = Clients
  /\ \A c \in Clients : oms[c] # None => "status" \in DOMAIN oms[c]
  /\ \A c \in Clients : "status" \in DOMAIN venue[c]
  /\ {"at", "rows", "suspects"} \subseteq DOMAIN pass
  /\ \A c \in Clients : c \in pass.suspects => "status" \in DOMAIN oms[c]

(* A request for a new order is one the venue has not seen. *)
SentOnce == \A c \in Clients : <<"new", c>> \in reqs => venue[c].status = "ABSENT"

(* An order that an answer lists as ended has ended so. *)
RowsTrue ==
  pass.at = "resolve" =>
    \A c \in DOMAIN pass.rows :
      c \in Clients /\ (pass.rows[c].status \in Terminal => venue[c].status = pass.rows[c].status)

GuessInv == Shaped /\ SentOnce /\ RowsTrue

LEMMA SessInitInv == SessInit => GuessInv
BY DEF SessInit, GuessInv, Shaped, SentOnce, RowsTrue, Starting, Idle, Absent

(* What a handler does to an order leaves it an order. *)
HasStatus(o) == "status" \in DOMAIN o

LEMMA StatusStays ==
  ASSUME NEW o, HasStatus(o), NEW n, NEW s
  PROVE  /\ HasStatus([o EXCEPT !.status = s]) /\ [o EXCEPT !.status = s].status = s
         /\ HasStatus([o EXCEPT !.cum = n]) /\ [o EXCEPT !.cum = n].status = o.status
         /\ HasStatus([o EXCEPT !.qty = n])
BY DEF HasStatus

LEMMA TransitionHasStatus ==
  ASSUME NEW o, HasStatus(o), NEW s
  PROVE  HasStatus(Transition(o, s)) /\ Transition(o, s).status \in {o.status, s}
BY StatusStays DEF Transition, Moved

LEMMA FillHasStatus ==
  ASSUME NEW o, HasStatus(o), NEW q
  PROVE  HasStatus(RecordFill(o, q)) /\ HasStatus(ApplyFill(o, q))
<1>1. HasStatus(RecordFill(o, q))
  BY StatusStays DEF RecordFill
<1> QED
  BY <1>1, TransitionHasStatus DEF ApplyFill

(* An order ends as the row says, or is none the worse. *)
LEMMA TerminalizedAsListed ==
  ASSUME NEW o, HasStatus(o), NEW row
  PROVE  /\ HasStatus(Terminalized(o, row))
         /\ ~IsTerminal(o) /\ IsTerminal(Terminalized(o, row)) =>
              Terminalized(o, row).status = row.status
<1>1. HasStatus(Ratcheted(o, row)) /\ Ratcheted(o, row).status = o.status
  BY StatusStays DEF Ratcheted
<1>2. HasStatus(Transition(Ratcheted(o, row), row.status))
      /\ Transition(Ratcheted(o, row), row.status).status \in {o.status, row.status}
  BY <1>1, TransitionHasStatus
<1> QED
  BY <1>2 DEF Terminalized, IsTerminal

LEMMA AdoptedHasStatus ==
  ASSUME NEW o, o # None => HasStatus(o), NEW row
  PROVE  HasStatus(Adopted(o, row))
<1>1. CASE o = None
  BY <1>1 DEF Adopted, HasStatus
<1>2. CASE o # None
  <2>1. HasStatus(Ratcheted(o, row))
    BY <1>2, StatusStays DEF Ratcheted
  <2> QED
    BY <1>2, <2>1, StatusStays DEF Adopted, Refreshed
<1> QED
  BY <1>1, <1>2

(* A step of the process on its orders. *)
OmsShaped ==
  /\ DOMAIN oms' = Clients
  /\ \A c \in Clients : oms'[c] # None => HasStatus(oms'[c])
  /\ \A c \in Clients : HasStatus(oms[c]) => HasStatus(oms'[c])

LEMMA OneOrderShaped ==
  ASSUME GuessInv, NEW c \in Clients, NEW o, o # None => HasStatus(o),
         HasStatus(oms[c]) => HasStatus(o),
         oms' = [oms EXCEPT ![c] = o]
  PROVE  OmsShaped
BY DEF OmsShaped, GuessInv, Shaped, HasStatus

LEMMA OrdersMove ==
  ASSUME GuessInv, OmsShaped, UNCHANGED <<venue, pass>>, SentOnce'
  PROVE  GuessInv'
BY DEF GuessInv, Shaped, RowsTrue, OmsShaped, HasStatus

LEMMA ProcessStep ==
  ASSUME GuessInv, NEW c \in Clients, Place(c) \/ CancelOrder(c)
  PROVE  GuessInv'
<1>1. CASE Place(c)
  <2> DEFINE o == [status |-> "PENDING_NEW", inst |-> Instrument[c], qty |-> env.lots, cum |-> 0]
  <2>1. OmsShaped
    BY <1>1, OneOrderShaped DEF Place, HasStatus
  <2>2. SentOnce'
    BY <1>1 DEF Place, Absent, GuessInv, SentOnce
  <2> QED
    BY <1>1, <2>1, <2>2, OrdersMove DEF Place
<1>2. CASE CancelOrder(c)
  <2>1. HasStatus(oms[c]) /\ oms' = [oms EXCEPT ![c] = Transition(oms[c], "PENDING_CANCEL")]
    BY <1>2 DEF CancelOrder, GuessInv, Shaped, HasStatus
  <2>2. OmsShaped
    BY <2>1, OneOrderShaped, TransitionHasStatus
  <2>3. SentOnce'
    BY <1>2 DEF CancelOrder, GuessInv, SentOnce
  <2> QED
    BY <1>2, <2>2, <2>3, OrdersMove DEF CancelOrder
<1> QED
  BY <1>1, <1>2

LEMMA EventStep ==
  ASSUME GuessInv, OrderEvent \/ FillEvent
  PROVE  GuessInv'
<1>1. UNCHANGED <<venue, pass, reqs>> /\ SentOnce'
  BY DEF OrderEvent, FillEvent, GuessInv, SentOnce
<1>2. \A c \in Clients : oms[c] # None => HasStatus(oms[c])
  BY DEF GuessInv, Shaped, HasStatus
<1>3. CASE OrderEvent
  <2> DEFINE c == Head(ordQ)[2]
             to == IF Head(ordQ)[1] = "ack" THEN "ACKNOWLEDGED" ELSE "CANCELLED"
             o == IF oms[c] = None THEN None ELSE Transition(oms[c], to)
  <2>1. oms' = [oms EXCEPT ![c] = o]
    BY <1>3 DEF OrderEvent
  <2>2. c \in Clients => (o # None => HasStatus(o)) /\ (HasStatus(oms[c]) => HasStatus(o))
    BY <1>2, TransitionHasStatus
  <2>3. OmsShaped
    BY <2>1, <2>2 DEF OmsShaped, GuessInv, Shaped, HasStatus
  <2> QED
    BY <1>1, <2>3, OrdersMove
<1>4. CASE FillEvent
  <2> DEFINE c == Head(fillQ)
             o == IF oms[c] = None THEN None
                  ELSE IF IsTerminal(oms[c]) THEN RecordFill(oms[c], 1) ELSE ApplyFill(oms[c], 1)
  <2>1. oms' = [oms EXCEPT ![c] = o]
    BY <1>4 DEF FillEvent
  <2>2. c \in Clients => (o # None => HasStatus(o)) /\ (HasStatus(oms[c]) => HasStatus(o))
    BY <1>2, FillHasStatus
  <2>3. OmsShaped
    BY <2>1, <2>2 DEF OmsShaped, GuessInv, Shaped, HasStatus
  <2> QED
    BY <1>1, <2>3, OrdersMove
<1> QED
  BY <1>3, <1>4

(* What has ended at the venue has ended: only an order that has not moves there. *)
LEMMA VenueMoves ==
  ASSUME GuessInv, NEW c \in Clients, venue[c].status \notin Terminal, UNCHANGED <<oms, pass>>,
         DOMAIN venue' = Clients, HasStatus(venue'[c]),
         \A d \in Clients \ {c} : venue'[d] = venue[d],
         SentOnce'
  PROVE  GuessInv'
BY DEF GuessInv, Shaped, RowsTrue, HasStatus

LEMMA VenueStep ==
  ASSUME GuessInv, NEW c \in Clients,
         VenueAccepts(c) \/ GatewayAcks(c) \/ VenueCancels(c) \/ VenueFills(c) \/ VenueEnds(c)
  PROVE  GuessInv'
<1>0. HasStatus(venue[c]) /\ DOMAIN venue = Clients
  BY DEF GuessInv, Shaped, HasStatus
<1>1. CASE VenueAccepts(c)
  <2>1. venue[c].status = "ABSENT" /\ UNCHANGED <<oms, pass>>
    BY <1>1 DEF VenueAccepts, GuessInv, SentOnce, syncVars
  <2>2. /\ DOMAIN venue' = Clients /\ HasStatus(venue'[c])
        /\ \A d \in Clients \ {c} : venue'[d] = venue[d]
    BY <1>0, <1>1 DEF VenueAccepts, HasStatus
  <2>3. SentOnce'
    BY <1>1, <2>2 DEF VenueAccepts, GuessInv, SentOnce
  <2> QED
    BY <2>1, <2>2, <2>3, VenueMoves DEF Terminal
<1>2. CASE venue' # venue /\ Live(c) /\ (VenueCancels(c) \/ VenueFills(c) \/ VenueEnds(c))
  <2>1. venue[c].status = "NEW" /\ UNCHANGED <<oms, pass>> /\ reqs' \subseteq reqs
    BY <1>2 DEF Live, VenueCancels, VenueFills, VenueEnds, syncVars
  <2>2. /\ DOMAIN venue' = Clients /\ HasStatus(venue'[c])
        /\ \A d \in Clients \ {c} : venue'[d] = venue[d]
    BY <1>0, <1>2 DEF VenueCancels, VenueFills, VenueEnds, HasStatus
  <2>3. SentOnce'
    BY <2>1, <2>2 DEF GuessInv, SentOnce
  <2> QED
    BY <2>1, <2>2, <2>3, VenueMoves DEF Terminal
<1>3. CASE venue' = venue /\ ~VenueAccepts(c)
  BY <1>3 DEF GatewayAcks, VenueCancels, VenueFills, VenueEnds, syncVars, GuessInv, Shaped,
              SentOnce, RowsTrue
<1> QED
  BY <1>1, <1>2, <1>3 DEF GatewayAcks, VenueCancels, VenueFills, VenueEnds

(* An answer is true when it is given. *)
LEMMA AskStep ==
  ASSUME GuessInv, UNCHANGED <<oms, venue, reqs>>,
         {"at", "rows", "suspects"} \subseteq DOMAIN pass',
         \A c \in pass'.suspects : c \in pass.suspects \/ c \in Open(oms),
         \/ pass'.at # "resolve"
         \/ \E S \in SUBSET Clients : pass'.rows = RowsOf(S)
  PROVE  GuessInv'
BY DEF GuessInv, Shaped, SentOnce, RowsTrue, RowsOf, Open

(* From the open orders the pass goes on to the next request, suspecting none but
   open orders. *)
LEMMA AdvanceMovesOn ==
  ASSUME NEW book, NEW p, {"at", "rows", "suspects"} \subseteq DOMAIN p, Advance(book, p)
  PROVE  /\ {"at", "rows", "suspects"} \subseteq DOMAIN pass'
         /\ pass'.at \notin {"adopt", "resolve"}
         /\ \A c \in pass'.suspects : c \in p.suspects \/ c \in Open(book)
<1>1. Suspects(book, p) \subseteq Open(book)
  BY DEF Suspects, Missed, Judged
<1> QED
  BY <1>1 DEF Advance

LEMMA NextQueryMovesOn ==
  ASSUME GuessInv, NextQuery
  PROVE  /\ {"at", "rows", "suspects"} \subseteq DOMAIN pass'
         /\ pass'.at \notin {"adopt", "resolve"} /\ pass'.suspects = pass.suspects
BY DEF NextQuery, GuessInv, Shaped

(* A pass begins, or ends, with nothing suspected. *)
LEMMA FreshPass ==
  ASSUME NEW p, (\E b : p = Starting(b)) \/ p = Idle
  PROVE  /\ {"at", "rows", "suspects"} \subseteq DOMAIN p
         /\ p.at \notin {"adopt", "resolve"} /\ p.suspects = {}
<1>1. CASE p = Idle
  BY <1>1 DEF Idle
<1>2. CASE \E b : p = Starting(b)
  <2>1. PICK b : p = Starting(b)
    BY <1>2
  <2>2. /\ DOMAIN p = DOMAIN Idle
        /\ p.at = "ask" /\ p.suspects = {}
    BY <2>1 DEF Starting, Idle
  <2> QED
    BY <2>2 DEF Idle
<1> QED
  BY <1>1, <1>2

LEMMA SyncStep ==
  ASSUME GuessInv, Sync
  PROVE  GuessInv'
<1>1. UNCHANGED <<venue, reqs>> /\ {"at", "rows", "suspects"} \subseteq DOMAIN pass
  BY DEF Sync, GuessInv, Shaped
<1>2. CASE pass.at = "resolve" /\ ResolveGone
  <2>1. \A c \in Clients : oms[c] # None \/ c \in pass.suspects => HasStatus(oms[c])
    BY DEF GuessInv, Shaped, HasStatus
  <2>2. \A c \in Clients : c \in Listed => HasStatus(Terminalized(oms[c], pass.rows[c]))
    BY <2>1, TerminalizedAsListed DEF Listed
  <2>3. oms' = [c \in Clients |->
                  IF c \in Listed /\ pass.rows[c].status \in Terminal
                  THEN Terminalized(oms[c], pass.rows[c]) ELSE oms[c]]
    BY <1>2 DEF ResolveGone
  <2>4. DOMAIN oms' = Clients /\ \A c \in Clients : oms'[c] # None \/ c \in pass.suspects
                                                      => HasStatus(oms'[c])
    BY <2>1, <2>2, <2>3
  <2>5. /\ {"at", "rows", "suspects"} \subseteq DOMAIN pass' /\ pass'.at # "resolve"
        /\ pass'.suspects = pass.suspects
    BY <1>2, NextQueryMovesOn DEF ResolveGone
  <2> QED
    BY <1>1, <2>4, <2>5 DEF GuessInv, Shaped, SentOnce, RowsTrue, HasStatus
<1>3. CASE UNCHANGED oms
  <2> DEFINE Goes == /\ {"at", "rows", "suspects"} \subseteq DOMAIN pass'
                     /\ \A c \in pass'.suspects : c \in pass.suspects \/ c \in Open(oms)
                     /\ pass'.at # "resolve" \/ \E S \in SUBSET Clients : pass'.rows = RowsOf(S)
  <2>1. ResyncStarts \/ PositionsFail \/ (\E net : PositionsAnswered(net)) => Goes
    BY FreshPass DEF ResyncStarts, PositionsFail, PositionsAnswered
  <2>2. AskOpenOrders => Goes
    BY <1>1, AdvanceMovesOn DEF AskOpenOrders, OpenOrdersAnswered, OpenOrdersFail
  <2>3. AskAllOrders => Goes
    <3>1. \A s : At(s) \subseteq Clients
      BY DEF At
    <3>2. AllOrdersFail => Goes
      BY NextQueryMovesOn DEF AllOrdersFail
    <3>3. \A S \in SUBSET Clients : AllOrdersAnswered(RowsOf(S)) => Goes
      BY <1>1 DEF AllOrdersAnswered
    <3> QED
      BY <3>1, <3>2, <3>3 DEF AskAllOrders
  <2>4. CASE Goes
    BY <1>1, <1>3, <2>4, AskStep
  <2>5. CASE pass.at = "resolve" /\ ResolveGone
    BY <1>2, <2>5
  <2> QED
    BY <2>1, <2>2, <2>3, <2>4, <2>5 DEF Sync, AskPositions, ResolveGone
<1>4. UNCHANGED oms \/ (pass.at = "resolve" /\ ResolveGone)
  BY DEF Sync, ResyncStarts, AskOpenOrders, OpenOrdersAnswered, OpenOrdersFail, AskAllOrders,
         AllOrdersAnswered, AllOrdersFail, AskPositions, PositionsAnswered, PositionsFail,
         ResolveGone
<1> QED
  BY <1>2, <1>3, <1>4

LEMMA AdoptStep ==
  ASSUME GuessInv, Adopt
  PROVE  GuessInv'
<1> DEFINE p == [pass EXCEPT !.rows = << >>, !.seen = @ \union DOMAIN pass.rows,
                             !.fetched = @ \union {Head(pass.todo)}]
<1>1. UNCHANGED <<venue, reqs>>
  BY DEF Adopt
<1>2. \A c \in Clients : oms[c] # None => HasStatus(oms[c])
  BY DEF GuessInv, Shaped, HasStatus
<1>3. oms' = [c \in Clients |-> IF c \in DOMAIN pass.rows THEN Adopted(oms[c], pass.rows[c])
                                                          ELSE oms[c]]
  BY DEF Adopt, AdoptOpenOrders
<1>4. \A c \in Clients : HasStatus(Adopted(oms[c], pass.rows[c]))
  BY <1>2, AdoptedHasStatus
<1>5. /\ DOMAIN oms' = Clients
      /\ \A c \in Clients : oms'[c] # None => HasStatus(oms'[c])
      /\ \A c \in Clients : HasStatus(oms[c]) => HasStatus(oms'[c])
  BY <1>2, <1>3, <1>4
<1>6. {"at", "rows", "suspects"} \subseteq DOMAIN p /\ p.suspects = pass.suspects
  BY DEF GuessInv, Shaped
<1>7. Advance(oms', p)
  BY DEF Adopt, AdoptOpenOrders
<1>8. /\ {"at", "rows", "suspects"} \subseteq DOMAIN pass' /\ pass'.at # "resolve"
      /\ \A c \in pass'.suspects : c \in pass.suspects \/ (c \in Clients /\ oms'[c] # None)
  BY <1>6, <1>7, AdvanceMovesOn DEF Open
<1> QED
  BY <1>1, <1>5, <1>8 DEF GuessInv, Shaped, SentOnce, RowsTrue, HasStatus

LEMMA CrashStep ==
  ASSUME GuessInv, Crash
  PROVE  GuessInv'
<1>1. /\ oms' = [c \in Clients |-> None] /\ UNCHANGED venue /\ reqs' \subseteq reqs
      /\ pass' = Starting(TRUE)
  BY DEF Crash
<1>2. /\ {"at", "rows", "suspects"} \subseteq DOMAIN pass'
      /\ pass'.at # "resolve" /\ pass'.suspects = {}
  BY <1>1, FreshPass
<1> QED
  BY <1>1, <1>2 DEF GuessInv, Shaped, SentOnce, RowsTrue

LEMMA GuessStep ==
  ASSUME GuessInv, [SessNext]_sessVars
  PROVE  GuessInv'
<1>1. CASE UNCHANGED <<oms, venue, pass, reqs>>
  BY <1>1 DEF GuessInv, Shaped, SentOnce, RowsTrue
<1>2. Snoop \/ HandleFrame \/ Compare \/ AskBalance \/ Connection \/ UNCHANGED sessVars
        => UNCHANGED <<oms, venue, pass, reqs>>
  BY DEF Snoop, HandleFrame, Compare, AskBalance, Connection, sessVars, syncVars, procVars
<1> QED
  BY <1>1, <1>2, ProcessStep, EventStep, VenueStep, SyncStep, AdoptStep, CrashStep
     DEF SessNext, Process, Venue

(* The one step that ends orders in a pass ends them as the venue did. *)
LEMMA ResolvesAsListed ==
  ASSUME GuessInv, [SessNext]_sessVars, NEW c \in Clients,
         pass.at = "resolve", pass' # pass,
         oms[c] # None, ~IsTerminal(oms[c]), oms'[c] # None, IsTerminal(oms'[c])
  PROVE  oms'[c].status = venue[c].status
<1>1. ~Crash
  BY DEF Crash
<1>2. Sync /\ ResolveGone
  BY <1>1
     DEF SessNext, Process, Place, CancelOrder, Snoop, OrderEvent, FillEvent, HandleFrame,
         Adopt, AdoptOpenOrders, Compare, AskBalance, Venue, VenueAccepts, GatewayAcks,
         VenueCancels, VenueFills, VenueEnds, Connection, sessVars, syncVars, Sync,
         ResyncStarts, AskPositions, PositionsAnswered, PositionsFail
<1>3. /\ c \in Listed /\ pass.rows[c].status \in Terminal
      /\ oms'[c] = Terminalized(oms[c], pass.rows[c])
  BY <1>2 DEF ResolveGone, IsTerminal
<1>4. HasStatus(oms[c])
  BY DEF GuessInv, Shaped, HasStatus
<1>5. oms'[c].status = pass.rows[c].status
  BY <1>3, <1>4, TerminalizedAsListed, ZenonT(30) DEF IsTerminal
<1> QED
  BY <1>3, <1>5 DEF GuessInv, RowsTrue, Listed

(* An order that the resync ends has ended so at the venue (_resolve_gone_orders,
   terminalize_from_venue). *)
THEOREM EndsAsTheVenue == SessSpec => NeverOnGuess
<1>1. ASSUME GuessInv, [SessNext]_sessVars
      PROVE  [\A c \in Clients :
                /\ pass.at = "resolve" /\ pass' # pass
                /\ oms[c] # None /\ ~IsTerminal(oms[c])
                /\ oms'[c] # None /\ IsTerminal(oms'[c])
                => oms'[c].status = venue[c].status]_sessVars
  BY <1>1, ResolvesAsListed
<1> QED
  BY <1>1, SessInitInv, GuessStep, PTL DEF SessSpec, NeverOnGuess

----------------------------------------------------------------------------
(* A fill adds to the net position what it adds to its order. *)
LEMMA NetMoves ==
  ASSUME \A d \in Clients : venue[d].cum \in Nat, NEW c \in Clients, NEW q \in Nat,
         venue'[c].cum = venue[c].cum + q, \A d \in Clients \ {c} : venue'[d].cum = venue[d].cum
  PROVE  Net' = Net + q /\ Net \in Int
<1> DEFINE ids == SetToSeq(Clients)
           had == [k \in DOMAIN ids |-> venue[ids[k]].cum]
           has == [k \in DOMAIN ids |-> venue'[ids[k]].cum]
<1>1. /\ ids \in Seq(Clients) /\ DOMAIN ids = 1..Len(ids) /\ Len(ids) \in Nat
      /\ \A j, k \in DOMAIN ids : ids[j] = ids[k] => j = k
      /\ \A k \in DOMAIN ids : ids[k] \in Clients
  BY SetInOrder, SessionAssumption, LenProperties, ElementOfSeq
<1>2. PICK i \in DOMAIN ids : ids[i] = c
  BY SetInOrder, SessionAssumption
<1> HIDE DEF ids
<1>3. had \in Seq(Int) /\ Len(had) = Len(ids)
  <2>1. had \in [1..Len(ids) -> Int]
    BY <1>1
  <2> QED
    BY <1>1, <2>1, SeqDef, LenProperties
<1>4. had[i] = venue[c].cum /\ venue[c].cum \in Nat /\ i \in 1..Len(had)
  BY <1>1, <1>2, <1>3
<1>5. has = [had EXCEPT ![i] = had[i] + q]
  BY <1>1, <1>2, <1>4
<1> HIDE DEF had, has
<1>6. had[i] + q \in Int
  BY <1>4
<1>7. SumOf(has) = SumOf(had) + (had[i] + q) - had[i] /\ SumOf(had) \in Int
  BY <1>3, <1>4, <1>5, <1>6, SumExcept, SumInt
<1> QED
  BY <1>4, <1>7 DEF Net, ids, had, has

----------------------------------------------------------------------------
(* What the process counts, and what ends *)

Accepted(c) == venue[c].status # "ABSENT"
Ended(c) == venue[c].status \in Terminal
Known == {c \in Clients : Accepted(c)}

Frame == {"TRADE", "CANCELED", "EXPIRED"} \X Clients
News == {"ack", "cancelled"} \X Clients

(* The reports and the events there may be: none of an order the venue has not had, and
   none that ends an order which has not ended there. *)
Reports == {f \in Frame : Accepted(f[2]) /\ (f[1] # "TRADE" => Ended(f[2]))}
Events == {e \in News : Accepted(e[2]) /\ (e[1] = "cancelled" => Ended(e[2]))}

(* An order or a row, for so many lots. *)
Lots(o) == {"cum", "qty"} \subseteq DOMAIN o /\ o.cum \in Nat /\ o.qty = env.lots

AtVenue(c) ==
  /\ Lots(venue[c]) /\ venue[c].status \in {"ABSENT", "NEW"} \union Terminal
  /\ venue[c].status = "ABSENT" => venue[c].cum = 0
  /\ venue[c].status = "NEW" /\ env.lots > 0 => venue[c].cum < env.lots

VenueInv == env \in Envs /\ \A c \in Clients : AtVenue(c)

QueueInv ==
  /\ wire \in Seq(Reports) /\ ordQ \in Seq(Events) /\ fillQ \in Seq(Known)
  /\ acks \subseteq Known
  /\ \A c \in Clients : <<"cancel", c>> \in reqs => Accepted(c)

(* An answer says what was, of orders the venue has had. *)
AnswerInv ==
  pass.at \in {"adopt", "resolve"} =>
    \A c \in DOMAIN pass.rows :
      /\ c \in Clients /\ Lots(pass.rows[c]) /\ pass.rows[c].cum <= venue[c].cum
      /\ pass.at = "adopt" => Accepted(c)

(* The reports of fills on the connection, and the fills on their way to the OMS. *)
TradesOf(c) == [f \in Frame |-> IF f = <<"TRADE", c>> THEN 1 ELSE 0]
FillsOf(c) == [d \in Clients |-> IF d = c THEN 1 ELSE 0]
InWire(c) == SumOf(Along(TradesOf(c), wire))
InFills(c) == SumOf(Along(FillsOf(c), fillQ))

(* The orders the OMS has, and the suspects of the pass among them. *)
Held(c) == oms[c] # None \/ c \in pass.suspects
Taken(c) == IF Held(c) THEN oms[c].cum ELSE 0

OrderInv ==
  \A c \in Clients :
    /\ Held(c) => Lots(oms[c]) /\ (oms[c].status = "PENDING_NEW" \/ Accepted(c))
    /\ env.calm => Taken(c) + InFills(c) + InWire(c) <= venue[c].cum
    /\ env.calm /\ Held(c) /\ IsTerminal(oms[c]) => Ended(c)

CountInv == VenueInv /\ QueueInv /\ AnswerInv /\ OrderInv

(* How far the venue gets: no order goes back. *)
Onwards ==
  /\ UNCHANGED env
  /\ \A c \in Clients :
       /\ Accepted(c) => Accepted(c)'
       /\ Ended(c) => Ended(c)'
       /\ venue'[c].cum >= venue[c].cum

LEMMA CountInitInv == SessInit => CountInv
<1> SUFFICES ASSUME SessInit PROVE CountInv
  OBVIOUS
<1>1. env \in Envs /\ env.lots \in Nat
  BY SessionAssumption DEF SessInit
<1>2. wire = << >> /\ fillQ = << >> /\ ordQ = << >> /\ reqs = {} /\ acks = {}
  BY DEF SessInit, LinkInit
<1>3. /\ \A c \in Clients : oms[c] = None /\ venue[c] = Absent
      /\ pass.at = "ask" /\ pass.suspects = {}
  BY DEF SessInit, Starting, Idle
<1>4. VenueInv
  BY <1>1, <1>3 DEF VenueInv, AtVenue, Absent, Lots
<1>5. QueueInv
  BY <1>2 DEF QueueInv
<1>6. \A c \in Clients : InWire(c) = 0 /\ InFills(c) = 0
  <2> TAKE c \in Clients
  <2>1. Along(TradesOf(c), << >>) = << >> /\ Along(FillsOf(c), << >>) = << >>
    BY DEF Along
  <2> QED
    BY <1>2, <2>1, SumEmpty DEF InWire, InFills
<1>7. OrderInv
  BY <1>3, <1>6 DEF OrderInv, Held, Taken, Absent
<1> QED
  BY <1>3, <1>4, <1>5, <1>7 DEF CountInv, AnswerInv

(* What an order of the OMS is after a handler: an order for as many lots, that has
   counted so many. *)
LEMMA OrdersStayWhole ==
  ASSUME NEW o, HasStatus(o), Lots(o), NEW s, NEW q \in Nat
  PROVE  /\ Lots(Transition(o, s)) /\ Transition(o, s).cum = o.cum
         /\ Lots(RecordFill(o, q)) /\ RecordFill(o, q).cum = o.cum + q
         /\ HasStatus(RecordFill(o, q)) /\ RecordFill(o, q).status = o.status
         /\ Lots(ApplyFill(o, q)) /\ ApplyFill(o, q).cum = o.cum + q
<1>1. ASSUME NEW p, Lots(p), NEW t
      PROVE  Lots(Transition(p, t)) /\ Transition(p, t).cum = p.cum
  BY <1>1 DEF Transition, Moved, Lots
<1>2. /\ Lots(RecordFill(o, q)) /\ RecordFill(o, q).cum = o.cum + q
      /\ HasStatus(RecordFill(o, q)) /\ RecordFill(o, q).status = o.status
  BY DEF RecordFill, Lots, HasStatus
<1> QED
  BY <1>1, <1>2 DEF ApplyFill

LEMMA RatchetedIs ==
  ASSUME NEW o, HasStatus(o), Lots(o), NEW row, Lots(row)
  PROVE  /\ HasStatus(Ratcheted(o, row)) /\ Ratcheted(o, row).status = o.status
         /\ Lots(Ratcheted(o, row))
         /\ Ratcheted(o, row).cum = IF row.cum > o.cum THEN row.cum ELSE o.cum
BY DEF Ratcheted, Lots, HasStatus

(* An answer makes an order count no more than the answer does, or than it did. *)
LEMMA AdoptedIs ==
  ASSUME NEW o, o # None => HasStatus(o) /\ Lots(o), NEW row, Lots(row)
  PROVE  /\ Lots(Adopted(o, row))
         /\ Adopted(o, row).cum = row.cum \/ (o # None /\ Adopted(o, row).cum = o.cum)
         /\ o # None => Adopted(o, row).status = o.status
         /\ IsTerminal(Adopted(o, row)) => o # None /\ IsTerminal(o)
<1>1. CASE o = None
  BY <1>1 DEF Adopted, Lots, IsTerminal, Terminal
<1>2. CASE o # None
  <2> DEFINE p == Ratcheted(o, row)
  <2>1. /\ HasStatus(p) /\ p.status = o.status /\ Lots(p)
        /\ p.cum = row.cum \/ p.cum = o.cum
    BY <1>2, RatchetedIs
  <2> HIDE DEF p
  <2>2. /\ Lots([p EXCEPT !.qty = row.qty]) /\ [p EXCEPT !.qty = row.qty].status = p.status
        /\ [p EXCEPT !.qty = row.qty].cum = p.cum
    BY <2>1 DEF Lots, HasStatus
  <2>3. Adopted(o, row) = IF IsTerminal(o) THEN o ELSE [p EXCEPT !.qty = row.qty]
    BY <1>2 DEF Adopted, Refreshed, p
  <2> QED
    BY <1>2, <2>1, <2>2, <2>3 DEF IsTerminal
<1> QED
  BY <1>1, <1>2

LEMMA TerminalizedIs ==
  ASSUME NEW o, HasStatus(o), Lots(o), NEW row, Lots(row)
  PROVE  /\ Lots(Terminalized(o, row))
         /\ Terminalized(o, row).cum \in {row.cum, o.cum}
         /\ Terminalized(o, row).status \in {o.status, row.status}
<1>1. /\ HasStatus(Ratcheted(o, row)) /\ Ratcheted(o, row).status = o.status
      /\ Lots(Ratcheted(o, row)) /\ Ratcheted(o, row).cum \in {row.cum, o.cum}
  BY RatchetedIs
<1>2. /\ Lots(Transition(Ratcheted(o, row), row.status))
      /\ Transition(Ratcheted(o, row), row.status).cum = Ratcheted(o, row).cum
      /\ Transition(Ratcheted(o, row), row.status).status \in {o.status, row.status}
  BY <1>1, OrdersStayWhole, TransitionHasStatus
<1> QED
  BY <1>1, <1>2 DEF Terminalized

----------------------------------------------------------------------------
(* What is under way *)

LEMMA WaysTyped ==
  ASSUME NEW c \in Clients
  PROVE  TradesOf(c) \in [Frame -> Nat] /\ FillsOf(c) \in [Clients -> Nat]
         /\ TradesOf(c) \in [Frame -> Int] /\ FillsOf(c) \in [Clients -> Int]
BY DEF TradesOf, FillsOf

LEMMA FramesAre ==
  ASSUME QueueInv
  PROVE  wire \in Seq(Frame) /\ fillQ \in Seq(Clients)
<1>1. Reports \subseteq Frame /\ Known \subseteq Clients
  BY DEF Reports, Known
<1> QED
  BY <1>1, QueueGrows DEF QueueInv

LEMMA UnderWay ==
  ASSUME QueueInv, NEW c \in Clients
  PROVE  InWire(c) \in Nat /\ InFills(c) \in Nat
BY FramesAre, WaysTyped, AlongAtLeast DEF InWire, InFills

(* On an empty queue there is nothing. *)
LEMMA EmptyWire ==
  ASSUME NEW c \in Clients
  PROVE  SumOf(Along(TradesOf(c), << >>)) = 0 /\ SumOf(Along(FillsOf(c), << >>)) = 0
<1>1. Along(TradesOf(c), << >>) = << >> /\ Along(FillsOf(c), << >>) = << >>
  BY DEF Along
<1> QED
  BY <1>1, SumEmpty

LEMMA NothingUnderWay ==
  ASSUME NEW c \in Clients
  PROVE  /\ wire = << >> => InWire(c) = 0
         /\ fillQ = << >> => InFills(c) = 0
BY EmptyWire DEF InWire, InFills

LEMMA OneMoreReport ==
  ASSUME QueueInv, NEW f \in Frame, wire' = Append(wire, f), NEW c \in Clients
  PROVE  InWire(c)' = InWire(c) + (IF f = <<"TRADE", c>> THEN 1 ELSE 0)
<1>1. TradesOf(c)[f] = IF f = <<"TRADE", c>> THEN 1 ELSE 0
  BY DEF TradesOf
<1>2. wire \in Seq(Frame) /\ TradesOf(c) \in [Frame -> Int]
  BY FramesAre, WaysTyped
<1>3. SumOf(Along(TradesOf(c), Append(wire, f))) = SumOf(Along(TradesOf(c), wire)) + TradesOf(c)[f]
  BY <1>2, AlongAppend, Zenon
<1> QED
  BY <1>1, <1>3 DEF InWire

LEMMA OneReportLess ==
  ASSUME QueueInv, wire # << >>, NEW f, f = Head(wire), wire' = Tail(wire), NEW c \in Clients
  PROVE  InWire(c) = InWire(c)' + (IF f = <<"TRADE", c>> THEN 1 ELSE 0) /\ InWire(c)' \in Nat
<1>1. f \in Frame /\ Tail(wire) \in Seq(Frame)
  BY FramesAre, Dequeued
<1>2. TradesOf(c)[f] = IF f = <<"TRADE", c>> THEN 1 ELSE 0
  BY <1>1 DEF TradesOf
<1>3. SumOf(Along(TradesOf(c), wire)) = TradesOf(c)[Head(wire)] + SumOf(Along(TradesOf(c), Tail(wire)))
  BY FramesAre, WaysTyped, AlongTail
<1>4. SumOf(Along(TradesOf(c), Tail(wire))) \in Nat
  BY <1>1, WaysTyped, AlongAtLeast
<1> QED
  BY <1>2, <1>3, <1>4 DEF InWire

LEMMA OneMoreFill ==
  ASSUME QueueInv, NEW d \in Clients, fillQ' = Append(fillQ, d), NEW c \in Clients
  PROVE  InFills(c)' = InFills(c) + (IF d = c THEN 1 ELSE 0)
<1>1. FillsOf(c)[d] = IF d = c THEN 1 ELSE 0
  BY DEF FillsOf
<1>2. fillQ \in Seq(Clients) /\ FillsOf(c) \in [Clients -> Int]
  BY FramesAre, WaysTyped
<1>3. SumOf(Along(FillsOf(c), Append(fillQ, d))) = SumOf(Along(FillsOf(c), fillQ)) + FillsOf(c)[d]
  BY <1>2, AlongAppend, Zenon
<1> QED
  BY <1>1, <1>3 DEF InFills

LEMMA OneFillLess ==
  ASSUME QueueInv, fillQ # << >>, NEW d, d = Head(fillQ), fillQ' = Tail(fillQ), NEW c \in Clients
  PROVE  InFills(c) = InFills(c)' + (IF d = c THEN 1 ELSE 0) /\ InFills(c)' \in Nat
<1>1. d \in Clients /\ Tail(fillQ) \in Seq(Clients)
  BY FramesAre, Dequeued
<1>2. FillsOf(c)[d] = IF d = c THEN 1 ELSE 0
  BY <1>1 DEF FillsOf
<1>3. SumOf(Along(FillsOf(c), fillQ)) = FillsOf(c)[Head(fillQ)] + SumOf(Along(FillsOf(c), Tail(fillQ)))
  BY FramesAre, WaysTyped, AlongTail
<1>4. SumOf(Along(FillsOf(c), Tail(fillQ))) \in Nat
  BY <1>1, WaysTyped, AlongAtLeast
<1> QED
  BY <1>2, <1>3, <1>4 DEF InFills

----------------------------------------------------------------------------
(* Kinds of steps *)

LEMMA CancelsKnown ==
  ASSUME CountInv, Onwards,
         \A c \in Clients : <<"cancel", c>> \in reqs' => <<"cancel", c>> \in reqs \/ Accepted(c)
  PROVE  \A c \in Clients : <<"cancel", c>> \in reqs' => Accepted(c)'
<1>1. \A c \in Clients : <<"cancel", c>> \in reqs => Accepted(c)
  BY DEF CountInv, QueueInv
<1>2. \A c \in Clients : Accepted(c) => Accepted(c)'
  BY DEF Onwards, Accepted, Ended
<1> QED
  BY <1>1, <1>2 DEF Accepted

LEMMA TakenTyped ==
  ASSUME CountInv, NEW c \in Clients
  PROVE  Taken(c) \in Nat
BY DEF Held, Taken, CountInv, OrderInv, Lots

(* On the OMS's orders, that counts nothing. *)
LEMMA OmsCounts ==
  ASSUME CountInv, UNCHANGED <<venue, env, pass, wire, fillQ, acks>>, ordQ' \in Seq(Events),
         \A c \in Clients : <<"cancel", c>> \in reqs' => <<"cancel", c>> \in reqs \/ Accepted(c),
         \A c \in Clients :
           \/ oms'[c] = oms[c]
           \/ /\ Held(c)' => Lots(oms'[c]) /\ (oms'[c].status = "PENDING_NEW" \/ Accepted(c))
              /\ Taken(c)' <= Taken(c)
              /\ Held(c)' /\ IsTerminal(oms'[c]) =>
                   (Held(c) /\ IsTerminal(oms[c])) \/ Ended(c)
  PROVE  CountInv'
<1>1. VenueInv' /\ AnswerInv'
  BY DEF CountInv, VenueInv, AtVenue, Lots, AnswerInv, Accepted
<1>2. QueueInv'
  BY DEF CountInv, QueueInv, Known, Reports, Events, Accepted, Ended
<1>3. ASSUME NEW c \in Clients
      PROVE  /\ InWire(c)' = InWire(c) /\ InFills(c)' = InFills(c)
             /\ Accepted(c)' = Accepted(c) /\ Ended(c)' = Ended(c)
             /\ \A o : Lots(o)' = Lots(o)
  BY DEF InWire, InFills, Accepted, Ended, Lots
<1>4. ASSUME NEW c \in Clients
      PROVE  /\ Held(c)' => /\ Lots(oms'[c])
                                 /\ (oms'[c].status = "PENDING_NEW" \/ Accepted(c))
             /\ Taken(c)' <= Taken(c)
             /\ env.calm /\ Held(c)' /\ IsTerminal(oms'[c]) => Ended(c)
  <2>1. CASE oms'[c] = oms[c]
    BY <2>1, TakenTyped DEF CountInv, OrderInv, Held, Taken
  <2>2. CASE oms'[c] # oms[c]
    BY <2>2 DEF CountInv, OrderInv
  <2> QED
    BY <2>1, <2>2
<1>5. OrderInv'
  <2> SUFFICES ASSUME NEW c \in Clients
               PROVE  /\ Held(c)' => /\ Lots(oms[c])'
                                         /\ (oms'[c].status = "PENDING_NEW" \/ Accepted(c)')
                      /\ env.calm => Taken(c)' + InFills(c)' + InWire(c)' <= venue[c].cum
                      /\ env.calm /\ Held(c)' /\ IsTerminal(oms'[c]) => Ended(c)'
    BY DEF OrderInv, Lots, IsTerminal, Accepted, Ended, Held, Taken, InFills, InWire
  <2>1. env.calm => Taken(c) + InFills(c) + InWire(c) <= venue[c].cum
    BY DEF CountInv, OrderInv
  <2>2. /\ Taken(c) \in Nat /\ InFills(c) \in Nat /\ InWire(c) \in Nat /\ venue[c].cum \in Nat
        /\ Taken(c)' \in Nat
    <3>1. Taken(c)' \in Nat
      BY <1>4 DEF Held, Taken, Lots
    <3> QED
      BY <3>1, UnderWay, TakenTyped DEF CountInv, VenueInv, AtVenue, Lots
  <2> QED
    BY <1>3, <1>4, <2>1, <2>2
<1> QED
  BY <1>1, <1>2, <1>5 DEF CountInv

(* On what is under way and at the venue. *)
LEMMA TrafficCounts ==
  ASSUME CountInv, Onwards, VenueInv', UNCHANGED <<oms, pass>>,
         (wire \in Seq(Reports))', (ordQ \in Seq(Events))', (fillQ \in Seq(Known))',
         (acks \subseteq Known)',
         \A c \in Clients : <<"cancel", c>> \in reqs' => <<"cancel", c>> \in reqs \/ Accepted(c),
         \A c \in Clients :
           InFills(c)' + InWire(c)' + venue[c].cum <= InFills(c) + InWire(c) + venue'[c].cum
  PROVE  CountInv'
<1>1. QueueInv'
  BY CancelsKnown DEF QueueInv
<1>2. AnswerInv'
  <2> SUFFICES ASSUME pass.at \in {"adopt", "resolve"}, NEW c \in DOMAIN pass.rows
               PROVE  /\ c \in Clients /\ Lots(pass.rows[c])' /\ pass.rows[c].cum <= venue'[c].cum
                      /\ pass.at = "adopt" => Accepted(c)'
    BY DEF AnswerInv, Lots
  <2>1. /\ c \in Clients /\ Lots(pass.rows[c]) /\ pass.rows[c].cum <= venue[c].cum
        /\ pass.at = "adopt" => Accepted(c)
    BY DEF CountInv, AnswerInv
  <2>2. pass.rows[c].cum \in Nat /\ venue[c].cum \in Nat /\ venue'[c].cum \in Nat
    BY <2>1 DEF Lots, CountInv, VenueInv, AtVenue
  <2>3. Lots(pass.rows[c])' /\ venue'[c].cum >= venue[c].cum /\ (Accepted(c) => Accepted(c)')
    BY <2>1 DEF Onwards, Lots, Accepted, Ended
  <2> QED
    BY <2>1, <2>2, <2>3
<1>3. OrderInv'
  <2> SUFFICES ASSUME NEW c \in Clients
               PROVE  /\ Held(c) => /\ Lots(oms[c])'
                                         /\ (oms[c].status = "PENDING_NEW" \/ Accepted(c)')
                      /\ env.calm => Taken(c)' + InFills(c)' + InWire(c)' <= venue'[c].cum
                      /\ env.calm /\ Held(c) /\ IsTerminal(oms[c]) => Ended(c)'
    BY DEF OrderInv, Held, Lots, IsTerminal, Onwards
  <2>1. Taken(c)' = Taken(c) /\ Taken(c) \in Nat
    BY DEF Held, Taken, CountInv, OrderInv, Lots
  <2>2. /\ InWire(c) \in Nat /\ InFills(c) \in Nat /\ InWire(c)' \in Nat /\ InFills(c)' \in Nat
        /\ venue[c].cum \in Nat /\ venue'[c].cum \in Nat
    <3>1. InWire(c) \in Nat /\ InFills(c) \in Nat
      BY UnderWay DEF CountInv
    <3>2. InWire(c)' \in Nat /\ InFills(c)' \in Nat
      <4>1. wire' \in Seq(Frame) /\ fillQ' \in Seq(Clients)
        <5>1. Reports' \subseteq Frame /\ Known' \subseteq Clients
          BY DEF Reports, Known
        <5> QED
          BY <1>1, <5>1, QueueGrows DEF QueueInv
      <4> QED
        BY <4>1, WaysTyped, AlongAtLeast DEF InWire, InFills
    <3> QED
      BY <3>1, <3>2 DEF CountInv, VenueInv, AtVenue, Lots
  <2>3. env.calm => Taken(c) + InFills(c) + InWire(c) <= venue[c].cum
    BY DEF CountInv, OrderInv
  <2>4. env.calm => Taken(c)' + InFills(c)' + InWire(c)' <= venue'[c].cum
    BY <2>1, <2>2, <2>3, SMTT(30)
  <2>5. /\ Accepted(c) => Accepted(c)'
        /\ Ended(c) => Ended(c)'
        /\ Lots(oms[c]) => Lots(oms[c])'
    BY DEF Onwards, Lots, Accepted, Ended
  <2>6. /\ Held(c) => Lots(oms[c]) /\ (oms[c].status = "PENDING_NEW" \/ Accepted(c))
        /\ env.calm /\ Held(c) /\ IsTerminal(oms[c]) => Ended(c)
    BY DEF CountInv, OrderInv
  <2> QED
    BY <2>4, <2>5, <2>6
<1> QED
  BY <1>1, <1>2, <1>3 DEF CountInv

----------------------------------------------------------------------------
(* The process's orders *)

LEMMA PlaceCounts ==
  ASSUME CountInv, GuessInv, NEW c \in Clients, Place(c)
  PROVE  CountInv'
<1> DEFINE o == [status |-> "PENDING_NEW", inst |-> Instrument[c], qty |-> env.lots, cum |-> 0]
<1>1. /\ oms[c] = None /\ oms' = [oms EXCEPT ![c] = o] /\ DOMAIN oms = Clients
      /\ UNCHANGED <<venue, env, pass, wire, fillQ, acks, ordQ>>
      /\ reqs' = reqs \union {<<"new", c>>}
  BY DEF Place, linkVars, GuessInv, Shaped
<1>2. /\ Lots(o) /\ o.status = "PENDING_NEW" /\ o.cum = 0 /\ ~IsTerminal(o)
  <2>1. env.lots \in Nat
    BY SessionAssumption DEF CountInv, VenueInv
  <2> QED
    BY <2>1 DEF Lots, IsTerminal, Terminal
<1> HIDE DEF o
<1>3. oms'[c] = o /\ \A d \in Clients \ {c} : oms'[d] = oms[d]
  BY <1>1
<1>5. Taken(c)' <= Taken(c)
  <2>1. Taken(c) \in Nat /\ Taken(c)' \in {0, oms'[c].cum}
    BY TakenTyped DEF Taken
  <2> QED
    BY <1>2, <1>3, <2>1
<1>6. ordQ' \in Seq(Events)
  BY <1>1 DEF CountInv, QueueInv
<1>7. \A d \in Clients : <<"cancel", d>> \in reqs' => <<"cancel", d>> \in reqs \/ Accepted(d)
  BY <1>1
<1>8. \A d \in Clients :
           \/ oms'[d] = oms[d]
           \/ /\ Held(d)' => Lots(oms'[d]) /\ (oms'[d].status = "PENDING_NEW" \/ Accepted(d))
              /\ Taken(d)' <= Taken(d)
              /\ Held(d)' /\ IsTerminal(oms'[d]) =>
                   (Held(d) /\ IsTerminal(oms[d])) \/ Ended(d)
  BY <1>2, <1>3, <1>5
<1> QED
  BY <1>1, <1>6, <1>7, <1>8, OmsCounts

(* A status moves. *)
LEMMA MoveCounts ==
  ASSUME CountInv, GuessInv, NEW c \in Clients, NEW s,
         oms' = [oms EXCEPT ![c] = IF oms[c] = None THEN None ELSE Transition(oms[c], s)],
         UNCHANGED <<venue, env, pass, wire, fillQ, acks>>, ordQ' \in Seq(Events),
         \A d \in Clients : <<"cancel", d>> \in reqs' => <<"cancel", d>> \in reqs \/ Accepted(d),
         oms[c] # None /\ CanMove(oms[c], s) =>
           Accepted(c) /\ (s \in Terminal => Ended(c))
  PROVE  CountInv'
<1>1. DOMAIN oms = Clients /\ (Held(c) => HasStatus(oms[c]) /\ Lots(oms[c]))
  BY DEF Held, GuessInv, Shaped, HasStatus, CountInv, OrderInv
<1>2. \A d \in Clients \ {c} : oms'[d] = oms[d]
  BY <1>1
<1>3. CASE oms'[c] = oms[c]
  BY <1>2, <1>3, OmsCounts
<1>4. CASE oms'[c] # oms[c]
  <2>1. /\ oms[c] # None /\ CanMove(oms[c], s) /\ oms'[c] = Transition(oms[c], s)
        /\ oms'[c] = Moved(oms[c], s) /\ Held(c)
    BY <1>1, <1>4 DEF Transition, Held
  <2>2. /\ Lots(oms'[c]) /\ oms'[c].cum = oms[c].cum /\ oms'[c].status = s
    <3>1. /\ Lots(Transition(oms[c], s)) /\ Transition(oms[c], s).cum = oms[c].cum
      BY <1>1, <2>1, OrdersStayWhole
    <3>2. Moved(oms[c], s).status = s
      BY <1>1, <2>1 DEF Moved, HasStatus
    <3> QED
      BY <2>1, <3>1, <3>2
  <2>3. Taken(c)' <= Taken(c)
    BY <2>1, <2>2, <1>1 DEF Held, Taken, Lots
  <2> QED
    BY <1>2, <2>1, <2>2, <2>3, OmsCounts DEF IsTerminal
<1> QED
  BY <1>3, <1>4

LEMMA CancelCounts ==
  ASSUME CountInv, GuessInv, NEW c \in Clients, CancelOrder(c)
  PROVE  CountInv'
<1>1. /\ oms[c] # None /\ CanMove(oms[c], "PENDING_CANCEL")
      /\ oms' = [oms EXCEPT ![c] = IF oms[c] = None THEN None
                                   ELSE Transition(oms[c], "PENDING_CANCEL")]
      /\ UNCHANGED <<venue, env, pass, wire, fillQ, acks, ordQ>>
      /\ reqs' = reqs \union {<<"cancel", c>>}
  BY DEF CancelOrder, linkVars, procVars
<1>2. Accepted(c)
  <2>1. oms[c].status # "PENDING_NEW"
    BY <1>1 DEF CanMove, LegalFrom, Resting
  <2> QED
    BY <1>1, <2>1 DEF Held, CountInv, OrderInv
<1>3. ordQ' \in Seq(Events)
  BY <1>1 DEF CountInv, QueueInv
<1>4. "PENDING_CANCEL" \notin Terminal
  BY DEF Terminal
<1> QED
  BY <1>1, <1>2, <1>3, <1>4, MoveCounts

LEMMA OrderEventCounts ==
  ASSUME CountInv, GuessInv, OrderEvent
  PROVE  CountInv'
<1> DEFINE e == Head(ordQ)
           to == IF e[1] = "ack" THEN "ACKNOWLEDGED" ELSE "CANCELLED"
<1>1. e \in Events /\ Tail(ordQ) \in Seq(Events)
  BY Dequeued DEF OrderEvent, CountInv, QueueInv
<1>2. e[2] \in Clients /\ e[1] \in {"ack", "cancelled"} /\ Accepted(e[2])
      /\ (e[1] = "cancelled" => Ended(e[2]))
  BY <1>1 DEF Events, News
<1>3. /\ oms' = [oms EXCEPT ![e[2]] = IF oms[e[2]] = None THEN None
                                      ELSE Transition(oms[e[2]], to)]
      /\ UNCHANGED <<venue, env, pass, wire, fillQ, acks, reqs>> /\ ordQ' = Tail(ordQ)
  BY DEF OrderEvent, linkVars
<1>4. to \in Terminal => Ended(e[2])
  BY <1>2 DEF Terminal
<1> HIDE DEF e, to
<1> QED
  BY <1>1, <1>2, <1>3, <1>4, MoveCounts

LEMMA LotsAreNumbers ==
  ASSUME VenueInv
  PROVE  env.lots \in Nat
BY SessionAssumption DEF VenueInv

(* A fill fills an order when it is its last lot. *)
LEMMA FilledWhen ==
  ASSUME VenueInv, NEW o, HasStatus(o), Lots(o), ~IsTerminal(o), IsTerminal(ApplyFill(o, 1))
  PROVE  o.cum + 1 = env.lots
<1> DEFINE p == RecordFill(o, 1)
<1>1. p.status = o.status /\ p.cum = o.cum + 1 /\ HasStatus(p) /\ Lots(p)
  BY OrdersStayWhole
<1> HIDE DEF p
<1>2. ApplyFill(o, 1) = Transition(p, IF Leaves(p) = 0 THEN "FILLED" ELSE "PARTIALLY_FILLED")
  BY DEF ApplyFill, p
<1>3. CASE Leaves(p) = 0
  <2>1. env.lots - p.cum = 0 /\ p.cum \in Nat
    BY <1>1, <1>3 DEF Leaves, Lots
  <2> QED
    BY <1>1, <2>1, LotsAreNumbers
<1>4. CASE Leaves(p) # 0
  <2>1. Transition(p, "PARTIALLY_FILLED").status \in {o.status, "PARTIALLY_FILLED"}
    BY <1>1, TransitionHasStatus
  <2> QED
    BY <1>2, <1>4, <2>1 DEF IsTerminal, Terminal
<1> QED
  BY <1>3, <1>4

LEMMA FillEventCounts ==
  ASSUME CountInv, GuessInv, FillEvent
  PROVE  CountInv'
<1> DEFINE o(c) == IF oms[c] = None THEN None
                   ELSE IF IsTerminal(oms[c]) THEN RecordFill(oms[c], 1) ELSE ApplyFill(oms[c], 1)
<1>1. PICK d : d = Head(fillQ)
  OBVIOUS
<1>2. /\ d \in Known /\ d \in Clients /\ Accepted(d) /\ Tail(fillQ) \in Seq(Known)
      /\ fillQ' = Tail(fillQ) /\ oms' = [oms EXCEPT ![d] = o(d)]
      /\ UNCHANGED <<venue, env, pass, wire, ordQ, acks, reqs>>
  BY <1>1, Dequeued DEF FillEvent, CountInv, QueueInv, Known, linkVars
<1>3. /\ VenueInv' /\ AnswerInv'
      /\ \A c \in Clients : /\ InWire(c)' = InWire(c)
                            /\ Accepted(c)' = Accepted(c) /\ Ended(c)' = Ended(c)
      /\ \A p : Lots(p)' = Lots(p)
  BY <1>2 DEF CountInv, VenueInv, AtVenue, Lots, AnswerInv, Accepted, Ended, InWire
<1>4. QueueInv'
  BY <1>2 DEF CountInv, QueueInv, Known, Reports, Events, Accepted, Ended
<1>5. \A c \in Clients : oms[c] # None => HasStatus(oms[c]) /\ Lots(oms[c])
  BY DEF Held, GuessInv, Shaped, HasStatus, CountInv, OrderInv
<1>6. oms'[d] = o(d) /\ \A c \in Clients \ {d} : oms'[c] = oms[c]
  BY <1>2 DEF GuessInv, Shaped
<1>7. \A c \in Clients : /\ InFills(c) = InFills(c)' + (IF d = c THEN 1 ELSE 0)
                         /\ InFills(c)' \in Nat /\ InWire(c) \in Nat
                         /\ Taken(c) \in Nat /\ venue[c].cum \in Nat
  BY <1>1, <1>2, OneFillLess, UnderWay, TakenTyped
     DEF FillEvent, CountInv, VenueInv, AtVenue, Lots
<1>8. oms[d] # None =>
        /\ Lots(o(d)) /\ o(d).cum = oms[d].cum + 1
        /\ IsTerminal(o(d)) => IsTerminal(oms[d]) \/ oms[d].cum + 1 = env.lots
  <2> SUFFICES ASSUME oms[d] # None
               PROVE  /\ Lots(o(d)) /\ o(d).cum = oms[d].cum + 1
                      /\ IsTerminal(o(d)) => IsTerminal(oms[d]) \/ oms[d].cum + 1 = env.lots
    OBVIOUS
  <2>1. HasStatus(oms[d]) /\ Lots(oms[d]) /\ VenueInv
    BY <1>2, <1>5 DEF CountInv
  <2>2. /\ Lots(RecordFill(oms[d], 1)) /\ RecordFill(oms[d], 1).cum = oms[d].cum + 1
        /\ Lots(ApplyFill(oms[d], 1)) /\ ApplyFill(oms[d], 1).cum = oms[d].cum + 1
    BY <2>1, OrdersStayWhole
  <2>3. ~IsTerminal(oms[d]) /\ IsTerminal(ApplyFill(oms[d], 1)) => oms[d].cum + 1 = env.lots
    BY <2>1, FilledWhen
  <2> QED
    BY <2>2, <2>3
<1> HIDE DEF o
<1>9. ASSUME NEW c \in Clients, oms'[c] = oms[c]
      PROVE  /\ Held(c)' = Held(c) /\ Taken(c)' = Taken(c) /\ Lots(oms[c])' = Lots(oms[c])
             /\ InFills(c)' <= InFills(c)
  BY <1>2, <1>3, <1>7, <1>9 DEF Held, Taken, Lots
<1>10. OrderInv'
  <2> SUFFICES ASSUME NEW c \in Clients
               PROVE  /\ Held(c)' => /\ Lots(oms[c])'
                                     /\ (oms'[c].status = "PENDING_NEW" \/ Accepted(c)')
                      /\ env.calm => Taken(c)' + InFills(c)' + InWire(c)' <= venue[c].cum
                      /\ env.calm /\ Held(c)' /\ IsTerminal(oms'[c]) => Ended(c)'
    BY <1>2 DEF OrderInv, Held, Lots, IsTerminal, Accepted, Ended, Taken, InFills, InWire
  <2>1. /\ Held(c) => Lots(oms[c]) /\ (oms[c].status = "PENDING_NEW" \/ Accepted(c))
        /\ env.calm => Taken(c) + InFills(c) + InWire(c) <= venue[c].cum
        /\ env.calm /\ Held(c) /\ IsTerminal(oms[c]) => Ended(c)
    BY DEF CountInv, OrderInv
  <2>2. CASE oms'[c] = oms[c]
    BY <1>3, <1>7, <1>9, <2>1, <2>2
  <2>3. CASE oms'[c] # oms[c]
    <3>1. c = d /\ oms[d] # None /\ oms'[d] = o(d)
      BY <1>6, <2>3 DEF o
    <3>2. Held(d) /\ Taken(d) = oms[d].cum /\ Lots(oms'[d]) /\ oms'[d].cum = Taken(d) + 1
      BY <1>8, <3>1 DEF Held, Taken
    <3>3. Taken(d)' \in Nat /\ Taken(d)' <= Taken(d) + 1
      <4>1. Taken(d)' \in {0, oms'[d].cum}
        BY DEF Taken
      <4> QED
        BY <1>2, <1>7, <3>2, <4>1
    <3>4. env.calm => Taken(d)' + InFills(d)' + InWire(d)' <= venue[d].cum
      BY <1>2, <1>3, <1>7, <2>1, <3>1, <3>3
    <3>5. ASSUME env.calm, IsTerminal(oms'[d])
          PROVE  Ended(d)
      <4>1. CASE IsTerminal(oms[d])
        BY <2>1, <3>1, <3>2, <3>5, <4>1
      <4>2. CASE oms[d].cum + 1 = env.lots
        <5>1. Taken(d) + 1 <= venue[d].cum
          BY <1>2, <1>7, <2>1, <3>1, <3>5
        <5>2. env.lots > 0 /\ venue[d].cum >= env.lots
          BY <1>2, <1>7, <3>2, <4>2, <5>1
        <5>3. AtVenue(d) /\ env.lots \in Nat
          BY <1>2, LotsAreNumbers DEF CountInv, VenueInv
        <5>4. venue[d].status # "NEW"
          BY <1>2, <1>7, <5>2, <5>3 DEF AtVenue
        <5> QED
          BY <1>2, <5>3, <5>4 DEF AtVenue, Accepted, Ended
      <4> QED
        BY <1>8, <3>1, <3>5, <4>1, <4>2
    <3>6. Lots(oms[d])'
      BY <1>3, <3>2
    <3> QED
      BY <1>2, <1>3, <3>1, <3>4, <3>5, <3>6
  <2> QED
    BY <2>2, <2>3
<1> QED
  BY <1>3, <1>4, <1>10 DEF CountInv

(* A report handled is a fill or an event for the OMS, or it is lost. *)
LEMMA HandleFrameCounts ==
  ASSUME CountInv, HandleFrame
  PROVE  CountInv'
<1>1. PICK f : f = Head(wire)
  OBVIOUS
<1>2. /\ f \in Reports /\ Tail(wire) \in Seq(Reports) /\ wire # << >> /\ wire' = Tail(wire)
      /\ UNCHANGED <<oms, pass, venue, env, reqs, acks>>
  BY <1>1, Dequeued DEF HandleFrame, CountInv, QueueInv, syncVars
<1>3. /\ f \in Frame /\ f[2] \in Clients /\ f[2] \in Known
      /\ f[1] # "TRADE" => <<"cancelled", f[2]>> \in Events
  BY <1>2 DEF Reports, Frame, Known, Events, News
<1>4. \/ UNCHANGED <<fillQ, ordQ>>
      \/ f[1] = "TRADE" /\ fillQ' = Append(fillQ, f[2]) /\ UNCHANGED ordQ
      \/ /\ f[1] # "TRADE" /\ UNCHANGED fillQ
         /\ ordQ' = Append(ordQ, <<"cancelled", f[2]>>)
  BY <1>1 DEF HandleFrame
<1>5. Onwards /\ VenueInv'
  <2>1. \A c \in Clients : venue[c].cum \in Nat
    BY DEF CountInv, VenueInv, AtVenue, Lots
  <2>2. VenueInv'
    BY <1>2 DEF CountInv, VenueInv, AtVenue, Lots
  <2> QED
    BY <1>2, <2>1, <2>2 DEF Onwards, Accepted, Ended
<1>6. Reports' = Reports /\ Events' = Events /\ Known' = Known
  BY <1>2 DEF Reports, Events, Known, Accepted, Ended
<1>7. /\ wire' \in Seq(Reports') /\ fillQ' \in Seq(Known') /\ ordQ' \in Seq(Events')
      /\ acks' \subseteq Known'
  <2>1. fillQ' \in Seq(Known) /\ ordQ' \in Seq(Events)
    BY <1>3, <1>4, Queued DEF CountInv, QueueInv
  <2> QED
    BY <1>2, <1>6, <2>1 DEF CountInv, QueueInv
<1>8. ASSUME NEW c \in Clients
      PROVE  InFills(c)' + InWire(c)' + venue[c].cum <= InFills(c) + InWire(c) + venue'[c].cum
  <2>1. /\ InWire(c) = InWire(c)' + (IF f = <<"TRADE", c>> THEN 1 ELSE 0) /\ InWire(c)' \in Nat
    BY <1>1, <1>2, OneReportLess DEF CountInv
  <2>2. InFills(c) \in Nat /\ venue[c].cum \in Nat /\ venue'[c].cum = venue[c].cum
    BY <1>2, UnderWay DEF CountInv, VenueInv, AtVenue, Lots
  <2>3. CASE UNCHANGED fillQ
    <3>1. InFills(c)' = InFills(c)
      BY <2>3 DEF InFills
    <3> QED
      BY <2>1, <2>2, <3>1
  <2>4. CASE f[1] = "TRADE" /\ fillQ' = Append(fillQ, f[2])
    <3>1. InFills(c)' = InFills(c) + (IF f[2] = c THEN 1 ELSE 0)
      BY <1>3, <2>4, OneMoreFill DEF CountInv
    <3>2. f[2] = c => f = <<"TRADE", c>>
      BY <1>3, <2>4 DEF Frame
    <3> QED
      BY <2>1, <2>2, <3>1, <3>2
  <2> QED
    BY <1>4, <2>3, <2>4
<1>9. \A c \in Clients : <<"cancel", c>> \in reqs' => <<"cancel", c>> \in reqs
  BY <1>2
<1> QED
  BY <1>2, <1>5, <1>7, <1>8, <1>9, TrafficCounts

----------------------------------------------------------------------------
(* The venue *)

(* At the venue one order moves on, and no report or event is untrue for it. *)
LEMMA MovesOn ==
  ASSUME CountInv, GuessInv, NEW c \in Clients, UNCHANGED env, NEW v, Lots(v),
         venue' = [venue EXCEPT ![c] = v], v.cum >= venue[c].cum,
         v.status \in {"NEW"} \union Terminal, Ended(c) => v.status = venue[c].status,
         v.status = "NEW" /\ env.lots > 0 => v.cum < env.lots
  PROVE  /\ Onwards /\ VenueInv' /\ Accepted(c)' /\ (v.status \in Terminal => Ended(c)')
         /\ Reports \subseteq Reports' /\ Events \subseteq Events' /\ Known \subseteq Known'
<1>1. /\ venue'[c] = v /\ \A d \in Clients \ {c} : venue'[d] = venue[d]
  BY DEF GuessInv, Shaped
<1>2. v.status # "ABSENT"
  BY DEF Terminal
<1>3. \A d \in Clients : venue[d].cum \in Nat /\ AtVenue(d)
  BY DEF CountInv, VenueInv, AtVenue, Lots
<1>4. ASSUME NEW d \in Clients
      PROVE  (Accepted(d) => Accepted(d)') /\ (Ended(d) => Ended(d)')
             /\ venue'[d].cum >= venue[d].cum
  <2>1. CASE d = c
    BY <1>1, <1>2, <2>1 DEF Accepted, Ended
  <2>2. CASE d # c
    BY <1>1, <1>3, <2>2 DEF Accepted, Ended
  <2> QED
    BY <2>1, <2>2
<1>5. Onwards
  BY <1>4 DEF Onwards
<1>6. VenueInv'
  <2> SUFFICES ASSUME NEW d \in Clients PROVE AtVenue(d)'
    BY DEF VenueInv, CountInv
  <2>1. CASE d = c
    BY <1>1, <1>2, <2>1 DEF AtVenue, Lots
  <2>2. CASE d # c
    BY <1>1, <1>3, <2>2 DEF AtVenue, Lots
  <2> QED
    BY <2>1, <2>2
<1>7. Accepted(c)' /\ (v.status \in Terminal => Ended(c)')
  BY <1>1, <1>2 DEF Accepted, Ended
<1>8. Known \subseteq Known'
  BY <1>4 DEF Known
<1>9. Reports \subseteq Reports' /\ Events \subseteq Events'
  BY <1>4 DEF Reports, Events, Frame, News
<1> QED
  BY <1>5, <1>6, <1>7, <1>8, <1>9

(* A step at the venue, and the report of it if the stream hears. *)
LEMMA ReportCounts ==
  ASSUME CountInv, Onwards, VenueInv', UNCHANGED <<oms, pass, fillQ>>,
         Reports \subseteq Reports', Events \subseteq Events', Known \subseteq Known',
         NEW f \in Frame, wire' = wire \/ (f \in Reports' /\ wire' = Append(wire, f)),
         \A d \in Clients : f = <<"TRADE", d>> => venue'[d].cum = venue[d].cum + 1,
         ordQ' \in Seq(Events'), acks' \subseteq Known',
         \A d \in Clients : <<"cancel", d>> \in reqs' => <<"cancel", d>> \in reqs \/ Accepted(d)
  PROVE  CountInv'
<1>1. wire' \in Seq(Reports') /\ fillQ' \in Seq(Known')
  <2>1. wire \in Seq(Reports') /\ fillQ \in Seq(Known')
    BY QueueGrows DEF CountInv, QueueInv
  <2> QED
    BY <2>1, Queued
<1>2. ASSUME NEW d \in Clients
      PROVE  InFills(d)' + InWire(d)' + venue[d].cum <= InFills(d) + InWire(d) + venue'[d].cum
  <2>1. /\ InWire(d) \in Nat /\ InFills(d) \in Nat /\ venue[d].cum \in Nat
        /\ venue'[d].cum \in Nat /\ venue'[d].cum >= venue[d].cum
    <3>1. InWire(d) \in Nat /\ InFills(d) \in Nat /\ venue[d].cum \in Nat
      BY UnderWay DEF CountInv, VenueInv, AtVenue, Lots
    <3>2. venue'[d].cum \in Nat
      BY DEF VenueInv, AtVenue, Lots
    <3> QED
      BY <3>1, <3>2 DEF Onwards
  <2>2. InFills(d)' = InFills(d)
    BY DEF InFills
  <2>3. CASE wire' = wire
    <3>1. InWire(d)' = InWire(d)
      BY <2>3 DEF InWire
    <3> QED
      BY <2>1, <2>2, <3>1
  <2>4. CASE wire' = Append(wire, f)
    <3>1. InWire(d)' = InWire(d) + (IF f = <<"TRADE", d>> THEN 1 ELSE 0)
      BY <2>4, OneMoreReport DEF CountInv
    <3> QED
      BY <2>1, <2>2, <3>1, SMTT(30)
  <2> QED
    BY <2>3, <2>4
<1> QED
  BY <1>1, <1>2, TrafficCounts

LEMMA AtTheVenue ==
  ASSUME CountInv, GuessInv, NEW c \in Clients
  PROVE  /\ HasStatus(venue[c]) /\ Lots(venue[c]) /\ venue[c].cum \in Nat /\ DOMAIN venue = Clients
         /\ Live(c) => Accepted(c) /\ ~Ended(c) /\ (env.lots > 0 => venue[c].cum < env.lots)
         /\ Accepted(c) /\ ~Live(c) => Ended(c)
BY DEF CountInv, VenueInv, AtVenue, Lots, GuessInv, Shaped, HasStatus, Live, Accepted, Ended, Terminal

LEMMA AcceptCounts ==
  ASSUME CountInv, GuessInv, NEW c \in Clients, VenueAccepts(c)
  PROVE  CountInv'
<1> DEFINE v == [venue[c] EXCEPT !.status = "NEW", !.inst = Instrument[c]]
<1>1. /\ venue' = [venue EXCEPT ![c].status = "NEW", ![c].inst = Instrument[c]]
      /\ UNCHANGED <<oms, pass, fillQ, wire, ordQ, env>> /\ reqs' \subseteq reqs
      /\ acks' \subseteq acks \union {c} /\ venue[c].status = "ABSENT"
  BY DEF VenueAccepts, linkVars, syncVars, procVars, GuessInv, SentOnce
<1>2. HasStatus(venue[c]) /\ Lots(venue[c]) /\ venue[c].cum = 0 /\ DOMAIN venue = Clients
  BY <1>1, AtTheVenue DEF CountInv, VenueInv, AtVenue
<1>3. venue' = [venue EXCEPT ![c] = v]
  BY <1>1, <1>2
<1>4. Lots(v) /\ v.cum = 0 /\ v.status = "NEW"
  BY <1>2 DEF HasStatus, Lots
<1> HIDE DEF v
<1>5. ~Ended(c) /\ env.lots \in Nat
  BY <1>1, LotsAreNumbers DEF Ended, Terminal, CountInv
<1>6. /\ Onwards /\ VenueInv' /\ Accepted(c)'
      /\ Reports \subseteq Reports' /\ Events \subseteq Events' /\ Known \subseteq Known'
  <2>1. UNCHANGED env /\ v.cum >= venue[c].cum /\ (Ended(c) => v.status = venue[c].status)
        /\ (v.status = "NEW" /\ env.lots > 0 => v.cum < env.lots)
        /\ v.status \in {"NEW"} \union Terminal
    BY <1>1, <1>2, <1>4, <1>5
  <2> QED
    BY <1>3, <1>4, <2>1, MovesOn, Zenon
<1>7. ordQ' \in Seq(Events') /\ acks' \subseteq Known'
  <2>1. c \in Known'
    BY <1>6 DEF Known
  <2> QED
    BY <1>1, <1>6, <2>1, QueueGrows DEF CountInv, QueueInv
<1>8. <<"CANCELED", c>> \in Frame
  BY DEF Frame
<1>9. \A d \in Clients : /\ <<"CANCELED", c>> # <<"TRADE", d>>
                         /\ <<"cancel", d>> \in reqs' => <<"cancel", d>> \in reqs
  BY <1>1
<1> QED
  BY <1>1, <1>6, <1>7, <1>8, <1>9, ReportCounts

(* Nothing moves at the venue. *)
SameVenue == UNCHANGED <<venue, env>>

LEMMA NothingMoves ==
  ASSUME CountInv, SameVenue
  PROVE  /\ Onwards /\ VenueInv' /\ Reports' = Reports /\ Events' = Events /\ Known' = Known
         /\ Reports \subseteq Reports' /\ Events \subseteq Events' /\ Known \subseteq Known'
<1>1. \A c \in Clients : venue[c].cum \in Nat
  BY DEF CountInv, VenueInv, AtVenue, Lots
<1>2. Reports' = Reports /\ Events' = Events /\ Known' = Known
  BY DEF SameVenue, Reports, Events, Known, Accepted, Ended
<1>3. VenueInv'
  BY DEF SameVenue, CountInv, VenueInv, AtVenue, Lots
<1> QED
  BY <1>1, <1>2, <1>3 DEF SameVenue, Onwards, Accepted, Ended

LEMMA AckCounts ==
  ASSUME CountInv, NEW c \in Clients, GatewayAcks(c)
  PROVE  CountInv'
<1>1. /\ c \in acks /\ acks' \subseteq acks /\ ordQ' = Append(ordQ, <<"ack", c>>)
      /\ UNCHANGED <<oms, pass, wire, fillQ, venue, env, reqs>>
  BY DEF GatewayAcks, linkVars, syncVars
<1>2. <<"ack", c>> \in Events
  BY <1>1 DEF CountInv, QueueInv, Known, Events, News
<1>3. ordQ' \in Seq(Events)
  BY <1>1, <1>2, Queued DEF CountInv, QueueInv
<1>4. SameVenue
  BY <1>1 DEF SameVenue
<1>5. acks' \subseteq Known'
  BY <1>1, <1>4, NothingMoves DEF CountInv, QueueInv
<1>6. <<"CANCELED", c>> \in Frame
  BY DEF Frame
<1> QED
  BY <1>1, <1>3, <1>4, <1>5, <1>6, NothingMoves, ReportCounts

LEMMA VenueCancelsCounts ==
  ASSUME CountInv, GuessInv, NEW c \in Clients, VenueCancels(c)
  PROVE  CountInv'
<1>1. /\ <<"cancel", c>> \in reqs /\ reqs' \subseteq reqs /\ Accepted(c)
      /\ UNCHANGED <<oms, pass, fillQ, env, acks>>
  BY DEF VenueCancels, syncVars, CountInv, QueueInv
<1>2. <<"CANCELED", c>> \in Frame /\ \A d \in Clients : <<"CANCELED", c>> # <<"TRADE", d>>
  BY DEF Frame
<1>3. CASE Live(c)
  <2> DEFINE v == [venue[c] EXCEPT !.status = "CANCELLED"]
  <2>1. /\ venue' = [venue EXCEPT ![c] = v] /\ UNCHANGED ordQ
        /\ wire' = wire \/ wire' = Append(wire, <<"CANCELED", c>>)
    BY <1>3 DEF VenueCancels, Reported, Sends
  <2>2. Lots(v) /\ v.cum = venue[c].cum /\ v.status = "CANCELLED" /\ v.cum \in Nat
    BY AtTheVenue DEF HasStatus, Lots
  <2> HIDE DEF v
  <2>3. "CANCELLED" \in Terminal
    BY DEF Terminal
  <2>4. /\ Onwards /\ VenueInv' /\ Accepted(c)' /\ Ended(c)'
        /\ Reports \subseteq Reports' /\ Events \subseteq Events' /\ Known \subseteq Known'
    <3>1. UNCHANGED env /\ v.cum >= venue[c].cum /\ (Ended(c) => v.status = venue[c].status)
          /\ (v.status = "NEW" /\ env.lots > 0 => v.cum < env.lots)
          /\ v.status \in {"NEW"} \union Terminal
      BY <1>1, <1>3, <2>2, <2>3, AtTheVenue
    <3> QED
      BY <2>1, <2>2, <2>3, <3>1, MovesOn, Zenon
  <2>5. <<"CANCELED", c>> \in Reports'
    BY <1>2, <2>4 DEF Reports
  <2>6. ordQ' \in Seq(Events') /\ acks' \subseteq Known'
    BY <1>1, <2>1, <2>4, QueueGrows DEF CountInv, QueueInv
  <2> QED
    BY <1>1, <1>2, <2>1, <2>4, <2>5, <2>6, ReportCounts
<1>4. CASE ~Live(c)
  <2>1. /\ UNCHANGED <<venue, wire>> /\ ordQ' = Append(ordQ, <<"cancelled", c>>)
    BY <1>4 DEF VenueCancels
  <2>2. <<"cancelled", c>> \in Events
    BY <1>1, <1>4, AtTheVenue DEF Events, News
  <2>3. ordQ' \in Seq(Events)
    BY <2>1, <2>2, Queued DEF CountInv, QueueInv
  <2>4. SameVenue
    BY <1>1, <2>1 DEF SameVenue
  <2>5. acks' \subseteq Known'
    BY <1>1, <2>4, NothingMoves DEF CountInv, QueueInv
  <2> QED
    BY <1>1, <1>2, <2>1, <2>3, <2>4, <2>5, NothingMoves, ReportCounts
<1> QED
  BY <1>3, <1>4

LEMMA FillGrows ==
  ASSUME CountInv, GuessInv, NEW c \in Clients, VenueFills(c)
  PROVE  venue'[c].cum = venue[c].cum + 1
<1>1. "cum" \in DOMAIN venue[c] /\ DOMAIN venue = Clients
  BY AtTheVenue DEF Lots
<1> QED
  BY <1>1 DEF VenueFills

LEMMA VenueFillsCounts ==
  ASSUME CountInv, GuessInv, NEW c \in Clients, VenueFills(c)
  PROVE  CountInv'
<1> DEFINE s == IF venue[c].status = "NEW" /\ venue[c].cum + 1 = env.lots THEN "FILLED"
                ELSE venue[c].status
           v == [venue[c] EXCEPT !.cum = venue[c].cum + 1, !.status = s]
<1>1. /\ Live(c) /\ venue' = [venue EXCEPT ![c] = v]
      /\ UNCHANGED <<oms, pass, fillQ, ordQ, env, acks, reqs>>
      /\ wire' = wire \/ wire' = Append(wire, <<"TRADE", c>>)
  BY DEF VenueFills, Reported, Sends, syncVars, procVars
<1>2. HasStatus(venue[c]) /\ Lots(venue[c]) /\ venue[c].cum \in Nat /\ DOMAIN venue = Clients
      /\ venue[c].status = "NEW"
  BY <1>1, AtTheVenue DEF Live
<1>3. Lots(v) /\ v.cum = venue[c].cum + 1 /\ v.status = s /\ v.cum \in Nat
  BY <1>2 DEF Lots, HasStatus
<1>4. s \in {"NEW"} \union Terminal /\ (s = "NEW" => venue[c].cum + 1 # env.lots)
  BY <1>2 DEF Terminal
<1>5. ~Ended(c) /\ (env.lots > 0 => venue[c].cum < env.lots) /\ env.lots \in Nat
  BY <1>1, AtTheVenue, LotsAreNumbers DEF CountInv
<1> HIDE DEF v, s
<1>6. v.status = "NEW" /\ env.lots > 0 => v.cum < env.lots
  BY <1>2, <1>3, <1>4, <1>5
<1>7. /\ Onwards /\ VenueInv' /\ Accepted(c)'
      /\ Reports \subseteq Reports' /\ Events \subseteq Events' /\ Known \subseteq Known'
  <2>1. UNCHANGED env /\ v.cum >= venue[c].cum /\ (Ended(c) => v.status = venue[c].status)
        /\ v.status \in {"NEW"} \union Terminal
    BY <1>1, <1>2, <1>3, <1>4, <1>5
  <2> QED
    BY <1>1, <1>3, <1>6, <2>1, MovesOn, Zenon
<1>8. <<"TRADE", c>> \in Frame /\ <<"TRADE", c>> \in Reports'
  BY <1>7 DEF Frame, Reports
<1>9. \A d \in Clients : <<"TRADE", c>> = <<"TRADE", d>> => venue'[d].cum = venue[d].cum + 1
  BY <1>1, <1>2, <1>3
<1>10. ordQ' \in Seq(Events') /\ acks' \subseteq Known'
  BY <1>1, <1>7, QueueGrows DEF CountInv, QueueInv
<1> QED
  BY <1>1, <1>7, <1>8, <1>9, <1>10, ReportCounts

LEMMA VenueEndsCounts ==
  ASSUME CountInv, GuessInv, NEW c \in Clients, VenueEnds(c)
  PROVE  CountInv'
<1> DEFINE v == [venue[c] EXCEPT !.status = "EXPIRED"]
<1>1. /\ Live(c) /\ venue' = [venue EXCEPT ![c] = v]
      /\ UNCHANGED <<oms, pass, fillQ, ordQ, env, acks, reqs>>
      /\ wire' = wire \/ wire' = Append(wire, <<"EXPIRED", c>>)
  BY DEF VenueEnds, Reported, Sends, syncVars, procVars
<1>2. Lots(v) /\ v.cum = venue[c].cum /\ v.status = "EXPIRED" /\ v.cum \in Nat
  BY AtTheVenue DEF HasStatus, Lots
<1> HIDE DEF v
<1>3. "EXPIRED" \in Terminal
  BY DEF Terminal
<1>4. /\ Onwards /\ VenueInv' /\ Accepted(c)' /\ Ended(c)'
      /\ Reports \subseteq Reports' /\ Events \subseteq Events' /\ Known \subseteq Known'
  <2>1. UNCHANGED env /\ v.cum >= venue[c].cum /\ (Ended(c) => v.status = venue[c].status)
        /\ (v.status = "NEW" /\ env.lots > 0 => v.cum < env.lots)
        /\ v.status \in {"NEW"} \union Terminal
    BY <1>1, <1>2, <1>3, AtTheVenue
  <2> QED
    BY <1>1, <1>2, <1>3, <2>1, MovesOn, Zenon
<1>5. /\ <<"EXPIRED", c>> \in Frame /\ <<"EXPIRED", c>> \in Reports'
      /\ \A d \in Clients : <<"EXPIRED", c>> # <<"TRADE", d>>
  BY <1>4 DEF Frame, Reports
<1>6. ordQ' \in Seq(Events') /\ acks' \subseteq Known'
  BY <1>1, <1>4, QueueGrows DEF CountInv, QueueInv
<1> QED
  BY <1>1, <1>4, <1>5, <1>6, ReportCounts

(* What was on a connection that is gone is lost. *)
LEMMA ConnectionCounts ==
  ASSUME CountInv, Connection
  PROVE  CountInv'
<1>1. /\ wire' \in {wire, << >>}
      /\ UNCHANGED <<oms, pass, venue, env, reqs, acks, ordQ, fillQ>>
  BY DEF Connection, TakeKey, Connect, BackoffEnds, KeepaliveRefused, KeepaliveFails,
         ReissueFails, Reissue, ConnectFails, KeyExpires, Recreated, Disconnect,
         syncVars, procVars
<1>2. SameVenue
  BY <1>1 DEF SameVenue
<1>3. /\ ordQ' \in Seq(Events') /\ acks' \subseteq Known' /\ fillQ' \in Seq(Known')
      /\ wire' \in Seq(Reports')
  <2>1. wire' \in Seq(Reports)
    BY <1>1, EmptySeq, Zenon DEF CountInv, QueueInv
  <2> QED
    BY <1>1, <1>2, <2>1, NothingMoves DEF CountInv, QueueInv
<1>4. ASSUME NEW d \in Clients
      PROVE  InFills(d)' + InWire(d)' + venue[d].cum <= InFills(d) + InWire(d) + venue'[d].cum
  <2>1. InFills(d)' = InFills(d) /\ InWire(d)' \in {InWire(d), 0}
    <3>1. wire' = wire => InWire(d)' = InWire(d)
      BY DEF InWire
    <3>2. wire' = << >> => InWire(d)' = 0
      BY EmptyWire DEF InWire
    <3> QED
      BY <1>1, <3>1, <3>2 DEF InFills
  <2>2. InWire(d) \in Nat /\ InFills(d) \in Nat /\ venue[d].cum \in Nat
    BY UnderWay DEF CountInv, VenueInv, AtVenue, Lots
  <2> QED
    BY <1>1, <2>1, <2>2
<1> QED
  BY <1>1, <1>2, <1>3, <1>4, NothingMoves, TrafficCounts

----------------------------------------------------------------------------
(* The resync *)

(* An answer is used while nothing is under way. *)
LEMMA AnswerCounts ==
  ASSUME CountInv, UNCHANGED <<venue, env, wire, fillQ, acks, reqs>>, Allowed,
         ordQ' \in Seq(Events), AnswerInv',
         \A c \in Clients :
           \/ oms'[c] = oms[c] /\ (Held(c)' => Held(c))
           \/ /\ Lots(oms'[c]) /\ (oms'[c].status = "PENDING_NEW" \/ Accepted(c))
              /\ env.calm => oms'[c].cum <= venue[c].cum
              /\ env.calm /\ IsTerminal(oms'[c]) => Ended(c)
  PROVE  CountInv'
<1>1. SameVenue
  BY DEF SameVenue
<1>2. QueueInv'
  BY <1>1, NothingMoves DEF SameVenue, CountInv, QueueInv, Accepted
<1>3. \A c \in Clients : /\ Accepted(c)' = Accepted(c) /\ Ended(c)' = Ended(c)
                         /\ InWire(c)' = InWire(c) /\ InFills(c)' = InFills(c)
  BY DEF Accepted, Ended, InWire, InFills
<1>4. OrderInv'
  <2> SUFFICES ASSUME NEW c \in Clients
               PROVE  /\ Held(c)' => /\ Lots(oms[c])'
                                     /\ (oms'[c].status = "PENDING_NEW" \/ Accepted(c)')
                      /\ env.calm => Taken(c)' + InFills(c)' + InWire(c)' <= venue[c].cum
                      /\ env.calm /\ Held(c)' /\ IsTerminal(oms'[c]) => Ended(c)'
    BY DEF OrderInv, Held, Lots, IsTerminal, Accepted, Ended, Taken, InFills, InWire
  <2>1. /\ Held(c) => Lots(oms[c]) /\ (oms[c].status = "PENDING_NEW" \/ Accepted(c))
        /\ env.calm => Taken(c) + InFills(c) + InWire(c) <= venue[c].cum
        /\ env.calm /\ Held(c) /\ IsTerminal(oms[c]) => Ended(c)
    BY DEF CountInv, OrderInv
  <2>2. /\ Taken(c) \in Nat /\ InFills(c) \in Nat /\ InWire(c) \in Nat /\ venue[c].cum \in Nat
        /\ env.calm => InFills(c) = 0 /\ InWire(c) = 0
    <3>1. env.calm => wire = << >> /\ fillQ = << >>
      BY DEF Allowed, Quiet
    <3> QED
      BY <3>1, UnderWay, TakenTyped, NothingUnderWay DEF CountInv, VenueInv, AtVenue, Lots
  <2>3. Lots(oms[c])' = Lots(oms'[c]) /\ Taken(c)' \in {0, oms'[c].cum}
    BY DEF Lots, Taken
  <2>4. CASE oms'[c] = oms[c] /\ (Held(c)' => Held(c))
    <3>1. Taken(c)' \in {0, Taken(c)}
      BY <2>4 DEF Taken
    <3>2. env.calm => Taken(c)' + InFills(c)' + InWire(c)' <= venue[c].cum
      BY <1>3, <2>1, <2>2, <3>1
    <3> QED
      BY <1>3, <2>1, <2>3, <2>4, <3>2
  <2>5. CASE /\ Lots(oms'[c]) /\ (oms'[c].status = "PENDING_NEW" \/ Accepted(c))
             /\ env.calm => oms'[c].cum <= venue[c].cum
             /\ env.calm /\ IsTerminal(oms'[c]) => Ended(c)
    <3>1. oms'[c].cum \in Nat
      BY <2>5 DEF Lots
    <3>2. env.calm => Taken(c)' + InFills(c)' + InWire(c)' <= venue[c].cum
      BY <1>3, <2>2, <2>3, <2>5, <3>1
    <3> QED
      BY <1>3, <2>3, <2>5, <3>2
  <2> QED
    BY <2>4, <2>5
<1> QED
  BY <1>1, <1>2, <1>4, NothingMoves DEF CountInv

(* A request is answered with what is there, or the pass moves on. *)
Asks ==
  /\ UNCHANGED oms
  /\ \A c \in pass'.suspects : c \in pass.suspects \/ c \in Open(oms)
  /\ \/ pass'.at \notin {"adopt", "resolve"}
     \/ \E S \in SUBSET Clients : /\ pass'.rows = RowsOf(S)
                                  /\ pass'.at = "adopt" => \A c \in S : Live(c)

LEMMA SyncAsks ==
  ASSUME GuessInv, Sync
  PROVE  Asks \/ (pass.at = "resolve" /\ ResolveGone)
<1>1. {"at", "rows", "suspects"} \subseteq DOMAIN pass
  BY DEF GuessInv, Shaped
<1>2. ResyncStarts \/ PositionsFail \/ (\E net : PositionsAnswered(net)) => Asks
  BY FreshPass DEF ResyncStarts, PositionsFail, PositionsAnswered, Asks
<1>3. AskOpenOrders => Asks
  <2>1. OpenOrdersFail => Asks
    BY <1>1, AdvanceMovesOn DEF OpenOrdersFail, Asks
  <2>2. ASSUME NEW S \in SUBSET Clients, \A c \in S : Live(c), OpenOrdersAnswered(RowsOf(S))
        PROVE  Asks
    BY <1>1, <2>2 DEF OpenOrdersAnswered, Asks
  <2>3. \A s : {c \in At(s) : Live(c)} \subseteq Clients
    BY DEF At
  <2> QED
    BY <2>1, <2>2, <2>3 DEF AskOpenOrders
<1>4. AskAllOrders => Asks
  <2>1. AllOrdersFail => Asks
    BY NextQueryMovesOn DEF AllOrdersFail, Asks
  <2>2. ASSUME NEW S \in SUBSET Clients, AllOrdersAnswered(RowsOf(S))
        PROVE  Asks
    BY <1>1, <2>2 DEF AllOrdersAnswered, Asks
  <2>3. \A s : At(s) \subseteq Clients
    BY DEF At
  <2> QED
    BY <2>1, <2>2, <2>3 DEF AskAllOrders
<1> QED
  BY <1>2, <1>3, <1>4 DEF Sync, AskPositions, ResolveGone

LEMMA SyncCounts ==
  ASSUME CountInv, GuessInv, Sync
  PROVE  CountInv'
<1>1. /\ UNCHANGED <<venue, env, wire, fillQ, acks, reqs>> /\ Allowed /\ ordQ' \in Seq(Events)
  BY DEF Sync, linkVars, procVars, CountInv, QueueInv
<1>2. CASE Asks
  <2>1. AnswerInv'
    <3>1. CASE pass'.at \notin {"adopt", "resolve"}
      BY <3>1 DEF AnswerInv
    <3>2. CASE \E S \in SUBSET Clients : /\ pass'.rows = RowsOf(S)
                                         /\ pass'.at = "adopt" => \A c \in S : Live(c)
      <4>1. PICK S \in SUBSET Clients : /\ pass'.rows = RowsOf(S)
                                        /\ pass'.at = "adopt" => \A c \in S : Live(c)
        BY <3>2
      <4>2. DOMAIN pass'.rows = S /\ \A c \in S : pass'.rows[c] = venue[c]
        BY <4>1 DEF RowsOf
      <4>3. \A c \in S : /\ Lots(venue[c])' /\ venue[c].cum <= venue'[c].cum
                         /\ Live(c) => Accepted(c)'
        BY <1>1, AtTheVenue DEF Lots, Accepted
      <4>4. \A c \in S : /\ c \in Clients /\ Lots(pass.rows[c])' /\ pass'.rows[c].cum <= venue'[c].cum
                         /\ pass'.at = "adopt" => Accepted(c)'
        <5> SUFFICES ASSUME NEW c \in S
                     PROVE  /\ c \in Clients /\ Lots(pass.rows[c])'
                            /\ pass'.rows[c].cum <= venue'[c].cum
                            /\ pass'.at = "adopt" => Accepted(c)'
          OBVIOUS
        <5>1. pass'.rows[c] = venue[c] /\ venue'[c] = venue[c] /\ c \in Clients
          BY <1>1, <4>2
        <5>2. Lots(pass.rows[c])' /\ pass'.rows[c].cum <= venue'[c].cum
          BY <4>3, <5>1 DEF Lots
        <5>3. pass'.at = "adopt" => Accepted(c)'
          BY <4>1, <4>3
        <5> QED
          BY <5>1, <5>2, <5>3
      <4> QED
        BY <4>2, <4>4 DEF AnswerInv, Lots, Accepted
    <3> QED
      BY <1>2, <3>1, <3>2 DEF Asks
  <2>2. \A c \in Clients : oms'[c] = oms[c] /\ (Held(c)' => Held(c))
    BY <1>2 DEF Asks, Held, Open
  <2> QED
    BY <1>1, <2>1, <2>2, AnswerCounts
<1>3. CASE pass.at = "resolve" /\ ResolveGone
  <2>1. oms' = [c \in Clients |->
                  IF c \in Listed /\ pass.rows[c].status \in Terminal
                  THEN Terminalized(oms[c], pass.rows[c]) ELSE oms[c]]
    BY <1>3 DEF ResolveGone
  <2>2. pass'.at \notin {"adopt", "resolve"} /\ pass'.suspects = pass.suspects
    BY <1>3, NextQueryMovesOn DEF ResolveGone
  <2>3. AnswerInv'
    BY <2>2 DEF AnswerInv
  <2>4. ASSUME NEW c \in Clients, c \in Listed, pass.rows[c].status \in Terminal
        PROVE  /\ Lots(oms'[c]) /\ Accepted(c) /\ Ended(c)
               /\ env.calm => oms'[c].cum <= venue[c].cum
    <3>1. c \in pass.suspects /\ c \in DOMAIN pass.rows /\ Held(c)
      BY <2>4 DEF Listed, Held
    <3>2. HasStatus(oms[c]) /\ Lots(oms[c]) /\ Taken(c) = oms[c].cum
      BY <3>1 DEF GuessInv, Shaped, HasStatus, CountInv, OrderInv, Taken
    <3>3. Lots(pass.rows[c]) /\ pass.rows[c].cum <= venue[c].cum
      BY <1>3, <3>1 DEF CountInv, AnswerInv
    <3>4. Lots(oms'[c]) /\ oms'[c].cum \in {pass.rows[c].cum, oms[c].cum}
      BY <2>1, <2>4, <3>2, <3>3, TerminalizedIs
    <3>5. env.calm => oms[c].cum <= venue[c].cum
      <4>1. env.calm => Taken(c) + InFills(c) + InWire(c) <= venue[c].cum
        BY DEF CountInv, OrderInv
      <4>2. Taken(c) \in Nat /\ InFills(c) \in Nat /\ InWire(c) \in Nat /\ venue[c].cum \in Nat
        BY TakenTyped, UnderWay, AtTheVenue DEF CountInv
      <4> QED
        BY <3>2, <4>1, <4>2
    <3>6. Ended(c) /\ Accepted(c)
      BY <1>3, <2>4, <3>1 DEF GuessInv, RowsTrue, Ended, Accepted, Terminal
    <3> QED
      BY <3>3, <3>4, <3>5, <3>6
  <2>5. \A c \in Clients :
           \/ oms'[c] = oms[c] /\ (Held(c)' => Held(c))
           \/ Lots(oms'[c]) /\ Accepted(c) /\ Ended(c) /\ (env.calm => oms'[c].cum <= venue[c].cum)
    BY <2>1, <2>2, <2>4 DEF Held
  <2> QED
    BY <1>1, <2>3, <2>5, AnswerCounts
<1> QED
  BY <1>2, <1>3, SyncAsks

LEMMA AdoptCounts ==
  ASSUME CountInv, GuessInv, Adopt
  PROVE  CountInv'
<1> DEFINE p == [pass EXCEPT !.rows = << >>, !.seen = @ \union DOMAIN pass.rows,
                             !.fetched = @ \union {Head(pass.todo)}]
           new == SetToSeq(NewlyAdopted)
           told == [k \in DOMAIN new |-> <<"ack", new[k]>>]
<1>1. /\ pass.at = "adopt" /\ Advance(oms', p) /\ Allowed
      /\ UNCHANGED <<venue, env, wire, fillQ, acks, reqs>>
      /\ ordQ' = ordQ \o told
      /\ oms' = [c \in Clients |-> IF c \in DOMAIN pass.rows THEN Adopted(oms[c], pass.rows[c])
                                                             ELSE oms[c]]
  BY DEF Adopt, AdoptOpenOrders, linkVars
<1>2. {"at", "rows", "suspects"} \subseteq DOMAIN p /\ p.suspects = pass.suspects
  BY DEF GuessInv, Shaped
<1> HIDE DEF p
<1>3. /\ pass'.at \notin {"adopt", "resolve"}
      /\ \A c \in pass'.suspects : c \in pass.suspects \/ oms'[c] # None
  BY <1>1, <1>2, AdvanceMovesOn DEF Open
<1>4. \A c \in DOMAIN pass.rows : /\ c \in Clients /\ Lots(pass.rows[c])
                                  /\ pass.rows[c].cum <= venue[c].cum /\ Accepted(c)
  BY <1>1 DEF CountInv, AnswerInv
<1>5. ordQ' \in Seq(Events)
  <2>1. NewlyAdopted \subseteq Clients /\ \A c \in NewlyAdopted : <<"ack", c>> \in Events
    BY <1>4 DEF NewlyAdopted, Events, News
  <2>2. IsFiniteSet(NewlyAdopted)
    BY <2>1, FS_Subset, SessionAssumption
  <2>3. new \in Seq(NewlyAdopted)
    BY <2>2, SetInOrder
  <2> HIDE DEF new
  <2>4. /\ DOMAIN new = 1..Len(new) /\ Len(new) \in Nat
        /\ \A k \in DOMAIN new : new[k] \in NewlyAdopted
    BY <2>3
  <2>5. told \in [1..Len(new) -> Events]
    BY <2>1, <2>4
  <2>6. told \in Seq(Events)
    BY <2>4, <2>5, SeqDef
  <2> HIDE DEF told
  <2> QED
    BY <1>1, <2>6, ConcatProperties DEF CountInv, QueueInv
<1>6. AnswerInv'
  BY <1>3 DEF AnswerInv
<1>7. ASSUME NEW c \in DOMAIN pass.rows
      PROVE  /\ Lots(oms'[c]) /\ Accepted(c)
             /\ env.calm => oms'[c].cum <= venue[c].cum
             /\ env.calm /\ IsTerminal(oms'[c]) => Ended(c)
  <2>1. c \in Clients /\ Lots(pass.rows[c]) /\ pass.rows[c].cum <= venue[c].cum /\ Accepted(c)
        /\ oms'[c] = Adopted(oms[c], pass.rows[c])
    BY <1>1, <1>4
  <2>2. oms[c] # None => HasStatus(oms[c]) /\ Lots(oms[c]) /\ Held(c) /\ Taken(c) = oms[c].cum
    BY <2>1 DEF GuessInv, Shaped, HasStatus, CountInv, OrderInv, Held, Taken
  <2>3. /\ Lots(oms'[c])
        /\ oms'[c].cum = pass.rows[c].cum \/ (oms[c] # None /\ oms'[c].cum = oms[c].cum)
        /\ IsTerminal(oms'[c]) => oms[c] # None /\ IsTerminal(oms[c])
    BY <2>1, <2>2, AdoptedIs
  <2>4. env.calm /\ oms[c] # None => oms[c].cum <= venue[c].cum
    <3>1. env.calm => Taken(c) + InFills(c) + InWire(c) <= venue[c].cum
      BY <2>1 DEF CountInv, OrderInv
    <3>2. Taken(c) \in Nat /\ InFills(c) \in Nat /\ InWire(c) \in Nat /\ venue[c].cum \in Nat
      BY <2>1, TakenTyped, UnderWay, AtTheVenue DEF CountInv
    <3> QED
      BY <2>2, <3>1, <3>2
  <2>5. env.calm /\ oms[c] # None /\ IsTerminal(oms[c]) => Ended(c)
    BY <2>1, <2>2 DEF CountInv, OrderInv
  <2> QED
    BY <2>1, <2>3, <2>4, <2>5
<1>8. ASSUME NEW c \in Clients, c \notin DOMAIN pass.rows
      PROVE  oms'[c] = oms[c] /\ (Held(c)' => Held(c))
  BY <1>1, <1>3, <1>8 DEF Held
<1> QED
  BY <1>1, <1>5, <1>6, <1>7, <1>8, AnswerCounts

(* A restart forgets, and what was on its way back to the process is gone. *)
LEMMA CrashCounts ==
  ASSUME CountInv, Crash
  PROVE  CountInv'
<1>1. /\ UNCHANGED <<env, venue>> /\ wire' = << >> /\ ordQ' = << >> /\ fillQ' = << >>
      /\ acks' = {} /\ reqs' \subseteq reqs
      /\ \A c \in Clients : oms'[c] = None
      /\ pass' = Starting(TRUE)
  BY DEF Crash, FreshLink
<1>2. pass'.at \notin {"adopt", "resolve"} /\ pass'.suspects = {}
  BY <1>1, FreshPass
<1>3. SameVenue
  BY <1>1 DEF SameVenue
<1>4. QueueInv'
  BY <1>1, <1>3, NothingMoves, EmptySeq DEF CountInv, QueueInv, Accepted
<1>5. \A c \in Clients : Held(c)' = FALSE /\ Taken(c)' = 0 /\ InWire(c)' = 0 /\ InFills(c)' = 0
  BY <1>1, <1>2, EmptyWire DEF Held, Taken, InWire, InFills
<1>6. \A c \in Clients : venue'[c].cum \in Nat
  BY <1>1 DEF CountInv, VenueInv, AtVenue, Lots
<1>7. OrderInv'
  BY <1>5, <1>6 DEF OrderInv
<1> QED
  BY <1>2, <1>3, <1>4, <1>7, NothingMoves DEF CountInv, AnswerInv

LEMMA CountStep ==
  ASSUME CountInv, GuessInv, [SessNext]_sessVars
  PROVE  CountInv'
<1>1. CASE UNCHANGED <<oms, pass, venue, env, reqs, acks, wire, ordQ, fillQ>>
  BY <1>1 DEF CountInv, VenueInv, AtVenue, Lots, QueueInv, AnswerInv, OrderInv, Reports, Events,
              Known, Accepted, Ended, Held, Taken, InWire, InFills
<1>2. Snoop \/ Compare \/ AskBalance \/ UNCHANGED sessVars
        => UNCHANGED <<oms, pass, venue, env, reqs, acks, wire, ordQ, fillQ>>
  BY DEF Snoop, Compare, AskBalance, sessVars, linkVars, syncVars, procVars
<1> QED
  BY <1>1, <1>2, PlaceCounts, CancelCounts, OrderEventCounts, FillEventCounts, HandleFrameCounts,
     AcceptCounts, AckCounts, VenueCancelsCounts, VenueFillsCounts, VenueEndsCounts,
     ConnectionCounts, SyncCounts, AdoptCounts, CrashCounts
     DEF SessNext, Process, Venue

LEMMA SessionInvariant == SessSpec => [](CountInv /\ GuessInv)
<1>1. SessInit => CountInv /\ GuessInv
  BY CountInitInv, SessInitInv
<1>2. CountInv /\ GuessInv /\ [SessNext]_sessVars => CountInv' /\ GuessInv'
  BY CountStep, GuessStep
<1> QED
  BY <1>1, <1>2, PTL DEF SessSpec

(* No fill is counted twice: not by the report of it and an answer, not over restarts, however
   many orders, reports and passes there are (record_fill, ratchet_fill_from_venue). *)
THEOREM NoFillTwice == SessSpec => []CountsNoFillTwice
<1>1. CountInv => CountsNoFillTwice
  <2> SUFFICES ASSUME CountInv, env.calm, NEW c \in Clients, oms[c] # None
               PROVE  oms[c].cum <= venue[c].cum
    BY DEF CountsNoFillTwice
  <2>1. Taken(c) = oms[c].cum /\ Taken(c) + InFills(c) + InWire(c) <= venue[c].cum
    BY DEF CountInv, OrderInv, Held, Taken
  <2>2. Taken(c) \in Nat /\ InFills(c) \in Nat /\ InWire(c) \in Nat /\ venue[c].cum \in Nat
    BY TakenTyped, UnderWay DEF CountInv, VenueInv, AtVenue, Lots
  <2> QED
    BY <2>1, <2>2
<1> QED
  BY <1>1, SessionInvariant, PTL

(* An order that the OMS takes for finished does not rest at the venue, whatever was lost and
   over restarts (terminalize_from_venue, _on_order_cancelled, _on_fill). *)
THEOREM FinishedIsGone == SessSpec => []EndedIsGone
<1>1. CountInv => EndedIsGone
  BY DEF CountInv, OrderInv, Held, EndedIsGone, Ended, Live, Terminal
<1> QED
  BY <1>1, SessionInvariant, PTL

----------------------------------------------------------------------------
(* The reconciler *)

(* The fills reported on the connection, whatever the order. *)
AnyTrade == [f \in Frame |-> IF f[1] = "TRADE" THEN 1 ELSE 0]
Unseen == SumOf(Along(AnyTrade, wire))

(* What the books hold and what is on its way to them is what has been bought at the venue. *)
Balanced ==
  /\ held \in Int
  /\ ~missed => held + Unseen + Len(fillQ) = Net
  /\ env.calm /\ compare # None => compare = Net
  /\ env.calm /\ ~missed => alarms = 0

LEMMA NetIs ==
  ASSUME CountInv
  PROVE  /\ Net \in Int
         /\ (\A c \in Clients : venue[c].cum = 0) => Net = 0
         /\ (\A c \in Clients : venue'[c].cum = venue[c].cum) => Net' = Net
<1> DEFINE ids == SetToSeq(Clients)
           had == [k \in DOMAIN ids |-> venue[ids[k]].cum]
           has == [k \in DOMAIN ids |-> venue'[ids[k]].cum]
<1>1. /\ ids \in Seq(Clients) /\ DOMAIN ids = 1..Len(ids) /\ Len(ids) \in Nat
      /\ \A k \in DOMAIN ids : ids[k] \in Clients
  BY SetInOrder, SessionAssumption, LenProperties, ElementOfSeq
<1> HIDE DEF ids
<1>2. \A c \in Clients : venue[c].cum \in Int
  BY DEF CountInv, VenueInv, AtVenue, Lots
<1>3. had \in Seq(Int) /\ Len(had) = Len(ids)
  <2>1. had \in [1..Len(ids) -> Int]
    BY <1>1, <1>2
  <2> QED
    BY <1>1, <2>1, SeqDef, LenProperties
<1>4. (\A c \in Clients : venue'[c].cum = venue[c].cum) => has = had
  BY <1>1
<1>5. (\A c \in Clients : venue[c].cum = 0) => \A k \in 1..Len(had) : had[k] = 0
  BY <1>1, <1>3
<1> HIDE DEF had, has
<1> QED
  BY <1>3, <1>4, <1>5, SumInt, SumZero DEF Net, ids, had, has

LEMMA UnseenTyped ==
  ASSUME CountInv
  PROVE  Unseen \in Int /\ wire \in Seq(Frame) /\ AnyTrade \in [Frame -> Int] /\ Len(fillQ) \in Nat
<1>1. AnyTrade \in [Frame -> Int]
  BY DEF AnyTrade
<1>2. wire \in Seq(Frame) /\ fillQ \in Seq(Clients)
  BY FramesAre DEF CountInv
<1> QED
  BY <1>1, <1>2, AlongInt, LenProperties DEF Unseen

LEMMA BalancedInit == SessInit => Balanced
<1> SUFFICES ASSUME SessInit PROVE Balanced
  OBVIOUS
<1>1. /\ CountInv /\ \A c \in Clients : venue[c].cum = 0
      /\ wire = << >> /\ fillQ = << >> /\ held = 0 /\ compare = None /\ alarms = 0
  BY CountInitInv DEF SessInit, LinkInit, Absent
<1>2. Unseen = 0
  <2>1. Along(AnyTrade, << >>) = << >>
    BY DEF Along
  <2> QED
    BY <1>1, <2>1, SumEmpty DEF Unseen
<1> QED
  BY <1>1, <1>2, NetIs DEF Balanced

(* A step that leaves the comparison alone and the sum, as long as nothing is missed. *)
LEMMA StaysBalanced ==
  ASSUME CountInv, Balanced, UNCHANGED <<env, alarms, compare>>, held' \in Int,
         missed => missed', Net' = Net \/ (env.calm => compare = None),
         ~missed' /\ held + Unseen + Len(fillQ) = Net => held' + Unseen' + Len(fillQ') = Net'
  PROVE  Balanced'
<1>1. ~missed' => held' + Unseen' + Len(fillQ') = Net'
  BY DEF Balanced
<1>2. env'.calm /\ compare' # None => compare' = Net'
  BY DEF Balanced
<1> QED
  BY <1>1, <1>2 DEF Balanced

LEMMA NothingArrives ==
  ASSUME CountInv, Balanced, UNCHANGED <<env, alarms, compare, held, wire, fillQ>>,
         missed => missed', \A c \in Clients : venue'[c].cum = venue[c].cum
  PROVE  Balanced'
<1>1. Net' = Net
  BY NetIs
<1>2. Unseen' = Unseen
  BY DEF Unseen
<1> QED
  BY <1>1, <1>2, StaysBalanced DEF Balanced

(* A report of anything but a fill, if it is heard. *)
LEMMA OtherReportBalanced ==
  ASSUME CountInv, Balanced, UNCHANGED <<env, alarms, compare, held, fillQ>>,
         NEW f \in Frame, f[1] # "TRADE", Reported(f),
         \A c \in Clients : venue'[c].cum = venue[c].cum
  PROVE  Balanced'
<1>1. Net' = Net /\ Unseen \in Int
  BY NetIs, UnseenTyped
<1>2. missed => missed'
  BY DEF Reported, Lost
<1>3. Unseen' = Unseen
  <2>1. CASE wire' = wire
    BY <2>1 DEF Unseen
  <2>2. CASE wire' = Append(wire, f)
    <3>1. SumOf(Along(AnyTrade, Append(wire, f))) = SumOf(Along(AnyTrade, wire)) + AnyTrade[f]
      BY UnseenTyped, AlongAppend, Zenon
    <3>2. AnyTrade[f] = 0
      BY DEF AnyTrade
    <3> QED
      BY <1>1, <2>2, <3>1, <3>2 DEF Unseen
  <2> QED
    BY <2>1, <2>2 DEF Reported, Sends
<1> QED
  BY <1>1, <1>2, <1>3, StaysBalanced DEF Balanced

LEMMA VenueBalanced ==
  ASSUME CountInv, GuessInv, Balanced, NEW c \in Clients,
         VenueAccepts(c) \/ GatewayAcks(c) \/ VenueCancels(c) \/ VenueFills(c) \/ VenueEnds(c)
  PROVE  Balanced'
<1>1. HasStatus(venue[c]) /\ DOMAIN venue = Clients /\ venue[c].cum \in Nat
      /\ \A d \in Clients : venue[d].cum \in Nat
  BY AtTheVenue
<1>2. CASE VenueAccepts(c) \/ GatewayAcks(c) \/ (VenueCancels(c) /\ ~Live(c))
  <2>1. /\ UNCHANGED <<env, alarms, compare, held, wire, fillQ, missed>>
    BY <1>2 DEF VenueAccepts, GatewayAcks, VenueCancels, linkVars, procVars
  <2>2. \A d \in Clients : venue'[d].cum = venue[d].cum
    <3>1. CASE VenueAccepts(c)
      <4>1. venue' = [venue EXCEPT ![c].status = "NEW", ![c].inst = Instrument[c]]
        BY <3>1 DEF VenueAccepts
      <4> QED
        BY <1>1, <4>1
    <3>2. CASE venue' = venue
      BY <3>2
    <3> QED
      BY <1>2, <3>1, <3>2 DEF GatewayAcks, VenueCancels
  <2> QED
    BY <2>1, <2>2, NothingArrives
<1>3. CASE (VenueCancels(c) /\ Live(c)) \/ VenueEnds(c)
  <2>1. PICK f \in Frame : f[1] # "TRADE" /\ Reported(f)
    <3>1. <<"CANCELED", c>> \in Frame /\ <<"EXPIRED", c>> \in Frame
      BY DEF Frame
    <3> QED
      BY <1>3, <3>1 DEF VenueCancels, VenueEnds
  <2>2. UNCHANGED <<env, alarms, compare, held, fillQ>>
    BY <1>3 DEF VenueCancels, VenueEnds, procVars
  <2>3. \A d \in Clients : venue'[d].cum = venue[d].cum
    <3>1. "cum" \in DOMAIN venue[c]
      BY AtTheVenue DEF Lots
    <3>2. PICK s : venue' = [venue EXCEPT ![c].status = s]
      BY <1>3 DEF VenueCancels, VenueEnds
    <3> QED
      BY <1>1, <3>1, <3>2
  <2> QED
    BY <2>1, <2>2, <2>3, OtherReportBalanced
<1>4. CASE VenueFills(c)
  <2>1. /\ UNCHANGED <<env, alarms, compare, held, fillQ>> /\ Reported(<<"TRADE", c>>)
        /\ env.calm => compare = None
    BY <1>4 DEF VenueFills, procVars
  <2>2. venue'[c].cum = venue[c].cum + 1 /\ \A d \in Clients \ {c} : venue'[d].cum = venue[d].cum
    <3>1. \A d \in Clients \ {c} : venue'[d].cum = venue[d].cum
      BY <1>1, <1>4 DEF VenueFills
    <3>2. venue'[c].cum = venue[c].cum + 1
      BY FillGrows, <1>4
    <3> QED
      BY <3>1, <3>2
  <2>3. Net' = Net + 1 /\ Net \in Int
    BY <1>1, <2>2, NetMoves
  <2>4. missed => missed'
    BY <2>1 DEF Reported, Lost
  <2>5. ~missed' => Unseen' = Unseen + 1
    <3>1. ~missed' => wire' = Append(wire, <<"TRADE", c>>)
      BY <2>1 DEF Reported, Lost, Sends
    <3>2. <<"TRADE", c>> \in Frame
      BY DEF Frame
    <3>3. SumOf(Along(AnyTrade, Append(wire, <<"TRADE", c>>)))
            = SumOf(Along(AnyTrade, wire)) + AnyTrade[<<"TRADE", c>>]
      BY <3>2, UnseenTyped, AlongAppend, Zenon
    <3>4. AnyTrade[<<"TRADE", c>>] = 1
      BY <3>2 DEF AnyTrade
    <3> QED
      BY <3>1, <3>3, <3>4 DEF Unseen
  <2>6. Unseen \in Int /\ Len(fillQ) \in Nat /\ held \in Int
    BY UnseenTyped DEF Balanced
  <2>7. ~missed' /\ held + Unseen + Len(fillQ) = Net => held' + Unseen' + Len(fillQ') = Net'
    BY <2>1, <2>3, <2>5, <2>6
  <2> QED
    BY <2>1, <2>4, <2>6, <2>7, StaysBalanced
<1> QED
  BY <1>2, <1>3, <1>4

LEMMA HandleFrameBalanced ==
  ASSUME CountInv, Balanced, HandleFrame
  PROVE  Balanced'
<1>1. PICK f : f = Head(wire)
  OBVIOUS
<1>2. /\ f \in Frame /\ f[2] \in Clients /\ wire # << >> /\ wire' = Tail(wire)
      /\ UNCHANGED <<venue, env, alarms, compare, held>>
  BY <1>1, FramesAre, Dequeued DEF HandleFrame, CountInv, Frame
<1>3. Net' = Net
  BY <1>2, NetIs
<1>4. Unseen = AnyTrade[f] + Unseen' /\ Unseen' \in Int /\ Unseen \in Int
  <2>1. SumOf(Along(AnyTrade, wire)) = AnyTrade[Head(wire)] + SumOf(Along(AnyTrade, Tail(wire)))
    BY <1>2, UnseenTyped, AlongTail, Zenon
  <2>2. Tail(wire) \in Seq(Frame)
    BY <1>2, UnseenTyped, Dequeued
  <2>3. SumOf(Along(AnyTrade, Tail(wire))) \in Int
    BY <2>2, UnseenTyped, AlongInt
  <2> QED
    BY <1>1, <1>2, <2>1, <2>3, UnseenTyped DEF Unseen
<1>5. missed => missed'
  BY DEF HandleFrame, Lost
<1>6. ~missed' => Len(fillQ') = Len(fillQ) + AnyTrade[f]
  <2>1. AnyTrade[f] = IF f[1] = "TRADE" THEN 1 ELSE 0
    BY <1>2 DEF AnyTrade
  <2>2. fillQ \in Seq(Clients) /\ Len(fillQ) \in Nat
    BY UnseenTyped, FramesAre DEF CountInv
  <2>3. ~missed' => \/ f[1] = "TRADE" /\ fillQ' = Append(fillQ, f[2])
                    \/ f[1] # "TRADE" /\ fillQ' = fillQ
    BY <1>1 DEF HandleFrame, Lost
  <2>4. Len(Append(fillQ, f[2])) = Len(fillQ) + 1
    BY <1>2, <2>2
  <2> QED
    BY <2>1, <2>2, <2>3, <2>4
<1>7. ~missed' /\ held + Unseen + Len(fillQ) = Net => held' + Unseen' + Len(fillQ') = Net'
  <2>1. held \in Int /\ Len(fillQ) \in Nat /\ AnyTrade[f] \in Int
    BY <1>2, UnseenTyped DEF Balanced, AnyTrade
  <2> QED
    BY <1>2, <1>3, <1>4, <1>6, <2>1, SMTT(30)
<1> QED
  BY <1>2, <1>3, <1>5, <1>7, StaysBalanced DEF Balanced

LEMMA FillEventBalanced ==
  ASSUME CountInv, Balanced, FillEvent
  PROVE  Balanced'
<1>1. /\ fillQ # << >> /\ fillQ' = Tail(fillQ) /\ held' = held + 1
      /\ UNCHANGED <<venue, wire, env, alarms, compare, missed>>
  BY DEF FillEvent, linkVars
<1>2. Net' = Net /\ Unseen' = Unseen /\ Unseen \in Int /\ held \in Int
  BY <1>1, NetIs, UnseenTyped DEF Unseen, Balanced
<1>3. Len(fillQ) \in Nat /\ Len(fillQ') = Len(fillQ) - 1
  BY <1>1, FramesAre, UnseenTyped DEF CountInv
<1> QED
  BY <1>1, <1>2, <1>3, StaysBalanced

LEMMA ConnectionBalanced ==
  ASSUME CountInv, Balanced, Connection
  PROVE  Balanced'
<1>1. /\ wire' \in {wire, << >>}
      /\ UNCHANGED <<venue, env, fillQ, held, alarms, compare>>
      /\ missed' = (missed \/ (wire # << >> /\ wire' # wire))
  BY DEF Connection, TakeKey, Connect, BackoffEnds, KeepaliveRefused, KeepaliveFails,
         ReissueFails, Reissue, ConnectFails, KeyExpires, Recreated, Disconnect, procVars
<1>2. Net' = Net
  BY <1>1, NetIs
<1>3. ~missed' => Unseen' = Unseen
  BY <1>1 DEF Unseen
<1> QED
  BY <1>1, <1>2, <1>3, StaysBalanced DEF Balanced

LEMMA ReconcilerBalanced ==
  ASSUME CountInv, Balanced, AskBalance \/ Compare
  PROVE  Balanced'
<1>1. UNCHANGED <<venue, env, wire, fillQ, held, missed>> /\ Allowed
  BY DEF AskBalance, Compare, linkVars
<1>2. Net' = Net /\ Unseen' = Unseen
  BY <1>1, NetIs DEF Unseen
<1>3. CASE AskBalance
  BY <1>1, <1>2, <1>3 DEF AskBalance, Balanced
<1>4. CASE Compare
  <2>1. env.calm => Unseen = 0 /\ Len(fillQ) = 0
    <3>1. env.calm => wire = << >> /\ fillQ = << >>
      BY <1>1 DEF Allowed, Quiet
    <3>2. Along(AnyTrade, << >>) = << >>
      BY DEF Along
    <3> QED
      BY <3>1, <3>2, SumEmpty DEF Unseen
  <2>2. env.calm /\ ~missed => compare = held
    BY <1>4, <2>1 DEF Compare, Balanced
  <2> QED
    BY <1>1, <1>2, <1>4, <2>2 DEF Compare, Balanced
<1> QED
  BY <1>3, <1>4

LEMMA BalancedStep ==
  ASSUME CountInv, GuessInv, Balanced, [SessNext]_sessVars
  PROVE  Balanced'
<1>1. CASE UNCHANGED <<env, alarms, compare, held, wire, fillQ, missed, venue>>
  BY <1>1, NothingArrives
<1>2. (\E c \in Clients : Place(c) \/ CancelOrder(c)) \/ Snoop \/ OrderEvent \/ Adopt \/ Sync
        \/ UNCHANGED sessVars => UNCHANGED <<env, alarms, compare, held, wire, fillQ, missed, venue>>
  BY DEF Place, CancelOrder, Snoop, OrderEvent, Adopt, Sync, sessVars, linkVars, procVars
<1>3. CASE Crash
  <2>1. /\ missed' = TRUE /\ compare' = None /\ held' = 0
    BY <1>3 DEF Crash
  <2> QED
    BY <2>1 DEF Balanced
<1> QED
  BY <1>1, <1>2, <1>3, VenueBalanced, HandleFrameBalanced, FillEventBalanced, ConnectionBalanced,
     ReconcilerBalanced DEF SessNext, Process, Venue

(* While nothing reported was lost, the books are what was bought at the venue, and a comparison
   that nothing overlaps finds nothing to alert (reconcile_once). *)
THEOREM AlarmsAreTrue == SessSpec => []NoFalseAlarm
<1>1. SessInit => CountInv /\ GuessInv /\ Balanced
  BY CountInitInv, SessInitInv, BalancedInit
<1>2. CountInv /\ GuessInv /\ Balanced /\ [SessNext]_sessVars => CountInv' /\ GuessInv' /\ Balanced'
  BY CountStep, GuessStep, BalancedStep
<1>3. Balanced => NoFalseAlarm
  BY DEF Balanced, NoFalseAlarm
<1> QED
  BY <1>1, <1>2, <1>3, PTL DEF SessSpec
=============================================================================
