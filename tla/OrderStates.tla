---------------------------- MODULE OrderStates ----------------------------
(***************************************************************************)
(* The life of one order as the OMS sees it: the statuses, the table of    *)
(* legal transitions (oms/state_machine.py) and the mutators of an Order   *)
(* record (oms/order.py).  Every status change of the OMS goes through     *)
(* Transition, exactly as every change in the code goes through            *)
(* Order.transition_to: an illegal change leaves the record alone (the     *)
(* callers catch InvalidStateTransitionError).                             *)
(*                                                                         *)
(* Data the properties do not tell apart is left out: client and exchange  *)
(* ids, reject reasons, timestamps and the average fill price.             *)
(***************************************************************************)
EXTENDS Integers

Pending  == {"PENDING_NEW", "PENDING_CANCEL", "PENDING_AMEND"}
Resting  == {"ACKNOWLEDGED", "PARTIALLY_FILLED"}
Terminal == {"FILLED", "CANCELLED", "REJECTED", "EXPIRED"}
Active   == Pending \union Resting
Status   == Active \union Terminal

(* Mutant: no CANCELLED once an order has traded. *)
LegalFromNoLateCancel(s) ==
  IF s = "PARTIALLY_FILLED"
  THEN {"PARTIALLY_FILLED", "FILLED", "PENDING_CANCEL", "EXPIRED", "PENDING_AMEND"}
  ELSE IF s \in {"PENDING_NEW", "ACKNOWLEDGED", "PENDING_CANCEL", "PENDING_AMEND"}
  THEN {"ACKNOWLEDGED", "CANCELLED", "PARTIALLY_FILLED", "FILLED", "PENDING_CANCEL",
        "PENDING_AMEND"} \ {s}
  ELSE {}

(***************************************************************************)
(* The legal destinations of each source status.  Terminal statuses have   *)
(* no entry in the code's table, hence no destination.                     *)
(***************************************************************************)
LegalFrom(s) ==
  CASE s = "PENDING_NEW"      -> {"ACKNOWLEDGED", "REJECTED", "CANCELLED",
                                  "PARTIALLY_FILLED", "FILLED"}
    [] s \in Resting          -> {"PARTIALLY_FILLED", "FILLED", "PENDING_CANCEL",
                                  "CANCELLED", "EXPIRED", "PENDING_AMEND"}
    [] s = "PENDING_CANCEL"   -> {"CANCELLED", "PARTIALLY_FILLED", "FILLED",
                                  "ACKNOWLEDGED"}
    [] s = "PENDING_AMEND"    -> {"ACKNOWLEDGED", "PARTIALLY_FILLED", "FILLED",
                                  "CANCELLED", "REJECTED", "PENDING_CANCEL"}
    [] OTHER                  -> {}

CanMove(o, s) == s \in LegalFrom(o.status)

Moved(o, s) == [o EXCEPT !.status = s]

(* transition_to with the InvalidStateTransitionError swallowed by the caller *)
Transition(o, s) == IF CanMove(o, s) THEN Moved(o, s) ELSE o

IsTerminal(o) == o.status \in Terminal

Leaves(o) == o.qty - o.cum

(***************************************************************************)
(* record_fill, then the status decided from the leaves that remain.  An   *)
(* over-filled order (leaves below zero) is PARTIALLY_FILLED: the code     *)
(* tests leaves_quantity = 0.  Fill ids are fresh for every FillEvent      *)
(* (user_data.py and simulation.py mint a uuid4 each), so the duplicate    *)
(* check of record_fill never fires and is left out.                       *)
(***************************************************************************)
RecordFill(o, q) == [o EXCEPT !.cum = @ + q]

ApplyFill(o, q) ==
  LET p == RecordFill(o, q)
  IN  Transition(p, IF Leaves(p) = 0 THEN "FILLED" ELSE "PARTIALLY_FILLED")
=============================================================================
