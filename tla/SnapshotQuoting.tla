-------------------------- MODULE SnapshotQuoting --------------------------
(***************************************************************************)
(* What the OMS promises the rest of the system about quotes, without      *)
(* saying how (core/events.py, SignalEvent: a signal is a snapshot of the  *)
(* orders a strategy wants resting, never an increment).                   *)
(*                                                                         *)
(* A slot is one side of one instrument for one strategy.  Orders enter a  *)
(* slot one at a time, never beyond its capacity, under a new id, and      *)
(* leave it for good.                                                      *)
(***************************************************************************)
EXTENDS Integers, FiniteSets

CONSTANTS Slots, Capacity

VARIABLES
  working,  \* the orders of each slot that may still trade
  retired   \* the ids that have left

vars == <<working, retired>>

Used == retired \union UNION {working[s] : s \in Slots}

Init == working = [s \in Slots |-> {}] /\ retired = {}

Enter(s, id) ==
  /\ id \notin Used
  /\ Cardinality(working[s]) < Capacity
  /\ working' = [working EXCEPT ![s] = @ \union {id}]
  /\ UNCHANGED retired

(* An order refused before it ever worked: its id is spent. *)
Refuse(id) ==
  /\ id \notin Used
  /\ retired' = retired \union {id}
  /\ UNCHANGED working

Leave(ids) ==
  /\ ids # {}
  /\ ids \subseteq UNION {working[s] : s \in Slots}
  /\ working' = [s \in Slots |-> working[s] \ ids]
  /\ retired' = retired \union ids

Next ==
  \/ \E s \in Slots : \E id \in working'[s] : Enter(s, id)
  \/ \E id \in retired' : Refuse(id)
  \/ \E ids \in SUBSET UNION {working[s] : s \in Slots} : Leave(ids)

Spec == Init /\ [][Next]_vars
=============================================================================
