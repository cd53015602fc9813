------------------------------ MODULE Absence ------------------------------
(***************************************************************************)
(* The value of an attribute that is not set: no number.                   *)
(***************************************************************************)
EXTENDS Naturals

CONSTANT None

ASSUME NoneAssumption == None \notin Nat
=============================================================================
