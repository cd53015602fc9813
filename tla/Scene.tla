------------------------------- MODULE Scene -------------------------------
(***************************************************************************)
(* Parts of the program that share nothing are checked side by side: the   *)
(* one named by part moves, the others stay as they began, and fairness is *)
(* asked of the one that moves.                                            *)
(***************************************************************************)
VARIABLE part

Moves(p) == part = p
=============================================================================
