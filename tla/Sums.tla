-------------------------------- MODULE Sums --------------------------------
(***************************************************************************)
(* Sums over sequences of integers: of fills, of slices, of lots, of the   *)
(* weight of requests.                                                     *)
(***************************************************************************)
EXTENDS Integers, Sequences

(* Sums(s)[n] is the sum of the first n. *)
Sums(s) ==
  LET upTo[n \in 0..Len(s)] == IF n = 0 THEN 0 ELSE upTo[n - 1] + s[n]
  IN  upTo

SumOf(s) == Sums(s)[Len(s)]

(* What f makes of the entries of q. *)
Along(f, q) == [n \in DOMAIN q |-> f[q[n]]]
=============================================================================
