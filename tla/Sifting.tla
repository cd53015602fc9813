------------------------------ MODULE Sifting ------------------------------
(***************************************************************************)
(* A sequence without the elements that fail a test: SelectSeq with a set  *)
(* for its test, written as a recursive function so that the proofs can go *)
(* along it.                                                               *)
(***************************************************************************)
EXTENDS Integers, Sequences

(* The elements of s that are in S, in their order. *)
Sifted(s, S) ==
  LET upTo[n \in 0..Len(s)] ==
        IF n = 0 THEN << >>
        ELSE IF s[n] \in S THEN Append(upTo[n - 1], s[n]) ELSE upTo[n - 1]
  IN  upTo[Len(s)]
=============================================================================
