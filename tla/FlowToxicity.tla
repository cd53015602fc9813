---------------------------- MODULE FlowToxicity ----------------------------
(***************************************************************************)
(* The analytics service: trades feed a VPIN estimator per instrument,     *)
(* ticks publish a snapshot with its last value.  A trade is cut where it  *)
(* fills a bucket, and each piece is classified on its own (BVC).          *)
(*                                                                         *)
(* Volumes count half lots, a toxicity is in per cent.  The normal         *)
(* distribution of the classifier is taken to its extremes: a piece goes   *)
(* to one side if the price has moved since the piece before it, and half  *)
(* to each if it has not.                                                  *)
(***************************************************************************)
EXTENDS Absence, Integers, SequencesExt

CONSTANTS
  BucketVolume,   \* vpin_bucket_volume, in half lots
  RollingBuckets  \* rolling_buckets

FreshVpin == [buy |-> 0, sell |-> 0, filled |-> 0, tox |-> << >>, price |-> None, last |-> None]

(* BVCClassifier.classify: what of a piece was bought. *)
Bought(v, price, chunk) ==
  IF v.price = None \/ v.price = price THEN chunk \div 2
  ELSE IF price > v.price THEN chunk ELSE 0

(* One turn of the loop: a piece that fits, and the bucket closed if it is full. *)
WithChunk(v, price, chunk) ==
  LET buy  == v.buy + Bought(v, price, chunk)
      sell == v.sell + chunk - Bought(v, price, chunk)
      gap  == IF buy > sell THEN buy - sell ELSE sell - buy
      full == v.filled + chunk >= BucketVolume
      all  == Append(v.tox, (100 * gap) \div BucketVolume)
  IN  [v EXCEPT !.price = price,
                !.buy = IF full THEN 0 ELSE buy,
                !.sell = IF full THEN 0 ELSE sell,
                !.filled = IF full THEN 0 ELSE @ + chunk,
                !.tox = IF ~full THEN @ ELSE IF Len(all) > RollingBuckets THEN Tail(all) ELSE all]

(* How a volume is cut. *)
Chunks(v, volume) ==
  LET space == BucketVolume - v.filled
      rest  == volume - space
  IN  IF rest <= 0 THEN <<volume>>
      ELSE <<space>> \o [k \in 1..(rest \div BucketVolume) |-> BucketVolume]
           \o IF rest % BucketVolume = 0 THEN << >> ELSE <<rest % BucketVolume>>

(* VPIN.update *)
WithTrade(v, price, volume) ==
  LET w == FoldLeft(LAMBDA x, chunk : WithChunk(x, price, chunk), v, Chunks(v, volume))
  IN  IF w.tox = << >> THEN w
      ELSE [w EXCEPT !.last = FoldLeft(+, 0, w.tox) \div Len(w.tox)]
=============================================================================
