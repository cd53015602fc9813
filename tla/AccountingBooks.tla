-------------------------- MODULE AccountingBooks --------------------------
(***************************************************************************)
(* The ledgers of one (strategy, instrument): FIFO and LIFO lot books and  *)
(* the weighted-average book (position/accounting/), and the aggregation   *)
(* over books (position/pnl.py).                                           *)
(*                                                                         *)
(* Prices are integers.  The average price of the WAVG book is a quotient; *)
(* the models take prices from multiples of a unit that keeps it whole for *)
(* the fills they allow, so \div stands for the decimal division.          *)
(***************************************************************************)
EXTENDS Integers, FiniteSets, SequencesExt, Sums, Sifting

Methods == {"FIFO", "LIFO", "WAVG"}

Sign(side) == IF side = "BUY" THEN 1 ELSE -1

Within(n, hi) == IF n < 0 THEN 0 ELSE IF n > hi THEN hi ELSE n

Magnitude(n) == IF n < 0 THEN -n ELSE n

Sizes(lots) == [k \in DOMAIN lots |-> lots[k].qty]
Volume(lots) == SumOf(Sizes(lots))
Cost(lots) == SumOf([k \in DOMAIN lots |-> lots[k].qty * lots[k].price])

----------------------------------------------------------------------------
(* Lot books: lots of one side, consumed oldest first or newest first      *)

EmptyLots == [lots |-> << >>, side |-> 0, realized |-> 0]

(* _peek_lot and _pop_lot: the lots in the order they are consumed in. *)
Consumed(method, lots) == IF method = "LIFO" THEN Reverse(lots) ELSE lots

(* The while loop of apply_fill: n is taken from the lots front to back. *)
Taken(queue, n) ==
  LET before == Sums(Sizes(queue))
  IN  [k \in DOMAIN queue |-> [queue[k] EXCEPT !.qty = Within(n - before[k - 1], @)]]

(* Mutant: a lot consumed in part keeps its size. *)
LeftUntouched(queue, n) ==
  SelectSeq(queue, LAMBDA lot : \E k \in DOMAIN queue :
                                  queue[k] = lot /\ Taken(queue, n)[k].qty < lot.qty)

Left(queue, n) ==
  LET rest == [k \in DOMAIN queue |-> [queue[k] EXCEPT !.qty = @ - Taken(queue, n)[k].qty]]
  IN  Sifted(rest, {lot \in ToSet(rest) : lot.qty > 0})

LotFill(method, b, f) ==
  LET sign   == Sign(f.side)
      lot    == [qty |-> f.qty, price |-> f.price]
      queue  == Consumed(method, b.lots)
      taken  == Taken(queue, f.qty)
      left   == Consumed(method, Left(queue, f.qty))
      excess == f.qty - Volume(taken)
  IN  IF b.side \in {0, sign}
      THEN [lots |-> Append(b.lots, lot), side |-> sign, realized |-> b.realized - f.fee]
      ELSE [lots |-> IF excess > 0 THEN <<[lot EXCEPT !.qty = excess]>> ELSE left,
            side |-> IF left # << >> THEN b.side ELSE IF excess > 0 THEN sign ELSE 0,
            realized |-> b.realized - f.fee
              + b.side * (f.price * Volume(taken) - Cost(taken))]

----------------------------------------------------------------------------
(* The weighted-average book                                               *)

EmptyAverage == [qty |-> 0, avg |-> 0, realized |-> 0]

AverageFill(b, f) ==
  LET signed == Sign(f.side) * f.qty
      qty    == b.qty + signed
      side   == IF b.qty > 0 THEN 1 ELSE -1
      closed == Within(f.qty, Magnitude(b.qty))
      charged == b.realized - f.fee
      gain   == side * (f.price - b.avg) * closed
  IN  CASE b.qty = 0 -> [qty |-> signed, avg |-> f.price, realized |-> charged]
        [] b.qty # 0 /\ (b.qty > 0) = (signed > 0) ->
             [qty |-> qty, realized |-> charged,
              avg |-> (b.avg * Magnitude(b.qty) + f.price * f.qty) \div Magnitude(qty)]
        [] OTHER ->
             [qty |-> qty, realized |-> charged + gain,
              avg |-> IF qty = 0 THEN 0 ELSE IF closed = f.qty THEN b.avg ELSE f.price]

----------------------------------------------------------------------------
(* The AccountingBook protocol                                             *)

NewBook(method) == IF method = "WAVG" THEN EmptyAverage ELSE EmptyLots

BookFill(method, b, f) ==
  IF method = "WAVG" THEN AverageFill(b, f) ELSE LotFill(method, b, f)

Quantity(method, b) ==
  IF method = "WAVG" THEN b.qty ELSE b.side * Volume(b.lots)

Unrealized(method, b, mark) ==
  IF method = "WAVG"
  THEN (mark - b.avg) * b.qty
  ELSE b.side * (mark * Volume(b.lots) - Cost(b.lots))

(* aggregate_portfolio over the books of the instruments in order, at the given marks. *)
Total(f, order) == SumOf(Along(f, order))

Aggregate(method, bs, order, mark) ==
  LET notional == [i \in DOMAIN bs |-> Quantity(method, bs[i]) * mark[i]]
  IN  [realized   |-> Total([i \in DOMAIN bs |-> bs[i].realized], order),
       unrealized |-> Total([i \in DOMAIN bs |-> Unrealized(method, bs[i], mark[i])], order),
       gross      |-> Total([i \in DOMAIN bs |-> Magnitude(notional[i])], order),
       net        |-> Total(notional, order)]
=============================================================================
