-------------------------- MODULE MCBinanceFutures --------------------------
(***************************************************************************)
(* The ladders strategies declare in the runs of BinanceFutures.  A signal *)
(* picks one of them; the risk engine may drop legs of it.                 *)
(***************************************************************************)
EXTENDS BinanceFutures

AtPrice(side, price, qty) == [side |-> side, price |-> price, qty |-> qty]

(* One bid, at one price or the other, always of the same size. *)
Requoting == {<<AtPrice("BUY", 1, 2)>>, <<AtPrice("BUY", 2, 2)>>}

(* One bid whose size changes with its price. *)
Resizing == {<<AtPrice("BUY", 1, 2)>>, <<AtPrice("BUY", 2, 1)>>}

(* Two bids, of which risk may keep either or both. *)
TwoLegged == {<<AtPrice("BUY", 1, 1), AtPrice("BUY", 2, 1)>>}

(* Quotes that cross when two strategies hold them. *)
Opposed == {<<AtPrice("BUY", 1, 1)>>, <<AtPrice("SELL", 1, 1)>>, <<AtPrice("SELL", 2, 1)>>}

(* Quotes that would trade with each other, at a price that never changes. *)
SamePrice == {<<AtPrice("BUY", 1, 1)>>, <<AtPrice("SELL", 1, 1)>>}
=============================================================================
