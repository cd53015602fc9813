--------------------------- MODULE PositionEngine ---------------------------
(***************************************************************************)
(* The position engine (position/engine.py): one book per instrument,      *)
(* opened by the first fill, the last mark seen, and the position updates  *)
(* it publishes.  One strategy; the engine keys its books by (strategy,    *)
(* instrument), and nothing passes from one key to another.                *)
(*                                                                         *)
(* bookQ and updates are the queues of two bus subscriptions: the engine's *)
(* to FILLS, the risk engine's to POSITIONS.  "absorbed" is history: it    *)
(* numbers an update by the fills its book had absorbed, for the           *)
(* properties only.                                                        *)
(***************************************************************************)
EXTENDS AccountingBooks

CONSTANTS Instruments, Prices, MaxDrops

ASSUME PricesAssumption == Prices \subseteq Int

VARIABLES
  method,   \* AccountingMethod the engine was configured with
  books,    \* _books: instrument -> book, for the instruments traded so far
  opened,   \* the keys of _books in insertion order
  marks,    \* _marks: instrument -> mid price of the last tick
  bookQ,    \* fills waiting for the engine
  updates,  \* position updates waiting for the risk engine
  absorbed, \* history: fills each book has absorbed
  lost      \* _dropped_events: updates lost to backpressure

posVars == <<method, books, opened, marks, bookQ, updates, absorbed, lost>>

NoMark == 0

(* make_position_update_event: a snapshot of the book at a mark. *)
UpdateOf(i, b, mark, n) ==
  [inst |-> i, qty |-> Quantity(method, b), realized |-> b.realized,
   unrealized |-> Unrealized(method, b, mark), absorbed |-> n]

(* _safe_publish: the events get through, or backpressure drops one. *)
PublishUpdates(events) ==
  \/ updates' = updates \o events /\ UNCHANGED lost
  \/ /\ lost < MaxDrops
     /\ lost' = lost + 1
     /\ \E k \in DOMAIN events : updates' = updates \o RemoveAt(events, k)

PosInit(methods) ==
  /\ method \in methods
  /\ books = << >> /\ opened = << >>
  /\ marks = [i \in Instruments |-> NoMark]
  /\ bookQ = << >> /\ updates = << >>
  /\ absorbed = [i \in Instruments |-> 0]
  /\ lost = 0

(* _on_fill: the book is made on demand; the fill price stands in for a mark. *)
BookOf(i) == IF i \in DOMAIN books THEN books[i] ELSE NewBook(method)

PositionOnFill ==
  /\ bookQ # << >>
  /\ LET f == Head(bookQ)
         b == BookFill(method, BookOf(f.inst), f)
         mark == IF marks[f.inst] = NoMark THEN f.price ELSE marks[f.inst]
     IN  /\ books' = [i \in DOMAIN books \union {f.inst} |-> IF i = f.inst THEN b ELSE books[i]]
         /\ opened' = IF f.inst \in DOMAIN books THEN opened ELSE Append(opened, f.inst)
         /\ absorbed' = [absorbed EXCEPT ![f.inst] = @ + 1]
         /\ PublishUpdates(<<UpdateOf(f.inst, b, mark, absorbed[f.inst] + 1)>>)
  /\ bookQ' = Tail(bookQ)
  /\ UNCHANGED <<method, marks>>

(* _on_market_data *)
PositionOnTick(i, mid) ==
  /\ marks' = [marks EXCEPT ![i] = mid]
  /\ UNCHANGED <<method, books, opened, bookQ, updates, absorbed, lost>>

(* mark_to_market_all: flat books and unmarked ones are skipped. *)
Markable ==
  Sifted(opened, {i \in DOMAIN books : Quantity(method, books[i]) # 0 /\ marks[i] # NoMark})

MarkToMarketAll ==
  /\ Markable # << >>
  /\ PublishUpdates([k \in DOMAIN Markable |->
       LET i == Markable[k] IN UpdateOf(i, books[i], marks[i], absorbed[i])])
  /\ UNCHANGED <<method, books, opened, marks, bookQ, absorbed>>

(* publish_portfolio_snapshot: an unmarked instrument counts at mark 0. *)
Portfolio == Aggregate(method, books, opened, marks)
=============================================================================
