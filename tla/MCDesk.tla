------------------------------- MODULE MCDesk -------------------------------
(***************************************************************************)
(* The desks of the run Desk: each turns on some rules and the part of the *)
(* environment that can bring them to act.  The quoting strategies have    *)
(* scenes of their own: part says which of the two moves.                  *)
(***************************************************************************)
EXTENDS TradingDay, Quoters

Unit == 2520   \* what three fills divide an average by divides it

LegOf(side, qty) == [side |-> side, qty |-> qty, price |-> 1]
Sig(i, legs, atomic, minimum) ==
  [inst |-> i, legs |-> legs, atomic |-> atomic, minNotional |-> minimum]
FillOf(i, side, qty, price, fee) ==
  [inst |-> i, side |-> side, qty |-> qty, price |-> price, fee |-> fee]

FillsOf(insts, sizes, at) ==
  {FillOf(i, side, q, p, 1) : i \in insts, side \in Sides, q \in sizes, p \in at}

Quiet == [methods |-> {"WAVG"}, rules |-> {<< >>}, signals |-> {}, fills |-> {}, ticks |-> {},
          trades |-> {}, maxSignals |-> 0, maxFills |-> 0, maxTicks |-> 0, maxTrades |-> 0, maxSnaps |-> 0,
          lag |-> 1, hours |-> 0, operator |-> FALSE, open |-> FALSE]

(* Fills of every kind into every kind of book, two instruments. *)
Ledger == [Quiet EXCEPT !.methods = Methods, !.open = TRUE, !.maxFills = 3,
                        !.fills = FillsOf({"btc"}, {1, 3}, {Unit, 3 * Unit})]
Portfolios == [Quiet EXCEPT !.open = TRUE, !.maxFills = 3, !.ticks = {2 * Unit}, !.maxTicks = 1,
                           !.fills = FillsOf({"btc"}, {1}, {Unit, 3 * Unit})
                                       \union FillsOf({"eth"}, {1}, {Unit})]

(* The position cap, two-sided quotes and two legs of one side. *)
Cap == [class |-> "max_position", maxLong |-> 2, maxShort |-> 1]
MaxSize == [class |-> "max_order_size", maxQty |-> 2]
Quoter == [Quiet EXCEPT !.rules = {<<MaxSize, Cap>>}, !.maxSignals = 3, !.maxFills = 3, !.lag = 2,
             !.fills = FillsOf({"btc"}, {1, 2}, {Unit}),
             !.signals = {Sig("btc", <<LegOf("BUY", 3), LegOf("SELL", 1)>>, FALSE, 2),
                          Sig("btc", <<LegOf("BUY", 1), LegOf("BUY", 2)>>, FALSE, 0)}]

(* Limits that trip the kill switch, an operator, midnight, a second instrument. *)
Loss == [class |-> "daily_loss", maxLoss |-> 2 * Unit]
Down == [class |-> "drawdown", warn |-> 10, kill |-> 20]
Loser == [Quiet EXCEPT !.rules = {<<Down, Loss>>}, !.maxSignals = 2, !.maxFills = 2, !.hours = 2,
            !.open = TRUE,
            !.fills = {FillOf("btc", "BUY", 1, 4 * Unit, 1), FillOf("btc", "SELL", 1, Unit, 1)},
            !.signals = {Sig("btc", <<LegOf("BUY", 1)>>, FALSE, 0)}]
Spread == [Loser EXCEPT !.maxSignals = 1, !.maxFills = 3, !.hours = 0,
             !.fills = @ \union {FillOf("eth", "BUY", 1, Unit, 1)}]
Halted == [Quiet EXCEPT !.rules = {<<Loss>>}, !.maxSignals = 2, !.operator = TRUE, !.maxFills = 1,
             !.open = TRUE,
             !.fills = {FillOf("btc", "BUY", 1, 4 * Unit, 1), FillOf("btc", "SELL", 1, Unit, 1)},
             !.signals = {Sig("btc", <<LegOf("BUY", 1), LegOf("SELL", 1)>>, FALSE, 0)}]

(* Emission rate and toxic flow. *)
Rate == [class |-> "throttle", maxSignals |-> 2, window |-> 1]
Toxic == [class |-> "vpin", threshold |-> 80, sustained |-> 2]
List == [class |-> "allowlist", allowed |-> {"btc"}]
Notional == [class |-> "max_notional", maxNotional |-> 1]
Spammer == [Quiet EXCEPT !.rules = {<<List, Notional, Rate>>}, !.maxSignals = 4, !.hours = 3,
              !.signals = {Sig("btc", <<LegOf("BUY", 2), LegOf("SELL", 1)>>, TRUE, 0),
                           Sig("eth", <<LegOf("SELL", 1)>>, TRUE, 0)}]
Poisoned == [Quiet EXCEPT !.rules = {<<Toxic>>}, !.maxSignals = 2, !.maxTrades = 6, !.maxSnaps = 3,
               !.trades = [inst : {"btc"}, price : {1, 2}, volume : {4}],
               !.signals = {Sig("btc", <<LegOf("BUY", 1)>>, FALSE, 0)}]
(* Trades that do not fill their bucket evenly. *)
Ragged == [Poisoned EXCEPT !.maxTrades = 5,
             !.trades = [inst : {"btc"}, price : {1, 2}, volume : {6}]]

DeskSet == {Ledger, Portfolios, Quoter, Loser, Spread, Halted, Spammer, Poisoned, Ragged}
PriceSet == {Unit, 2 * Unit}

vars == <<part, dayVars, quoteVars>>

Init ==
  /\ part \in {"day", "quotes"}
  /\ DayInit /\ QuotesInit
  /\ ~Moves("day") => desk = Ledger /\ method = "WAVG"
  /\ ~Moves("quotes") => maker = "grid" /\ market.bid = 1

Next ==
  \/ Moves("day") /\ DayNext /\ UNCHANGED <<part, quoteVars>>
  \/ Moves("quotes") /\ QuotesNext /\ UNCHANGED <<part, dayVars>>

Spec == Init /\ [][Next]_vars /\ QuotesFair
=============================================================================
