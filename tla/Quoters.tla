------------------------------ MODULE Quoters ------------------------------
(***************************************************************************)
(* The quoting strategies (strategy/examples): two-sided and ladder makers *)
(* behind two rate gates (market_making, microprice_mm, grid), makers that *)
(* repeat a price that has hardly moved (obi_alpha, avellaneda_stoikov,    *)
(* glft), and the taker that fades a band (mean_reversion).  A signal is   *)
(* the whole ladder; it goes through risk to the OMS, which makes the book *)
(* look like it (modules OMS and BinanceFutures check that it does); what  *)
(* trades comes back through the position engine, late.                    *)
(*                                                                         *)
(* Prices are in ticks, quantities in lots.  The numbers behind a fair     *)
(* value, a volatility or an imbalance are left open: a quote is half a    *)
(* spread off a centre, shifted against the position.                      *)
(***************************************************************************)
EXTENDS Scene, Absence, Integers, SequencesExt, FiniteSetsExt

CONSTANTS
  Makers,       \* the strategies looked at
  MaxInventory, \* max_position
  Size,         \* quote_size, or target_quantity
  Levels,       \* n_levels
  Step,         \* grid_step_bps, in ticks
  HalfSpread,   \* half of target_spread_bps, in ticks
  Widened,      \* the same, widened by vpin_widen_factor
  Lean,         \* inventory_skew_bps, in ticks
  MinMove,      \* min_price_move_ticks, or requote_threshold_bps in ticks
  Bids,         \* the best bids of the market; its spread is one tick
  ToxicBids,    \* those at which VPIN may be above its threshold
  Offsets,      \* how far a microprice lies above the best bid
  MaxSurprise   \* bound: how far the position runs ahead of what a signal reckons with

ASSUME QuotesAssumption ==
  {MaxInventory, Size, Levels} \subseteq Nat \ {0} /\ MaxSurprise \in Nat

VARIABLES
  maker,     \* which strategy it is
  market,    \* best bid, fair value, whether VPIN is above its threshold, and the band
  memory,    \* _last_bid and _last_ask, or _last_quoted_mid and the cooldown
  sentQ,     \* the signal on its way to the OMS
  bookOf,    \* the strategy's orders: leg -> what is left of it
  inventory, \* what it has really traded
  booked,    \* what the position engine says it has
  late,      \* the fills in between
  calm       \* whether the market stands still and nothing more goes wrong

quoteVars == <<maker, market, memory, sentQ, bookOf, inventory, booked, late, calm>>

QuoteSides == {"BUY", "SELL"}

Away(side) == IF side = "BUY" THEN -1 ELSE 1

Gated == {"market_making", "microprice_mm", "grid"}
Holding == {"obi_alpha", "avellaneda_stoikov", "glft"}

Markets ==
  {m \in [bid : Bids, off : IF maker = "microprice_mm" THEN Offsets ELSE {0},
          toxic : IF maker = "avellaneda_stoikov" THEN BOOLEAN ELSE {FALSE},
          band : IF maker = "mean_reversion" THEN {"lower", "below", "above", "upper"}
                 ELSE {"above"}] :
     m.toxic => m.bid \in ToxicBids}

NoMemory == [BUY |-> None, SELL |-> None, centre |-> None, cool |-> TRUE]

QuotesInit ==
  /\ maker \in Makers /\ market \in Markets
  /\ memory = NoMemory /\ sentQ = << >> /\ bookOf = << >>
  /\ inventory = 0 /\ booked = 0 /\ late = << >> /\ calm = FALSE

----------------------------------------------------------------------------
(* What a strategy quotes *)

Fair == market.bid + market.off

(* The arithmetic mid lies half way; it is rounded down to a tick. *)
Mid == market.bid

(* The shift against the position; the reservation price of the two optimal-quote
   models is not clamped. *)
Skew ==
  LET shift == (-Lean * booked) \div MaxInventory
  IN  IF maker \in {"avellaneda_stoikov", "glft"} THEN shift
      ELSE Max({-Lean, Min({Lean, shift})})

(* Mutant: the side is withdrawn beyond the limit, not at it. *)
AllowedAtCap(side) == IF side = "BUY" THEN booked <= MaxInventory ELSE booked >= -MaxInventory

Allowed(side) == IF side = "BUY" THEN booked < MaxInventory ELSE booked > -MaxInventory

(* post_only_guard *)
Guarded(leg) == IF leg.side = "BUY" THEN leg.price < market.bid + 1 ELSE leg.price > market.bid

Leg(side, price) == [side |-> side, price |-> price, qty |-> Size]

Open == {side \in QuoteSides : Allowed(side)}

(* Both sides of a centre, without a look at the book. *)
TwoSided(centre) ==
  {Leg(side, centre + Skew + Away(side) * HalfSpread) : side \in Open}

MarketMaking == TwoSided(Mid)
MicropriceMM == TwoSided(Fair)

Grid ==
  {leg \in {Leg(side, Mid + Skew + Away(side) * i * Step) : side \in Open, i \in 1..Levels} :
     Guarded(leg)}

(* The price a side is quoted at: the last one again, unless it has moved enough. *)
Held(side, half) ==
  LET price == Fair + Skew + Away(side) * half
      last == memory[side]
  IN  IF last = None THEN price
      ELSE IF price - last \in (1 - MinMove)..(MinMove - 1) THEN last ELSE price

(* Mutant: a side that has hardly moved is left out. *)
OnHeldDropping(half) ==
  {Leg(side, Held(side, half)) : side \in {side \in Open : memory[side] # Held(side, half)}}

OnHeld(half) == {Leg(side, Held(side, half)) : side \in Open}

Half == IF maker = "avellaneda_stoikov" /\ market.toxic THEN Widened ELSE HalfSpread

ObiAlpha == {leg \in OnHeld(HalfSpread) : Guarded(leg)}

AvellanedaStoikov == {leg \in OnHeld(Half) : Guarded(leg)}

(* A ladder that begins at the held price. *)
Glft ==
  {leg \in {Leg(l.side, l.price + Away(l.side) * i * Step) :
              l \in OnHeld(HalfSpread), i \in 0..(Levels - 1)} : Guarded(leg)}

(* A market order, to enter when flat and to leave at the mean. *)
MeanReversion ==
  LET order(side, n) == {[side |-> side, price |-> None, qty |-> n]}
  IN  IF booked = 0 /\ market.band = "upper" THEN order("SELL", Size)
      ELSE IF booked = 0 /\ market.band = "lower" THEN order("BUY", Size)
      ELSE IF booked > 0 /\ market.band \in {"above", "upper"} THEN order("SELL", booked)
      ELSE IF booked < 0 /\ market.band \in {"below", "lower"} THEN order("BUY", -booked)
      ELSE {}

Wanted ==
  CASE maker = "market_making"      -> MarketMaking
    [] maker = "microprice_mm"      -> MicropriceMM
    [] maker = "grid"               -> Grid
    [] maker = "obi_alpha"          -> ObiAlpha
    [] maker = "avellaneda_stoikov" -> AvellanedaStoikov
    [] maker = "glft"               -> Glft
    [] OTHER                        -> MeanReversion

(* _should_requote: the cooldown is over and the centre has moved. *)
Centre == IF maker = "microprice_mm" THEN Fair ELSE Mid
ShouldRequote ==
  /\ memory.cool
  /\ memory.centre = None \/ Centre - memory.centre \notin (1 - MinMove)..(MinMove - 1)

(* A side that was left out is forgotten. *)
Remembered ==
  IF maker \in Holding
  THEN [memory EXCEPT !.BUY = IF \E l \in Wanted : l.side = "BUY" THEN Held("BUY", Half) ELSE None,
                      !.SELL = IF \E l \in Wanted : l.side = "SELL" THEN Held("SELL", Half) ELSE None]
  ELSE IF maker \in Gated THEN [memory EXCEPT !.centre = Centre, !.cool = FALSE]
  ELSE memory

----------------------------------------------------------------------------
(* on_tick, and the market moves on.  A ladder without legs is no signal; a signal
   that meets a full queue is lost. *)
OnTick ==
  /\ market' \in IF calm THEN {market} ELSE Markets
  /\ IF maker \in Gated /\ ~ShouldRequote THEN UNCHANGED <<memory, sentQ>>
     ELSE /\ memory' = Remembered
          /\ sentQ' = IF Wanted = {} \/ sentQ # << >> THEN sentQ
                      ELSE <<[legs |-> Wanted, booked |-> booked]>>
  /\ UNCHANGED <<maker, bookOf, inventory, booked, late, calm>>

Cooled ==
  /\ ~memory.cool /\ memory' = [memory EXCEPT !.cool = TRUE]
  /\ UNCHANGED <<maker, market, sentQ, bookOf, inventory, booked, late, calm>>

(* External: the OMS works an approved ladder; the venue refuses a post-only order
   that would cross by now.  A market order is not withdrawn any more, and one of
   its side is not placed twice. *)
Works ==
  /\ sentQ # << >> /\ sentQ' = << >>
  /\ LET legs == Head(sentQ).legs
         fresh == IF maker = "mean_reversion"
                  THEN {l \in legs : \A o \in DOMAIN bookOf : o.side # l.side}
                  ELSE {l \in legs : Guarded(l)}
         stays == IF maker = "mean_reversion" THEN DOMAIN bookOf ELSE {}
     IN  bookOf' = [l \in fresh \union stays |-> IF l \in fresh THEN l.qty ELSE bookOf[l]]
  /\ UNCHANGED <<maker, market, memory, inventory, booked, late, calm>>

(* External: risk blocks the signal, and the OMS pulls what rests; or it is lost. *)
Fails(blocked) ==
  /\ sentQ # << >> /\ sentQ' = << >>
  /\ ~calm
  /\ bookOf' = IF blocked /\ maker # "mean_reversion" THEN << >> ELSE bookOf
  /\ UNCHANGED <<maker, market, memory, inventory, booked, late, calm>>

Reckoned == IF sentQ = << >> THEN booked ELSE Head(sentQ).booked

(* External: one lot of an order trades. *)
Trades(leg) ==
  /\ ~calm
  /\ bookOf' = [l \in {l \in DOMAIN bookOf : l # leg \/ bookOf[l] > 1} |->
                  IF l = leg THEN bookOf[l] - 1 ELSE bookOf[l]]
  /\ inventory' = inventory - Away(leg.side)
  /\ inventory' - Reckoned \in -MaxSurprise..MaxSurprise
  /\ Len(late) < MaxSurprise /\ late' = Append(late, -Away(leg.side))
  /\ UNCHANGED <<maker, market, memory, sentQ, booked, calm>>

(* The position engine handles a fill. *)
Books ==
  /\ late # << >> /\ late' = Tail(late)
  /\ booked' = booked + Head(late)
  /\ UNCHANGED <<maker, market, memory, sentQ, bookOf, inventory, calm>>

(* External: from now on the market stands still and nothing goes wrong. *)
CalmsDown ==
  /\ ~calm /\ calm' = TRUE
  /\ UNCHANGED <<maker, market, memory, sentQ, bookOf, inventory, booked, late>>

QuotesNext ==
  \/ OnTick \/ Cooled \/ Works \/ Books \/ CalmsDown
  \/ \E blocked \in BOOLEAN : Fails(blocked)
  \/ \E leg \in DOMAIN bookOf : Trades(leg)

QuotesSpec == QuotesInit /\ [][QuotesNext]_quoteVars

OnQuotes == Moves("quotes") /\ calm

(* Ticks keep coming, and the queues are served; nothing more is asked of a market
   before it is calm. *)
QuotesFair ==
  /\ WF_quoteVars(OnQuotes /\ OnTick)
  /\ WF_quoteVars(OnQuotes /\ Works)
  /\ WF_quoteVars(OnQuotes /\ Books)

----------------------------------------------------------------------------
(* Position and resting orders of a side stay within max_position and the ladder
   quoted just below it, give or take what the position engine had not yet been
   told when a signal was worked.  max_position is not the absolute limit: the last
   ladder is quoted whole. *)
LotsOf(w, side) == UNION {{<<l, n>> : n \in 1..w[l]} : l \in {l \in DOMAIN w : l.side = side}}
Exposure(side) == Cardinality(LotsOf(bookOf, side)) - Away(side) * inventory
Limit ==
  IF maker = "mean_reversion" THEN Size
  ELSE MaxInventory - 1 + Size * IF maker \in {"grid", "glft"} THEN Levels ELSE 1
InventoryBounded == \A side \in QuoteSides : Exposure(side) <= Limit + MaxSurprise

(* A strategy that repeats its quotes gets them back, whatever was lost, blocked or
   filled: once the market stands still, each side its limits allow rests whole and
   for good, and the other does not, unless neither does: then nothing is sent, and
   what rests is left.  (The gated strategies are silent until the market moves.) *)
Levelled(side) ==
  {Leg(side, Held(side, Half) + Away(side) * i * Step) :
     i \in 0..IF maker = "glft" THEN Levels - 1 ELSE 0}
Quotable == {side \in Open : \E leg \in Levelled(side) : Guarded(leg)}
QuotesRest ==
  Quotable # {} =>
    \A side \in QuoteSides :
      side \in Quotable <=> \E l \in DOMAIN bookOf : l.side = side /\ bookOf[l] = l.qty
QuotesReturn == <>[](calm /\ maker \in Holding => QuotesRest)
=============================================================================
