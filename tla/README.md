# TLA+ models of the trading system

Formal models of the Python trading system in `src/trading`: what its event
loop may interleave, what the venue and the network may do to it, and which
promises survive. The models are translated from the code. Where the code and its
own comments or documents disagree, the model follows the code: four runs exhibit
such a disagreement as a counterexample, and the others met are listed, with the
property that had to be stated around each, under "Where comments and documents
say otherwise".

## Inventory

Components talk over topics of an event bus. The deployed bus is `AsyncioBus`:
every subscription has a bounded queue and one consumer task, a publish fills
the queues of a topic's subscribers one after another without suspending, and
raises `BackpressureError` at the first full one. A handler that awaits only
publishes is therefore one atomic step; a handler that awaits the network, a
sleep or a lock is several.

    market data --MARKET_DATA--> strategies, analytics, position engine
    strategies --SIGNALS--> RiskEngine --RISK_DECISIONS--> OMSEngine
    OMSEngine  --ORDERS---> order gateway <--REST--> venue
    gateway    --ORDERS---> OMSEngine           (acks, rejects, amends)
    user-data stream --ORDERS, FILLS--> OMSEngine, PositionEngine, RiskEngine
    PositionEngine --POSITIONS--> RiskEngine, strategies
    analytics --ANALYTICS--> RiskEngine, strategies
    OMSEngine  --OPEN_ORDERS--> RiskEngine       (working exposure)
    RiskEngine --ALERTS (kill switch)--> OMSEngine

| Component | State it keeps | Operations | What is hard | What makes it correct |
|---|---|---|---|---|
| Order life cycle (`oms/state_machine.py`, `oms/order.py`) | status, quantity, cumulative fill, pending amend | `transition_to`, `record_fill`, `apply_fill` | answers arrive in any order | finished orders stay finished; fills are counted once |
| OMS engine (`oms/engine.py`) | orders, signal cache, algos, drop count | signal, verdict, reconcile, place, amend, cancel, pause, kill cleanup, response handlers, sweep, slice, adopt, terminalize | every handler reads orders whose requests are in flight | a signal is a snapshot, never an increment; pending states end; no self-trade; a halt cancels everything |
| Execution algos and router (`oms/router.py`, `oms/execution_algos/`) | schedule, children | route, slice, retire | timers against cancels, signals and pauses | slices add up to the leg, none after it was withdrawn |
| Binance order gateway (`order_gateways/binance/order_gateway.py`) | id maps | new, cancel, amend, cancel-then-terminalize | REST errors leave the outcome unknown; ack and fill take different routes | an order reported gone is gone |
| User-data stream, listen key (`user_data.py`, `listen_key.py`) | key, id map, session | sessions, keepalive, execution reports | reconnects, key rotation, an event consumed at the wrong moment | a new key wakes the stream |
| Bootstrap, resync, reconciler (`state_bootstrap.py`, `reconciler.py`) | consecutive-gone counters | adopt, refresh, terminalize, compare | answers are older than the stream, or newer | no live order is ended, no fill counted twice, what rests is found |
| REST client, rate limiter (`rest_client.py`, `rate_limiter.py`) | clock offset, tokens | acquire, sign, send, resync the clock | shared offset, a lock, a bucket at its boundary | the budget is kept; a stale clock heals |
| Feed, depth book (`feed_handler/`, `depth_book.py`, `l2_feed.py`) | levels, last update id, backoff | snapshot, diff, replay, watchdog, stop | gaps, silent connections, bootstrap against live diffs | the book equals one the venue had; no silent feed; stop ends |
| Risk engine, kill switch, state, rules (`risk/`) | positions, daily PnL, signal history, VPIN, latch | judge a signal leg by leg, engage, reset, roll over | verdicts in flight when the switch latches; limits read from lagging state | nothing approved after the latch; limits bound positions |
| Position engine and books (`position/`) | lots or average price per (strategy, instrument), marks | fill, mark, publish | fills and updates interleave, updates are lost | money is conserved |
| Strategies, analytics (`strategy/`, `analytics/`) | last quotes, pause set, VPIN buckets | tick, fill, dispatch, pause, resume | gates on a position that lags; a quote repeated or held | inventory bounded; quotes come back |
| Event bus (`event_bus/asyncio_bus.py`) | subscriber queues, consumers | subscribe, publish, consume, stop | partial delivery; shutdown with a stuck handler | order per subscription, nothing returned is lost |
| Kafka bus (`event_bus/kafka_bus.py`) | offsets | read, handle, commit | crash between handler and commit; messages that do not parse | nothing that parses is skipped |
| Simulation gateway (`order_gateways/simulation.py`) | resting orders | new, cancel, amend, match | sleeps inside handlers of two tasks | no overfill; a cancelled order is met by no later trade |
| Backtest (`backtest/`) | event heap, simulated clock | drain, publish, settle | the loop does not wait for the tasks | events at their time |
| Configuration, runners, monitoring, dashboard | - | - | wiring, I/O, presentation | only the commands that act on trading are modelled |

`PROJECT.json` lists all of them with what is modelled, and the hazards of the
code with the line where each bites.

## Modules

The names in the left column are modules of this directory.

| Module | Models | Extends |
|---|---|---|
| `OrderStates` | statuses, the transition table, an order's mutators | |
| `OMS` | the OMS engine, open: any response may arrive at any time | `OrderStates` |
| `SnapshotQuoting` | abstract: what the OMS promises about quotes | |
| `BinanceFutures` | the OMS closed with the futures gateway, the stream and the venue | `OMS` |
| `AccountingBooks` | FIFO, LIFO and average-price books, portfolio sums | |
| `PositionEngine` | the position engine: fills, marks, updates, losses | `AccountingBooks` |
| `RiskState`, `RiskRules`, `RiskEngine` | what risk remembers; the eight rules; judging, latch, subscriptions | `RiskRules` extends `RiskState`, `RiskEngine` both |
| `FlowToxicity` | the VPIN estimator | |
| `TradingDay` | the loop signals - risk - orders - fills - positions - risk | `PositionEngine`, `RiskEngine`, `FlowToxicity` |
| `Quoters` | seven quoting strategies against their lagging inventory | |
| `StrategyRegistry` | dispatch, conflation, pause and resume | |
| `SlicedExecution` | router, TWAP/VWAP, algo driver, exposure snapshots | `StrategyRegistry`, `OrderStates` |
| `UserStream` | the listen key and the session loop | |
| `VenueSync` | bootstrap and resync, adoption and terminalization | `OrderStates` |
| `VenueSession` | process and venue over sessions and restarts; the reconciler | `UserStream`, `VenueSync` |
| `RestClient` | rate limiter, signing, clock resync | |
| `DepthBook`, `MarketFeed` | the local book; the feed handler and its watchdog | |
| `EventBus`, `KafkaBus` | the two buses | |
| `SimVenue` | the simulation gateway with the OMS's orders | `OrderStates` |
| `Replay` | the backtest's loop, clock and venue | |
| `MCBinanceFutures`, `MCDesk`, `MCVenue`, `MCSandbox` | instances for TLC | |
| `Absence`, `Scene` | the value `None`; which part of a run moves | |
| `Sums`, `Sifting` | sums of sequences; a sequence without what fails a test | |
| `OMS_proofs`, `BinanceFutures_proofs`, `VenueSession_proofs`, `SimVenue_proofs` | theorems (see "What is proved") | the module named |
| `Desk_proofs` | theorems about `TradingDay` and `Quoters` | both |
| `Venue_proofs` | theorems about `RestClient` and `DepthBook` | both |
| `Sandbox_proofs` | theorems about `EventBus`, `KafkaBus`, `Replay`, `SlicedExecution` | all four |
| `Sums_proofs` | lemmas about sums, sifted sequences and orders of a set | `Sums`, `Sifting` |

### OrderStates and OMS

An order is a record; its id is its position in `orders`, which is the
insertion order the code's dictionary iterates in. `LegalFrom` is
`_LEGAL_TRANSITIONS`; every status change goes through `Transition`, which
leaves the record alone when the code would catch
`InvalidStateTransitionError`.

A handler of the OMS never suspends on `AsyncioBus`, so it runs to its end
before another one starts. The two that loop are modelled one iteration per
step, with the loop's locals in `recon` (`_reconcile_immediate`) and `cancels`
(`_cancel_resting`, `_cancel_all_resting`, `cancel_strategy_orders`, and the
withdrawal at the end of reconciliation). While a loop runs, `Idle` is false
and no other handler is enabled. The withdrawal loop follows a reconcile loop,
hence `CancelUnmatched` hands over from one to the other.

| Code | Action |
|---|---|
| `_on_signal`, `_evict_stale_signals` | `OnSignal` |
| `_on_risk_decision` | `OnRiskBlocked`, `OnRiskApproved` |
| `_on_alert` / `cancel_strategy_orders` | `OnKillAlert` / `PauseStrategy` |
| `_reconcile_immediate` | `KeepQuote`, `HoldLeg`, `PlaceQuote`, `AmendQuote`, `CancelUnmatched` |
| `cancel_order` | `CancelOrder` |
| `_handle_ack`, `_handle_reject`, `_handle_cancel`, ... | `OnAck`, `OnReject`, `OnCancelled`, `OnCancelRejected`, `OnAmendRejected`, `OnAmended` |
| `_on_fill` | `OnFill` |
| `_sweep_stale_pending_amends` | `Sweep` |

A publish may fail (`PublishFailed`, at most `MaxDrops` times); a failed
publish may or may not have reached the gateway, because the bus delivers to
subscribers one by one.

The strategy is free: at any time it declares any ladder of `Ladders`. The risk
engine is free too: it blocks a signal, or approves any non-empty part of it,
clamping sizes if `RiskClamps`, in signal order and never for a signal emitted
after the kill switch latched.

### BinanceFutures

Five queues connect the parts: `reqQ` (requests to the gateway), `ordQ` and
`fillQ` (the OMS's two subscriptions), `wsQ` (executions on the websocket) and
the single REST call in progress, `gw`. The venue's side is `book`. REST answers
overtake the stream and the reverse; `ORDERS` and `FILLS` are drained by two
tasks. `Faults` names what may go wrong, at most `MaxFaults` times: rejected or
lost POST, PUT and DELETE (lost: the venue may have acted or not), the modify
limit, a post-only amend that would cross, cancels by the venue itself, and
answers dropped by a full bus.

### SnapshotQuoting

The contract in the docstring of `SignalEvent`, on which the position limit
relies. A slot is (strategy, instrument, side). Orders enter a slot one at a
time, under an id never used before and only while the slot has room, and leave
it for good. `OMS` implements it under the mapping `Promise`: working orders are
the active ones, retired orders the terminal ones.

### The trading day

`AccountingBooks` gives the three books as functions from a book and a fill to a
book; `PositionEngine` keeps one per instrument, and loses updates when
`_safe_publish` does. `RiskState` is `_state` as a record: reads that change it
(the rollover, the trimming of the signal window) return the changed record.
`RiskRules` is one operator per rule. `RiskEngine.RiskOnSignal` is `_on_signal`
with everything it calls: rules in order, the first rejecting rule, clamps,
minimum notional, atomic signals, severities, the kill switch, the verdict's
publish.

`TradingDay` closes the loop. A fill reaches the position engine (`PositionOnFill`)
and the risk engine (`RiskFill`) over two queues, and position updates reach
risk over a third (`RiskUpdate`); `Signal`, `Analytics`, `Operator` and
`ClockTick` are the engine's other inputs. The OMS is here in short, for what
`SnapshotQuoting` promises of it: the legs of the last approved verdict work, side
by side (`OMSWorks`), and trade (`VenueFill`). What it keeps is which of their
orders are acknowledged (`OMSHearsAck`), because `cancel_order` passes over an
order that is PENDING_NEW: a refusal and the kill alert (`OMSHalts`) take the
acknowledged legs away and leave the others (`Uncancelled`). The alert's loop over
`cancel_order` is one step, for it awaits only publishes, and `AsyncioBus.publish`
never suspends. A cancel that is asked for succeeds here; that it may be refused or
lost, and the loop order by order, is in `OMS` and `BinanceFutures`. A configuration
(`desk`, one of `Desks`) names the rules, the accounting and the bounds.

`Quoters` has `on_tick` of seven strategies, each a choice of ladder from
market, memory and position: `market_making`, `microprice_mm` and `grid` behind
the two gates of `_should_requote`, `obi_alpha`, `avellaneda_stoikov` and `glft`
which hold a quote that has hardly moved (`Held`, `OnHeld`), and
`mean_reversion`. The position they read (`booked`) lags behind `inventory`.

### What talks to a venue

`UserStream` and `VenueSync` are the session loop and the resync as state
machines; every REST question is a step, its answer another, and what is done
with one answer is one step because nothing suspends in between.
`VenueSession` composes them with the OMS's handlers of acks, cancels and fills,
the venue, restarts (`Crash`: everything in memory goes, requests on their way
may have arrived) and the reconciler (`AskBalance`, `Compare`).

`RestClient`: `Request`, `Acquire` (under the limiter's lock), `Answered`, and
the look at the venue's clock in two steps (`SyncBegins` or `LoopSyncBegins`,
`SyncEnds`) under `_resync_lock`. `DepthBook`: `bootstrap` in two steps
(`BootstrapBegins`, `BootstrapEnds`) with diffs buffered meanwhile, `apply_diff`
(`NormalizeDiff`), the poller. `MarketFeed`: `run` as `FeedConnect`,
`FeedConnectFails`, `FeedDrops`, `FeedStreamEnds`, `FeedBackoffEnds`, and
`Watchdog`, `Stop`. The watchdog's alert may meet a full queue, which ends its task
before it disconnects (`WatchdogDies`), as it may end the handler at the breaker.

### Buses, slices, simulation, backtest

`EventBus` is `AsyncioBus` for one topic: `Publish` (which subscribers it
reached), `Consume`, `HandlerReturns`, and `stop` step by step (`BusStop`,
`PutSentinel`, `JoinBegins`, `Joined`, `TimesUp`). `KafkaBus` is `_consume`: read,
handle, commit, each of which a crash may separate; an event that does not parse is
committed with no handler called (`SkipUnreadable`). In `SlicedExecution` the
router is `Sliced`, a schedule is a `Plan`, `Approved` and `Blocked` are what
reconciliation does with the running algos, `DriverWakes` is the driver's timer,
`OnAlert` and `PauseStrategy` withdraw, `OnAck`, `OnEnd`, `OnFill` and
`OnCancelRejected` are the children's answers, `Refresh` and `Terminalize` what the
resync does to a child, and `PublishOpenOrders` and `OnOpenOrders` carry the working
exposure to risk. Quantities are in a unit finer than a lot: nothing rounds a child
(`Child`) to lots. `SimVenue` has the two consumer tasks of the
gateway, `server` and `matcher`, each with the place it sleeps at. `Replay` has
`_replay_loop` as `Fetch`, `DrainUpTo`, `PublishData`, `DrainDue`, `RoundEnds`,
`Settled`, and the venue's handlers, which schedule events for later.

## Runs

The four modules named MC fix the constants. A run of a passing kind checks what
always holds; a run expected to be violated checks one thing a comment of the
code says, and finds the behaviour that breaks it.

| Run | Question | Bounds | Result |
|---|---|---|---|
| `BinanceRequote` | snapshot contract on the venue; agreement of untraded orders | 3 signals that may expire, fixed size, no faults | holds |
| `BinanceFaults` | conservation of executions, "gone means gone" | 2 signals, sizes change, clamps, late answers, up to 3 faults | holds |
| `BinanceSnapshot` | `NoStacking`, refinement of `SnapshotQuoting` | 2 signals of 2 legs, 1 lost publish | holds |
| `BinanceStp` | no self-trade at constant prices | 2 strategies, 3 signals | holds |
| `BinanceLive` | pending states end, cancels complete | 2 signals, 1 fault, fairness | holds |
| `Desk` | do books balance, and limits, halts and quotes hold | per desk, see below | holds |
| `Venue` | is what the process believes true of the venue | per scene, see below | holds |
| `Sandbox` | do buses, slices, simulated venue and backtest keep their contracts | per part, see below | holds |
| `BinanceStacking` | snapshot contract when sizes change | 3 signals, no faults | violated |
| `BinanceDrift` | agreement of partly filled orders | 3 signals, no faults | violated |
| `BinanceHalt` | nothing live after the halt | 3 signals, no faults | violated |
| `BinanceSelfTrade` | no self-trade when prices move | 2 strategies, 3 signals | violated |

The Binance runs take one instrument, prices 1..2, quantities 1..2 and, except
where noted, one strategy with one-leg ladders. The types and the loop invariant
of `OMS` are not checked by a run: they are proved.

The last three passing runs check several parts that share nothing. `part` names
the one that moves (`Scene!Moves`); the others stay at an initial state, so a
run explores the sum of its parts and not their product. Each part has
configurations of its own, chosen in the initial state and kept:

- `Desk`, part `day`: `Ledger` and `Portfolios` (three fills into each kind of
  book), `Quoter` (position cap), `Loser` (daily loss over midnight), `Spread` (a
  second instrument hides the loss in the first), `Halted` (kill switch and operator), `Spammer` (throttle, allow list, notional),
  `Poisoned` and `Ragged` (toxic flow in trades of a bucket, and of one and a
  half). Part `quotes`: the seven strategies.
- `Venue`, part `session`: `Racing` (resync against stream and cancels), `Audit`
  (reconciler), `Gaps` (answers that list too little), `Keys` (key rotation),
  `Healing` and `Reborn` (endless resync, a restart). Parts `depth`, `feed`,
  `rest`.
- `Sandbox`, parts `bus`, `kafka`, `sim`, `replay`, and `sliced` under
  `Resignalled`, `Answered`, `Lossy`, `Requoted`.

`CHECK_DEADLOCK FALSE` in these three: fills, signals, data and restarts run out
by their bounds, and a stopped bus, feed or backtest has stopped.

Every bound is a constant of a cfg or a field of one of those records. Why they
are enough for what is asked:

- *Signals 3, quantity 2, price 2* in the Binance runs. Three signals give an
  order, a second request while the first is in flight, and a third that acts on
  what the first two left behind; each violation needs no more. Quantity 2 is the
  least with a partial fill, price 2 the least with a move. Two legs of one side
  are the least for which one leg may claim what another wants. `BinanceFaults`
  takes two signals and three faults: a fault for the new order, for its amend or
  cancel, and for what answers those. Elsewhere one fault meets every other step.
- *Three fills* of sizes 1 and 3 open, add to, reduce, close and flip a position
  in every kind of book; lots of 2520 keep every average of such fills whole, so
  that rounding is not mistaken for loss of money.
- *Two days of two hours* put midnight between any two events. *Buckets of 4,
  trades of 4 and of 6* fill a bucket evenly, leave a part in the next, or end two.
- *Two lots an order, one restart, one failed request, two or three keys*: a
  partial fill before and after each; `resyncs = -1` lets the resync repeat for
  ever, for the liveness properties.
- *Four updates of the depth book* leave a hole before, within and after the
  buffered ones. *Two reconnects* reach the circuit breaker.
- *Two requests on a bucket of two*: one waits for the other and both may find the
  clock stale. *Queue of two, four events, two subscribers* fill one queue and not
  the other. *A log of four, three restarts*: the first commit, and two more to
  fall between handler and commit.
- *Profiles (1,1) and (2,0,1), legs of 4 and 6 units, two units a lot*: an even
  schedule, one with a bucket in which nothing is sent, slices of whole lots and of
  one and a half, and a leg declared again at the other size while its schedule runs.
  The router slices what exceeds two units at the mark. *Fills and corrections of one
  unit or of the whole order*: partial and complete. *One simulated order of up to three lots against three asks*:
  two matches and what is left. *Two orders, two latencies* in the backtest: an
  order acknowledged before and after its fill is due.

### What the runs show: orders

- With quotes of a fixed size the book never holds more than the declared orders
  of a strategy. With a venue that answers before the amend timeout, an order
  that has not traded is where the OMS thinks it is. Both are also proved, for
  sizes that change in the second case, and for most faults (see "What is proved").
- **Sizes that change break it** (`BinanceStacking`). The venue applies an amend
  to a larger size; a fill of the old size overtakes the confirmation; `_on_fill`
  compares with the old quantity and records FILLED; the confirmation is then
  dropped as illegal. What is left of the order rests untracked, and the next
  signal places another order.
- **Partly filled orders drift** (`BinanceDrift`). A partial fill during an amend
  makes the confirmation illegal, and the new price is not taken over, until a
  resync, every 30 s by default, refreshes the order from the venue.
- **A halt may leave orders live** (`BinanceHalt`): one that was PENDING_NEW when
  the alert was handled, or that a verdict on its way placed.
- **Self-trade prevention reads the old price of an amending sibling**
  (`BinanceSelfTrade`). At constant prices it does its work (`BinanceStp`), and
  the run depends on requests reaching the venue in order: an order in
  PENDING_CANCEL does not count as live.
- Executions are conserved whatever is lost, late or out of order, through the
  branch of `_on_fill` that records a fill on a terminal order.
- An order recorded CANCELLED or REJECTED is off the book, with one exception the
  code announces itself: a POST that fails in transport is published as a reject
  although the order may be live. `new_lost` is therefore not among the faults
  of `BinanceFaults`; it is among those of `BinanceLive`.
- A DELETE answered "unknown order" is reported as a cancellation
  (`order_gateway.py` 253-270); `docs/architecture/components/order-gateways.md`
  112-114 says CancelRejected and a rollback. The model has what the code does.
- A pending order ends its wait and a cancel ends its order (`BinanceLive`),
  unless the CancelRequest itself is dropped: no sweep covers PENDING_CANCEL.

### What the runs show: positions, risk, strategies (`Desk`)

- `EquityIdentity`: for each book, realized and unrealized profit are the cash
  paid and received plus the net position at any mark, fees included, and once every
  open position has a mark the portfolio is their sum.
- `RiskKnowsPositions`: with every queue empty, risk has each position, provided
  no update overtook a fill of the same instrument and none was lost. Both
  happen: risk adds fills to a position and replaces it by updates.
- `CapHolds`: position and resting orders stay within `max_position`, as long as
  every verdict was given on the true position and worked before the next fill
  (`~lagged`), and only what works is filled (`~desk.open`). The engine counts no working orders, which is why `NoStacking`
  matters.
- `NothingAfterLatch`: no signal judged after the kill switch latched is approved
  or worked. `HaltClears`: once the OMS has handled the alert, what still works is of a
  verdict that was already on its way, or of an order that was not acknowledged when
  the alert was handled: that one is passed over, and nothing cancels it later. The
  alert is published once; when backpressure takes it, quotes stay, and the property
  leaves that case out.
- `LossStops`: as long as one instrument is all that was traded, with every event
  handled in order, none lost, and books settled at midnight, nothing passes once the
  day's realized loss has reached its cap. In `Spread` a second instrument is traded
  and a signal does pass: without that condition the run finds it.
- `ThrottleBounds`: no window of its length holds more approvals than the
  throttle allows, when it is the only rule to read that history: a second one
  with a shorter window evicts what this one counts.
- `VpinSustained`: the VPIN breaker trips only on an unbroken run of breaches among
  the values seen. Several values may come from one bucket.
- `InventoryBounded`: position and resting orders of a side stay within
  `max_position`, one whole ladder, and what was filled but not yet booked when
  the signal was worked. `max_position` is no absolute limit.
- `QuotesReturn`: with the market calm, a strategy that holds its quotes has them
  back on the book after a lost signal. The strategies gated by price alone
  stay silent until it moves.

### What the runs show: venue (`Venue`)

- `CountsNoFillTwice` and `EndedIsGone`: the OMS never takes an order for more
  filled than it is, nor for finished while it rests, over restarts, lost
  reports and short answers, as long as no answer of the resync is used while a
  report of the same order is on the stream (`env.calm`). Without that condition
  both fail: a difference and a total that includes it are both added.
- `NeverOnGuess`: also then, an order ended by the resync ends with the status
  the venue has for it.
- `AdoptsWhatRests`, `ResyncHeals`: what an earlier life of the process left is
  adopted, and what ended unreported is ended, even if the stream stays silent.
- `KeyWakesStream`: a new listen key that comes while the loop waits or backs off
  starts a session with it. One that comes while a session is open does not: the race
  ends the session and takes the event, and the loop then waits for the key after
  it. Nor does a plain disconnect: the loop waits for a key first. In both cases the
  stream stays silent until another key is issued, and the resync carries the rest.
- `NoFalseAlarm`: the reconciler alerts nothing when the position was built in one
  life and reported in full. Two drifts that cancel within an asset it cannot see.
- `BooksAreTrue`: a depth book kept or published is one the venue had under that
  update id, unless a difference went missing among those buffered in a
  bootstrap, where the code checks only the first.
- `NoSilentFeed`: a connection that falls silent is given up while the watchdog
  lives; its own alert may end it (`WatchdogDies`), and then nothing gives it up. `StopEnds`: a stop
  ends the feed, unless it comes during a connect, whose connection is
  consumed until it drops.
- `WithinBudget`: over any stretch the limiter grants no more than a full bucket
  and its refill. A second sending and the looks at the clock are outside it.
- `StaleClockHeals`: a request is given up as out of time only if the clock was
  stepped again after its own look, whatever other looks did meanwhile.

### What the runs show: buses, slices, sandbox (`Sandbox`)

- `BusDelivers`: each subscriber hears events in order, none twice, and each one
  whose publish returned, unless its consumer was cancelled. `StopReturns`: a
  stop ends unless a stuck handler has a full queue; the sentinel is put outside
  the timeout.
- `KafkaSkipsOnlyUnreadable`: from a group's first commit on, nothing that parses was
  left out below the offset; the last event may be handled twice. What does not parse
  is lost to the handler, and CancelRejected and AmendRejected never parse. Before the
  first commit, `latest` skips.
- `WithinLeg`: an algo sends no more than its leg had when it began, also when the leg
  is declared again at another size, and at the end of its schedule exactly that:
  because no child is rounded. `NoSliceUnwanted`: no slice for a leg that was withdrawn, nor for
  a paused strategy beyond a signal that was on its way.
- `WorkingIsKnown`: risk has the OMS's working exposure once the snapshots are
  handled, unless the last was dropped or the resync has corrected a tracked order
  since, which publishes none.
- `SimOverfill`: no more of an order is traded than the largest quantity asked,
  unless it was amended below what had been taken. `SimCancelEnds`: an order
  reported cancelled is filled only by a match begun before.
- `PunctualReplay`: the clock never goes back and nothing is published at another
  moment than it was due, although the loop does not wait for its tasks.

### Where comments and documents say otherwise

Besides the four violated runs, these disagreements were met while modelling. A
property that states what the text says would be false; the property named states
what holds, with the exception in its own words, and `PROJECT.json` has each under
"findings".

| Text | Code | Property |
|---|---|---|
| `position/engine.py` 185: a position with no mark is flat, zero unrealized | valued at mark 0, that is at minus its cost | `EquityIdentity`, once positions have marks |
| `daily_loss_limit.py` 1: stop once today's realized loss exceeds a floor | `risk/state.py` 227 has one figure for a strategy, of the instrument updated last | `LossStops`, one instrument traded |
| `order-gateways.md` 78: gone orders are stamped CANCELLED, no query | `_resolve_gone_orders` asks `/allOrders` and takes the status | `NeverOnGuess`, unrestricted: the document is out of date |
| `user_data.py` 185: a recreated key ends the session and the loop reconnects | the race has taken the event, the loop waits for another | `KeyWakesStream`, keys that find the loop waiting or backing off |
| `feed_handler/engine.py` 158: the watchdog forces a reconnect | its alert (line 178) may end it before it disconnects | `NoSilentFeed`, while the watchdog lives |
| `twap.py` 15, `vwap.py` 19, `instruments.py` 49: the OMS rounds to lots | `_submit_child` (`oms/engine.py` 835) rounds nothing | `WithinLeg`, exact because unrounded |
| `oms/engine.py` 1336: a snapshot after any change to the open orders | `_refresh_adopted_order` changes them and publishes none | `WorkingIsKnown`, unless the resync corrected an order since |
| `kafka_bus.py` 11, 213: every handler the full stream, at least once | an event that does not parse is committed unseen (188-196) | `KafkaSkipsOnlyUnreadable` |

### Facts of the code met on the way

They are modelled as they are; no property says otherwise.

- *Risk.* The session peak is cleared by every update (`state.py:301`), so the
  drawdown breaker measures from the last one and does not trip. Severities are
  compared by the enumeration's strings (`engine.py:214`), and only the first
  rejecting rule is looked at. The throttle's history is trimmed with the
  window of whoever reads it (`state.py:176`). VPIN counters exist for 0.5, 0.7,
  0.8 and 0.9 only, and the breaker's decision for calm values is built with
  positional arguments the class does not take (`vpin_circuit_breaker.py:96`): the
  exception is taken for a reject, so that a calm market blocks the signal.
- *OMS.* When a leg that was sliced comes back as an immediate one, it is
  placed in full before the children are withdrawn (`engine.py:595`); legs built
  afresh have a new leg id at every signal, so their schedule begins again; a slice that is rejected is
  not sent again. `if not legs: return []` in several strategies leaves resting
  quotes where they are. A skew beyond the half spread crosses the mid.
- *Venue.* Concurrent resyncs of the clock each ask the venue; retries take no
  tokens. The feed's attempt counter is reset by every connect, so a connection
  that flaps never opens the circuit breaker.
- *Buses.* A publish that raises has reached the subscribers before the full one.
  A Kafka commit that raises ends its consumer without a word; handlers of one
  qualified name share a group.
- *Simulation and backtest.* A cancel or amend of an order that has gone is
  answered by OrderRejected, not by the reject the OMS waits for; OrderAmended
  after a partial fill is dropped by the OMS. The backtest never answers an
  amend, runs a fixed number of settling rounds, and leaves unpublished what is
  scheduled while the bus stops.

### Fairness

Each assumption is one the asyncio loop, a timer or a timeout gives. Where what
must end lasts until it ends, "it ends" is written `[]<>~(...)`, which then says
the same as the leads-to and is cheaper to check: `PendingResolves`, `ResyncHeals`,
`AdoptsWhatRests`, `NoSilentFeed`, `StopEnds`, `StopReturns`. `QuotesReturn` says
that the quotes come back to stay once the market is calm and the strategy wants
them. `CancelsComplete`, whose antecedent may lapse, is a leads-to.

- `FairSpec` (`BinanceLive`): weak fairness for the steps of a loop already begun,
  for the gateway and for the stream, strong fairness for the OMS's own tasks
  (verdicts, kill alert, order events, fills, sweep). The loop runs ready tasks in
  order, each REST call ends in an answer or a timeout, and the sweep is a timer.
  Strong fairness is needed because a loop in progress disables the other handlers
  again and again.
- `SessFair`: the process's tasks, its connection attempts and the periodic resync
  go on, and the gateway answers; the venue answers badly only `blips` times.
- `FeedFair`: the stream task and the watchdog run, the connector's calls return,
  and a silent threshold passes.
- `BusFair`: consumers run, handlers return unless they are stuck, `stop` goes on
  and its timeout fires. A stuck handler has none.
- `QuotesFair`: ticks keep coming and the two queues are served.

No fairness is assumed of signals, trades, the risk engine's choice, restarts or
faults.

## What is proved

Eight modules hold theorems, for every value of the constants under the named
assumptions. TLC found each of the properties to hold on the small instances
first.

| Theorem | States | Assumptions |
|---|---|---|
| `OMS_proofs!TypeCorrect`, `Snapshot`, `Implements` | `OMSSpec` keeps `TypeOK`, `NoStacking`, `PromiseKept` | `SizeAssumption`, `StrategyAssumption`, `LadderAssumption` |
| `BinanceFutures_proofs!Closed` | `Spec => OMSSpec` | the same |
| `ClosedSnapshot`, `ClosedImplements` | the same two with gateway and venue attached | the same |
| `GoneStaysGone` | `GoneMeansGone` | the same, `MaxDrops = 0`, `"new_lost"` not a fault |
| `FillsConserved` | `FillConservation` | the same as `Closed` |
| `VenueSnapshot` | `VenueNoStacking` | `MaxDrops = 0`, `"new_lost"` not a fault, `~RiskClamps`, one size for all legs |
| `SelfTradePrevented` | `NoSelfTrade` | the same, `StpEnabled`, no cancel refused or lost, no bid declared below an ask |
| `UntradedSettles` | `UntradedAgree` | `~LateResponses`, no cancel refused or lost, no amend and no answer lost |
| `Desk_proofs!LatchRefuses`, `LatchClears` | `NothingAfterLatch`, `HaltClears` | none |
| `ApprovalsAreThrottled`, `OnlySustainedFlowHalts`, `PositionsAreKnown` | `ThrottleBounds`, `VpinSustained`, `RiskKnowsPositions` | `DeskAssumption` |
| `CapsHold` | `CapHolds` | the same and `NoneAssumption` |
| `EquityAddsUp` | `EquityIdentity`, for FIFO and LIFO books | `DeskAssumption`, `PricesAssumption` |
| `DailyLossStops` | `LossStops` | `DeskAssumption`, `DayAssumption` |
| `InventoryIsBounded` | `InventoryBounded` | `QuotesAssumption` |
| `VenueSession_proofs!EndsAsTheVenue` | `NeverOnGuess` | none |
| `NoFillTwice`, `FinishedIsGone`, `AlarmsAreTrue` | `CountsNoFillTwice`, `EndedIsGone`, `NoFalseAlarm` | `SessionAssumption` |
| `Venue_proofs!RestHeals` | `StaleClockHeals` | `RequestAssumption` |
| `StaysWithinBudget` | `WithinBudget` | `RequestAssumption`, `BudgetAssumption` |
| `BooksTold` | `BooksAreTrue` | none |
| `SimVenue_proofs!CancelledMeetsNoTrade`, `SoldAsAsked` | `SimCancelEnds`, `SimOverfill` | `SimAssumption` |
| `Sandbox_proofs!BusSafe` | `BusDelivers` | none |
| `KafkaSafe` | `KafkaSkipsOnlyUnreadable` | `NoneAssumption` |
| `ReplayIsPunctual` | `PunctualReplay` | `ReplayAssumption`, `NoneAssumption` |
| `SlicesAddUp` | `WithinLeg` | `LegAssumption`, `RegistryAssumption` |
| `ExposureIsKnown` | `WorkingIsKnown` | the same and `SnapshotAssumption` |
| `SlicesAreWanted` | `NoSliceUnwanted` | `LegAssumption`, `RegistryAssumption`, `PromptAssumption` |

The theorems are about the specification of a component (`OMSSpec`, `DaySpec`,
`SessSpec`, ...), of which a run's `Spec` is an instance beside other parts.
`PromptAssumption` says that a schedule sends something when it begins, as TWAP, the
only algorithm the router makes, does. `cancel_strategy_orders` finds the algos to
withdraw by their children (engine.py 943-952), so a VWAP profile whose first bucket
is empty would escape it; VWAP is not wired (router.py 18).

**Sums.** What a sequence adds up to is a recursive function (`Sums`), and so is a
sequence without the elements that fail a test (`Sifted`). `Sums_proofs` proves about them
what the others use: a set of numbers with 0 and every successor holds all numbers
(`AllNumbers`, from a least counterexample), so partial sums exist, grow with the
sequence, do not mind the order, and add up entry by entry; and a sequence of steps from
a start exists (`FoldExists`), which stands for a fold.

**The OMS.** Apart from `PlaceQuote`, every step is *tame*: it adds no order,
keeps the fields that place an order in a slot, and leaves a terminal order
terminal. So no slot gains an order (`TameStacksNothing`), and in the abstract
specification the step retires the orders it ends, or stutters (`TameMaps`).
`NoStacking` is not inductive by itself: that a leg may place an order rests on
the loop. The strengthening is `StackingInv`, which adds `LoopInv`: while the
loop runs, the orders its legs have claimed together with those it has placed
are no more than the legs it has been through. A leg that finds nothing left to
claim therefore knows that everything in its slot has been counted
(`PlaceCounts`), and there is room. `FirstMember` (a non-empty set of naturals
has a least member, so the code's first match exists) and `GrowTogether` carry
the rest.

**The OMS on the venue.** `OMSSpec` lets any answer about a known order arrive. That
the gateway, stream and venue never do more is `TypeOK /\ Traffic`: everything
in the five queues, in the call in progress and on the book is about orders the
OMS holds. From it each step of the composition is a step of `OMSNext` or leaves
the OMS alone, and the theorems about the one carry over. `GoneStaysGone` rests
on `Honest`, which says of every message in flight what it may still do to its
order: a cancel or a reject in flight is about an order that is already off the
book (`Off`: not resting, and no request in flight can put it back), a request
for a new order precedes all others about it, and before it arrives the venue
does not know the order. `FillsConserved` needs the last two of these (`FillInv`), and
then counts: what is on the stream, in the queue and recorded changes hands in every
step, and only a trade adds to it.

**What rests on the venue.** Three theorems say of the venue's book what the OMS's own
records only promise; each names what must be excluded, and TLC breaks the property when
any one of these hypotheses is dropped. `VenueSnapshot`: a live order is one the OMS
counts as working, so `NoStacking` bounds the book too. What could part the two is an
order recorded FILLED that still rests, hence the invariant `Shaped`: every order, request
and answer has terms the ladders may ask for, so with one size the OMS compares fills with
the size the venue has (`FilledEarned`, `BookOpen`). A size that changes is exactly what
`BinanceStacking` shows. Amends refused, lost, late or answered by a cancel are all allowed.

`SelfTradePrevented`: an order is `Exposed` when it is live or a request is about to place
it. Two exposed orders of different strategies that would trade (`Apart`) are only ever on
the two sides of a queue: the one being cancelled has its cancel ahead of the other's
request (`Leaving`, `Ahead`), since the OMS asks `StpBlocks` before it places, and the
gateway serves requests in order. Had the venue refused or lost the cancel, the second
order would meet the first. That every bid crosses every ask is what "a price that never
changes" comes to; where prices may move apart and back, `BinanceSelfTrade` is the
counterexample.

`UntradedSettles`: an order that has not traded and not ended is `Tracked`. Its amend is
in one place at most, asked for, being served, or answered (`OneAmend`), and only while
the OMS waits for it; an amend the venue has carried out is followed by a confirmation
that says what the book says (`Confirms`); and with no confirmation under way, book and
OMS have the same terms. An order that left the book has a cancellation on its way
(`CancelComing`). Before the venue takes an order in, nothing can be said of it but that it
is asked for or refused (`UnheardInv`), which is why the request to place it still has the
order's own terms (`NewTrue`). The new-order POST may be lost here, the venue may cancel,
refuse amends or answer with the modify limit, and the bus may drop requests; sizes may
change as they like.

**The kill switch.** `DayInv` numbers signals as they are judged (`Numbered`). While
the switch is latched, whatever is approved or works was judged before the last
latch (`Before`), and once every alert has been handled, a verdict that waits was on its
way at the last of them, and so was what works, but for the legs that were not
acknowledged then (`Cleared`). Until another verdict is worked, legs only leave what
works (`UncancelledIs`), so none joins the exceptions later.

**The throttle.** Reading the history trims it, so what counts is that nothing that still
matters was trimmed: `Remembers` says that for each moment of the window now open the
history holds at least as many signals since then as were approved, and `ThrottleInv` that
no window so far holds more approvals than allowed. A second throttle would trim what the first one
counts; the property, and the proof, are for rule lists with one.

**The VPIN breaker.** `VpinInv`: a counter that stands at n for an instrument and a
threshold has seen the last n values of its tape, and all of them reached it (`Ran`).
A switch latched by "vpin" was tripped by a rule of that class, which answers KILL only
with its counter at the rule's length.

**The position cap.** A verdict is a promise about the position it was given on. As
long as nothing lagged, at most one verdict waits; it and what works fit under each cap
at the true position (`CapInv`, `Fitting`). That an approved verdict fits needs the arithmetic
of `MaxPosition`: the sum of the clamped legs of a side is at most the room left, because each
leg was judged with all others of its side at full size. A fill moves the position by
what it takes from the working leg, so the sum stays.

**What risk knows.** Fills reach risk twice, as deltas and inside absolute updates. `KnownInv`
follows both: `BooksInv`, what was traded is what the book holds and the fills on their
way to it; `Tallied`, fills absorbed and waiting for the book are as many as handled and
waiting for risk; `Current`, the last update on its way for an instrument tells what its
book holds now; `Told`, with no update on its way, and risk and book even in the fills
they handled, risk's position is the book's. An update that comes before a fill it covers
breaks `Told` for good: risk then adds the fill again, which is what `overtaken` excludes.

**Equity.** `EquityInv`: for each book and any mark, `Equity` (realized, and each lot at the
difference between mark and price) with what the fills on their way are worth is cash plus
net position at the mark. It is preserved because consuming lots, front to back or back to
front, conserves volume and cost: the lots are weighed by one price function for the volume
(`One`) and one for the cost (`Same`), and both sums split at the lot the fill ends in.
The portfolio is the sum over the instruments in their order. For the WAVG book the
average is a quotient; the identity holds exactly only where prices divide, as in the run's
instance, and stays with TLC.

**The daily loss.** `LossInv` adds to `KnownInv` that, while one instrument is all that was traded,
(`ProfitKnown`) the last update on its way, or risk's own record when none is, has what
the book has realized (`ToldProfit`), and that the profit risk measures the day from, now or
as soon as it looks (`Baseline`), is what the book had realized at midnight. The engine
rolls its day over lazily, on the first read or update of the new day: a read changes the
bucket but not `Baseline` (`Reads`), an update rolls over before it writes, and until then
the old day's bucket stands, `rs.day` being no later than today (`DayKept`).
That one instrument is all that was traded is a condition of the property and of this
invariant, `DOMAIN books \subseteq {i}`, not of the constants: books are only ever added
(`BooksGrow`), so a state that has one now has had no other.
`DayAssumption` says only that a day has a length.

**The inventory.** `QuotesInv`: what was traded is what is booked and the fills on their way
(at most `MaxSurprise`, each of one lot); the position a pending signal was made for is no
further than that from the true one (`Near`); and a side the signal quotes fits the position
it was made for (`Suits`). The last is where the strategies come in: a side is quoted only
while the position is short of `max_position`, and a ladder asks for no more than `Size` on
each of its `Levels` rungs (`LadderLots`); a taker that leaves asks for what it holds.
When the signal is worked the two distances add up, which is the bound.
`QuotesAssumption` has limits, sizes and levels positive, as the constructors check.

**The resync.** An answer may be old by the time it is used. `GuessInv`: a request for
a new order is one the venue has not seen (`SentOnce`), so an order that has
ended there never comes back, and a row that lists an order as ended is still
true when it is read (`RowsTrue`). `Shaped` gives records their fields.

**The counts.** `CountInv` follows each fill from the venue to the OMS: what the OMS has taken of an order
(`Taken`), with the fills in its queue and on the wire, is no more than the venue has filled, and an
order the OMS holds as ended has ended there (`OrderInv`); an answer of the resync says no
more than the venue has (`AnswerInv`), and is used, where `env.calm`, only when no report of its order
is on the way. `Balanced` adds,
for the reconciler, that what was booked, with what is on its way, is what was bought at the
venue, unless something was missed.

**The clock and the budget.** `RestInv` follows a request through its own look at the venue's clock
(`Looks`): as long as the clock has not been stepped since, what the look reads is
the skew, and so is what the request is then signed with, whatever other looks
do to the shared offset. `InLine`: each waiting request is in one place. `BudgetInv`: for
every moment, what was granted since then and is left in the bucket is no more than a full
bucket and the refill since.

**The depth book.** `DepthInv`: a kept or published book is one the venue had (`Had`), the differences
buffered are the venue's, and an answer is a state it had. A difference applied to a book the
venue had at or after its first update gives the book at its last (`Replayed` is the
sequence of those).

**The simulated venue.** `SimInv`: all traffic is about orders that were placed
(`Traffic`), each is submitted once (`SubmittedOnce`) and rests only after that
(`RestsAfter`), a closed order is off the book (`ClosedOff`), and the one order
under a match is known (`MatcherHolds`). `LotsInv`: no request and no resting order is for more than the largest quantity asked
(`AskedFor`), and what was sold of an order is what has left the book, until an amend below it
(`shrunk`). `Heard`: what was sold is what the OMS has counted and what is in its queue.

**The buses and the backtest's clock.** `BusInv`: what a subscriber has heard and what its queue holds
ascend together (`Kept`), what it is owed is in one of the two (`Owes`), and consumers
end or are cut only in a shutdown (`EndsLate`). For Kafka, `Consumed`: all between
the first commit and the reader's offset has been handled or does not parse (`Seen`). `ReplayInv`: nothing scheduled is due before
the clock, and the clock stands at the last event read between two rounds (`Timely`).

**Slices.** `LegsInv`: each algo has sent the first buckets of its plan, and the children of its
leg since it began add up to them (`OnSchedule`); a plan adds up to its leg because its
last bucket is what is left, and what a child was sent with stays, whatever the resync
makes of its quantity. `KnownInv` (there): the last snapshot on its way, or risk's own
record when none is, is the exposure of the children now, unless it is `untold`: each step that
changes a child either publishes, or says so in that flag. `WantInv`: a running
algo is of the leg the last approved signal wanted, and a paused strategy has none beyond
the signals heard before.

Only model-checked, and why:

- `EquityIdentity` for WAVG: the average is rounded.
- Liveness, out of the prover's reach because of ENABLED: `PendingResolves`,
  `CancelsComplete`, `QuotesReturn`, `ResyncHeals`, `AdoptsWhatRests`, `KeyWakesStream`,
  `NoSilentFeed`, `StopEnds`, `StopReturns`.

## Not modelled, and why

- Market orders in the OMS (no price; the quoting strategies send none) and the
  spot path (its amend is cancel and replace in one call; `cancel_stale_orders`).
- Account updates of the stream, which republish balances; the sequencer, which
  the Binance feed does not use; the field mapping of message normalizers.
- `momentum` and `ping_pong`, whose orders do not depend on what rests;
  volatility and realtime-risk estimates and position sizing (floating-point
  statistics, no state machine).
- `MemoryBus` on its own: publish calls the handlers; `Replay` uses it so.
- Several Kafka partitions, rebalancing and the producer's retries, which are the
  client library's.
- Fees and slippage of the simulated venue, metrics and equity records of the
  backtest.
- Configuration, runners, dashboard and monitoring, except the commands that act
  on trading (pause, resume, engage, reset).
- Prices, quantities and times as decimals: small integers tell apart what the
  properties need. Logging and metrics.

## Plan

Done: the order path, the trading day, strategies and slices, the venue session,
REST client, feed and depth book, the two buses, simulation and backtest, and
the theorems above. Left, in this order:

1. The spot path of the gateway as a second closing of `OMS`, with
   `cancel_stale_orders`.
2. `SimVenue` closed with `OMS` in place of its own record of the orders.
3. Several partitions and a rebalance for `KafkaBus`.
