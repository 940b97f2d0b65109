# Formal models of the trading bot

TLA+ models of the parts of this repository that decide things (what is bought,
closed, refused, matched, retried, published, stopped), TLC configurations that
check them on small instances, and TLAPS proofs of the results that should hold
for every size. Sources are cited as `src/...`, relative to the repository's root.

- `PROJECT.json` is the index: components, runs, the source lines every
  definition models, one mutant for every checked property, the hazards of the
  code, the disagreements between code and documentation, and the theorems.
- `tlc -config X.cfg MCModule` runs a configuration, `tlapm X_proof.tla` checks
  the proofs of a module.

## 1. The system

The bot is one Python process (`src/main.py`) around an event bus, several Rust
crates that the process may load in place of slower Python code, a Rust gRPC
gateway, two TypeScript services and a web interface.

| part | state it keeps | operations | talks to |
|---|---|---|---|
| risk manager `execution/risk_manager.py` | limits, open positions with their stops, kill switch, last trade of each symbol, equity, cumulative loss, loss breaker | approve a signal, open, update price (moves stops, announces exits), close, kill, reset | called by executors and endpoints, raises stop events on the bus |
| event bus `core/event_bus.py` | one bounded queue, handlers by type | publish (waits), publish_nowait (drops), one consumer | everything in the process |
| CEX and Kraken executors `execution/cex_executor.py`, `kraken_executor.py` | the exchange client | entry in paper and live mode, poll, cancel and replace, stops, kill, start, close | bus, risk manager, exchange |
| endpoints of the book `interface/dashboard_api.py`, `interface/routes/` | none of their own | kill, release, close, close all, break-even, reset, limits, modes, reads | risk manager, bus |
| dashboard reads `interface/dashboard_api.py` | caches of coins and candles, order books, news, requests per minute | market, candles, snapshot, guard | outside sources, bus |
| order manager `execution/order_manager.py`, `interface/routes/orders.py` | orders, client id map, fills | place, batch, confirm, fill, cancel, cancel by id, cancel all | idempotency, breaker, endpoints |
| idempotency `core/idempotency.py` | records with a time to live, capped | check_and_set, delete | order manager, venue executors |
| venue breaker `core/circuit_breaker.py` | state, counters, time of the last failure, scheduled tasks | call, record_success, record_failure, reset | order manager, venue executors |
| venue executors `execution/{binance,bybit,okx}_executor.py` | algorithmic orders, breaker, keys, position caches, stream tasks | place_order with retries, snapshots, TWAP, VWAP, cancel, order book stream, positions | `core/retry.py`, exchange |
| smart order router `execution/smart_order_router.py` | scores of the venues and when they were taken | route an order, execute a decision | venue executors |
| feeds `data_ingestion/cex_websocket.py`, `validators.py`, `normalizer.py` | last price, window of trade ids, back-off | connect, read, normalise, validate, publish, reconnect | bus |
| data manager `analysis/data_manager.py`, `data_ingestion/tick_processor.py` | the bar under way and the finished ones of every stream and timeframe | handle tick, handle candle | bus |
| signal generator `engine/signal_generator.py` | the factors' last values, candles, time of the last signal, active signals, the auto-trading switch | handle candle, sentiment, funding, news, order book; toggle | bus |
| signal validator `engine/signal_validator.py` | grades, paper trades, history of profits | validate, start, update, close | its callers |
| funding, open interest, macro `data_ingestion/{funding_feed,oi_feed,macro_aggregator}.py` and the calendars | caches of rates and interest, last signals, regime | poll rounds, arbitrage, classify, scale a size | venues, calendars |
| news, order book, DEX and volatility feeds `data_ingestion/` | ids of seen articles, windows of prices | poll, publish | bus |
| telegram `interface/telegram_bot.py` | a bounded queue of messages | queue an alert, drain, stop | bus, Telegram |
| websocket manager `interface/websocket_manager.py` | clients, their channels both ways | connect, subscribe, broadcast, drop | browsers |
| health checker `monitoring/health_checks.py` | components, last results | check all with timeouts, report | components |
| dispatcher and main `core/dispatcher.py`, `main.py` | tasks, stores, executors | start, watch, stop, shut down | everything |
| order matcher `rust/order-matcher` | sharded books | add, match, cancel | Python bindings |
| bridge API `services/bridge-api/src/index.ts` | two settings in memory, rows of orders, settings and connections in ClickHouse | trade, close all, toggle, configuration, test | gateway, ClickHouse, the Python process, whose switch the dashboard sets too |
| gateway `rust/gateway` | pending orders | submit (cancel, status: section 7) | called by the bridge API |

**How they interact.** Feeds publish ticks. The bus's consumer takes one event
at a time and awaits each of its handlers, so at most one event is being
handled, but a handler that awaits the network lets every other task run: other
feeds, the HTTP endpoints, timers. The handlers publish on the queue they are fed
from: candles, signals, order results. The endpoints call the risk manager
directly, between any two awaits of the consumer. The Rust engines The Rust engines are called by
several threads under locks or on atomics.

**What is hard.** (The full list, at its lines, is `hazards` in `PROJECT.json`.)

- State read before an await and used after it: approval and booking of a live
  entry, an algorithm's cancellation, the admission to a breaker and the
  recording of the result, the list a sweep cancels, a roster a broadcast sends to.
- Events that name a key and not the thing they were raised for: a queued stop
  finds another position under its key.
- Retries of what was done already: cancel and replace, a whole placement
  repeated by a decorator, a client that repeats a request, an exchange that
  repeats its last trades after a reconnection.
- Bounded queues and tables: a full bus whose only consumer publishes, a cap on
  idempotency records, on open positions, on active signals, on a notifier's queue.
- Data of several ages put together: scores fetched one venue after the other,
  funding rates of rounds in which venues failed, six factors of a signal, caches
  written by requests that overlap, health results of checks that overlap.
- Several stores of one fact: a setting is in memory, in a table, in the registry
  and in the Python engine, written one await after the other, with restarts between.
- Things that must happen in the end: a queued kill behind a slow order, recovery
  of a breaker, the end of an algorithmic order, an article behind an unreadable
  one, the end of a shutdown that comes in the middle of a start.

**What makes each part correct.**

| part | properties |
|---|---|
| risk book | nothing is open while killed; never more than the limit; a breach of the loss limit keeps entries out for the whole pause |
| limits | the losses the breaker counts never understate the account, whatever limits, leverage and mode are set meanwhile |
| stops | locked profit is not given back; a stop that is crossed is announced |
| trading loop | an exit closes what it was raised for; an order under way still fits the book; what is booked was bought; a kill arrives while the consumer can go on |
| order manager | no self-trade within the window; one order for each record of a client id; a sweep passes over no open order |
| breaker | it closes only on a test's own successes; it recovers |
| venue executors, algorithms | one venue order per key; a cancelled algorithm stops after one slice; what is counted filled was bought; algorithms and stopped streams end |
| smart order router | no decision from a score older than the interval |
| feeds and candles | a trade makes one tick; candles are exactly their trades; each series is a channel to the generator: nothing lost, repeated or out of order |
| signals and their grades | three factors agree on a signal; profits of paper trades add up |
| polls and regimes | announced spreads existed; the level of risk bounds the size |
| dashboard, websocket, health | answers are recent and the asker's own; a broadcast misses only those who left; reports are recent |
| dispatcher and main | one failure stops all under run_forever; shutdown ends and leaves nothing open that is still known |
| news, notifier | a readable article comes out; an alert taken is tried |
| order matcher | quantities add up; price-time priority |
| bridge API | a close-all on its own flattens; an answered save survives; what is in force is what the engine and the registry were told last, unless somebody else told the engine |

## 2. The modules

```
RiskManager ──EXTENDS── Trading            the book, and the loop that works on it
RiskManager ──EXTENDS── PositionStops      the same book with its stops
RiskSettings                               the book's limits while operators change them
Idempotency ──EXTENDS── OrderManager ──EXTENDS── OrdersApi
Idempotency ──EXTENDS── VenueExecutor ──EXTENDS── AlgoOrders
                        VenueExecutor ──EXTENDS── VenueAccount
CircuitBreaker ──INSTANCE── VenueExecutor
Dispatcher ──EXTENDS── Lifecycle           the components' tasks, and the program around them
SmartOrderRouter                           over what VenueExecutor answers
TickFeed, MarketData, SignalFactors        feed to tick, tick to candle, candle to signal
BarChannel ──INSTANCE── MarketData         what the bus promises the listener of a series
PaperTrades, VenuePolls, MacroRegime, Dashboard
WebsocketManager, HealthChecks, NewsFeed, BusFeeds
OrderMatcher
BridgeApi                                  bridge API, gateway, engine's switch
```

`MC*` modules give constants that a cfg cannot write. `*_proof` modules extend a
module with its theorems and their proofs. Every definition that models code has its
lines in `map` of `PROJECT.json`. A comment that begins with "Mutant of X" marks
an operator which is X with a plausible bug. The specifications do not use it; it
is there to show that a property notices.

Four MC modules hold several *scenes*: components that share no state, of which
a behaviour picks one in its first state (`scene`) and leaves the others where they start.
The state space is the sum of the scenes', not their product, and a property of
one scene is checked in all its behaviours. `MCServices` has the scenes `push`,
`health`, `forever`, `main`, `news` and `bus`; `MCMarketData` has `feed`,
`candles`, `factors`, `polls`, `macro`, `reads`, `guard` and `paper`;
`MCAlgoOrders` has `algos`, `stream` and `account`; `MCRiskManager` has `book`
and `settings`. Components that do share
state are composed for real: the executors with the book and the bus in
`Trading`, the placement with its breaker and its keys in `AlgoOrders`, bybit's
stream with a client of the same breaker, main with the dispatcher in `Lifecycle`.

**RiskManager** is the book of `risk_manager.py`. Each method runs to its end on
one event loop, so each is one action: `Enter` is `approve_signal` followed by
`open_position` with no await between, `Close`, `CloseVenues`,
`ActivateKillSwitch` and `CloseAllByKilling` go through `CloseInOrder` (positions
are closed one by one in the order of the dict, and each moves the account),
`ReadBreaker` is any read of `tripped`, which un-trips a breaker whose pause is
over. `positions` is a function on the open keys only, like the dict it models.
Times are ages that saturate at the limit they are compared with, so the clock
needs no bound.
The parts of `approve_signal` that depend only on the signal (score, session,
spread, VaR) appear as a signal that may be rejected.

**PositionStops** takes every step of the book with what it does to the stops: they are set
when a position opens, moved by each tick (`Managed`: break-even,
trailing, the time a position may be held), compared with the price, and moved by
the operator's break-even. Stops are counted in hundredths of the price unit, where the
average true range the code assumes is a whole number, so nothing is rounded.
`announced` and `byHand` are history.

**RiskSettings** is the other half of the risk manager: sizing, the exposure limit and
the breaker's sums, which `RiskManager` abstracts, with the routes that rewrite the limits they
read. Operators set a limit in dollars, it is kept as a part of the equity of that moment
(`SetRiskLimits`, `SetAlgoConfig`), and a live order is booked with the size it was
granted before (`TakeSignal`, `OrderEnds`). `LossIsNotUnderstated` relates what the account
lost to what the breaker counted: a loss is counted in percent of its position, so the two agree
only as far as no position outgrows the exposure limit, leverage included. The kill switch and the
cooldown are not in it.

**Trading** adds the bus (the events the program raises itself), the executors
and the operator's endpoints. `consumer` says where the single consumer is inside the handler
it awaits: `submit`, `poll`, `cancel`, `market` (the awaits of `_live_execute` and
`_wait_for_fill`) or `kill` (the loop over executors). `bought` and
`stray` are the exchange: what it bought on a key since the last signal, and what
rests in orders nobody watches any more. An exit event carries the id of the
position it was raised for and its age; both are history, the payload has neither.
Every handler that did something ends by publishing it (`Report`, `KillReports`:
ORDER_FILLED, ORDER_FAILED, POSITION_CLOSED, of which only the number matters) on the queue that
nobody but its own caller empties; without room the consumer is `Stuck` for good, while the endpoints,
which publish too and wait, go on.

**Idempotency**, **OrderManager**, **OrdersApi**. A store of keys is the age of each record; an
expired one and none are the same. `Stored` gives the possible stores after
`check_and_set`, the eviction past the cap included. The order manager's lock is held through
each operation, so `Place`, `PlaceRefused`, `Confirm`, `Fill` and `Cancel` are one
action each. Reports find their order through `byClient`, as the code does.
`OrdersApi` adds what takes the lock many times: a batch and the cancellation of
all open orders, whose list is read once and walked with everything else going on in between.

**CircuitBreaker** is used by tasks that are admitted (`Call`), wait for the
venue, and record what came of it in whatever state the breaker is in by then.
`closing` counts the `_transition_to_closed` tasks that `record_success` schedules
and the loop has not run yet.

**VenueExecutor** is `place_order` of the Binance, Bybit and OKX executors (the
same code three times) with the retry decorator: look at the breaker, look at the
key, record it, send, record the result, back off, try again. **AlgoOrders** is
`execute_twap`, `execute_vwap` and `cancel_algo_order` over it, with the awaits between looking,
pricing, placing and counting a slice. **VenueAccount** is the rest of bybit and
okx: the stream's loops and the task variable that forgets one of them, positions
read at the venue or told from a cache, cancellations and leverage as commands.

**SmartOrderRouter** holds its lock while it refreshes the table of scores, a
snapshot per venue; a caller then places its routes without the lock. `fetchAge`
is how old each score is, `tableAge` how old the code takes the table to be.

**TickFeed**, **MarketData**, **SignalFactors** follow a trade to a signal.
`TickFeed` is one connection: the exchange's tape, messages of one of three
formats (by exchange: its own ids, the time as id, no id), the validator, the window of ids, reconnection with its
back-off. In `MarketData`, `consumer` carries the timeframes
still to be updated with the trade being handled: a wait in between is possible
only where the bus is full, and `LoopFree` says that other tasks move only when
the handler waits. `Stuck` is the consumer waiting for room in its own queue.
**BarChannel** is the abstract specification of what that is for: a channel for each stream
and timeframe, into which a completed bar is sent and out of which it is delivered, all of which
break down together. `MarketData` maps to it what is stored under the
timeframe's name, what waits on the bus, and what its listener stored under the candle's label; the bus, the ticks, the other
series, the signals and the answers of executors, which share one queue and one consumer, are not in it.
`SignalFactors` is what a candle that gets through is scored with: four values
events have set, two of the candle itself, weights, gates, stop and target.

**PaperTrades** grades signals from the trades of earlier ones. **VenuePolls** has
rounds in which venues answer in any order, partly or not, a cache and the
arbitrage read from it. **MacroRegime** turns the calendars' events, with
the figures releases may have by then, and what others publish into signals, and the last of them into a regime and a factor. **Dashboard** is the reads that
await an outside source and write a cache, the snapshot that asks for several,
and the guard's window of request times.

**WebsocketManager**, **HealthChecks**, **NewsFeed**, **BusFeeds** are the tasks
around the book, each with an action for what happens between two of its awaits.
`NewsFeed` has two sources with ids of their own, the second asked when the first gives nothing.
**Dispatcher** is `start`, `run_forever` and `stop` over component tasks that may
fail; **Lifecycle** is `main`: executors that load their markets, the handler that
is at an exchange when the stop signal comes, tasks that are cancelled, stores that are closed.
A store or client is `forgotten` when the code drops its reference to one that is open (a migration, a
ping or a load of markets that fails), and a stop is `cut off`, or `raised` in main, when a
cancellation or a store that does not close ends it.

**OrderMatcher** is `add_order` and `cancel_order` of the Rust matcher. A shard's
write lock makes a match atomic for the others; here every fill is a step of its own, with the
shard's `taker` set, so that the order of fills can be stated. Fills are guarded
by the code's tests (`Crosses`, `OwnLevel`, `OwnMaker`), the lock by `Free`.

**BridgeApi** makes every request that changes state a task, whose `pc` says which
await it is at: a close-all `reads` the positions, `submits` and `records` the
orders in `left` one after the other; a save `persists` its row, then tells the
`engine` or `checks` the connections. Any await may raise, and `Restart` loses all
tasks and loads the newest rows. The stamps are `Date.now()`, so two saves of one
millisecond have rows that the table cannot order. `acked` is the newest answered
save of each setting and `disturbed` the parts of the state that overlapping or failed
requests left undefined; a request that sets its part, and has it to itself, clears
it. Both are history, no guard reads them. The engine's switch has other writers, the dashboard's
toggle and its `POST /api/config`, which tell the bridge nothing (`EngineSetElsewhere`).

## 3. What the runs show

| run | instance | distinct states | shows |
|---|---|---|---|
| `risk_book` | 1 venue × 3 symbols, both sides, prices 98 to 103 around an entry of 100, limit 2, cooldown 1, pause 2, 3 entries, held 1 at most; 2 slots, equity 1000, limits set to 50 or 150 and 2 positions, leverage 1 or 2, 2 signals | 474,538 | kill switch, limits, pause and managed stops in every order of operations; losses are not understated while the settings change |
| `paper_trading` | 2 venues × 2 symbols, long, prices 80/100, limit 1, cooldown 2, 2 entries, queue of 2, 1 kill | 164,599 | a queued exit closes its own position, or one a whole cooldown younger, where entries are immediate |
| `live_trading` | the same with one price, two lots, two polls | 138,933 | orders fit, bookings are bought, exits are fresh; a queued kill reaches the executors unless the consumer gets stuck |
| `order_manager` | 2 clients, 1 instrument, window 1 of a record life of 2, cap of 1 record, 3 orders, batches of two and sweeps | 1,466,842 | no self-trade in the window, one order per record, with evictions; a sweep passes over no order that stays open |
| `circuit_breaker` | 3 callers, 3 failures, timeout 2, 2 probes | 2,496 | closing only on own probes, recovery |
| `algo_orders` | a TWAP or VWAP of 2 rounds and a second client that asks once, on the same 2 keys, 2 attempts, breaker threshold 2; 2 loops of a stream; 2 symbols, 3 trips | 172,004 | one venue order per key; cancellation; what is filled was bought; algorithms and streams end |
| `order_router` | 2 venues, 2 callers, 2 quotes, interval 2, 2 orders each | 177,857 | no decision from an old score, however slowly the venues answer |
| `market_data` | a feed of 4 trades, messages of 2, window of 3 ids; 2 streams with three trades and one or two and two, timeframes of 1 and 2, queue of 3; factors; 2 venues × 2 symbols polled; 31 days of the calendars; 2 requests on each cache; 2 signals, 3 paper trades | 578,133 | ticks once, candles exact and delivered as `BarChannel` says, three factors agree, spreads real, risk bounds size, answers recent, profits add up |
| `services` | 3 websocket clients, 1 channel, 1 sender; 2 health components, loop and reader; 2 components under `run_forever`; 2 executors under main; 4 articles, 2 updates, pages of 2; bus of 1, notifier's queue of 1 | 162,019 | broadcasts, reports, failure, shutdown, news and alerts |
| `order_matcher` | 1 shard, 2 prices, 2 users and anonymous orders, depth 2, 4 orders of every type | 1,329,187 | quantities, priority |
| `bridge_api` | 3 requests of any kind, 2 symbols, long and short lots, clock to 3 | 949,676 | close-alls flatten, answered saves survive, engine and registry follow |

One more run *expects a violation*: `entry_after_kill` shows that the kill switch
does not keep out an entry that is awaited at the exchange (section 6). Behaviours
of the other findings are in the models too: a property that would forbid one is false
by what the code does, so it is described in section 6 and not run.

**Bounds, and why they are enough.** Every bound is a constant with the word
"bound" in its comment. Two venues and two symbols are the least at which the cooldown (by
symbol) and the key (by venue and symbol) differ; the stops are a matter of one position, so that run
has one venue and three symbols, which is what two positions and a refused third
need. Three entries make a position, its successor under the same key, and a
third elsewhere. The prices around 100 are one below the stop, one at the entry,
one past the activation of the trailing stop and one past the break-even trigger. In `Trading` a queue of two is full with
one event of each kind; the queue of one of `services` is full at once, and
its feeds, handlers and notifier wait or stop in every order. Two lots make partial fills. A
cap of one record makes every second key an eviction. Three callers let one be
admitted in each of the breaker's states and answer in another. Two timeframes
make a trade that completes one bar and not the other, or both, of which the longer is then published
behind the shorter; a queue of three holds both with a trade of the other stream, and the candles of
both timeframes wait there together; three trades of a stream complete two bars of the shorter timeframe
and one of the longer, two of each stream make the streams' bars wait for each other. A window of three ids under messages of two and
repeats of two drops an id while the trade it stands for is still young enough to be sent again or just past it. Four
orders are the least for two makers in a
level, a taker that hits both, and one that comes after. Two requests of one cache
overlap; so do the loop and one reader of the health checks, one sender and three clients
that leave and come. Two venues of two symbols make rounds in which one of them is
missing and the cache still has it. Three requests of the bridge make two that
overlap and one that finds what they left; a clock of three stamps two saves, equal or
not, and a restart after them. Symmetry is used only where no property or fairness
condition distinguishes the permuted values, and never in a run with a liveness property.

`CHECK_DEADLOCK FALSE` stands in `AlgoOrders.cfg`, `BridgeApi.cfg`,
`MarketData.cfg`, `Services.cfg` and `SmartOrderRouter.cfg`: requests, messages,
trades and clocks are bounded, and the model stops when all are answered or the scene has come to
its end. A program that has shut down, and a feed whose consumer is stuck, stop
as well, as in the code.

**Fairness.** `Trading`: weak fairness of the consumer's steps (an asyncio task
that can run is run, and ccxt calls return or raise: they have timeouts) and of a
publish that waits for room. Nothing is assumed of feeds, operators or fills.
`CircuitBreaker`: weak fairness of the scheduled close, of time, of callers calling
and of failures being recorded; strong fairness of a success being recorded, because a
call may be abandoned any number of times but not each time. `AlgoOrders`: weak fairness of
each task's next step (calls time out, sleeps end), of the algorithms and of the
stream's loops. `services`: weak fairness of what the event loop does when it can:
the dispatcher's and main's own next steps, the notifier's steps, the news
feed's waking, publishing and ending of a poll; strong fairness of a page being read, because a source may fail
any number of times but not always. The failing component, the stop signal, the
answers of exchanges, and the events on the bus are never assumed. The liveness properties
would be false without these and none of them assumes what it concludes: the
retry bound, the poll bound, the slice counter, the cancellation of tasks and the
handling of a failed send are what makes them true, and the mutants remove those.

## 4. What is proved

All proofs are checked by TLAPS with SMT, Zenon and PTL only, for *every* value of the
constants that satisfies the named assumptions (finite venues and symbols, prices
positive, limits positive). Every safety property a passing run checks is also a theorem.

| theorem | says | argument |
|---|---|---|
| `RiskManager_proof!BookTypeCorrect` | the book keeps its shape | inductive as it stands |
| `…!KilledIsFlat` | `killed => Open = {}` under `RiskSpec` | inductive with the type: only `Enter` adds a key and it tests the switch |
| `…!MaxOpenIsRespected` | the limit on positions | `OnlySignalsOpen`: every other action keeps or shrinks `Open`; finiteness of the keys gives the cardinalities |
| `…!AccountTypeCorrect` | the account keeps its shape | `Numbered`: ids tell positions apart, so a batch that is closed in the order of its ids is a sequence of positions (`NthIsOpen`), and each close keeps the account |
| `…!PausesLast` | `NoEntryDuringPause` | `Paused`: while the pause since the last breach has not passed, the breaker is tripped and what is left of its pause covers the rest |
| `Trading_proof!TradingTypeCorrect` | the loop keeps its shape in both modes | one lemma for the queue, the consumer, the venue, the book |
| `…!OrdersFit`, `EntriesFit` | live mode: the limit holds and an order under way still fits | `LimitInv`: the limit *and* that the awaited order's key is free and leaves room; neither is inductive alone, since booking needs the second and the second needs that nobody else opens while the consumer is busy |
| `…!ExitsStayFresh` | a queued exit closes its own position, or one a cooldown younger | `ExitsAttached`: every exit is attached to the open position of its id, or its key's symbol has traded since and no longer ago than the exit's age (`Attached`), which is what the cooldown test compares against |
| `…!BooksAreBacked` | `BookedOnlyIfBought` | `Backed`: while an order is watched, what it bought and what it has resting make up the whole order |
| `…!ProfitStaysLocked` | `ProfitIsLocked` | `Locked`: once past the activation the stop holds its distance to the best price, and a break-even that comes before the trailing stop has been made, or it would move the stop back |
| `…!CrossingsAreAnnounced` | `CrossedStopIsAnnounced` | `Told`, with the same invariant; the stop of a new position is off its entry |
| `…!LossesAreCounted` | `LossIsNotUnderstated` | `SizesFit`: no size was granted above the exposure limit's part of the highest equity, so a loss in percent of a position weighs at least what it takes from the account |
| `OrderManager_proof!TablesTyped` | tables keep their shape, records within the cap | lemmas on `Stored` and `Elapsed` |
| `…!SelfTradePrevented` | `NoOpposingOrders`, assuming no late reports | an order only becomes active by being placed (`NobodyRevives`), and placement looked at all younger ones |
| `…!KeysLetOneThrough` | one order per record of a client id | `KeyInv`: a live record under which an order was placed has that order in the map |
| `…!SweepLeavesNone` | `SweepMissesNone`, assuming no late reports | an order that is not in what is left of the sweep's list was found, cancelled or no longer its client's, and nothing revives it |
| `…!RouterScoresAreFresh` | `ScoresAreFresh` | `ScoresInv`: the table's age is no less than any score's in it, and a refresh dates the table from its own beginning |
| `VenueExecutor_proof!AlgosTyped` | the executors and algorithms keep their shape | with `AttemptsLeft`, `RoundsLeft`: whoever waits to try again has an attempt left |
| `…!KeyPlacesOnce` | `KeyedOnce` | `KeyInv`: a call on its way with a key has the key's record, alone, and the venue has nothing under it yet |
| `…!FillsWereBought` | `FilledWasBought` | a slice that was taken or answered as placed is bought before it is counted |
| `…!CancelLeavesOneSlice` | `OneSliceAfterCancel` | an algorithm that began a slice after its cancellation does not look at a price again |
| `MarketData_proof!MarketTyped` | bus, consumer and series keep their shape | `MarketShape`: with `Handling`, the trade under way is the last of its stream |
| `…!BarsArrive` | `BarsReachTheGenerator`: until the consumer is stuck, a series under its name is the one under its label with what waits on the bus behind it | inductive with the shape; what is at work is `WaitingBars` of a queue with an event more or less |
| `…!BarsAreDelivered` | `DeliversBars`: `Spec` implements `BarChannel` | a bar that is completed is a `Send` of its channel alone (`LabelsApart` gives a candle its channel), with or without the breakdown; a candle that is taken off is a `Deliver`, which leaves room for the signal it may make; every other step moves no bar, and is a stutter or, when it leaves the consumer stuck, `Breaks` |
| `…!CandlesExact` | `CandlesAreTheirTrades`, trades in order | `FeedsInOrder`: handled, queued and pending trades are in order; `CandleInv`: the bar under way is the candle of the trades of the last one's bucket, up to the one that has come to this timeframe, and stored bars are of older buckets, so no trade to come is theirs |
| `…!SeriesRise` | `CandlesInOrder`, trades in order | `RiseInv`: stored bars rise to the bar under way, and a label's series is the beginning of its timeframe's, by delivery |
| `Sources_proof!TicksOnce` | `NoTickTwice` | `FeedInv`: the window holds the ids of the newest ticks in order (`IdsFollow`), and no tick is of a trade further back than the exchange repeats (`TicksNear`); so a trade that could be sent again has its id there |
| `…!SignalsAgree` | `ThreeAgree` | the scores' ranges, and arithmetic: fewer than three factors of a side do not reach the threshold with these weights |
| `…!AnnouncedSpreadsAreReal` | `SpreadsAreReal` | `RoundInv`: what a round has so far is in the cache, and only that |
| `…!RiskReachesSize` | `RiskShrinksSize` | the regime is the classification of some signals, of any importance and bias: a level above 30 percent of important ones comes with `VOLATILE`, and below it the largest factor, 1.2 of `BULL`, comes with a confidence of nine tenths at most |
| `…!ReadsAreRecent` | `AnswersAreRecent` | `NoYoungerThanStamped`: an entry is no older than the time the code takes it to be of |
| `…!PaperBooksAgree` | `ProfitsAddUp` | inductive with the types |
| `…!StateFollows` | the breaker is closed exactly below the threshold | `BreakerInv` adds that a scheduled close while half open was earned |
| `…!ClosesOnlyOnProbes` | it closes only with its own successes | `Earned` of the same invariant |
| `Services_proof!PushReachesThePresent` | `MissesOnlyTheGone` | the two tables agree, and who was there when a sender began and still is has been sent to or will be (`Accounted`) |
| `…!HealthReportsAreRecent` | `ReportsAreRecent` | `CallsSound`: a call's results are no older than the call |
| `…!LevelsAreFifo` | a level has each order once, in the order of arrival | `MatcherInv`: the type, `Placed` (an order in a level waits there, and came before the taker) and `Matching` |
| `…!QuantitiesAddUp` | `NothingLost` | with `MatcherInv`: every fill is taken from a maker and the taker alike |
| `…!BestIsHitFirst` | `PriceTimePriority` | `Priority`: whom a match has hit is before whom it may still hit |
| `…!NobodyTradesAlone` | `NoSelfTrade` | `NoneOwn` of the same steps |
| `BridgeApi_proof!TypeCorrect` | the server's state keeps its shape | one lemma for orders, settings, time |
| `…!AnsweredSavesSurvive` | `SettingsSurvive`, for any requests and restarts | `SaveInv`: beside the memory, a row at least as new as the newest answered save, and one for every save about to be answered; without the rows a restart would not preserve it |
| `…!CloseAllsFlatten` | `CloseAllFlattens`, for any symbols and lots | `FlattenInv`: undisturbed, an order task is alone and what a close-all has left is a `Plan`, one opposite order for each position still there; `SetToSeqs` gives a plan (an injection between sets of one size is onto) and recording its head leaves one |
| `…!SettingsReachTheirEnds` | `SettingsTakeEffect` | `EffectInv`: a setting nobody disturbs, the dashboard included, is `Orderly`: one request at most works on it, on the value in memory, its row will be the newest, and what lies behind it was told |

**What they assume beyond the modules' named assumptions**, each written as a
hypothesis of the theorem:

- `StopsApart` for the stops: the trailing stop activates above zero, and prices are high enough that the
  initial stop is off the entry. The code activates at 2.0 ATRs and stops 1.5 percent away
  (`src/config/settings.yaml:163`, `:142`; defaults in `src/execution/risk_manager.py:138`, `:306`).
- `~LateReports` for self-trades and sweeps; with late reports both are false (section 6).
- As many records as keys for `KeyedOnce`: an eviction forgets a key that still lives.
- `WindowCovers` for the ticks: the window is at least twice as deep as what an exchange repeats, less
  one. It is 10,000 ids (`src/data_ingestion/cex_websocket.py:49`).
- `TradesInOrder` (`MaxLate = 0`) for candles and their order: a late trade reopens an older
  bar. `LabelsApart` for candles, series and delivery: no label is a timeframe's name or another's label. Labels are
  `60s`, names are `1m`.

A module of proofs that holds several components has the assumptions of all of them
in scope; each theorem uses its own component's.

**What is not proved.** Liveness (`Recovers`, `KillReachesExecutors`, `AlgosEnd`,
`StoppedStreamsEnd`, `FailureStopsAll`, `ShutdownEnds`, `NewsComesOut`,
`AlertsLeave`) is beyond the prover and stays with TLC. Induction over data is not available as a rule; where
a property walks a queue (`WaitingBars`) or a batch, the proofs use that a set of numbers has a
least one: the first place where the claim would fail has a place before it where it holds.
`PositionStops` carries the book's type with it; that each of its steps is one of `RiskSpec` is by
its definition, and the book's own theorems are stated of `RiskSpec` only.

## 5. Abstractions a reader should know of

- Prices, quantities and ids are small numbers; percentages are whole points
  rounded down. Position sizing is one notional for every signal, but in `RiskSettings`,
  where amounts are whole dollars.
- In `Trading` a stop event may be raised by any tick of an open position: which prices do is
  the subject of `PositionStops`. The guarantees of `Trading` hold for any stop rule.
- The exchange (ccxt) is external: it may fill resting orders at any time, answer,
  raise after having taken the order, fail to cancel. So are the venues of the
  polls, the news pages, Telegram and the websocket clients: each answers or fails at each await.
- In `Trading` the events that report what a handler did are all one `Notice`: their handlers (metrics,
  Telegram) leave this state alone; that Telegram's may block is in `BusFeeds`.
- `AnswersAreRecent` is about answers out of a cache that is taken for fresh. When every source fails
  the market's old list is given back whatever its age (`src/interface/dashboard_api.py:615-617`).
- The answer of the matcher's `cancel_order` is not in the model (section 6), nor the executors' paper
  branch, which answers filled and sends nothing.
- `NothingLost` counts fills; that the rest of an order finds no place at a full level
  (`src/rust/order-matcher/src/lib.rs:361-364`) is in the model, and outside that property.
- A behaviour of the bridge is shorter than the 30 and 180 days after which its tables drop rows.
- One message at a time is pushed to websocket clients in `services`; the theorem is for any number of senders.
- `order_manager` runs with `LateReports = FALSE`: reports come for active orders
  and add up to no more than the order. With late ones the self-trade property fails (section 6).
- `market_data` runs its candles with trades in order (`MaxLate = 0`). A late trade closes the
  bar under way and reopens an older one, by the code's design.
- The technical score of a candle is any of its signs, the ML score any answer,
  a venue's routing score any of a small set: the formulas are not modelled, what is done with their results is.
- The factors of a signal are scored as the program scores them now: scores are in
  hundredths, and four of the six can be zero because nothing was heard.
- `NothingLost` excludes behaviours with fill-or-kill orders (section 6).
- In `algo_orders` there are as many records as keys, so no key is evicted; the
  cap is the order manager's run.
- `MacroRegime` counts days, and its factors are percentages; nothing outside the
  module imports it yet, so its clients are any callers.

## 6. Where code and documentation disagree

Quoted with lines in `findings`. The first has a TLC counterexample; the others
were met while translating the code.

1. *Live trading.* The kill switch does not stop a live entry that is being awaited
   (`entry_after_kill`): `_live_execute` does not look again before `open_position`.
   Cancel and replace may buy twice, and an accepted partial fill
   is not booked. The daily loss is never reset by the program; exposure per symbol looks at
   the proposed order only; break-even by the operator loosens stops that trailed past the entry.
   A limit set in dollars with a leverage is read and traded leverage times as large; the
   routes' trading mode and venue switches are obeyed by nothing that trades.
   An executor whose markets fail to load forgets a client that it does not close.
2. *Bus.* A full bus stops its only consumer, whose handlers publish on it; so
   does the notifier's full queue in front of a slow Telegram.
3. *Data.* With the shipped configuration no candle is scored: labels are `900s`, the
   configured name is `15m`. The Rust path of the aggregator raises. Binance's trades are known
   by their millisecond; a reconnection resets no sequence. Seen articles are forgotten at random.
4. *Signals.* Order book imbalance and macro score are shared by all symbols, the
   macro score is never negative, the gate counts factors of either sign, stale news never fades.
   The least quality is compared by its name; the side of a paper trade is that of the first signal under its id.
5. *Orders.* A refused placement keeps its idempotency record; a late confirmation revives a
   cancelled order. The cancel route finds an order by id and cancels by client
   id. A batch that fails names none of the orders it placed.
6. *Venues.* A retried placement is answered as a duplicate of an order that does not exist,
   and the venue executors' breakers never half-open. A cancelled TWAP ends as completed; a VWAP
   counts only what answers say. `create_executor` constructs Bybit's and OKX's executors
   with the wrong arguments; Bybit's cache forgets no position; a second start
   of its stream loses the first task; OKX's arbitrage has its direction reversed.
7. *Matcher.* Orders without a user never trade in limit books, a killed FOK
   order keeps its makers' fills, `cancel_order` answers by the level and not the
   order, a shard has one book for all its symbols.
8. *Bridge.* Two close-alls that overlap read the same positions and together reverse them.
   Two toggles that overlap may leave the engine with one value and the interface
   with the other; so may the dashboard, whose own toggle and `POST /api/config` the bridge never hears of. The gateway stores a repeated order again, whatever idempotency key it carries.
9. *Program.* A database whose migration fails is forgotten open, and what raises or cancels the
   dispatcher's stop leaves open what comes after it. main never calls `run_forever`, so a component that fails is noticed by nobody;
   its shutdown stops neither the DEX feed nor the volatility proxy, and closes
   the executors before the bus that feeds them.
10. *Numbers.* The floor of the regime's size is absolute; open interest adds contracts of different assets.

## 7. Not modelled, and the plan

Left out, with the reason for each in `components`:

- *Scoring, indicators, regimes by data, training, backtesting, the notebooks*: floating point over data
  frames, single-threaded. A model could only restate the formula; what is done
  with the results is in `SignalFactors` and `PaperTrades`.
- *Risk engine, tick parser and bindings in Rust*: the process either does not
  call them or falls back to Python, which is modelled.
- *Rate limiter*: nothing in the repository uses it.
- *DEX client and DEX layer*: the state that matters is the chain's.
- *Gateway*: cancelling, status answers and its bounded message channel; nothing
  in the bridge depends on them.
- *Storage*: each method is one logged call and nothing is read back into the
  book; connecting and closing are part of `Dispatcher`.
- *User interface*: presentation; its calls are the endpoints'.
- Of modelled parts: VaR gate, data frames and the cap of 1000 candles, decay detection, `close` of the venue executors.

What is left, in this order:

1. **PositionStops** implements `RiskSpec`, as a theorem, which carries `KilledIsFlat` and `PausesLast` over to it.
2. Type invariants of **OrdersApi**, **PositionStops** and **VenueAccount** as theorems of their own.
3. Safety that the liveness runs rest on: a stopped **Dispatcher** has no task of its own left,
   **Lifecycle** closes what it opened once, **BusFeeds** tries an alert once.
4. A weaker statement of the candles for late trades: what a trade that comes late may and may not disturb.
