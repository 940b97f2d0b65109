----------------------------- MODULE MarketData -----------------------------
(***************************************************************************)
(* From a trade to a signal: the feeds (data_ingestion/) publish ticks on  *)
(* the event bus (core/event_bus.py), the data manager                     *)
(* (analysis/data_manager.py) makes candles of them, and the signal        *)
(* generator (engine/signal_generator.py) makes signals of candles.        *)
(*                                                                         *)
(* One consumer takes events off the bus and awaits their handlers, and    *)
(* the handlers publish on the same bus.  While a handler does not wait    *)
(* nothing else on the loop moves: LoopFree says when the others may.      *)
(***************************************************************************)
EXTENDS Integers, FiniteSets, SequencesExt

CONSTANTS
  Streams,       \* (exchange, symbol) pairs, a feed each
  Timeframes,    \* the configured timeframes, in order
  Seconds,       \* seconds of each
  Label,         \* the timeframe a CandleAggregator writes on a candle of each
  Primary,       \* signals.primary_timeframe
  Lookback,      \* candles _handle_candle wants before it scores
  Prices,
  MaxLate,       \* how old a trade may be when it arrives
  QueueCap,      \* capacity of the bus
  MinInterval,   \* _min_signal_interval
  ActiveFor,     \* how long a signal counts against max_positions
  MaxPositions,  \* max_positions of the bot's configuration
  TickCounts,    \* bound: how many trades the streams may have, each in a function
  MaxTime        \* bound: the clock

ASSUME StreamsAssumption == IsFiniteSet(Streams)
ASSUME TimeframesAssumption ==
  /\ Timeframes \in Seq(Range(Timeframes)) /\ Timeframes # <<>> /\ IsInjective(Timeframes)
  /\ \A i \in DOMAIN Timeframes : Seconds[Timeframes[i]] \in Nat \ {0}
ASSUME GatesAssumption ==
  /\ Lookback \in Nat \ {0} /\ MaxPositions \in Nat \ {0}
  /\ ActiveFor \in Nat /\ MinInterval \in 0..ActiveFor
ASSUME BoundsAssumption ==
  /\ QueueCap \in Nat \ {0} /\ {MaxLate, MaxTime} \subseteq Nat /\ Prices \subseteq Nat
  /\ TickCounts \subseteq [Streams -> Nat]

VARIABLES
  now,          \* the clock, in seconds
  queue,        \* EventBus._queue
  pending,      \* the trade each feed waits to publish, NoTick for none
  consumer,     \* the handler the consumer is in
  current,      \* CandleAggregator._current, NoCandle before the first trade
  history,      \* DataManager._candle_history
  sinceSignal,  \* age of _last_signal_time
  autoTrading,  \* _auto_trading_enabled
  handled       \* history: the trades whose handler has begun

candles == <<current, history>>
signals == <<sinceSignal, autoTrading>>
vars == <<now, queue, pending, consumer, candles, signals, handled>>

Names == Range(Timeframes)
Labels == {Label[tf] : tf \in Names}
Series == Names \cup Labels

Tick == [at : 0..MaxTime, price : Prices]
NoTick == [at |-> -1]
NoCandle == [bucket |-> -1]

HasRoom == Len(queue) < QueueCap

Idle == [pc |-> "idle"]
Busy(s, tick, left) == [pc |-> "tick", stream |-> s, tick |-> tick, left |-> left]

\* An executor awaits the exchange; the others run meanwhile.
Executing == [pc |-> "order"]

\* The consumer awaits room in the queue that only it can make.
Stuck == [pc |-> "stuck"]

LoopFree == consumer.pc # "tick"

----------------------------------------------------------------------------
Init ==
  /\ now = 0
  /\ queue = <<>>
  /\ pending = [s \in Streams |-> NoTick]
  /\ consumer = Idle
  /\ current = [s \in Streams |-> [tf \in Names |-> NoCandle]]
  /\ history = [s \in Streams |-> [k \in Series |-> <<>>]]
  /\ sinceSignal = [s \in Streams |-> ActiveFor]
  /\ autoTrading = FALSE
  /\ handled = [s \in Streams |-> <<>>]

----------------------------------------------------------------------------
(* The feeds. *)

TickEvent(s, tick) == [type |-> "TICK", stream |-> s, tick |-> tick]

Received(s) ==
  Len(handled[s]) + (IF pending[s] = NoTick THEN 0 ELSE 1)
    + Cardinality({i \in DOMAIN queue : queue[i].type = "TICK" /\ queue[i].stream = s})

More(s) ==
  \E most \in TickCounts :
    Received(s) < most[s] /\ \A t \in Streams \ {s} : Received(t) <= most[t]

\* A feed reads its next trade once the one before is on the bus.
Receive(s, tick) ==
  /\ LoopFree
  /\ pending[s] = NoTick /\ More(s)
  /\ tick.at \in (now - MaxLate)..now
  /\ IF HasRoom
     THEN queue' = Append(queue, TickEvent(s, tick)) /\ UNCHANGED pending
     ELSE pending' = [pending EXCEPT ![s] = tick] /\ UNCHANGED queue
  /\ UNCHANGED <<now, consumer, candles, signals, handled>>

FeedResumes(s) ==
  /\ LoopFree
  /\ pending[s] # NoTick /\ HasRoom
  /\ queue' = Append(queue, TickEvent(s, pending[s]))
  /\ pending' = [pending EXCEPT ![s] = NoTick]
  /\ UNCHANGED <<now, consumer, candles, signals, handled>>

----------------------------------------------------------------------------
(* The consumer. *)

Takes(type) == consumer = Idle /\ queue # <<>> /\ Head(queue).type = type

\* Mutant of HandlerPublishes: an event the bus has no room for is dropped.
HandlerPublishesNowait(rest, event, next) ==
  /\ queue' = IF Len(rest) < QueueCap THEN Append(rest, event) ELSE rest
  /\ consumer' = next

\* What a handler publishes goes on the queue, or leaves the consumer stuck.
HandlerPublishes(rest, event, next) ==
  IF Len(rest) < QueueCap
  THEN queue' = Append(rest, event) /\ consumer' = next
  ELSE queue' = rest /\ consumer' = Stuck

TakeTick ==
  /\ Takes("TICK")
  /\ consumer' = Busy(Head(queue).stream, Head(queue).tick, Timeframes)
  /\ queue' = Tail(queue)
  /\ handled' = [handled EXCEPT ![Head(queue).stream] = Append(@, Head(queue).tick)]
  /\ UNCHANGED <<now, pending, candles, signals>>

NewCandle(bucket, price) ==
  [bucket |-> bucket, open |-> price, high |-> price, low |-> price, close |-> price]

Merged(c, price) ==
  [c EXCEPT !.high = Max({@, price}), !.low = Min({@, price}), !.close = price]

\* _current_bucket: buckets are counted from the first trade of the stream.
Bucket(s, tf, at) ==
  LET start == handled[s][1].at
  IN start + ((at - start) \div Seconds[tf]) * Seconds[tf]

TF == Head(consumer.left)
Bar == current[consumer.stream][TF]
TickBucket == Bucket(consumer.stream, TF, consumer.tick.at)

NextTimeframe ==
  IF Len(consumer.left) = 1 THEN Idle
  ELSE Busy(consumer.stream, consumer.tick, Tail(consumer.left))

SetBar(c) == current' = [current EXCEPT ![consumer.stream][TF] = c]

\* The trade falls in the bar under way, or begins the first one.
BarGoesOn ==
  /\ consumer.pc = "tick"
  /\ Bar = NoCandle \/ Bar.bucket = TickBucket
  /\ SetBar(IF Bar = NoCandle THEN NewCandle(TickBucket, consumer.tick.price)
            ELSE Merged(Bar, consumer.tick.price))
  /\ consumer' = NextTimeframe
  /\ UNCHANGED <<now, queue, pending, history, signals, handled>>

CandleEvent(s, label, c) == [type |-> "CANDLE", stream |-> s, label |-> label, candle |-> c]

Stored(s, series, c) == history' = [history EXCEPT ![s][series] = Append(@, c)]

\* Mutant of BarCompletes: the trade that completes a bar is in both.
BarCompletesMerged ==
  /\ consumer.pc = "tick"
  /\ Bar # NoCandle /\ Bar.bucket # TickBucket
  /\ SetBar(NewCandle(TickBucket, consumer.tick.price))
  /\ LET full == Merged(Bar, consumer.tick.price)
     IN /\ Stored(consumer.stream, TF, full)
        /\ HandlerPublishes(queue, CandleEvent(consumer.stream, Label[TF], full), NextTimeframe)
  /\ UNCHANGED <<now, pending, signals, handled>>

\* A trade of any other bucket completes the bar: it is stored under the
\* timeframe's own name, published, and the trade begins the next.
BarCompletes ==
  /\ consumer.pc = "tick"
  /\ Bar # NoCandle /\ Bar.bucket # TickBucket
  /\ SetBar(NewCandle(TickBucket, consumer.tick.price))
  /\ Stored(consumer.stream, TF, Bar)
  /\ HandlerPublishes(queue, CandleEvent(consumer.stream, Label[TF], Bar), NextTimeframe)
  /\ UNCHANGED <<now, pending, signals, handled>>

----------------------------------------------------------------------------
(* CANDLE: the data manager stores the candle again, under its label; the   *)
(* signal generator subscribed after it.                                    *)

Event == Head(queue)

\* The generator's conditions before it scores: the primary timeframe, the
\* interval since the stream's last signal, and enough candles.
Scores ==
  /\ Event.label = Primary
  /\ sinceSignal[Event.stream] >= MinInterval
  /\ Len(history[Event.stream][Primary]) + 1 >= Lookback

\* The gates after the score.
MaySignal ==
  /\ Scores /\ autoTrading
  /\ Cardinality({s \in Streams : sinceSignal[s] < ActiveFor}) < MaxPositions

CandleStored ==
  /\ Takes("CANDLE")
  /\ Stored(Event.stream, Event.label, Event.candle)
  /\ queue' = Tail(queue)
  /\ UNCHANGED <<now, pending, consumer, current, signals, handled>>

CandleSignals ==
  /\ Takes("CANDLE")
  /\ MaySignal
  /\ Stored(Event.stream, Event.label, Event.candle)
  /\ sinceSignal' = [sinceSignal EXCEPT ![Event.stream] = 0]
  /\ HandlerPublishes(Tail(queue), [type |-> "SIGNAL"], Idle)
  /\ UNCHANGED <<now, pending, current, autoTrading, handled>>

\* SIGNAL: an executor rejects it, or executes it, perhaps awaiting the exchange,
\* and publishes what came of it.
HandleSignal ==
  /\ Takes("SIGNAL")
  /\ queue' = Tail(queue)
  /\ consumer' \in {Idle, Executing}
  /\ UNCHANGED <<now, pending, candles, signals, handled>>

OrderAnswered ==
  /\ consumer = Executing
  /\ HandlerPublishes(queue, [type |-> "ORDER"], Idle)
  /\ UNCHANGED <<now, pending, candles, signals, handled>>

\* ORDER_FILLED, ORDER_FAILED: nobody publishes in answer.
HandleOrder ==
  /\ Takes("ORDER")
  /\ queue' = Tail(queue)
  /\ UNCHANGED <<now, pending, consumer, candles, signals, handled>>

----------------------------------------------------------------------------
ToggleAutoTrading ==
  /\ LoopFree
  /\ autoTrading' = ~autoTrading
  /\ UNCHANGED <<now, queue, pending, consumer, candles, sinceSignal, handled>>

Clock ==
  /\ LoopFree /\ now < MaxTime
  /\ now' = now + 1
  /\ sinceSignal' = [s \in Streams |-> Min({ActiveFor, sinceSignal[s] + 1})]
  /\ UNCHANGED <<queue, pending, consumer, candles, autoTrading, handled>>

Consume ==
  \/ TakeTick \/ BarGoesOn \/ BarCompletes
  \/ CandleStored \/ CandleSignals
  \/ HandleSignal \/ OrderAnswered \/ HandleOrder

Next ==
  \/ \E s \in Streams, tick \in Tick : Receive(s, tick)
  \/ \E s \in Streams : FeedResumes(s)
  \/ Consume
  \/ ToggleAutoTrading
  \/ Clock

Spec == Init /\ [][Next]_vars

----------------------------------------------------------------------------
(* Properties. *)

Candle == [bucket : Int, open : Prices, high : Prices, low : Prices, close : Prices]
EventSet ==
  [type : {"TICK"}, stream : Streams, tick : Tick]
    \cup [type : {"CANDLE"}, stream : Streams, label : Labels, candle : Candle]
    \cup [type : {"SIGNAL", "ORDER"}]

\* What is left of a trade's timeframes.
Remainders == {SubSeq(Timeframes, j, Len(Timeframes)) : j \in 1..Len(Timeframes)}
ConsumerSet ==
  {Idle, Executing, Stuck}
    \cup [pc : {"tick"}, stream : Streams, tick : Tick, left : Remainders]

\* The shape of the pipeline: what is queued, under way and stored.
TypeOK ==
  /\ now \in 0..MaxTime
  /\ queue \in Seq(EventSet) /\ Len(queue) <= QueueCap
  /\ pending \in [Streams -> Tick \cup {NoTick}]
  /\ consumer \in ConsumerSet
  /\ current \in [Streams -> [Names -> Candle \cup {NoCandle}]]
  /\ history \in [Streams -> [Series -> Seq(Candle)]]
  /\ sinceSignal \in [Streams -> 0..ActiveFor]
  /\ autoTrading \in BOOLEAN
  /\ handled \in [Streams -> Seq(Tick)]

\* Candles of a series begin one after another: with trades in order no bar is
\* stored twice and none goes back, whatever waits on the bus in between.
CandlesInOrder ==
  \A s \in Streams, k \in Series : \A i, j \in DOMAIN history[s][k] :
    i < j => history[s][k][i].bucket < history[s][k][j].bucket

\* The trades of a bar, by their places.
Bars(s, tf, bucket) ==
  {i \in DOMAIN handled[s] : Bucket(s, tf, handled[s][i].at) = bucket}

PricesOf(s, places) == {handled[s][i].price : i \in places}

\* A completed candle is the open, high, low and close of the trades of its
\* bucket: no trade is lost or counted twice between two bars.
CandlesAreTheirTrades ==
  \A s \in Streams, tf \in Names : \A i \in DOMAIN history[s][tf] :
    LET c      == history[s][tf][i]
        places == Bars(s, tf, c.bucket)
    IN /\ places # {}
       /\ c = [bucket |-> c.bucket,
               open |-> handled[s][Min(places)].price, high |-> Max(PricesOf(s, places)),
               low |-> Min(PricesOf(s, places)), close |-> handled[s][Max(places)].price]

IsBarOf(e, s, label) == e.type = "CANDLE" /\ e.stream = s /\ e.label = label

\* The candles of a series that wait in a queue.
WaitingBars(q, s, label) ==
  LET bars[n \in 0..Len(q)] ==
        IF n = 0 THEN <<>>
        ELSE IF IsBarOf(q[n], s, label) THEN Append(bars[n - 1], q[n].candle)
        ELSE bars[n - 1]
  IN bars[Len(q)]

\* Every bar the data manager completed is on its way to the signal generator or
\* has been there, once and in the order of completion: the two copies of a
\* series differ by what waits on the bus.
BarsReachTheGenerator ==
  consumer # Stuck =>
    \A s \in Streams, tf \in Names :
      history[s][tf] = history[s][Label[tf]] \o WaitingBars(queue, s, Label[tf])

\* The channel of a stream and a timeframe: the bars stored under the timeframe's
\* name, those on the bus and those stored again, by its listener, under its label.
BarsOf == Streams \X Names
Completed == [ch \in BarsOf |-> history[ch[1]][ch[2]]]
OnTheBus == [ch \in BarsOf |-> WaitingBars(queue, ch[1], Label[ch[2]])]
Listened == [ch \in BarsOf |-> history[ch[1]][Label[ch[2]]]]

Channel == INSTANCE BarChannel WITH
  Channels <- BarsOf, sent <- Completed, waiting <- OnTheBus, got <- Listened,
  broken <- consumer = Stuck

\* Ticks, bars of several streams and timeframes, signals and answers share one
\* queue and one consumer, and a trade completes its bars one after the other; yet
\* each series is a channel that loses, repeats and reorders nothing until the
\* consumer waits for room it would have to make, and delivers nothing after.
DeliversBars == Channel!ChannelSpec
=============================================================================
