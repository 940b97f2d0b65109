--------------------------- MODULE MarketData_proof ---------------------------
(***************************************************************************)
(* Proofs about the way from a trade to a signal: what is on the bus and   *)
(* in the series stays well formed; every completed bar reaches the signal *)
(* generator, once and in order; and, while trades come in order, a bar is *)
(* the open, high, low and close of exactly its trades and no series goes  *)
(* back.                                                                   *)
(***************************************************************************)
EXTENDS MarketData, FiniteSetTheorems, SequenceTheorems, WellFoundedInduction, TLAPS

\* A set of natural numbers has a least one: what a recursive function does step by step
\* is shown by the first place where it would not.
LEMMA LeastNatural ==
  ASSUME NEW S, S \subseteq Nat, S # {}
  PROVE  \E n \in S : \A m \in S : n <= m
<1>1. PICK x \in S : \A y \in S : ~(<<y, x>> \in OpToRel(<, Nat))
  BY NatLessThanWellFounded, WFMin, Zenon
<1>2. \A y \in S : ~(y < x)
  BY <1>1, Zenon DEF OpToRel
<1>. QED
  BY <1>2

----------------------------------------------------------------------------
(* MarketData: what is queued, under way and stored. *)

LEMMA EventShape ==
  ASSUME NEW e \in EventSet
  PROVE  /\ e.type = "TICK" => e.stream \in Streams /\ e.tick \in Tick
         /\ e.type = "CANDLE" => e.stream \in Streams /\ e.label \in Labels /\ e.candle \in Candle
<1>1. CASE e \in [type : {"TICK"}, stream : Streams, tick : Tick]
  BY <1>1
<1>2. CASE e \in [type : {"CANDLE"}, stream : Streams, label : Labels, candle : Candle]
  BY <1>2
<1>3. CASE e \in [type : {"SIGNAL", "ORDER"}]
  BY <1>3
<1>. QED
  BY <1>1, <1>2, <1>3 DEF EventSet

LEMMA EventsMade ==
  /\ \A s \in Streams, tick \in Tick : TickEvent(s, tick) \in EventSet
  /\ \A s \in Streams, label \in Labels, c \in Candle : CandleEvent(s, label, c) \in EventSet
  /\ [type |-> "SIGNAL"] \in EventSet /\ [type |-> "ORDER"] \in EventSet
BY DEF TickEvent, CandleEvent, EventSet

\* The queue's two ways.
LEMMA QueueMoves ==
  ASSUME NEW q \in Seq(EventSet), NEW e \in EventSet
  PROVE  /\ Append(q, e) \in Seq(EventSet) /\ Len(Append(q, e)) = Len(q) + 1
         /\ \A i \in 1..Len(q) : Append(q, e)[i] = q[i]
         /\ Append(q, e)[Len(q) + 1] = e
         /\ q # <<>> => /\ Tail(q) \in Seq(EventSet) /\ Len(Tail(q)) = Len(q) - 1
                        /\ Head(q) \in EventSet /\ Head(q) = q[1] /\ Len(q) > 0
                        /\ \A i \in 1..Len(q) - 1 : Tail(q)[i] = q[i + 1]
BY AppendProperties, HeadTailProperties, EmptySeq

LEMMA PublishTyped ==
  ASSUME NEW rest \in Seq(EventSet), Len(rest) <= QueueCap, NEW event \in EventSet,
         NEW next \in ConsumerSet, HandlerPublishes(rest, event, next)
  PROVE  queue' \in Seq(EventSet) /\ Len(queue') <= QueueCap /\ consumer' \in ConsumerSet
<1>1. Stuck \in ConsumerSet
  BY DEF ConsumerSet
<1>2. CASE Len(rest) < QueueCap
  <2>1. Len(rest) \in Nat /\ QueueCap \in Nat
    BY BoundsAssumption
  <2>. QED
    BY <1>2, <2>1, QueueMoves DEF HandlerPublishes
<1>3. CASE ~(Len(rest) < QueueCap)
  BY <1>1, <1>3 DEF HandlerPublishes
<1>. QED
  BY <1>2, <1>3

\* The trade's timeframes: the j-th is next, and after the last nothing is.
LEMMA TimeframesShape ==
  /\ Len(Timeframes) \in Nat \ {0} /\ Timeframes \in Seq(Names)
  /\ \A j \in 1..Len(Timeframes) : Timeframes[j] \in Names
  /\ \A tf \in Names : Seconds[tf] \in Nat \ {0}
<1>1. Timeframes \in Seq(Names) /\ Timeframes # <<>>
  BY TimeframesAssumption DEF Names
<1>2. Len(Timeframes) \in Nat \ {0}
  BY <1>1, EmptySeq
<1>3. \A j \in 1..Len(Timeframes) : Timeframes[j] \in Names
  BY <1>1
<1>4. \A tf \in Names : Seconds[tf] \in Nat \ {0}
  BY TimeframesAssumption DEF Names, Range
<1>. QED
  BY <1>1, <1>2, <1>3, <1>4

LEMMA RemainderShape ==
  ASSUME NEW j \in 1..Len(Timeframes), NEW left, left = SubSeq(Timeframes, j, Len(Timeframes))
  PROVE  /\ left \in Seq(Names) /\ Len(left) = Len(Timeframes) - j + 1
         /\ Head(left) = Timeframes[j] /\ left # <<>>
         /\ Len(left) # 1 => /\ j + 1 \in 1..Len(Timeframes)
                             /\ Tail(left) = SubSeq(Timeframes, j + 1, Len(Timeframes))
<1>1. /\ Len(Timeframes) \in Nat \ {0} /\ Timeframes \in Seq(Names)
  BY TimeframesShape
<1>2. /\ left \in Seq(Names) /\ Len(left) = Len(Timeframes) - j + 1
      /\ \A i \in 1..Len(left) : left[i] = Timeframes[j + i - 1]
  BY <1>1, SubSeqProperties
<1>3. left # <<>>
  <2>1. Len(left) # 0
    BY <1>1, <1>2
  <2>2. Len(<<>>) = 0
    BY EmptySeq, Zenon
  <2>. QED
    BY <2>1, <2>2, Zenon
<1>4. Head(left) = Timeframes[j] /\ Tail(left) = SubSeq(Timeframes, j + 1, Len(Timeframes))
  <2>1. Len(Timeframes) \in j..Len(Timeframes)
    BY <1>1
  <2>. QED
    BY <1>1, <2>1, HeadTailOfSubSeq
<1>5. Len(left) # 1 => j + 1 \in 1..Len(Timeframes)
  BY <1>1, <1>2
<1>. QED
  BY <1>2, <1>3, <1>4, <1>5

TickState == [pc : {"tick"}, stream : Streams, tick : Tick, left : Remainders]

\* The consumer in a trade: which, and which timeframe is next.
LEMMA TickStateShape ==
  ASSUME consumer \in ConsumerSet, consumer.pc = "tick"
  PROVE  /\ consumer \in TickState /\ TF \in Names
         /\ consumer.stream \in Streams /\ consumer.tick \in Tick
         /\ \E j \in 1..Len(Timeframes) :
              /\ consumer.left = SubSeq(Timeframes, j, Len(Timeframes)) /\ TF = Timeframes[j]
              /\ \/ NextTimeframe = Idle /\ j = Len(Timeframes)
                 \/ /\ j + 1 \in 1..Len(Timeframes)
                    /\ NextTimeframe = Busy(consumer.stream, consumer.tick,
                                            SubSeq(Timeframes, j + 1, Len(Timeframes)))
<1>1. consumer \in TickState
  BY DEF ConsumerSet, TickState, Idle, Executing, Stuck
<1>2. PICK j \in 1..Len(Timeframes) : consumer.left = SubSeq(Timeframes, j, Len(Timeframes))
  BY <1>1 DEF TickState, Remainders
<1>3. consumer.stream \in Streams /\ consumer.tick \in Tick
  BY <1>1 DEF TickState
<1>4. /\ Len(consumer.left) = Len(Timeframes) - j + 1
      /\ Head(consumer.left) = Timeframes[j]
      /\ Len(consumer.left) # 1 =>
           /\ j + 1 \in 1..Len(Timeframes)
           /\ Tail(consumer.left) = SubSeq(Timeframes, j + 1, Len(Timeframes))
  BY <1>2, RemainderShape
<1>5. TF = Timeframes[j] /\ TF \in Names
  BY <1>4, TimeframesShape DEF TF
<1>6. \/ NextTimeframe = Idle /\ j = Len(Timeframes)
      \/ /\ j + 1 \in 1..Len(Timeframes)
         /\ NextTimeframe = Busy(consumer.stream, consumer.tick,
                                 SubSeq(Timeframes, j + 1, Len(Timeframes)))
  <2>1. CASE Len(consumer.left) = 1
    <3>1. j = Len(Timeframes)
      BY <1>4, <2>1, TimeframesShape, SMTT(30)
    <3>. QED
      BY <2>1, <3>1 DEF NextTimeframe
  <2>2. CASE Len(consumer.left) # 1
    BY <1>4, <2>2, Zenon DEF NextTimeframe
  <2>. QED
    BY <2>1, <2>2
<1>. QED
  BY <1>1, <1>2, <1>3, <1>5, <1>6

LEMMA BusyTyped ==
  ASSUME NEW s \in Streams, NEW tick \in Tick, NEW j \in 1..Len(Timeframes)
  PROVE  Busy(s, tick, SubSeq(Timeframes, j, Len(Timeframes))) \in ConsumerSet
BY DEF Busy, ConsumerSet, Remainders

LEMMA NextTyped ==
  ASSUME consumer \in ConsumerSet, consumer.pc = "tick"
  PROVE  NextTimeframe \in ConsumerSet
<1>1. consumer.stream \in Streams /\ consumer.tick \in Tick
  BY TickStateShape
<1>2. CASE NextTimeframe = Idle
  BY <1>2 DEF ConsumerSet
<1>3. CASE NextTimeframe # Idle
  BY <1>1, <1>3, TickStateShape, BusyTyped
<1>. QED
  BY <1>2, <1>3

LEMMA ExtremesOfTwo ==
  ASSUME NEW a \in Int, NEW b \in Int
  PROVE  /\ Max({a, b}) \in {a, b} /\ Max({a, b}) >= a /\ Max({a, b}) >= b
         /\ Min({a, b}) \in {a, b} /\ Min({a, b}) <= a /\ Min({a, b}) <= b
<1>1. \E x \in {a, b} : \A y \in {a, b} : x >= y
  OBVIOUS
<1>2. \E x \in {a, b} : \A y \in {a, b} : x <= y
  OBVIOUS
<1>. QED
  BY <1>1, <1>2 DEF Max, Min

LEMMA MergedTyped ==
  ASSUME NEW c \in Candle, NEW price \in Prices
  PROVE  /\ Merged(c, price) \in Candle
         /\ Merged(c, price).bucket = c.bucket /\ Merged(c, price).open = c.open
         /\ Merged(c, price).close = price
         /\ Merged(c, price).high \in {c.high, price}
         /\ Merged(c, price).high >= c.high /\ Merged(c, price).high >= price
         /\ Merged(c, price).low \in {c.low, price}
         /\ Merged(c, price).low <= c.low /\ Merged(c, price).low <= price
<1> DEFINE high == Max({c.high, price})
           low  == Min({c.low, price})
<1>0. Prices \subseteq Nat
  BY BoundsAssumption
<1>1. c.high \in Prices /\ c.low \in Prices
  BY DEF Candle
<1>2. /\ high \in {c.high, price} /\ high >= c.high /\ high >= price
      /\ low \in {c.low, price} /\ low <= c.low /\ low <= price
  <2>1. c.high \in Nat /\ c.low \in Nat /\ price \in Nat
    BY <1>0, <1>1, Zenon
  <2>2. c.high \in Int /\ c.low \in Int /\ price \in Int
    BY <2>1
  <2>. QED
    BY <2>2, ExtremesOfTwo, Zenon
<1>3. Merged(c, price) = [c EXCEPT !.high = high, !.low = low, !.close = price]
  BY DEF Merged
<1> HIDE DEF high, low
<1>. QED
  BY <1>1, <1>2, <1>3, Zenon DEF Candle

LEMMA BucketTyped ==
  ASSUME TypeOK, NEW s \in Streams, NEW tf \in Names, NEW at \in Int, handled[s] # <<>>
  PROVE  Bucket(s, tf, at) \in Int
<1>1. handled[s][1] \in Tick
  <2>1. handled[s] \in Seq(Tick) /\ Len(handled[s]) \in Nat \ {0}
    BY EmptySeq DEF TypeOK
  <2>. QED
    BY <2>1
<1>2. handled[s][1].at \in Int
  BY <1>1, BoundsAssumption DEF Tick
<1>3. Seconds[tf] \in Nat \ {0}
  BY TimeframesShape
<1>. QED
  BY <1>2, <1>3 DEF Bucket

LEMMA BarTyped ==
  ASSUME TypeOK, consumer.pc = "tick"
  PROVE  Bar \in Candle \cup {NoCandle}
BY TickStateShape DEF Bar, TypeOK

\* A trade under way is the last of its stream's, and its bucket a whole number.
Handling ==
  consumer.pc = "tick" =>
    /\ handled[consumer.stream] # <<>>
    /\ consumer.tick = handled[consumer.stream][Len(handled[consumer.stream])]

MarketShape == TypeOK /\ Handling

LEMMA TickBucketTyped ==
  ASSUME MarketShape, consumer.pc = "tick"
  PROVE  TickBucket \in Int
<1>1. consumer.stream \in Streams /\ TF \in Names /\ consumer.tick \in Tick
  BY TickStateShape DEF MarketShape, TypeOK
<1>2. consumer.tick.at \in Int
  BY <1>1, BoundsAssumption DEF Tick
<1>. QED
  BY <1>1, <1>2, BucketTyped DEF TickBucket, MarketShape, Handling

LEMMA NewCandleTyped ==
  ASSUME NEW bucket \in Int, NEW price \in Prices
  PROVE  NewCandle(bucket, price) \in Candle
BY DEF NewCandle, Candle

LEMMA StoredTyped ==
  ASSUME TypeOK, NEW s \in Streams, NEW series \in Series, NEW c \in Candle,
         Stored(s, series, c)
  PROVE  /\ history' \in [Streams -> [Series -> Seq(Candle)]]
         /\ history'[s][series] = Append(history[s][series], c)
         /\ \A t \in Streams, k \in Series :
              t # s \/ k # series => history'[t][k] = history[t][k]
<1>1. history \in [Streams -> [Series -> Seq(Candle)]]
  BY DEF TypeOK
<1>2. Append(history[s][series], c) \in Seq(Candle)
  BY <1>1, AppendProperties
<1>3. history' = [history EXCEPT ![s][series] = Append(history[s][series], c)]
  BY DEF Stored
<1>. QED
  BY <1>1, <1>2, <1>3

LEMMA BarSet ==
  ASSUME TypeOK, consumer.pc = "tick", NEW c \in Candle, SetBar(c)
  PROVE  /\ current' \in [Streams -> [Names -> Candle \cup {NoCandle}]]
         /\ current'[consumer.stream][TF] = c
         /\ \A t \in Streams, k \in Names :
              t # consumer.stream \/ k # TF => current'[t][k] = current[t][k]
<1>1. current \in [Streams -> [Names -> Candle \cup {NoCandle}]]
  BY DEF TypeOK
<1>2. consumer.stream \in Streams /\ TF \in Names
  BY TickStateShape DEF TypeOK
<1>3. current' = [current EXCEPT ![consumer.stream][TF] = c]
  BY DEF SetBar
<1>. QED
  BY <1>1, <1>2, <1>3

\* What a trade does to its bar.
LEMMA TradeTyped ==
  ASSUME MarketShape, consumer.pc = "tick"
  PROVE  /\ NewCandle(TickBucket, consumer.tick.price) \in Candle
         /\ Bar # NoCandle => Bar \in Candle /\ Merged(Bar, consumer.tick.price) \in Candle
<1>1. consumer.tick.price \in Prices
  BY TickStateShape DEF MarketShape, TypeOK, Tick
<1>2. Bar # NoCandle => Bar \in Candle
  BY BarTyped DEF MarketShape
<1>. QED
  BY <1>1, <1>2, TickBucketTyped, NewCandleTyped, MergedTyped

LEMMA LabelTyped == \A tf \in Names : Label[tf] \in Labels /\ Label[tf] \in Series /\ tf \in Series
BY DEF Labels, Series

LEMMA TakeTickShape ==
  ASSUME MarketShape, TakeTick
  PROVE  MarketShape'
<1> DEFINE s == Head(queue).stream
           tick == Head(queue).tick
<1>1. queue \in Seq(EventSet) /\ queue # <<>> /\ Len(queue) <= QueueCap
  BY DEF MarketShape, TypeOK, TakeTick, Takes
<1>2. Head(queue) \in EventSet /\ Tail(queue) \in Seq(EventSet) /\ Len(Tail(queue)) = Len(queue) - 1
  BY <1>1, QueueMoves
<1>3. s \in Streams /\ tick \in Tick
  BY <1>2, EventShape DEF TakeTick, Takes
<1>4. /\ consumer' = Busy(s, tick, Timeframes) /\ queue' = Tail(queue)
      /\ handled' = [handled EXCEPT ![s] = Append(handled[s], tick)]
  BY DEF TakeTick
<1>5. Timeframes = SubSeq(Timeframes, 1, Len(Timeframes)) /\ 1 \in 1..Len(Timeframes)
  BY TimeframesShape, SubSeqFull
<1>6. consumer' \in ConsumerSet
  BY <1>3, <1>4, <1>5, BusyTyped, Zenon
<1>7. handled \in [Streams -> Seq(Tick)] /\ handled[s] \in Seq(Tick)
  BY <1>3 DEF MarketShape, TypeOK
<1>8. /\ Append(handled[s], tick) \in Seq(Tick) /\ Append(handled[s], tick) # <<>>
      /\ Len(Append(handled[s], tick)) = Len(handled[s]) + 1
      /\ Append(handled[s], tick)[Len(handled[s]) + 1] = tick
  BY <1>3, <1>7, AppendProperties
<1>9. Len(queue') <= QueueCap
  BY <1>1, <1>2, <1>4, BoundsAssumption
<1> HIDE DEF s, tick
<1>10. handled' \in [Streams -> Seq(Tick)] /\ handled'[s] = Append(handled[s], tick)
  BY <1>3, <1>4, <1>7, <1>8
<1>11. consumer'.stream = s /\ consumer'.tick = tick
  BY <1>4 DEF Busy
<1>12. Handling'
  BY <1>8, <1>10, <1>11 DEF Handling
<1>. QED
  BY <1>2, <1>4, <1>6, <1>9, <1>10, <1>12 DEF MarketShape, TypeOK, TakeTick, candles, signals

LEMMA NextHandles ==
  ASSUME MarketShape, consumer.pc = "tick", UNCHANGED handled,
         consumer' \in {NextTimeframe, Stuck}
  PROVE  Handling'
<1>1. CASE consumer'.pc # "tick"
  BY <1>1 DEF Handling
<1>2. CASE consumer'.pc = "tick"
  <2>1. consumer' = NextTimeframe /\ NextTimeframe # Idle
    BY <1>2 DEF Stuck, Idle
  <2>2. PICK left : NextTimeframe = Busy(consumer.stream, consumer.tick, left)
    BY <2>1, TickStateShape DEF MarketShape, TypeOK
  <2>3. consumer'.stream = consumer.stream /\ consumer'.tick = consumer.tick
    BY <2>1, <2>2 DEF Busy
  <2>. QED
    BY <2>3 DEF MarketShape, Handling
<1>. QED
  BY <1>1, <1>2

LEMMA BarGoesOnShape ==
  ASSUME MarketShape, BarGoesOn
  PROVE  MarketShape'
<1>1. consumer.pc = "tick" /\ consumer' = NextTimeframe /\ UNCHANGED handled
  BY DEF BarGoesOn
<1>2. PICK c \in Candle : SetBar(c)
  BY TradeTyped DEF BarGoesOn
<1>3. current' \in [Streams -> [Names -> Candle \cup {NoCandle}]]
  BY <1>1, <1>2, BarSet DEF MarketShape
<1>4. consumer' \in ConsumerSet
  BY <1>1, NextTyped DEF MarketShape, TypeOK
<1>5. Handling'
  BY <1>1, NextHandles
<1>. QED
  BY <1>3, <1>4, <1>5 DEF MarketShape, TypeOK, BarGoesOn, signals

LEMMA BarCompletesShape ==
  ASSUME MarketShape, BarCompletes
  PROVE  MarketShape'
<1>1. consumer.pc = "tick" /\ Bar # NoCandle /\ UNCHANGED handled
  BY DEF BarCompletes
<1>2. /\ consumer.stream \in Streams /\ TF \in Names /\ Bar \in Candle
      /\ NewCandle(TickBucket, consumer.tick.price) \in Candle
  BY <1>1, TickStateShape, TradeTyped DEF MarketShape, TypeOK
<1>3. current' \in [Streams -> [Names -> Candle \cup {NoCandle}]]
  BY <1>1, <1>2, BarSet DEF MarketShape, BarCompletes
<1>4. history' \in [Streams -> [Series -> Seq(Candle)]]
  BY <1>2, StoredTyped, LabelTyped DEF MarketShape, BarCompletes
<1>5. CandleEvent(consumer.stream, Label[TF], Bar) \in EventSet
  BY <1>2, LabelTyped, EventsMade
<1>6. queue' \in Seq(EventSet) /\ Len(queue') <= QueueCap /\ consumer' \in ConsumerSet
  BY <1>1, <1>5, NextTyped, PublishTyped DEF BarCompletes, MarketShape, TypeOK
<1>7. Handling'
  BY <1>1, NextHandles DEF BarCompletes, HandlerPublishes
<1>. QED
  BY <1>3, <1>4, <1>6, <1>7 DEF MarketShape, TypeOK, BarCompletes, signals

\* What the consumer takes, when it is not a trade.
LEMMA TakenShape ==
  ASSUME MarketShape, NEW type, Takes(type)
  PROVE  /\ queue \in Seq(EventSet) /\ queue # <<>> /\ Head(queue) \in EventSet
         /\ Tail(queue) \in Seq(EventSet) /\ Len(Tail(queue)) = Len(queue) - 1
         /\ Len(Tail(queue)) <= QueueCap /\ consumer = Idle
         /\ type = "CANDLE" => Event.stream \in Streams /\ Event.label \in Labels
                               /\ Event.candle \in Candle
<1>1. queue \in Seq(EventSet) /\ queue # <<>> /\ Len(queue) <= QueueCap /\ consumer = Idle
  BY DEF MarketShape, TypeOK, Takes
<1>2. Head(queue) \in EventSet /\ Tail(queue) \in Seq(EventSet) /\ Len(Tail(queue)) = Len(queue) - 1
  BY <1>1, QueueMoves
<1>3. Len(Tail(queue)) <= QueueCap
  BY <1>1, <1>2, BoundsAssumption
<1>4. type = "CANDLE" => Event.stream \in Streams /\ Event.label \in Labels
                         /\ Event.candle \in Candle
  BY <1>2, EventShape DEF Event, Takes
<1>. QED
  BY <1>1, <1>2, <1>3, <1>4

LEMMA AtRest == {Idle, Executing, Stuck} \subseteq ConsumerSet /\
                \A c \in {Idle, Executing, Stuck} : c.pc # "tick"
BY DEF ConsumerSet, Idle, Executing, Stuck

LEMMA CandleShape ==
  ASSUME MarketShape, CandleStored \/ CandleSignals
  PROVE  MarketShape'
<1>1. Takes("CANDLE") /\ Stored(Event.stream, Event.label, Event.candle)
  BY DEF CandleStored, CandleSignals
<1>2. /\ Event.stream \in Streams /\ Event.label \in Series /\ Event.candle \in Candle
      /\ Tail(queue) \in Seq(EventSet) /\ Len(Tail(queue)) <= QueueCap /\ consumer = Idle
  BY <1>1, TakenShape DEF Series
<1>3. history' \in [Streams -> [Series -> Seq(Candle)]]
  BY <1>1, <1>2, StoredTyped DEF MarketShape
<1>4. /\ queue' \in Seq(EventSet) /\ Len(queue') <= QueueCap
      /\ consumer' \in ConsumerSet /\ consumer' \in {Idle, Stuck}
  <2>1. CASE CandleStored
    BY <1>2, <2>1, AtRest DEF CandleStored
  <2>2. CASE CandleSignals
    BY <1>2, <2>2, AtRest, EventsMade, PublishTyped, Zenon DEF CandleSignals, HandlerPublishes
  <2>. QED
    BY <2>1, <2>2
<1>5. Handling'
  BY <1>4, AtRest DEF Handling
<1>6. sinceSignal' \in [Streams -> 0..ActiveFor]
  <2>1. 0 \in 0..ActiveFor
    BY GatesAssumption
  <2>. QED
    BY <2>1, Zenon DEF CandleStored, CandleSignals, MarketShape, TypeOK, signals
<1>. QED
  BY <1>3, <1>4, <1>5, <1>6 DEF MarketShape, TypeOK, CandleStored, CandleSignals, signals

LEMMA AnswerShape ==
  ASSUME MarketShape, HandleSignal \/ OrderAnswered \/ HandleOrder
  PROVE  MarketShape'
<1>1. /\ queue' \in Seq(EventSet) /\ Len(queue') <= QueueCap
      /\ consumer' \in {Idle, Executing, Stuck}
  <2>1. CASE HandleSignal
    BY <2>1, TakenShape DEF HandleSignal
  <2>2. CASE OrderAnswered
    BY <2>2, AtRest, EventsMade, PublishTyped
    DEF OrderAnswered, HandlerPublishes, MarketShape, TypeOK
  <2>3. CASE HandleOrder
    BY <2>3, TakenShape DEF HandleOrder
  <2>. QED
    BY <2>1, <2>2, <2>3
<1>2. consumer' \in ConsumerSet /\ Handling'
  BY <1>1, AtRest DEF Handling
<1>. QED
  BY <1>1, <1>2 DEF MarketShape, TypeOK, HandleSignal, OrderAnswered, HandleOrder, candles, signals

LEMMA FeedsShape ==
  ASSUME MarketShape, NEW s \in Streams,
         (\E tick \in Tick : Receive(s, tick)) \/ FeedResumes(s)
  PROVE  MarketShape'
<1>1. /\ queue \in Seq(EventSet) /\ Len(queue) <= QueueCap
      /\ pending \in [Streams -> Tick \cup {NoTick}]
  BY DEF MarketShape, TypeOK
<1>2. ASSUME NEW t \in Tick, HasRoom, queue' = Append(queue, TickEvent(s, t))
      PROVE  queue' \in Seq(EventSet) /\ Len(queue') <= QueueCap
  <2>1. Len(queue') = Len(queue) + 1 /\ queue' \in Seq(EventSet)
    BY <1>1, <1>2, EventsMade, QueueMoves
  <2>2. Len(queue) \in Nat /\ QueueCap \in Nat
    BY <1>1, BoundsAssumption
  <2>. QED
    BY <1>2, <2>1, <2>2 DEF HasRoom
<1>3. ASSUME NEW tick \in Tick, Receive(s, tick)
      PROVE  MarketShape'
  BY <1>1, <1>2, <1>3, Zenon DEF Receive, MarketShape, TypeOK, Handling, candles, signals
<1>4. CASE FeedResumes(s)
  <2>1. pending[s] \in Tick
    BY <1>1, <1>4 DEF FeedResumes
  <2>. QED
    BY <1>1, <1>2, <1>4, <2>1 DEF FeedResumes, MarketShape, TypeOK, Handling, candles, signals
<1>. QED
  BY <1>3, <1>4

LEMMA TimeShape ==
  ASSUME MarketShape, ToggleAutoTrading \/ Clock
  PROVE  MarketShape'
<1>1. CASE ToggleAutoTrading
  BY <1>1 DEF ToggleAutoTrading, MarketShape, TypeOK, Handling, candles
<1>2. CASE Clock
  <2>1. now' \in 0..MaxTime
    BY <1>2, BoundsAssumption DEF Clock, MarketShape, TypeOK
  <2>2. ASSUME NEW s \in Streams
        PROVE  Min({ActiveFor, sinceSignal[s] + 1}) \in 0..ActiveFor
    <3>1. sinceSignal[s] \in 0..ActiveFor /\ ActiveFor \in Int
      BY GatesAssumption DEF MarketShape, TypeOK
    <3>2. sinceSignal[s] + 1 \in Int /\ sinceSignal[s] + 1 >= 0 /\ ActiveFor >= 0
      BY <3>1
    <3>3. /\ Min({ActiveFor, sinceSignal[s] + 1}) \in {ActiveFor, sinceSignal[s] + 1}
          /\ Min({ActiveFor, sinceSignal[s] + 1}) <= ActiveFor
      BY <3>1, <3>2, ExtremesOfTwo, Zenon
    <3>. QED
      BY <3>1, <3>2, <3>3
  <2>3. sinceSignal' \in [Streams -> 0..ActiveFor]
    BY <1>2, <2>2 DEF Clock
  <2>. QED
    BY <1>2, <2>1, <2>3 DEF Clock, MarketShape, TypeOK, Handling, candles
<1>. QED
  BY <1>1, <1>2

LEMMA MarketInitShape == Init => MarketShape
<1> SUFFICES ASSUME Init PROVE MarketShape
  OBVIOUS
<1>1. now \in 0..MaxTime /\ ActiveFor \in 0..ActiveFor
  BY BoundsAssumption, GatesAssumption DEF Init
<1>2. queue \in Seq(EventSet) /\ Len(queue) <= QueueCap
  BY BoundsAssumption, EmptySeq DEF Init
<1>3. \A s \in Streams : <<>> \in Seq(Tick) /\ <<>> \in Seq(Candle)
  BY EmptySeq
<1>4. consumer \in ConsumerSet /\ consumer.pc # "tick"
  BY AtRest DEF Init
<1>. QED
  BY <1>1, <1>2, <1>3, <1>4, Zenon DEF Init, MarketShape, TypeOK, Handling

LEMMA MarketShapeStep == MarketShape /\ [Next]_vars => MarketShape'
<1> SUFFICES ASSUME MarketShape, [Next]_vars PROVE MarketShape'
  OBVIOUS
<1>1. CASE UNCHANGED vars
  BY <1>1 DEF vars, candles, signals, MarketShape, TypeOK, Handling, Event, TF
<1>. QED
  BY <1>1, TakeTickShape, BarGoesOnShape, BarCompletesShape, CandleShape, AnswerShape,
     FeedsShape, TimeShape DEF Next, Consume

LEMMA MarketShapeHolds == Spec => []MarketShape
BY MarketInitShape, MarketShapeStep, PTL DEF Spec

\* What the bus carries, the consumer handles and the data manager keeps stays well
\* formed, for any streams, timeframes, queue and gates.
THEOREM MarketTyped == Spec => []TypeOK
<1>1. MarketShape => TypeOK
  BY DEF MarketShape
<1>. QED
  BY <1>1, MarketShapeHolds, PTL

----------------------------------------------------------------------------
(* The bars on the bus. *)

\* g holds the bars among the first n events of a queue, for each n up to m.
BarsAmong(g, q, s, label, m) ==
  g = [n \in 0..m |->
         IF n = 0 THEN <<>>
         ELSE IF IsBarOf(q[n], s, label) THEN Append(g[n - 1], q[n].candle)
         ELSE g[n - 1]]

LEMMA BarsAmongStep ==
  ASSUME NEW q, NEW m \in Nat, NEW s, NEW label, NEW g, BarsAmong(g, q, s, label, m)
  PROVE  /\ DOMAIN g = 0..m /\ g[0] = <<>>
         /\ \A n \in 1..m :
              g[n] = IF IsBarOf(q[n], s, label) THEN Append(g[n - 1], q[n].candle) ELSE g[n - 1]
<1>1. DOMAIN g = 0..m
  BY DEF BarsAmong
<1>2. ASSUME NEW n \in 0..m
      PROVE  g[n] = IF n = 0 THEN <<>>
                    ELSE IF IsBarOf(q[n], s, label) THEN Append(g[n - 1], q[n].candle)
                    ELSE g[n - 1]
  BY Zenon DEF BarsAmong
<1>3. g[0] = <<>>
  BY <1>2
<1>4. ASSUME NEW n \in 1..m
      PROVE  g[n] = IF IsBarOf(q[n], s, label) THEN Append(g[n - 1], q[n].candle) ELSE g[n - 1]
  BY <1>2
<1>. QED
  BY <1>1, <1>3, <1>4

\* Only one function does, on what two queues have in common.
LEMMA BarsAgree ==
  ASSUME NEW q \in Seq(EventSet), NEW r \in Seq(EventSet), Len(q) <= Len(r),
         \A i \in 1..Len(q) : q[i] = r[i], NEW s, NEW label,
         NEW g, BarsAmong(g, q, s, label, Len(q)), NEW h, BarsAmong(h, r, s, label, Len(r))
  PROVE  g[Len(q)] = h[Len(q)]
<1> DEFINE Apart == {n \in 0..Len(q) : g[n] # h[n]}
<1>1. Len(q) \in Nat /\ Len(r) \in Nat
  OBVIOUS
<1>2. g[0] = <<>> /\ h[0] = <<>>
  BY <1>1, BarsAmongStep
<1>3. Apart = {}
  <2> SUFFICES ASSUME Apart # {} PROVE FALSE
    OBVIOUS
  <2>1. PICK n \in Apart : \A i \in Apart : n <= i
    <3>1. Apart \subseteq Nat
      BY <1>1
    <3> HIDE DEF Apart
    <3> QED BY <3>1, LeastNatural, Zenon
  <2>2. n # 0 /\ n \in 1..Len(q)
    BY <1>1, <1>2, <2>1
  <2>3. g[n - 1] = h[n - 1]
    BY <2>1, <2>2
  <2>4. n \in 1..Len(r) /\ q[n] = r[n]
    BY <1>1, <2>2
  <2>5. g[n] = IF IsBarOf(q[n], s, label) THEN Append(g[n - 1], q[n].candle) ELSE g[n - 1]
    BY <1>1, <2>2, BarsAmongStep
  <2>6. h[n] = IF IsBarOf(r[n], s, label) THEN Append(h[n - 1], r[n].candle) ELSE h[n - 1]
    BY <1>1, <2>4, BarsAmongStep
  <2>. QED
    BY <2>1, <2>3, <2>4, <2>5, <2>6
<1>. QED
  BY <1>1, <1>3

LEMMA BarsExist ==
  ASSUME NEW q, NEW s, NEW label, NEW m \in Nat
  PROVE  \E g : BarsAmong(g, q, s, label, m)
<1> DEFINE Missing == {n \in Nat : ~\E g : BarsAmong(g, q, s, label, n)}
<1>1. \E g : BarsAmong(g, q, s, label, 0)
  <2> DEFINE g == [n \in 0..0 |-> <<>>]
  <2>1. g = [n \in 0..0 |-> IF n = 0 THEN <<>>
               ELSE IF IsBarOf(q[n], s, label) THEN Append(g[n - 1], q[n].candle)
               ELSE g[n - 1]]
    OBVIOUS
  <2>. QED
    BY <2>1, Zenon DEF BarsAmong
<1>2. ASSUME NEW n \in Nat, NEW g, BarsAmong(g, q, s, label, n)
      PROVE  \E h : BarsAmong(h, q, s, label, n + 1)
  <2> DEFINE more == IF IsBarOf(q[n + 1], s, label) THEN Append(g[n], q[n + 1].candle) ELSE g[n]
             h == [i \in 0..n + 1 |-> IF i = n + 1 THEN more ELSE g[i]]
  <2>1. \A i \in 0..n : h[i] = g[i]
    OBVIOUS
  <2>2. h[n + 1] = more /\ h[n] = g[n]
    OBVIOUS
  <2>3. ASSUME NEW i \in 0..n + 1
        PROVE  h[i] = IF i = 0 THEN <<>>
                      ELSE IF IsBarOf(q[i], s, label) THEN Append(h[i - 1], q[i].candle)
                      ELSE h[i - 1]
    <3>1. CASE i = n + 1
      <4>1. i # 0 /\ i - 1 = n
        BY <3>1
      <4> HIDE DEF h
      <4>. QED
        BY <2>2, <3>1, <4>1
    <3>2. CASE i \in 0..n
      <4>1. h[i] = g[i] /\ (i # 0 => i \in 1..n /\ h[i - 1] = g[i - 1])
        BY <2>1, <3>2
      <4> HIDE DEF h
      <4>. QED
        BY <1>2, <4>1, BarsAmongStep
    <3>. QED
      BY <3>1, <3>2
  <2>4. h = [i \in 0..n + 1 |-> h[i]]
    OBVIOUS
  <2> HIDE DEF h
  <2>5. h = [i \in 0..n + 1 |->
               IF i = 0 THEN <<>>
               ELSE IF IsBarOf(q[i], s, label) THEN Append(h[i - 1], q[i].candle)
               ELSE h[i - 1]]
    BY <2>3, <2>4, Zenon
  <2>. QED
    BY <2>5 DEF BarsAmong
<1>3. Missing = {}
  <2> SUFFICES ASSUME Missing # {} PROVE FALSE
    OBVIOUS
  <2>1. PICK n \in Missing : \A i \in Missing : n <= i
    <3>1. Missing \subseteq Nat
      OBVIOUS
    <3> HIDE DEF Missing
    <3> QED BY <3>1, LeastNatural, Zenon
  <2>2. n # 0
    BY <1>1, <2>1
  <2>3. n - 1 \in Nat /\ n - 1 \notin Missing
    BY <2>1, <2>2
  <2>. QED
    BY <1>2, <2>1, <2>3
<1>. QED
  BY <1>3

LEMMA BarsTyped ==
  ASSUME NEW q \in Seq(EventSet), NEW s, NEW label, NEW g, BarsAmong(g, q, s, label, Len(q)),
         NEW m \in 0..Len(q)
  PROVE  g[m] \in Seq(Candle)
<1> DEFINE Off == {n \in 0..Len(q) : g[n] \notin Seq(Candle)}
<1>1. Len(q) \in Nat /\ \A i \in 1..Len(q) : q[i] \in EventSet
  OBVIOUS
<1>2. g[0] \in Seq(Candle)
  <2>1. g[0] = <<>>
    BY <1>1, BarsAmongStep, ZenonT(30)
  <2>. QED
    BY <2>1, EmptySeq
<1>3. Off = {}
  <2> SUFFICES ASSUME Off # {} PROVE FALSE
    OBVIOUS
  <2>1. PICK n \in Off : \A i \in Off : n <= i
    <3>1. Off \subseteq Nat
      OBVIOUS
    <3> HIDE DEF Off
    <3> QED BY <3>1, LeastNatural, Zenon
  <2>2. n # 0 /\ n \in 1..Len(q)
    BY <1>2, <2>1
  <2>3. g[n - 1] \in Seq(Candle)
    BY <2>1, <2>2
  <2>4. IsBarOf(q[n], s, label) => q[n].candle \in Candle
    BY <1>1, <2>2, EventShape DEF IsBarOf
  <2>5. g[n] = IF IsBarOf(q[n], s, label) THEN Append(g[n - 1], q[n].candle) ELSE g[n - 1]
    BY <1>1, <2>2, BarsAmongStep
  <2>6. g[n] \in Seq(Candle)
    BY <2>3, <2>4, <2>5, AppendProperties
  <2>. QED
    BY <2>1, <2>6
<1>. QED
  BY <1>3

LEMMA WaitingIs ==
  ASSUME NEW q \in Seq(EventSet), NEW s, NEW label
  PROVE  \E g : BarsAmong(g, q, s, label, Len(q)) /\ WaitingBars(q, s, label) = g[Len(q)]
<1> DEFINE bars == CHOOSE g : BarsAmong(g, q, s, label, Len(q))
<1>1. Len(q) \in Nat
  OBVIOUS
<1>2. BarsAmong(bars, q, s, label, Len(q))
  BY <1>1, BarsExist
<1>3. WaitingBars(q, s, label) = bars[Len(q)]
  BY DEF WaitingBars, BarsAmong
<1>. QED
  BY <1>2, <1>3, Zenon

LEMMA WaitingTyped ==
  ASSUME NEW q \in Seq(EventSet), NEW s, NEW label
  PROVE  WaitingBars(q, s, label) \in Seq(Candle)
<1>1. Len(q) \in 0..Len(q)
  OBVIOUS
<1>. QED
  BY <1>1, WaitingIs, BarsTyped

LEMMA CandleAppend ==
  \A s, t \in Seq(Candle), e \in Candle : Append(s \o t, e) = s \o Append(t, e)
<1> SUFFICES ASSUME NEW s \in Seq(Candle), NEW t \in Seq(Candle), NEW e \in Candle
             PROVE  Append(s \o t, e) = s \o Append(t, e)
  OBVIOUS
<1>1. s \o t \in Seq(Candle) /\ <<e>> \in Seq(Candle)
  BY ConcatProperties
<1>2. Append(s \o t, e) = (s \o t) \o <<e>>
  BY <1>1, AppendIsConcat
<1>3. Append(t, e) = t \o <<e>>
  BY AppendIsConcat
<1>4. \A u \in Seq(Candle) : (s \o t) \o u = s \o (t \o u)
  BY ConcatAssociative
<1>. QED
  BY <1>1, <1>2, <1>3, <1>4

LEMMA WaitingAppends ==
  ASSUME NEW q \in Seq(EventSet), NEW e \in EventSet, NEW s, NEW label
  PROVE  WaitingBars(Append(q, e), s, label) =
           IF IsBarOf(e, s, label) THEN Append(WaitingBars(q, s, label), e.candle)
           ELSE WaitingBars(q, s, label)
<1> DEFINE r == Append(q, e)
<1>1. /\ r \in Seq(EventSet) /\ Len(r) = Len(q) + 1 /\ Len(q) \in Nat
      /\ r[Len(q) + 1] = e /\ \A i \in 1..Len(q) : q[i] = r[i]
  BY QueueMoves
<1> HIDE DEF r
<1>2. PICK g : BarsAmong(g, q, s, label, Len(q)) /\ WaitingBars(q, s, label) = g[Len(q)]
  BY WaitingIs
<1>3. PICK h : BarsAmong(h, r, s, label, Len(r)) /\ WaitingBars(r, s, label) = h[Len(r)]
  BY <1>1, WaitingIs
<1>4. g[Len(q)] = h[Len(q)]
  <2>1. Len(q) <= Len(r)
    BY <1>1
  <2>. QED
    BY <1>1, <1>2, <1>3, <2>1, BarsAgree
<1>5. h[Len(q) + 1] = IF IsBarOf(e, s, label) THEN Append(h[Len(q)], e.candle) ELSE h[Len(q)]
  <2>1. Len(q) + 1 \in 1..Len(r) /\ Len(r) \in Nat
    BY <1>1
  <2>. QED
    BY <1>1, <1>3, <2>1, BarsAmongStep
<1>. QED
  BY <1>1, <1>2, <1>3, <1>4, <1>5 DEF r

LEMMA WaitingTakes ==
  ASSUME NEW q \in Seq(EventSet), q # <<>>, NEW s, NEW label
  PROVE  WaitingBars(q, s, label) =
           IF IsBarOf(Head(q), s, label)
           THEN <<Head(q).candle>> \o WaitingBars(Tail(q), s, label)
           ELSE WaitingBars(Tail(q), s, label)
<1> DEFINE r == Tail(q)
           first == IF IsBarOf(Head(q), s, label) THEN <<Head(q).candle>> ELSE <<>>
<1>1. /\ r \in Seq(EventSet) /\ Len(r) = Len(q) - 1 /\ Len(q) \in Nat \ {0}
      /\ Head(q) = q[1] /\ Head(q) \in EventSet
      /\ \A i \in 1..Len(q) - 1 : r[i] = q[i + 1]
  BY QueueMoves, EmptySeq
<1>2. IsBarOf(Head(q), s, label) => Head(q).candle \in Candle
  BY <1>1, EventShape DEF IsBarOf
<1>3. first \in Seq(Candle)
  BY <1>2, EmptySeq
<1> HIDE DEF r
<1>4. PICK g : BarsAmong(g, q, s, label, Len(q)) /\ WaitingBars(q, s, label) = g[Len(q)]
  BY WaitingIs
<1>5. PICK h : BarsAmong(h, r, s, label, Len(r)) /\ WaitingBars(r, s, label) = h[Len(r)]
  BY <1>1, WaitingIs
<1>6. \A n \in 0..Len(q) : g[n] \in Seq(Candle)
  BY <1>4, BarsTyped
<1>7. \A n \in 0..Len(r) : h[n] \in Seq(Candle)
  BY <1>1, <1>5, BarsTyped
<1>8. \A n \in 1..Len(q) :
        g[n] = IF IsBarOf(q[n], s, label) THEN Append(g[n - 1], q[n].candle) ELSE g[n - 1]
  BY <1>1, <1>4, BarsAmongStep
<1>9. \A n \in 1..Len(r) :
        h[n] = IF IsBarOf(r[n], s, label) THEN Append(h[n - 1], r[n].candle) ELSE h[n - 1]
  BY <1>1, <1>5, BarsAmongStep
<1>10. g[0] = <<>> /\ h[0] = <<>>
  BY <1>1, <1>4, <1>5, BarsAmongStep
<1>11. g[1] = first \o h[0]
  <2>1. g[1] = IF IsBarOf(Head(q), s, label) THEN Append(<<>>, Head(q).candle) ELSE <<>>
    <3>1. 1 \in 1..Len(q) /\ 1 - 1 = 0
      BY <1>1
    <3>. QED
      BY <1>1, <1>8, <1>10, <3>1, Zenon
  <2>2. g[1] = first
    BY <2>1
  <2> HIDE DEF first
  <2>. QED
    BY <1>3, <1>10, <2>2, ConcatEmptySeq
<1> HIDE DEF first
<1> DEFINE Off == {n \in 0..Len(r) : g[n + 1] # first \o h[n]}
<1>12. Off = {}
  <2> SUFFICES ASSUME Off # {} PROVE FALSE
    OBVIOUS
  <2>1. PICK n \in Off : \A i \in Off : n <= i
    <3>1. Off \subseteq Nat
      OBVIOUS
    <3> HIDE DEF Off
    <3> QED BY <3>1, LeastNatural, Zenon
  <2>2. n # 0 /\ n \in 1..Len(r) /\ n + 1 \in 1..Len(q) /\ r[n] = q[n + 1]
    <3>1. n \in 0..Len(r) /\ g[n + 1] # first \o h[n]
      BY <2>1
    <3>2. n # 0
      BY <1>11, <3>1
    <3>. QED
      BY <1>1, <3>1, <3>2
  <2>3. g[n] = first \o h[n - 1]
    BY <2>1, <2>2
  <2>4. CASE IsBarOf(r[n], s, label)
    <3>1. r[n].candle \in Candle /\ h[n - 1] \in Seq(Candle)
      BY <1>1, <1>7, <2>2, <2>4, EventShape DEF IsBarOf
    <3>2. g[n + 1] = Append(first \o h[n - 1], r[n].candle)
      <4>1. (n + 1) - 1 = n
        BY <2>2
      <4>. QED
        BY <1>8, <2>2, <2>3, <2>4, <4>1, Zenon
    <3>3. h[n] = Append(h[n - 1], r[n].candle)
      BY <1>9, <2>2, <2>4, Zenon
    <3>4. Append(first \o h[n - 1], r[n].candle) = first \o Append(h[n - 1], r[n].candle)
      BY <1>3, <3>1, CandleAppend, Zenon
    <3>. QED
      BY <2>1, <3>2, <3>3, <3>4, Zenon
  <2>5. CASE ~IsBarOf(r[n], s, label)
    <3>1. g[n + 1] = g[n] /\ h[n] = h[n - 1]
      BY <1>8, <1>9, <2>2, <2>5
    <3>. QED
      BY <2>1, <2>3, <3>1, Zenon
  <2>. QED
    BY <2>4, <2>5
<1>13. g[Len(q)] = first \o h[Len(r)]
  <2>1. Len(r) \in 0..Len(r) /\ Len(r) + 1 = Len(q)
    BY <1>1
  <2>2. Len(r) \notin Off
    BY <1>12
  <2>. QED
    BY <2>1, <2>2
<1>14. WaitingBars(q, s, label) = first \o WaitingBars(r, s, label)
  BY <1>4, <1>5, <1>13
<1>15. WaitingBars(r, s, label) \in Seq(Candle)
  BY <1>1, WaitingTyped
<1>. QED
  BY <1>14, <1>15, ConcatEmptySeq DEF first, r

LEMMA WaitingNone == \A s, label : WaitingBars(<<>>, s, label) = <<>>
<1> SUFFICES ASSUME NEW s, NEW label PROVE WaitingBars(<<>>, s, label) = <<>>
  OBVIOUS
<1>1. <<>> \in Seq(EventSet) /\ Len(<<>>) = 0
  BY EmptySeq
<1>2. PICK g : BarsAmong(g, <<>>, s, label, 0) /\ WaitingBars(<<>>, s, label) = g[0]
  BY <1>1, WaitingIs, Zenon
<1>3. g[0] = <<>>
  BY <1>2, BarsAmongStep
<1>. QED
  BY <1>2, <1>3

----------------------------------------------------------------------------
(* Every bar reaches the generator. *)

\* No label is the name of a timeframe or the label of another.
LabelsApart ==
  \A tf, other \in Names : Label[tf] \notin Names /\ (tf # other => Label[tf] # Label[other])

Arrives(s, tf) == history[s][tf] = history[s][Label[tf]] \o WaitingBars(queue, s, Label[tf])

LEMMA ArrivesTyped ==
  ASSUME MarketShape, NEW s \in Streams, NEW tf \in Names
  PROVE  /\ queue \in Seq(EventSet)
         /\ history[s][tf] \in Seq(Candle) /\ history[s][Label[tf]] \in Seq(Candle)
         /\ WaitingBars(queue, s, Label[tf]) \in Seq(Candle)
<1>1. queue \in Seq(EventSet) /\ history \in [Streams -> [Series -> Seq(Candle)]]
  BY DEF MarketShape, TypeOK
<1>. QED
  BY <1>1, LabelTyped, WaitingTyped

\* Events that are no candles come and go beside the bars.
LEMMA OthersPass ==
  ASSUME NEW q \in Seq(EventSet), NEW s, NEW label
  PROVE  /\ \A e \in EventSet : e.type # "CANDLE" =>
              WaitingBars(Append(q, e), s, label) = WaitingBars(q, s, label)
         /\ q # <<>> /\ Head(q).type # "CANDLE" =>
              WaitingBars(Tail(q), s, label) = WaitingBars(q, s, label)
<1>1. ASSUME NEW e \in EventSet, e.type # "CANDLE"
      PROVE  WaitingBars(Append(q, e), s, label) = WaitingBars(q, s, label)
  <2>1. ~IsBarOf(e, s, label)
    BY <1>1 DEF IsBarOf
  <2>. QED
    BY <2>1, WaitingAppends
<1>2. ASSUME q # <<>>, Head(q).type # "CANDLE"
      PROVE  WaitingBars(Tail(q), s, label) = WaitingBars(q, s, label)
  <2>1. ~IsBarOf(Head(q), s, label)
    BY <1>2 DEF IsBarOf
  <2>. QED
    BY <1>2, <2>1, WaitingTakes, Zenon
<1>. QED
  BY <1>1, <1>2

LEMMA BarArrives ==
  ASSUME LabelsApart, MarketShape, BarCompletes, consumer' # Stuck,
         NEW s \in Streams, NEW tf \in Names, Arrives(s, tf)
  PROVE  Arrives(s, tf)'
<1> DEFINE e == CandleEvent(consumer.stream, Label[TF], Bar)
<1>1. /\ consumer.stream \in Streams /\ TF \in Names /\ Bar \in Candle
      /\ Stored(consumer.stream, TF, Bar) /\ queue' = Append(queue, e)
  BY TickStateShape, TradeTyped DEF BarCompletes, HandlerPublishes, MarketShape, TypeOK
<1>2. e \in EventSet
  BY <1>1, LabelTyped, EventsMade
<1>3. IsBarOf(e, s, Label[tf]) <=> s = consumer.stream /\ tf = TF
  BY <1>1 DEF IsBarOf, CandleEvent, LabelsApart
<1>4. e.candle = Bar
  BY DEF CandleEvent
<1>5. /\ history'[consumer.stream][TF] = Append(history[consumer.stream][TF], Bar)
      /\ \A t \in Streams, k \in Series :
           t # consumer.stream \/ k # TF => history'[t][k] = history[t][k]
  BY <1>1, LabelTyped, StoredTyped, SMTT(30) DEF MarketShape
<1>6. history'[s][Label[tf]] = history[s][Label[tf]]
  BY <1>1, <1>5, LabelTyped DEF LabelsApart
<1>7. WaitingBars(queue', s, Label[tf]) =
        IF IsBarOf(e, s, Label[tf]) THEN Append(WaitingBars(queue, s, Label[tf]), Bar)
        ELSE WaitingBars(queue, s, Label[tf])
  BY <1>1, <1>2, <1>4, ArrivesTyped, WaitingAppends, ZenonT(30)
<1> HIDE DEF e
<1>8. CASE s = consumer.stream /\ tf = TF
  <2>1. Append(history[s][Label[tf]] \o WaitingBars(queue, s, Label[tf]), Bar) =
          history[s][Label[tf]] \o Append(WaitingBars(queue, s, Label[tf]), Bar)
    BY <1>1, ArrivesTyped, CandleAppend, Zenon
  <2>. QED
    BY <1>3, <1>5, <1>6, <1>7, <1>8, <2>1, Zenon DEF Arrives
<1>9. CASE ~(s = consumer.stream /\ tf = TF)
  BY <1>3, <1>5, <1>6, <1>7, <1>9, LabelTyped, Zenon DEF Arrives
<1>. QED
  BY <1>8, <1>9

LEMMA CandleConcat ==
  \A s, t, u \in Seq(Candle) : s \o (t \o u) = (s \o t) \o u
BY ConcatAssociative

\* The event taken is the first bar of its series that waits.
LEMMA StoredFollows ==
  ASSUME LabelsApart, MarketShape, CandleStored \/ CandleSignals,
         NEW s \in Streams, NEW tf \in Names, Arrives(s, tf)
  PROVE  /\ Tail(queue) \in Seq(EventSet) /\ WaitingBars(Tail(queue), s, Label[tf]) \in Seq(Candle)
         /\ history'[s][tf] = history'[s][Label[tf]] \o WaitingBars(Tail(queue), s, Label[tf])
<1> DEFINE e     == Head(queue)
           label == Label[tf]
           rest  == WaitingBars(Tail(queue), s, label)
<1>1. Takes("CANDLE") /\ Stored(e.stream, e.label, e.candle)
  BY DEF CandleStored, CandleSignals, Event
<1>2. /\ queue \in Seq(EventSet) /\ queue # <<>> /\ Tail(queue) \in Seq(EventSet)
      /\ e.type = "CANDLE"
      /\ e.stream \in Streams /\ e.label \in Labels /\ e.candle \in Candle
  BY <1>1, TakenShape DEF Event, Takes
<1>3. rest \in Seq(Candle)
  BY <1>2, WaitingTyped, Zenon
<1>4. /\ history'[e.stream][e.label] = Append(history[e.stream][e.label], e.candle)
      /\ \A t \in Streams, k \in Series :
           t # e.stream \/ k # e.label => history'[t][k] = history[t][k]
  <2>1. e.label \in Series
    BY <1>2 DEF Series
  <2> HIDE DEF e
  <2>. QED
    BY <1>1, <1>2, <2>1, StoredTyped, Zenon DEF MarketShape
<1> HIDE DEF e
<1>5. history'[s][tf] = history[s][tf]
  <2>1. \E g \in Names : e.label = Label[g]
    BY <1>2 DEF Labels
  <2>2. e.label \notin Names /\ tf \in Series
    BY <2>1, LabelTyped DEF LabelsApart
  <2>. QED
    BY <1>4, <2>2
<1>6. IsBarOf(e, s, label) <=> s = e.stream /\ label = e.label
  BY <1>2 DEF IsBarOf
<1>7. WaitingBars(queue, s, label) = IF IsBarOf(e, s, label) THEN <<e.candle>> \o rest ELSE rest
  BY <1>2, WaitingTakes, Zenon DEF e
<1>8. history[s][label] \in Seq(Candle) /\ label \in Series
  BY ArrivesTyped, LabelTyped
<1>9. CASE s = e.stream /\ label = e.label
  <2>1. <<e.candle>> \in Seq(Candle)
    BY <1>2
  <2>2. history[s][label] \o (<<e.candle>> \o rest) = (history[s][label] \o <<e.candle>>) \o rest
    BY <1>3, <1>8, <2>1, CandleConcat, Zenon
  <2>3. history[s][label] \o <<e.candle>> = Append(history[s][label], e.candle)
    BY <1>2, <1>8, AppendIsConcat
  <2>4. history[s][tf] = history[s][label] \o (<<e.candle>> \o rest)
    BY <1>6, <1>7, <1>9, Zenon DEF Arrives
  <2>5. history'[s][label] = Append(history[s][label], e.candle)
    BY <1>4, <1>9
  <2>. QED
    BY <1>2, <1>3, <1>5, <2>2, <2>3, <2>4, <2>5, Zenon DEF Arrives
<1>10. CASE ~(s = e.stream /\ label = e.label)
  BY <1>2, <1>3, <1>4, <1>5, <1>6, <1>7, <1>8, <1>10, Zenon DEF Arrives
<1>. QED
  BY <1>9, <1>10, Zenon

LEMMA StoredArrives ==
  ASSUME LabelsApart, MarketShape, CandleStored \/ CandleSignals, consumer' # Stuck,
         NEW s \in Streams, NEW tf \in Names, Arrives(s, tf)
  PROVE  Arrives(s, tf)'
<1>1. /\ Tail(queue) \in Seq(EventSet)
      /\ history'[s][tf] = history'[s][Label[tf]] \o WaitingBars(Tail(queue), s, Label[tf])
  BY StoredFollows, Zenon
<1>2. WaitingBars(queue', s, Label[tf]) = WaitingBars(Tail(queue), s, Label[tf])
  <2>1. CASE CandleStored
    BY <2>1 DEF CandleStored
  <2>2. CASE CandleSignals
    <3>1. queue' = Append(Tail(queue), [type |-> "SIGNAL"])
      BY <2>2 DEF CandleSignals, HandlerPublishes
    <3>2. [type |-> "SIGNAL"] \in EventSet /\ [type |-> "SIGNAL"].type # "CANDLE"
      BY EventsMade
    <3>. QED
      BY <1>1, <3>1, <3>2, OthersPass, Zenon
  <2>. QED
    BY <2>1, <2>2
<1>. QED
  BY <1>1, <1>2 DEF Arrives

\* Whatever else happens moves no bar.
LEMMA OthersMoveNoBar ==
  ASSUME MarketShape,
         \/ \E t \in Streams, tick \in Tick : Receive(t, tick)
         \/ \E t \in Streams : FeedResumes(t)
         \/ TakeTick \/ BarGoesOn \/ HandleSignal \/ OrderAnswered \/ HandleOrder
         \/ ToggleAutoTrading \/ Clock
  PROVE  /\ UNCHANGED history
         /\ \A s, label : WaitingBars(queue', s, label) = WaitingBars(queue, s, label)
<1>1. UNCHANGED history
  BY DEF Receive, FeedResumes, TakeTick, BarGoesOn, HandleSignal, OrderAnswered, HandleOrder,
         ToggleAutoTrading, Clock, candles
<1>2. \/ UNCHANGED queue
      \/ \E e \in EventSet : e.type # "CANDLE" /\ queue' = Append(queue, e)
      \/ queue # <<>> /\ Head(queue).type # "CANDLE" /\ queue' = Tail(queue)
  <2>1. ASSUME NEW t \in Streams, NEW tick \in Tick, Receive(t, tick)
        PROVE  UNCHANGED queue \/ \E e \in EventSet : e.type # "CANDLE" /\ queue' = Append(queue, e)
    <3>1. TickEvent(t, tick) \in EventSet /\ TickEvent(t, tick).type # "CANDLE"
      BY EventsMade DEF TickEvent
    <3>. QED
      BY <2>1, <3>1 DEF Receive
  <2>2. ASSUME NEW t \in Streams, FeedResumes(t)
        PROVE  \E e \in EventSet : e.type # "CANDLE" /\ queue' = Append(queue, e)
    <3>1. pending[t] \in Tick
      BY <2>2 DEF FeedResumes, MarketShape, TypeOK
    <3>2. TickEvent(t, pending[t]) \in EventSet /\ TickEvent(t, pending[t]).type # "CANDLE"
      BY <3>1, EventsMade DEF TickEvent
    <3>. QED
      BY <2>2, <3>2 DEF FeedResumes
  <2>3. CASE TakeTick \/ HandleSignal \/ HandleOrder
    BY <2>3 DEF TakeTick, HandleSignal, HandleOrder, Takes
  <2>4. CASE OrderAnswered
    <3>1. [type |-> "ORDER"] \in EventSet /\ [type |-> "ORDER"].type # "CANDLE"
      BY EventsMade
    <3>. QED
      BY <2>4, <3>1 DEF OrderAnswered, HandlerPublishes
  <2>5. CASE BarGoesOn \/ ToggleAutoTrading \/ Clock
    BY <2>5 DEF BarGoesOn, ToggleAutoTrading, Clock
  <2>. QED
    BY <2>1, <2>2, <2>3, <2>4, <2>5
<1>3. queue \in Seq(EventSet)
  BY DEF MarketShape, TypeOK
<1>4. CASE UNCHANGED queue
  BY <1>1, <1>4
<1>5. ASSUME NEW e \in EventSet, e.type # "CANDLE", queue' = Append(queue, e)
      PROVE  \A s, label : WaitingBars(queue', s, label) = WaitingBars(queue, s, label)
  BY <1>3, <1>5, OthersPass, Zenon
<1>6. ASSUME queue # <<>>, Head(queue).type # "CANDLE", queue' = Tail(queue)
      PROVE  \A s, label : WaitingBars(queue', s, label) = WaitingBars(queue, s, label)
  BY <1>3, <1>6, OthersPass, Zenon
<1>. QED
  BY <1>1, <1>2, <1>4, <1>5, <1>6, Zenon

\* A consumer that is stuck stays so.
LEMMA StuckStays ==
  ASSUME MarketShape, Next, consumer = Stuck
  PROVE  consumer' = Stuck
<1>1. consumer # Idle /\ consumer # Executing /\ consumer.pc # "tick"
  BY DEF Stuck, Idle, Executing
<1>. QED
  BY <1>1 DEF Next, Consume, Receive, FeedResumes, TakeTick, BarGoesOn, BarCompletes, CandleStored,
       CandleSignals, HandleSignal, OrderAnswered, HandleOrder, ToggleAutoTrading, Clock, Takes

\* Every bar the data manager completed is on its way to the signal generator or has been
\* there, once and in the order of completion, for any feeds, timeframes and queue.
THEOREM BarsArrive == ASSUME LabelsApart PROVE Spec => []BarsReachTheGenerator
<1> DEFINE Arrived == MarketShape /\ BarsReachTheGenerator
<1>1. Init => BarsReachTheGenerator
  <2> SUFFICES ASSUME Init, NEW s \in Streams, NEW tf \in Names PROVE Arrives(s, tf)
    BY Zenon DEF BarsReachTheGenerator, Arrives
  <2>1. history[s][tf] = <<>> /\ history[s][Label[tf]] = <<>> /\ queue = <<>>
    BY LabelTyped DEF Init
  <2>2. <<>> \o <<>> = <<>>
    BY EmptySeq, ConcatEmptySeq
  <2>. QED
    BY <2>1, <2>2, WaitingNone DEF Arrives
<1>2. ASSUME MarketShape, BarsReachTheGenerator, Next, consumer' # Stuck,
             NEW s \in Streams, NEW tf \in Names
      PROVE  Arrives(s, tf)'
  <2>1. Arrives(s, tf)
    BY <1>2, StuckStays, Zenon DEF BarsReachTheGenerator, Arrives
  <2>. QED
    <3>1. CASE BarCompletes \/ CandleStored \/ CandleSignals
      BY <1>2, <2>1, <3>1, BarArrives, StoredArrives
    <3>2. CASE ~(BarCompletes \/ CandleStored \/ CandleSignals)
      <4>1. UNCHANGED history /\ WaitingBars(queue', s, Label[tf]) = WaitingBars(queue, s, Label[tf])
        BY <1>2, <3>2, OthersMoveNoBar DEF Next, Consume
      <4>. QED
        BY <2>1, <4>1, Zenon DEF Arrives
    <3>. QED
      BY <3>1, <3>2
<1>3. MarketShape /\ BarsReachTheGenerator /\ [Next]_vars => BarsReachTheGenerator'
  <2> SUFFICES ASSUME MarketShape, BarsReachTheGenerator, [Next]_vars
               PROVE  BarsReachTheGenerator'
    OBVIOUS
  <2>1. CASE UNCHANGED vars
    BY <2>1, Zenon DEF vars, candles, BarsReachTheGenerator
  <2>2. CASE Next
    BY <1>2, <2>2, Zenon DEF BarsReachTheGenerator, Arrives
  <2>. QED
    BY <2>1, <2>2
<1>. QED
  BY <1>1, <1>3, MarketShapeHolds, PTL DEF Spec

----------------------------------------------------------------------------
(* Each series is a channel. *)

LEMMA ChannelsAre ==
  /\ \A ch \in BarsOf : ch[1] \in Streams /\ ch[2] \in Names /\ ch = <<ch[1], ch[2]>>
  /\ \A s \in Streams, tf \in Names :
       /\ <<s, tf>> \in BarsOf
       /\ \A ch \in BarsOf : ch # <<s, tf>> => ch[1] # s \/ ch[2] # tf
BY DEF BarsOf

\* A function that moves at one place, and one that does not move.
LEMMA OneMoves ==
  ASSUME NEW S, NEW f, NEW g, NEW c \in S, NEW v,
         f = [x \in S |-> f[x]], g = [x \in S |-> g[x]],
         g[c] = v, \A x \in S : x # c => g[x] = f[x]
  PROVE  g = [f EXCEPT ![c] = v]
OBVIOUS

LEMMA NoneMoves ==
  ASSUME NEW S, NEW f, NEW g, f = [x \in S |-> f[x]], g = [x \in S |-> g[x]],
         \A x \in S : g[x] = f[x]
  PROVE  g = f
OBVIOUS

\* The series seen as channels, now and after the step: functions, and their values.
LEMMA ChannelFunctions ==
  /\ Completed = [ch \in BarsOf |-> Completed[ch]] /\ Completed' = [ch \in BarsOf |-> Completed'[ch]]
  /\ OnTheBus = [ch \in BarsOf |-> OnTheBus[ch]] /\ OnTheBus' = [ch \in BarsOf |-> OnTheBus'[ch]]
  /\ Listened = [ch \in BarsOf |-> Listened[ch]] /\ Listened' = [ch \in BarsOf |-> Listened'[ch]]
BY Zenon DEF Completed, OnTheBus, Listened

LEMMA CompletedAre ==
  \A ch \in BarsOf :
    Completed[ch] = history[ch[1]][ch[2]] /\ Completed'[ch] = history'[ch[1]][ch[2]]
BY Zenon DEF Completed

LEMMA WaitingAre ==
  \A ch \in BarsOf :
    /\ OnTheBus[ch] = WaitingBars(queue, ch[1], Label[ch[2]])
    /\ OnTheBus'[ch] = WaitingBars(queue', ch[1], Label[ch[2]])
BY Zenon DEF OnTheBus

LEMMA ListenedAre ==
  \A ch \in BarsOf :
    /\ Listened[ch] = history[ch[1]][Label[ch[2]]]
    /\ Listened'[ch] = history'[ch[1]][Label[ch[2]]]
BY Zenon DEF Listened

\* The first bar of a series that waits, and those behind it.
LEMMA FirstBar ==
  ASSUME NEW c \in Candle, NEW rest \in Seq(Candle)
  PROVE  <<c>> \o rest # <<>> /\ Head(<<c>> \o rest) = c /\ Tail(<<c>> \o rest) = rest
<1> DEFINE bars == <<c>> \o rest
<1>1. /\ bars \in Seq(Candle) /\ Len(bars) = 1 + Len(rest) /\ Len(rest) \in Nat /\ bars[1] = c
      /\ \A i \in 1..Len(rest) : bars[i + 1] = rest[i]
  <2>1. <<c>> \in Seq(Candle) /\ Len(<<c>>) = 1 /\ <<c>>[1] = c
    OBVIOUS
  <2>. QED
    BY <2>1, ConcatProperties
<1> HIDE DEF bars
<1>2. bars # <<>>
  BY <1>1, EmptySeq
<1>3. /\ Head(bars) = c /\ Tail(bars) \in Seq(Candle) /\ Len(Tail(bars)) = Len(rest)
      /\ \A i \in 1..Len(rest) : Tail(bars)[i] = rest[i]
  BY <1>1, <1>2, HeadTailProperties
<1>4. Tail(bars) = rest
  BY <1>3, SeqEqual
<1>. QED
  BY <1>2, <1>3, <1>4 DEF bars

\* A completed bar goes on its way behind those that wait, or is the last.
LEMMA BarIsSent ==
  ASSUME LabelsApart, MarketShape, BarCompletes
  PROVE  \E ch \in BarsOf : Channel!Send(ch)
<1> DEFINE e  == CandleEvent(consumer.stream, Label[TF], Bar)
           ch == <<consumer.stream, TF>>
<1>1. /\ consumer.stream \in Streams /\ TF \in Names /\ Bar \in Candle
      /\ Stored(consumer.stream, TF, Bar)
  BY TickStateShape, TradeTyped DEF BarCompletes, MarketShape, TypeOK
<1>2. consumer # Stuck
  BY DEF BarCompletes, Stuck
<1>3. /\ history'[consumer.stream][TF] = Append(history[consumer.stream][TF], Bar)
      /\ \A t \in Streams, k \in Series :
           t # consumer.stream \/ k # TF => history'[t][k] = history[t][k]
  BY <1>1, LabelTyped, StoredTyped, SMTT(30) DEF MarketShape
<1>4. ch \in BarsOf /\ ch[1] = consumer.stream /\ ch[2] = TF
  BY <1>1, ChannelsAre
<1>5. /\ Last(history'[consumer.stream][TF]) = Bar
      /\ Len(history'[consumer.stream][TF]) > Len(history[consumer.stream][TF])
  <2>1. history[consumer.stream][TF] \in Seq(Candle)
    BY <1>1, ArrivesTyped
  <2>. QED
    BY <1>1, <1>3, <2>1, AppendProperties DEF Last
<1>6. \A x \in BarsOf : x # ch => x[1] # consumer.stream \/ x[2] # TF
  BY <1>1, ChannelsAre, Zenon
<1> HIDE DEF ch
<1>7. Completed' = [Completed EXCEPT ![ch] = Append(Completed[ch], Bar)]
  <2>1. Completed'[ch] = Append(Completed[ch], Bar)
    BY <1>3, <1>4, CompletedAre, Zenon
  <2>2. \A x \in BarsOf : x # ch => Completed'[x] = Completed[x]
    BY <1>3, <1>6, ChannelsAre, LabelTyped, CompletedAre, Zenon
  <2>. QED
    BY <1>4, <2>1, <2>2, ChannelFunctions, OneMoves, Zenon
<1>8. Listened' = Listened
  <2>1. \A x \in BarsOf : Listened'[x] = Listened[x]
    <3>1. \A x \in BarsOf : Label[x[2]] \in Series /\ Label[x[2]] # TF /\ x[1] \in Streams
      BY <1>1, ChannelsAre, LabelTyped, Zenon DEF LabelsApart
    <3>. QED
      BY <1>3, <3>1, ListenedAre, Zenon
  <2>. QED
    BY <2>1, ChannelFunctions, NoneMoves, Zenon
<1>9. \/ OnTheBus' = [OnTheBus EXCEPT ![ch] = Append(OnTheBus[ch], Bar)] /\ consumer' # Stuck
      \/ OnTheBus' = OnTheBus /\ consumer' = Stuck
  <2>1. CASE Len(queue) < QueueCap
    <3>1. queue' = Append(queue, e) /\ consumer' = NextTimeframe
      BY <2>1 DEF BarCompletes, HandlerPublishes
    <3>2. NextTimeframe # Stuck
      BY TickStateShape DEF BarCompletes, MarketShape, TypeOK, Busy, Idle, Stuck
    <3>3. e \in EventSet /\ e.candle = Bar
      BY <1>1, LabelTyped, EventsMade DEF CandleEvent
    <3>4. \A x \in BarsOf : IsBarOf(e, x[1], Label[x[2]]) <=> x = ch
      <4>1. \A x \in BarsOf : IsBarOf(e, x[1], Label[x[2]]) <=> x[1] = consumer.stream /\ x[2] = TF
        BY <1>1, ChannelsAre DEF IsBarOf, CandleEvent, LabelsApart
      <4>. QED
        BY <1>4, <1>6, <4>1, Zenon
    <3> HIDE DEF e
    <3>5. \A x \in BarsOf : OnTheBus'[x] = IF x = ch THEN Append(OnTheBus[x], Bar) ELSE OnTheBus[x]
      <4>1. queue \in Seq(EventSet)
        BY DEF MarketShape, TypeOK
      <4>2. \A x \in BarsOf :
              WaitingBars(queue', x[1], Label[x[2]]) =
                IF IsBarOf(e, x[1], Label[x[2]])
                THEN Append(WaitingBars(queue, x[1], Label[x[2]]), e.candle)
                ELSE WaitingBars(queue, x[1], Label[x[2]])
        BY <3>1, <3>3, <4>1, WaitingAppends, Zenon
      <4>. QED
        BY <3>3, <3>4, <4>2, WaitingAre, Zenon
    <3>6. OnTheBus' = [OnTheBus EXCEPT ![ch] = Append(OnTheBus[ch], Bar)]
      <4>1. OnTheBus'[ch] = Append(OnTheBus[ch], Bar)
        BY <1>4, <3>5, Zenon
      <4>2. \A x \in BarsOf : x # ch => OnTheBus'[x] = OnTheBus[x]
        BY <3>5, Zenon
      <4>. QED
        BY <1>4, <4>1, <4>2, ChannelFunctions, OneMoves, Zenon
    <3>. QED
      BY <3>1, <3>2, <3>6
  <2>2. CASE ~(Len(queue) < QueueCap)
    <3>1. queue' = queue /\ consumer' = Stuck
      BY <2>2 DEF BarCompletes, HandlerPublishes
    <3>2. \A x \in BarsOf : OnTheBus'[x] = OnTheBus[x]
      BY <3>1, WaitingAre, Zenon
    <3>. QED
      BY <3>1, <3>2, ChannelFunctions, NoneMoves, Zenon
  <2>. QED
    BY <2>1, <2>2
<1>10. Completed'[ch] = history'[consumer.stream][TF] /\ Completed[ch] = history[consumer.stream][TF]
  BY <1>4, CompletedAre, Zenon
<1>11. Channel!Send(ch)
  <2>1. Channel!Last(Completed'[ch]) = Bar /\ Len(Completed'[ch]) > Len(Completed[ch])
    BY <1>5, <1>10, Zenon DEF Last, Channel!Last
  <2>2. Completed' = [Completed EXCEPT ![ch] = Append(Completed[ch], Channel!Last(Completed'[ch]))]
    BY <1>7, <2>1, Zenon
  <2>3. \/ /\ OnTheBus' = [OnTheBus EXCEPT ![ch] = Append(OnTheBus[ch], Channel!Last(Completed'[ch]))]
           /\ UNCHANGED (consumer = Stuck)
        \/ OnTheBus' = OnTheBus /\ (consumer = Stuck)' = TRUE
    BY <1>2, <1>9, <2>1, Zenon
  <2>. QED
    BY <1>2, <1>8, <2>1, <2>2, <2>3, Zenon DEF Channel!Send, Channel!Added
<1>. QED
  BY <1>4, <1>11

\* A bar that the listener stores is the first of its series that waits.
LEMMA BarIsDelivered ==
  ASSUME LabelsApart, MarketShape, CandleStored \/ CandleSignals
  PROVE  \E ch \in BarsOf : Channel!Deliver(ch)
<1> DEFINE e == Head(queue)
<1>1. Takes("CANDLE") /\ Stored(e.stream, e.label, e.candle)
  BY DEF CandleStored, CandleSignals, Event
<1>2. /\ queue \in Seq(EventSet) /\ queue # <<>> /\ Tail(queue) \in Seq(EventSet)
      /\ e.type = "CANDLE" /\ consumer = Idle /\ Len(Tail(queue)) < QueueCap
      /\ e.stream \in Streams /\ e.label \in Labels /\ e.candle \in Candle
  <2>1. Len(queue) <= QueueCap /\ Len(Tail(queue)) = Len(queue) - 1 /\ QueueCap \in Nat
        /\ Len(queue) \in Nat
    BY <1>1, TakenShape, BoundsAssumption DEF MarketShape, TypeOK
  <2>2. Len(Tail(queue)) < QueueCap
    BY <2>1
  <2>. QED
    BY <1>1, <2>2, TakenShape DEF Event, Takes
<1>3. PICK g \in Names : e.label = Label[g]
  BY <1>2 DEF Labels
<1> DEFINE ch == <<e.stream, g>>
<1>4. ch \in BarsOf /\ ch[1] = e.stream /\ ch[2] = g
      /\ \A x \in BarsOf : x # ch => x[1] # e.stream \/ x[2] # g
  BY <1>2, ChannelsAre
<1> HIDE DEF ch
<1>5. /\ history'[e.stream][e.label] = Append(history[e.stream][e.label], e.candle)
      /\ \A t \in Streams, k \in Series :
           t # e.stream \/ k # e.label => history'[t][k] = history[t][k]
  <2>1. e.label \in Series
    BY <1>2 DEF Series
  <2> HIDE DEF e
  <2>. QED
    BY <1>1, <1>2, <2>1, StoredTyped, Zenon DEF MarketShape
<1>6. consumer # Stuck /\ consumer' # Stuck
      /\ \A s, label : WaitingBars(queue', s, label) = WaitingBars(Tail(queue), s, label)
  <2>1. CASE CandleStored
    BY <1>2, <2>1 DEF CandleStored, Idle, Stuck
  <2>2. CASE CandleSignals
    <3>1. queue' = Append(Tail(queue), [type |-> "SIGNAL"]) /\ consumer' = Idle
      BY <1>2, <2>2 DEF CandleSignals, HandlerPublishes
    <3>2. [type |-> "SIGNAL"] \in EventSet /\ [type |-> "SIGNAL"].type # "CANDLE"
      BY EventsMade
    <3>3. \A s, label : WaitingBars(queue', s, label) = WaitingBars(Tail(queue), s, label)
      BY <1>2, <3>1, <3>2, OthersPass, Zenon
    <3>. QED
      BY <1>2, <3>1, <3>3 DEF Idle, Stuck
  <2>. QED
    BY <2>1, <2>2
<1>7. \A s, label : WaitingBars(queue, s, label) =
        IF IsBarOf(e, s, label) THEN <<e.candle>> \o WaitingBars(Tail(queue), s, label)
        ELSE WaitingBars(Tail(queue), s, label)
  BY <1>2, WaitingTakes, Zenon
<1> HIDE DEF e
<1>8. \A x \in BarsOf : IsBarOf(e, x[1], Label[x[2]]) <=> x = ch
  <2>1. \A x \in BarsOf : IsBarOf(e, x[1], Label[x[2]]) <=> x[1] = e.stream /\ x[2] = g
    BY <1>2, <1>3, ChannelsAre DEF IsBarOf, LabelsApart
  <2>. QED
    BY <1>4, <2>1, Zenon
<1>9. Completed' = Completed
  <2>1. \A x \in BarsOf : x[1] \in Streams /\ x[2] \in Series /\ x[2] # e.label
    BY <1>3, ChannelsAre, LabelTyped, Zenon DEF LabelsApart
  <2>2. \A x \in BarsOf : Completed'[x] = Completed[x]
    BY <1>5, <2>1, CompletedAre, Zenon
  <2>. QED
    BY <2>2, ChannelFunctions, NoneMoves, Zenon
<1>10. OnTheBus[ch] = <<e.candle>> \o OnTheBus'[ch] /\ OnTheBus'[ch] \in Seq(Candle)
       /\ \A x \in BarsOf : x # ch => OnTheBus'[x] = OnTheBus[x]
  <2>1. \A x \in BarsOf :
          /\ OnTheBus[x] = WaitingBars(queue, x[1], Label[x[2]])
          /\ OnTheBus'[x] = WaitingBars(Tail(queue), x[1], Label[x[2]])
    BY <1>6, WaitingAre, Zenon
  <2>2. ASSUME NEW x \in BarsOf
        PROVE  OnTheBus[x] = IF x = ch THEN <<e.candle>> \o OnTheBus'[x] ELSE OnTheBus'[x]
    <3>1. WaitingBars(queue, x[1], Label[x[2]]) =
            IF IsBarOf(e, x[1], Label[x[2]])
            THEN <<e.candle>> \o WaitingBars(Tail(queue), x[1], Label[x[2]])
            ELSE WaitingBars(Tail(queue), x[1], Label[x[2]])
      BY <1>7, Zenon
    <3>. QED
      BY <1>8, <2>1, <3>1, Zenon
  <2>3. OnTheBus'[ch] \in Seq(Candle)
    <3>1. WaitingBars(Tail(queue), ch[1], Label[ch[2]]) \in Seq(Candle)
      BY <1>2, WaitingTyped, Zenon
    <3>. QED
      BY <1>4, <2>1, <3>1, Zenon
  <2>. QED
    BY <1>4, <2>2, <2>3, Zenon
<1>11. /\ OnTheBus[ch] # <<>> /\ Head(OnTheBus[ch]) = e.candle
       /\ OnTheBus' = [OnTheBus EXCEPT ![ch] = Tail(OnTheBus[ch])]
  <2>1. OnTheBus[ch] # <<>> /\ Head(OnTheBus[ch]) = e.candle /\ Tail(OnTheBus[ch]) = OnTheBus'[ch]
    <3>1. PICK rest \in Seq(Candle) : rest = OnTheBus'[ch]
      BY <1>10, Zenon
    <3>. QED
      BY <1>2, <1>10, <3>1, FirstBar, Zenon
  <2>2. OnTheBus'[ch] = Tail(OnTheBus[ch])
    BY <2>1, Zenon
  <2>3. \A x \in BarsOf : x # ch => OnTheBus'[x] = OnTheBus[x]
    BY <1>10, Zenon
  <2>4. OnTheBus' = [OnTheBus EXCEPT ![ch] = Tail(OnTheBus[ch])]
    BY <1>4, <2>2, <2>3, ChannelFunctions, OneMoves, Zenon
  <2>. QED
    BY <2>1, <2>4
<1>12. Listened' = [Listened EXCEPT ![ch] = Append(Listened[ch], e.candle)]
  <2>1. Listened'[ch] = Append(Listened[ch], e.candle)
    BY <1>3, <1>4, <1>5, ListenedAre, Zenon
  <2>2. \A x \in BarsOf : x # ch => Listened'[x] = Listened[x]
    <3>1. \A x \in BarsOf : x # ch => x[1] \in Streams /\ Label[x[2]] \in Series
                                      /\ (x[1] # e.stream \/ Label[x[2]] # e.label)
      BY <1>3, <1>4, ChannelsAre, LabelTyped, Zenon DEF LabelsApart
    <3>. QED
      BY <1>5, <3>1, ListenedAre, Zenon
  <2>. QED
    BY <1>4, <2>1, <2>2, ChannelFunctions, OneMoves, Zenon
<1>13. Channel!Deliver(ch)
  BY <1>6, <1>9, <1>11, <1>12, Zenon DEF Channel!Deliver, Channel!Added
<1>. QED
  BY <1>4, <1>13

\* Whatever else happens leaves the channels alone, or breaks them.
LEMMA OthersLeaveChannels ==
  ASSUME UNCHANGED history,
         \A s, label : WaitingBars(queue', s, label) = WaitingBars(queue, s, label)
  PROVE  UNCHANGED <<Completed, OnTheBus, Listened>>
<1>1. /\ \A x \in BarsOf : Completed'[x] = Completed[x]
      /\ \A x \in BarsOf : OnTheBus'[x] = OnTheBus[x]
      /\ \A x \in BarsOf : Listened'[x] = Listened[x]
  <2>1. \A x \in BarsOf : Completed'[x] = Completed[x]
    BY CompletedAre, Zenon
  <2>2. \A x \in BarsOf : OnTheBus'[x] = OnTheBus[x]
    BY WaitingAre, Zenon
  <2>3. \A x \in BarsOf : Listened'[x] = Listened[x]
    BY ListenedAre, Zenon
  <2>. QED
    BY <2>1, <2>2, <2>3
<1>2. Completed' = Completed
  BY <1>1, ChannelFunctions, NoneMoves, Zenon
<1>3. OnTheBus' = OnTheBus
  BY <1>1, ChannelFunctions, NoneMoves, Zenon
<1>4. Listened' = Listened
  BY <1>1, ChannelFunctions, NoneMoves, Zenon
<1>. QED
  BY <1>2, <1>3, <1>4

\* The bus with its events, trades, timeframes and one consumer implements a channel a series
\* that loses, repeats and reorders nothing, for any feeds, timeframes, queue and gates.
THEOREM BarsAreDelivered == ASSUME LabelsApart PROVE Spec => DeliversBars
<1>1. Init => Channel!ChannelInit
  <2> SUFFICES ASSUME Init PROVE Channel!ChannelInit
    OBVIOUS
  <2>1. \A x \in BarsOf : Completed[x] = <<>> /\ OnTheBus[x] = <<>> /\ Listened[x] = <<>>
    BY ChannelsAre, LabelTyped, CompletedAre, WaitingAre, ListenedAre, WaitingNone DEF Init
  <2>2. consumer # Stuck
    BY DEF Init, Idle, Stuck
  <2>3. Completed = [x \in BarsOf |-> <<>>] /\ OnTheBus = [x \in BarsOf |-> <<>>]
        /\ Listened = [x \in BarsOf |-> <<>>]
    BY <2>1, ChannelFunctions
  <2>. QED
    BY <2>2, <2>3, Zenon DEF Channel!ChannelInit
<1>2. MarketShape /\ [Next]_vars => [Channel!ChannelNext]_Channel!channelVars
  <2> SUFFICES ASSUME MarketShape, [Next]_vars
               PROVE  [Channel!ChannelNext]_Channel!channelVars
    OBVIOUS
  <2>1. CASE BarCompletes
    BY <2>1, BarIsSent, Zenon DEF Channel!ChannelNext
  <2>2. CASE CandleStored \/ CandleSignals
    BY <2>2, BarIsDelivered, Zenon DEF Channel!ChannelNext
  <2>3. CASE ~(BarCompletes \/ CandleStored \/ CandleSignals)
    <3>1. UNCHANGED <<Completed, OnTheBus, Listened>>
      <4>1. CASE UNCHANGED vars
        BY <4>1, OthersLeaveChannels DEF vars, candles
      <4>2. CASE Next
        BY <2>3, <4>2, OthersMoveNoBar, OthersLeaveChannels DEF Next, Consume
      <4>. QED
        BY <4>1, <4>2
    <3>2. CASE consumer' = Stuck /\ consumer # Stuck
      BY <3>1, <3>2, Zenon DEF Channel!ChannelNext, Channel!Breaks
    <3>3. CASE (consumer' = Stuck) = (consumer = Stuck)
      BY <3>1, <3>3, Zenon DEF Channel!channelVars
    <3>4. consumer = Stuck => consumer' = Stuck
      BY StuckStays DEF vars
    <3>. QED
      BY <3>2, <3>3, <3>4
  <2>. QED
    BY <2>1, <2>2, <2>3
<1>. QED
  BY <1>1, <1>2, MarketShapeHolds, PTL DEF Spec, DeliversBars, Channel!ChannelSpec

----------------------------------------------------------------------------
(* Trades come in order. *)

\* No trade is late.
TradesInOrder == MaxLate = 0

IsTickOf(e, s) == e.type = "TICK" /\ e.stream = s

\* What a stream's trades had as their time, handled or queued, is at most t.
Upto(q, h, s, t) ==
  /\ \A k \in 1..Len(h[s]) : h[s][k].at <= t
  /\ \A i \in 1..Len(q) : IsTickOf(q[i], s) => q[i].tick.at <= t

InOrder(ticks) == \A i, j \in 1..Len(ticks) : i <= j => ticks[i].at <= ticks[j].at

\* The trades of each stream, those handled and then those queued, are in order.
Ordered(q, h) ==
  /\ \A s \in Streams : InOrder(h[s])
  /\ \A s \in Streams : \A i \in 1..Len(q) : IsTickOf(q[i], s) =>
       /\ \A k \in 1..Len(h[s]) : h[s][k].at <= q[i].tick.at
       /\ \A j \in 1..Len(q) : i <= j /\ IsTickOf(q[j], s) => q[i].tick.at <= q[j].tick.at

FeedsInOrder ==
  /\ Ordered(queue, handled)
  /\ \A s \in Streams : Upto(queue, handled, s, now)
  /\ \A s \in Streams : pending[s] # NoTick =>
       pending[s].at <= now /\ Upto(queue, handled, s, pending[s].at)

\* A stream's bucket of a timeframe, of the i-th of its trades.
BucketOf(ticks, tf, i) ==
  ticks[1].at + ((ticks[i].at - ticks[1].at) \div Seconds[tf]) * Seconds[tf]

\* c is the candle of its bucket's trades among the first m: f is the first of them, l the
\* last, h and w are one of the highest and one of the lowest.
Shows(c, ticks, tf, m, f, l, h, w) ==
  /\ \A i \in {f, l, h, w} : BucketOf(ticks, tf, i) = c.bucket
  /\ \A i \in 1..m : BucketOf(ticks, tf, i) = c.bucket =>
       f <= i /\ i <= l /\ ticks[i].price <= ticks[h].price /\ ticks[w].price <= ticks[i].price
  /\ c.open = ticks[f].price /\ c.close = ticks[l].price
  /\ c.high = ticks[h].price /\ c.low = ticks[w].price

CandleOf(c, ticks, tf, m) == \E f, l, h, w \in 1..m : Shows(c, ticks, tf, m, f, l, h, w)

\* The trade under way has not come to this timeframe yet.
ToDo(s, tf) ==
  consumer.pc = "tick" /\ consumer.stream = s /\ tf \in Range(consumer.left)

Done(s, tf) == IF ToDo(s, tf) THEN Len(handled[s]) - 1 ELSE Len(handled[s])

\* The bar under way is of the trades that came to it, and is the last trade's.
BarIsOf(s, tf) ==
  IF Done(s, tf) = 0 THEN current[s][tf] = NoCandle
  ELSE /\ current[s][tf] \in Candle
       /\ CandleOf(current[s][tf], handled[s], tf, Done(s, tf))
       /\ current[s][tf].bucket = BucketOf(handled[s], tf, Done(s, tf))

\* A bar that is stored is of all its stream's trades, and older than the last of them.
StoredAreOf(s, tf) ==
  \A i \in 1..Len(history[s][tf]) :
    /\ CandleOf(history[s][tf][i], handled[s], tf, Len(handled[s]))
    /\ history[s][tf][i].bucket < BucketOf(handled[s], tf, Len(handled[s]))

CandleInv ==
  \A s \in Streams, tf \in Names : (consumer # Stuck => BarIsOf(s, tf)) /\ StoredAreOf(s, tf)

LEMMA TickTyped ==
  /\ \A tick \in Tick : tick.at \in 0..MaxTime /\ tick.at \in Nat /\ tick.price \in Prices
  /\ NoTick \notin Tick
<1>1. \A tick \in Tick : tick.at \in 0..MaxTime /\ tick.price \in Prices
  BY DEF Tick
<1>2. 0..MaxTime \subseteq Nat
  BY BoundsAssumption
<1>. QED
  BY <1>1, <1>2 DEF NoTick

\* What is added at the end of the queue.
LEMMA OrderedAppend ==
  ASSUME NEW q \in Seq(EventSet), NEW h \in [Streams -> Seq(Tick)], Ordered(q, h),
         NEW e \in EventSet, e.type = "TICK" => Upto(q, h, e.stream, e.tick.at)
  PROVE  Ordered(Append(q, e), h)
<1> DEFINE r == Append(q, e)
<1>1. /\ r \in Seq(EventSet) /\ Len(r) = Len(q) + 1 /\ Len(q) \in Nat
      /\ r[Len(q) + 1] = e /\ \A i \in 1..Len(q) : r[i] = q[i]
  BY QueueMoves
<1> HIDE DEF r
<1>2. ASSUME NEW s \in Streams, NEW i \in 1..Len(r), IsTickOf(r[i], s)
      PROVE  \A k \in 1..Len(h[s]) : h[s][k].at <= r[i].tick.at
  <2>1. CASE i \in 1..Len(q)
    BY <1>1, <1>2, <2>1 DEF Ordered
  <2>2. CASE i = Len(q) + 1
    BY <1>1, <1>2, <2>2 DEF Upto, IsTickOf
  <2>. QED
    BY <1>1, <2>1, <2>2
<1>3. ASSUME NEW s \in Streams, NEW i \in 1..Len(r), IsTickOf(r[i], s),
             NEW j \in 1..Len(r), i <= j, IsTickOf(r[j], s)
      PROVE  r[i].tick.at <= r[j].tick.at
  <2>1. CASE j \in 1..Len(q)
    <3>1. i \in 1..Len(q)
      BY <1>1, <1>3, <2>1
    <3>. QED
      BY <1>1, <1>3, <2>1, <3>1 DEF Ordered
  <2>2. CASE j = Len(q) + 1 /\ i \in 1..Len(q)
    BY <1>1, <1>3, <2>2, Zenon DEF Upto, IsTickOf
  <2>3. CASE i = Len(q) + 1 /\ j = i
    <3>1. r[i].tick \in Tick
      BY <1>1, <1>3, EventShape DEF IsTickOf
    <3>2. r[i].tick.at \in Nat
      BY <3>1, TickTyped
    <3>. QED
      BY <2>3, <3>2
  <2>. QED
    BY <1>1, <1>3, <2>1, <2>2, <2>3
<1>. QED
  BY <1>2, <1>3 DEF Ordered, r

LEMMA UptoAppend ==
  ASSUME NEW q \in Seq(EventSet), NEW h, NEW e \in EventSet, NEW s, NEW t, Upto(q, h, s, t),
         IsTickOf(e, s) => e.tick.at <= t
  PROVE  Upto(Append(q, e), h, s, t)
<1> DEFINE r == Append(q, e)
<1>1. /\ Len(r) = Len(q) + 1 /\ Len(q) \in Nat
      /\ r[Len(q) + 1] = e /\ \A i \in 1..Len(q) : r[i] = q[i]
  BY QueueMoves
<1> HIDE DEF r
<1>2. ASSUME NEW i \in 1..Len(r), IsTickOf(r[i], s) PROVE r[i].tick.at <= t
  <2>1. i \in 1..Len(q) \/ i = Len(q) + 1
    BY <1>1
  <2>. QED
    BY <1>1, <1>2, <2>1 DEF Upto
<1>. QED
  BY <1>2 DEF Upto, r

\* What is taken off it.
LEMMA OrderedTail ==
  ASSUME NEW q \in Seq(EventSet), q # <<>>, NEW h
  PROVE  /\ Ordered(q, h) => Ordered(Tail(q), h)
         /\ \A s, t : Upto(q, h, s, t) => Upto(Tail(q), h, s, t)
<1> DEFINE r == Tail(q)
<1>1. Len(r) = Len(q) - 1 /\ Len(q) \in Nat \ {0} /\ \A i \in 1..Len(q) - 1 : r[i] = q[i + 1]
  BY QueueMoves, EmptySeq
<1>2. \A i \in 1..Len(r) : i + 1 \in 1..Len(q) /\ r[i] = q[i + 1]
  BY <1>1
<1>3. \A i, j \in 1..Len(r) : i <= j => i + 1 <= j + 1
  BY <1>1
<1> HIDE DEF r
<1>. QED
  BY <1>2, <1>3 DEF Ordered, Upto, r

\* A trade that is taken off is handled.
LEMMA OrderedTake ==
  ASSUME NEW q \in Seq(EventSet), q # <<>>, NEW h \in [Streams -> Seq(Tick)], Ordered(q, h),
         Head(q).type = "TICK", NEW new,
         new = [h EXCEPT ![Head(q).stream] = Append(h[Head(q).stream], Head(q).tick)]
  PROVE  /\ Ordered(Tail(q), new)
         /\ \A s \in Streams : \A t : Upto(q, h, s, t) => Upto(Tail(q), new, s, t)
<1> DEFINE r == Tail(q)
           e == Head(q)
<1>1. /\ Len(r) = Len(q) - 1 /\ Len(q) \in Nat \ {0} /\ e = q[1] /\ e \in EventSet
      /\ \A i \in 1..Len(q) - 1 : r[i] = q[i + 1]
  BY QueueMoves, EmptySeq
<1>2. \A i \in 1..Len(r) : i + 1 \in 1..Len(q) /\ r[i] = q[i + 1] /\ 1 <= i + 1
  BY <1>1
<1>3. e.stream \in Streams /\ e.tick \in Tick /\ IsTickOf(e, e.stream)
  BY <1>1, EventShape DEF IsTickOf
<1>4. h[e.stream] \in Seq(Tick)
  BY <1>3
<1>5. /\ new[e.stream] = Append(h[e.stream], e.tick)
      /\ \A s \in Streams : s # e.stream => new[s] = h[s]
  BY <1>3
<1>6. /\ Len(new[e.stream]) = Len(h[e.stream]) + 1 /\ Len(h[e.stream]) \in Nat
      /\ new[e.stream][Len(h[e.stream]) + 1] = e.tick
      /\ \A k \in 1..Len(h[e.stream]) : new[e.stream][k] = h[e.stream][k]
  BY <1>3, <1>4, <1>5, AppendProperties
<1>7. 1 \in 1..Len(q)
  BY <1>1
<1>8. \A k \in 1..Len(h[e.stream]) : h[e.stream][k].at <= e.tick.at
  BY <1>1, <1>3, <1>7 DEF Ordered
<1>9. \A i \in 1..Len(r) : IsTickOf(r[i], e.stream) => e.tick.at <= r[i].tick.at
  BY <1>1, <1>2, <1>3, <1>7 DEF Ordered
<1>10. e.tick.at \in Nat
  BY <1>3, TickTyped
<1> HIDE DEF r, e
<1>11. ASSUME NEW s \in Streams
       PROVE  InOrder(new[s])
  <2>1. CASE s # e.stream
    BY <1>5, <2>1 DEF Ordered
  <2>2. CASE s = e.stream
    <3> SUFFICES ASSUME NEW i \in 1..Len(new[s]), NEW j \in 1..Len(new[s]), i <= j
                 PROVE  new[s][i].at <= new[s][j].at
      BY DEF InOrder
    <3>1. CASE j \in 1..Len(h[s])
      <4>1. i \in 1..Len(h[s])
        BY <1>6, <2>2, <3>1
      <4>. QED
        BY <1>6, <2>2, <3>1, <4>1 DEF Ordered, InOrder
    <3>2. CASE j = Len(h[s]) + 1 /\ i \in 1..Len(h[s])
      BY <1>6, <1>8, <2>2, <3>2
    <3>3. CASE j = Len(h[s]) + 1 /\ i = j
      BY <1>6, <1>10, <2>2, <3>3
    <3>. QED
      BY <1>6, <2>2, <3>1, <3>2, <3>3
  <2>. QED
    BY <2>1, <2>2
<1>12. ASSUME NEW s \in Streams, NEW i \in 1..Len(r), IsTickOf(r[i], s)
       PROVE  /\ \A k \in 1..Len(new[s]) : new[s][k].at <= r[i].tick.at
              /\ \A j \in 1..Len(r) : i <= j /\ IsTickOf(r[j], s) => r[i].tick.at <= r[j].tick.at
  <2>1. \A k \in 1..Len(h[s]) : h[s][k].at <= r[i].tick.at
    BY <1>2, <1>12 DEF Ordered
  <2>2. \A k \in 1..Len(new[s]) : new[s][k].at <= r[i].tick.at
    <3>1. CASE s # e.stream
      BY <1>5, <2>1, <3>1
    <3>2. CASE s = e.stream
      <4>1. \A k \in 1..Len(new[s]) : k \in 1..Len(h[s]) \/ k = Len(h[s]) + 1
        BY <1>6, <3>2
      <4>. QED
        BY <1>6, <1>9, <1>12, <2>1, <3>2, <4>1
    <3>. QED
      BY <3>1, <3>2
  <2>3. ASSUME NEW j \in 1..Len(r), i <= j, IsTickOf(r[j], s)
        PROVE  r[i].tick.at <= r[j].tick.at
    <3>1. i + 1 <= j + 1
      BY <1>1, <2>3 DEF r
    <3>. QED
      BY <1>2, <1>12, <2>3, <3>1 DEF Ordered
  <2>. QED
    BY <2>2, <2>3, Zenon
<1>13. ASSUME NEW s \in Streams, NEW t, Upto(q, h, s, t)
       PROVE  Upto(r, new, s, t)
  <2>1. \A i \in 1..Len(r) : IsTickOf(r[i], s) => r[i].tick.at <= t
    BY <1>2, <1>13 DEF Upto
  <2>2. \A k \in 1..Len(new[s]) : new[s][k].at <= t
    <3>1. CASE s # e.stream
      BY <1>5, <1>13, <3>1 DEF Upto
    <3>2. CASE s = e.stream
      <4>1. \A k \in 1..Len(new[s]) : k \in 1..Len(h[s]) \/ k = Len(h[s]) + 1
        BY <1>6, <3>2
      <4>2. e.tick.at <= t
        BY <1>1, <1>3, <1>7, <1>13, <3>2 DEF Upto
      <4>. QED
        BY <1>6, <1>13, <3>2, <4>1, <4>2 DEF Upto
    <3>. QED
      BY <3>1, <3>2
  <2>. QED
    BY <2>1, <2>2 DEF Upto
<1>. QED
  BY <1>11, <1>12, <1>13, Zenon DEF Ordered, r

\* Events that are no trades pass by.
LEMMA OrderPassesOthers ==
  ASSUME NEW q \in Seq(EventSet), NEW h \in [Streams -> Seq(Tick)], Ordered(q, h),
         NEW e \in EventSet, e.type # "TICK"
  PROVE  /\ Ordered(Append(q, e), h)
         /\ \A s, t : Upto(q, h, s, t) => Upto(Append(q, e), h, s, t)
<1>1. Ordered(Append(q, e), h)
  BY OrderedAppend
<1>2. ASSUME NEW s, NEW t, Upto(q, h, s, t)
      PROVE  Upto(Append(q, e), h, s, t)
  <2>1. ~IsTickOf(e, s)
    BY DEF IsTickOf
  <2>. QED
    BY <1>2, <2>1, UptoAppend
<1>. QED
  BY <1>1, <1>2

\* What nobody but the consumer does to the queue, when it takes no trade.
LEMMA QueueStaysOrdered ==
  ASSUME MarketShape, FeedsInOrder, UNCHANGED <<now, pending, handled>>,
         \/ UNCHANGED queue
         \/ queue # <<>> /\ queue' = Tail(queue)
         \/ \E e \in EventSet : e.type # "TICK" /\ queue' = Append(queue, e)
         \/ queue # <<>> /\ \E e \in EventSet : e.type # "TICK" /\ queue' = Append(Tail(queue), e)
  PROVE  FeedsInOrder'
<1>1. queue \in Seq(EventSet) /\ handled \in [Streams -> Seq(Tick)]
  BY DEF MarketShape, TypeOK
<1>2. queue # <<>> => Tail(queue) \in Seq(EventSet)
  BY <1>1, EmptySeq, HeadTailProperties
<1>3. /\ Ordered(queue', handled)
      /\ \A s, t : Upto(queue, handled, s, t) => Upto(queue', handled, s, t)
  <2>1. CASE UNCHANGED queue
    BY <2>1 DEF FeedsInOrder
  <2>2. CASE queue # <<>> /\ queue' = Tail(queue)
    BY <1>1, <2>2, OrderedTail DEF FeedsInOrder
  <2>3. CASE \E e \in EventSet : e.type # "TICK" /\ queue' = Append(queue, e)
    BY <1>1, <2>3, OrderPassesOthers DEF FeedsInOrder
  <2>4. CASE queue # <<>> /\ \E e \in EventSet : e.type # "TICK" /\ queue' = Append(Tail(queue), e)
    <3>1. /\ Ordered(Tail(queue), handled)
          /\ \A s, t : Upto(queue, handled, s, t) => Upto(Tail(queue), handled, s, t)
      BY <1>1, <2>4, OrderedTail DEF FeedsInOrder
    <3>. QED
      BY <1>1, <1>2, <2>4, <3>1, OrderPassesOthers, Zenon
  <2>. QED
    BY <2>1, <2>2, <2>3, <2>4
<1>. QED
  BY <1>3 DEF FeedsInOrder

LEMMA ReceivedInOrder ==
  ASSUME TradesInOrder, MarketShape, FeedsInOrder, NEW s \in Streams, NEW tick \in Tick,
         Receive(s, tick)
  PROVE  FeedsInOrder'
<1>1. /\ queue \in Seq(EventSet) /\ handled \in [Streams -> Seq(Tick)] /\ now \in Nat
      /\ pending \in [Streams -> Tick \cup {NoTick}]
  <2>1. now \in 0..MaxTime /\ MaxTime \in Nat
    BY BoundsAssumption DEF MarketShape, TypeOK
  <2>. QED
    BY <2>1 DEF MarketShape, TypeOK
<1>2. tick.at = now
  BY <1>1, TickTyped DEF Receive, TradesInOrder
<1>3. pending[s] = NoTick /\ UNCHANGED <<now, handled>>
  BY DEF Receive
<1>4. CASE HasRoom
  <2> DEFINE e == TickEvent(s, tick)
  <2>1. e \in EventSet /\ e.type = "TICK" /\ e.stream = s /\ e.tick = tick
    BY EventsMade DEF TickEvent
  <2>2. queue' = Append(queue, e) /\ UNCHANGED pending
    BY <1>4 DEF Receive
  <2> HIDE DEF e
  <2>3. Ordered(queue', handled)
    BY <1>1, <1>2, <2>1, <2>2, OrderedAppend DEF FeedsInOrder
  <2>4. \A t \in Streams : Upto(queue', handled, t, now)
    BY <1>1, <1>2, <2>1, <2>2, UptoAppend DEF FeedsInOrder
  <2>5. ASSUME NEW t \in Streams, pending[t] # NoTick
        PROVE  pending[t].at <= now /\ Upto(queue', handled, t, pending[t].at)
    <3>1. ~IsTickOf(e, t)
      BY <1>3, <2>1, <2>5 DEF IsTickOf
    <3>. QED
      BY <1>1, <2>1, <2>2, <2>5, <3>1, UptoAppend DEF FeedsInOrder
  <2>. QED
    BY <1>3, <2>2, <2>3, <2>4, <2>5 DEF FeedsInOrder
<1>5. CASE ~HasRoom
  <2>1. UNCHANGED queue /\ pending' = [pending EXCEPT ![s] = tick]
    BY <1>5 DEF Receive
  <2>2. pending'[s] = tick /\ \A t \in Streams : t # s => pending'[t] = pending[t]
    BY <1>1, <2>1
  <2>3. tick.at <= now
    BY <1>1, <1>2
  <2>. QED
    BY <1>2, <1>3, <2>1, <2>2, <2>3 DEF FeedsInOrder
<1>. QED
  BY <1>4, <1>5

LEMMA ResumedInOrder ==
  ASSUME MarketShape, FeedsInOrder, NEW s \in Streams, FeedResumes(s)
  PROVE  FeedsInOrder'
<1> DEFINE e == TickEvent(s, pending[s])
<1>1. /\ queue \in Seq(EventSet) /\ handled \in [Streams -> Seq(Tick)]
      /\ pending \in [Streams -> Tick \cup {NoTick}]
  BY DEF MarketShape, TypeOK
<1>2. /\ pending[s] # NoTick /\ UNCHANGED <<now, handled>> /\ queue' = Append(queue, e)
      /\ pending' = [pending EXCEPT ![s] = NoTick]
  BY DEF FeedResumes
<1>3. pending[s] \in Tick
  BY <1>1, <1>2
<1>4. e \in EventSet /\ e.type = "TICK" /\ e.stream = s /\ e.tick = pending[s]
  BY <1>3, EventsMade DEF TickEvent
<1> HIDE DEF e
<1>5. pending'[s] = NoTick /\ \A t \in Streams : t # s => pending'[t] = pending[t]
  BY <1>1, <1>2
<1>6. Ordered(queue', handled)
  BY <1>1, <1>2, <1>4, OrderedAppend, Zenon DEF FeedsInOrder
<1>7. \A t \in Streams : Upto(queue', handled, t, now)
  <2>1. pending[s].at <= now
    BY <1>2 DEF FeedsInOrder
  <2>. QED
    BY <1>1, <1>2, <1>4, <2>1, UptoAppend DEF FeedsInOrder
<1>8. ASSUME NEW t \in Streams, pending'[t] # NoTick
      PROVE  pending'[t].at <= now /\ Upto(queue', handled, t, pending'[t].at)
  <2>1. t # s /\ pending'[t] = pending[t]
    BY <1>5, <1>8
  <2>2. ~IsTickOf(e, t)
    BY <1>4, <2>1 DEF IsTickOf
  <2>. QED
    BY <1>1, <1>2, <1>4, <1>8, <2>1, <2>2, UptoAppend DEF FeedsInOrder
<1>. QED
  BY <1>2, <1>6, <1>7, <1>8 DEF FeedsInOrder

LEMMA TakenInOrder ==
  ASSUME MarketShape, FeedsInOrder, TakeTick
  PROVE  FeedsInOrder'
<1>1. queue \in Seq(EventSet) /\ handled \in [Streams -> Seq(Tick)] /\ queue # <<>>
  BY DEF MarketShape, TypeOK, TakeTick, Takes
<1>2. /\ queue' = Tail(queue) /\ Head(queue).type = "TICK" /\ UNCHANGED <<now, pending>>
      /\ handled' = [handled EXCEPT ![Head(queue).stream] =
                       Append(handled[Head(queue).stream], Head(queue).tick)]
  BY DEF TakeTick, Takes
<1>3. /\ Ordered(queue', handled')
      /\ \A s \in Streams : \A t : Upto(queue, handled, s, t) => Upto(queue', handled', s, t)
  BY <1>1, <1>2, OrderedTake, Zenon DEF FeedsInOrder
<1>. QED
  BY <1>2, <1>3, Zenon DEF FeedsInOrder

LEMMA ClockInOrder ==
  ASSUME MarketShape, FeedsInOrder, Clock
  PROVE  FeedsInOrder'
<1>1. /\ queue \in Seq(EventSet) /\ handled \in [Streams -> Seq(Tick)] /\ now \in Nat
      /\ pending \in [Streams -> Tick \cup {NoTick}]
  <2>1. now \in 0..MaxTime /\ MaxTime \in Nat
    BY BoundsAssumption DEF MarketShape, TypeOK
  <2>. QED
    BY <2>1 DEF MarketShape, TypeOK
<1>2. now' = now + 1 /\ UNCHANGED <<queue, handled, pending>>
  BY DEF Clock
<1>3. \A n \in Nat : n <= now => n <= now + 1
  BY <1>1
<1>4. ASSUME NEW s \in Streams
      PROVE  Upto(queue, handled, s, now + 1)
  <2>1. ASSUME NEW k \in 1..Len(handled[s])
        PROVE  handled[s][k].at <= now + 1
    <3>1. handled[s][k] \in Tick
      BY <1>1
    <3>. QED
      BY <1>3, <3>1, TickTyped DEF FeedsInOrder, Upto
  <2>2. ASSUME NEW i \in 1..Len(queue), IsTickOf(queue[i], s)
        PROVE  queue[i].tick.at <= now + 1
    <3>1. queue[i] \in EventSet
      BY <1>1
    <3>2. queue[i].tick \in Tick
      BY <2>2, <3>1, EventShape DEF IsTickOf
    <3>. QED
      BY <1>3, <2>2, <3>2, TickTyped DEF FeedsInOrder, Upto
  <2>. QED
    BY <2>1, <2>2 DEF Upto
<1>5. ASSUME NEW s \in Streams, pending[s] # NoTick
      PROVE  pending[s].at <= now + 1
  <2>1. pending[s] \in Tick
    BY <1>1, <1>5
  <2>. QED
    BY <1>3, <1>5, <2>1, TickTyped DEF FeedsInOrder
<1>. QED
  BY <1>2, <1>4, <1>5 DEF FeedsInOrder

LEMMA OrderStep ==
  ASSUME TradesInOrder, MarketShape, FeedsInOrder, [Next]_vars
  PROVE  FeedsInOrder'
<1>1. CASE UNCHANGED vars
  BY <1>1, QueueStaysOrdered DEF vars
<1>2. CASE BarGoesOn \/ ToggleAutoTrading
  BY <1>2, QueueStaysOrdered DEF BarGoesOn, ToggleAutoTrading
<1>3. CASE BarCompletes
  <2> DEFINE e == CandleEvent(consumer.stream, Label[TF], Bar)
  <2>1. e \in EventSet /\ e.type # "TICK"
    <3>1. consumer.stream \in Streams /\ TF \in Names /\ Bar \in Candle
      BY <1>3, TickStateShape, TradeTyped DEF BarCompletes, MarketShape, TypeOK
    <3>. QED
      BY <3>1, LabelTyped, EventsMade DEF CandleEvent
  <2>2. UNCHANGED <<now, pending, handled>> /\ (UNCHANGED queue \/ queue' = Append(queue, e))
    BY <1>3 DEF BarCompletes, HandlerPublishes
  <2> HIDE DEF e
  <2>. QED
    BY <2>1, <2>2, QueueStaysOrdered
<1>4. CASE CandleSignals
  <2>1. [type |-> "SIGNAL"] \in EventSet /\ [type |-> "SIGNAL"].type # "TICK"
    BY EventsMade
  <2>2. queue # <<>> /\ UNCHANGED <<now, pending, handled>>
    BY <1>4 DEF CandleSignals, Takes
  <2>3. queue' = Tail(queue) \/ queue' = Append(Tail(queue), [type |-> "SIGNAL"])
    BY <1>4 DEF CandleSignals, HandlerPublishes
  <2>. QED
    BY <2>1, <2>2, <2>3, QueueStaysOrdered
<1>5. CASE OrderAnswered
  <2>1. [type |-> "ORDER"] \in EventSet /\ [type |-> "ORDER"].type # "TICK"
    BY EventsMade
  <2>2. UNCHANGED <<now, pending, handled>>
    BY <1>5 DEF OrderAnswered
  <2>3. UNCHANGED queue \/ queue' = Append(queue, [type |-> "ORDER"])
    BY <1>5 DEF OrderAnswered, HandlerPublishes
  <2>. QED
    BY <2>1, <2>2, <2>3, QueueStaysOrdered
<1>6. CASE CandleStored \/ HandleSignal \/ HandleOrder
  <2>1. queue # <<>> /\ queue' = Tail(queue) /\ UNCHANGED <<now, pending, handled>>
    BY <1>6 DEF CandleStored, HandleSignal, HandleOrder, Takes
  <2>. QED
    BY <2>1, QueueStaysOrdered
<1>. QED
  BY <1>1, <1>2, <1>3, <1>4, <1>5, <1>6, ReceivedInOrder, ResumedInOrder, TakenInOrder,
     ClockInOrder DEF Next, Consume

LEMMA OrderStarts == Init => FeedsInOrder
<1> SUFFICES ASSUME Init PROVE FeedsInOrder
  OBVIOUS
<1>1. /\ queue = <<>> /\ Len(queue) = 0 /\ handled = [s \in Streams |-> <<>>]
      /\ pending = [s \in Streams |-> NoTick]
  BY EmptySeq DEF Init
<1>2. \A s \in Streams : handled[s] = <<>> /\ Len(handled[s]) = 0
  BY <1>1, EmptySeq
<1>. QED
  BY <1>1, <1>2 DEF FeedsInOrder, Ordered, InOrder, Upto

----------------------------------------------------------------------------
(* Buckets and candles of a sequence of trades. *)

LEMMA Multiples ==
  ASSUME NEW k \in Nat \ {0}, NEW p \in Int, NEW q \in Int, p <= q
  PROVE  p * k <= q * k /\ p * k \in Int
<1>1. PICK d \in Nat : q = p + d
  <2>1. q - p \in Nat /\ q = p + (q - p)
    OBVIOUS
  <2>. QED
    BY <2>1
<1>2. d * k \in Nat /\ p * k \in Int
  BY <1>1
<1>3. q * k = p * k + d * k
  BY <1>1
<1>. QED
  BY <1>2, <1>3

LEMMA Quotients ==
  ASSUME NEW k \in Nat, k > 0, NEW a \in Nat, NEW b \in Nat, a <= b
  PROVE  a \div k <= b \div k
OBVIOUS

LEMMA RoundsUp ==
  ASSUME NEW k \in Nat \ {0}, NEW a \in Nat, NEW b \in Nat, a <= b
  PROVE  /\ (a \div k) * k <= (b \div k) * k
         /\ (a \div k) * k \in Nat /\ (b \div k) * k \in Nat
<1> DEFINE p == a \div k
           q == b \div k
<1>1. p \in Nat /\ q \in Nat
  OBVIOUS
<1>2. p <= q
  BY Quotients
<1> HIDE DEF p, q
<1>3. p * k <= q * k /\ p * k \in Nat /\ q * k \in Nat
  BY <1>1, <1>2, Multiples
<1>. QED
  BY <1>3 DEF p, q

LEMMA TradeShape ==
  ASSUME NEW ticks \in Seq(Tick), NEW i \in 1..Len(ticks)
  PROVE  ticks[i] \in Tick /\ ticks[i].at \in Nat /\ ticks[i].price \in Prices /\ ticks[i].price \in Nat
         /\ Len(ticks) \in Nat \ {0} /\ 1 \in 1..Len(ticks)
<1>1. ticks[i] \in Tick
  OBVIOUS
<1>2. Prices \subseteq Nat
  BY BoundsAssumption
<1>3. ticks[i].at \in Nat /\ ticks[i].price \in Prices
  BY <1>1, TickTyped
<1>4. ticks[i].price \in Nat
  BY <1>2, <1>3
<1>. QED
  BY <1>1, <1>3, <1>4

LEMMA BucketsRise ==
  ASSUME NEW ticks \in Seq(Tick), InOrder(ticks), NEW tf \in Names,
         NEW i \in 1..Len(ticks), NEW j \in 1..Len(ticks), i <= j
  PROVE  /\ BucketOf(ticks, tf, i) \in Nat /\ BucketOf(ticks, tf, j) \in Nat
         /\ BucketOf(ticks, tf, i) <= BucketOf(ticks, tf, j)
<1> DEFINE start == ticks[1].at
           a     == ticks[i].at - start
           b     == ticks[j].at - start
           k     == Seconds[tf]
<1>1. 1 \in 1..Len(ticks) /\ 1 <= i /\ 1 <= j
  BY TradeShape
<1>2. start \in Nat /\ ticks[i].at \in Nat /\ ticks[j].at \in Nat
  BY <1>1, TradeShape
<1>3. start <= ticks[i].at /\ ticks[i].at <= ticks[j].at
  BY <1>1 DEF InOrder
<1>4. a \in Nat /\ b \in Nat /\ a <= b
  BY <1>2, <1>3
<1>5. k \in Nat \ {0}
  BY TimeframesShape
<1>6. BucketOf(ticks, tf, i) = start + (a \div k) * k /\ BucketOf(ticks, tf, j) = start + (b \div k) * k
  BY DEF BucketOf
<1> HIDE DEF a, b, k, start
<1>7. (a \div k) * k <= (b \div k) * k /\ (a \div k) * k \in Nat /\ (b \div k) * k \in Nat
  BY <1>4, <1>5, RoundsUp
<1>8. start \in Nat
  BY <1>2 DEF start
<1>. QED
  BY <1>6, <1>7, <1>8

\* A trade more leaves the buckets of the trades before it, and the candles of them.
LEMMA BucketsStay ==
  ASSUME NEW ticks \in Seq(Tick), NEW tick \in Tick, NEW tf, NEW i \in 1..Len(ticks)
  PROVE  BucketOf(Append(ticks, tick), tf, i) = BucketOf(ticks, tf, i)
<1>1. \A k \in 1..Len(ticks) : Append(ticks, tick)[k] = ticks[k] /\ 1 \in 1..Len(ticks)
  BY AppendProperties
<1>. QED
  BY <1>1 DEF BucketOf

LEMMA CandleStays ==
  ASSUME NEW ticks \in Seq(Tick), NEW tick \in Tick, NEW tf, NEW c, NEW m \in 0..Len(ticks),
         CandleOf(c, ticks, tf, m)
  PROVE  CandleOf(c, Append(ticks, tick), tf, m)
<1> DEFINE more == Append(ticks, tick)
<1>1. \A i \in 1..m : more[i] = ticks[i] /\ BucketOf(more, tf, i) = BucketOf(ticks, tf, i)
  <2>1. \A i \in 1..m : i \in 1..Len(ticks)
    OBVIOUS
  <2>. QED
    BY <2>1, BucketsStay, AppendProperties
<1> HIDE DEF more
<1>2. PICK f, l, h, w \in 1..m : Shows(c, ticks, tf, m, f, l, h, w)
  BY DEF CandleOf
<1>3. Shows(c, more, tf, m, f, l, h, w)
  BY <1>1, <1>2 DEF Shows
<1>4. CandleOf(c, more, tf, m)
  BY <1>3 DEF CandleOf
<1>. QED
  BY <1>4 DEF more

\* A trade of another bucket is no part of the candle.
LEMMA CandleStands ==
  ASSUME NEW ticks, NEW tf, NEW c, NEW m \in Nat, CandleOf(c, ticks, tf, m),
         BucketOf(ticks, tf, m + 1) # c.bucket
  PROVE  CandleOf(c, ticks, tf, m + 1)
<1>1. \A i \in 1..m + 1 : i \in 1..m \/ i = m + 1
  OBVIOUS
<1>2. 1..m \subseteq 1..m + 1
  OBVIOUS
<1>3. PICK f, l, h, w \in 1..m : Shows(c, ticks, tf, m, f, l, h, w)
  BY DEF CandleOf
<1>4. f \in 1..m + 1 /\ l \in 1..m + 1 /\ h \in 1..m + 1 /\ w \in 1..m + 1
  BY <1>2
<1>5. Shows(c, ticks, tf, m + 1, f, l, h, w)
  BY <1>1, <1>3 DEF Shows
<1>. QED
  BY <1>4, <1>5 DEF CandleOf

\* The first trade of a bucket is its candle.
LEMMA CandleBegins ==
  ASSUME NEW ticks \in Seq(Tick), NEW tf, NEW m \in Nat, m + 1 \in 1..Len(ticks),
         \A i \in 1..m : BucketOf(ticks, tf, i) # BucketOf(ticks, tf, m + 1)
  PROVE  CandleOf(NewCandle(BucketOf(ticks, tf, m + 1), ticks[m + 1].price), ticks, tf, m + 1)
<1> DEFINE c == NewCandle(BucketOf(ticks, tf, m + 1), ticks[m + 1].price)
<1>1. /\ c.bucket = BucketOf(ticks, tf, m + 1)
      /\ c.open = ticks[m + 1].price /\ c.close = ticks[m + 1].price
      /\ c.high = ticks[m + 1].price /\ c.low = ticks[m + 1].price
  BY DEF NewCandle
<1> HIDE DEF c
<1>2. ticks[m + 1].price \in Nat
  BY TradeShape
<1>3. \A i \in 1..m + 1 : BucketOf(ticks, tf, i) = c.bucket => i = m + 1
  BY <1>1
<1>4. m + 1 \in 1..m + 1 /\ m + 1 <= m + 1
  OBVIOUS
<1>5. \A i \in 1..m + 1 : BucketOf(ticks, tf, i) = c.bucket =>
        /\ m + 1 <= i /\ i <= m + 1
        /\ ticks[i].price <= ticks[m + 1].price /\ ticks[m + 1].price <= ticks[i].price
  BY <1>2, <1>3, <1>4
<1>6. Shows(c, ticks, tf, m + 1, m + 1, m + 1, m + 1, m + 1)
  BY <1>1, <1>5 DEF Shows
<1>7. CandleOf(c, ticks, tf, m + 1)
  BY <1>4, <1>6 DEF CandleOf
<1>. QED
  BY <1>7 DEF c

\* One trade more of its bucket is merged.
LEMMA CandleGoesOn ==
  ASSUME NEW ticks \in Seq(Tick), NEW tf, NEW m \in Nat, m + 1 \in 1..Len(ticks),
         NEW c \in Candle, CandleOf(c, ticks, tf, m), BucketOf(ticks, tf, m + 1) = c.bucket
  PROVE  CandleOf(Merged(c, ticks[m + 1].price), ticks, tf, m + 1)
<1> DEFINE p == ticks[m + 1].price
           d == Merged(c, p)
<1>1. p \in Prices /\ p \in Nat
  BY TradeShape
<1>2. /\ d.bucket = c.bucket /\ d.open = c.open /\ d.close = p
      /\ d.high \in {c.high, p} /\ d.high >= c.high /\ d.high >= p
      /\ d.low \in {c.low, p} /\ d.low <= c.low /\ d.low <= p
  BY <1>1, MergedTyped
<1>3. PICK f, l, h, w \in 1..m : Shows(c, ticks, tf, m, f, l, h, w)
  BY DEF CandleOf
<1> HIDE DEF d
<1>4. /\ \A i \in 1..m : i \in 1..m + 1 /\ i \in 1..Len(ticks) /\ i <= m + 1
      /\ \A i \in 1..m + 1 : i \in 1..m \/ i = m + 1
      /\ m + 1 \in 1..m + 1 /\ m + 1 <= m + 1
  OBVIOUS
<1>5. \A i \in 1..m + 1 : ticks[i].price \in Nat
  BY <1>4, TradeShape
<1>6. c.high \in Nat /\ c.low \in Nat
  BY <1>3, <1>4, <1>5 DEF Shows
<1>7. PICK high \in {h, m + 1} : d.high = ticks[high].price
  BY <1>2, <1>3 DEF Shows
<1>8. PICK low \in {w, m + 1} : d.low = ticks[low].price
  BY <1>2, <1>3 DEF Shows
<1>9. /\ f \in 1..m + 1 /\ high \in 1..m + 1 /\ low \in 1..m + 1 /\ m + 1 \in 1..m + 1
      /\ \A i \in {f, m + 1, high, low} : BucketOf(ticks, tf, i) = d.bucket
  BY <1>2, <1>3, <1>4, <1>7, <1>8 DEF Shows
<1>10. ASSUME NEW i \in 1..m + 1, BucketOf(ticks, tf, i) = d.bucket
       PROVE  /\ f <= i /\ i <= m + 1
              /\ ticks[i].price <= ticks[high].price /\ ticks[low].price <= ticks[i].price
  <2>1. CASE i = m + 1
    <3>1. f <= i
      BY <1>4, <2>1
    <3>2. ticks[i].price = p
      BY <2>1
    <3> HIDE DEF p
    <3>3. ticks[i].price <= ticks[high].price /\ ticks[low].price <= ticks[i].price
      BY <1>1, <1>2, <1>5, <1>7, <1>8, <1>9, <3>2
    <3>. QED
      BY <1>4, <2>1, <3>1, <3>3
  <2>2. CASE i \in 1..m
    <3>1. f <= i /\ ticks[i].price <= c.high /\ c.low <= ticks[i].price
      BY <1>2, <1>3, <1>10, <2>2 DEF Shows
    <3>2. d.high \in Nat /\ d.low \in Nat /\ ticks[i].price \in Nat
      BY <1>5, <1>7, <1>8, <1>9
    <3>3. ticks[i].price <= d.high /\ d.low <= ticks[i].price
      BY <1>2, <1>6, <3>1, <3>2
    <3>. QED
      BY <1>4, <1>7, <1>8, <2>2, <3>1, <3>3
  <2>. QED
    BY <1>4, <2>1, <2>2
<1>11. CandleOf(d, ticks, tf, m + 1)
  <2>1. d.open = ticks[f].price /\ d.close = ticks[m + 1].price
    BY <1>2, <1>3 DEF Shows
  <2>2. d.high = ticks[high].price /\ d.low = ticks[low].price
    BY <1>7, <1>8
  <2> HIDE DEF p
  <2>3. Shows(d, ticks, tf, m + 1, f, m + 1, high, low)
    BY <1>9, <1>10, <2>1, <2>2 DEF Shows
  <2>. QED
    BY <1>9, <2>3 DEF CandleOf
<1>. QED
  BY <1>11 DEF d

----------------------------------------------------------------------------
(* Completed candles are their trades. *)

LEMMA ExtremeIs ==
  ASSUME NEW S \in SUBSET Int, NEW x \in S
  PROVE  /\ (\A y \in S : x <= y) => Min(S) = x
         /\ (\A y \in S : y <= x) => Max(S) = x
<1>1. ASSUME \A y \in S : x <= y PROVE Min(S) = x
  <2>1. \A z \in S : (\A y \in S : z <= y) => z = x
    BY <1>1
  <2>. QED
    BY <1>1, <2>1, Zenon DEF Min
<1>2. ASSUME \A y \in S : y <= x PROVE Max(S) = x
  <2>1. \A z \in S : (\A y \in S : z >= y) => z = x
    BY <1>2
  <2>2. \A y \in S : x >= y
    BY <1>2
  <2>. QED
    BY <2>1, <2>2, Zenon DEF Max
<1>. QED
  BY <1>1, <1>2

Exact(s, c, places) ==
  /\ places # {}
  /\ c = [bucket |-> c.bucket,
          open |-> handled[s][Min(places)].price, high |-> Max(PricesOf(s, places)),
          low |-> Min(PricesOf(s, places)), close |-> handled[s][Max(places)].price]

LEMMA CandleExact ==
  ASSUME NEW s \in Streams, handled[s] \in Seq(Tick), NEW tf, NEW c \in Candle,
         CandleOf(c, handled[s], tf, Len(handled[s])), NEW places, places = Bars(s, tf, c.bucket)
  PROVE  Exact(s, c, places)
<1> DEFINE ticks == handled[s]
           n     == Len(ticks)
<1>1. ticks \in Seq(Tick) /\ n \in Nat /\ DOMAIN ticks = 1..n
  OBVIOUS
<1>2. places = {i \in 1..n : BucketOf(ticks, tf, i) = c.bucket}
  BY <1>1 DEF Bars, Bucket, BucketOf
<1>3. \A i \in 1..n : ticks[i].price \in Nat
  BY <1>1, TradeShape
<1>4. PricesOf(s, places) = {ticks[i].price : i \in places}
  BY DEF PricesOf
<1>5. PICK f, l, h, w \in 1..n : Shows(c, ticks, tf, n, f, l, h, w)
  BY DEF CandleOf
<1> HIDE DEF ticks, n
<1>6. f \in places /\ l \in places /\ h \in places /\ w \in places
  BY <1>2, <1>5 DEF Shows
<1>7. \A i \in places :
        f <= i /\ i <= l /\ ticks[i].price <= ticks[h].price /\ ticks[w].price <= ticks[i].price
  BY <1>2, <1>5 DEF Shows
<1>8. Min(places) = f /\ Max(places) = l
  <2>1. places \in SUBSET Int
    BY <1>2
  <2>. QED
    BY <1>6, <1>7, <2>1, ExtremeIs
<1>9. Max(PricesOf(s, places)) = ticks[h].price /\ Min(PricesOf(s, places)) = ticks[w].price
  <2>1. PricesOf(s, places) \in SUBSET Int
    BY <1>2, <1>3, <1>4
  <2>2. ticks[h].price \in PricesOf(s, places) /\ ticks[w].price \in PricesOf(s, places)
    BY <1>4, <1>6
  <2>3. \A p \in PricesOf(s, places) : p <= ticks[h].price /\ ticks[w].price <= p
    BY <1>4, <1>7
  <2>. QED
    BY <2>1, <2>2, <2>3, ExtremeIs
<1>10. /\ c.open = handled[s][Min(places)].price /\ c.high = Max(PricesOf(s, places))
       /\ c.low = Min(PricesOf(s, places)) /\ c.close = handled[s][Max(places)].price
  BY <1>5, <1>8, <1>9 DEF Shows, ticks
<1>. QED
  BY <1>6, <1>10 DEF Candle, Exact

LEMMA CandlesExactly ==
  ASSUME NEW s \in Streams, handled[s] \in Seq(Tick), NEW tf
  PROVE  \A c \in Candle : CandleOf(c, handled[s], tf, Len(handled[s])) =>
           Exact(s, c, Bars(s, tf, c.bucket))
<1> SUFFICES ASSUME NEW c \in Candle, CandleOf(c, handled[s], tf, Len(handled[s]))
             PROVE  Exact(s, c, Bars(s, tf, c.bucket))
  OBVIOUS
<1>1. PICK places : places = Bars(s, tf, c.bucket)
  OBVIOUS
<1>. QED
  BY <1>1, CandleExact, Zenon

LEMMA NoCandleIsNone == NoCandle \notin Candle
<1> SUFFICES ASSUME NoCandle \in Candle PROVE FALSE
  OBVIOUS
<1>1. DOMAIN NoCandle = {"bucket"}
  BY DEF NoCandle
<1>2. "open" \in DOMAIN NoCandle
  BY DEF Candle
<1>. QED
  BY <1>1, <1>2

LEMMA RangeOfRest ==
  ASSUME NEW S, NEW q \in Seq(S), NEW k \in 1..Len(q)
  PROVE  Range(SubSeq(q, k, Len(q))) = {q[i] : i \in k..Len(q)}
<1> DEFINE r == SubSeq(q, k, Len(q))
<1>1. Len(q) \in Nat
  OBVIOUS
<1>2. r \in Seq(S) /\ Len(r) = Len(q) - k + 1 /\ \A i \in 1..Len(r) : r[i] = q[k + i - 1]
  BY <1>1, SubSeqProperties
<1> HIDE DEF r
<1>3. Range(r) = {r[i] : i \in 1..Len(r)}
  BY <1>2 DEF Range
<1>4. \A i \in 1..Len(r) : k + i - 1 \in k..Len(q)
  BY <1>1, <1>2
<1>5. ASSUME NEW i \in k..Len(q)
      PROVE  \E n \in 1..Len(r) : r[n] = q[i]
  <2>1. i - k + 1 \in 1..Len(r) /\ k + (i - k + 1) - 1 = i
    BY <1>1, <1>2
  <2>. QED
    BY <1>2, <2>1, Zenon
<1>6. ASSUME NEW i \in 1..Len(r)
      PROVE  \E n \in k..Len(q) : q[n] = r[i]
  BY <1>2, <1>4
<1>7. Range(r) = {q[i] : i \in k..Len(q)}
  <2>1. \A x \in Range(r) : x \in {q[i] : i \in k..Len(q)}
    BY <1>3, <1>6
  <2>2. \A x \in {q[i] : i \in k..Len(q)} : x \in Range(r)
    BY <1>3, <1>5
  <2>. QED
    BY <2>1, <2>2, Zenon
<1>. QED
  BY <1>7 DEF r

\* A trade's timeframes, one after another.
LEMMA ToDoMoves ==
  ASSUME MarketShape, consumer.pc = "tick", consumer' = NextTimeframe,
         NEW s \in Streams, NEW tf \in Names
  PROVE  /\ ToDo(s, tf)' <=> ToDo(s, tf) /\ ~(s = consumer.stream /\ tf = TF)
         /\ s = consumer.stream /\ tf = TF => ToDo(s, tf)
<1>1. PICK j \in 1..Len(Timeframes) :
        /\ consumer.left = SubSeq(Timeframes, j, Len(Timeframes)) /\ TF = Timeframes[j]
        /\ \/ NextTimeframe = Idle /\ j = Len(Timeframes)
           \/ /\ j + 1 \in 1..Len(Timeframes)
              /\ NextTimeframe = Busy(consumer.stream, consumer.tick,
                                      SubSeq(Timeframes, j + 1, Len(Timeframes)))
  BY TickStateShape DEF MarketShape, TypeOK
<1>2. \A i \in 1..Len(Timeframes) : i # j => Timeframes[i] # Timeframes[j]
  BY TimeframesAssumption DEF IsInjective
<1>3. \A k \in 1..Len(Timeframes) :
        Range(SubSeq(Timeframes, k, Len(Timeframes))) = {Timeframes[i] : i \in k..Len(Timeframes)}
  BY TimeframesShape, RangeOfRest
<1>4. tf \in Range(consumer.left) <=> \E i \in j..Len(Timeframes) : Timeframes[i] = tf
  BY <1>1, <1>3
<1>5. CASE NextTimeframe = Idle /\ j = Len(Timeframes)
  <2>1. ~ToDo(s, tf)'
    BY <1>5 DEF ToDo, Idle
  <2>2. tf \in Range(consumer.left) <=> tf = TF
    BY <1>1, <1>4, <1>5, TimeframesShape
  <2>. QED
    BY <2>1, <2>2 DEF ToDo
<1>6. CASE /\ j + 1 \in 1..Len(Timeframes)
           /\ NextTimeframe = Busy(consumer.stream, consumer.tick,
                                   SubSeq(Timeframes, j + 1, Len(Timeframes)))
  <2>1. /\ consumer'.pc = "tick" /\ consumer'.stream = consumer.stream
        /\ consumer'.left = SubSeq(Timeframes, j + 1, Len(Timeframes))
    BY <1>6 DEF Busy
  <2>2. tf \in Range(consumer'.left) <=> \E i \in j + 1..Len(Timeframes) : Timeframes[i] = tf
    BY <1>3, <1>6, <2>1, Zenon
  <2>3. j..Len(Timeframes) = {j} \cup (j + 1..Len(Timeframes)) /\ Len(Timeframes) \in Nat
    BY <1>6, TimeframesShape
  <2>4. tf \in Range(consumer'.left) <=> tf \in Range(consumer.left) /\ tf # TF
    <3>1. \A i \in j + 1..Len(Timeframes) : i \in 1..Len(Timeframes) /\ i # j
      BY <1>6, TimeframesShape
    <3>2. tf \in Range(consumer'.left) => tf # TF
      BY <1>1, <1>2, <2>2, <3>1
    <3>3. tf \in Range(consumer'.left) => tf \in Range(consumer.left)
      BY <1>4, <2>2, <2>3
    <3>4. tf \in Range(consumer.left) /\ tf # TF => tf \in Range(consumer'.left)
      BY <1>1, <1>4, <2>2, <2>3
    <3>. QED
      BY <3>2, <3>3, <3>4
  <2>5. tf = TF => tf \in Range(consumer.left)
    BY <1>1, <1>4, <2>3
  <2>. QED
    BY <2>1, <2>4, <2>5 DEF ToDo
<1>. QED
  BY <1>1, <1>5, <1>6

LEMMA SeriesTyped ==
  ASSUME MarketShape, NEW s \in Streams, NEW tf \in Names
  PROVE  /\ handled[s] \in Seq(Tick) /\ Len(handled[s]) \in Nat
         /\ history[s][tf] \in Seq(Candle) /\ tf \in Series
<1>1. handled \in [Streams -> Seq(Tick)] /\ history \in [Streams -> [Series -> Seq(Candle)]]
  BY DEF MarketShape, TypeOK
<1>. QED
  BY <1>1, LabelTyped

\* What neither handles a trade nor completes a bar.
LEMMA CandlesRest ==
  ASSUME NEW s \in Streams, NEW tf \in Names, UNCHANGED <<handled, current>>,
         history'[s][tf] = history[s][tf], ToDo(s, tf)' = ToDo(s, tf)
  PROVE  /\ BarIsOf(s, tf) => BarIsOf(s, tf)'
         /\ StoredAreOf(s, tf) => StoredAreOf(s, tf)'
<1>1. Done(s, tf)' = Done(s, tf)
  BY DEF Done
<1>2. BarIsOf(s, tf) => BarIsOf(s, tf)'
  BY <1>1 DEF BarIsOf
<1>3. StoredAreOf(s, tf) => StoredAreOf(s, tf)'
  BY DEF StoredAreOf
<1>. QED
  BY <1>2, <1>3

LEMMA CandleNonempty ==
  ASSUME NEW c, NEW ticks, NEW tf, NEW m \in Nat, CandleOf(c, ticks, tf, m)
  PROVE  m \in 1..m
BY DEF CandleOf

LEMMA CandleKept ==
  ASSUME NEW ticks \in Seq(Tick), NEW tick \in Tick, NEW tf, NEW c, Len(ticks) # 0,
         CandleOf(c, ticks, tf, Len(ticks))
  PROVE  /\ CandleOf(c, Append(ticks, tick), tf, Len(ticks))
         /\ BucketOf(Append(ticks, tick), tf, Len(ticks)) = BucketOf(ticks, tf, Len(ticks))
<1>1. Len(ticks) \in 0..Len(ticks) /\ Len(ticks) \in 1..Len(ticks)
  OBVIOUS
<1>. QED
  BY <1>1, BucketsStay, CandleStays

\* What was stored stands when a trade follows.
LEMMA StoredStand ==
  ASSUME NEW ticks \in Seq(Tick), NEW tick \in Tick, NEW more, more = Append(ticks, tick),
         InOrder(more), NEW tf \in Names, NEW c \in Candle, CandleOf(c, ticks, tf, Len(ticks)),
         c.bucket < BucketOf(ticks, tf, Len(ticks))
  PROVE  CandleOf(c, more, tf, Len(more)) /\ c.bucket < BucketOf(more, tf, Len(more))
<1> DEFINE n == Len(ticks)
<1>1. n \in Nat /\ more \in Seq(Tick) /\ Len(more) = n + 1
  BY AppendProperties
<1>2. n \in 1..n
  BY <1>1, CandleNonempty
<1>3. CandleOf(c, more, tf, n) /\ BucketOf(more, tf, n) = BucketOf(ticks, tf, n)
  BY <1>1, <1>2, CandleKept
<1>4. n \in 1..Len(more) /\ n + 1 \in 1..Len(more) /\ n <= n + 1
  BY <1>1, <1>2
<1>5. /\ BucketOf(more, tf, n) \in Nat /\ BucketOf(more, tf, n + 1) \in Nat
      /\ BucketOf(more, tf, n) <= BucketOf(more, tf, n + 1)
  BY <1>1, <1>4, BucketsRise, Zenon
<1>6. c.bucket \in Int
  BY DEF Candle
<1>7. c.bucket < BucketOf(more, tf, n + 1)
  BY <1>3, <1>5, <1>6
<1>8. BucketOf(more, tf, n + 1) # c.bucket
  BY <1>5, <1>6, <1>7
<1>9. CandleOf(c, more, tf, n + 1)
  BY <1>1, <1>3, <1>8, CandleStands
<1>. QED
  BY <1>1, <1>7, <1>9

LEMMA TakenCandles ==
  ASSUME MarketShape, FeedsInOrder', TakeTick, NEW s \in Streams, NEW tf \in Names,
         BarIsOf(s, tf), StoredAreOf(s, tf)
  PROVE  BarIsOf(s, tf)' /\ StoredAreOf(s, tf)'
<1> DEFINE e == Head(queue)
<1>1. /\ handled' = [handled EXCEPT ![e.stream] = Append(handled[e.stream], e.tick)]
      /\ consumer = Idle /\ consumer' = Busy(e.stream, e.tick, Timeframes)
      /\ UNCHANGED <<current, history>>
  BY DEF TakeTick, Takes, candles
<1>2. e.stream \in Streams /\ e.tick \in Tick
  <2>1. e \in EventSet /\ e.type = "TICK"
    BY TakenShape DEF TakeTick, Takes
  <2>. QED
    BY <2>1, EventShape
<1>3. handled \in [Streams -> Seq(Tick)] /\ handled[s] \in Seq(Tick) /\ Len(handled[s]) \in Nat
  BY SeriesTyped DEF MarketShape, TypeOK
<1>4. ~ToDo(s, tf) /\ Done(s, tf) = Len(handled[s])
  BY <1>1 DEF Done, ToDo, Idle
<1>5. ToDo(s, tf)' <=> s = e.stream
  BY <1>1 DEF ToDo, Busy, Names
<1> HIDE DEF e
<1>6. CASE s # e.stream
  <2>1. handled'[s] = handled[s] /\ Done(s, tf)' = Done(s, tf)
    BY <1>1, <1>3, <1>4, <1>5, <1>6 DEF Done
  <2>. QED
    BY <1>1, <2>1, Zenon DEF BarIsOf, StoredAreOf
<1>7. CASE s = e.stream
  <2> DEFINE ticks == handled[s]
             n     == Len(handled[s])
  <2>1. handled'[s] = Append(ticks, e.tick) /\ handled'[s] \in Seq(Tick) /\ Len(handled'[s]) = n + 1
    BY <1>1, <1>2, <1>3, <1>7, AppendProperties
  <2>2. Done(s, tf)' = n
    BY <1>3, <1>5, <1>7, <2>1 DEF Done
  <2>3. BarIsOf(s, tf)'
    <3>1. CASE n = 0
      BY <1>1, <1>4, <2>2, <3>1 DEF BarIsOf
    <3>2. CASE n # 0
      <4>1. /\ current[s][tf] \in Candle /\ CandleOf(current[s][tf], ticks, tf, n)
            /\ current[s][tf].bucket = BucketOf(ticks, tf, n)
        BY <1>4, <3>2 DEF BarIsOf
      <4>2. n \in 1..n /\ n \in 0..n
        BY <1>3, <3>2
      <4>3. /\ CandleOf(current[s][tf], handled'[s], tf, n)
            /\ BucketOf(handled'[s], tf, n) = BucketOf(ticks, tf, n)
        BY <1>2, <1>3, <2>1, <4>1, <4>2, CandleKept
      <4>. QED
        BY <1>1, <2>2, <3>2, <4>1, <4>3 DEF BarIsOf
    <3>. QED
      BY <3>1, <3>2
  <2>4. InOrder(handled'[s])
    BY DEF FeedsInOrder, Ordered
  <2>5. ASSUME NEW i \in 1..Len(history[s][tf])
        PROVE  /\ CandleOf(history[s][tf][i], handled'[s], tf, Len(handled'[s]))
               /\ history[s][tf][i].bucket < BucketOf(handled'[s], tf, Len(handled'[s]))
    <3>1. history[s][tf][i] \in Candle
      BY SeriesTyped
    <3>2. /\ CandleOf(history[s][tf][i], ticks, tf, n)
          /\ history[s][tf][i].bucket < BucketOf(ticks, tf, n)
      BY DEF StoredAreOf
    <3>. QED
      BY <1>2, <1>3, <2>1, <2>4, <3>1, <3>2, StoredStand, Zenon
  <2>. QED
    BY <1>1, <2>3, <2>5 DEF StoredAreOf
<1>. QED
  BY <1>6, <1>7

\* The trade under way is the next of the bar's: which one, and how the bar stands to it.
LEMMA TradeComes ==
  ASSUME MarketShape, FeedsInOrder, consumer.pc = "tick", NEW s \in Streams, NEW tf \in Names,
         s = consumer.stream, tf = TF, BarIsOf(s, tf), ToDo(s, tf),
         NEW m, m = Len(handled[s]) - 1
  PROVE  /\ m \in Nat /\ m + 1 = Len(handled[s]) /\ m + 1 \in 1..Len(handled[s])
         /\ handled[s] \in Seq(Tick) /\ handled[s][m + 1] = consumer.tick
         /\ TickBucket = BucketOf(handled[s], tf, m + 1) /\ Bar = current[s][tf]
         /\ m = 0 => Bar = NoCandle
         /\ m # 0 => /\ Bar \in Candle /\ Bar # NoCandle /\ CandleOf(Bar, handled[s], tf, m)
                     /\ Bar.bucket = BucketOf(handled[s], tf, m)
                     /\ Bar.bucket <= TickBucket /\ TickBucket \in Nat /\ Bar.bucket \in Nat
                     /\ \A i \in 1..m : BucketOf(handled[s], tf, i) <= Bar.bucket
                                        /\ BucketOf(handled[s], tf, i) \in Nat
<1>1. /\ handled[s] # <<>> /\ consumer.tick = handled[s][Len(handled[s])]
      /\ handled[s] \in Seq(Tick)
  BY SeriesTyped DEF MarketShape, Handling
<1>2. Len(handled[s]) \in Nat \ {0}
  BY <1>1, EmptySeq
<1>3. m \in Nat /\ m + 1 = Len(handled[s]) /\ m + 1 \in 1..Len(handled[s])
  BY <1>2
<1>4. TickBucket = BucketOf(handled[s], tf, m + 1)
  BY <1>1, <1>3 DEF TickBucket, Bucket, BucketOf
<1>5. Bar = current[s][tf] /\ Done(s, tf) = m
  BY DEF Bar, Done
<1>6. m = 0 => Bar = NoCandle
  BY <1>5 DEF BarIsOf
<1>7. ASSUME m # 0
      PROVE  /\ Bar \in Candle /\ Bar # NoCandle /\ CandleOf(Bar, handled[s], tf, m)
             /\ Bar.bucket = BucketOf(handled[s], tf, m)
  BY <1>5, <1>7, NoCandleIsNone DEF BarIsOf
<1>8. InOrder(handled[s])
  BY DEF FeedsInOrder, Ordered
<1>9. ASSUME m # 0, NEW i \in 1..m
      PROVE  /\ BucketOf(handled[s], tf, i) <= BucketOf(handled[s], tf, m)
             /\ BucketOf(handled[s], tf, i) \in Nat
  <2>1. i \in 1..Len(handled[s]) /\ m \in 1..Len(handled[s]) /\ i <= m
    BY <1>3, <1>9
  <2>. QED
    BY <1>1, <1>8, <2>1, BucketsRise
<1>10. ASSUME m # 0
       PROVE  /\ BucketOf(handled[s], tf, m) <= BucketOf(handled[s], tf, m + 1)
              /\ BucketOf(handled[s], tf, m) \in Nat /\ BucketOf(handled[s], tf, m + 1) \in Nat
  <2>1. m \in 1..Len(handled[s]) /\ m <= m + 1
    <3>1. \A n \in Nat \ {0} : n - 1 # 0 => n - 1 \in 1..n /\ n - 1 <= (n - 1) + 1
      OBVIOUS
    <3>. QED
      BY <1>2, <1>10, <3>1, Zenon
  <2>. QED
    BY <1>1, <1>3, <1>8, <2>1, BucketsRise
<1>. QED
  BY <1>1, <1>3, <1>4, <1>5, <1>6, <1>7, <1>9, <1>10

\* The bar of a trade that begins one.
LEMMA BarBegins ==
  ASSUME MarketShape, FeedsInOrder, consumer.pc = "tick", NEW s \in Streams, NEW tf \in Names,
         s = consumer.stream, tf = TF, BarIsOf(s, tf), ToDo(s, tf),
         Bar # NoCandle => Bar.bucket # TickBucket,
         NEW c, c = NewCandle(TickBucket, consumer.tick.price)
  PROVE  /\ c \in Candle /\ CandleOf(c, handled[s], tf, Len(handled[s]))
         /\ c.bucket = BucketOf(handled[s], tf, Len(handled[s]))
<1> DEFINE m == Len(handled[s]) - 1
<1>1. /\ m \in Nat /\ m + 1 = Len(handled[s]) /\ m + 1 \in 1..Len(handled[s])
      /\ handled[s] \in Seq(Tick) /\ handled[s][m + 1] = consumer.tick
      /\ TickBucket = BucketOf(handled[s], tf, m + 1)
  BY TradeComes
<1>2. m # 0 => /\ Bar # NoCandle /\ Bar.bucket <= TickBucket /\ TickBucket \in Nat /\ Bar.bucket \in Nat
               /\ \A i \in 1..m : BucketOf(handled[s], tf, i) <= Bar.bucket
                                  /\ BucketOf(handled[s], tf, i) \in Nat
  BY TradeComes, Zenon
<1> HIDE DEF m
<1>3. \A i \in 1..m : BucketOf(handled[s], tf, i) # BucketOf(handled[s], tf, m + 1)
  <2>1. CASE m = 0
    BY <2>1
  <2>2. CASE m # 0
    BY <1>1, <1>2, <2>2
  <2>. QED
    BY <2>1, <2>2
<1>4. CandleOf(NewCandle(BucketOf(handled[s], tf, m + 1), handled[s][m + 1].price), handled[s], tf, m + 1)
  BY <1>1, <1>3, CandleBegins
<1>5. c \in Candle /\ c.bucket = TickBucket
  BY TradeTyped DEF NewCandle
<1>. QED
  BY <1>1, <1>4, <1>5

\* What follows a trade's step is the same for every other series.
LEMMA TradeMoves ==
  ASSUME MarketShape, consumer.pc = "tick", consumer' = NextTimeframe, UNCHANGED handled,
         NEW s \in Streams, NEW tf \in Names
  PROVE  /\ s = consumer.stream /\ tf = TF => ToDo(s, tf) /\ Done(s, tf)' = Len(handled[s])
         /\ ~(s = consumer.stream /\ tf = TF) => ToDo(s, tf)' = ToDo(s, tf)
<1>1. CASE s = consumer.stream /\ tf = TF
  <2>1. ToDo(s, tf) /\ ~ToDo(s, tf)'
    BY <1>1, ToDoMoves
  <2>2. Done(s, tf)' = Len(handled[s])
    BY <2>1 DEF Done
  <2>. QED
    BY <1>1, <2>1, <2>2
<1>2. CASE ~(s = consumer.stream /\ tf = TF)
  <2>1. ToDo(s, tf)' <=> ToDo(s, tf)
    BY <1>2, ToDoMoves
  <2>2. ToDo(s, tf)' = ToDo(s, tf)
    BY <2>1 DEF ToDo
  <2>. QED
    BY <1>2, <2>2
<1>. QED
  BY <1>1, <1>2

LEMMA GoesOnCandles ==
  ASSUME MarketShape, FeedsInOrder, BarGoesOn, NEW s \in Streams, NEW tf \in Names,
         BarIsOf(s, tf), StoredAreOf(s, tf)
  PROVE  BarIsOf(s, tf)' /\ StoredAreOf(s, tf)'
<1>1. /\ consumer.pc = "tick" /\ consumer' = NextTimeframe /\ UNCHANGED <<handled, history>>
      /\ Bar = NoCandle \/ Bar.bucket = TickBucket
  BY DEF BarGoesOn
<1> DEFINE c == IF Bar = NoCandle THEN NewCandle(TickBucket, consumer.tick.price)
                ELSE Merged(Bar, consumer.tick.price)
<1>2. c \in Candle /\ SetBar(c)
  BY <1>1, TradeTyped DEF BarGoesOn
<1>3. /\ current'[consumer.stream][TF] = c
      /\ \A t \in Streams, k \in Names :
           t # consumer.stream \/ k # TF => current'[t][k] = current[t][k]
  BY <1>1, <1>2, BarSet DEF MarketShape
<1>4. StoredAreOf(s, tf)'
  BY <1>1 DEF StoredAreOf
<1>5. CASE ~(s = consumer.stream /\ tf = TF)
  <2>1. current'[s][tf] = current[s][tf]
    BY <1>3, <1>5
  <2>2. Done(s, tf)' = Done(s, tf)
    BY <1>1, <1>5, TradeMoves DEF Done
  <2>. QED
    BY <1>1, <1>4, <2>1, <2>2 DEF BarIsOf
<1>6. CASE s = consumer.stream /\ tf = TF
  <2> DEFINE m == Len(handled[s]) - 1
  <2>1. ToDo(s, tf) /\ Done(s, tf)' = Len(handled[s])
    BY <1>1, <1>6, TradeMoves
  <2>2. /\ m \in Nat /\ m + 1 = Len(handled[s]) /\ m + 1 \in 1..Len(handled[s])
        /\ handled[s] \in Seq(Tick) /\ handled[s][m + 1] = consumer.tick
        /\ TickBucket = BucketOf(handled[s], tf, m + 1)
        /\ m = 0 => Bar = NoCandle
        /\ m # 0 => Bar \in Candle /\ Bar # NoCandle /\ CandleOf(Bar, handled[s], tf, m)
    BY <1>1, <1>6, <2>1, TradeComes, Zenon
  <2>3. /\ CandleOf(c, handled[s], tf, Len(handled[s]))
        /\ c.bucket = BucketOf(handled[s], tf, Len(handled[s]))
    <3>1. CASE Bar = NoCandle
      BY <1>1, <1>6, <2>1, <3>1, BarBegins
    <3>2. CASE Bar # NoCandle
      <4>1. m # 0 /\ Bar \in Candle /\ CandleOf(Bar, handled[s], tf, m)
            /\ BucketOf(handled[s], tf, m + 1) = Bar.bucket
        BY <1>1, <2>2, <3>2
      <4>2. c = Merged(Bar, handled[s][m + 1].price)
        BY <2>2, <3>2
      <4> HIDE DEF m, c
      <4>3. CandleOf(c, handled[s], tf, m + 1)
        BY <2>2, <4>1, <4>2, CandleGoesOn
      <4>4. c.bucket = Bar.bucket
        <5>1. handled[s][m + 1].price \in Prices
          BY <2>2, TradeShape
        <5>. QED
          BY <4>1, <4>2, <5>1, MergedTyped
      <4>. QED
        BY <2>2, <4>1, <4>3, <4>4
    <3>. QED
      BY <3>1, <3>2
  <2>. QED
    BY <1>1, <1>2, <1>3, <1>4, <1>6, <2>1, <2>2, <2>3 DEF BarIsOf
<1>. QED
  BY <1>5, <1>6

LEMMA ToDoNow ==
  ASSUME TypeOK, consumer.pc = "tick", NEW s, NEW tf, s = consumer.stream, tf = TF
  PROVE  ToDo(s, tf)
<1>1. PICK j \in 1..Len(Timeframes) :
        consumer.left = SubSeq(Timeframes, j, Len(Timeframes)) /\ TF = Timeframes[j]
  BY TickStateShape DEF TypeOK
<1>2. Range(consumer.left) = {Timeframes[i] : i \in j..Len(Timeframes)}
  BY <1>1, TimeframesShape, RangeOfRest
<1>. QED
  BY <1>1, <1>2 DEF ToDo

LEMMA CompletedCandles ==
  ASSUME MarketShape, FeedsInOrder, BarCompletes, NEW s \in Streams, NEW tf \in Names,
         BarIsOf(s, tf), StoredAreOf(s, tf)
  PROVE  (consumer' # Stuck => BarIsOf(s, tf)') /\ StoredAreOf(s, tf)'
<1>1. /\ consumer.pc = "tick" /\ UNCHANGED handled /\ consumer' \in {NextTimeframe, Stuck}
      /\ Bar # NoCandle /\ Bar.bucket # TickBucket
  BY DEF BarCompletes, HandlerPublishes
<1> DEFINE c == NewCandle(TickBucket, consumer.tick.price)
<1>2. c \in Candle /\ SetBar(c) /\ Bar \in Candle /\ Stored(consumer.stream, TF, Bar)
  BY <1>1, TradeTyped DEF BarCompletes
<1>3. /\ current'[consumer.stream][TF] = c
      /\ \A t \in Streams, k \in Names :
           t # consumer.stream \/ k # TF => current'[t][k] = current[t][k]
  BY <1>1, <1>2, BarSet DEF MarketShape
<1>4. /\ history'[consumer.stream][TF] = Append(history[consumer.stream][TF], Bar)
      /\ \A t \in Streams, k \in Series :
           t # consumer.stream \/ k # TF => history'[t][k] = history[t][k]
  <2>1. consumer.stream \in Streams /\ TF \in Series
    BY <1>1, TickStateShape, LabelTyped DEF MarketShape, TypeOK
  <2>. QED
    BY <1>2, <2>1, StoredTyped DEF MarketShape
<1> HIDE DEF c
<1>5. CASE ~(s = consumer.stream /\ tf = TF)
  <2>1. current'[s][tf] = current[s][tf] /\ history'[s][tf] = history[s][tf]
    BY <1>3, <1>4, <1>5, SeriesTyped
  <2>2. StoredAreOf(s, tf)'
    BY <1>1, <2>1 DEF StoredAreOf
  <2>3. ASSUME consumer' # Stuck
        PROVE  BarIsOf(s, tf)'
    <3>1. Done(s, tf)' = Done(s, tf)
      BY <1>1, <1>5, <2>3, TradeMoves DEF Done
    <3>. QED
      BY <1>1, <2>1, <3>1 DEF BarIsOf
  <2>. QED
    BY <2>2, <2>3
<1>6. CASE s = consumer.stream /\ tf = TF
  <2> DEFINE m == Len(handled[s]) - 1
             n == Len(handled[s])
             bars == history[s][tf]
  <2>1. ToDo(s, tf)
    BY <1>1, <1>6, ToDoNow DEF MarketShape
  <2>2. /\ m \in Nat /\ m + 1 = n /\ n \in 1..n
        /\ handled[s] \in Seq(Tick)
        /\ TickBucket = BucketOf(handled[s], tf, n)
        /\ m # 0 /\ CandleOf(Bar, handled[s], tf, m)
        /\ Bar.bucket <= TickBucket /\ TickBucket \in Nat /\ Bar.bucket \in Nat
    BY <1>1, <1>6, <2>1, TradeComes
  <2>3. CandleOf(c, handled[s], tf, n) /\ c.bucket = BucketOf(handled[s], tf, n)
    BY <1>1, <1>6, <2>1, BarBegins DEF c
  <2>4. CandleOf(Bar, handled[s], tf, n) /\ Bar.bucket < BucketOf(handled[s], tf, n)
    <3> HIDE DEF m, n
    <3>1. CandleOf(Bar, handled[s], tf, m + 1)
      BY <1>1, <2>2, CandleStands
    <3>. QED
      BY <1>1, <2>2, <3>1
  <2>5. ASSUME consumer' # Stuck
        PROVE  BarIsOf(s, tf)'
    <3>1. Done(s, tf)' = n
      BY <1>1, <1>6, <2>5, TradeMoves
    <3>. QED
      BY <1>1, <1>2, <1>3, <1>6, <2>2, <2>3, <3>1 DEF BarIsOf
  <2>6. /\ bars \in Seq(Candle) /\ history'[s][tf] = Append(bars, Bar)
    BY <1>4, <1>6, SeriesTyped
  <2>7. ASSUME NEW i \in 1..Len(history'[s][tf])
        PROVE  /\ CandleOf(history'[s][tf][i], handled[s], tf, n)
               /\ history'[s][tf][i].bucket < BucketOf(handled[s], tf, n)
    <3>1. /\ Len(history'[s][tf]) = Len(bars) + 1 /\ Len(bars) \in Nat
          /\ history'[s][tf][Len(bars) + 1] = Bar
          /\ \A k \in 1..Len(bars) : history'[s][tf][k] = bars[k]
      BY <1>2, <2>6, AppendProperties
    <3>2. CASE i = Len(bars) + 1
      BY <2>4, <3>1, <3>2
    <3>3. CASE i \in 1..Len(bars)
      BY <3>1, <3>3 DEF StoredAreOf
    <3>. QED
      BY <3>1, <3>2, <3>3
  <2>. QED
    BY <1>1, <2>5, <2>7 DEF StoredAreOf
<1>. QED
  BY <1>5, <1>6

\* Steps that handle no trade leave the bars as they are.
LEMMA OtherSteps ==
  ASSUME LabelsApart, MarketShape, NEW s \in Streams, NEW tf \in Names,
         \/ UNCHANGED vars
         \/ \E t \in Streams, tick \in Tick : Receive(t, tick)
         \/ \E t \in Streams : FeedResumes(t)
         \/ CandleStored \/ CandleSignals \/ HandleSignal \/ OrderAnswered \/ HandleOrder
         \/ ToggleAutoTrading \/ Clock
  PROVE  /\ UNCHANGED <<handled, current>> /\ history'[s][tf] = history[s][tf]
         /\ ToDo(s, tf)' = ToDo(s, tf)
         /\ consumer = Stuck => consumer' = Stuck
<1>1. UNCHANGED <<handled, current>>
  BY DEF vars, candles, Receive, FeedResumes, CandleStored, CandleSignals, HandleSignal,
         OrderAnswered, HandleOrder, ToggleAutoTrading, Clock
<1>2. history'[s][tf] = history[s][tf]
  <2>1. CASE CandleStored \/ CandleSignals
    <3>1. Takes("CANDLE") /\ Stored(Event.stream, Event.label, Event.candle)
      BY <2>1 DEF CandleStored, CandleSignals
    <3>2. Event.stream \in Streams /\ Event.label \in Labels /\ Event.candle \in Candle
      BY <3>1, TakenShape
    <3>3. Event.label \in Series /\ tf \in Series /\ tf # Event.label
      BY <3>2 DEF Series, Labels, LabelsApart
    <3>. QED
      BY <3>1, <3>2, <3>3, StoredTyped DEF MarketShape
  <2>2. CASE UNCHANGED history
    BY <2>2
  <2>. QED
    BY <2>1, <2>2 DEF vars, candles, Receive, FeedResumes, HandleSignal, OrderAnswered, HandleOrder,
         ToggleAutoTrading, Clock
<1>3. \/ consumer' = consumer
      \/ consumer \in {Idle, Executing} /\ consumer' \in {Idle, Executing, Stuck}
  BY DEF vars, Receive, FeedResumes, CandleStored, CandleSignals, HandleSignal, OrderAnswered,
         HandleOrder, HandlerPublishes, ToggleAutoTrading, Clock, Takes
<1>4. ToDo(s, tf)' = ToDo(s, tf) /\ (consumer = Stuck => consumer' = Stuck)
  <2>1. CASE consumer' = consumer
    BY <2>1 DEF ToDo
  <2>2. CASE consumer \in {Idle, Executing} /\ consumer' \in {Idle, Executing, Stuck}
    <3>1. ToDo(s, tf) = FALSE /\ ToDo(s, tf)' = FALSE
      BY <2>2, AtRest DEF ToDo
    <3>2. consumer # Stuck
      BY <2>2 DEF Idle, Executing, Stuck
    <3>. QED
      BY <3>1, <3>2, Zenon
  <2>. QED
    BY <1>3, <2>1, <2>2
<1>. QED
  BY <1>1, <1>2, <1>4

LEMMA CandlesStep ==
  ASSUME LabelsApart, MarketShape, FeedsInOrder, FeedsInOrder', CandleInv, [Next]_vars
  PROVE  CandleInv'
<1> SUFFICES ASSUME NEW s \in Streams, NEW tf \in Names
             PROVE  (consumer' # Stuck => BarIsOf(s, tf)') /\ StoredAreOf(s, tf)'
  BY DEF CandleInv
<1>1. (consumer # Stuck => BarIsOf(s, tf)) /\ StoredAreOf(s, tf)
  BY DEF CandleInv
<1>2. Idle # Stuck /\ (consumer.pc = "tick" => consumer # Stuck)
  BY DEF Idle, Stuck
<1>3. CASE TakeTick
  BY <1>1, <1>2, <1>3, TakenCandles DEF TakeTick, Takes
<1>4. CASE BarGoesOn
  BY <1>1, <1>2, <1>4, GoesOnCandles DEF BarGoesOn
<1>5. CASE BarCompletes
  BY <1>1, <1>2, <1>5, CompletedCandles DEF BarCompletes
<1>6. CASE ~(TakeTick \/ BarGoesOn \/ BarCompletes)
  <2>1. /\ UNCHANGED <<handled, current>> /\ history'[s][tf] = history[s][tf]
        /\ ToDo(s, tf)' = ToDo(s, tf)
        /\ consumer = Stuck => consumer' = Stuck
    BY <1>6, OtherSteps DEF Next, Consume
  <2>. QED
    BY <1>1, <2>1, CandlesRest
<1>. QED
  BY <1>3, <1>4, <1>5, <1>6

LEMMA CandlesStart == MarketShape /\ Init => CandleInv
<1> SUFFICES ASSUME MarketShape, Init, NEW s \in Streams, NEW tf \in Names
             PROVE  BarIsOf(s, tf) /\ StoredAreOf(s, tf)
  BY DEF CandleInv
<1>1. handled[s] = <<>> /\ current[s][tf] = NoCandle /\ history[s][tf] = <<>> /\ consumer = Idle
  BY SeriesTyped DEF Init
<1>2. Len(handled[s]) = 0 /\ Len(history[s][tf]) = 0
  BY <1>1, EmptySeq
<1>3. ~ToDo(s, tf) /\ Done(s, tf) = 0
  BY <1>1, <1>2 DEF ToDo, Done, Idle
<1>. QED
  BY <1>1, <1>2, <1>3 DEF BarIsOf, StoredAreOf

\* A completed candle is the open, high, low and close of exactly the trades of its bucket,
\* for any feeds, timeframes, queue and bound, while trades come in order.
THEOREM CandlesExact ==
  ASSUME TradesInOrder, LabelsApart PROVE Spec => []CandlesAreTheirTrades
<1>1. Init => MarketShape /\ FeedsInOrder /\ CandleInv
  BY MarketInitShape, OrderStarts, CandlesStart
<1>2. MarketShape /\ FeedsInOrder /\ CandleInv /\ [Next]_vars
        => (MarketShape /\ FeedsInOrder /\ CandleInv)'
  BY MarketShapeStep, OrderStep, CandlesStep
<1>3. MarketShape /\ CandleInv => CandlesAreTheirTrades
  <2> SUFFICES ASSUME MarketShape, CandleInv, NEW s \in Streams, NEW tf \in Names,
                      NEW i \in DOMAIN history[s][tf]
               PROVE  Exact(s, history[s][tf][i], Bars(s, tf, history[s][tf][i].bucket))
    BY Zenon DEF CandlesAreTheirTrades, Exact
  <2>1. handled[s] \in Seq(Tick) /\ history[s][tf] \in Seq(Candle)
    BY SeriesTyped
  <2>2. i \in 1..Len(history[s][tf]) /\ history[s][tf][i] \in Candle
    BY <2>1
  <2>3. CandleOf(history[s][tf][i], handled[s], tf, Len(handled[s]))
    BY <2>2 DEF CandleInv, StoredAreOf
  <2>. QED
    BY <2>1, <2>2, <2>3, CandlesExactly, Zenon
<1>. QED
  BY <1>1, <1>2, <1>3, PTL DEF Spec

----------------------------------------------------------------------------
(* No series goes back. *)

Rises(bars) == \A i, j \in 1..Len(bars) : i < j => bars[i].bucket < bars[j].bucket

\* The stored bars rise, and the bar under way comes after all of them.
RiseInv ==
  \A s \in Streams, tf \in Names :
    /\ Rises(history[s][tf])
    /\ consumer # Stuck =>
         \A i \in 1..Len(history[s][tf]) : history[s][tf][i].bucket < current[s][tf].bucket
    /\ \E rest \in Seq(Candle) : history[s][tf] = history[s][Label[tf]] \o rest

LEMMA PrefixRises ==
  ASSUME NEW bars \in Seq(Candle), NEW rest \in Seq(Candle), Rises(bars \o rest)
  PROVE  Rises(bars)
<1>1. /\ Len(bars \o rest) = Len(bars) + Len(rest) /\ Len(bars) \in Nat /\ Len(rest) \in Nat
      /\ \A i \in 1..Len(bars) : (bars \o rest)[i] = bars[i]
  BY ConcatProperties
<1>2. \A i \in 1..Len(bars) : i \in 1..Len(bars \o rest)
  BY <1>1
<1>. QED
  BY <1>1, <1>2 DEF Rises

LEMMA RisesOn ==
  ASSUME NEW bars \in Seq(Candle), Rises(bars), NEW c \in Candle,
         \A i \in 1..Len(bars) : bars[i].bucket < c.bucket
  PROVE  /\ Rises(Append(bars, c))
         /\ \A b \in Int : c.bucket < b =>
              \A i \in 1..Len(Append(bars, c)) : Append(bars, c)[i].bucket < b
<1> DEFINE more == Append(bars, c)
<1>1. /\ Len(more) = Len(bars) + 1 /\ Len(bars) \in Nat /\ more[Len(bars) + 1] = c
      /\ \A i \in 1..Len(bars) : more[i] = bars[i] /\ more[i] \in Candle
  BY AppendProperties
<1> HIDE DEF more
<1>2. \A i \in 1..Len(more) : i \in 1..Len(bars) \/ i = Len(bars) + 1
  BY <1>1
<1>3. ASSUME NEW i \in 1..Len(more), NEW j \in 1..Len(more), i < j
      PROVE  more[i].bucket < more[j].bucket
  <2>1. i \in 1..Len(bars)
    BY <1>1, <1>3
  <2>. QED
    BY <1>1, <1>2, <1>3, <2>1 DEF Rises
<1>4. ASSUME NEW b \in Int, c.bucket < b, NEW i \in 1..Len(more)
      PROVE  more[i].bucket < b
  <2>1. CASE i = Len(bars) + 1
    BY <1>1, <1>4, <2>1
  <2>2. CASE i \in 1..Len(bars)
    <3>1. more[i].bucket < c.bucket /\ more[i].bucket \in Int /\ c.bucket \in Int
      BY <1>1, <2>2 DEF Candle
    <3>. QED
      BY <1>4, <3>1
  <2>. QED
    BY <1>2, <2>1, <2>2
<1>. QED
  BY <1>3, <1>4 DEF Rises, more

LEMMA StoredBucket ==
  ASSUME MarketShape, FeedsInOrder, NEW s \in Streams, NEW tf \in Names, StoredAreOf(s, tf),
         NEW i \in 1..Len(history[s][tf])
  PROVE  history[s][tf][i].bucket \in Nat
<1>1. handled[s] \in Seq(Tick) /\ Len(handled[s]) \in Nat /\ InOrder(handled[s])
  BY SeriesTyped DEF FeedsInOrder, Ordered
<1>2. PICK f \in 1..Len(handled[s]) : BucketOf(handled[s], tf, f) = history[s][tf][i].bucket
  BY DEF StoredAreOf, CandleOf, Shows
<1>3. f <= f
  BY <1>2
<1>. QED
  BY <1>1, <1>2, <1>3, BucketsRise

LEMMA RiseGoesOn ==
  ASSUME MarketShape, FeedsInOrder, CandleInv, RiseInv, BarGoesOn
  PROVE  RiseInv'
<1>1. /\ consumer.pc = "tick" /\ consumer # Stuck /\ UNCHANGED history
      /\ Bar = NoCandle \/ Bar.bucket = TickBucket
  BY DEF BarGoesOn, Stuck
<1> DEFINE c == IF Bar = NoCandle THEN NewCandle(TickBucket, consumer.tick.price)
                ELSE Merged(Bar, consumer.tick.price)
<1>2. c \in Candle /\ SetBar(c)
  BY <1>1, TradeTyped DEF BarGoesOn
<1>3. /\ current'[consumer.stream][TF] = c
      /\ \A t \in Streams, k \in Names :
           t # consumer.stream \/ k # TF => current'[t][k] = current[t][k]
  BY <1>1, <1>2, BarSet DEF MarketShape
<1>4. Bar # NoCandle => c.bucket = Bar.bucket
  <2>1. consumer.tick.price \in Prices
    BY <1>1, TickStateShape DEF MarketShape, TypeOK, Tick
  <2>. QED
    BY <1>1, <2>1, TradeTyped, MergedTyped
<1> HIDE DEF c
<1>5. ASSUME NEW s \in Streams, NEW tf \in Names, NEW i \in 1..Len(history[s][tf])
      PROVE  history[s][tf][i].bucket < current'[s][tf].bucket
  <2>1. history[s][tf][i].bucket < current[s][tf].bucket
    BY <1>1 DEF RiseInv
  <2>2. CASE ~(s = consumer.stream /\ tf = TF)
    BY <1>3, <2>1, <2>2
  <2>3. CASE s = consumer.stream /\ tf = TF
    <3>1. history[s][tf][i].bucket \in Nat
      BY StoredBucket DEF CandleInv
    <3>2. Bar # NoCandle
      BY <2>1, <2>3, <3>1 DEF Bar, NoCandle
    <3>. QED
      BY <1>3, <1>4, <2>1, <2>3, <3>2 DEF Bar
  <2>. QED
    BY <2>2, <2>3
<1>. QED
  BY <1>1, <1>5 DEF RiseInv

LEMMA RiseCompletes ==
  ASSUME LabelsApart, MarketShape, FeedsInOrder, CandleInv, RiseInv, BarCompletes
  PROVE  RiseInv'
<1>1. /\ consumer.pc = "tick" /\ consumer # Stuck
      /\ Bar # NoCandle /\ Bar.bucket # TickBucket
  BY DEF BarCompletes, Stuck
<1> DEFINE c == NewCandle(TickBucket, consumer.tick.price)
<1>2. c \in Candle /\ SetBar(c) /\ Bar \in Candle /\ Stored(consumer.stream, TF, Bar)
  BY <1>1, TradeTyped DEF BarCompletes
<1>3. /\ current'[consumer.stream][TF] = c
      /\ \A t \in Streams, k \in Names :
           t # consumer.stream \/ k # TF => current'[t][k] = current[t][k]
  BY <1>1, <1>2, BarSet DEF MarketShape
<1>4. consumer.stream \in Streams /\ TF \in Names /\ TF \in Series
  BY <1>1, TickStateShape, LabelTyped DEF MarketShape, TypeOK
<1>5. /\ history'[consumer.stream][TF] = Append(history[consumer.stream][TF], Bar)
      /\ \A t \in Streams, k \in Series :
           t # consumer.stream \/ k # TF => history'[t][k] = history[t][k]
  BY <1>2, <1>4, StoredTyped DEF MarketShape
<1>6. c.bucket = TickBucket
  BY DEF NewCandle
<1> HIDE DEF c
<1>7. Bar.bucket < TickBucket /\ TickBucket \in Int
  <2>1. PICK s \in Streams, tf \in Names : s = consumer.stream /\ tf = TF
    BY <1>4
  <2>2. ToDo(s, tf)
    BY <1>1, <2>1, ToDoNow DEF MarketShape
  <2>3. BarIsOf(s, tf)
    BY <1>1 DEF CandleInv
  <2>4. PICK m : m = Len(handled[s]) - 1
    OBVIOUS
  <2>5. (m # 0 => Bar.bucket <= TickBucket /\ TickBucket \in Nat /\ Bar.bucket \in Nat)
        /\ (m = 0 => Bar = NoCandle)
    BY <1>1, <2>1, <2>2, <2>3, <2>4, TradeComes
  <2>. QED
    BY <1>1, <2>5
<1>8. ASSUME NEW s \in Streams, NEW tf \in Names
      PROVE  /\ Rises(history'[s][tf])
             /\ \A i \in 1..Len(history'[s][tf]) : history'[s][tf][i].bucket < current'[s][tf].bucket
             /\ \E rest \in Seq(Candle) : history'[s][tf] = history'[s][Label[tf]] \o rest
  <2>1. /\ history[s][tf] \in Seq(Candle) /\ Rises(history[s][tf])
        /\ \A i \in 1..Len(history[s][tf]) : history[s][tf][i].bucket < current[s][tf].bucket
    BY <1>1, SeriesTyped DEF RiseInv
  <2>2. PICK rest \in Seq(Candle) : history[s][tf] = history[s][Label[tf]] \o rest
    BY DEF RiseInv
  <2>3. history'[s][Label[tf]] = history[s][Label[tf]] /\ history[s][Label[tf]] \in Seq(Candle)
    <3>1. Label[tf] \in Series /\ Label[tf] # TF
      BY <1>4, LabelTyped DEF LabelsApart
    <3>. QED
      BY <1>5, <3>1, ArrivesTyped
  <2>4. CASE ~(s = consumer.stream /\ tf = TF)
    <3>1. history'[s][tf] = history[s][tf] /\ current'[s][tf] = current[s][tf]
      BY <1>3, <1>5, <2>4, LabelTyped
    <3>. QED
      BY <2>1, <2>2, <2>3, <3>1, Zenon
  <2>5. CASE s = consumer.stream /\ tf = TF
    <3>1. history'[s][tf] = Append(history[s][tf], Bar) /\ current'[s][tf].bucket = TickBucket
      BY <1>3, <1>5, <1>6, <2>5
    <3>2. \A i \in 1..Len(history[s][tf]) : history[s][tf][i].bucket < Bar.bucket
      BY <2>1, <2>5 DEF Bar
    <3>3. /\ Rises(history'[s][tf])
          /\ \A i \in 1..Len(history'[s][tf]) : history'[s][tf][i].bucket < current'[s][tf].bucket
      BY <1>2, <1>7, <2>1, <3>1, <3>2, RisesOn
    <3>4. Append(rest, Bar) \in Seq(Candle)
      BY <1>2, AppendProperties
    <3>5. Append(history[s][Label[tf]] \o rest, Bar) = history[s][Label[tf]] \o Append(rest, Bar)
      BY <1>2, <2>3, CandleAppend, Zenon
    <3>6. history'[s][tf] = history'[s][Label[tf]] \o Append(rest, Bar)
      BY <2>2, <2>3, <3>1, <3>5
    <3>. QED
      BY <3>3, <3>4, <3>6, Zenon
  <2>. QED
    BY <2>4, <2>5
<1>. QED
  BY <1>8 DEF RiseInv

LEMMA RiseStep ==
  ASSUME LabelsApart, MarketShape, FeedsInOrder, CandleInv, BarsReachTheGenerator, RiseInv, [Next]_vars
  PROVE  RiseInv'
<1>1. CASE BarGoesOn
  BY <1>1, RiseGoesOn
<1>2. CASE BarCompletes
  BY <1>2, RiseCompletes
<1>3. CASE ~(BarGoesOn \/ BarCompletes)
  <2> SUFFICES ASSUME NEW s \in Streams, NEW tf \in Names
               PROVE  /\ Rises(history'[s][tf])
                      /\ consumer' # Stuck =>
                           \A i \in 1..Len(history'[s][tf]) :
                             history'[s][tf][i].bucket < current'[s][tf].bucket
                      /\ \E rest \in Seq(Candle) : history'[s][tf] = history'[s][Label[tf]] \o rest
    BY DEF RiseInv
  <2>1. /\ history'[s][tf] = history[s][tf] /\ current'[s][tf] = current[s][tf]
        /\ consumer' # Stuck => consumer # Stuck
    <3>1. CASE TakeTick
      BY <3>1 DEF TakeTick, Takes, candles, Idle, Stuck
    <3>2. CASE ~TakeTick
      BY <1>3, <3>2, OtherSteps DEF Next, Consume
    <3>. QED
      BY <3>1, <3>2
  <2>2. \E rest \in Seq(Candle) : history'[s][tf] = history'[s][Label[tf]] \o rest
    <3>1. CASE CandleStored \/ CandleSignals
      <4>1. consumer # Stuck
        BY <3>1 DEF CandleStored, CandleSignals, Takes, Idle, Stuck
      <4>2. Arrives(s, tf)
        BY <4>1, Zenon DEF BarsReachTheGenerator, Arrives
      <4>. QED
        BY <3>1, <4>2, StoredFollows, Zenon
    <3>2. CASE UNCHANGED history
      BY <3>2 DEF RiseInv
    <3>. QED
      BY <1>3, <3>1, <3>2 DEF Next, Consume, vars, candles, Receive, FeedResumes, TakeTick, HandleSignal,
         OrderAnswered, HandleOrder, ToggleAutoTrading, Clock
  <2>. QED
    BY <2>1, <2>2, Zenon DEF RiseInv
<1>. QED
  BY <1>1, <1>2, <1>3

LEMMA RiseStarts == MarketShape /\ Init => RiseInv
<1> SUFFICES ASSUME MarketShape, Init, NEW s \in Streams, NEW tf \in Names
             PROVE  /\ Rises(history[s][tf])
                    /\ \A i \in 1..Len(history[s][tf]) : history[s][tf][i].bucket < current[s][tf].bucket
                    /\ \E rest \in Seq(Candle) : history[s][tf] = history[s][Label[tf]] \o rest
  BY DEF RiseInv
<1>1. history[s][tf] = <<>> /\ history[s][Label[tf]] = <<>>
  BY LabelTyped DEF Init
<1>2. Len(<<>>) = 0 /\ <<>> \in Seq(Candle) /\ <<>> \o <<>> = <<>>
  BY EmptySeq, ConcatEmptySeq
<1>3. \A i \in 1..Len(history[s][tf]) : FALSE
  <2>1. Len(history[s][tf]) = 0
    BY <1>1, <1>2
  <2>. QED
    BY <2>1
<1>4. history[s][tf] = history[s][Label[tf]] \o <<>>
  BY <1>1, <1>2
<1>5. Rises(history[s][tf])
  BY <1>3, Zenon DEF Rises
<1>. QED
  BY <1>2, <1>3, <1>4, <1>5, Zenon

\* No series goes back or repeats a bar, under its name or under its label, whatever waits on
\* the bus in between, while trades come in order.
THEOREM SeriesRise ==
  ASSUME TradesInOrder, LabelsApart PROVE Spec => []CandlesInOrder
<1>1. Init => MarketShape /\ FeedsInOrder /\ CandleInv /\ RiseInv
  BY MarketInitShape, OrderStarts, CandlesStart, RiseStarts
<1>2. MarketShape /\ FeedsInOrder /\ CandleInv /\ BarsReachTheGenerator /\ RiseInv /\ [Next]_vars
        => (MarketShape /\ FeedsInOrder /\ CandleInv /\ RiseInv)'
  BY MarketShapeStep, OrderStep, CandlesStep, RiseStep
<1>3. MarketShape /\ RiseInv => CandlesInOrder
  <2> SUFFICES ASSUME MarketShape, RiseInv, NEW s \in Streams, NEW k \in Series
               PROVE  history[s][k] \in Seq(Candle) /\ Rises(history[s][k])
    BY DEF CandlesInOrder, Rises
  <2>1. CASE k \in Names
    BY <2>1, SeriesTyped DEF RiseInv
  <2>2. ASSUME NEW tf \in Names, k = Label[tf]
        PROVE  history[s][k] \in Seq(Candle) /\ Rises(history[s][k])
    <3>1. history[s][Label[tf]] \in Seq(Candle)
      BY ArrivesTyped
    <3>2. PICK rest \in Seq(Candle) : history[s][tf] = history[s][Label[tf]] \o rest
      BY DEF RiseInv
    <3>3. Rises(history[s][tf])
      BY DEF RiseInv
    <3>. QED
      BY <2>2, <3>1, <3>2, <3>3, PrefixRises
  <2>. QED
    BY <2>1, <2>2 DEF Series, Labels
<1>. QED
  BY <1>1, <1>2, <1>3, BarsArrive, PTL DEF Spec
===============================================================================
