------------------------------- MODULE BusFeeds -------------------------------
(***************************************************************************)
(* Publishers and listeners around one bus (core/event_bus.py): the order  *)
(* book feed and the DEX feed publish what they poll, the volatility proxy *)
(* listens to ticks and publishes on the bus it is called from, and the    *)
(* Telegram notifier puts what it hears in a bounded queue of its own that *)
(* another task empties, a message at a time (interface/telegram_bot.py).  *)
(***************************************************************************)
EXTENDS Integers, SequencesExt

CONSTANTS
  BookSymbols,   \* symbols the order book feed asks for in a round
  Pools,         \* symbols of the DEX ticks
  MaxPools,      \* most ticks of one DEX answer
  BusRoom,       \* capacity of the bus
  BoxRoom,       \* capacity of the notifier's queue
  Throttle,      \* time between two volatility readings of a symbol
  MaxAlerts,     \* bound: signals and fills
  MaxRounds      \* bound: rounds of each feed

ASSUME FeedsAssumption ==
  /\ {BookSymbols, MaxPools} \subseteq Nat \ {0}
  /\ {BusRoom, BoxRoom} \subseteq Nat \ {0} /\ {Throttle, MaxAlerts, MaxRounds} \subseteq Nat

VARIABLES
  bus,        \* EventBus._queue
  consumer,   \* what the one consumer of the bus awaits
  bookFeed, dexFeed, \* where the run of each feed is
  measuring,  \* macro.vix_proxy.enabled
  sinceRead,  \* age of _last_published
  bot,        \* "off" before run has its bot, "on", "stopped"
  box,        \* TelegramNotifier._queue
  sending,    \* the message _drain_queue sends, 0 for none
  alerts,     \* history: signals and fills published so far
  attempted   \* history: the messages that were sent, or failed to be

feedTasks == <<bookFeed, dexFeed>>
volVars == <<measuring, sinceRead>>
botVars == <<bot, box, sending, attempted>>
busVars == <<bus, consumer, feedTasks, volVars, botVars, alerts>>

Free == [pc |-> "free", of |-> 0]
Ticked(s) == [pc |-> "tick", of |-> s]   \* the handlers of a tick
Waits(n) == [pc |-> "box", of |-> n]     \* _handle_signal or _handle_order puts
Jammed == [pc |-> "bus", of |-> 0]       \* _handle_tick publishes on the full bus

FeedStarts == [pc |-> "asleep", left |-> 0, rounds |-> 0]

BusInit ==
  /\ bus = <<>> /\ consumer = Free
  /\ bookFeed = FeedStarts /\ dexFeed = FeedStarts
  /\ measuring \in BOOLEAN /\ sinceRead = [s \in Pools |-> Throttle]
  /\ bot = "off" /\ box = <<>> /\ sending = 0 /\ attempted = {}
  /\ alerts = 0

Puts(event) == Len(bus) < BusRoom /\ bus' = Append(bus, event)

DepthEvent == [type |-> "ORDERBOOK_UPDATE", of |-> 0]
VolatilityEvent == [type |-> "VOLATILITY_INDEX", of |-> 0]

----------------------------------------------------------------------------
(* The feeds. *)

BookWakes ==
  /\ bookFeed.pc = "asleep" /\ bookFeed.rounds < MaxRounds
  /\ bookFeed' = [pc |-> "asks", left |-> BookSymbols, rounds |-> bookFeed.rounds + 1]
  /\ UNCHANGED <<bus, consumer, dexFeed, volVars, botVars, alerts>>

NextBook ==
  [bookFeed EXCEPT !.left = @ - 1, !.pc = IF bookFeed.left = 1 THEN "asleep" ELSE "asks"]

\* A symbol without an answer, or with an empty book, is passed over.
BookAnswered ==
  /\ bookFeed.pc = "asks"
  /\ bookFeed' \in {NextBook, [bookFeed EXCEPT !.pc = "puts"]}
  /\ UNCHANGED <<bus, consumer, dexFeed, volVars, botVars, alerts>>

BookPublished ==
  /\ bookFeed.pc = "puts"
  /\ Puts(DepthEvent)
  /\ bookFeed' = NextBook
  /\ UNCHANGED <<consumer, dexFeed, volVars, botVars, alerts>>

\* Any failure is an answer without pools; otherwise each pool gives a tick.
DexAnswered ==
  /\ dexFeed.pc = "asleep" /\ dexFeed.rounds < MaxRounds
  /\ \E pools \in 0 .. MaxPools :
       dexFeed' = [pc |-> IF pools = 0 THEN "asleep" ELSE "puts", left |-> pools,
                   rounds |-> dexFeed.rounds + 1]
  /\ UNCHANGED <<bus, consumer, bookFeed, volVars, botVars, alerts>>

TickPublished ==
  /\ dexFeed.pc = "puts"
  /\ \E s \in Pools : Puts([type |-> "TICK", of |-> s])
  /\ dexFeed' = [dexFeed EXCEPT !.left = @ - 1,
                                !.pc = IF dexFeed.left = 1 THEN "asleep" ELSE "puts"]
  /\ UNCHANGED <<consumer, bookFeed, volVars, botVars, alerts>>

\* stop: the run returns at the head of its loop.
StopBooks ==
  /\ bookFeed.pc = "asleep"
  /\ bookFeed' = [bookFeed EXCEPT !.pc = "stopped"]
  /\ UNCHANGED <<bus, consumer, dexFeed, volVars, botVars, alerts>>

StopDex ==
  /\ dexFeed.pc = "asleep"
  /\ dexFeed' = [dexFeed EXCEPT !.pc = "stopped"]
  /\ UNCHANGED <<bus, consumer, bookFeed, volVars, botVars, alerts>>

\* External: SIGNAL or ORDER_FILLED is published.
AlertPublished ==
  /\ alerts < MaxAlerts
  /\ Puts([type |-> "ALERT", of |-> alerts + 1])
  /\ alerts' = alerts + 1
  /\ UNCHANGED <<consumer, feedTasks, volVars, botVars>>

----------------------------------------------------------------------------
(* The consumer of the bus awaits one handler after another. *)

Takes(type) == consumer = Free /\ bus # <<>> /\ Head(bus).type = type

\* Nobody publishes in answer to a book or a reading.
TakeOther ==
  /\ Takes("ORDERBOOK_UPDATE") \/ Takes("VOLATILITY_INDEX")
  /\ bus' = Tail(bus)
  /\ UNCHANGED <<consumer, feedTasks, volVars, botVars, alerts>>

MayRead(s) == measuring /\ sinceRead[s] = Throttle

TakeTick ==
  /\ Takes("TICK")
  /\ bus' = Tail(bus) /\ consumer' = Ticked(Head(bus).of)
  /\ UNCHANGED <<feedTasks, volVars, botVars, alerts>>

\* The tick's other handlers are done, perhaps after awaiting, and the proxy's
\* turn has come.
ReadTick ==
  /\ consumer.pc = "tick"
  /\ IF ~MayRead(consumer.of) THEN consumer' = Free /\ UNCHANGED <<bus, sinceRead>>
     ELSE IF Len(bus) < BusRoom
     THEN /\ bus' = Append(bus, VolatilityEvent)
          /\ sinceRead' = [sinceRead EXCEPT ![consumer.of] = 0]
          /\ consumer' = Free
     ELSE consumer' = Jammed /\ UNCHANGED <<bus, sinceRead>>
  /\ UNCHANGED <<feedTasks, measuring, botVars, alerts>>

\* Only once the notifier's run has subscribed, and until its stop.
TakeAlert ==
  /\ Takes("ALERT")
  /\ bus' = Tail(bus)
  /\ IF bot # "on" THEN UNCHANGED <<box, consumer>>
     ELSE IF Len(box) < BoxRoom THEN box' = Append(box, Head(bus).of) /\ UNCHANGED consumer
     ELSE consumer' = Waits(Head(bus).of) /\ UNCHANGED box
  /\ UNCHANGED <<feedTasks, volVars, bot, sending, attempted, alerts>>

BoxOpens ==
  /\ consumer.pc = "box" /\ Len(box) < BoxRoom
  /\ box' = Append(box, consumer.of) /\ consumer' = Free
  /\ UNCHANGED <<bus, feedTasks, volVars, bot, sending, attempted, alerts>>

TimePasses ==
  /\ \E s \in Pools : sinceRead[s] < Throttle
  /\ sinceRead' = [s \in Pools |-> IF sinceRead[s] < Throttle THEN sinceRead[s] + 1 ELSE Throttle]
  /\ UNCHANGED <<bus, consumer, feedTasks, measuring, botVars, alerts>>

----------------------------------------------------------------------------
(* The notifier. *)

\* Its run has a bot, and subscribes; without one it listens to nothing.
BotReady ==
  /\ bot = "off" /\ bot' = "on"
  /\ UNCHANGED <<bus, consumer, feedTasks, volVars, box, sending, attempted, alerts>>

Drain ==
  /\ bot = "on" /\ sending = 0 /\ box # <<>>
  /\ sending' = Head(box) /\ box' = Tail(box)
  /\ UNCHANGED <<bus, consumer, feedTasks, volVars, bot, attempted, alerts>>

\* Mutant of Dispatched: what send raises ends the task that drains the queue.
DispatchedOrDead ==
  /\ sending # 0 /\ sending \notin attempted
  /\ attempted' = attempted \cup {sending}
  /\ sending' \in {0, sending}
  /\ UNCHANGED <<bus, consumer, feedTasks, volVars, bot, box, alerts>>

\* send: the message goes out, or what is raised is swallowed with it.
Dispatched ==
  /\ sending # 0
  /\ attempted' = attempted \cup {sending} /\ sending' = 0
  /\ UNCHANGED <<bus, consumer, feedTasks, volVars, bot, box, alerts>>

\* stop: the loop of _drain_queue ends, and what is in the queue stays in it.
StopBot ==
  /\ bot # "stopped" /\ bot' = "stopped"
  /\ UNCHANGED <<bus, consumer, feedTasks, volVars, box, sending, attempted, alerts>>

BotSteps == BoxOpens \/ Drain \/ Dispatched

BusNext ==
  \/ BookWakes \/ BookAnswered \/ BookPublished \/ StopBooks
  \/ DexAnswered \/ TickPublished \/ StopDex
  \/ AlertPublished \/ TimePasses
  \/ TakeOther \/ TakeTick \/ ReadTick \/ TakeAlert
  \/ BotReady \/ StopBot \/ BotSteps

----------------------------------------------------------------------------
(* What the notifier was handed, the one the bus waits with included, it    *)
(* tries to send while it runs, however sends fail and although its queue   *)
(* and the bus are full (telegram_bot.py:49-86).                            *)
Handed(n) == n \in Range(box) \/ consumer = Waits(n)

AlertsLeave ==
  \A n \in 1 .. MaxAlerts : Handed(n) ~> (n \in attempted \/ bot = "stopped")
=============================================================================
