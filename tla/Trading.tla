------------------------------ MODULE Trading ------------------------------
(***************************************************************************)
(* The trading loop: the risk book, the event bus that feeds it, the CEX   *)
(* executors (execution/cex_executor.py, kraken_executor.py), the exchange *)
(* they trade on (external) and the operator's endpoints                   *)
(* (interface/dashboard_api.py, interface/routes/).                        *)
(*                                                                         *)
(* One consumer task takes events off the bus and awaits each handler to   *)
(* its end; the endpoints run on the same loop between any two of its      *)
(* awaits.  Only the events the loop itself raises sit in the queue of     *)
(* this module: signals and ticks arrive when they like and are handled    *)
(* when the consumer is free.  Handlers end by publishing what they did,   *)
(* and wait for room in the queue only their caller empties.               *)
(***************************************************************************)
EXTENDS RiskManager

CONSTANTS
  PaperMode,       \* config.paper_mode
  MarketOnly,      \* exchanges entered at market only (the Kraken executor)
  Lots,            \* lots in one order: two or more make partial fills
  MaxPolls,        \* max_retries of _wait_for_fill
  QueueCap,        \* capacity of the bus
  MaxKills         \* bound: kill requests in one behaviour

ASSUME ModeAssumption == PaperMode \in BOOLEAN /\ MarketOnly \subseteq Exchanges
ASSUME SizesAssumption ==
  /\ Lots \in Nat \ {0} /\ MaxPolls \in Nat
  /\ QueueCap \in Nat \ {0} /\ MaxKills \in Nat

VARIABLES
  queue,           \* EventBus._queue, the internally raised events
  blockedKills,    \* kill requests whose publish waits for room in the queue
  kills,           \* kill requests made so far
  consumer,        \* where the consumer is in the handler it awaits
  bought,          \* the exchange: lots bought since the last signal on a key
  stray            \* the exchange: lots resting in orders nobody watches

venue == <<bought, stray>>
tradingVars == <<queue, blockedKills, kills, consumer, bought, stray>>
vars == <<riskVars, tradingVars>>

\* An exit event remembers the position it was raised for and its own age:
\* history, the payload carries neither.
Exit(k, price) ==
  [type |-> "EXIT", key |-> k, price |-> price, id |-> positions[k].id, age |-> 0]
KillEvent == [type |-> "KILL_SWITCH"]

\* ORDER_FILLED, ORDER_FAILED and POSITION_CLOSED: their handlers (metrics,
\* Telegram) leave this state alone.
Notice == [type |-> "NOTICE"]

ExitEvent ==
  [type : {"EXIT"}, key : Keys, price : Prices, id : 1..MaxSignals, age : 0..Cooldown]

HasRoom == Len(queue) < QueueCap

Idle == [pc |-> "idle"]
Stuck == [pc |-> "stuck"]
ConsumerFree == consumer = Idle

\* The awaited publish of a handler, on a bus that holds these events: queued when
\* there is room, and the handler goes on; otherwise it waits for the one task
\* that takes events off, which is its own.
Report(events, goOn) ==
  IF Len(events) < QueueCap
  THEN queue' = Append(events, Notice) /\ consumer' = goOn
  ELSE queue' = events /\ consumer' = Stuck

\* The order an executor is working on: what for, polls made so far, and lots of
\* its limit order still resting.
Working(pc, k, side, price, id, polls, resting) ==
  [pc |-> pc, key |-> k, side |-> side, price |-> price, id |-> id,
   polls |-> polls, resting |-> resting]

WorkingState ==
  [pc : {"submit", "poll", "cancel", "market"}, key : Keys, side : Sides,
   price : Prices, id : 1..MaxSignals, polls : 0..MaxPolls, resting : 0..Lots]

\* The kill handlers: executors still to run, and positions the last one closed
\* and has not reported.
Killing(left, closed) == [pc |-> "kill", left |-> left, closed |-> closed]
KillingState == [pc : {"kill"}, left : SUBSET Exchanges, closed : Nat]

----------------------------------------------------------------------------
Init ==
  /\ RiskInit
  /\ queue = <<>> /\ blockedKills = 0 /\ kills = 0
  /\ consumer = Idle
  /\ bought = [k \in Keys |-> 0] /\ stray = [k \in Keys |-> 0]

----------------------------------------------------------------------------
(* SIGNAL: _handle_signal. *)

\* approve_signal refuses, for a reason of its own or of the signal's.  The
\* kill switch is looked at before the breaker is read.
RejectSignal ==
  /\ ConsumerFree /\ ~killed
  /\ ReadBreaker
  /\ UNCHANGED tradingVars

\* Paper mode: approved and opened with no await in between.
PaperEnter(k, side, price) ==
  /\ PaperMode /\ ConsumerFree
  /\ Enter(k, side, price)
  /\ Report(queue, Idle)
  /\ UNCHANGED <<blockedKills, kills, venue>>

\* Live: approved, then the order is submitted, at market when the signal is
\* marked an emergency exit.  The position is not in the book until the exchange
\* has answered.
LiveEnter(k, side, price) ==
  /\ ~PaperMode /\ ConsumerFree
  /\ signals < MaxSignals
  /\ Approvable(k)
  /\ account' = ReadTripped(account)
  /\ signals' = signals + 1
  /\ \E pc \in {"submit", "market"} :
       /\ k[1] \in MarketOnly => pc = "market"
       /\ consumer' = Working(pc, k, side, price, signals + 1, 0, 0)
  /\ bought' = [bought EXCEPT ![k] = 0]
  /\ UNCHANGED <<positions, killed, sinceTrade, queue, blockedKills, kills, stray>>

At(pc) == consumer.pc = pc

\* The key the consumer is working on.
Key == consumer.key

\* It goes on with the same order.
Continue(pc, polls, resting) ==
  consumer' = Working(pc, Key, consumer.side, consumer.price, consumer.id, polls, resting)

\* The handler ends: lots still resting are nobody's from here on.
Finish == consumer' = Idle

Book == OpenPosition(Key, consumer.side, consumer.price, consumer.id)

KeepRisk == UNCHANGED riskVars
KeepKills == UNCHANGED <<blockedKills, kills>>
KeepBus == UNCHANGED queue /\ KeepKills

\* The handler ends with its report.
FinishReporting == Report(queue, Idle) /\ KeepKills

Leave(lots) == stray' = [stray EXCEPT ![Key] = @ + lots] /\ UNCHANGED bought

\* The exchange buys for the order the consumer is executing.
Buy(lots) == bought' = [bought EXCEPT ![Key] = @ + lots] /\ UNCHANGED stray

\* create_limit_order answers, or raises: the order may be there all the same.
LimitAccepted ==
  /\ At("submit")
  /\ Continue(IF MaxPolls = 0 THEN "cancel" ELSE "poll", 0, Lots)
  /\ KeepRisk /\ KeepBus /\ UNCHANGED venue

LimitRaised ==
  /\ At("submit")
  /\ \E placed \in {0, Lots} : Leave(placed)
  /\ Finish /\ KeepRisk /\ KeepBus

\* Mutant of PollAgain: the attempts are not counted.
PollForever ==
  /\ At("poll") /\ consumer.polls < MaxPolls
  /\ Continue("poll", consumer.polls, consumer.resting)
  /\ KeepRisk /\ KeepBus /\ UNCHANGED venue

\* One round of _wait_for_fill that goes on waiting: nothing filled yet, or the
\* fetch failed.  After the last round the order is cancelled.
PollAgain ==
  /\ At("poll") /\ consumer.polls < MaxPolls
  /\ Continue(IF consumer.polls + 1 = MaxPolls THEN "cancel" ELSE "poll",
              consumer.polls + 1, consumer.resting)
  /\ KeepRisk /\ KeepBus /\ UNCHANGED venue

\* The fetched order is closed: the position is opened, whole.
PollFilled ==
  /\ At("poll") /\ consumer.resting = 0
  /\ Book
  /\ FinishReporting /\ UNCHANGED <<killed, account, signals, venue>>

\* Mutant of PollPartial: an accepted partial fill opens the whole position.
PollPartialBooked ==
  /\ At("poll") /\ consumer.resting \in 1..(Lots - 1)
  /\ Leave(consumer.resting)
  /\ Book
  /\ FinishReporting /\ UNCHANGED <<killed, account, signals>>

\* "partial fill -- accept it": returned with status open, so not booked.
PollPartial ==
  /\ At("poll") /\ consumer.resting \in 1..(Lots - 1)
  /\ Leave(consumer.resting)
  /\ FinishReporting /\ KeepRisk

\* cancel_order works, or raises and is only logged; either way the whole
\* amount is bought at market next.
CancelAnswered ==
  /\ At("cancel")
  /\ \E left \in {0, consumer.resting} : Leave(left)
  /\ Continue("market", consumer.polls, 0)
  /\ KeepRisk /\ KeepBus

\* create_market_order answers with a filled order, with one not (yet) filled,
\* or raises; it may have bought in every case but must have in the first.  The
\* Kraken executor does not look at the status.
MarketFilled ==
  /\ At("market")
  /\ Book
  /\ Buy(Lots)
  /\ FinishReporting /\ UNCHANGED <<killed, account, signals>>

MarketUnfilled ==
  /\ At("market")
  /\ \E took \in {0, Lots} : Buy(took)
  /\ IF Key[1] \in MarketOnly THEN Book ELSE UNCHANGED <<positions, sinceTrade>>
  /\ FinishReporting /\ UNCHANGED <<killed, account, signals>>

MarketRaised ==
  /\ At("market")
  /\ \E took \in {0, Lots} : Buy(took)
  /\ Finish /\ KeepRisk /\ KeepBus

----------------------------------------------------------------------------
(* The exchange fills resting orders, the watched one and the stray ones. *)

VenueFills ==
  /\ consumer.pc \in {"poll", "cancel"} /\ consumer.resting > 0
  /\ Continue(consumer.pc, consumer.polls, consumer.resting - 1)
  /\ Buy(1)
  /\ KeepRisk /\ KeepBus

VenueFillsStray(k) ==
  /\ stray[k] > 0
  /\ stray' = [stray EXCEPT ![k] = @ - 1]
  /\ bought' = [bought EXCEPT ![k] = @ + 1]
  /\ KeepRisk /\ KeepBus /\ UNCHANGED consumer

----------------------------------------------------------------------------
(* TICK: update_prices, which may raise an exit.  Which prices do is the    *)
(* business of PositionStops; publish_nowait drops the event when the queue *)
(* is full.                                                                 *)
Tick(k, price) ==
  /\ ConsumerFree
  /\ UpdatePrice(k, price)
  /\ \/ HasRoom /\ queue' = Append(queue, Exit(k, price))
     \/ UNCHANGED queue
  /\ UNCHANGED <<blockedKills, kills, consumer, venue>>

----------------------------------------------------------------------------
(* STOP_LOSS and TAKE_PROFIT: the position now under the key is closed in   *)
(* the book; no order is sent.  A publish that waited may have taken the     *)
(* place of the exit by the time the handler reports.                        *)
HandleExit ==
  /\ ConsumerFree /\ queue # <<>> /\ Head(queue).type = "EXIT"
  /\ IF Head(queue).key \in Open
     THEN /\ Close(Head(queue).key, Head(queue).price)
          /\ \/ Report(Tail(queue), Idle) /\ UNCHANGED blockedKills
             \/ /\ blockedKills > 0
                /\ Report(Append(Tail(queue), KillEvent), Idle)
                /\ blockedKills' = blockedKills - 1
     ELSE KeepRisk /\ queue' = Tail(queue) /\ UNCHANGED <<consumer, blockedKills>>
  /\ UNCHANGED <<kills, venue>>

HandleNotice ==
  /\ ConsumerFree /\ queue # <<>> /\ Head(queue) = Notice
  /\ queue' = Tail(queue)
  /\ KeepRisk /\ KeepKills /\ UNCHANGED <<consumer, venue>>

(* KILL_SWITCH: every executor in turn throws the switch again, cancels its  *)
(* exchange's open orders one by one, passing over a failed cancel, and      *)
(* reports the positions it closed.                                          *)
HandleKill ==
  /\ ConsumerFree /\ queue # <<>> /\ Head(queue) = KillEvent
  /\ queue' = Tail(queue)
  /\ consumer' = Killing(Exchanges, 0)
  /\ KeepRisk /\ KeepKills /\ UNCHANGED venue

KillOn(e) ==
  /\ At("kill") /\ consumer.closed = 0 /\ e \in consumer.left
  /\ ActivateKillSwitch
  /\ \E cancelled \in SUBSET {k \in Keys : k[1] = e /\ stray[k] > 0} :
       stray' = [k \in Keys |-> IF k \in cancelled THEN 0 ELSE stray[k]]
  /\ UNCHANGED bought
  /\ consumer' = Killing(consumer.left \ {e}, Cardinality(Open))
  /\ KeepBus

KillReports ==
  /\ At("kill") /\ consumer.closed > 0
  /\ Report(queue, Killing(consumer.left, consumer.closed - 1))
  /\ KeepRisk /\ KeepKills /\ UNCHANGED venue

KillHandled ==
  /\ At("kill") /\ consumer.left = {} /\ consumer.closed = 0
  /\ Finish /\ KeepRisk /\ KeepBus /\ UNCHANGED venue

----------------------------------------------------------------------------
(* The operator's endpoints. *)

\* POST /v1/kill: throws the switch at once, then publishes the event, waiting
\* for room when there is none.
ApiKill ==
  /\ kills < MaxKills
  /\ kills' = kills + 1
  /\ ActivateKillSwitch
  /\ IF HasRoom
     THEN queue' = Append(queue, KillEvent) /\ UNCHANGED blockedKills
     ELSE blockedKills' = blockedKills + 1 /\ UNCHANGED queue
  /\ UNCHANGED <<consumer, venue>>

ApiKillPublishes ==
  /\ blockedKills > 0 /\ HasRoom
  /\ queue' = Append(queue, KillEvent)
  /\ blockedKills' = blockedKills - 1
  /\ KeepRisk /\ UNCHANGED <<kills, consumer, venue>>

ApiClose(k, price) == Close(k, price) /\ UNCHANGED tradingVars
ApiCloseVenues(venues) == CloseVenues(venues) /\ UNCHANGED tradingVars
ApiDeactivate == DeactivateKillSwitch /\ UNCHANGED tradingVars
ApiCloseAll == CloseAllByKilling /\ UNCHANGED tradingVars
ApiReadRisk == ReadBreaker /\ UNCHANGED tradingVars
ApiResetBreaker == ResetBreaker /\ UNCHANGED tradingVars

----------------------------------------------------------------------------
\* Time passes for the book and for the events in the queue.
Aged(e) == IF e.type = "EXIT" THEN [e EXCEPT !.age = Older(@, Cooldown)] ELSE e

Clock ==
  /\ PassTime
  /\ queue' = [i \in 1..Len(queue) |-> Aged(queue[i])]
  /\ UNCHANGED <<blockedKills, kills, consumer, venue>>

Executor ==
  \/ LimitAccepted \/ LimitRaised
  \/ PollAgain \/ PollFilled \/ PollPartial \/ CancelAnswered
  \/ MarketFilled \/ MarketUnfilled \/ MarketRaised

Consume ==
  \/ Executor
  \/ HandleExit \/ HandleNotice \/ HandleKill \/ KillReports \/ KillHandled
  \/ \E e \in Exchanges : KillOn(e)

Feeds ==
  \/ RejectSignal
  \/ \E k \in Keys, side \in Sides, price \in Prices :
       PaperEnter(k, side, price) \/ LiveEnter(k, side, price)
  \/ \E k \in Keys, price \in Prices : Tick(k, price)

Operator ==
  \/ ApiKill \/ ApiKillPublishes \/ ApiDeactivate \/ ApiCloseAll
  \/ ApiReadRisk \/ ApiResetBreaker
  \/ \E k \in Keys, price \in Prices : ApiClose(k, price)
  \/ \E venues \in SUBSET Exchanges : ApiCloseVenues(venues)

Venue == VenueFills \/ \E k \in Keys : VenueFillsStray(k)

Next == Consume \/ Feeds \/ Operator \/ Venue \/ Clock

Spec == Init /\ [][Next]_vars

\* The consumer task is scheduled whenever it can run, every exchange call
\* returns or raises in the end, and a publish that waits gets the room that
\* comes free.
FairSpec == Spec /\ WF_vars(Consume) /\ WF_vars(ApiKillPublishes)

----------------------------------------------------------------------------
(* Properties. *)

\* The shape of the loop's own state: a queue of exits, kills and notices, a
\* consumer that is idle, executing one order, handling one kill or stuck.
QueueTypeOK ==
  queue \in Seq(ExitEvent \cup {KillEvent, Notice}) /\ blockedKills \in Nat /\ kills \in 0..MaxKills
ConsumerTypeOK == consumer \in {Idle, Stuck} \cup WorkingState \cup KillingState
VenueTypeOK == bought \in [Keys -> Nat] /\ stray \in [Keys -> Nat]

TradingTypeOK == BookTypeOK /\ QueueTypeOK /\ ConsumerTypeOK /\ VenueTypeOK

\* Whatever closes and reopens a key while an exit waits in the queue, the exit
\* closes the position it was raised for, or one opened a whole cooldown after
\* the exit was raised: the cooldown is what stands between a stop raised twice
\* (every tick below the stop raises it again) and the next position.
ExitsAreFresh ==
  \A i \in 1..Len(queue) :
    (/\ queue[i].type = "EXIT"
     /\ queue[i].key \in Open
     /\ positions[queue[i].key].id # queue[i].id) => queue[i].age = Cooldown

\* A position the executors of the limit-order exchanges opened is backed by a
\* whole order bought on the exchange.
BookedOnlyIfBought ==
  ~PaperMode => \A k \in Open : k[1] \notin MarketOnly => bought[k] >= Lots

\* The order the consumer is executing will fit: its key is free and counting
\* it there are no more positions than max_open_positions.
EntryFits ==
  consumer \in WorkingState =>
    /\ Key \notin Open
    /\ Cardinality(Open \cup {Key}) <= MaxOpen

\* A kill that reached the queue reaches the executors, however long the order
\* the consumer is waiting for takes, unless a handler that reports what it did
\* finds the queue full: from then on nothing is taken off it.
KillReachesExecutors ==
  (\E i \in 1..Len(queue) : queue[i] = KillEvent)
    ~> At("kill") \/ (At("stuck") /\ ~HasRoom)
=============================================================================
