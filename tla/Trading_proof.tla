--------------------------- MODULE Trading_proof ---------------------------
(***************************************************************************)
(* Proofs about trading.  In paper and in live mode queued exits stay      *)
(* attached to the position they were raised for, up to the cooldown, the  *)
(* number of positions stays within the limit, and what is booked has been *)
(* bought.                                                                 *)
(* The stops of the positions keep the profit they have locked in and are  *)
(* announced when they are crossed, and the loss that is counted under     *)
(* changing limits does not understate the account's.                      *)
(***************************************************************************)
EXTENDS Trading, PositionStops, RiskSettings, RiskManager_proof

----------------------------------------------------------------------------
(* The bus. *)

Event == ExitEvent \cup {KillEvent, Notice}

LEMMA ExitTyping ==
  ASSUME BookTypeOK, NEW k \in Open, NEW price \in Prices
  PROVE  Exit(k, price) \in ExitEvent
<1>1. k \in Keys /\ positions[k] \in Position
  BY DEF BookTypeOK
<1>. QED
  BY <1>1, LimitsAssumption DEF Exit, ExitEvent, Position

LEMMA AgedTyping ==
  ASSUME NEW e \in Event
  PROVE  Aged(e) \in Event
<1>1. CASE e \in ExitEvent
  <2>1. [e EXCEPT !.age = Older(e.age, Cooldown)] \in ExitEvent
    BY <1>1, LimitsAssumption DEF ExitEvent, Older
  <2>. QED
    BY <2>1, <1>1 DEF Aged, Event
<1>2. CASE e \in {KillEvent, Notice}
  BY <1>2 DEF Aged, Event, KillEvent, Notice
<1>. QED
  BY <1>1, <1>2 DEF Event

\* A report adds a notice to what is left on the bus, or nothing.
LEMMA ReportTyping ==
  ASSUME NEW events \in Seq(Event), NEW goOn, Report(events, goOn)
  PROVE  /\ queue' \in Seq(Event) /\ consumer' \in {goOn, Stuck}
         /\ \A i \in 1..Len(queue') :
              queue'[i] = Notice \/ \E j \in 1..Len(events) : queue'[i] = events[j]
<1>1. CASE Len(events) < QueueCap
  BY <1>1 DEF Report, Event
<1>2. CASE ~(Len(events) < QueueCap)
  BY <1>2 DEF Report
<1>. QED
  BY <1>1, <1>2

LEMMA QueueTypeStep ==
  ASSUME BookTypeOK, QueueTypeOK, [Next]_vars
  PROVE  QueueTypeOK'
<1>. USE DEF QueueTypeOK
<1>1. CASE \/ LimitAccepted \/ LimitRaised \/ PollAgain \/ CancelAnswered
           \/ MarketRaised \/ Venue \/ KillHandled \/ \E e \in Exchanges : KillOn(e)
  <2>1. KeepBus
    BY <1>1 DEF LimitAccepted, LimitRaised, PollAgain, CancelAnswered, MarketRaised,
     KeepBus, KeepKills, Venue, VenueFills, VenueFillsStray, KillHandled, KillOn
  <2>. QED
    BY <2>1 DEF KeepBus, KeepKills
<1>2. CASE HandleNotice \/ HandleKill
  <2>1. queue # <<>> /\ queue' = Tail(queue) /\ UNCHANGED <<blockedKills, kills>>
    BY <1>2 DEF HandleNotice, HandleKill, KeepKills
  <2>. QED
    BY <2>1
<1>3. CASE \/ PollFilled \/ PollPartial \/ MarketFilled \/ MarketUnfilled \/ KillReports
           \/ \E k \in Keys, side \in Sides, price \in Prices : PaperEnter(k, side, price)
  <2>1. (\E goOn : Report(queue, goOn)) /\ UNCHANGED <<blockedKills, kills>>
    BY <1>3 DEF PollFilled, PollPartial, MarketFilled, MarketUnfilled, KillReports,
       PaperEnter, FinishReporting, KeepKills
  <2>. QED
    BY <2>1, ReportTyping DEF Event
<1>11. CASE HandleExit
  <2>1. queue # <<>> /\ kills' = kills /\ Tail(queue) \in Seq(Event)
    BY <1>11 DEF HandleExit, Event
  <2>2. \/ queue' = Tail(queue) /\ UNCHANGED blockedKills
        \/ Report(Tail(queue), Idle) /\ UNCHANGED blockedKills
        \/ /\ blockedKills > 0 /\ blockedKills' = blockedKills - 1
           /\ Report(Append(Tail(queue), KillEvent), Idle)
    BY <1>11 DEF HandleExit
  <2>3. Append(Tail(queue), KillEvent) \in Seq(Event)
    BY <2>1 DEF Event
  <2>4. queue' \in Seq(Event)
    BY <2>1, <2>2, <2>3, ReportTyping
  <2>5. blockedKills' \in Nat
    BY <2>2
  <2>. QED
    BY <2>1, <2>4, <2>5 DEF Event
<1>4. ASSUME NEW k \in Keys, NEW price \in Prices, Tick(k, price)
      PROVE  QueueTypeOK'
  <2>1. Exit(k, price) \in ExitEvent
    BY <1>4, ExitTyping DEF Tick, UpdatePrice
  <2>. QED
    BY <1>4, <2>1 DEF Tick
<1>5. CASE \/ RejectSignal
           \/ \E k \in Keys, side \in Sides, price \in Prices : LiveEnter(k, side, price)
  BY <1>5 DEF RejectSignal, LiveEnter, tradingVars
<1>6. CASE ApiKill
  <2>1. kills + 1 \in 0..MaxKills /\ blockedKills + 1 \in Nat
    BY <1>6, SizesAssumption DEF ApiKill
  <2>2. \/ queue' = Append(queue, KillEvent) /\ UNCHANGED blockedKills
        \/ blockedKills' = blockedKills + 1 /\ UNCHANGED queue
    BY <1>6 DEF ApiKill
  <2>3. kills' = kills + 1
    BY <1>6 DEF ApiKill
  <2>. QED
    BY <2>1, <2>2, <2>3, SMTT(30)
<1>10. CASE ApiKillPublishes
  BY <1>10 DEF ApiKillPublishes
<1>7. CASE \/ ApiDeactivate \/ ApiCloseAll \/ ApiReadRisk \/ ApiResetBreaker
           \/ \E k \in Keys, price \in Prices : ApiClose(k, price)
           \/ \E venues \in SUBSET Exchanges : ApiCloseVenues(venues)
  BY <1>7 DEF ApiDeactivate, ApiCloseAll, ApiReadRisk, ApiResetBreaker, ApiClose,
     ApiCloseVenues, tradingVars
<1>8. CASE Clock
  <2>1. \A i \in 1..Len(queue) : Aged(queue[i]) \in Event
    BY AgedTyping DEF Event
  <2>. QED
    BY <1>8, <2>1 DEF Clock, Event
<1>9. CASE UNCHANGED vars
  BY <1>9 DEF vars, tradingVars
<1>. QED
  BY <1>1, <1>2, <1>3, <1>4, <1>5, <1>6, <1>7, <1>8, <1>9,
     <1>10, <1>11 DEF Next, Consume, Executor, Feeds, Operator

----------------------------------------------------------------------------
(* The consumer. *)

LEMMA WorkingTyping ==
  ASSUME ConsumerTypeOK, consumer.pc \in {"submit", "poll", "cancel", "market"}
  PROVE  consumer \in WorkingState
BY DEF ConsumerTypeOK, Idle, Stuck, KillingState

LEMMA ConsumerTypeStep ==
  ASSUME BookTypeOK, ConsumerTypeOK, [Next]_vars
  PROVE  ConsumerTypeOK'
<1>1. ASSUME NEW k \in Keys, NEW side \in Sides, NEW price \in Prices,
             LiveEnter(k, side, price)
      PROVE  ConsumerTypeOK'
  <2>1. signals + 1 \in 1..MaxSignals
    BY <1>1, LimitsAssumption DEF LiveEnter, BookTypeOK
  <2>. QED
    BY <1>1, <2>1, SizesAssumption DEF LiveEnter, Working, WorkingState, ConsumerTypeOK
<1>2. ASSUME NEW pc \in {"submit", "poll", "cancel", "market"},
             NEW polls \in 0..MaxPolls, NEW resting \in 0..Lots,
             consumer \in WorkingState, Continue(pc, polls, resting)
      PROVE  ConsumerTypeOK'
  BY <1>2 DEF Continue, Working, WorkingState, ConsumerTypeOK, Key
<1>3. CASE LimitAccepted
  BY <1>2, <1>3, WorkingTyping, SizesAssumption DEF LimitAccepted, At
<1>4. CASE PollAgain \/ CancelAnswered
  <2>1. consumer \in WorkingState
    BY <1>4, WorkingTyping DEF PollAgain, CancelAnswered, At
  <2>2. consumer.polls \in 0..MaxPolls /\ consumer.resting \in 0..Lots
    BY <2>1 DEF WorkingState
  <2>. QED
    BY <1>2, <1>4, <2>1, <2>2, SizesAssumption DEF PollAgain, CancelAnswered
<1>5. CASE VenueFills
  <2>1. consumer \in WorkingState
    BY <1>5, WorkingTyping DEF VenueFills
  <2>2. consumer.polls \in 0..MaxPolls /\ consumer.resting \in 0..Lots
    BY <2>1 DEF WorkingState
  <2>. QED
    BY <1>2, <1>5, <2>1, <2>2, SizesAssumption DEF VenueFills
<1>6. CASE \/ LimitRaised \/ PollFilled \/ PollPartial
           \/ MarketFilled \/ MarketUnfilled \/ MarketRaised \/ KillHandled \/ HandleExit
           \/ \E k \in Keys, side \in Sides, price \in Prices : PaperEnter(k, side, price)
  <2>1. consumer' \in {Idle, Stuck} \/ consumer' = consumer
    BY <1>6 DEF LimitRaised, PollFilled, PollPartial, MarketFilled, MarketUnfilled,
       MarketRaised, KillHandled, HandleExit, PaperEnter, Finish, FinishReporting, Report
  <2>. QED
    BY <2>1 DEF ConsumerTypeOK
<1>7. CASE HandleKill
  BY <1>7 DEF HandleKill, Killing, KillingState, ConsumerTypeOK
<1>8. ASSUME NEW e \in Exchanges, KillOn(e)
      PROVE  ConsumerTypeOK'
  <2>1. consumer \in KillingState
    BY <1>8 DEF KillOn, At, ConsumerTypeOK, Idle, Stuck, WorkingState
  <2>2. Cardinality(Open) \in Nat
    BY OpenIsFinite, FS_CardinalityType
  <2>. QED
    BY <1>8, <2>1, <2>2 DEF KillOn, Killing, KillingState, ConsumerTypeOK
<1>10. CASE KillReports
  <2>1. consumer \in KillingState
    BY <1>10 DEF KillReports, At, ConsumerTypeOK, Idle, Stuck, WorkingState
  <2>2. Killing(consumer.left, consumer.closed - 1) \in KillingState
    BY <1>10, <2>1 DEF KillReports, Killing, KillingState
  <2>. QED
    BY <1>10, <2>2 DEF KillReports, Report, ConsumerTypeOK
<1>9. CASE \/ HandleNotice \/ RejectSignal \/ Clock \/ Operator
           \/ \E k \in Keys, price \in Prices : Tick(k, price)
           \/ \E k \in Keys : VenueFillsStray(k)
           \/ UNCHANGED vars
  BY <1>9 DEF HandleNotice, RejectSignal, Clock, Operator, Tick, VenueFillsStray, ApiKill, ApiKillPublishes, ApiDeactivate, ApiCloseAll, ApiReadRisk,
     ApiResetBreaker, ApiClose, ApiCloseVenues, vars, tradingVars, ConsumerTypeOK
<1>. QED
  BY <1>1, <1>2, <1>3, <1>4, <1>5, <1>6, <1>7, <1>8, <1>9, <1>10
     DEF Next, Consume, Executor, Feeds, Venue

----------------------------------------------------------------------------
(* The exchange. *)

LEMMA VenueTypeStep ==
  ASSUME ConsumerTypeOK, VenueTypeOK, [Next]_vars
  PROVE  VenueTypeOK'
<1>. USE DEF VenueTypeOK
<1>1. ASSUME NEW lots \in Nat, NEW k \in Keys
      PROVE  /\ [bought EXCEPT ![k] = bought[k] + lots] \in [Keys -> Nat]
             /\ [stray EXCEPT ![k] = stray[k] + lots] \in [Keys -> Nat]
  OBVIOUS
<1>2. ASSUME consumer.pc \in {"submit", "poll", "cancel", "market"}
      PROVE  Key \in Keys /\ consumer.resting \in Nat
  BY <1>2, WorkingTyping, SizesAssumption DEF WorkingState, Key
<1>3. CASE LimitRaised \/ PollPartial \/ CancelAnswered
  <2>1. \E lots \in Nat : Leave(lots)
    BY <1>2, <1>3, SizesAssumption DEF LimitRaised, PollPartial, CancelAnswered, At
  <2>2. Key \in Keys
    BY <1>2, <1>3 DEF LimitRaised, PollPartial, CancelAnswered, At
  <2>. QED
    BY <1>1, <2>1, <2>2 DEF Leave
<1>4. CASE MarketFilled \/ MarketUnfilled \/ MarketRaised \/ VenueFills
  <2>1. \E lots \in Nat : Buy(lots)
    BY <1>4, SizesAssumption DEF MarketFilled, MarketUnfilled, MarketRaised, VenueFills
  <2>2. Key \in Keys
    BY <1>2, <1>4 DEF MarketFilled, MarketUnfilled, MarketRaised, VenueFills, At
  <2>. QED
    BY <1>1, <2>1, <2>2 DEF Buy
<1>5. ASSUME NEW k \in Keys, VenueFillsStray(k)
      PROVE  VenueTypeOK'
  BY <1>5 DEF VenueFillsStray
<1>6. ASSUME NEW e \in Exchanges, KillOn(e)
      PROVE  VenueTypeOK'
  BY <1>6 DEF KillOn
<1>7. ASSUME NEW k \in Keys, NEW side \in Sides, NEW price \in Prices,
             LiveEnter(k, side, price)
      PROVE  VenueTypeOK'
  BY <1>7 DEF LiveEnter
<1>8. CASE \/ LimitAccepted \/ PollAgain \/ PollFilled
           \/ HandleExit \/ HandleNotice \/ HandleKill \/ KillReports \/ KillHandled
           \/ RejectSignal \/ Clock \/ Operator
           \/ \E k \in Keys, side \in Sides, price \in Prices : PaperEnter(k, side, price)
           \/ \E k \in Keys, price \in Prices : Tick(k, price)
           \/ UNCHANGED vars
  BY <1>8 DEF LimitAccepted, PollAgain, PollFilled, HandleExit, HandleNotice, HandleKill,
     KillReports, KillHandled, RejectSignal, Clock, Operator, PaperEnter, Tick, ApiKill, ApiKillPublishes,
     ApiDeactivate, ApiCloseAll, ApiReadRisk, ApiResetBreaker, ApiClose, ApiCloseVenues,
     vars, tradingVars, venue
<1>. QED
  BY <1>3, <1>4, <1>5, <1>6, <1>7, <1>8 DEF Next, Consume, Executor, Feeds, Venue

----------------------------------------------------------------------------
(* The book. *)

\* An executor opens the position its order was for.
Booking ==
  /\ consumer \in WorkingState
  /\ Book
  /\ UNCHANGED <<killed, account, signals>>
  /\ consumer' \in {Idle, Stuck}

\* Every step of the loop does to the book what one method of it does, except
\* that a live entry is approved in one step and booked in a later one.
LEMMA BookSteps ==
  ASSUME QueueTypeOK, ConsumerTypeOK, [Next]_vars
  PROVE  \/ [RiskNext]_riskVars
         \/ Booking
         \/ \E k \in Keys, side \in Sides, price \in Prices : LiveEnter(k, side, price)
<1>1. CASE LimitAccepted \/ LimitRaised \/ PollAgain \/ PollPartial \/ CancelAnswered
           \/ MarketRaised
  BY <1>1 DEF LimitAccepted, LimitRaised, PollAgain, PollPartial, CancelAnswered,
     MarketRaised, KeepRisk
<1>2. CASE PollFilled \/ MarketFilled
  <2>1. consumer \in WorkingState
    BY <1>2, WorkingTyping DEF PollFilled, MarketFilled, At
  <2>. QED
    BY <1>2, <2>1 DEF PollFilled, MarketFilled, FinishReporting, Report, Booking
<1>3. CASE MarketUnfilled
  <2>1. consumer \in WorkingState
    BY <1>3, WorkingTyping DEF MarketUnfilled, At
  <2>. QED
    BY <1>3, <2>1 DEF MarketUnfilled, FinishReporting, Report, Booking, riskVars
<1>4. CASE HandleExit
  <2>1. CASE Head(queue).key \in Open
    <3>1. Head(queue) \in ExitEvent
      BY <1>4 DEF HandleExit, QueueTypeOK, KillEvent, Notice
    <3>2. Head(queue).key \in Keys /\ Head(queue).price \in Prices
      BY <3>1 DEF ExitEvent
    <3>3. Close(Head(queue).key, Head(queue).price)
      BY <1>4, <2>1 DEF HandleExit
    <3>. QED
      BY <3>2, <3>3 DEF RiskNext
  <2>. QED
    BY <1>4, <2>1 DEF HandleExit, KeepRisk
<1>5. CASE HandleNotice \/ HandleKill \/ KillReports \/ KillHandled \/ Venue
  BY <1>5 DEF HandleNotice, HandleKill, KillReports, KillHandled, Venue, VenueFills, VenueFillsStray, KeepRisk
<1>6. ASSUME NEW e \in Exchanges, KillOn(e)
      PROVE  RiskNext
  BY <1>6 DEF KillOn, RiskNext
<1>7. CASE RejectSignal \/ Clock
  BY <1>7 DEF RejectSignal, Clock, RiskNext
<1>8. ASSUME NEW k \in Keys, NEW side \in Sides, NEW price \in Prices,
             PaperEnter(k, side, price)
      PROVE  RiskNext
  BY <1>8 DEF PaperEnter, RiskNext
<1>9. ASSUME NEW k \in Keys, NEW price \in Prices, Tick(k, price)
      PROVE  RiskNext
  BY <1>9 DEF Tick, RiskNext
<1>10. CASE Operator
  BY <1>10 DEF Operator, ApiKill, ApiKillPublishes, ApiDeactivate, ApiCloseAll, ApiReadRisk,
     ApiResetBreaker, ApiClose, ApiCloseVenues, KeepRisk, RiskNext
<1>11. CASE UNCHANGED vars
  BY <1>11 DEF vars
<1>. QED
  BY <1>1, <1>2, <1>3, <1>4, <1>5, <1>6, <1>7, <1>8, <1>9, <1>10, <1>11
     DEF Next, Consume, Executor, Feeds

LEMMA TradingTypeStep ==
  ASSUME TradingTypeOK, [Next]_vars
  PROVE  TradingTypeOK'
<1>. USE DEF TradingTypeOK
<1>1. BookTypeOK'
  <2>1. CASE [RiskNext]_riskVars
    BY <2>1, BookTypeStep
  <2>2. CASE Booking
    <3>1. /\ Key \in Keys /\ consumer.side \in Sides
          /\ consumer.price \in Prices /\ consumer.id \in 1..MaxSignals
      BY <2>2 DEF Booking, WorkingState, Key
    <3>2. Open \subseteq Keys
      BY DEF BookTypeOK
    <3>3. /\ Open' = Open \cup {Key}
          /\ positions' \in [Open' -> Position]
          /\ sinceTrade' \in [Symbols -> 0..Cooldown]
      BY <2>2, <3>1, OpenTyping DEF Booking, Book
    <3>. QED
      BY <2>2, <3>1, <3>2, <3>3 DEF Booking, BookTypeOK
  <2>3. ASSUME NEW k \in Keys, NEW side \in Sides, NEW price \in Prices,
               LiveEnter(k, side, price)
        PROVE  BookTypeOK'
    BY <2>3, LimitsAssumption DEF LiveEnter, BookTypeOK, Open
  <2>. QED
    BY <2>1, <2>2, <2>3, BookSteps
<1>. QED
  BY <1>1, QueueTypeStep, ConsumerTypeStep, VenueTypeStep

\* The loop's state stays well typed, for every limit, price set, number of
\* exchanges and capacity of the bus.
THEOREM TradingTypeCorrect == Spec => []TradingTypeOK
<1>1. Init => TradingTypeOK
  <2>. SUFFICES ASSUME Init PROVE TradingTypeOK
    OBVIOUS
  <2>1. BookTypeOK
    BY RiskInitTyping DEF Init
  <2>2. QueueTypeOK
    BY SizesAssumption DEF Init, QueueTypeOK
  <2>3. ConsumerTypeOK /\ VenueTypeOK
    BY DEF Init, ConsumerTypeOK, VenueTypeOK
  <2>. QED
    BY <2>1, <2>2, <2>3 DEF TradingTypeOK
<1>. QED
  BY <1>1, TradingTypeStep, PTL DEF Spec

----------------------------------------------------------------------------
(* The position limit, in both modes. *)

OnOrder == consumer \in WorkingState

\* The steps that end the handler of a signal or an exit leave no order under way.
Ends ==
  \/ LimitRaised \/ PollPartial \/ PollFilled \/ MarketFilled \/ MarketUnfilled
  \/ MarketRaised \/ KillHandled \/ HandleExit
  \/ \E k \in Keys, side \in Sides, price \in Prices : PaperEnter(k, side, price)

LEMMA NoOrderAtEnd == ASSUME Ends PROVE ~OnOrder'
<1>1. consumer' \in {Idle, Stuck}
  BY DEF Ends, LimitRaised, PollPartial, PollFilled, MarketFilled, MarketUnfilled,
     MarketRaised, KillHandled, HandleExit, PaperEnter, ConsumerFree, Finish,
     FinishReporting, Report
<1>. QED
  BY <1>1 DEF OnOrder, Idle, Stuck, WorkingState

\* What EntryFits needs to be inductive: the book alone within the limit, too.
LimitInv == EntryFits /\ MaxOpenRespected

LEMMA CardinalityOfMore ==
  ASSUME NEW S, NEW T, IsFiniteSet(T), S \subseteq T
  PROVE  IsFiniteSet(S) /\ Cardinality(S) <= Cardinality(T) /\ Cardinality(S) \in Nat
         /\ Cardinality(T) \in Nat
BY FS_Subset, FS_CardinalityType

\* Nothing opens and no order is taken up: the limit keeps holding.
LEMMA LimitKept ==
  ASSUME BookTypeOK, LimitInv, Open' \subseteq Open,
         OnOrder' => OnOrder /\ consumer'.key = consumer.key
  PROVE  LimitInv'
<1>1. IsFiniteSet(Open \cup {Key})
  BY OpenIsFinite, FS_AddElement
<1>2. Cardinality(Open') <= Cardinality(Open) /\ Cardinality(Open') \in Nat
      /\ Cardinality(Open) \in Nat
  BY OpenIsFinite, CardinalityOfMore
<1>3. /\ Cardinality(Open' \cup {Key}) <= Cardinality(Open \cup {Key})
      /\ Cardinality(Open' \cup {Key}) \in Nat /\ Cardinality(Open \cup {Key}) \in Nat
  BY <1>1, CardinalityOfMore
<1>4. MaxOpenRespected'
  BY <1>2, LimitsAssumption DEF LimitInv, MaxOpenRespected
<1>5. ASSUME OnOrder' PROVE Key' = Key /\ OnOrder
  BY <1>5 DEF Key
<1>6. ASSUME OnOrder' PROVE Key' \notin Open' /\ Cardinality(Open' \cup {Key'}) <= MaxOpen
  BY <1>3, <1>5, <1>6, LimitsAssumption DEF LimitInv, EntryFits, OnOrder
<1>. QED
  BY <1>4, <1>6 DEF LimitInv, EntryFits, OnOrder

\* Only a signal opens a position or takes up an order, and only booking ends
\* an order in a position.
LEMMA OtherSteps ==
  ASSUME TradingTypeOK, [Next]_vars, ~Booking,
         ~ \E k \in Keys, side \in Sides, price \in Prices :
             PaperEnter(k, side, price) \/ LiveEnter(k, side, price)
  PROVE  /\ Open' \subseteq Open
         /\ OnOrder' => OnOrder /\ consumer'.key = consumer.key
<1>1. signals' = signals
  BY Zenon DEF Next, Consume, Executor, Feeds, Operator, Venue, LimitAccepted, LimitRaised,
     PollAgain, PollFilled, PollPartial, CancelAnswered, MarketFilled, MarketUnfilled,
     MarketRaised, HandleExit, HandleNotice, HandleKill, KillReports, KillHandled, KillOn,
     RejectSignal, Tick, Clock, ApiKill, ApiKillPublishes, ApiDeactivate, ApiCloseAll,
     ApiReadRisk, ApiResetBreaker, ApiClose, ApiCloseVenues, VenueFills, VenueFillsStray, KeepRisk,
     UpdatePrice, Close, CloseVenues, ActivateKillSwitch, DeactivateKillSwitch,
     CloseAllByKilling, ReadBreaker, ResetBreaker, PassTime, vars, riskVars
<1>2. Open' \subseteq Open
  BY <1>1, BookSteps, OnlySignalsOpen DEF TradingTypeOK
<1>3. OnOrder' => OnOrder /\ consumer'.key = consumer.key
  <2>1. CASE LimitAccepted \/ PollAgain \/ CancelAnswered \/ VenueFills
    <3>1. OnOrder
      BY <2>1, WorkingTyping DEF LimitAccepted, PollAgain, CancelAnswered, VenueFills, At,
         TradingTypeOK, OnOrder
    <3>2. consumer'.key = Key
      BY <2>1 DEF LimitAccepted, PollAgain, CancelAnswered, VenueFills, Continue, Working
    <3>. QED
      BY <3>1, <3>2 DEF Key
  <2>2. CASE Ends
    BY <2>2, NoOrderAtEnd
  <2>3. CASE HandleKill \/ KillReports \/ \E e \in Exchanges : KillOn(e)
    BY <2>3 DEF HandleKill, KillReports, KillOn, Killing, Report, Stuck, OnOrder, WorkingState
  <2>4. CASE \/ HandleNotice \/ RejectSignal \/ Operator \/ Clock
             \/ \E k \in Keys : VenueFillsStray(k)
             \/ \E k \in Keys, price \in Prices : Tick(k, price)
             \/ UNCHANGED vars
    <3>1. consumer' = consumer
      BY <2>4 DEF HandleNotice, RejectSignal, Operator, Clock, VenueFillsStray,
         Tick, ApiKill, ApiKillPublishes, ApiDeactivate, ApiCloseAll,
         ApiReadRisk, ApiResetBreaker, ApiClose, ApiCloseVenues, vars, tradingVars
    <3>. QED
      BY <3>1 DEF OnOrder
  <2>. QED
    BY <2>1, <2>2, <2>3, <2>4 DEF Next, Consume, Executor, Feeds, Venue, Ends
<1>. QED
  BY <1>2, <1>3

LEMMA LimitStep ==
  ASSUME TradingTypeOK, LimitInv, [Next]_vars
  PROVE  LimitInv'
<1>1. ASSUME NEW k \in Keys, NEW side \in Sides, NEW price \in Prices,
             LiveEnter(k, side, price)
      PROVE  LimitInv'
  <2>1. Open' = Open /\ consumer'.key = k
    BY <1>1 DEF LiveEnter, Open, Working
  <2>2. k \notin Open /\ Cardinality(Open) < MaxOpen
    BY <1>1 DEF LiveEnter, Approvable
  <2>3. IsFiniteSet(Open) /\ Cardinality(Open) \in Nat
    BY OpenIsFinite DEF TradingTypeOK
  <2>4. Cardinality(Open \cup {k}) = Cardinality(Open) + 1
    BY <2>2, <2>3, FS_AddElement, Zenon
  <2>5. EntryFits'
    BY <2>1, <2>2, <2>3, <2>4, LimitsAssumption DEF EntryFits, Key
  <2>. QED
    BY <2>1, <2>5 DEF LimitInv, MaxOpenRespected
<1>2. CASE Booking
  <2>1. Open' = Open \cup {Key} /\ ~OnOrder'
    BY <1>2 DEF Booking, Book, OpenPosition, Open, OnOrder, Idle, Stuck,
       WorkingState
  <2>2. Cardinality(Open \cup {Key}) <= MaxOpen
    BY <1>2 DEF Booking, LimitInv, EntryFits
  <2>. QED
    BY <2>1, <2>2 DEF LimitInv, EntryFits, MaxOpenRespected, OnOrder
<1>3. ASSUME NEW k \in Keys, NEW side \in Sides, NEW price \in Prices,
             PaperEnter(k, side, price)
      PROVE  LimitInv'
  <2>1. MaxOpenRespected'
    BY <1>3, EnterKeepsLimit DEF PaperEnter, TradingTypeOK
  <2>2. ~OnOrder'
    BY <1>3, NoOrderAtEnd DEF Ends
  <2>. QED
    BY <2>1, <2>2 DEF LimitInv, EntryFits, OnOrder
<1>. QED
  BY <1>1, <1>2, <1>3, OtherSteps, LimitKept DEF TradingTypeOK

\* In both modes an order that is being executed still fits when the exchange
\* answers: nothing else fills its key or its place in the meantime.
THEOREM OrdersFit == Spec => []LimitInv
<1>1. Init => LimitInv
  <2>1. Init => Open = {} /\ ~OnOrder
    BY DEF Init, RiskInit, Open, Idle, OnOrder, WorkingState
  <2>. QED
    BY <2>1, FS_EmptySet, LimitsAssumption DEF LimitInv, EntryFits, MaxOpenRespected, OnOrder
<1>. QED
  BY <1>1, LimitStep, TradingTypeCorrect, PTL DEF Spec

THEOREM EntriesFit == Spec => []EntryFits
BY OrdersFit, PTL DEF LimitInv

----------------------------------------------------------------------------
(* Exits stay attached to the position they were raised for. *)

\* What an exit in the queue is worth, whatever became of its position: if the
\* key is open, the exit is that position's or a cooldown old; if it is not, the
\* exit is at least as old as the last trade on the symbol; and if an order is
\* being executed on the key, the exit is already a cooldown old.
Attached(e) ==
  /\ e.key \in Open => e.id = positions[e.key].id \/ e.age = Cooldown
  /\ e.key \notin Open => e.age >= sinceTrade[SymbolOf(e.key)]
  /\ OnOrder /\ Key = e.key => e.age = Cooldown

ExitsAttached ==
  \A i \in 1..Len(queue) : queue[i].type = "EXIT" => Attached(queue[i])

\* What a step that opens nothing does to the book: the positions that stay keep
\* their identity, and a symbol that lost one has just traded.
Settles ==
  /\ Open' \subseteq Open
  /\ \A k \in Open' : positions'[k].id = positions[k].id
  /\ \A s \in Symbols : sinceTrade'[s] <= sinceTrade[s]
  /\ \A k \in Open \ Open' : sinceTrade'[SymbolOf(k)] = 0

LEMMA UnchangedSettles ==
  ASSUME BookTypeOK, UNCHANGED <<positions, sinceTrade>>
  PROVE  Settles
<1>1. \A s \in Symbols : sinceTrade[s] \in Int
  BY DEF BookTypeOK
<1>. QED
  BY <1>1 DEF Settles, Open

LEMMA UpdateSettles ==
  ASSUME BookTypeOK, NEW k \in Keys, NEW price \in Prices, UpdatePrice(k, price)
  PROVE  Settles
<1>1. \A s \in Symbols : sinceTrade[s] \in Int
  BY DEF BookTypeOK
<1>2. \A j \in Open : positions[j] \in Position
  BY DEF BookTypeOK
<1>3. [positions[k] EXCEPT !.price = price].id = positions[k].id
  BY <1>2 DEF UpdatePrice, Position
<1>4. Open' = Open /\ sinceTrade' = sinceTrade
  BY DEF UpdatePrice, BookTypeOK, Open
<1>5. /\ positions'[k] = [positions[k] EXCEPT !.price = price]
      /\ \A j \in Open \ {k} : positions'[j] = positions[j]
  BY DEF UpdatePrice, BookTypeOK, Open
<1>6. positions'[k].id = positions[k].id
  BY <1>3, <1>5
<1>7. \A j \in Open : positions'[j].id = positions[j].id
  BY <1>5, <1>6, Zenon
<1>. QED
  BY <1>1, <1>4, <1>7 DEF Settles

LEMMA CloseSettles ==
  ASSUME BookTypeOK, NEW keys \in SUBSET Keys, NEW priceOf,
         ClosePositions(keys, priceOf)
  PROVE  Settles
<1>1. \A s \in Symbols : sinceTrade[s] \in 0..Cooldown
  BY DEF BookTypeOK
<1>2. /\ Open' = Open \ keys
      /\ \A k \in Open' : positions'[k] = positions[k]
  BY CloseTyping
<1>3. sinceTrade' = Traded(keys)
  BY DEF ClosePositions
<1>4. \A s \in Symbols : sinceTrade'[s] <= sinceTrade[s]
  BY <1>1, <1>3, LimitsAssumption DEF Traded
<1>5. \A k \in keys : SymbolOf(k) \in Symbols
  BY DEF Keys, SymbolOf
<1>6. \A k \in keys : sinceTrade'[SymbolOf(k)] = 0
  BY <1>3, <1>5 DEF Traded
<1>7. \A k \in Open' : positions'[k].id = positions[k].id
  BY <1>2
<1>8. Open' \subseteq Open /\ \A k \in Open \ Open' : k \in keys
  BY <1>2
<1>. QED
  BY <1>4, <1>6, <1>7, <1>8 DEF Settles

LEMMA OthersSettle ==
  ASSUME TradingTypeOK, [Next]_vars, ~Clock, ~Booking,
         ~ \E k \in Keys, side \in Sides, price \in Prices :
             PaperEnter(k, side, price) \/ LiveEnter(k, side, price)
  PROVE  Settles
<1>. USE DEF TradingTypeOK
<1>1. Open \subseteq Keys
  BY DEF BookTypeOK
<1>2. CASE \/ LimitAccepted \/ LimitRaised \/ PollAgain \/ PollPartial \/ CancelAnswered
           \/ MarketRaised \/ HandleNotice \/ HandleKill \/ KillReports \/ KillHandled
           \/ Venue \/ RejectSignal
           \/ ApiKillPublishes \/ ApiDeactivate \/ ApiReadRisk \/ ApiResetBreaker
           \/ UNCHANGED vars
  <2>1. UNCHANGED <<positions, sinceTrade>>
    BY <1>2 DEF LimitAccepted, LimitRaised, PollAgain, PollPartial, CancelAnswered,
       MarketRaised, HandleNotice, HandleKill, KillReports, KillHandled, Venue, VenueFills, VenueFillsStray,
       RejectSignal, ApiKillPublishes, ApiDeactivate, ApiReadRisk, ApiResetBreaker,
       KeepRisk, ReadBreaker, ResetBreaker, DeactivateKillSwitch, vars, riskVars
  <2>. QED
    BY <2>1, UnchangedSettles
<1>3. CASE PollFilled \/ MarketFilled
  <2>1. consumer \in WorkingState
    BY <1>3, WorkingTyping DEF PollFilled, MarketFilled, At
  <2>. QED
    BY <1>3, <2>1 DEF PollFilled, MarketFilled, FinishReporting, Report, Booking
<1>4. CASE MarketUnfilled
  <2>1. consumer \in WorkingState
    BY <1>4, WorkingTyping DEF MarketUnfilled, At
  <2>2. UNCHANGED <<positions, sinceTrade>>
    BY <1>4, <2>1 DEF MarketUnfilled, FinishReporting, Report, Booking
  <2>. QED
    BY <2>2, UnchangedSettles
<1>5. CASE HandleExit
  <2>1. CASE Head(queue).key \in Open
    <3>. DEFINE k == Head(queue).key
    <3>1. ClosePositions({k}, [j \in {k} |-> Head(queue).price])
      BY <1>5, <2>1 DEF HandleExit, Close
    <3>2. {k} \in SUBSET Keys
      BY <1>1, <2>1
    <3>. QED
      BY <3>1, <3>2, CloseSettles
  <2>2. CASE Head(queue).key \notin Open
    BY <1>5, <2>2, UnchangedSettles DEF HandleExit, KeepRisk, riskVars
  <2>. QED
    BY <2>1, <2>2
<1>6. CASE ApiKill \/ ApiCloseAll \/ \E e \in Exchanges : KillOn(e)
  <2>1. ClosePositions(Open, LastPrices)
    BY <1>6 DEF ApiKill, ApiCloseAll, KillOn, ActivateKillSwitch, CloseAllByKilling
  <2>. QED
    BY <1>1, <2>1, CloseSettles
<1>7. ASSUME NEW k \in Keys, NEW price \in Prices, Tick(k, price)
      PROVE  Settles
  BY <1>7, UpdateSettles DEF Tick
<1>8. ASSUME NEW k \in Keys, NEW price \in Prices, ApiClose(k, price)
      PROVE  Settles
  BY <1>8, CloseSettles DEF ApiClose, Close
<1>9. ASSUME NEW venues \in SUBSET Exchanges, ApiCloseVenues(venues)
      PROVE  Settles
  <2>1. ClosePositions({k \in Open : k[1] \in venues}, LastPrices)
    BY <1>9 DEF ApiCloseVenues, CloseVenues
  <2>2. {k \in Open : k[1] \in venues} \in SUBSET Keys
    BY <1>1
  <2>. QED
    BY <2>1, <2>2, CloseSettles
<1>. QED
  BY <1>2, <1>3, <1>4, <1>5, <1>6, <1>7, <1>8, <1>9
     DEF Next, Consume, Executor, Feeds, Operator

\* An opened key: the exits queued for it before were a cooldown old.
LEMMA AttachedToOpened ==
  ASSUME NEW e \in ExitEvent, BookTypeOK, Attached(e), NEW k \in Keys, NEW side, NEW price,
         NEW id, OpenPosition(k, side, price, id), e.key = k => e.age = Cooldown,
         ~OnOrder'
  PROVE  Attached(e)'
<1>1. Open' = Open \cup {k}
  BY DEF OpenPosition, Open
<1>2. \A j \in Open \ {k} : positions'[j] = positions[j]
  BY DEF OpenPosition
<1>3. \A s \in Symbols : sinceTrade'[s] \in 0..Cooldown /\ sinceTrade'[s] <= sinceTrade[s]
  BY LimitsAssumption DEF OpenPosition, Traded, BookTypeOK
<1>4. /\ e.key \in Keys /\ SymbolOf(e.key) \in Symbols
      /\ e.age \in 0..Cooldown /\ sinceTrade[SymbolOf(e.key)] \in 0..Cooldown
  BY DEF ExitEvent, SymbolOf, Keys, BookTypeOK
<1>5. CASE e.key = k
  BY <1>1, <1>5 DEF Attached
<1>6. CASE e.key # k /\ e.key \in Open
  BY <1>1, <1>2, <1>6 DEF Attached
<1>7. CASE e.key # k /\ e.key \notin Open
  BY <1>1, <1>3, <1>4, <1>7, LimitsAssumption DEF Attached
<1>. QED
  BY <1>5, <1>6, <1>7

\* No step but the clock's detaches an exit.
LEMMA AttachedStep ==
  ASSUME TradingTypeOK, LimitInv, [Next]_vars, ~Clock, NEW e \in ExitEvent, Attached(e)
  PROVE  Attached(e)'
<1>. USE DEF TradingTypeOK
<1>1. /\ e.key \in Keys /\ SymbolOf(e.key) \in Symbols
      /\ e.age \in 0..Cooldown /\ sinceTrade[SymbolOf(e.key)] \in 0..Cooldown
  BY DEF ExitEvent, SymbolOf, Keys, BookTypeOK
<1>2. ASSUME NEW k \in Keys, NEW side \in Sides, NEW price \in Prices,
             LiveEnter(k, side, price)
      PROVE  Attached(e)'
  <2>1. positions' = positions /\ sinceTrade' = sinceTrade /\ consumer'.key = k
    BY <1>2 DEF LiveEnter, Working
  <2>2. k \notin Open /\ sinceTrade[SymbolOf(k)] = Cooldown
    BY <1>2 DEF LiveEnter, Approvable
  <2>3. e.key = k => e.age = Cooldown
    BY <1>1, <2>2, LimitsAssumption DEF Attached
  <2>. QED
    BY <2>1, <2>3 DEF Attached, Open, Key
<1>3. CASE Booking
  <2>1. OpenPosition(Key, consumer.side, consumer.price, consumer.id)
    BY <1>3 DEF Booking, Book
  <2>2. Key \in Keys /\ OnOrder
    BY <1>3 DEF Booking, WorkingState, Key, OnOrder
  <2>3. ~OnOrder'
    BY <1>3 DEF Booking, OnOrder, Idle, Stuck, WorkingState
  <2>4. e.key = Key => e.age = Cooldown
    BY <2>2 DEF Attached
  <2>. QED
    BY <2>1, <2>2, <2>3, <2>4, AttachedToOpened
<1>4. ASSUME NEW k \in Keys, NEW side \in Sides, NEW price \in Prices,
             PaperEnter(k, side, price)
      PROVE  Attached(e)'
  <2>1. OpenPosition(k, side, price, signals + 1)
    BY <1>4 DEF PaperEnter, Enter
  <2>2. k \notin Open /\ sinceTrade[SymbolOf(k)] = Cooldown
    BY <1>4 DEF PaperEnter, Enter, Approvable
  <2>3. e.key = k => e.age = Cooldown
    BY <1>1, <2>2, LimitsAssumption DEF Attached
  <2>4. ~OnOrder'
    BY <1>4, NoOrderAtEnd DEF Ends
  <2>. QED
    BY <2>1, <2>3, <2>4, AttachedToOpened
<1>5. CASE /\ ~Booking
           /\ ~ \E k \in Keys, side \in Sides, price \in Prices :
                  PaperEnter(k, side, price) \/ LiveEnter(k, side, price)
  <2>1. Settles
    BY <1>5, OthersSettle
  <2>2. OnOrder' => OnOrder /\ consumer'.key = consumer.key
    BY <1>5, OtherSteps
  <2>3. sinceTrade'[SymbolOf(e.key)] <= sinceTrade[SymbolOf(e.key)]
        /\ sinceTrade'[SymbolOf(e.key)] \in 0..Cooldown
    BY <1>1, <2>1, TradingTypeStep DEF Settles, BookTypeOK
  <2>4. OnOrder' /\ Key' = e.key => e.age = Cooldown
    BY <2>2 DEF Attached, Key
  <2>5. e.key \in Open' => e.id = positions'[e.key].id \/ e.age = Cooldown
    BY <2>1 DEF Attached, Settles
  <2>6. e.key \notin Open' => e.age >= sinceTrade'[SymbolOf(e.key)]
    <3>1. CASE e.key \in Open /\ e.key \notin Open'
      BY <1>1, <2>1, <3>1 DEF Settles
    <3>2. CASE e.key \notin Open
      BY <1>1, <2>3, <3>2, LimitsAssumption DEF Attached
    <3>. QED
      BY <3>1, <3>2
  <2>. QED
    BY <2>4, <2>5, <2>6 DEF Attached
<1>. QED
  BY <1>2, <1>3, <1>4, <1>5

\* Where the events of the next queue come from.
LEMMA QueueSources ==
  ASSUME TradingTypeOK, [Next]_vars, ~Clock, NEW i \in 1..Len(queue'),
         queue'[i].type = "EXIT"
  PROVE  \/ \E j \in 1..Len(queue) : queue'[i] = queue[j]
         \/ \E k \in Keys, price \in Prices : Tick(k, price) /\ queue'[i] = Exit(k, price)
<1>. USE DEF TradingTypeOK
<1>1. queue \in Seq(Event)
  BY DEF QueueTypeOK, Event
<1>2. CASE queue' = queue
  BY <1>2
<1>3. CASE queue # <<>> /\ queue' = Tail(queue)
  BY <1>1, <1>3
<1>4. CASE queue' = Append(queue, KillEvent)
  <2>1. i # Len(queue) + 1
    BY <1>1, <1>4 DEF KillEvent
  <2>. QED
    BY <1>1, <1>4, <2>1
<1>5. ASSUME NEW k \in Keys, NEW price \in Prices, Tick(k, price),
             queue' = Append(queue, Exit(k, price))
      PROVE  \/ \E j \in 1..Len(queue) : queue'[i] = queue[j]
             \/ Tick(k, price) /\ queue'[i] = Exit(k, price)
  BY <1>1, <1>5
<1>6. queue'[i] # Notice /\ queue'[i] # KillEvent
  BY DEF Notice, KillEvent
<1>7. ASSUME NEW goOn, Report(queue, goOn)
      PROVE  \E j \in 1..Len(queue) : queue'[i] = queue[j]
  BY <1>1, <1>6, <1>7, ReportTyping
<1>8. CASE HandleExit
  <2>1. queue # <<>> /\ Tail(queue) \in Seq(Event)
    BY <1>1, <1>8 DEF HandleExit
  <2>2. CASE queue' = Tail(queue)
    BY <1>3, <2>1, <2>2
  <2>3. CASE Report(Tail(queue), Idle)
    <3>1. PICK j \in 1..Len(Tail(queue)) : queue'[i] = Tail(queue)[j]
      BY <1>6, <2>1, <2>3, ReportTyping
    <3>. QED
      BY <1>1, <2>1, <3>1
  <2>4. CASE Report(Append(Tail(queue), KillEvent), Idle)
    <3>1. Append(Tail(queue), KillEvent) \in Seq(Event)
      BY <2>1 DEF Event
    <3>2. PICK j \in 1..Len(Append(Tail(queue), KillEvent)) :
            queue'[i] = Append(Tail(queue), KillEvent)[j]
      BY <1>6, <2>4, <3>1, ReportTyping
    <3>3. j \in 1..Len(Tail(queue)) /\ queue'[i] = Tail(queue)[j]
      BY <1>6, <2>1, <3>2
    <3>. QED
      BY <1>1, <2>1, <3>3
  <2>. QED
    BY <1>8, <2>2, <2>3, <2>4 DEF HandleExit
<1>9. \/ queue' = queue
      \/ queue # <<>> /\ queue' = Tail(queue)
      \/ queue' = Append(queue, KillEvent)
      \/ \E k \in Keys, price \in Prices : Tick(k, price) /\ queue' = Append(queue, Exit(k, price))
      \/ \E goOn : Report(queue, goOn)
      \/ HandleExit
  BY DEF Next, Consume, Executor, Feeds, Operator, Venue, LimitAccepted, LimitRaised,
     PollAgain, PollFilled, PollPartial, CancelAnswered, MarketFilled, MarketUnfilled,
     MarketRaised, HandleNotice, HandleKill, KillReports, KillHandled, KillOn, RejectSignal,
     PaperEnter, LiveEnter, Tick, ApiKill, ApiKillPublishes, ApiDeactivate, ApiCloseAll,
     ApiReadRisk, ApiResetBreaker, ApiClose, ApiCloseVenues, VenueFills, VenueFillsStray,
     KeepBus, FinishReporting, vars, tradingVars
<1>. QED
  BY <1>2, <1>3, <1>4, <1>5, <1>7, <1>8, <1>9

\* The clock ages exits and trades alike.
LEMMA ClockKeepsAttached ==
  ASSUME TradingTypeOK, ExitsAttached, Clock
  PROVE  ExitsAttached'
<1>. USE DEF TradingTypeOK
<1>. SUFFICES ASSUME NEW i \in 1..Len(queue'), NEW x, x = queue'[i], x.type = "EXIT"
              PROVE  Attached(x)'
  BY DEF ExitsAttached
<1>1. /\ i \in 1..Len(queue) /\ x = Aged(queue[i])
      /\ queue[i] \in Event
  BY DEF Clock, QueueTypeOK, Event
<1>2. queue[i] \in ExitEvent
  BY <1>1 DEF Event, Aged, KillEvent, Notice
<1>. DEFINE e == queue[i]
<1>3. Attached(e)
  BY <1>1, <1>2 DEF ExitsAttached, ExitEvent
<1>4. Aged(e) = [e EXCEPT !.age = Older(e.age, Cooldown)]
  BY <1>2 DEF Aged, ExitEvent
<1>5. /\ e.key = x.key /\ e.id = x.id
      /\ x.age = Older(e.age, Cooldown)
  BY <1>1, <1>2, <1>4 DEF ExitEvent
<1>6. /\ e.key \in Keys /\ SymbolOf(e.key) \in Symbols
      /\ e.age \in 0..Cooldown /\ sinceTrade[SymbolOf(e.key)] \in 0..Cooldown
  BY <1>2 DEF ExitEvent, SymbolOf, Keys, BookTypeOK
<1>7. /\ positions' = positions /\ consumer' = consumer
      /\ sinceTrade' = [s \in Symbols |-> Older(sinceTrade[s], Cooldown)]
  BY DEF Clock, PassTime
<1>8. sinceTrade'[SymbolOf(e.key)] = Older(sinceTrade[SymbolOf(e.key)], Cooldown)
  BY <1>6, <1>7
<1>9. /\ e.age = Cooldown => x.age = Cooldown
      /\ e.age >= sinceTrade[SymbolOf(e.key)] => x.age >= sinceTrade'[SymbolOf(e.key)]
  BY <1>5, <1>6, <1>8, LimitsAssumption DEF Older
<1>. QED
  BY <1>3, <1>5, <1>7, <1>9 DEF Attached, Open, OnOrder, Key

LEMMA ExitsStep ==
  ASSUME TradingTypeOK, LimitInv, ExitsAttached, [Next]_vars
  PROVE  ExitsAttached'
<1>1. CASE Clock
  BY <1>1, ClockKeepsAttached
<1>2. CASE ~Clock
  <2>. SUFFICES ASSUME NEW i \in 1..Len(queue'), NEW x, x = queue'[i], x.type = "EXIT"
                PROVE  Attached(x)'
    BY DEF ExitsAttached
  <2>1. ASSUME NEW j \in 1..Len(queue), x = queue[j]
        PROVE  Attached(x)'
    <3>1. queue[j] \in ExitEvent /\ Attached(queue[j])
      BY <2>1 DEF TradingTypeOK, QueueTypeOK, KillEvent, Notice, ExitsAttached
    <3>. QED
      BY <1>2, <2>1, <3>1, AttachedStep
  <2>2. ASSUME NEW k \in Keys, NEW price \in Prices, Tick(k, price),
               x = Exit(k, price)
        PROVE  Attached(x)'
    <3>1. k \in Open /\ consumer' = consumer /\ consumer = Idle
      BY <2>2 DEF Tick, UpdatePrice, ConsumerFree
    <3>2. Settles /\ Open' = Open
      BY <2>2, UpdateSettles, Zenon DEF Tick, UpdatePrice, TradingTypeOK, Open
    <3>3. positions'[k].id = positions[k].id /\ k \in Open'
      BY <3>1, <3>2 DEF Settles
    <3>4. x.key = k /\ x.id = positions[k].id
      BY <2>2 DEF Exit
    <3>5. ~OnOrder'
      BY <3>1 DEF OnOrder, Idle, WorkingState
    <3>. QED
      BY <3>3, <3>4, <3>5 DEF Attached
  <2>. QED
    BY <1>2, <2>1, <2>2, QueueSources
<1>. QED
  BY <1>1, <1>2

\* In both modes an exit in the queue closes the position it was raised for, or
\* one opened a whole cooldown after it was raised.
THEOREM ExitsStayFresh == Spec => []ExitsAreFresh
<1>1. Init => ExitsAttached
  BY DEF Init, ExitsAttached
<1>2. ExitsAttached => ExitsAreFresh
  BY DEF ExitsAttached, Attached, ExitsAreFresh
<1>. QED
  BY <1>1, <1>2, ExitsStep, TradingTypeCorrect, OrdersFit, PTL DEF Spec

----------------------------------------------------------------------------
(* What is booked has been bought. *)

\* While an order is watched, what it has bought and what it has resting make up
\* the whole order.
Backed ==
  /\ BookedOnlyIfBought
  /\ (OnOrder /\ consumer.pc \in {"poll", "cancel"}) =>
       bought[Key] + consumer.resting >= Lots

\* Nothing opens, nothing is bought, and the consumer keeps its order or drops it.
LEMMA BackedKept ==
  ASSUME Backed, Open' \subseteq Open, bought' = bought,
         OnOrder' => consumer' = consumer
  PROVE  Backed'
BY DEF Backed, BookedOnlyIfBought, OnOrder, Key

LEMMA BackedStep ==
  ASSUME TradingTypeOK, Backed, [Next]_vars
  PROVE  Backed'
<1>1. bought \in [Keys -> Nat] /\ Open \subseteq Keys /\ Lots \in Nat \ {0}
  BY SizesAssumption DEF TradingTypeOK, VenueTypeOK, BookTypeOK
<1>2. ASSUME consumer.pc \in {"submit", "poll", "cancel", "market"}
      PROVE  /\ OnOrder /\ Key \in Keys /\ consumer.resting \in 0..Lots
             /\ bought[Key] \in Nat /\ Lots \in Nat
  BY <1>1, <1>2, WorkingTyping DEF TradingTypeOK, OnOrder, WorkingState, Key
<1>3. ASSUME NEW k \in Keys, NEW side \in Sides, NEW price \in Prices,
             LiveEnter(k, side, price)
      PROVE  Backed'
  <2>1. /\ Open' = Open /\ k \notin Open /\ consumer'.pc \in {"submit", "market"}
        /\ bought' = [bought EXCEPT ![k] = 0]
    BY <1>3 DEF LiveEnter, Open, Approvable, Working
  <2>. QED
    BY <1>1, <2>1 DEF Backed, BookedOnlyIfBought
<1>4. CASE LimitAccepted
  <2>1. consumer.pc = "submit" /\ Open' = Open /\ bought' = bought
    BY <1>4 DEF LimitAccepted, At, KeepRisk, riskVars, venue, Open
  <2>2. consumer'.key = Key /\ consumer'.resting = Lots
    BY <1>4 DEF LimitAccepted, Continue, Working
  <2>. QED
    BY <1>1, <1>2, <2>1, <2>2 DEF Backed, BookedOnlyIfBought, Key
<1>5. CASE PollAgain
  <2>1. consumer.pc = "poll" /\ Open' = Open /\ bought' = bought
    BY <1>5 DEF PollAgain, At, KeepRisk, riskVars, venue, Open
  <2>2. consumer'.key = Key /\ consumer'.resting = consumer.resting
    BY <1>5 DEF PollAgain, Continue, Working
  <2>. QED
    BY <1>2, <2>1, <2>2 DEF Backed, BookedOnlyIfBought, Key
<1>6. CASE CancelAnswered
  <2>1. consumer'.pc = "market" /\ Open' = Open /\ bought' = bought
    BY <1>6 DEF CancelAnswered, Continue, Working, KeepRisk, riskVars, Open, Leave
  <2>. QED
    BY <2>1 DEF Backed, BookedOnlyIfBought
<1>7. CASE PollFilled
  <2>1. /\ consumer.pc = "poll" /\ consumer.resting = 0 /\ bought' = bought
        /\ Open' = Open \cup {Key} /\ ~OnOrder'
    BY <1>7, NoOrderAtEnd DEF Ends, PollFilled, At, Book, OpenPosition, Open, venue
  <2>2. bought[Key] >= Lots
    BY <1>2, <2>1 DEF Backed
  <2>. QED
    BY <2>1, <2>2 DEF Backed, BookedOnlyIfBought
<1>8. CASE MarketFilled \/ MarketUnfilled \/ MarketRaised
  <2>1. consumer.pc = "market" /\ ~OnOrder'
    BY <1>8, NoOrderAtEnd DEF Ends, MarketFilled, MarketUnfilled, MarketRaised, At
  <2>2. PICK took \in {0, Lots} : bought' = [bought EXCEPT ![Key] = @ + took] /\ (MarketFilled => took = Lots)
    <3>1. CASE MarketFilled
      BY <3>1 DEF MarketFilled, Buy
    <3>2. CASE ~MarketFilled
      BY <1>8, <3>2 DEF MarketUnfilled, MarketRaised, Buy
    <3>. QED
      BY <3>1, <3>2
  <2>3. Open' = Open \/ (Open' = Open \cup {Key} /\ (MarketFilled \/ Key[1] \in MarketOnly))
    BY <1>8 DEF MarketFilled, MarketUnfilled, MarketRaised, Book, OpenPosition, Open,
       KeepRisk, riskVars
  <2>4. \A k \in Keys : bought'[k] \in Nat /\ bought'[k] >= bought[k]
    BY <1>1, <2>2
  <2>5. MarketFilled => bought'[Key] >= Lots
    BY <1>1, <1>2, <2>1, <2>2
  <2>6. ASSUME ~PaperMode, NEW k \in Open', k[1] \notin MarketOnly
        PROVE  bought'[k] >= Lots
    <3>1. CASE k \in Open
      <4>1. bought[k] >= Lots
        BY <2>6, <3>1 DEF Backed, BookedOnlyIfBought
      <4>. QED
        BY <1>1, <2>4, <3>1, <4>1
    <3>2. CASE k \notin Open
      BY <2>3, <2>5, <2>6, <3>2
    <3>. QED
      BY <3>1, <3>2
  <2>. QED
    BY <2>1, <2>6 DEF Backed, BookedOnlyIfBought
<1>9. CASE VenueFills
  <2>1. /\ consumer.pc \in {"poll", "cancel"} /\ Open' = Open
        /\ bought' = [bought EXCEPT ![Key] = @ + 1]
    BY <1>9 DEF VenueFills, Buy, KeepRisk, riskVars, Open
  <2>2. consumer'.key = Key /\ consumer'.resting = consumer.resting - 1
    BY <1>9 DEF VenueFills, Continue, Working
  <2>3. \A k \in Keys : bought'[k] \in Nat /\ bought'[k] >= bought[k]
    BY <1>1, <2>1
  <2>4. bought'[Key] = bought[Key] + 1 /\ bought[Key] + consumer.resting >= Lots
    BY <1>1, <1>2, <2>1 DEF Backed
  <2>5. bought'[Key] + consumer'.resting >= Lots
    BY <1>2, <2>1, <2>2, <2>4
  <2>6. \A k \in Keys : bought[k] >= Lots => bought'[k] >= Lots
    BY <1>1, <2>3
  <2>. QED
    BY <1>1, <2>1, <2>2, <2>5, <2>6 DEF Backed, BookedOnlyIfBought, Key
<1>10. ASSUME NEW j \in Keys, VenueFillsStray(j)
       PROVE  Backed'
  <2>1. /\ consumer' = consumer /\ Open' = Open
        /\ bought' = [bought EXCEPT ![j] = @ + 1]
    BY <1>10 DEF VenueFillsStray, KeepRisk, riskVars, Open
  <2>2. \A k \in Keys : bought'[k] \in Nat /\ bought'[k] >= bought[k]
    BY <1>1, <2>1
  <2>3. \A k \in Keys : bought[k] >= Lots => bought'[k] >= Lots
    BY <1>1, <2>2
  <2>4. (OnOrder /\ consumer.pc \in {"poll", "cancel"}) => bought'[Key] + consumer.resting >= Lots
    BY <1>1, <1>2, <2>2 DEF Backed
  <2>. QED
    BY <1>1, <2>1, <2>3, <2>4 DEF Backed, BookedOnlyIfBought, OnOrder, Key
<1>11. ASSUME NEW k \in Keys, NEW side \in Sides, NEW price \in Prices,
              PaperEnter(k, side, price)
       PROVE  Backed'
  BY <1>11, NoOrderAtEnd DEF Ends, PaperEnter, Backed, BookedOnlyIfBought
<1>12. CASE LimitRaised \/ PollPartial
  <2>1. Open' = Open /\ bought' = bought /\ ~OnOrder'
    BY <1>12, NoOrderAtEnd DEF Ends, LimitRaised, PollPartial, Leave, KeepRisk, riskVars, Open
  <2>. QED
    BY <2>1, BackedKept
<1>13. CASE HandleKill \/ KillReports \/ KillHandled \/ \E e \in Exchanges : KillOn(e)
  <2>1. bought' = bought /\ ~OnOrder' /\ ~Booking /\ ~OnOrder
    BY <1>13 DEF HandleKill, KillReports, KillHandled, KillOn, Killing, Report, Finish, Idle,
       Stuck, OnOrder, WorkingState, venue, ConsumerFree, At, Booking
  <2>2. Open' \subseteq Open
    BY <1>13, <2>1, OtherSteps DEF HandleKill, KillReports, KillHandled, KillOn, ConsumerFree, At, KeepRisk,
       riskVars, Open, ActivateKillSwitch, ClosePositions, Keep
  <2>. QED
    BY <2>1, <2>2, BackedKept
<1>15. CASE HandleExit
  <2>1. bought' = bought /\ ~OnOrder'
    BY <1>15, NoOrderAtEnd DEF Ends, HandleExit, venue
  <2>2. Open' \subseteq Open
    BY <1>15 DEF HandleExit, Close, ClosePositions, Keep, Open, KeepRisk, riskVars
  <2>. QED
    BY <2>1, <2>2, BackedKept
<1>14. CASE \/ HandleNotice \/ RejectSignal \/ Operator \/ Clock
            \/ \E k \in Keys, price \in Prices : Tick(k, price)
            \/ UNCHANGED vars
  <2>1. consumer' = consumer /\ bought' = bought
    BY <1>14 DEF HandleNotice, RejectSignal, Operator, Clock, Tick, ApiKill, ApiKillPublishes,
       ApiDeactivate, ApiCloseAll, ApiReadRisk, ApiResetBreaker, ApiClose, ApiCloseVenues,
       vars, tradingVars, venue
  <2>2. Open' \subseteq Open
    <3>2. CASE HandleNotice \/ \E k \in Keys, price \in Prices : Tick(k, price)
      BY <3>2 DEF HandleNotice, Tick, UpdatePrice, Open, KeepRisk, riskVars
    <3>3. CASE RejectSignal \/ Clock \/ UNCHANGED vars
      BY <3>3 DEF RejectSignal, ReadBreaker, Clock, PassTime, vars, riskVars, Open
    <3>4. CASE Operator
      BY <3>4, Zenon DEF Operator, ApiKill, ApiKillPublishes, ApiDeactivate, ApiCloseAll, ApiReadRisk,
         ApiResetBreaker, ApiClose, ApiCloseVenues, KeepRisk, riskVars, Open, Close,
         CloseVenues, ActivateKillSwitch, DeactivateKillSwitch, CloseAllByKilling,
         ReadBreaker, ResetBreaker, ClosePositions, Keep
    <3>. QED
      BY <1>14, <3>2, <3>3, <3>4
  <2>. QED
    BY <2>1, <2>2, BackedKept
<1>. QED
  BY <1>3, <1>4, <1>5, <1>6, <1>7, <1>8, <1>9, <1>10, <1>11, <1>12, <1>13, <1>14,
     <1>15 DEF Next, Consume, Executor, Feeds, Venue

\* In live mode a position the executors of the limit-order exchanges opened is
\* backed by a whole order bought on the exchange, for any number of lots, polls and
\* exchanges, whichever orders fill late, are cancelled in vain or are answered with
\* an error.
THEOREM BooksAreBacked == Spec => []BookedOnlyIfBought
<1>1. Init => Backed
  BY DEF Init, RiskInit, Open, Idle, Backed, BookedOnlyIfBought, OnOrder, WorkingState
<1>. QED
  BY <1>1, BackedStep, TradingTypeCorrect, PTL DEF Spec, Backed

----------------------------------------------------------------------------
(* PositionStops: what a tick does to the stops of one position. *)

StopFields ==
  [stop : Int, target : Int, best : Prices, moved : BOOLEAN, trailing : BOOLEAN,
   held : Nat, announced : BOOLEAN, byHand : BOOLEAN]

Past(pos, s) == pos.side * (s.best - pos.entry) * 100 >= TrailActivation * pos.entry

Holds(pos, s) == pos.side * (s.stop - s.best * 100) + pos.entry * TrailDistance >= 0

\* What ProfitIsLocked needs to be inductive: a breakeven that comes before the
\* trailing stop is behind it, or it would move the stop back.
Locked(pos, s) ==
  \/ s.byHand \/ HeldTooLong(s) \/ ~Past(pos, s)
  \/ Holds(pos, s) /\ (BreakevenTrigger <= TrailActivation => s.moved)

Told(pos, s) == Reached(-pos.side, pos.price, s.stop) => s.announced

LEMMA PositionTyped ==
  ASSUME NEW pos \in Position
  PROVE  /\ pos.side \in {1, -1} /\ pos.entry \in Nat \ {0} /\ pos.price \in Nat \ {0}
         /\ pos.price \in Prices
         /\ TrailActivation * pos.entry \in Nat /\ BreakevenTrigger * pos.entry \in Nat
         /\ pos.entry * TrailDistance \in Nat
<1>1. pos.side \in {1, -1} /\ pos.entry \in Nat \ {0} /\ pos.price \in Nat \ {0} /\ pos.price \in Prices
  BY PricesAssumption, Zenon DEF Position
<1>2. TrailActivation \in Nat /\ BreakevenTrigger \in Nat /\ TrailDistance \in Nat
  BY StopsAssumption
<1>3. \A a, b \in Nat : a * b \in Nat
  OBVIOUS
<1>. QED
  BY <1>1, <1>2, <1>3

LEMMA StopTyped ==
  ASSUME NEW s \in StopFields
  PROVE  s.stop \in Int /\ s.best \in Nat /\ s.best \in Prices
BY PricesAssumption, Zenon DEF StopFields

LEMMA BetterOfTwo ==
  ASSUME NEW side \in {1, -1}, NEW a \in Int, NEW b \in Int
  PROVE  /\ Better(side, a, b) \in {a, b}
         /\ side * (Better(side, a, b) - a) >= 0 /\ side * (Better(side, a, b) - b) >= 0
BY DEF Better

\* What a tick that manages the position sees first: the best price.
LEMMA SeenFields ==
  ASSUME NEW pos \in Position, NEW s \in StopFields, NEW price \in Prices,
         NEW seen, seen = [s EXCEPT !.best = Better(pos.side, price, s.best)]
  PROVE  /\ seen \in StopFields /\ seen.best = Better(pos.side, price, s.best)
         /\ seen.moved = s.moved /\ seen.trailing = s.trailing /\ seen.stop = s.stop
         /\ seen.target = s.target /\ seen.held = s.held /\ seen.byHand = s.byHand
         /\ seen.announced = s.announced
<1>1. Better(pos.side, price, s.best) \in Prices
  BY DEF Better, StopFields
<1>. QED
  BY <1>1 DEF StopFields

LEMMA ManagedFields ==
  ASSUME NEW pos \in Position, NEW s \in StopFields, NEW price \in Prices,
         NEW t, t = Managed(pos, s, price)
  PROVE  LET profit    == pos.side * (price - pos.entry) * 100
             breakeven == ~s.moved /\ profit >= BreakevenTrigger * pos.entry
             start     == IF breakeven THEN pos.entry * 100 ELSE s.stop
             trail     == s.best * 100 - pos.side * pos.entry * TrailDistance
         IN /\ t \in StopFields
            /\ t.best = s.best /\ t.moved = (s.moved \/ breakeven)
            /\ t.stop = IF profit >= TrailActivation * pos.entry
                        THEN Better(pos.side, trail, start) ELSE start
            /\ t.held = s.held /\ t.byHand = s.byHand /\ t.announced = s.announced
<1>. DEFINE profit    == pos.side * (price - pos.entry) * 100
            breakeven == ~s.moved /\ profit >= BreakevenTrigger * pos.entry
            start     == IF breakeven THEN pos.entry * 100 ELSE s.stop
            trail     == s.best * 100 - pos.side * pos.entry * TrailDistance
            trailing  == profit >= TrailActivation * pos.entry
            stop      == IF trailing THEN Better(pos.side, trail, start) ELSE start
<1>1. t = [s EXCEPT !.moved = s.moved \/ breakeven, !.trailing = s.trailing \/ trailing,
                    !.stop = stop]
  BY DEF Managed
<1>2. stop \in Int
  <2>1. s.stop \in Int /\ s.best \in Int /\ pos.entry \in Int /\ pos.side \in Int
        /\ TrailDistance \in Int
    <3>1. s.stop \in Int /\ s.best \in Int
      BY StopTyped
    <3>2. pos.entry \in Int /\ pos.side \in Int
      BY PositionTyped
    <3>3. TrailDistance \in Int
      BY StopsAssumption
    <3>. QED
      BY <3>1, <3>2, <3>3
  <2>2. start \in Int
    BY <2>1
  <2>3. trail \in Int
    BY <2>1
  <2>. QED
    BY <2>2, <2>3 DEF Better
<1>3. (s.moved \/ breakeven) \in BOOLEAN /\ (s.trailing \/ trailing) \in BOOLEAN
  OBVIOUS
<1>. HIDE DEF stop, breakeven, trailing
<1>4. /\ t \in StopFields /\ t.best = s.best /\ t.moved = (s.moved \/ breakeven)
      /\ t.stop = stop /\ t.held = s.held /\ t.byHand = s.byHand /\ t.announced = s.announced
  BY <1>1, <1>2, <1>3, Zenon DEF StopFields
<1>. QED
  BY <1>4 DEF stop, breakeven, trailing

\* The better of two stops is within the distance the trailing one keeps.
LEMMA TrailHolds ==
  ASSUME NEW side \in {1, -1}, NEW best \in Int, NEW start \in Int, NEW distance \in Int,
         NEW stop, stop = Better(side, best * 100 - side * distance, start)
  PROVE  side * (stop - best * 100) + distance >= 0
<1>1. CASE side = 1
  BY <1>1 DEF Better
<1>2. CASE side = -1
  BY <1>2 DEF Better
<1>. QED
  BY <1>1, <1>2

LEMMA TickLocked ==
  ASSUME NEW pos \in Position, NEW s \in StopFields, NEW price \in Prices,
         ~HeldTooLong(s), Locked(pos, s),
         NEW t, t = Ticked(pos, s, price)
  PROVE  /\ t \in StopFields /\ Locked(pos, t)
         /\ Reached(-pos.side, price, t.stop) => t.announced
<1>. DEFINE seen    == [s EXCEPT !.best = Better(pos.side, price, s.best)]
            managed == Managed(pos, seen, price)
            profit  == pos.side * (price - pos.entry) * 100
            breakeven == ~s.moved /\ profit >= BreakevenTrigger * pos.entry
            start   == IF breakeven THEN pos.entry * 100 ELSE s.stop
            trail   == seen.best * 100 - pos.side * pos.entry * TrailDistance
<1>1. t = [managed EXCEPT !.announced = managed.announced \/ ExitDue(pos, managed, price)]
  BY DEF Ticked
<1>2. /\ seen \in StopFields /\ seen.best = Better(pos.side, price, s.best)
      /\ seen.moved = s.moved /\ seen.stop = s.stop /\ seen.held = s.held
      /\ seen.byHand = s.byHand
  BY SeenFields
<1>. HIDE DEF seen
<1>3. /\ managed \in StopFields
      /\ managed.best = seen.best /\ managed.moved = (s.moved \/ breakeven)
      /\ managed.stop = IF profit >= TrailActivation * pos.entry
                        THEN Better(pos.side, trail, start) ELSE start
      /\ managed.held = s.held /\ managed.byHand = s.byHand
  BY <1>2, ManagedFields
<1>. HIDE DEF managed
<1>4. ExitDue(pos, managed, price) \in BOOLEAN
  BY DEF ExitDue, Reached
<1>5. /\ t \in StopFields /\ t.best = managed.best /\ t.moved = managed.moved
      /\ t.stop = managed.stop /\ t.held = s.held /\ t.byHand = s.byHand
      /\ t.announced = (managed.announced \/ ExitDue(pos, managed, price))
  BY <1>1, <1>3, <1>4 DEF StopFields
<1>6. Reached(-pos.side, price, t.stop) => t.announced
  BY <1>5, Zenon DEF ExitDue
<1>7. /\ pos.side \in {1, -1} /\ pos.entry \in Nat /\ price \in Nat /\ s.best \in Nat
      /\ s.stop \in Int /\ TrailActivation * pos.entry \in Nat
      /\ BreakevenTrigger * pos.entry \in Nat /\ pos.entry * TrailDistance \in Nat
  BY PositionTyped, PricesAssumption, Zenon DEF StopFields
<1>8. seen.best \in {price, s.best} /\ profit \in Int
      /\ pos.side * (seen.best - price) >= 0 /\ pos.side * (seen.best - s.best) >= 0
  BY <1>2, <1>7, BetterOfTwo
<1>9. CASE profit >= TrailActivation * pos.entry
  <2>1. start \in Int
    BY <1>7
  <2>2. t.stop = Better(pos.side, trail, start) /\ t.best = seen.best
    BY <1>3, <1>5, <1>9
  <2>. HIDE DEF profit, start
  <2>3. trail = seen.best * 100 - pos.side * (pos.entry * TrailDistance)
    <3>1. CASE pos.side = 1
      BY <1>7, <3>1, StopsAssumption
    <3>2. CASE pos.side = -1
      BY <1>7, <3>2, StopsAssumption
    <3>. QED
      BY <1>7, <3>1, <3>2
  <2>. HIDE DEF trail
  <2>5. Holds(pos, t)
    <3>1. seen.best \in Int /\ pos.entry * TrailDistance \in Int
      BY <1>7, <1>8
    <3>2. t.stop = Better(pos.side, seen.best * 100 - pos.side * (pos.entry * TrailDistance), start)
      BY <2>2, <2>3
    <3>3. pos.side * (t.stop - seen.best * 100) + pos.entry * TrailDistance >= 0
      BY <1>7, <2>1, <3>1, <3>2, TrailHolds, ZenonT(40)
    <3>. QED
      BY <2>2, <3>3 DEF Holds
  <2>4. BreakevenTrigger <= TrailActivation => t.moved
    <3>1. ASSUME BreakevenTrigger <= TrailActivation
          PROVE  BreakevenTrigger * pos.entry <= TrailActivation * pos.entry
      BY <1>7, <3>1, StopsAssumption
    <3>2. t.moved = (s.moved \/ breakeven)
      BY <1>3, <1>5
    <3>3. BreakevenTrigger <= TrailActivation => profit >= BreakevenTrigger * pos.entry
      BY <1>7, <1>8, <1>9, <3>1
    <3>. QED
      BY <3>2, <3>3, Zenon
  <2>. QED
    BY <1>5, <1>6, <2>5, <2>4 DEF Locked
<1>10. CASE ~(profit >= TrailActivation * pos.entry)
  <2>1. CASE ~Past(pos, t)
    BY <1>5, <1>6, <2>1 DEF Locked
  <2>2. CASE Past(pos, t)
    <3>1. seen.best = s.best /\ Past(pos, s)
      BY <1>3, <1>5, <1>7, <1>8, <1>10, <2>2 DEF Past
    <3>2. s.byHand \/ (Holds(pos, s) /\ (BreakevenTrigger <= TrailActivation => s.moved))
      BY <3>1 DEF Locked
    <3>3. ~breakeven \/ s.byHand
      <4>1. ASSUME ~(BreakevenTrigger <= TrailActivation)
            PROVE  TrailActivation * pos.entry <= BreakevenTrigger * pos.entry
        BY <1>7, <4>1, StopsAssumption
      <4>. QED
        BY <1>7, <1>8, <1>10, <3>2, <4>1
    <3>4. t.stop = start /\ t.best = s.best /\ t.moved = (s.moved \/ breakeven)
      BY <1>3, <1>5, <1>10, <3>1
    <3>5. ~breakeven => start = s.stop
      OBVIOUS
    <3>6. ~breakeven => t.stop = s.stop /\ t.best = s.best /\ (s.moved => t.moved)
      BY <3>4, <3>5, Zenon
    <3>. HIDE DEF breakeven, start
    <3>. QED
      BY <1>5, <1>6, <3>2, <3>3, <3>6 DEF Locked, Holds
  <2>. QED
    BY <2>1, <2>2
<1>. QED
  BY <1>9, <1>10

----------------------------------------------------------------------------
(* PositionStops: the book and its stops. *)

\* Every position starts with its stop off its entry, and the trailing stop does
\* not start with the position.
StopsApart ==
  TrailActivation > 0 /\ \A price \in EntryPrices : price * FallbackTenths >= 10

StopsInv ==
  /\ BookTypeOK
  /\ stops \in [Open -> StopFields]
  /\ \A k \in Open : Locked(positions[k], stops[k]) /\ Told(positions[k], stops[k])

\* A new position's stop is off its entry.
LEMMA StopStarts ==
  ASSUME StopsApart, NEW side \in Sides, NEW price \in EntryPrices, NEW atr \in Atrs,
         NEW pos \in Position, pos.side = side, pos.entry = price, pos.price = price,
         NEW s, s = NewStops(side, price, atr)
  PROVE  s \in StopFields /\ Locked(pos, s) /\ Told(pos, s)
<1>. DEFINE range    == IF atr > 0 THEN atr ELSE price
            distance == (range * SlTenths) \div 10
            fallback == (price * FallbackTenths) \div 10
            most     == Max({distance, fallback})
<1>1. /\ side \in {1, -1} /\ price \in Nat \ {0} /\ price \in Prices /\ atr \in Nat
      /\ SlTenths \in Nat /\ FallbackTenths \in Nat /\ RewardRatio \in Nat
      /\ TrailActivation \in Nat /\ MaxHold \in Nat
  BY PricesAssumption, StopsAssumption
<1>2. \A a, b \in Nat : a * b \in Nat /\ (a > 0 /\ b > 0 => a * b > 0)
  OBVIOUS
<1>3. distance \in Int /\ fallback \in Int /\ fallback >= 1
  <2>1. range * SlTenths \in Nat /\ price * FallbackTenths \in Nat
    BY <1>1, <1>2
  <2>2. price * FallbackTenths >= 10
    BY DEF StopsApart
  <2>. QED
    BY <2>1, <2>2
<1>. HIDE DEF distance, fallback
<1>4. most \in Int /\ most >= 1
  BY <1>3, GreaterOfTwo
<1>. HIDE DEF most
<1>5. /\ s = [stop |-> price * 100 - side * most, target |-> price * 100 + side * distance * RewardRatio,
              best |-> price, moved |-> FALSE, trailing |-> FALSE, held |-> 0,
              announced |-> FALSE, byHand |-> FALSE]
  BY DEF NewStops, AtrStops, distance, fallback, most
<1>6. price * 100 - side * most \in Int /\ price * 100 + side * distance * RewardRatio \in Int
  <2>1. side \in Int /\ price \in Int /\ RewardRatio \in Int
    BY <1>1
  <2>. QED
    BY <1>3, <1>4, <2>1
<1>7. s \in StopFields
  BY <1>1, <1>5, <1>6 DEF StopFields
<1>8. ~Past(pos, s)
  <2>1. TrailActivation * price > 0
    BY <1>1, <1>2 DEF StopsApart
  <2>2. pos.side * (s.best - pos.entry) * 100 = 0
    BY <1>1, <1>5
  <2>. QED
    BY <2>1, <2>2, <1>1, <1>2 DEF Past
<1>9. Told(pos, s)
  <2>1. s.stop = price * 100 - side * most
    BY <1>5
  <2>2. CASE side = 1
    BY <1>1, <1>4, <2>1, <2>2 DEF Told, Reached
  <2>3. CASE side = -1
    BY <1>1, <1>4, <2>1, <2>3 DEF Told, Reached
  <2>. QED
    BY <1>1, <2>2, <2>3
<1>. QED
  BY <1>7, <1>8, <1>9 DEF Locked

\* A tick, managed or not.
LEMMA TickKeeps ==
  ASSUME NEW pos \in Position, NEW s \in StopFields, NEW price \in Prices, Locked(pos, s),
         NEW t, t = Ticked(pos, s, price)
  PROVE  /\ t \in StopFields /\ Locked(pos, t)
         /\ Reached(-pos.side, price, t.stop) => t.announced
<1>1. CASE HeldTooLong(s)
  <2>. DEFINE seen == [s EXCEPT !.best = Better(pos.side, price, s.best)]
  <2>1. t = [seen EXCEPT !.announced = TRUE]
    BY <1>1 DEF Ticked
  <2>2. seen \in StopFields /\ seen.held = s.held
    BY SeenFields
  <2>. HIDE DEF seen
  <2>3. t \in StopFields /\ t.held = s.held /\ t.announced
    BY <2>1, <2>2, Zenon DEF StopFields
  <2>. QED
    BY <1>1, <2>3 DEF Locked, HeldTooLong
<1>2. CASE ~HeldTooLong(s)
  BY <1>2, TickLocked
<1>. QED
  BY <1>1, <1>2

\* What stays open stays as it was.
LEMMA StopsKept ==
  ASSUME StopsInv, BookTypeOK', StopsFollow, Open' \subseteq Open,
         \A k \in Open' : positions'[k] = positions[k]
  PROVE  StopsInv'
<1>1. stops' = [k \in Open' |-> stops[k]]
  BY DEF StopsFollow, Open
<1>2. \A k \in Open' : stops'[k] = stops[k] /\ stops[k] \in StopFields
  BY <1>1 DEF StopsInv
<1>. QED
  BY <1>1, <1>2 DEF StopsInv

LEMMA StopsStep ==
  ASSUME StopsApart, StopsInv, [StopsNext]_stopVars
  PROVE  StopsInv'
<1>1. EntryPrices \subseteq Prices
  BY StopsAssumption
<1>2. BookTypeOK'
  <2>1. [RiskNext]_riskVars
    BY <1>1, Zenon DEF StopsNext, OpenWithStops, UpdatePrices, SetBreakeven, CloseSome, GrowOlder,
       stopVars, RiskNext
  <2>. QED
    BY <2>1, BookTypeStep DEF StopsInv
<1>3. \A k \in Open : positions[k] \in Position /\ stops[k] \in StopFields
  BY DEF StopsInv, BookTypeOK
<1>4. ASSUME NEW k \in Keys, NEW side \in Sides, NEW price \in EntryPrices, NEW atr \in Atrs,
             OpenWithStops(k, side, price, atr)
      PROVE  StopsInv'
  <2>1. /\ k \notin Open /\ Open' = Open \cup {k}
        /\ positions'[k].side = side /\ positions'[k].entry = price
        /\ positions'[k].price = price
        /\ \A j \in Open : positions'[j] = positions[j]
    BY <1>4 DEF OpenWithStops, Enter, Approvable, OpenPosition, Open
  <2>2. /\ stops' = [j \in Open' |-> IF j = k THEN NewStops(side, price, atr) ELSE stops[j]]
    BY <1>4, <2>1 DEF OpenWithStops
  <2>3. positions'[k] \in Position
    BY <1>2, <2>1 DEF BookTypeOK
  <2>4. /\ stops'[k] \in StopFields
        /\ Locked(positions'[k], stops'[k]) /\ Told(positions'[k], stops'[k])
    BY <2>1, <2>2, <2>3, StopStarts
  <2>5. \A j \in Open : /\ stops'[j] \in StopFields
                        /\ Locked(positions'[j], stops'[j]) /\ Told(positions'[j], stops'[j])
    BY <1>3, <2>1, <2>2 DEF StopsInv
  <2>. QED
    BY <1>2, <2>1, <2>2, <2>4, <2>5 DEF StopsInv
<1>5. ASSUME NEW k \in Keys, NEW price \in Prices, UpdatePrices(k, price)
      PROVE  StopsInv'
  <2>. DEFINE t == Ticked(positions[k], stops[k], price)
  <2>1. /\ k \in Open /\ Open' = Open
        /\ positions' = [positions EXCEPT ![k].price = price]
        /\ stops' = [stops EXCEPT ![k] = t]
    BY <1>5 DEF UpdatePrices, UpdatePrice, Open
  <2>2. /\ t \in StopFields /\ Locked(positions[k], t)
        /\ Reached(-positions[k].side, price, t.stop) => t.announced
    BY <1>3, <2>1, TickKeeps DEF StopsInv
  <2>. HIDE DEF t
  <2>3. /\ positions'[k].side = positions[k].side /\ positions'[k].entry = positions[k].entry
        /\ positions'[k].price = price
        /\ \A j \in Open \ {k} : positions'[j] = positions[j]
    BY <1>3, <2>1 DEF Position, StopsInv, BookTypeOK
  <2>4. stops'[k] = t /\ \A j \in Open \ {k} : stops'[j] = stops[j]
    BY <2>1 DEF StopsInv
  <2>5. stops' \in [Open -> StopFields]
    BY <2>1, <2>2 DEF StopsInv
  <2>6. Locked(positions'[k], stops'[k]) /\ Told(positions'[k], stops'[k])
    BY <2>2, <2>3, <2>4 DEF Locked, Past, Holds, Told
  <2>7. \A j \in Open \ {k} : Locked(positions'[j], stops'[j]) /\ Told(positions'[j], stops'[j])
    BY <2>3, <2>4 DEF StopsInv
  <2>. QED
    BY <1>2, <2>1, <2>5, <2>6, <2>7 DEF StopsInv
<1>6. CASE SetBreakeven
  <2>1. /\ positions' = positions /\ Open' = Open
        /\ stops' = [k \in Open |->
                       IF InProfit(positions[k])
                       THEN [stops[k] EXCEPT !.stop = positions[k].entry * 100, !.byHand = TRUE]
                       ELSE stops[k]]
    BY <1>6, Zenon DEF SetBreakeven, riskVars, Open
  <2>2. ASSUME NEW k \in Open
        PROVE  /\ stops'[k] \in StopFields
               /\ Locked(positions[k], stops'[k]) /\ Told(positions[k], stops'[k])
    <3>1. CASE InProfit(positions[k])
      <4>1. stops'[k] = [stops[k] EXCEPT !.stop = positions[k].entry * 100, !.byHand = TRUE]
        BY <2>1, <3>1, Zenon
      <4>2. /\ positions[k].entry \in Nat /\ positions[k].price \in Nat
            /\ positions[k].side \in {1, -1}
        BY <1>3, PositionTyped
      <4>5. positions[k].entry * 100 \in Int
        BY <4>2
      <4>3. /\ stops'[k] \in StopFields /\ stops'[k].byHand
            /\ stops'[k].stop = positions[k].entry * 100
        BY <1>3, <4>1, <4>5, Zenon DEF StopFields
      <4>4. Told(positions[k], stops'[k])
        BY <3>1, <4>2, <4>3 DEF Told, Reached, InProfit
      <4>. QED
        BY <4>3, <4>4 DEF Locked
    <3>2. CASE ~InProfit(positions[k])
      BY <1>3, <2>1, <3>2, Zenon DEF StopsInv
    <3>. QED
      BY <3>1, <3>2
  <2>. QED
    BY <1>2, <2>1, <2>2, Zenon DEF StopsInv
<1>7. CASE CloseSome /\ StopsFollow
  <2>1. ASSUME NEW keys \in SUBSET Keys, NEW priceOf, ClosePositions(keys, priceOf)
        PROVE  Open' \subseteq Open /\ \A k \in Open' : positions'[k] = positions[k]
    BY <2>1, CloseTyping, Zenon DEF StopsInv
  <2>2. Open' \subseteq Open /\ \A k \in Open' : positions'[k] = positions[k]
    <3>1. Open \in SUBSET Keys
      BY DEF StopsInv, BookTypeOK
    <3>2. ASSUME NEW k \in Keys, NEW price \in Prices, Close(k, price)
          PROVE  Open' \subseteq Open /\ \A j \in Open' : positions'[j] = positions[j]
      BY <2>1, <3>2 DEF Close
    <3>3. ASSUME NEW venues \in SUBSET Exchanges, CloseVenues(venues)
          PROVE  Open' \subseteq Open /\ \A j \in Open' : positions'[j] = positions[j]
      <4>1. {k \in Open : k[1] \in venues} \in SUBSET Keys
        BY <3>1
      <4>. QED
        BY <2>1, <3>3, <4>1, Zenon DEF CloseVenues
    <3>4. CASE ActivateKillSwitch \/ CloseAllByKilling
      BY <2>1, <3>1, <3>4 DEF ActivateKillSwitch, CloseAllByKilling
    <3>. QED
      BY <1>7, <3>2, <3>3, <3>4 DEF CloseSome
  <2>. QED
    BY <1>2, <1>7, <2>2, StopsKept
<1>8. CASE (DeactivateKillSwitch \/ ReadBreaker \/ ResetBreaker) /\ StopsFollow
  <2>1. positions' = positions /\ Open' = Open
    BY <1>8 DEF DeactivateKillSwitch, ReadBreaker, ResetBreaker, Open
  <2>. QED
    BY <1>2, <1>8, <2>1, StopsKept
<1>9. CASE GrowOlder
  <2>1. /\ positions' = positions /\ Open' = Open
        /\ stops' = [k \in Open |-> [stops[k] EXCEPT !.held = Older(stops[k].held, MaxHold)]]
    BY <1>9 DEF GrowOlder, PassTime, Open
  <2>2. ASSUME NEW k \in Open
        PROVE  /\ stops'[k] \in StopFields
               /\ Locked(positions[k], stops'[k]) /\ Told(positions[k], stops'[k])
    <3>1. stops'[k] = [stops[k] EXCEPT !.held = Older(stops[k].held, MaxHold)]
      BY <2>1
    <3>2. /\ Older(stops[k].held, MaxHold) \in Nat
          /\ stops[k].held = MaxHold => Older(stops[k].held, MaxHold) = MaxHold
      BY <1>3, StopsAssumption DEF Older, StopFields
    <3>3. /\ stops'[k] \in StopFields /\ stops'[k].stop = stops[k].stop
          /\ stops'[k].best = stops[k].best /\ stops'[k].moved = stops[k].moved
          /\ stops'[k].byHand = stops[k].byHand /\ stops'[k].announced = stops[k].announced
          /\ HeldTooLong(stops[k]) => HeldTooLong(stops'[k])
      BY <1>3, <3>1, <3>2 DEF StopFields, HeldTooLong
    <3>. QED
      BY <3>3 DEF StopsInv, Locked, Past, Holds, Told
  <2>. QED
    BY <1>2, <2>1, <2>2 DEF StopsInv
<1>10. CASE UNCHANGED stopVars
  BY <1>2, <1>10 DEF stopVars, riskVars, StopsInv, Open
<1>. QED
  BY <1>4, <1>5, <1>6, <1>7, <1>8, <1>9, <1>10 DEF StopsNext

LEMMA StopsStart == StopsInit => StopsInv
<1>. SUFFICES ASSUME StopsInit PROVE StopsInv
  OBVIOUS
<1>1. BookTypeOK /\ Open = {}
  BY RiskInitTyping DEF StopsInit, RiskInit, Open
<1>. QED
  BY <1>1 DEF StopsInit, StopsInv

\* The profit that a trailing stop has locked in is not given back, whatever ticks,
\* breakevens and closes follow, for any prices, multipliers and number of
\* positions, as long as the trailing stop starts above the entry.
THEOREM ProfitStaysLocked == ASSUME StopsApart PROVE StopsSpec => []ProfitIsLocked
<1>1. StopsInv => ProfitIsLocked
  <2>. SUFFICES ASSUME StopsInv, NEW k \in Open
                PROVE  LET pos == positions[k]
                           s   == stops[k]
                       IN s.byHand \/ HeldTooLong(s)
                          \/ pos.side * (s.best - pos.entry) * 100 < TrailActivation * pos.entry
                          \/ pos.side * (s.stop - s.best * 100) + pos.entry * TrailDistance >= 0
    BY DEF ProfitIsLocked
  <2>1. positions[k] \in Position /\ stops[k] \in StopFields
    BY DEF StopsInv, BookTypeOK
  <2>2. /\ TrailActivation * positions[k].entry \in Int
        /\ positions[k].side * (stops[k].best - positions[k].entry) * 100 \in Int
    <3>1. positions[k].side \in {1, -1} /\ positions[k].entry \in Nat /\ stops[k].best \in Nat
          /\ TrailActivation * positions[k].entry \in Nat
      BY <2>1, PositionTyped, StopTyped
    <3>. QED
      BY <3>1
  <2>. QED
    BY <2>2 DEF StopsInv, Locked, Past, Holds
<1>. QED
  BY <1>1, StopsStart, StopsStep, PTL DEF StopsSpec

\* Whichever brings a price and a stop together, tick or operator, the exit is
\* announced, as long as no position starts on its stop.
THEOREM CrossingsAreAnnounced == ASSUME StopsApart PROVE StopsSpec => []CrossedStopIsAnnounced
<1>1. StopsInv => CrossedStopIsAnnounced
  BY DEF StopsInv, CrossedStopIsAnnounced, Told
<1>. QED
  BY <1>1, StopsStart, StopsStep, PTL DEF StopsSpec

----------------------------------------------------------------------------
(* RiskSettings: the loss that is counted. *)

Breaker == [counted : Nat, peak : Int, tripped : BOOLEAN, over : BOOLEAN]
Limits == [pct : Int, leverage : Int, open : Int, loss : Int]
Orders == [slot : SUBSET Slots, size : Nat]

SettingsShape ==
  /\ equity \in Int /\ top \in Nat /\ lost \in Nat /\ entries \in Nat
  /\ loss \in Breaker /\ limits \in Limits /\ order \in Orders
  /\ DOMAIN book \subseteq Slots /\ \A slot \in DOMAIN book : book[slot] \in Nat

\* No size was granted above the exposure limit's part of the highest equity.
SizesFit ==
  /\ equity <= top
  /\ order.size * 1000 <= Exposure * top
  /\ \A slot \in DOMAIN book : book[slot] * 1000 <= Exposure * top

SettingsInv == SettingsShape /\ SizesFit /\ LossIsNotUnderstated

LEMMA ClampTyped ==
  ASSUME NEW low \in Int, NEW high \in Int, NEW x \in Int
  PROVE  Clamp(low, high, x) \in Int
BY SmallerOfTwo, GreaterOfTwo DEF Clamp

LEMMA TimesKeepsOrder ==
  ASSUME NEW a \in Int, NEW b \in Int, NEW c \in Nat, a <= b
  PROVE  c * a <= c * b /\ c * a \in Int /\ c * b \in Int
OBVIOUS

LEMMA ProductOfSum ==
  ASSUME NEW a \in Int, NEW b \in Int, NEW c \in Int, NEW d \in Int
  PROVE  (a + b) * c * d = a * (c * d) + b * (c * d)
OBVIOUS

\* What a signal is granted.
LEMMA GrantedFits ==
  ASSUME SettingsShape, SizesFit, NEW slot \in Slots, NEW distance \in Distances,
         Grants(slot, distance)
  PROVE  /\ PositionSizeOf(distance) \in Nat
         /\ PositionSizeOf(distance) * 1000 <= Exposure * top
<1>1. /\ distance \in Nat \ {0} /\ PerTrade \in Nat /\ Exposure \in Nat
      /\ limits.leverage \in Int /\ limits.pct \in Int /\ equity \in Int /\ top \in Nat
      /\ equity <= top
  BY SettingsAssumption DEF SettingsShape, SizesFit, Limits
<1>. DEFINE risk == (equity * PerTrade * limits.leverage) \div (distance * 10)
            cap == (equity * limits.pct * limits.leverage) \div 100000
<1>2. risk \in Int /\ cap \in Int
  <2>1. \A a, b \in Int : a * b \in Int
    OBVIOUS
  <2>2. equity * PerTrade * limits.leverage \in Int /\ equity * limits.pct * limits.leverage \in Int
    BY <1>1, <2>1
  <2>. QED
    BY <1>1, <2>2
<1>. HIDE DEF risk, cap
<1>3. PositionSizeOf(distance) \in Int
  <2>1. PositionSizeOf(distance) = Min({risk, cap})
    BY DEF PositionSizeOf, risk, cap
  <2>. QED
    BY <1>2, <2>1, SmallerOfTwo
<1>4. PositionSizeOf(distance) > 0 /\ PositionSizeOf(distance) * 1000 <= equity * Exposure
  BY DEF Grants, ExposureFits
<1>5. equity * Exposure <= Exposure * top
  BY <1>1, TimesKeepsOrder
<1>6. equity * Exposure \in Int /\ Exposure * top \in Int
  BY <1>1
<1>. QED
  BY <1>3, <1>4, <1>5, <1>6

\* What closing a position of some size at a loss costs, and what is counted for it.
LEMMA LossCounted ==
  ASSUME NEW size \in Nat, NEW q \in Nat, NEW limit \in Nat, size * 1000 <= limit
  PROVE  /\ (size * q) \div 100 \in Nat
         /\ ((size * q) \div 100) * 100 * 1000 <= q * limit
<1>1. size * q \in Nat /\ q * (size * 1000) <= q * limit /\ q * limit \in Nat
  <2>1. size * q \in Nat /\ q * limit \in Nat
    OBVIOUS
  <2>. QED
    BY <2>1, TimesKeepsOrder
<1>2. q * (size * 1000) = (size * q) * 1000
  OBVIOUS
<1>. DEFINE p == size * q
<1>3. p \div 100 \in Nat /\ (p \div 100) * 100 <= p
  <2>1. p \in Nat
    BY <1>1
  <2>. HIDE DEF p
  <2>. QED
    BY <2>1
<1>. HIDE DEF p
<1>4. p \in Nat /\ p * 1000 <= q * limit
  BY <1>1, <1>2 DEF p
<1>. QED
  BY <1>1, <1>3, <1>4 DEF p

\* A close, for what it was sized and what it gains.
LEMMA CloseCounts ==
  ASSUME SettingsInv, NEW slot \in DOMAIN book, NEW percent \in Results, CloseAt(slot, percent)
  PROVE  SettingsInv'
<1>. DEFINE size   == book[slot]
            gain   == Result(size, percent)
            now    == equity + gain
            peak   == Max({loss.peak, now})
            breach == Counted(percent) * 10 >= limits.loss
                      \/ (peak - now) * 1000 >= LargestFall * peak
            paid   == Max({0, -percent})
            cost   == Max({0, -gain})
<1>1. /\ book' = [s \in DOMAIN book \ {slot} |-> book[s]] /\ equity' = now
      /\ loss' = [counted |-> loss.counted + paid, peak |-> peak,
                  tripped |-> loss.tripped \/ breach, over |-> loss.over /\ ~breach]
      /\ lost' = lost + cost /\ top' = Max({top, now})
      /\ UNCHANGED <<limits, order, paper, routes, entries>>
  BY DEF CloseAt, Counted
<1>2. (loss.tripped \/ breach) \in BOOLEAN /\ (loss.over /\ ~breach) \in BOOLEAN
  BY DEF SettingsInv, SettingsShape, Breaker
<1>3. /\ percent \in Int /\ size \in Nat /\ equity \in Int /\ top \in Nat /\ lost \in Nat
      /\ loss.counted \in Nat /\ loss.peak \in Int /\ Exposure \in Nat /\ order.size \in Nat
      /\ size * 1000 <= Exposure * top
  BY SettingsAssumption DEF SettingsInv, SettingsShape, SizesFit, Breaker, Orders
<1>4. gain \in Int /\ (percent >= 0 => gain >= 0)
      /\ (percent < 0 => gain = -((size * (-percent)) \div 100))
  <2>1. CASE percent >= 0
    <3>1. size * percent \in Nat
      BY <1>3, <2>1
    <3>2. gain = (size * percent) \div 100
      BY <2>1 DEF Result
    <3>. HIDE DEF gain
    <3>. QED
      BY <1>3, <2>1, <3>1, <3>2
  <2>2. CASE percent < 0
    <3>1. -percent \in Nat
      BY <1>3, <2>2
    <3>2. gain = -((size * (-percent)) \div 100)
      BY <1>3, <2>2 DEF Result
    <3>3. (size * (-percent)) \div 100 \in Nat
      BY <1>3, <3>1, LossCounted
    <3>. HIDE DEF gain
    <3>. QED
      BY <1>3, <2>2, <3>2, <3>3
  <2>. QED
    BY <1>3, <2>1, <2>2
<1>. HIDE DEF gain
<1>5. now \in Int /\ top' \in Nat /\ top' >= top /\ top' >= now /\ peak \in Int
  <2>1. now \in Int
    BY <1>3, <1>4
  <2>. HIDE DEF now
  <2>2. Max({top, now}) \in Int /\ Max({top, now}) >= top /\ Max({top, now}) >= now
    BY <1>3, <2>1, GreaterOfTwo
  <2>3. Max({loss.peak, now}) \in Int
    BY <1>3, <2>1, GreaterOfTwo
  <2>. QED
    BY <1>1, <1>3, <2>1, <2>2, <2>3
<1>. HIDE DEF now, breach, peak
<1>6. /\ paid \in Nat /\ cost \in Nat
      /\ cost * 100 * 1000 <= paid * (Exposure * top)
  <2>1. CASE percent >= 0
    <3>1. paid = 0 /\ cost = 0
      <4>1. -percent <= 0 /\ -gain <= 0 /\ -percent \in Int /\ -gain \in Int
        BY <1>3, <1>4, <2>1
      <4>2. \A x \in Int : x <= 0 => Max({0, x}) = 0
        BY GreaterOfTwo
      <4>. QED
        BY <4>1, <4>2
    <3>. QED
      BY <1>3, <3>1
  <2>2. CASE percent < 0
    <3>1. paid = -percent /\ cost = -gain
      <4>1. -percent \in Nat /\ -gain \in Nat
        BY <1>3, <1>4, <2>2, LossCounted
      <4>2. \A x \in Nat : Max({0, x}) = x
        BY GreaterOfTwo
      <4>. QED
        BY <4>1, <4>2
    <3>2. -percent \in Nat /\ Exposure * top \in Nat
      BY <1>3, <2>2
    <3>. QED
      BY <1>3, <1>4, <2>2, <3>1, <3>2, LossCounted
  <2>. QED
    BY <1>3, <2>1, <2>2
<1>. HIDE DEF paid, cost
<1>7. /\ loss'.counted = loss.counted + paid /\ loss' \in Breaker
      /\ lost' \in Nat
  BY <1>1, <1>2, <1>3, <1>5, <1>6 DEF Breaker
<1>8. Exposure * top <= Exposure * top' /\ Exposure * top \in Nat /\ Exposure * top' \in Nat
  <2>1. \A a, b \in Nat : a * b \in Nat
    OBVIOUS
  <2>2. Exposure * top \in Nat /\ Exposure * top' \in Nat
    BY <1>3, <1>5, <2>1, Zenon
  <2>4. \A a, b \in Nat : \A c \in Nat : a <= b => c * a <= c * b
    BY TimesKeepsOrder
  <2>3. Exposure * top <= Exposure * top'
    BY <1>3, <1>5, <2>4, Zenon
  <2>. QED
    BY <2>2, <2>3
<1>9. SizesFit'
  <2>1. \A s \in DOMAIN book' : book'[s] * 1000 <= Exposure * top'
    <3>1. \A s \in DOMAIN book : book[s] \in Nat /\ book[s] * 1000 <= Exposure * top
      BY DEF SettingsInv, SettingsShape, SizesFit
    <3>. QED
      BY <1>1, <1>8, <3>1
  <2>2. order'.size * 1000 <= Exposure * top'
    BY <1>1, <1>3, <1>8 DEF SettingsInv, SizesFit
  <2>. QED
    BY <1>1, <1>5, <2>1, <2>2, Zenon DEF SizesFit
<1>10. LossIsNotUnderstated'
  <2>1. lost * 100 * 1000 <= loss.counted * Exposure * top
    BY DEF SettingsInv, LossIsNotUnderstated
  <2>2. loss.counted * Exposure * top = loss.counted * (Exposure * top)
    BY <1>3
  <2>3. /\ loss.counted * (Exposure * top) <= loss.counted * (Exposure * top')
        /\ paid * (Exposure * top) <= paid * (Exposure * top')
    BY <1>3, <1>6, <1>8, TimesKeepsOrder
  <2>4. loss'.counted * Exposure * top' = loss.counted * (Exposure * top') + paid * (Exposure * top')
    BY <1>3, <1>5, <1>6, <1>7, ProductOfSum
  <2>5. /\ loss.counted * (Exposure * top) \in Int /\ loss.counted * (Exposure * top') \in Int
        /\ paid * (Exposure * top) \in Int /\ paid * (Exposure * top') \in Int
    BY <1>3, <1>6, <1>8, TimesKeepsOrder
  <2>. QED
    BY <1>1, <1>3, <1>6, <2>1, <2>2, <2>3, <2>4, <2>5 DEF LossIsNotUnderstated
<1>11. SettingsShape'
  BY <1>1, <1>5, <1>7 DEF SettingsInv, SettingsShape
<1>. QED
  BY <1>9, <1>10, <1>11 DEF SettingsInv

\* A position is booked with what it was sized.
LEMMA BookedFits ==
  ASSUME SettingsShape, SizesFit, NEW slot \in Slots, NEW size \in Nat,
         size * 1000 <= Exposure * top, Booked(slot, size)
  PROVE  /\ DOMAIN book' \subseteq Slots /\ \A s \in DOMAIN book' : book'[s] \in Nat
         /\ \A s \in DOMAIN book' : book'[s] * 1000 <= Exposure * top
BY DEF SettingsShape, SizesFit, Booked

LEMMA SettingsStep ==
  ASSUME SettingsInv, [SettingsNext]_settingsVars
  PROVE  SettingsInv'
<1>0. \A x \in Int : Max({1, x}) \in Int /\ Max({1, x}) >= 1
  BY GreaterOfTwo
<1>. USE DEF SettingsInv
<1>1. Untripped \in Breaker /\ Untripped.counted = loss.counted
  BY Zenon DEF Untripped, SettingsShape, Breaker
<1>2. ASSUME NEW slot \in Slots, NEW distance \in Distances, TakeSignal(slot, distance)
      PROVE  SettingsInv'
  <2>. DEFINE size == PositionSizeOf(distance)
  <2>1. size \in Nat /\ size * 1000 <= Exposure * top
    BY <1>2, GrantedFits DEF TakeSignal
  <2>. HIDE DEF size
  <2>2. /\ loss' = Untripped /\ entries' = entries + 1
        /\ \/ Booked(slot, size) /\ UNCHANGED order
           \/ order' = [slot |-> {slot}, size |-> size] /\ UNCHANGED book
        /\ UNCHANGED <<equity, limits, paper, routes, lost, top>>
    BY <1>2 DEF TakeSignal, size
  <2>3. /\ DOMAIN book' \subseteq Slots /\ \A s \in DOMAIN book' : book'[s] \in Nat
        /\ \A s \in DOMAIN book' : book'[s] * 1000 <= Exposure * top
    BY <2>1, <2>2, BookedFits DEF SettingsShape, SizesFit
  <2>4. order' \in Orders /\ order'.size * 1000 <= Exposure * top
    BY <2>1, <2>2 DEF Orders, SettingsShape, SizesFit
  <2>5. loss' \in Breaker /\ loss'.counted = loss.counted /\ entries' \in Nat
    BY <1>1, <2>2 DEF SettingsShape
  <2>. QED
    BY <2>2, <2>3, <2>4, <2>5 DEF SettingsShape, SizesFit, LossIsNotUnderstated
<1>3. ASSUME NEW filled \in BOOLEAN, OrderEnds(filled)
      PROVE  SettingsInv'
  <2>1. order' = NoOrder /\ UNCHANGED <<equity, limits, loss, paper, routes, entries, lost, top>>
    BY <1>3 DEF OrderEnds
  <2>2. order.slot \in SUBSET Slots /\ order.size \in Nat /\ order.size * 1000 <= Exposure * top
    BY DEF SettingsShape, SizesFit, Orders
  <2>3. book' = book \/ \E slot \in order.slot : Booked(slot, order.size)
    BY <1>3 DEF OrderEnds
  <2>4. /\ DOMAIN book' \subseteq Slots /\ \A s \in DOMAIN book' : book'[s] \in Nat
        /\ \A s \in DOMAIN book' : book'[s] * 1000 <= Exposure * top
    BY <2>2, <2>3, BookedFits DEF SettingsShape, SizesFit
  <2>5. order' \in Orders /\ order'.size * 1000 <= Exposure * top
    <3>1. Exposure * top >= 0 /\ Exposure * top \in Int
      BY SettingsAssumption DEF SettingsShape
    <3>. QED
      BY <2>1, <3>1 DEF NoOrder, Orders
  <2>. QED
    BY <2>1, <2>4, <2>5 DEF SettingsShape, SizesFit, LossIsNotUnderstated
<1>4. ASSUME NEW slot \in DOMAIN book, NEW percent \in Results, CloseAt(slot, percent)
      PROVE  SettingsInv'
  BY <1>4, CloseCounts
<1>5. CASE PauseEnds \/ ReadLimits
  <2>1. loss' \in Breaker /\ loss'.counted = loss.counted
    BY <1>1, <1>5, Zenon DEF PauseEnds, ReadLimits, SettingsShape, Breaker
  <2>2. UNCHANGED <<equity, limits, book, order, paper, routes, entries, lost, top>>
    BY <1>5 DEF PauseEnds, ReadLimits
  <2>. QED
    BY <2>1, <2>2 DEF SettingsShape, SizesFit, LossIsNotUnderstated
<1>6. CASE ResetLoss
  <2>1. loss' \in Breaker /\ loss'.counted = 0 /\ lost' = 0
    BY <1>6, Zenon DEF ResetLoss, SettingsShape, Breaker
  <2>2. UNCHANGED <<equity, limits, book, order, paper, routes, entries, top>>
    BY <1>6 DEF ResetLoss
  <2>3. loss'.counted * Exposure * top' = 0
    BY <2>1, <2>2, SettingsAssumption DEF SettingsShape
  <2>. QED
    BY <2>1, <2>2, <2>3 DEF SettingsShape, SizesFit, LossIsNotUnderstated
<1>7. ASSUME UNCHANGED bookVars, limits' \in Limits
      PROVE  SettingsInv'
  BY <1>7 DEF bookVars, SettingsShape, SizesFit, LossIsNotUnderstated
<1>8. ASSUME NEW value \in Amounts, NEW leverage \in Leverages, SetRiskLimits(value, leverage)
      PROVE  SettingsInv'
  <2>1. value \in Nat /\ leverage \in Nat /\ equity \in Int /\ limits \in Limits
    BY SettingsAssumption DEF SettingsShape
  <2>2. Max({1, leverage}) \in Int
    BY <2>1, GreaterOfTwo
  <2>3. equity > 0 => Clamp(1, 10000, (value * 10000) \div equity) \in Int
    BY <2>1, ClampTyped
  <2>4. /\ UNCHANGED bookVars
        /\ limits' = [limits EXCEPT
                        !.leverage = Max({1, leverage}),
                        !.pct = IF equity > 0 THEN Clamp(1, 10000, (value * 10000) \div equity)
                                ELSE limits.pct]
    BY <1>8 DEF SetRiskLimits
  <2>5. limits' \in Limits
    <3>. DEFINE pct == IF equity > 0 THEN Clamp(1, 10000, (value * 10000) \div equity)
                       ELSE limits.pct
    <3>1. pct \in Int
      BY <2>1, <2>3 DEF Limits
    <3>2. limits' = [limits EXCEPT !.leverage = Max({1, leverage}), !.pct = pct]
      BY <2>4
    <3>. HIDE DEF pct
    <3>. QED
      BY <2>1, <2>2, <3>1, <3>2, Zenon DEF Limits
  <2>. QED
    BY <1>7, <2>4, <2>5
<1>9. ASSUME NEW size \in Amounts, NEW daily \in Amounts, NEW count \in Counts,
             SetAlgoConfig(size, count, daily)
      PROVE  SettingsInv'
  <2>1. /\ size \in Nat /\ daily \in Nat /\ count \in Nat /\ equity \in Int
        /\ limits \in Limits /\ limits.leverage \in Int
    BY SettingsAssumption DEF SettingsShape, Limits
  <2>. DEFINE whole == Max({1, (equity * limits.leverage) \div 10})
              base == Max({1, equity})
              pct == Clamp(1, 10000, (size * 10000) \div whole)
              fall == Clamp(1, 1000, (daily * 1000) \div base)
  <2>2. whole \in Int /\ whole >= 1 /\ base \in Int /\ base >= 1 /\ Max({1, count}) \in Int
    <3>1. (equity * limits.leverage) \div 10 \in Int
      BY <2>1
    <3>. QED
      BY <1>0, <2>1, <3>1
  <2>. HIDE DEF whole, base
  <2>3. pct \in Int /\ fall \in Int
    <3>1. (size * 10000) \div whole \in Int /\ (daily * 1000) \div base \in Int
      BY <2>1, <2>2
    <3>2. \A x \in Int : Clamp(1, 10000, x) \in Int /\ Clamp(1, 1000, x) \in Int
      BY ClampTyped
    <3>. QED
      BY <3>1, <3>2
  <2>4. /\ UNCHANGED bookVars
        /\ limits' = [limits EXCEPT !.pct = IF equity > 0 THEN pct ELSE limits.pct,
                                    !.open = Max({1, count}), !.loss = fall]
    BY <1>9 DEF SetAlgoConfig, whole, base
  <2>. HIDE DEF pct, fall
  <2>5. limits' \in Limits
    BY <2>1, <2>2, <2>3, <2>4, Zenon DEF Limits
  <2>. QED
    BY <1>7, <2>4, <2>5
<1>10. CASE \/ \E mode \in {"paper", "live", "simulation"}, confirmed \in BOOLEAN :
                 SetTradingMode(mode, confirmed)
            \/ \E enabled \in BOOLEAN : ToggleVenue(enabled)
            \/ ReloadConfig
            \/ \E mode \in {"paper", "live"} : ToggleMode(mode)
            \/ UNCHANGED settingsVars
  <2>1. UNCHANGED bookVars /\ limits' = limits
    BY <1>10, Zenon DEF SetTradingMode, ToggleVenue, ReloadConfig, ToggleMode, settingsVars
  <2>. QED
    BY <1>7, <2>1 DEF SettingsShape
<1>. QED
  BY <1>2, <1>3, <1>4, <1>5, <1>6, <1>8, <1>9, <1>10 DEF SettingsNext

LEMMA SettingsStart == SettingsInit => SettingsInv
<1>. SUFFICES ASSUME SettingsInit PROVE SettingsInv
  OBVIOUS
<1>1. {Capital, StartPct, StartOpen, StartLoss, Exposure} \subseteq Nat
  BY SettingsAssumption
<1>2. Exposure * Capital \in Nat
  BY <1>1
<1>3. loss.counted * Exposure * top = 0
  BY <1>1 DEF SettingsInit
<1>. QED
  BY <1>1, <1>2, <1>3 DEF SettingsInit, SettingsInv, SettingsShape, SizesFit, LossIsNotUnderstated,
     Breaker, Limits, Orders, NoOrder

\* The percentages the breaker adds up never understate the account's loss, for any
\* capital, limits, sizes and results, whatever operators set between a signal and
\* the close of what it opened: its size was within the exposure limit of the equity
\* it was granted from, and that was within the highest.
THEOREM LossesAreCounted == SettingsSpec => []LossIsNotUnderstated
<1>1. SettingsInv => LossIsNotUnderstated
  BY DEF SettingsInv
<1>. QED
  BY <1>1, SettingsStart, SettingsStep, PTL DEF SettingsSpec
=============================================================================
