---------------------------- MODULE RiskManager ----------------------------
(***************************************************************************)
(* execution/risk_manager.py: the book of open positions, the kill switch, *)
(* the per-symbol cooldown, and the account (equity, cumulative loss, peak *)
(* equity and the loss breaker).  Every method runs to completion on the   *)
(* one event loop, so each is one action here.                             *)
(*                                                                         *)
(* Time is relative: the book keeps how long ago a symbol last traded and  *)
(* how much of the breaker's pause is left, both saturating, so the clock  *)
(* needs no bound.  Prices are small integers and percentages are rounded  *)
(* down to whole points.                                                   *)
(***************************************************************************)
EXTENDS Integers, FiniteSets, SequencesExt

CONSTANTS
  Exchanges,       \* exchange ids, one executor each
  Symbols,
  Prices,          \* prices a signal or a tick may carry
  Sides,           \* 1 is long, -1 is short
  MaxOpen,         \* risk.max_open_positions
  Cooldown,        \* risk.cooldown_seconds, in ticks of the model
  Pause,           \* risk.circuit_breaker_pause_seconds, same unit
  MaxDailyLoss,    \* risk.max_daily_loss_pct, in points
  MaxDrawdown,     \* risk.max_drawdown_pct, in points
  InitialEquity,   \* risk.initial_equity
  Notional,        \* what calculate_position_size grants every signal
  MaxSignals       \* bound: signals approved in one behaviour

ASSUME FiniteKeys == IsFiniteSet(Exchanges) /\ IsFiniteSet(Symbols)
ASSUME PricesAssumption == Prices \subseteq Nat \ {0} /\ Sides \subseteq {1, -1}
ASSUME LimitsAssumption ==
  /\ MaxOpen \in Nat \ {0}
  /\ Cooldown \in Nat /\ Pause \in Nat \ {0}
  /\ MaxDailyLoss \in Nat \ {0} /\ MaxDrawdown \in Nat \ {0}
  /\ InitialEquity \in Nat \ {0} /\ Notional \in Nat \ {0}
  /\ MaxSignals \in Nat

VARIABLES
  positions,    \* _positions: a dict, so a function on the open keys only
  killed,       \* _killed
  sinceTrade,   \* age of _last_trade_time of each symbol, saturating at Cooldown
  account,      \* _equity and _circuit_breaker
  signals       \* how many signals were approved: names the position each opens

riskVars == <<positions, killed, sinceTrade, account, signals>>

Keys == Exchanges \X Symbols
SymbolOf(k) == k[2]

Position ==
  [id : 1..MaxSignals, side : Sides, entry : Prices, price : Prices]

Open == DOMAIN positions

----------------------------------------------------------------------------
(* The account. *)

Percent(pos, price) == (pos.side * (price - pos.entry) * 100) \div pos.entry

DrawdownBreached(acc) ==
  acc.peak > 0 /\ (acc.peak - acc.equity) * 100 >= MaxDrawdown * acc.peak

\* Mutant of RecordClose: a breaker already tripped keeps its first trip time.
RecordCloseTripOnce(acc, percent) ==
  LET equity == acc.equity + (percent * Notional) \div 100
      moved  == [acc EXCEPT
                   !.equity    = equity,
                   !.dailyLoss = Min({MaxDailyLoss, @ + Max({0, -percent})}),
                   !.peak      = Max({@, equity})]
      breach == moved.dailyLoss >= MaxDailyLoss \/ DrawdownBreached(moved)
  IN IF breach
     THEN [moved EXCEPT !.tripped = TRUE, !.sinceBreach = 0,
                        !.pauseLeft = IF acc.tripped THEN @ ELSE Pause]
     ELSE moved

\* close_position's bookkeeping: equity moves by the dollar result, the loss by
\* the position's own percentage, and a limit reached trips or re-trips the
\* breaker.  Nothing in the program calls reset_daily, so dailyLoss is of all the
\* days since the start or a reset.  sinceBreach is history: how long ago a close
\* last found a limit reached.
RecordClose(acc, percent) ==
  LET equity == acc.equity + (percent * Notional) \div 100
      moved  == [acc EXCEPT
                   !.equity    = equity,
                   !.dailyLoss = Min({MaxDailyLoss, @ + Max({0, -percent})}),
                   !.peak      = Max({@, equity})]
      breach == moved.dailyLoss >= MaxDailyLoss \/ DrawdownBreached(moved)
  IN IF breach
     THEN [moved EXCEPT !.tripped = TRUE, !.pauseLeft = Pause, !.sinceBreach = 0]
     ELSE moved

\* The tripped property: reading it un-trips a breaker whose pause is over.
ReadTripped(acc) ==
  IF acc.pauseLeft = 0 THEN [acc EXCEPT !.tripped = FALSE] ELSE acc

\* CircuitBreaker.reset, behind POST /risk/circuit-breaker/reset.
ResetAccount(acc) ==
  [acc EXCEPT !.tripped = FALSE, !.dailyLoss = 0, !.sinceBreach = Pause]

\* Positions closed one after the other in the order of the dict, which is the
\* order they were opened in, each at the price the function gives it.
CloseInOrder(acc, keys, priceOf) ==
  LET nth(n) == CHOOSE k \in keys :
                  Cardinality({j \in keys : positions[j].id <= positions[k].id}) = n
      after[n \in 0..Cardinality(keys)] ==
        IF n = 0 THEN acc
        ELSE RecordClose(after[n - 1], Percent(positions[nth(n)], priceOf[nth(n)]))
  IN after[Cardinality(keys)]

LastPrices == [k \in Open |-> positions[k].price]

----------------------------------------------------------------------------
(* The book. *)

Keep(keys) == [k \in Open \cap keys |-> positions[k]]

Traded(keys) ==
  [s \in Symbols |-> IF \E k \in keys : SymbolOf(k) = s THEN 0 ELSE sinceTrade[s]]

\* Mutant of Approvable: the kill switch is not looked at.
ApprovableKilled(k) ==
  /\ ~ReadTripped(account).tripped
  /\ k \notin Open
  /\ Cardinality(Open) < MaxOpen
  /\ sinceTrade[SymbolOf(k)] = Cooldown
  /\ account.equity > 0

\* Mutant of Approvable: one position too many.
ApprovableOneMore(k) ==
  /\ ~killed
  /\ ~ReadTripped(account).tripped
  /\ k \notin Open
  /\ Cardinality(Open) <= MaxOpen
  /\ sinceTrade[SymbolOf(k)] = Cooldown
  /\ account.equity > 0

\* Mutant of Approvable: the cooldown is not looked at.
ApprovableWarm(k) ==
  /\ ~killed
  /\ ~ReadTripped(account).tripped
  /\ k \notin Open
  /\ Cardinality(Open) < MaxOpen
  /\ account.equity > 0

\* The gates of approve_signal that read this state.  The others (score, risk
\* to reward, session, spread, volatility, exposure, VaR) depend on the signal:
\* they may reject any signal, which is RejectSignal.
Approvable(k) ==
  /\ ~killed
  /\ ~ReadTripped(account).tripped
  /\ k \notin Open
  /\ Cardinality(Open) < MaxOpen
  /\ sinceTrade[SymbolOf(k)] = Cooldown
  /\ account.equity > 0

OpenPosition(k, side, price, id) ==
  /\ positions' = [j \in Open \cup {k} |->
                     IF j = k
                     THEN [id |-> id, side |-> side, entry |-> price, price |-> price]
                     ELSE positions[j]]
  /\ sinceTrade' = Traded({k})

\* Mutant of ClosePositions: a close does not restart the cooldown.
ClosePositionsNoCooldown(keys, priceOf) ==
  /\ account' = CloseInOrder(account, keys, priceOf)
  /\ positions' = Keep(Keys \ keys)
  /\ UNCHANGED sinceTrade

ClosePositions(keys, priceOf) ==
  /\ account' = CloseInOrder(account, keys, priceOf)
  /\ positions' = Keep(Keys \ keys)
  /\ sinceTrade' = Traded(keys)

----------------------------------------------------------------------------
RiskInit ==
  /\ positions = <<>>
  /\ killed = FALSE
  /\ sinceTrade = [s \in Symbols |-> Cooldown]
  /\ account = [equity |-> InitialEquity, dailyLoss |-> 0, peak |-> 0,
                tripped |-> FALSE, pauseLeft |-> 0, sinceBreach |-> Pause]
  /\ signals = 0

\* approve_signal, then open_position with nothing awaited in between: the
\* contract the book is written for.
Enter(k, side, price) ==
  /\ signals < MaxSignals
  /\ Approvable(k)
  /\ account' = ReadTripped(account)
  /\ signals' = signals + 1
  /\ OpenPosition(k, side, price, signals + 1)
  /\ UNCHANGED killed

\* A rejected signal, a risk check or a snapshot: all it leaves behind is the
\* side effect of reading tripped.
ReadBreaker ==
  /\ account' = ReadTripped(account)
  /\ UNCHANGED <<positions, killed, sinceTrade, signals>>

UpdatePrice(k, price) ==
  /\ k \in Open
  /\ positions' = [positions EXCEPT ![k].price = price]
  /\ UNCHANGED <<killed, sinceTrade, account, signals>>

Close(k, price) ==
  /\ k \in Open
  /\ ClosePositions({k}, [j \in {k} |-> price])
  /\ UNCHANGED <<killed, signals>>

\* POST /positions/close-all, of one venue or of all.
CloseVenues(venues) ==
  /\ ClosePositions({k \in Open : k[1] \in venues}, LastPrices)
  /\ UNCHANGED <<killed, signals>>

ActivateKillSwitch ==
  /\ killed' = TRUE
  /\ ClosePositions(Open, LastPrices)
  /\ UNCHANGED signals

DeactivateKillSwitch ==
  /\ killed' = FALSE
  /\ UNCHANGED <<positions, sinceTrade, account, signals>>

\* POST /api/positions/close-all: activates the switch, then deactivates it.
CloseAllByKilling ==
  /\ killed' = FALSE
  /\ ClosePositions(Open, LastPrices)
  /\ UNCHANGED signals

ResetBreaker ==
  /\ account' = ResetAccount(account)
  /\ UNCHANGED <<positions, killed, sinceTrade, signals>>

\* A unit of time passes.
Older(age, limit) == IF age < limit THEN age + 1 ELSE age

PassTime ==
  /\ sinceTrade' = [s \in Symbols |-> Older(sinceTrade[s], Cooldown)]
  /\ account' = [account EXCEPT !.pauseLeft = IF @ > 0 THEN @ - 1 ELSE @,
                                !.sinceBreach = Older(@, Pause)]
  /\ UNCHANGED <<positions, killed, signals>>

RiskNext ==
  \/ \E k \in Keys, side \in Sides, price \in Prices : Enter(k, side, price)
  \/ \E k \in Keys, price \in Prices : UpdatePrice(k, price) \/ Close(k, price)
  \/ \E venues \in SUBSET Exchanges : CloseVenues(venues)
  \/ ActivateKillSwitch \/ DeactivateKillSwitch \/ CloseAllByKilling
  \/ ReadBreaker \/ ResetBreaker
  \/ PassTime

RiskSpec == RiskInit /\ [][RiskNext]_riskVars

----------------------------------------------------------------------------
(* Properties. *)

\* The shape of the book: open keys are keys, every position is a position, and
\* the ages stay within their saturation.
BookTypeOK ==
  /\ Open \subseteq Keys
  /\ positions \in [Open -> Position]
  /\ killed \in BOOLEAN
  /\ sinceTrade \in [Symbols -> 0..Cooldown]
  /\ signals \in 0..MaxSignals

AccountTypeOK ==
  /\ account.equity \in Int /\ account.peak \in Nat
  /\ account.dailyLoss \in 0..MaxDailyLoss
  /\ account.tripped \in BOOLEAN
  /\ account.pauseLeft \in 0..Pause /\ account.sinceBreach \in 0..Pause

TypeOK == BookTypeOK /\ AccountTypeOK

\* "Emergency: close all positions and block new signals": while the switch is
\* on the book is empty, whatever ran when it was thrown.
KilledMeansFlat == killed => Open = {}

\* No more than max_open_positions positions, counting every exchange.
MaxOpenRespected == Cardinality(Open) <= MaxOpen

\* After a close that finds a loss limit reached, no position opens until the
\* whole pause has passed since the last such close, or an operator reset the
\* breaker: later reads, wins and closes in between do not cut it short.
NoEntryDuringPause ==
  [][Open' \ Open # {} => account.sinceBreach = Pause]_riskVars
=============================================================================
