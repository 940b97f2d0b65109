---------------------------- MODULE RiskSettings ----------------------------
(***************************************************************************)
(* The limits of execution/risk_manager.py while operators change them:    *)
(* interface/routes/risk.py and interface/routes/config.py write the       *)
(* manager's fields, in dollars that are turned into parts of the equity,  *)
(* and /api/mode/toggle switches between paper and live, between any two   *)
(* awaits of the executor.  A signal is sized by the limits it finds; in   *)
(* live mode the position it becomes is booked when the exchange answers.  *)
(*                                                                         *)
(* The kill switch, the cooldown and the keys of positions are the subject *)
(* of RiskManager, where the limits are constant.  Amounts are whole, and  *)
(* percentages and parts of them are cut off towards zero.                 *)
(***************************************************************************)
EXTENDS Integers, FiniteSets, FiniteSetsExt

CONSTANTS
  Slots,          \* pairs of venue and symbol
  Capital,        \* risk.initial_equity
  StartPct,       \* risk.max_position_size_pct, in parts of ten thousand
  StartOpen,      \* risk.max_open_positions
  StartLoss,      \* risk.max_daily_loss_pct, in thousandths
  LargestFall,    \* risk.max_drawdown_pct, in thousandths
  PerTrade,       \* risk.risk_per_trade_pct, in thousandths
  Exposure,       \* risk.max_exposure_per_symbol_pct, in thousandths
  Distances,      \* of a signal's stop, in thousandths of its price
  Results,        \* percentages positions are closed at
  Amounts,        \* what operators set, in dollars
  Leverages,      \* the same, in tenths
  Counts,         \* the same, of positions
  LogMax,         \* changes kept in _CONFIG_HISTORY
  MaxEntries      \* bound: signals approved

ASSUME SettingsAssumption ==
  /\ {Capital, StartPct, StartOpen, StartLoss, LargestFall, PerTrade, Exposure,
      LogMax, MaxEntries} \subseteq Nat
  /\ Distances \subseteq Nat \ {0} /\ Results \subseteq Int
  /\ Amounts \cup Leverages \cup Counts \subseteq Nat

VARIABLES
  equity,     \* _equity
  limits,     \* _max_position_pct, _leverage, _max_open and _max_daily_loss
  loss,       \* the breaker: [counted, peak, tripped, over]; counted is _daily_loss
  book,       \* open positions: what each was sized
  order,      \* size of the live order under way, 0 if none, and its slot
  paper,      \* config.paper_mode
  routes,     \* _TRADING_MODE, the venues switched off and the length of the history
  entries,    \* signals approved
  lost,       \* history: dollars lost since the breaker was last reset
  top         \* history: highest equity since the start

bookVars == <<equity, loss, book, order, entries, lost, top>>
settingsVars == <<bookVars, limits, paper, routes>>

----------------------------------------------------------------------------
(* Sizing. *)

Clamp(low, high, x) == Max({low, Min({high, x})})

\* calculate_position_size, risk_based: what may be lost to the stop, capped by
\* the largest position.
PositionSizeOf(distance) ==
  Min({(equity * PerTrade * limits.leverage) \div (distance * 10),
       (equity * limits.pct * limits.leverage) \div 100000})

\* Mutant of ExposureFits: the leverage is not part of what is compared.
ExposureFitsUnlevered(size) == size * 10000 <= equity * Exposure * limits.leverage

\* _check_symbol_exposure, of the proposed position alone.
ExposureFits(size) == size * 1000 <= equity * Exposure

\* The gates of approve_signal that read this state.
Grants(slot, distance) ==
  /\ ~loss.tripped \/ loss.over
  /\ slot \notin DOMAIN book
  /\ Cardinality(DOMAIN book) < limits.open
  /\ PositionSizeOf(distance) > 0
  /\ ExposureFits(PositionSizeOf(distance))

\* Reading tripped after the pause un-trips the breaker.
Untripped == [loss EXCEPT !.tripped = @ /\ ~loss.over, !.over = FALSE]

----------------------------------------------------------------------------
(* Signals and closes. *)

NoOrder == [slot |-> {}, size |-> 0]

Booked(slot, size) ==
  book' = [s \in DOMAIN book \cup {slot} |-> IF s = slot THEN size ELSE book[s]]

\* approve_signal and execute_signal: paper mode books at once, live mode sends
\* an order and waits, with the size the signal was granted.
TakeSignal(slot, distance) ==
  /\ order = NoOrder /\ entries < MaxEntries
  /\ Grants(slot, distance)
  /\ loss' = Untripped
  /\ entries' = entries + 1
  /\ IF paper
     THEN Booked(slot, PositionSizeOf(distance)) /\ UNCHANGED order
     ELSE order' = [slot |-> {slot}, size |-> PositionSizeOf(distance)] /\ UNCHANGED book
  /\ UNCHANGED <<equity, limits, paper, routes, lost, top>>

\* The exchange answers: open_position, or nothing.
OrderEnds(filled) ==
  /\ order # NoOrder
  /\ order' = NoOrder
  /\ IF filled THEN \E slot \in order.slot : Booked(slot, order.size) ELSE UNCHANGED book
  /\ UNCHANGED <<equity, limits, loss, paper, routes, entries, lost, top>>

Result(size, percent) ==
  IF percent >= 0 THEN (size * percent) \div 100 ELSE - ((size * (-percent)) \div 100)

\* Mutant of Counted: wins make up for losses.
CountedNet(percent) == Max({0, loss.counted - percent})

Counted(percent) == loss.counted + Max({0, -percent})

\* close_position and record_pnl: the loss is counted in percent of the position,
\* and a limit reached trips the breaker.
CloseAt(slot, percent) ==
  LET gain   == Result(book[slot], percent)
      now    == equity + gain
      peak   == Max({loss.peak, now})
      breach == Counted(percent) * 10 >= limits.loss \/ (peak - now) * 1000 >= LargestFall * peak
  IN /\ book' = [s \in DOMAIN book \ {slot} |-> book[s]]
     /\ equity' = now
     /\ loss' = [counted |-> Counted(percent), peak |-> peak,
                 tripped |-> loss.tripped \/ breach, over |-> loss.over /\ ~breach]
     /\ lost' = lost + Max({0, -gain})
     /\ top' = Max({top, now})
     /\ UNCHANGED <<limits, order, paper, routes, entries>>

PauseEnds ==
  /\ loss.tripped /\ loss' = [loss EXCEPT !.over = TRUE]
  /\ UNCHANGED <<equity, limits, book, order, paper, routes, entries, lost, top>>

\* GET /risk/limits, /risk/margin and /config/algo take the snapshot, which reads
\* tripped.
ReadLimits ==
  /\ loss' = Untripped
  /\ UNCHANGED <<equity, limits, book, order, paper, routes, entries, lost, top>>

\* POST /risk/circuit-breaker/reset.
ResetLoss ==
  /\ loss' = [loss EXCEPT !.tripped = FALSE, !.over = FALSE, !.counted = 0]
  /\ lost' = 0
  /\ UNCHANGED <<equity, limits, book, order, paper, routes, entries, top>>

----------------------------------------------------------------------------
(* Settings. *)

Logged(settings) == [settings EXCEPT !.changes = Min({LogMax, @ + 1})]

\* POST /risk/limits: the largest position as a part of the equity, whatever the
\* leverage it is multiplied with later.
SetRiskLimits(value, leverage) ==
  /\ limits' = [limits EXCEPT
                  !.leverage = Max({1, leverage}),
                  !.pct = IF equity > 0 THEN Clamp(1, 10000, (value * 10000) \div equity) ELSE @]
  /\ UNCHANGED <<bookVars, paper, routes>>

\* POST /config/algo: here the leverage is divided out.
SetAlgoConfig(size, count, daily) ==
  /\ limits' = [limits EXCEPT
                  !.pct = IF equity > 0
                          THEN Clamp(1, 10000, (size * 10000) \div Max({1, (equity * limits.leverage) \div 10}))
                          ELSE @,
                  !.open = Max({1, count}),
                  !.loss = Clamp(1, 1000, (daily * 1000) \div Max({1, equity}))]
  /\ routes' = Logged(routes)
  /\ UNCHANGED <<bookVars, paper>>

\* POST /config/trading-mode: a mode of its own, which nothing trades by.
SetTradingMode(mode, confirmed) ==
  /\ mode = "live" => confirmed
  /\ routes' = Logged([routes EXCEPT !.mode = mode])
  /\ UNCHANGED <<bookVars, limits, paper>>

\* POST /config/venues/{venue}/toggle: what /config/venues shows.
ToggleVenue(enabled) ==
  /\ routes' = Logged([routes EXCEPT !.off = ~enabled])
  /\ UNCHANGED <<bookVars, limits, paper>>

ReloadConfig == routes' = Logged(routes) /\ UNCHANGED <<bookVars, limits, paper>>

\* POST /api/mode/toggle: the mode the next signal is executed in.
ToggleMode(mode) ==
  /\ paper' = (mode = "paper")
  /\ UNCHANGED <<bookVars, limits, routes>>

SettingsInit ==
  /\ equity = Capital /\ top = Capital /\ lost = 0
  /\ limits = [pct |-> StartPct, leverage |-> 10, open |-> StartOpen, loss |-> StartLoss]
  /\ loss = [counted |-> 0, peak |-> 0, tripped |-> FALSE, over |-> FALSE]
  /\ book = <<>> /\ order = NoOrder /\ entries = 0
  /\ paper = TRUE
  /\ routes = [mode |-> "paper", off |-> FALSE, changes |-> 0]

SettingsNext ==
  \/ \E slot \in Slots, distance \in Distances : TakeSignal(slot, distance)
  \/ \E filled \in BOOLEAN : OrderEnds(filled)
  \/ \E slot \in DOMAIN book, percent \in Results : CloseAt(slot, percent)
  \/ PauseEnds \/ ReadLimits \/ ResetLoss
  \/ \E value \in Amounts, leverage \in Leverages : SetRiskLimits(value, leverage)
  \/ \E size, daily \in Amounts, count \in Counts : SetAlgoConfig(size, count, daily)
  \/ \E mode \in {"paper", "live", "simulation"}, confirmed \in BOOLEAN : SetTradingMode(mode, confirmed)
  \/ \E enabled \in BOOLEAN : ToggleVenue(enabled)
  \/ ReloadConfig
  \/ \E mode \in {"paper", "live"} : ToggleMode(mode)

SettingsSpec == SettingsInit /\ [][SettingsNext]_settingsVars

----------------------------------------------------------------------------
\* The percentages the breaker adds up, each of one position, never understate
\* the account: what was lost since its last reset is within the exposure limit's
\* part of them, whatever limits, leverage and mode were set between a signal's
\* approval and its close (risk_manager.py:75-83, 226-231).
LossIsNotUnderstated ==
  lost * 100 * 1000 <= loss.counted * Exposure * top
=============================================================================
