---------------------------- MODULE PositionStops ----------------------------
(***************************************************************************)
(* The stops of the open positions: execution/risk_manager.py sets them    *)
(* when a position opens, moves them on every tick (breakeven, trailing    *)
(* stop, time exit) and announces the exit when the price reaches one; the *)
(* dashboard moves them too.  The book, the kill switch and the breaker    *)
(* are those of RiskManager, every step of which is taken here with what   *)
(* it does to the stops.                                                   *)
(*                                                                         *)
(* Stops are in hundredths of the unit of Prices, in which the average     *)
(* true range manage_position assumes (1% of the entry) is the entry       *)
(* itself, so nothing is rounded.                                          *)
(***************************************************************************)
EXTENDS RiskManager

CONSTANTS
  EntryPrices,        \* prices signals carry; ticks carry all of Prices
  Atrs,               \* average true ranges signals carry, in hundredths
  SlTenths,           \* risk.atr_sl_multiplier, in tenths
  RewardRatio,        \* risk.rr_ratio
  FallbackTenths,     \* risk.stop_loss_pct, in tenths of a percent
  BreakevenTrigger,   \* risk.breakeven_trigger_atr
  TrailActivation,    \* risk.trailing_activation_atr
  TrailDistance,      \* risk.trailing_distance_atr
  MaxHold             \* risk.max_hold_minutes in ticks of the model, 0 is off

ASSUME StopsAssumption ==
  /\ EntryPrices \subseteq Prices /\ Atrs \subseteq Nat
  /\ {SlTenths, RewardRatio, FallbackTenths, BreakevenTrigger,
      TrailActivation, TrailDistance, MaxHold} \subseteq Nat

VARIABLE stops   \* the stop fields of every open position

stopVars == <<riskVars, stops>>

----------------------------------------------------------------------------
(* Where the stops start. *)

\* compute_atr_stops: the stop is at least the fallback away, the target is
\* measured from the distance before that.
AtrStops(side, price, atr) ==
  LET range    == IF atr > 0 THEN atr ELSE price
      distance == (range * SlTenths) \div 10
      fallback == (price * FallbackTenths) \div 10
  IN [stop   |-> price * 100 - side * Max({distance, fallback}),
      target |-> price * 100 + side * distance * RewardRatio]

NewStops(side, price, atr) ==
  LET levels == AtrStops(side, price, atr)
  IN [stop |-> levels.stop, target |-> levels.target, best |-> price,
      moved |-> FALSE, trailing |-> FALSE, held |-> 0,
      announced |-> FALSE, byHand |-> FALSE]

----------------------------------------------------------------------------
(* What a tick does to them. *)

Better(side, a, b) == IF side * (a - b) > 0 THEN a ELSE b

Reached(side, price, level) == side * (price * 100 - level) >= 0

\* Mutant of Managed: the trailing stop follows the price, not the best price.
ManagedTrailPrice(pos, s, price) ==
  LET profit    == pos.side * (price - pos.entry) * 100
      breakeven == ~s.moved /\ profit >= BreakevenTrigger * pos.entry
      start     == IF breakeven THEN pos.entry * 100 ELSE s.stop
      trail     == price * 100 - pos.side * pos.entry * TrailDistance
      trailing  == profit >= TrailActivation * pos.entry
  IN [s EXCEPT !.moved = @ \/ breakeven, !.trailing = @ \/ trailing,
               !.stop = IF trailing THEN trail ELSE start]

\* manage_position after its time check: the stop goes to the entry once the
\* breakeven trigger is reached, and follows the best price at a distance while
\* the profit is past the activation.
Managed(pos, s, price) ==
  LET profit    == pos.side * (price - pos.entry) * 100
      breakeven == ~s.moved /\ profit >= BreakevenTrigger * pos.entry
      start     == IF breakeven THEN pos.entry * 100 ELSE s.stop
      trail     == s.best * 100 - pos.side * pos.entry * TrailDistance
      trailing  == profit >= TrailActivation * pos.entry
  IN [s EXCEPT !.moved = @ \/ breakeven, !.trailing = @ \/ trailing,
               !.stop = IF trailing THEN Better(pos.side, trail, start) ELSE start]

HeldTooLong(s) == MaxHold > 0 /\ s.held = MaxHold

ExitDue(pos, s, price) ==
  \/ Reached(-pos.side, price, s.stop)
  \/ Reached(pos.side, price, s.target)

\* update_prices: a position held too long is announced and not managed.
Ticked(pos, s, price) ==
  LET seen    == [s EXCEPT !.best = Better(pos.side, price, @)]
      managed == Managed(pos, seen, price)
  IN IF HeldTooLong(s) THEN [seen EXCEPT !.announced = TRUE]
     ELSE [managed EXCEPT !.announced = @ \/ ExitDue(pos, managed, price)]

----------------------------------------------------------------------------
(* The operations. *)

\* The stops go with their position.
StopsFollow ==
  stops' = [k \in DOMAIN positions' |-> stops[k]]

OpenWithStops(k, side, price, atr) ==
  /\ Enter(k, side, price)
  /\ stops' = [j \in Open \cup {k} |-> IF j = k THEN NewStops(side, price, atr)
                                       ELSE stops[j]]

UpdatePrices(k, price) ==
  /\ UpdatePrice(k, price)
  /\ stops' = [stops EXCEPT ![k] = Ticked(positions[k], @, price)]

\* Mutant of SetBreakeven: every position is moved, the losing ones too.
SetBreakevenAll ==
  /\ stops' = [k \in Open |->
                 [stops[k] EXCEPT !.stop = positions[k].entry * 100, !.byHand = TRUE]]
  /\ UNCHANGED riskVars

\* POST /api/positions/breakeven: the stop of every position in profit goes to
\* its entry, from wherever it was, and breakeven_moved is not set.  byHand is
\* history: the operator has moved this stop.
InProfit(pos) == pos.side * (pos.price - pos.entry) > 0

SetBreakeven ==
  /\ stops' = [k \in Open |->
                 IF InProfit(positions[k])
                 THEN [stops[k] EXCEPT !.stop = positions[k].entry * 100, !.byHand = TRUE]
                 ELSE stops[k]]
  /\ UNCHANGED riskVars

GrowOlder ==
  /\ PassTime
  /\ stops' = [k \in Open |-> [stops[k] EXCEPT !.held = Older(@, MaxHold)]]

StopsInit == RiskInit /\ stops = <<>>

CloseSome ==
  \/ \E k \in Keys, price \in Prices : Close(k, price)
  \/ \E venues \in SUBSET Exchanges : CloseVenues(venues)
  \/ ActivateKillSwitch \/ CloseAllByKilling

StopsNext ==
  \/ \E k \in Keys, side \in Sides, price \in EntryPrices, atr \in Atrs :
       OpenWithStops(k, side, price, atr)
  \/ \E k \in Keys, price \in Prices : UpdatePrices(k, price)
  \/ SetBreakeven
  \/ CloseSome /\ StopsFollow
  \/ (DeactivateKillSwitch \/ ReadBreaker \/ ResetBreaker) /\ StopsFollow
  \/ GrowOlder

StopsSpec == StopsInit /\ [][StopsNext]_stopVars

----------------------------------------------------------------------------
(* Properties. *)

\* Once the best price of a position has passed the activation, its stop stays
\* within the trailing distance of that best price, wherever the price goes
\* next, unless the operator moved the stop or the position was held too long
\* to be managed.
ProfitIsLocked ==
  \A k \in Open :
    LET pos == positions[k]
        s   == stops[k]
    IN s.byHand \/ HeldTooLong(s)
       \/ pos.side * (s.best - pos.entry) * 100 < TrailActivation * pos.entry
       \/ pos.side * (s.stop - s.best * 100) + pos.entry * TrailDistance >= 0

\* A position whose last price is at or through its stop has had its exit
\* announced, whether the tick or the operator brought the two together.
CrossedStopIsAnnounced ==
  \A k \in Open :
    Reached(-positions[k].side, positions[k].price, stops[k].stop) => stops[k].announced
=============================================================================
