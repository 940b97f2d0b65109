----------------------------- MODULE MacroRegime -----------------------------
(***************************************************************************)
(* MacroAggregator over FedCalendar and EconomicReleases in paper mode:    *)
(* events of the week to come become signals, as what others report does,  *)
(* the last signals classify the market's regime and its risk, and both    *)
(* scale a position's size.                                                *)
(*                                                                         *)
(* A signal is its importance and its bias; time is counted in days from   *)
(* the calendars' initialisation.  Percentages stand for the factors.      *)
(***************************************************************************)
EXTENDS Integers, Sequences, SequencesExt, FiniteSets

CONSTANTS
  LastDay,      \* bound on the days that pass
  MaxPublished, \* bound on the times signals are published
  RegimeWindow, \* the last signals that are looked at, 100 in the code
  Reported,     \* what others publish at a time, a sequence of signals
  BaseSize      \* the position to be scaled, in tenths of a unit

MacroSignal == [importance : 1 .. 5, bias : {"bullish", "bearish", "neutral"}]

ASSUME MacroAssumption ==
  /\ LastDay \in Nat \ {0} /\ MaxPublished \in Nat /\ RegimeWindow \in Nat \ {0}
  /\ Reported \subseteq Seq(MacroSignal) /\ BaseSize \in Nat \ {0}

VARIABLES
  day,          \* datetime.now()
  macroSignals, \* MacroAggregator.signals
  regime,       \* current_regime
  published     \* how often signals were published

macroVars == <<day, macroSignals, regime, published>>

-----------------------------------------------------------------------------
(* The calendars of paper mode *)

FedEvents ==
  {[on |-> 30 * i, importance |-> 5, decision |-> TRUE] : i \in 1 .. 5}
    \union {[on |-> 7 + 3 * i, importance |-> 3, decision |-> FALSE] : i \in 0 .. 2}

(* Those to come, without figures until somebody fills them in.             *)
Releases ==
  {[on |-> 7 + 5 * i, importance |-> IF i \in {0, 2} THEN 5 ELSE 4] : i \in 0 .. 3}

Upcoming(events) ==
  {e \in events : e.on \in day + 1 .. day + 7 /\ e.importance >= 3}

(* In the calendar's order, which within a week is that of the dates.       *)
ByDate(events) ==
  {s \in SetToSeqs(events) : \A m, n \in DOMAIN s : m < n => s[m].on < s[n].on}

(* A decision of importance 5 is taken for bad news.                        *)
FedSignal(e) ==
  [importance |-> e.importance,
   bias |-> IF e.decision /\ e.importance >= 5 THEN "bearish" ELSE "neutral"]

(* The bias of a release: its figure above the consensus, below it, or one   *)
(* of the two missing.                                                      *)
Biases == [above |-> "bullish", below |-> "bearish", missing |-> "neutral"]
ReleaseSignal(e, figure) == [importance |-> e.importance, bias |-> Biases[figure]]

-----------------------------------------------------------------------------
(* The classification *)

Biased(s, bias) == Cardinality({n \in DOMAIN s : s[n].bias = bias})
Important(s) == Cardinality({n \in DOMAIN s : s[n].importance >= 5})
Weighty(s) == FoldLeft(LAMBDA sum, x : sum + x.importance, 0, s) >= 4 * Len(s)
Distance(a, b) == IF a < b THEN b - a ELSE a - b

(* The highest of the levels whose share of important signals is passed.    *)
RiskLevel(s) ==
  LET share == 100 * Important(s) IN
  IF share > 40 * Len(s) THEN "EXTREME"
  ELSE IF share > 25 * Len(s) THEN "HIGH"
  ELSE IF share > 10 * Len(s) THEN "MEDIUM" ELSE "LOW"

(* A share of k among n, at most nine tenths, as a fraction of per.         *)
Capped(k, n) ==
  IF 10 * k > 9 * n THEN [sure |-> 9, per |-> 10] ELSE [sure |-> k, per |-> n]

(* What the biases say and the confidence in it, before volatility is       *)
(* looked at.                                                               *)
Leaning(s) ==
  LET n == Len(s)
      bulls == Biased(s, "bullish")
      bears == Biased(s, "bearish")
  IN IF n = 0 THEN [name |-> "SIDEWAYS", sure |-> 1, per |-> 2]
     ELSE IF 10 * bulls > 6 * n /\ Weighty(s)
     THEN [name |-> "BULL", sure |-> Capped(bulls, n).sure, per |-> Capped(bulls, n).per]
     ELSE IF 10 * bears > 6 * n /\ Weighty(s)
     THEN [name |-> "BEAR", sure |-> Capped(bears, n).sure, per |-> Capped(bears, n).per]
     ELSE IF 10 * Distance(bulls, bears) < 2 * n
     THEN [name |-> "SIDEWAYS", sure |-> n - Distance(bulls, bears), per |-> n]
     ELSE [name |-> "TRANSITION", sure |-> 6, per |-> 10]

\* Mutant of Volatile: half of the signals must be important.
VolatileAtHalf(s) == 100 * Important(s) > 50 * Len(s)

Volatile(s) == 100 * Important(s) > 30 * Len(s)

(* The last signals.                                                        *)
LastSignals(s) ==
  IF Len(s) < RegimeWindow THEN s ELSE SubSeq(s, Len(s) - RegimeWindow + 1, Len(s))

(* _classify_regime over the signals s: many important ones mean volatile,  *)
(* whatever they say, and the confidence stays that of what they say.       *)
Classified(s) ==
  [name |-> IF Volatile(s) THEN "VOLATILE" ELSE Leaning(s).name,
   sure |-> Leaning(s).sure, per |-> Leaning(s).per, risk |-> RiskLevel(s)]

RiskFactor == [LOW |-> 100, MEDIUM |-> 80, HIGH |-> 50, EXTREME |-> 25]
RegimeFactor == [BULL |-> 120, BEAR |-> 60, SIDEWAYS |-> 100, VOLATILE |-> 70, TRANSITION |-> 80]

(* get_risk_adjusted_position_size as a fraction <<of, per>>.               *)
Adjusted(r) == <<BaseSize * RiskFactor[r.risk] * RegimeFactor[r.name] * r.sure, r.per>>

(* Never below a tenth of a unit, however small the base.                   *)
PositionSize(r) ==
  LET size == Adjusted(r) IN IF size[1] < 10000 * size[2] THEN <<10000, 1>> ELSE size

-----------------------------------------------------------------------------
(* Initialisation classifies before any signal has been published.          *)
MacroInit ==
  day = 0 /\ macroSignals = << >> /\ regime = Classified(<< >>) /\ published = 0

(* Events to come are published on every call, those published before too.  *)
Publishes(signals) ==
  /\ published < MaxPublished /\ published' = published + 1
  /\ macroSignals' = macroSignals \o signals
  /\ UNCHANGED <<day, regime>>

ProcessFedEvents ==
  /\ Upcoming(FedEvents) # {}
  /\ \E events \in ByDate(Upcoming(FedEvents)) :
       Publishes([n \in DOMAIN events |-> FedSignal(events[n])])

ProcessReleases ==
  /\ Upcoming(Releases) # {}
  /\ \E events \in ByDate(Upcoming(Releases)) : \E figures \in [DOMAIN events -> DOMAIN Biases] :
       Publishes([n \in DOMAIN events |-> ReleaseSignal(events[n], figures[n])])

(* publish_signal is public: others call it, several times in a row too.    *)
PublishSignals == \E signals \in Reported : Publishes(signals)

(* A call of _classify_regime after initialisation; nothing makes one yet.  *)
Classify == regime' = Classified(LastSignals(macroSignals)) /\ UNCHANGED <<day, macroSignals, published>>

DayPasses ==
  day < LastDay /\ day' = day + 1 /\ UNCHANGED <<macroSignals, regime, published>>

MacroNext ==
  ProcessFedEvents \/ ProcessReleases \/ PublishSignals \/ Classify \/ DayPasses

MacroSpec == MacroInit /\ [][MacroNext]_macroVars

-----------------------------------------------------------------------------
(* Risk reaches the size: the regime and the level are drawn from the same  *)
(* signals at thresholds of their own, and whatever these say the product   *)
(* of their factors with the confidence stays, unless it is the floor,      *)
(* within 17.5% of the base at EXTREME risk, 54% at HIGH, 86.4% at MEDIUM   *)
(* and 108% at LOW: no rise in the level is made up for by a regime that    *)
(* enlarges (macro_aggregator.py:195-290).                                  *)
RiskShrinksSize ==
  LET size == PositionSize(regime)
      AtMost(perMille) == size[1] <= perMille * 10 * BaseSize * size[2]
  IN \/ size = <<10000, 1>>
     \/ CASE regime.risk = "EXTREME" -> AtMost(175)
          [] regime.risk = "HIGH" -> AtMost(540)
          [] regime.risk = "MEDIUM" -> AtMost(864)
          [] regime.risk = "LOW" -> AtMost(1080)
=============================================================================
