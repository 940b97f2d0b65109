------------------------------ MODULE PaperTrades ------------------------------
(***************************************************************************)
(* engine/signal_validator.py: signals are graded, those that pass start   *)
(* paper trades, and the trades' profits feed the grades of the signals    *)
(* that follow.  A signal is validated once; its id is the caller's, who   *)
(* may use one again.  Scores are counted in halves of the code's points,  *)
(* one model stands for all, and quantities are one.                       *)
(***************************************************************************)
EXTENDS Integers, FiniteSets, SequencesExt

CONSTANTS
  Signals,        \* signal ids
  Confidences,    \* of 100
  MinConfidence,
  MinQuality,     \* the least quality, by name
  PaperPrices,    \* prices of the market
  RecentSignals,         \* signals that _get_recent_performance looks at
  HistoryKept,    \* maxlen of performance_history
  MaxValidated,   \* bound: signals validated
  MaxStarted      \* bound: trades started

Qualities == {"EXCELLENT", "FAIR", "GOOD", "POOR"}

ASSUME PaperAssumption ==
  /\ MinQuality \in Qualities /\ MinConfidence \in Nat /\ Confidences \subseteq Nat
  /\ {RecentSignals, HistoryKept} \subseteq Nat \ {0} /\ {MaxValidated, MaxStarted} \subseteq Nat
  /\ IsFiniteSet(Signals) /\ PaperPrices \subseteq Int

VARIABLES
  validated,    \* signals: [id, side, valid, quality], oldest first
  paperTrades,  \* paper_trades: id -> trade, NoTrade
  performance,  \* performance_history
  started       \* history: trades started

paperVars == <<validated, paperTrades, performance, started>>

NoTrade == [status |-> "NONE", entry |-> 0, unrealized |-> 0, realized |-> 0]
WithStatus(status) == {s \in Signals : paperTrades[s].status = status}

PaperInit ==
  /\ validated = << >> /\ performance = << >> /\ started = 0
  /\ paperTrades = [s \in Signals |-> NoTrade]

----------------------------------------------------------------------------
(* The grade of a signal. *)

\* The names of the qualities are compared as strings.
Alphabetical == <<"EXCELLENT", "FAIR", "GOOD", "POOR">>
Below(quality) ==
  \E i, j \in 1 .. 4 : i < j /\ Alphabetical[i] = quality /\ Alphabetical[j] = MinQuality

\* What the confidence is worth: up to two points.
Assured(confidence) ==
  CASE confidence >= 90 -> 4 [] confidence \in 70 .. 89 -> 2
    [] confidence \in 50 .. 69 -> 1 [] OTHER -> 0

\* The closed trades of the valid signals among the last ones.
Recent ==
  {s \in WithStatus("CLOSED") :
     \E i \in DOMAIN validated :
       i > Len(validated) - RecentSignals /\ validated[i].valid /\ validated[i].id = s}

\* What the share of winners is worth: above 55 of 100, above half.
Winning ==
  LET wins  == Cardinality({s \in Recent : paperTrades[s].realized > 0})
      trades == Cardinality(Recent)
  IN IF wins * 100 > trades * 55 THEN 2 ELSE IF wins * 2 > trades THEN 1 ELSE 0

\* The market's calm and its spread are worth up to a point each.
AssessQuality(confidence, calm, tight) ==
  LET score == Assured(confidence) + calm + tight + Winning
  IN CASE score >= 8 -> "EXCELLENT" [] score \in {6, 7} -> "GOOD"
       [] score \in {4, 5} -> "FAIR" [] OTHER -> "POOR"

ValidateSignal(id, side, confidence, regimeFits, calm, tight) ==
  LET quality == AssessQuality(confidence, calm, tight)
      valid   == confidence >= MinConfidence /\ regimeFits /\ ~Below(quality)
  IN /\ Len(validated) < MaxValidated
     /\ validated' = Append(validated, [id |-> id, side |-> side, valid |-> valid, quality |-> quality])
     /\ UNCHANGED <<paperTrades, performance, started>>

----------------------------------------------------------------------------
(* The trades. *)

\* A trade takes the place of the one under the same id.
StartPaperTrade(i, price) ==
  /\ i \in DOMAIN validated /\ validated[i].valid /\ ~Below(validated[i].quality)
  /\ started < MaxStarted /\ started' = started + 1
  /\ paperTrades' = [paperTrades EXCEPT ![validated[i].id] =
                       [status |-> "OPEN", entry |-> price, unrealized |-> 0, realized |-> 0]]
  /\ UNCHANGED <<validated, performance>>

\* The side of the first signal under the id, whichever the trade is of.
Direction(id) ==
  LET first == SelectInSeq(validated, LAMBDA v : v.id = id)
  IN IF first = 0 \/ validated[first].side = "long" THEN 1 ELSE -1

Profit(id, price) == (price - paperTrades[id].entry) * Direction(id)

UpdatePaperTrade(id, price) ==
  /\ paperTrades[id].status = "OPEN"
  /\ paperTrades' = [paperTrades EXCEPT ![id].unrealized = Profit(id, price)]
  /\ UNCHANGED <<validated, performance, started>>

\* Mutant of MayClose: a trade that was closed is closed again.
MayCloseAgain(id) == paperTrades[id].status # "NONE"

MayClose(id) == paperTrades[id].status = "OPEN"

Trimmed(profits) == SubSeq(profits, Len(profits) - HistoryKept + 1, Len(profits))

ClosePaperTrade(id, price) ==
  /\ MayClose(id)
  /\ paperTrades' = [paperTrades EXCEPT ![id].status = "CLOSED", ![id].realized = Profit(id, price)]
  /\ LET profits == Append(performance, Profit(id, price))
     IN performance' = IF Len(profits) > HistoryKept THEN Trimmed(profits) ELSE profits
  /\ UNCHANGED <<validated, started>>

PaperNext ==
  \/ \E id \in Signals, side \in {"long", "short"}, confidence \in Confidences,
        fits \in BOOLEAN, calm, tight \in 0 .. 2 :
       ValidateSignal(id, side, confidence, fits, calm, tight)
  \/ \E i \in 1 .. MaxValidated, price \in PaperPrices : StartPaperTrade(i, price)
  \/ \E id \in Signals, price \in PaperPrices :
       UpdatePaperTrade(id, price) \/ ClosePaperTrade(id, price)

PaperSpec == PaperInit /\ [][PaperNext]_paperVars

----------------------------------------------------------------------------
(* The book of trades and the history of profits agree, although a trade    *)
(* may be replaced under its id: no trade gives two profits, and the profit *)
(* of every closed one the history still covers is in it                    *)
(* (signal_validator.py:191-270).                                           *)
ProfitsAddUp ==
  /\ Len(performance) + Cardinality(WithStatus("OPEN")) <= started
  /\ Len(performance) < HistoryKept =>
       \A s \in WithStatus("CLOSED") : paperTrades[s].realized \in Range(performance)
=============================================================================
