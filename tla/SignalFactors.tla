----------------------------- MODULE SignalFactors -----------------------------
(***************************************************************************)
(* The six factors of SignalGenerator: the events that set four of them,   *)
(* the two scored from the candle's indicators, their weighted sum with    *)
(* its gates, and the stop and target of the signal.  Scores are counted   *)
(* in hundredths, weights in percent and stops in tenths of a percent.     *)
(*                                                                         *)
(* Which candles are scored, the interval between signals and the cap on   *)
(* active ones are the subject of MarketData.  The sources of the events   *)
(* are external: the fear and greed index, the funding rates, the          *)
(* headlines and the order books, one of each at a time or none at all.    *)
(***************************************************************************)
EXTENDS Integers, Sequences, SequencesExt, Functions, FiniteSets

CONSTANTS
  Indexes,       \* fear and greed values, of 0 .. 100
  FundingRates,  \* rates in basis points
  Headlines,     \* sentiments of headlines, of -100 .. 100
  Volumes,       \* volumes of one side of an order book
  MLScores,      \* what the heuristic model may say, of -100 .. 100
  RiskPerTrade,  \* bot configurations' risk_per_trade, in tenths of a percent
  DecayWindow,   \* steps in four decay times of the news
  MaxHeadlines   \* bound: headlines kept

ASSUME FactorsAssumption ==
  /\ Indexes \subseteq 0 .. 100 /\ Headlines \subseteq -100 .. 100
  /\ FundingRates \subseteq Int /\ Volumes \subseteq Nat /\ MLScores \subseteq -100 .. 100
  /\ RiskPerTrade \subseteq Int /\ DecayWindow \in Nat \ {0} /\ MaxHeadlines \in Nat

Weight == [technical |-> 30, ml |-> 25, sentiment |-> 10, macro |-> 10, news |-> 15, orderbook |-> 10]
Factors == DOMAIN Weight
MinScore == 6500        \* 0.65
MinFactors == 3
StopLoss == 15          \* 1.5 %
TakeProfit == 30        \* 3 %

VARIABLES
  sentiment, macro,   \* _sentiment_score and _macro_score
  headlines,          \* NewsScorer._events: [age, sentiment]
  imbalance,          \* OrderbookScorer._last_imbalance
  trading,            \* _auto_trading_enabled, and the bot's configuration
  signal              \* the signal published by the last step, if any

factorVars == <<sentiment, macro, headlines, imbalance, trading, signal>>

NoSignal == [direction |-> "none", rising |-> {}, falling |-> {}, stop |-> 0, take |-> 0]

FactorsInit ==
  /\ sentiment = 0 /\ macro = 0 /\ headlines = << >> /\ imbalance = 0
  /\ trading = [on |-> FALSE, risk |-> 20, autoStop |-> FALSE]
  /\ signal = NoSignal

ScoreRange == -100 .. 100

(* np.clip into the range of a score.                                       *)
Clip(value) == IF value \in ScoreRange THEN value ELSE IF value > 100 THEN 100 ELSE -100
Total(f) == FoldFunction(+, 0, f)
Size(value) == IF value < 0 THEN -value ELSE value

-----------------------------------------------------------------------------
(* The events *)

(* FearAndGreedFeed.fetch; nothing is published when the fetch fails, and   *)
(* the last score stays.                                                    *)
HandleSentiment(index) ==
  /\ sentiment' = 2 * (index - 50)
  /\ signal' = NoSignal /\ UNCHANGED <<macro, headlines, imbalance, trading>>

(* The mean of the rates' sizes: a macro score is never bearish.            *)
HandleFunding(rates) ==
  /\ rates # << >>
  /\ macro' = Clip(Total([i \in DOMAIN rates |-> Size(rates[i])]) \div Len(rates))
  /\ signal' = NoSignal /\ UNCHANGED <<sentiment, headlines, imbalance, trading>>

(* A headline may be older than one taken before it: the window reaches     *)
(* back from its own time.                                                  *)
HandleNews(value, age) ==
  /\ LET kept == SelectSeq(headlines, LAMBDA h : h.age <= age + DecayWindow)
     IN /\ Len(kept) < MaxHeadlines
        /\ headlines' = Append(kept, [age |-> age, sentiment |-> value])
  /\ signal' = NoSignal /\ UNCHANGED <<sentiment, macro, imbalance, trading>>

(* One imbalance for the books of all symbols.                              *)
HandleOrderbook(bid, ask) ==
  /\ imbalance' = IF bid + ask = 0 THEN 0 ELSE Clip(((bid - ask) * 100) \div (bid + ask))
  /\ signal' = NoSignal /\ UNCHANGED <<sentiment, macro, headlines, trading>>

(* Headlines are dropped by the next one only.                              *)
Age ==
  /\ \E n \in DOMAIN headlines : headlines[n].age <= DecayWindow
  /\ headlines' = [n \in DOMAIN headlines |->
                     [headlines[n] EXCEPT !.age = IF @ > DecayWindow THEN @ ELSE @ + 1]]
  /\ signal' = NoSignal /\ UNCHANGED <<sentiment, macro, imbalance, trading>>

(* set_auto_trading, with the bot's configuration or without it.            *)
SetTrading(on, risk, autoStop) ==
  /\ trading' = [on |-> on, risk |-> risk, autoStop |-> autoStop]
  /\ signal' = NoSignal /\ UNCHANGED <<sentiment, macro, headlines, imbalance>>

-----------------------------------------------------------------------------
(* The scores *)

(* The indicators' parts in tenths: RSI zones, MACD and EMA crossings or    *)
(* sides, the trend at half weight, the Bollinger bands; their mean.        *)
TechnicalScores ==
  {2 * (rsi + macd + ema + trend + bands) :
     rsi \in {10, 5, 0, -5, -10}, macd \in {10, 3, -3, -10}, ema \in {10, 2, -2, -10},
     trend \in {5, 0, -5}, bands \in {5, 0, -5}}

(* NewsScorer.score: the weights halve where the code has a power of e.     *)
(* They are divided by their sum, so one old headline counts in full.       *)
NewsScore ==
  LET weight(n) == 2 ^ (DecayWindow + 1 - headlines[n].age)
      weights == Total([n \in DOMAIN headlines |-> weight(n)])
      sum == Total([n \in DOMAIN headlines |-> weight(n) * headlines[n].sentiment])
  IN IF headlines = << >> THEN 0 ELSE Clip(sum \div weights)

ScoresOf(technical, ml) ==
  [technical |-> technical, ml |-> ml, sentiment |-> sentiment, macro |-> macro,
   news |-> NewsScore, orderbook |-> imbalance]

\* Mutant of Composite: the factors' sizes are added.
CompositeSizes(scores) ==
  Weight.technical * Size(scores.technical) + Weight.ml * Size(scores.ml)
    + Weight.sentiment * Size(scores.sentiment) + Weight.macro * Size(scores.macro)
    + Weight.news * Size(scores.news) + Weight.orderbook * Size(scores.orderbook)

Composite(scores) ==
  Weight.technical * scores.technical + Weight.ml * scores.ml
    + Weight.sentiment * scores.sentiment + Weight.macro * scores.macro
    + Weight.news * scores.news + Weight.orderbook * scores.orderbook

Active(scores) == {f \in Factors : scores[f] # 0}

Stop == IF trading.autoStop /\ trading.risk > 0 /\ trading.risk < StopLoss
        THEN trading.risk ELSE StopLoss

(* The count is of factors that are not zero, on whichever side.            *)
HandleCandle(technical, ml) ==
  LET scores == ScoresOf(technical, ml)
      composite == Composite(scores)
  IN /\ Size(composite) >= MinScore
     /\ Cardinality(Active(scores)) >= MinFactors
     /\ trading.on
     /\ signal' = [direction |-> IF composite > 0 THEN "long" ELSE "short",
                   rising |-> {f \in Factors : scores[f] > 0},
                   falling |-> {f \in Factors : scores[f] < 0},
                   stop |-> Stop, take |-> TakeProfit]
     /\ UNCHANGED <<sentiment, macro, headlines, imbalance, trading>>

FactorsNext ==
  \/ \E index \in Indexes : HandleSentiment(index)
  \/ \E first, second \in FundingRates : HandleFunding(<<first, second>>)
  \/ \E value \in Headlines, age \in 0 .. 1 : HandleNews(value, age)
  \/ \E bid, ask \in Volumes : HandleOrderbook(bid, ask)
  \/ Age
  \/ \E on, autoStop \in BOOLEAN, risk \in RiskPerTrade : SetTrading(on, risk, autoStop)
  \/ \E technical \in TechnicalScores, ml \in MLScores : HandleCandle(technical, ml)

FactorsSpec == FactorsInit /\ [][FactorsNext]_factorVars

-----------------------------------------------------------------------------
(* Every signal has at least three factors on its own side, although the    *)
(* gate counts those against it as well: no two weights reach the           *)
(* threshold; and its target is at least twice as far as its stop           *)
(* (signal_generator.py:311-341, 371-380).                                  *)
ThreeAgree ==
  signal # NoSignal =>
    /\ Cardinality(IF signal.direction = "long" THEN signal.rising ELSE signal.falling) >= MinFactors
    /\ signal.take >= 2 * signal.stop
=============================================================================
