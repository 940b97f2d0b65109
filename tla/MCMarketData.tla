---------------------------- MODULE MCMarketData ----------------------------
(***************************************************************************)
(* Market data for TLC, a scene to a behaviour: a reconnecting feed of     *)
(* ticks; candles out of ticks on the bus; the factors that score them;    *)
(* the funding and interest polls; the macro regime; the dashboard's reads *)
(* and the guard before them; and the paper trades that grade signals.     *)
(* The scenes share no state.  The timeframes are a short and a long one,  *)
(* labelled as CandleAggregator labels them.                               *)
(***************************************************************************)
EXTENDS MarketData, TickFeed, SignalFactors, VenuePolls, MacroRegime, Dashboard,
        PaperTrades

CONSTANTS btc, eth

VARIABLE scene

\* Definitions for the configuration.
MCStreams == {btc, eth}
ThreeOrTwo == {[s \in MCStreams |-> 2], [s \in MCStreams |-> IF s = btc THEN 3 ELSE 1]}
ShortAndLong == <<"1m", "2m">>
MCSeconds == [tf \in {"1m", "2m"} |-> IF tf = "1m" THEN 1 ELSE 2]
MCLabel == [tf \in {"1m", "2m"} |-> IF tf = "1m" THEN "60s" ELSE "120s"]
Signed == {-100, 100}
FundingOf == {-100, 10}
PolledRates == {0, 3}
Bullish(importance) == [importance |-> importance, bias |-> "bullish"]
Bulls == {<<Bullish(5)>>, <<Bullish(5), Bullish(5)>> \o [n \in 1 .. 5 |-> Bullish(4)]}
Within == {<<"btc", "btc">>, <<"btc", "btcx">>, <<"btcx", "btcx">>}

Interchangeable == Permutations(Requests) \cup Permutations(Signals)

SceneInit ==
  /\ scene \in {"feed", "candles", "factors", "polls", "macro", "reads", "guard",
                "paper"}
  /\ Init /\ FeedInit /\ FactorsInit /\ PollsInit /\ MacroInit /\ DashInit /\ PaperInit
  /\ scene # "feed" => format = "own"

FeedScene == scene = "feed" /\ FeedNext
             /\ UNCHANGED <<scene, vars, factorVars, pollVars, macroVars, dashVars, paperVars>>
CandleScene == scene = "candles" /\ Next
               /\ UNCHANGED <<scene, feedVars, factorVars, pollVars, macroVars, dashVars, paperVars>>
FactorScene == scene = "factors" /\ FactorsNext
               /\ UNCHANGED <<scene, vars, feedVars, pollVars, macroVars, dashVars, paperVars>>
PollScene == scene = "polls" /\ PollsNext
             /\ UNCHANGED <<scene, vars, feedVars, factorVars, macroVars, dashVars, paperVars>>
MacroScene == scene = "macro" /\ MacroNext
              /\ UNCHANGED <<scene, vars, feedVars, factorVars, pollVars, dashVars, paperVars>>
ReadScene == scene = "reads" /\ ReadNext
             /\ UNCHANGED <<scene, vars, feedVars, factorVars, pollVars, macroVars, guardVars, paperVars>>
GuardScene == scene = "guard" /\ GuardNext
              /\ UNCHANGED <<scene, vars, feedVars, factorVars, pollVars, macroVars, cacheVars, paperVars>>
PaperScene == scene = "paper" /\ PaperNext
              /\ UNCHANGED <<scene, vars, feedVars, factorVars, pollVars, macroVars, dashVars>>

SceneNext ==
  \/ FeedScene \/ CandleScene \/ FactorScene \/ PollScene \/ MacroScene
  \/ ReadScene \/ GuardScene \/ PaperScene

SceneSpec ==
  SceneInit /\ [][SceneNext]_<<scene, vars, feedVars, factorVars, pollVars, macroVars,
                               dashVars, paperVars>>
=============================================================================
