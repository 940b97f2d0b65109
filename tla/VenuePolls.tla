------------------------------ MODULE VenuePolls ------------------------------
(***************************************************************************)
(* FundingRateFeed and OpenInterestFeed: rounds that ask the venues, all   *)
(* at once or one after the other, and merge what came into a cache that   *)
(* forgets nothing.  A venue's answer may be late, partial or missing; the *)
(* rates of a round that hold two venues apart are announced as arbitrage. *)
(*                                                                         *)
(* The venues are external: each answers a rate, or none, for each symbol. *)
(* Symbols are named as _normalize_symbol leaves them; rates are in basis  *)
(* points.                                                                 *)
(***************************************************************************)
EXTENDS Integers, Sequences, SequencesExt, FiniteSets

CONSTANTS
  Venues,       \* the sources that are enabled
  Symbols,
  Rates,        \* rates in basis points
  MinSpread,    \* arbitrage_min_spread_bps
  HistoryMax    \* readings of open interest kept for a symbol (288)

ASSUME PollsAssumption ==
  /\ IsFiniteSet(Venues) /\ IsFiniteSet(Symbols)
  /\ Rates \subseteq Int /\ MinSpread \in Nat \ {0} /\ HistoryMax \in Nat \ {0}

VARIABLES
  polling,      \* _running
  asked,        \* venues of the round that have not answered
  round,        \* venue that has answered -> symbol -> its rate
  rateCache,    \* FundingRateFeed._cache: venue -> symbol -> rate
  announced,    \* the last round's opportunities, in order
  interest      \* OpenInterestFeed._history: lengths, with the cached reading last

pollVars == <<polling, asked, round, rateCache, announced, interest>>

NoRates == [v \in {} |-> << >>]

(* dict.update: what is new goes before what was there.                     *)
Updated(old, new) ==
  [k \in DOMAIN old \union DOMAIN new |-> IF k \in DOMAIN new THEN new[k] ELSE old[k]]

PollsInit ==
  /\ polling = TRUE /\ asked = {} /\ round = NoRates
  /\ rateCache = [v \in Venues |-> << >>]
  /\ announced = << >> /\ interest = [s \in Symbols |-> 0]

-----------------------------------------------------------------------------
(* The funding rates *)

StartRound ==
  /\ polling /\ asked = {} /\ round = NoRates
  /\ asked' = Venues /\ announced' = << >>
  /\ UNCHANGED <<polling, round, rateCache, interest>>

(* A venue answers for some symbols; what came before an error is kept, and *)
(* a source that fails gives nothing.                                       *)
VenueAnswers(v, rates) ==
  /\ v \in asked /\ asked' = asked \ {v}
  /\ round' = Updated(round, [w \in {v} |-> rates])
  /\ UNCHANGED <<polling, rateCache, announced, interest>>

Quoted(rates, s) == {v \in DOMAIN rates : s \in DOMAIN rates[v]}

(* One opportunity at most for a symbol: long where the rate is lowest and  *)
(* short where it is highest, if they are far enough apart.                 *)
Opportunity(rates, s) ==
  LET quotes == Quoted(rates, s)
      long == CHOOSE v \in quotes : \A w \in quotes : rates[v][s] <= rates[w][s]
      short == CHOOSE v \in quotes : \A w \in quotes : rates[v][s] >= rates[w][s]
  IN [symbol |-> s, long |-> long, short |-> short, spread |-> rates[short][s] - rates[long][s]]

Opportunities(rates) ==
  {o \in {Opportunity(rates, s) : s \in {x \in Symbols : Cardinality(Quoted(rates, x)) >= 2}} :
     o.spread >= MinSpread}

Cached == [v \in Venues |-> Updated(rateCache[v], round[v])]

WidestFirst(found) ==
  {s \in SetToSeqs(found) : \A m, n \in DOMAIN s : m < n => s[m].spread >= s[n].spread}

\* Mutant of Detect: over the cache and not the round.
DetectCached == WidestFirst(Opportunities(Cached))

(* The round's rates alone are compared; the widest spread comes first, and *)
(* equal ones in the order of the symbols, which is any.                    *)
Detect == WidestFirst(Opportunities(round))

EndRound ==
  /\ asked = {} /\ round # NoRates
  /\ rateCache' = Cached /\ announced' \in Detect
  /\ round' = NoRates
  /\ UNCHANGED <<polling, asked, interest>>

(* stop closes the session under the round: its requests raise.             *)
StopPolls ==
  /\ polling /\ polling' = FALSE
  /\ UNCHANGED <<asked, round, rateCache, announced, interest>>

-----------------------------------------------------------------------------
(* Open interest: a reading for a symbol, capped, the oldest dropped.       *)

ReadInterest(got) ==
  /\ polling
  /\ interest' = [s \in Symbols |-> IF s \notin got THEN interest[s]
                                    ELSE IF interest[s] < HistoryMax THEN interest[s] + 1
                                    ELSE HistoryMax]
  /\ UNCHANGED <<polling, asked, round, rateCache, announced>>

PollsNext ==
  \/ StartRound \/ EndRound \/ StopPolls
  \/ \E v \in Venues, rates \in UNION {[some -> Rates] : some \in SUBSET Symbols} : VenueAnswers(v, rates)
  \/ \E got \in SUBSET Symbols \ {{}} : ReadInterest(got)

PollsSpec == PollsInit /\ [][PollsNext]_pollVars

-----------------------------------------------------------------------------
(* What is announced is real: both rates were read in the round that has    *)
(* just ended, so the cache holds them still, at two different venues, no   *)
(* venue pays less or more, and the widest spread comes first, however many *)
(* venues failed in the round (funding_feed.py:62-92, 228-235).             *)
SpreadsAreReal ==
  [][round # NoRates /\ round' = NoRates =>
       \A n \in DOMAIN announced' :
         LET o == announced'[n] IN
         /\ o.long # o.short
         /\ {o.long, o.short} \subseteq Quoted(round, o.symbol)
         /\ o.spread = rateCache'[o.short][o.symbol] - rateCache'[o.long][o.symbol]
         /\ \A v \in Quoted(round, o.symbol) :
              round[v][o.symbol] \in round[o.long][o.symbol] .. round[o.short][o.symbol]
         /\ n > 1 => announced'[n - 1].spread >= o.spread]_pollVars
=============================================================================
