------------------------------- MODULE Dashboard -------------------------------
(***************************************************************************)
(* The dashboard's reads: the guard that counts requests per minute, the   *)
(* caches of market coins and of candles, the books and the news kept from *)
(* the bus, and the snapshot that asks for several of them in turn.  A     *)
(* read that finds nothing recent awaits an outside source and then writes *)
(* the one cache all requests share.                                       *)
(*                                                                         *)
(* The outside sources are external: they answer, with data as of some     *)
(* moment since they were asked, or fail.  Time is counted in steps of     *)
(* Wait; a fetch is given up after FetchTimeout steps.  The guard is run   *)
(* apart from the reads, which it only keeps from beginning; its requests  *)
(* come from one address, for it keeps a window for each.                  *)
(***************************************************************************)
EXTENDS Integers, Sequences, SequencesExt, FiniteSets

CONSTANTS
  Requests,      \* requests that may be under way at once
  Pairs,         \* symbol and timeframe of candles
  Pages,         \* per_page
  Books,         \* symbols of the order books on the bus
  PartOf,        \* <<asked, held>>: the asked name is part of the held one
  MarketTTL,     \* 60 s
  CandleTTL,     \* 30 s
  FetchTimeout,  \* 8 s, 10 s
  Window,        \* 60 s
  MaxRefused,    \* bound: requests refused in a window
  Limit,         \* rate_limit_per_min, 0 for no limit
  NewsMax,       \* maxlen of _news_buffer
  MaxClock       \* bound: the last moment of the guard's clock

ASSUME DashboardAssumption ==
  /\ {MarketTTL, CandleTTL, FetchTimeout, Window, NewsMax} \subseteq Nat \ {0}
  /\ Limit \in Nat /\ MaxRefused \in Nat /\ MaxClock \in Nat /\ Pages \subseteq Nat \ {0}

VARIABLES
  market,     \* _market_cache: [count, age, since]: of the data, since its ts
  candleCache,\* _candle_cache: [key, age, since]
  books,      \* _orderbook_cache: symbols in the order of their first event
  news,       \* _news_buffer: how many items it holds
  request,    \* request -> [todo, key, page, at, waited]
  answer,     \* what the last step answered out of a cache, if it did
  clock,      \* of the guard
  window      \* ip_rate_state: [start, count]

cacheVars == <<market, candleCache, books, news, request, answer>>
guardVars == <<clock, window>>
dashVars == <<cacheVars, guardVars>>

NoKey == "no key"
NoRequest == [todo |-> << >>, key |-> NoKey, page |-> 0, at |-> "idle", waited |-> 0]
NoAnswer == [part |-> "none", key |-> NoKey, held |-> NoKey, age |-> 0]

DashInit ==
  /\ market = [count |-> 0, age |-> MarketTTL, since |-> MarketTTL]
  /\ candleCache = [key |-> NoKey, age |-> CandleTTL, since |-> CandleTTL]
  /\ books = << >> /\ news = 0
  /\ request = [r \in Requests |-> NoRequest] /\ answer = NoAnswer
  /\ clock = 0 /\ window = [start |-> -Window, count |-> 0]

-----------------------------------------------------------------------------
(* api_guard: a fixed window; refused requests are counted as well.         *)

NextWindow ==
  IF clock - window.start >= Window
  THEN [start |-> clock, count |-> 1] ELSE [window EXCEPT !.count = @ + 1]

Knock ==
  /\ Limit > 0 /\ window' = NextWindow /\ window'.count <= Limit + MaxRefused
  /\ UNCHANGED clock

-----------------------------------------------------------------------------
(* A request of one part, or a snapshot's parts one after the other.        *)

Arrive(r, parts, key, page) ==
  /\ request[r] = NoRequest
  /\ request' = [request EXCEPT ![r] =
                   [todo |-> parts, key |-> key, page |-> page, at |-> "next", waited |-> 0]]
  /\ answer' = NoAnswer
  /\ UNCHANGED <<market, candleCache, books, news>>

Wants(r, part) == request[r].at = "next" /\ Head(request[r].todo) = part

Asks(r, source) ==
  /\ request' = [request EXCEPT ![r].at = source]
  /\ answer' = NoAnswer

(* A part is answered, and the next one is begun.                           *)
AnswersWith(r, part, from, held, age) ==
  /\ request' = [request EXCEPT ![r] =
       IF Len(@.todo) = 1 THEN NoRequest
       ELSE [@ EXCEPT !.todo = Tail(request[r].todo), !.at = "next", !.waited = 0]]
  /\ answer' = IF from = "cache"
               THEN [part |-> part, key |-> request[r].key, held |-> held, age |-> age]
               ELSE NoAnswer

(* api_candles: the data manager's frames come first, the cache is next.    *)
AskCandles(r) ==
  /\ Wants(r, "candles")
  /\ \/ AnswersWith(r, "candles", "live", request[r].key, 0)
     \/ IF candleCache.key = request[r].key /\ candleCache.since < CandleTTL
        THEN AnswersWith(r, "candles", "cache", candleCache.key, candleCache.age)
        ELSE Asks(r, "klines")
  /\ UNCHANGED <<market, candleCache, books, news>>

CandlesFetched(r, age) ==
  /\ request[r].at = "klines" /\ age \in 0 .. request[r].waited
  /\ candleCache' = [key |-> request[r].key, age |-> age, since |-> request[r].waited]
  /\ AnswersWith(r, "candles", "source", request[r].key, age)
  /\ UNCHANGED <<market, books, news>>

CandlesFailed(r) ==
  /\ request[r].at = "klines"
  /\ AnswersWith(r, "candles", "nothing", NoKey, 0)
  /\ UNCHANGED <<market, candleCache, books, news>>

(* api_market: the cache knows no per_page, so a small answer's coins may   *)
(* be all that a larger request gets.                                       *)
AskMarket(r) ==
  /\ Wants(r, "market")
  /\ IF market.count > 0 /\ market.since < MarketTTL
     THEN AnswersWith(r, "market", "cache", NoKey, market.age)
     ELSE Asks(r, "coingecko")
  /\ UNCHANGED <<market, candleCache, books, news>>

\* Mutant of Kept: as old as the moment it is stored.
KeptNow(r, count, age) == [count |-> count, age |-> age, since |-> 0]

(* What is kept of a fetch: it is as old as its question, although another  *)
(* request may have stored a later one meanwhile.                           *)
Kept(r, count, age) == [count |-> count, age |-> age, since |-> request[r].waited]

MarketFetched(r, count, age) ==
  /\ request[r].at \in {"coingecko", "tickers"}
  /\ count \in 1 .. request[r].page /\ age \in 0 .. request[r].waited
  /\ market' = Kept(r, count, age)
  /\ AnswersWith(r, "market", "source", NoKey, age)
  /\ UNCHANGED <<candleCache, books, news>>

(* The first source fails and the tickers are asked; both fail, and the     *)
(* coins of any age are better than none.                                   *)
MarketFailed(r) ==
  /\ CASE request[r].at = "coingecko" ->
            request' = [request EXCEPT ![r].at = "tickers"] /\ answer' = NoAnswer
       [] request[r].at = "tickers" ->
            AnswersWith(r, "market", IF market.count > 0 THEN "stale" ELSE "nothing", NoKey, market.age)
       [] OTHER -> FALSE
  /\ UNCHANGED <<market, candleCache, books, news>>

(* api_orderbook: the first book whose name contains the asked one, of any  *)
(* age; else the exchange.                                                  *)
BookEvent(b) ==
  /\ books' = IF Contains(books, b) THEN books ELSE Append(books, b)
  /\ UNCHANGED <<market, candleCache, news, request, answer>>

AskBook(r, b) ==
  /\ Wants(r, "book")
  /\ LET held == SelectSeq(books, LAMBDA h : <<b, h>> \in PartOf)
     IN IF held # << >> THEN AnswersWith(r, "book", "event", Head(held), 0) ELSE Asks(r, "depth")
  /\ UNCHANGED <<market, candleCache, books, news>>

(* api_news: the events kept, or two sources one after the other.           *)
NewsEvent ==
  /\ news' = IF news < NewsMax THEN news + 1 ELSE news
  /\ UNCHANGED <<market, candleCache, books, request, answer>>

AskNews(r) ==
  /\ Wants(r, "news")
  /\ IF news > 0 THEN AnswersWith(r, "news", "event", NoKey, 0) ELSE Asks(r, "trending")
  /\ UNCHANGED <<market, candleCache, books, news>>

SourceAnswers(r, some) ==
  /\ request[r].at \in {"depth", "trending", "articles"}
  /\ IF request[r].at = "trending" /\ ~some
     THEN request' = [request EXCEPT ![r].at = "articles"] /\ answer' = NoAnswer
     ELSE AnswersWith(r, Head(request[r].todo), IF some THEN "source" ELSE "nothing", NoKey, 0)
  /\ UNCHANGED <<market, candleCache, books, news>>

-----------------------------------------------------------------------------
Waiting == {r \in Requests : request[r].at \notin {"idle", "next"}}
Aged(held, ttl) == [held EXCEPT !.age = IF @ < ttl THEN @ + 1 ELSE ttl,
                                !.since = IF @ < ttl THEN @ + 1 ELSE ttl]

Wait ==
  /\ \A r \in Waiting : request[r].waited < FetchTimeout
  /\ market' = Aged(market, MarketTTL) /\ candleCache' = Aged(candleCache, CandleTTL)
  /\ request' = [r \in Requests |-> IF r \in Waiting THEN [request[r] EXCEPT !.waited = @ + 1]
                                    ELSE request[r]]
  /\ answer' = NoAnswer
  /\ UNCHANGED <<books, news>>

GuardTick == clock < MaxClock /\ clock' = clock + 1 /\ UNCHANGED window

Snapshot == <<"book", "news", "candles", "market">>

ReadNext ==
  \/ \E r \in Requests :
       \/ \E key \in Pairs, page \in Pages :
            \E parts \in {<<"candles">>, <<"market">>, Snapshot} : Arrive(r, parts, key, page)
       \/ AskCandles(r) \/ CandlesFailed(r) \/ AskMarket(r) \/ MarketFailed(r) \/ AskNews(r)
       \/ \E age \in 0 .. FetchTimeout :
            \/ CandlesFetched(r, age)
            \/ \E count \in Pages : MarketFetched(r, count, age)
       \/ \E pair \in PartOf : AskBook(r, pair[1])
       \/ \E some \in BOOLEAN : SourceAnswers(r, some)
  \/ \E b \in Books : BookEvent(b)
  \/ NewsEvent \/ Wait

GuardNext == Knock \/ GuardTick

ReadSpec == DashInit /\ [][ReadNext /\ UNCHANGED guardVars]_dashVars

-----------------------------------------------------------------------------
(* What a request gets from a cache was asked for under its own key and is  *)
(* younger than the cache's time to live when it is answered, whichever of  *)
(* the requests under way stored it and in whatever order they ended        *)
(* (dashboard_api.py:490-531, 545-612).  When all sources fail the market's *)
(* old list is given back, of any age and known as such (615-617): that is  *)
(* MarketFailed, which is no answer out of a cache that is taken for fresh. *)
AnswersAreRecent ==
  answer # NoAnswer =>
    /\ answer.part = "candles" => answer.held = answer.key
    /\ answer.age < (IF answer.part = "candles" THEN CandleTTL ELSE MarketTTL)
=============================================================================
