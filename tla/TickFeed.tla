------------------------------- MODULE TickFeed -------------------------------
(***************************************************************************)
(* One exchange's connection in CEXWebSocketManager: connecting and        *)
(* backing off, the messages of the trade stream, the normalizer, the      *)
(* validator with its last accepted price, and the window of trade ids     *)
(* that keeps out trades the exchange sends again after a reconnection.    *)
(*                                                                         *)
(* The exchange is external: its tape of trades grows, it sends the next   *)
(* trades in order, one message at a time, and after a reconnection it may *)
(* repeat what it sent last.  What the normalizer makes of a message       *)
(* depends on the exchange:                                                *)
(*   "own"   bybit, okx: a message holds a list of trades, each with an id *)
(*   "time"  binance: aggTrade has no "t", so the trade's time is its id   *)
(*   "none"  kraken: the id is the empty "misc" field and the message is a *)
(*           list, on which data.get raises                                *)
(* A published tick is waited for until the bus has room (MarketData).     *)
(***************************************************************************)
EXTENDS Integers, Sequences, SequencesExt, FiniteSets

CONSTANTS
  Formats,        \* subset of {"own", "time", "none"}
  TradePrices,    \* prices the exchange trades at
  MaxTrades,      \* bound: trades on the tape
  Batch,          \* trades in one message at most
  ReplayDepth,    \* how far back the exchange repeats trades
  DedupMax,       \* _dedup_max
  MaxDelay        \* cap of the reconnection delay (60 s)

ASSUME FeedAssumption ==
  /\ Formats \subseteq {"own", "time", "none"}
  /\ TradePrices \subseteq Nat \ {0}
  /\ {MaxTrades, Batch, ReplayDepth, DedupMax, MaxDelay} \subseteq Nat \ {0}

VARIABLES
  format,      \* the exchange
  tape,        \* the exchange's trades: [time, price]
  sent,        \* how many of them it has sent
  feedUp,      \* _running
  link,        \* "connecting", "streaming", "waiting" or "ended"
  delay,       \* reconnect_delay
  lastPrice,   \* TickValidator._last_prices, 0 before the first
  idOrder,     \* _seen_trade_id_order; _seen_trade_ids is its set
  ticks        \* positions on the tape of the TICK events published

feedVars == <<format, tape, sent, feedUp, link, delay, lastPrice, idOrder, ticks>>

FeedInit ==
  /\ format \in Formats
  /\ tape = << >> /\ sent = 0
  /\ feedUp = TRUE /\ link = "connecting" /\ delay = 1
  /\ lastPrice = 0 /\ idOrder = << >> /\ ticks = << >>

-----------------------------------------------------------------------------
(* The exchange *)

Trade(price, later) ==
  /\ Len(tape) < MaxTrades
  /\ LET now == IF tape = << >> THEN 1 ELSE Last(tape).time
     IN tape' = Append(tape, [time |-> IF later THEN now + 1 ELSE now, price |-> price])
  /\ UNCHANGED <<format, sent, feedUp, link, delay, lastPrice, idOrder, ticks>>

-----------------------------------------------------------------------------
(* _handle_message *)

(* validate: a price that jumps by more than a tenth is refused, and so is  *)
(* a trade older than a minute.                                             *)
Validates(trade, old) ==
  /\ ~old
  /\ \/ lastPrice = 0
     \/ 10 * (trade.price - lastPrice) \in -lastPrice .. lastPrice

(* The id a tick is known by.                                               *)
TickId(n) == IF format = "own" THEN n ELSE tape[n].time

\* Mutant of Remembered: a full window evicts the newest id.
RememberedFirst(id) ==
  LET grown == Append(idOrder, id)
  IN IF Len(grown) > DedupMax THEN Front(grown) ELSE grown

(* Evict the oldest ids beyond _dedup_max.                                  *)
Remembered(id) ==
  LET grown == Append(idOrder, id)
  IN SubSeq(grown, 1 + Len(grown) - (IF Len(grown) > DedupMax THEN DedupMax ELSE Len(grown)), Len(grown))

(* A message of trades: the normalizer reads the first and no other.  The   *)
(* validator has taken its price before the id is looked at; without an id  *)
(* the list of a kraken message raises, and the connection is left.         *)
Handle(n, old) ==
  IF ~Validates(tape[n], old)
  THEN UNCHANGED <<link, lastPrice, idOrder, ticks>>
  ELSE /\ lastPrice' = tape[n].price
       /\ CASE format = "none" ->
                 /\ link' = "waiting"
                 /\ UNCHANGED <<idOrder, ticks>>
            [] format # "none" /\ TickId(n) \in ToSet(idOrder) ->
                 UNCHANGED <<link, idOrder, ticks>>
            [] OTHER ->
                 /\ idOrder' = Remembered(TickId(n))
                 /\ ticks' = Append(ticks, n)
                 /\ UNCHANGED link

ReceiveTrades(size, old) ==
  /\ feedUp /\ link = "streaming"
  /\ size = 1 \/ format = "own"
  /\ sent + size <= Len(tape)
  /\ Handle(sent + 1, old)
  /\ sent' = sent + size
  /\ UNCHANGED <<format, tape, feedUp, delay>>

(* The exchange repeats a recent trade.                                     *)
ReceiveAgain(n) ==
  /\ feedUp /\ link = "streaming"
  /\ n \in 1 .. sent /\ n > sent - ReplayDepth
  /\ Handle(n, FALSE)
  /\ UNCHANGED <<format, tape, sent, feedUp, delay>>

-----------------------------------------------------------------------------
(* _connect_exchange *)

Connected ==
  /\ feedUp /\ link = "connecting"
  /\ link' = "streaming" /\ delay' = 1
  /\ UNCHANGED <<format, tape, sent, feedUp, lastPrice, idOrder, ticks>>

(* The connection is refused, or breaks, or ends.                           *)
LinkLost ==
  /\ feedUp /\ link \in {"connecting", "streaming"}
  /\ link' = "waiting"
  /\ UNCHANGED <<format, tape, sent, feedUp, delay, lastPrice, idOrder, ticks>>

Retry ==
  /\ feedUp /\ link = "waiting"
  /\ link' = "connecting"
  /\ delay' = IF 2 * delay < MaxDelay THEN 2 * delay ELSE MaxDelay
  /\ UNCHANGED <<format, tape, sent, feedUp, lastPrice, idOrder, ticks>>

(* stop closes the connection; a connection being made or waited for ends   *)
(* when the loop looks at _running.                                         *)
StopFeed ==
  /\ feedUp
  /\ feedUp' = FALSE /\ link' = "ended"
  /\ UNCHANGED <<format, tape, sent, delay, lastPrice, idOrder, ticks>>

FeedNext ==
  \/ \E price \in TradePrices, later \in BOOLEAN : Trade(price, later)
  \/ \E size \in 1 .. Batch, old \in BOOLEAN : ReceiveTrades(size, old)
  \/ \E n \in 1 .. MaxTrades : ReceiveAgain(n)
  \/ Connected \/ LinkLost \/ Retry \/ StopFeed

FeedSpec == FeedInit /\ [][FeedNext]_feedVars

-----------------------------------------------------------------------------
(* No trade reaches the bus twice, although the exchange repeats its last   *)
(* trades after a reconnection and the window of ids is bounded: the        *)
(* volumes of the candles count each trade once (cex_websocket.py:104-118). *)
NoTickTwice == IsInjective(ticks)
=============================================================================
