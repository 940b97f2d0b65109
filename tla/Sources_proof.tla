---------------------------- MODULE Sources_proof ----------------------------
(***************************************************************************)
(* Proofs about what the program hears from outside and what it makes of   *)
(* it: a trade makes one tick; a signal has three factors on its side; the *)
(* spreads of a round are real; risk shrinks a position; what is read out  *)
(* of a cache is recent; the paper trades add up; and the breaker of the   *)
(* calls follows its failure count and closes only on a test it passed.    *)
(***************************************************************************)
EXTENDS TickFeed, SignalFactors, VenuePolls, MacroRegime, Dashboard, PaperTrades,
        CircuitBreaker, FiniteSetTheorems, SequenceTheorems, TLAPS

(* What a sequence over a set is, and that it is one over any larger set. *)
LEMMA SeqShape ==
  ASSUME NEW S, NEW s \in Seq(S)
  PROVE  /\ Len(s) \in Nat /\ s \in [1..Len(s) -> S]
         /\ \A i \in 1..Len(s) : s[i] \in S
OBVIOUS

LEMMA SeqWidens ==
  ASSUME NEW S, NEW T, S \subseteq T, NEW s \in Seq(S)
  PROVE  s \in Seq(T)
<1>1. Len(s) \in Nat /\ s \in [1..Len(s) -> T]
  BY SeqShape
<1> QED BY <1>1

----------------------------------------------------------------------------
(* TickFeed: the window of ids. *)

(* The shape of a feed: what it published it was sent. *)
FeedTypeOK ==
  /\ format \in Formats
  /\ tape \in Seq([time : Nat, price : TradePrices])
  /\ sent \in 0..Len(tape)
  /\ idOrder \in Seq(Nat)
  /\ ticks \in Seq(1..sent)

(* The window holds the ids of the newest ticks, in their order, as many as there
   are or as fit. *)
IdsFollow ==
  /\ Len(idOrder) = IF Len(ticks) < DedupMax THEN Len(ticks) ELSE DedupMax
  /\ \A k \in 1..Len(idOrder) :
       idOrder[k] = TickId(ticks[Len(ticks) - Len(idOrder) + k])

(* No tick is of a trade further back than the exchange repeats, as seen from any
   tick before it. *)
TicksNear ==
  \A i, j \in 1..Len(ticks) : i < j => ticks[j] > ticks[i] - ReplayDepth

FeedInv == FeedTypeOK /\ IdsFollow /\ TicksNear /\ NoTickTwice

(* The window's depth, next to what an exchange repeats: with less, a trade could
   outlive its id there. *)
WindowCovers == DedupMax >= 2 * ReplayDepth - 1

LEMMA FeedConstants ==
  /\ DedupMax \in Nat \ {0} /\ ReplayDepth \in Nat \ {0} /\ Batch \in Nat \ {0}
  /\ TradePrices \subseteq Nat
BY FeedAssumption

(* Handling a message publishes the tick of a trade whose id is not in the window,
   or nothing. *)
LEMMA HandleOutcome ==
  ASSUME FeedTypeOK, NEW n \in 1..Len(tape), NEW old, Handle(n, old)
  PROVE  \/ UNCHANGED <<idOrder, ticks>>
         \/ /\ idOrder' = Remembered(TickId(n)) /\ ticks' = Append(ticks, n)
            /\ TickId(n) \notin ToSet(idOrder)
BY DEF Handle

(* A trade the exchange may send, and whose id is not in the window, has made no
   tick: those published after it are distinct trades near it, and fewer than
   the window holds. *)
LEMMA NotTickedYet ==
  ASSUME FeedInv, WindowCovers, NEW n \in 1..Len(tape), n > sent - ReplayDepth,
         TickId(n) \notin ToSet(idOrder), NEW i \in 1..Len(ticks)
  PROVE  ticks[i] # n
<1> SUFFICES ASSUME ticks[i] = n PROVE FALSE
  OBVIOUS
<1> DEFINE L == Len(ticks)
<1> DEFINE M == Len(idOrder)
<1> DEFINE Near == (n - ReplayDepth + 1)..(n + ReplayDepth - 1)
<1> DEFINE f == [j \in 1..(L - i) |-> ticks[i + j]]
<1>0. /\ L \in Nat /\ M \in Nat /\ sent \in Nat /\ n \in Int /\ ReplayDepth \in Nat /\ DedupMax \in Nat
      /\ ReplayDepth > 0
  BY FeedConstants DEF FeedInv, FeedTypeOK
<1>1. \A j \in 1..L : ticks[j] \in 1..sent
  BY SMTT(30) DEF FeedInv, FeedTypeOK
<1>2. i <= L - M
  <2> SUFFICES ASSUME i > L - M PROVE FALSE
    BY <1>0
  <2>1. i - (L - M) \in 1..M /\ L - M + (i - (L - M)) = i
    BY <1>0
  <2>2. \A k \in 1..M : idOrder[k] = TickId(ticks[L - M + k])
    BY DEF FeedInv, IdsFollow
  <2>3. idOrder[i - (L - M)] = TickId(n)
    BY <2>1, <2>2
  <2>4. TickId(n) \in ToSet(idOrder)
    <3>1. 1..M \subseteq DOMAIN idOrder
      BY DEF FeedInv, FeedTypeOK
    <3> QED BY <2>1, <2>3, <3>1 DEF ToSet
  <2> QED BY <2>4
<1>3. L - i >= DedupMax
  BY <1>0, <1>2 DEF FeedInv, IdsFollow
<1>4. f \in Injection(1..(L - i), Near \ {n})
  <2>1. \A j \in 1..(L - i) : i + j \in 1..L /\ i < i + j
    BY <1>0
  <2>2. ASSUME NEW j \in 1..(L - i) PROVE ticks[i + j] \in Near \ {n}
    <3>1. ticks[i + j] # n
      BY <1>0, <2>1 DEF FeedInv, NoTickTwice, IsInjective, FeedTypeOK
    <3>2. ticks[i + j] > n - ReplayDepth
      BY <2>1 DEF FeedInv, TicksNear
    <3>3. ticks[i + j] <= sent /\ ticks[i + j] \in Int
      BY <1>1, <2>1
    <3> QED BY <1>0, <3>1, <3>2, <3>3
  <2>3. \A j, k \in 1..(L - i) : ticks[i + j] = ticks[i + k] => j = k
    <3> SUFFICES ASSUME NEW j \in 1..(L - i), NEW k \in 1..(L - i), ticks[i + j] = ticks[i + k]
                 PROVE  j = k
      OBVIOUS
    <3>1. i + j = i + k
      BY <2>1, SMTT(30) DEF FeedInv, NoTickTwice, IsInjective, FeedTypeOK
    <3> QED BY <1>0, <3>1
  <2> QED BY <2>2, <2>3, Zenon DEF Injection, IsInjective
<1>5. IsFiniteSet(Near) /\ Cardinality(Near) = 2 * ReplayDepth - 1
  <2>1. n - ReplayDepth + 1 \in Int /\ n + ReplayDepth - 1 \in Int
    BY <1>0
  <2>2. ~(n - ReplayDepth + 1 > n + ReplayDepth - 1)
        /\ (n + ReplayDepth - 1) - (n - ReplayDepth + 1) + 1 = 2 * ReplayDepth - 1
    BY <1>0
  <2> QED BY <2>1, <2>2, FS_Interval
<1>6. n \in Near
  BY <1>0
<1>7. IsFiniteSet(Near \ {n}) /\ Cardinality(Near \ {n}) = 2 * ReplayDepth - 2
  <2> HIDE DEF Near
  <2>1. /\ IsFiniteSet(Near \ {n})
        /\ Cardinality(Near \ {n}) = IF n \in Near THEN Cardinality(Near) - 1 ELSE Cardinality(Near)
    BY <1>5, FS_RemoveElement, Zenon
  <2>2. Cardinality(Near \ {n}) = (2 * ReplayDepth - 1) - 1
    BY <1>5, <1>6, <2>1
  <2> QED BY <1>0, <2>1, <2>2
<1>8. Cardinality(1..(L - i)) <= Cardinality(Near \ {n})
  <2> HIDE DEF f, Near
  <2> QED BY <1>4, <1>7, FS_Injection
<1>9. Cardinality(1..(L - i)) = L - i
  BY <1>0, <1>3, FS_Interval
<1>10. L - i <= 2 * ReplayDepth - 2
  <2> HIDE DEF L, Near
  <2> QED BY <1>7, <1>8, <1>9
<1> HIDE DEF L
<1> QED BY <1>0, <1>3, <1>10 DEF WindowCovers

(* The window after one more id. *)
LEMMA WindowMoves ==
  ASSUME FeedTypeOK, NEW id \in Nat
  PROVE  LET size == IF Len(idOrder) < DedupMax THEN Len(idOrder) + 1 ELSE DedupMax
         IN /\ Remembered(id) \in Seq(Nat)
            /\ Len(idOrder) <= DedupMax =>
                 /\ Len(Remembered(id)) = size
                 /\ Remembered(id)[size] = id
                 /\ \A k \in 1..(size - 1) :
                      Remembered(id)[k] = idOrder[Len(idOrder) + 1 - size + k]
<1> DEFINE grown == Append(idOrder, id)
<1> DEFINE first == 1 + Len(grown) - (IF Len(grown) > DedupMax THEN DedupMax ELSE Len(grown))
<1>1. /\ grown \in Seq(Nat) /\ Len(grown) = Len(idOrder) + 1 /\ Len(idOrder) \in Nat
      /\ \A k \in 1..Len(idOrder) : grown[k] = idOrder[k]
      /\ grown[Len(idOrder) + 1] = id
  BY AppendProperties DEF FeedTypeOK
<1>2. DedupMax \in Nat /\ DedupMax > 0
  BY FeedConstants
<1>3. Remembered(id) = SubSeq(grown, first, Len(grown))
  BY DEF Remembered
<1> HIDE DEF grown
<1>4. first = IF Len(idOrder) < DedupMax THEN 1 ELSE 2 + Len(idOrder) - DedupMax
  <2>1. CASE Len(idOrder) < DedupMax
    BY <1>1, <1>2, <2>1
  <2>2. CASE ~(Len(idOrder) < DedupMax)
    <3>1. Len(grown) > DedupMax
      BY <1>1, <1>2, <2>2
    <3> QED BY <1>1, <1>2, <2>2, <3>1
  <2> QED BY <2>1, <2>2
<1>5. first \in 1..Len(grown)
  <2> HIDE DEF first
  <2>1. Len(grown) = Len(idOrder) + 1 /\ Len(idOrder) \in Nat
    BY <1>1
  <2> QED BY <1>2, <1>4, <2>1
<1> HIDE DEF first
<1>6. \A k \in first..Len(grown) : grown[k] \in Nat
  BY <1>1, <1>5
<1>7. first \in Int /\ Len(grown) \in Int /\ first <= Len(grown)
  BY <1>1, <1>5
<1>8. /\ Remembered(id) \in Seq(Nat)
      /\ Len(Remembered(id)) = Len(grown) - first + 1
      /\ \A k \in 1..(Len(grown) - first + 1) : Remembered(id)[k] = grown[first + k - 1]
  BY <1>3, <1>6, <1>7, SubSeqProperties
<1>9. CASE Len(idOrder) < DedupMax
  BY <1>1, <1>2, <1>4, <1>8, <1>9
<1>10. CASE ~(Len(idOrder) < DedupMax)
  <2> SUFFICES ASSUME Len(idOrder) <= DedupMax
               PROVE  /\ Len(Remembered(id)) = DedupMax /\ Remembered(id)[DedupMax] = id
                      /\ \A k \in 1..(DedupMax - 1) : Remembered(id)[k] = idOrder[Len(idOrder) + 1 - DedupMax + k]
    BY <1>8, <1>10
  <2>1. first = 2 /\ Len(idOrder) = DedupMax /\ Len(grown) = DedupMax + 1
    BY <1>1, <1>2, <1>4, <1>10
  <2>2. /\ Len(Remembered(id)) = DedupMax
        /\ \A k \in 1..DedupMax : Remembered(id)[k] = grown[k + 1]
    <3>1. Len(grown) - first + 1 = DedupMax /\ \A k \in 1..DedupMax : first + k - 1 = k + 1
      BY <1>2, <2>1
    <3> QED BY <1>8, <3>1
  <2> QED BY <1>1, <1>2, <2>1, <2>2
<1> QED BY <1>9, <1>10

(* A tick more keeps everything: it is of a trade near the others, made by none of
   them, and its id is the newest of the window. *)
LEMMA TickPublished ==
  ASSUME FeedInv, WindowCovers, NEW n \in 1..Len(tape),
         n > sent - ReplayDepth, n <= sent',
         TickId(n) \notin ToSet(idOrder),
         idOrder' = Remembered(TickId(n)), ticks' = Append(ticks, n),
         sent' \in sent..Len(tape), UNCHANGED <<format, tape>>
  PROVE  FeedInv'
<1>0. /\ Len(ticks) \in Nat /\ Len(idOrder) \in Nat /\ sent \in Nat /\ sent' \in Nat
      /\ n \in 1..sent' /\ ReplayDepth \in Nat /\ DedupMax \in Nat /\ DedupMax > 0
  BY FeedConstants DEF FeedInv, FeedTypeOK
<1>1. \A m \in 1..Len(tape) : TickId(m) \in Nat
  <2>1. tape \in Seq([time : Nat, price : TradePrices])
    BY DEF FeedInv, FeedTypeOK
  <2>2. \A m \in 1..Len(tape) : tape[m] \in [time : Nat, price : TradePrices]
    BY <2>1, SeqShape, Zenon
  <2> QED BY <2>2 DEF TickId
<1>2. /\ ticks' \in Seq(1..sent') /\ Len(ticks') = Len(ticks) + 1
      /\ \A i \in 1..Len(ticks) : ticks'[i] = ticks[i] /\ ticks[i] \in 1..sent
      /\ ticks'[Len(ticks) + 1] = n
  <2>1. ticks \in Seq(1..sent) /\ ticks \in Seq(1..sent')
    <3>1. ticks \in Seq(1..sent) /\ 1..sent \subseteq 1..sent'
      BY <1>0 DEF FeedInv, FeedTypeOK
    <3> QED BY <3>1, SeqWidens, Zenon
  <2>2. /\ ticks' \in Seq(1..sent') /\ Len(ticks') = Len(ticks) + 1
        /\ \A i \in 1..Len(ticks) : ticks'[i] = ticks[i]
        /\ ticks'[Len(ticks) + 1] = n
    BY <1>0, <2>1, AppendProperties
  <2> QED BY <2>1, <2>2, SeqShape, Zenon
<1>3. FeedTypeOK'
  <2>1. idOrder' \in Seq(Nat)
    BY <1>1, WindowMoves DEF FeedInv
  <2> QED BY <1>0, <1>2, <2>1 DEF FeedInv, FeedTypeOK
<1>4. IdsFollow'
  <2> DEFINE size == IF Len(idOrder) < DedupMax THEN Len(idOrder) + 1 ELSE DedupMax
  <2>1. Len(idOrder) <= DedupMax
    BY <1>0 DEF FeedInv, IdsFollow
  <2>2. /\ Len(idOrder') = size /\ idOrder'[size] = TickId(n)
        /\ \A k \in 1..(size - 1) : idOrder'[k] = idOrder[Len(idOrder) + 1 - size + k]
    BY <1>1, <2>1, WindowMoves, Zenon DEF FeedInv
  <2>3. \A m : TickId(m)' = TickId(m)
    BY DEF TickId
  <2>4. size = IF Len(ticks') < DedupMax THEN Len(ticks') ELSE DedupMax
    BY <1>0, <1>2 DEF FeedInv, IdsFollow
  <2>5. ASSUME NEW k \in 1..size PROVE idOrder'[k] = TickId(ticks'[Len(ticks') - size + k])
    <3>1. CASE k = size
      BY <1>0, <1>2, <2>2, <3>1
    <3>2. CASE k # size
      <4>0. /\ Len(idOrder) = IF Len(ticks) < DedupMax THEN Len(ticks) ELSE DedupMax
            /\ k \in 1..(size - 1) /\ Len(ticks') = Len(ticks) + 1
        BY <1>0, <1>2, <3>2 DEF FeedInv, IdsFollow
      <4>1. /\ Len(idOrder) + 1 - size + k \in 1..Len(idOrder)
            /\ Len(ticks') - size + k \in 1..Len(ticks)
            /\ Len(ticks) - Len(idOrder) + (Len(idOrder) + 1 - size + k) = Len(ticks') - size + k
        <5>1. CASE Len(ticks) < DedupMax
          <6>1. size = Len(ticks) + 1 /\ Len(idOrder) = Len(ticks)
            BY <1>0, <2>4, <4>0, <5>1
          <6> HIDE DEF size
          <6>2. k \in 1..Len(ticks) /\ Len(ticks') = Len(ticks) + 1
            BY <1>0, <4>0, <6>1
          <6>3. /\ Len(idOrder) + 1 - size + k = k /\ Len(ticks') - size + k = k
                /\ Len(ticks) - Len(idOrder) + k = k
            BY <1>0, <6>1, <6>2
          <6> QED BY <6>1, <6>2, <6>3
        <5>2. CASE ~(Len(ticks) < DedupMax)
          <6>1. size = DedupMax /\ Len(idOrder) = DedupMax
            <7> HIDE DEF size
            <7>1. Len(idOrder) = DedupMax
              BY <4>0, <5>2
            <7>2. Len(ticks') = Len(ticks) + 1 /\ ~(Len(ticks') < DedupMax)
              BY <1>0, <4>0, <5>2
            <7> QED BY <2>4, <7>1, <7>2
          <6> HIDE DEF size
          <6> QED BY <1>0, <4>0, <5>2, <6>1
        <5> QED BY <5>1, <5>2
      <4>2. \A q \in 1..Len(idOrder) : idOrder[q] = TickId(ticks[Len(ticks) - Len(idOrder) + q])
        BY DEF FeedInv, IdsFollow
      <4>3. idOrder[Len(idOrder) + 1 - size + k] = TickId(ticks[Len(ticks') - size + k])
        BY <4>1, <4>2
      <4> QED BY <1>2, <2>2, <4>0, <4>1, <4>3, Zenon
    <3> QED BY <3>1, <3>2, Zenon
  <2> HIDE DEF size
  <2> QED BY <2>2, <2>3, <2>4, <2>5 DEF IdsFollow
<1>5. TicksNear'
  <2> SUFFICES ASSUME NEW i \in 1..Len(ticks'), NEW j \in 1..Len(ticks'), i < j
               PROVE  ticks'[j] > ticks'[i] - ReplayDepth
    BY DEF TicksNear
  <2>1. i \in 1..Len(ticks)
    BY <1>0, <1>2
  <2>2. CASE j \in 1..Len(ticks)
    BY <1>2, <2>1, <2>2 DEF FeedInv, TicksNear
  <2>3. CASE j = Len(ticks) + 1
    <3>1. ticks'[i] \in Int /\ ticks'[i] <= sent /\ ticks'[j] = n
      BY <1>2, <2>1, <2>3
    <3> QED BY <1>0, <3>1
  <2> QED BY <1>0, <1>2, <2>2, <2>3
<1>6. NoTickTwice'
  <2>1. \A i \in 1..Len(ticks) : ticks[i] # n
    BY NotTickedYet
  <2> QED BY <1>0, <1>2, <2>1, SMTT(30) DEF FeedInv, FeedTypeOK, NoTickTwice, IsInjective
<1> QED BY <1>3, <1>4, <1>5, <1>6 DEF FeedInv

(* Messages without a tick, and everything else, move nothing the window is about. *)
LEMMA FeedUndisturbed ==
  ASSUME FeedInv, tape' \in Seq([time : Nat, price : TradePrices]),
         Len(tape') >= Len(tape), \A m \in 1..Len(tape) : tape'[m] = tape[m],
         sent' \in sent..Len(tape'), UNCHANGED <<format, idOrder, ticks>>
  PROVE  FeedInv'
<1>1. /\ \A i \in 1..Len(ticks) : ticks[i] \in 1..Len(tape) /\ ticks[i] \in 1..sent
      /\ Len(ticks) \in Nat /\ Len(idOrder) \in Nat /\ sent \in Nat /\ Len(tape) \in Nat
  <2>1. ticks \in Seq(1..sent) /\ sent \in 0..Len(tape) /\ Len(tape) \in Nat /\ idOrder \in Seq(Nat)
    BY DEF FeedInv, FeedTypeOK
  <2>2. /\ Len(ticks) \in Nat /\ Len(idOrder) \in Nat /\ \A i \in 1..Len(ticks) : ticks[i] \in 1..sent
    BY <2>1, SeqShape
  <2>3. sent \in Nat /\ 1..sent \subseteq 1..Len(tape)
    BY <2>1
  <2> QED BY <2>1, <2>2, <2>3
<1>2. FeedTypeOK'
  <2>1. ticks \in Seq(1..sent')
    <3>1. ticks \in Seq(1..sent) /\ 1..sent \subseteq 1..sent'
      BY <1>1 DEF FeedInv, FeedTypeOK
    <3> QED BY <3>1, SeqWidens, Zenon
  <2> QED BY <1>1, <2>1 DEF FeedInv, FeedTypeOK
<1>3. IdsFollow'
  <2>1. \A m \in 1..Len(tape) : TickId(m)' = TickId(m)
    BY DEF TickId
  <2>2. \A k \in 1..Len(idOrder) : Len(ticks) - Len(idOrder) + k \in 1..Len(ticks)
    BY <1>1, FeedConstants DEF FeedInv, IdsFollow
  <2> QED BY <1>1, <2>1, <2>2 DEF FeedInv, IdsFollow
<1>4. TicksNear' /\ NoTickTwice'
  BY Zenon DEF FeedInv, TicksNear, NoTickTwice
<1> QED BY <1>2, <1>3, <1>4 DEF FeedInv

LEMMA FeedStep == WindowCovers /\ FeedInv /\ [FeedNext]_feedVars => FeedInv'
<1> SUFFICES ASSUME WindowCovers, FeedInv, [FeedNext]_feedVars PROVE FeedInv'
  OBVIOUS
<1>0. /\ tape \in Seq([time : Nat, price : TradePrices]) /\ Len(tape) \in Nat
      /\ sent \in 0..Len(tape) /\ Batch \in Nat /\ ReplayDepth \in Nat /\ ReplayDepth > 0
  BY FeedConstants DEF FeedInv, FeedTypeOK
<1>1. ASSUME NEW price \in TradePrices, NEW later \in BOOLEAN, Trade(price, later)
      PROVE  FeedInv'
  <2> DEFINE now == IF tape = << >> THEN 1 ELSE Last(tape).time
  <2> DEFINE new == [time |-> IF later THEN now + 1 ELSE now, price |-> price]
  <2>1. now \in Nat
    <3>1. tape # << >> => Len(tape) \in 1..Len(tape)
      BY <1>0, EmptySeq
    <3>2. tape # << >> => Last(tape) \in [time : Nat, price : TradePrices]
      BY <1>0, <3>1, SeqShape, Zenon DEF Last
    <3> QED BY <3>2
  <2>2. new \in [time : Nat, price : TradePrices]
    BY <2>1
  <2>3. tape' = Append(tape, new)
    BY <1>1 DEF Trade
  <2> HIDE DEF new
  <2>4. /\ tape' \in Seq([time : Nat, price : TradePrices]) /\ Len(tape') = Len(tape) + 1
        /\ \A m \in 1..Len(tape) : tape'[m] = tape[m]
    BY <1>0, <2>2, <2>3, AppendProperties
  <2>5. UNCHANGED <<format, sent, idOrder, ticks>>
    BY <1>1 DEF Trade
  <2> QED BY <1>0, <2>4, <2>5, FeedUndisturbed
<1>2. ASSUME NEW size \in 1..Batch, NEW old \in BOOLEAN, ReceiveTrades(size, old)
      PROVE  FeedInv'
  <2>1. /\ sent + 1 \in 1..Len(tape) /\ sent' \in sent..Len(tape) /\ sent + 1 <= sent'
        /\ Handle(sent + 1, old) /\ UNCHANGED <<format, tape>>
    BY <1>0, <1>2 DEF ReceiveTrades
  <2>2. CASE UNCHANGED <<idOrder, ticks>>
    BY <1>0, <2>1, <2>2, FeedUndisturbed
  <2>3. CASE ~UNCHANGED <<idOrder, ticks>>
    <3>1. /\ idOrder' = Remembered(TickId(sent + 1)) /\ ticks' = Append(ticks, sent + 1)
          /\ TickId(sent + 1) \notin ToSet(idOrder)
      BY <2>1, <2>3, HandleOutcome DEF FeedInv
    <3>2. sent + 1 > sent - ReplayDepth
      BY <1>0
    <3> QED BY <2>1, <3>1, <3>2, TickPublished
  <2> QED BY <2>2, <2>3
<1>3. ASSUME NEW n \in 1..MaxTrades, ReceiveAgain(n) PROVE FeedInv'
  <2>1. /\ n \in 1..sent /\ n > sent - ReplayDepth /\ sent' = sent
        /\ Handle(n, FALSE) /\ UNCHANGED <<format, tape>>
    BY <1>3, Zenon DEF ReceiveAgain
  <2>2. n \in 1..Len(tape) /\ n <= sent' /\ sent' \in sent..Len(tape)
    BY <1>0, <2>1
  <2>3. CASE UNCHANGED <<idOrder, ticks>>
    BY <1>0, <2>1, <2>2, <2>3, FeedUndisturbed
  <2>4. CASE ~UNCHANGED <<idOrder, ticks>>
    <3>1. /\ idOrder' = Remembered(TickId(n)) /\ ticks' = Append(ticks, n)
          /\ TickId(n) \notin ToSet(idOrder)
      BY <2>1, <2>2, <2>4, HandleOutcome, Zenon DEF FeedInv
    <3> QED BY <2>1, <2>2, <3>1, TickPublished
  <2> QED BY <2>3, <2>4
<1>4. ASSUME UNCHANGED <<format, tape, sent, idOrder, ticks>> PROVE FeedInv'
  BY <1>0, <1>4, FeedUndisturbed
<1>5. CASE Connected \/ LinkLost \/ Retry \/ StopFeed \/ UNCHANGED feedVars
  BY <1>4, <1>5 DEF Connected, LinkLost, Retry, StopFeed, feedVars
<1> QED BY <1>1, <1>2, <1>3, <1>5 DEF FeedNext

(* No trade makes two ticks, for any tape, any replays after reconnections and any
   kind of ids, as long as the window holds the ids of all the trades an exchange
   may repeat and of those it may have sent since: 2 * ReplayDepth - 1 of them,
   where the program keeps ten thousand. *)
THEOREM TicksOnce == ASSUME WindowCovers PROVE FeedSpec => []NoTickTwice
<1>1. FeedInit => FeedInv
  <2> SUFFICES ASSUME FeedInit PROVE FeedInv
    OBVIOUS
  <2>1. FeedTypeOK /\ Len(ticks) = 0 /\ Len(idOrder) = 0
    BY DEF FeedInit, FeedTypeOK
  <2> QED BY <2>1, FeedConstants
          DEF FeedInit, FeedInv, FeedTypeOK, IdsFollow, TicksNear, NoTickTwice, IsInjective
<1>2. FeedInv => NoTickTwice
  BY DEF FeedInv
<1> QED BY <1>1, <1>2, FeedStep, PTL DEF FeedSpec

----------------------------------------------------------------------------
(* SignalFactors: the gates of a signal. *)

FactorNames == {"technical", "ml", "sentiment", "macro", "news", "orderbook"}

FactorsShape ==
  /\ sentiment \in ScoreRange /\ macro \in ScoreRange /\ imbalance \in ScoreRange
  /\ trading \in [on : BOOLEAN, risk : Int, autoStop : BOOLEAN]

LEMMA Clipped == \A value : Clip(value) \in ScoreRange
BY DEF Clip, ScoreRange

LEMMA SixFactors == Factors = FactorNames /\ IsFiniteSet(Factors)
<1>1. Factors = FactorNames
  BY DEF Factors, Weight, FactorNames
<1>2. /\ IsFiniteSet({"technical"}) /\ IsFiniteSet({"ml"}) /\ IsFiniteSet({"sentiment"})
      /\ IsFiniteSet({"macro"}) /\ IsFiniteSet({"news"}) /\ IsFiniteSet({"orderbook"})
  BY FS_Singleton, Zenon
<1>3. /\ IsFiniteSet({"technical"} \cup {"ml"}) /\ IsFiniteSet({"sentiment"} \cup {"macro"})
      /\ IsFiniteSet({"news"} \cup {"orderbook"})
  BY <1>2, FS_Union, Zenon
<1>4. IsFiniteSet(({"technical"} \cup {"ml"}) \cup ({"sentiment"} \cup {"macro"}))
  BY <1>3, FS_Union, Zenon
<1>5. IsFiniteSet((({"technical"} \cup {"ml"}) \cup ({"sentiment"} \cup {"macro"}))
                    \cup ({"news"} \cup {"orderbook"}))
  BY <1>3, <1>4, FS_Union, Zenon
<1>6. FactorNames = (({"technical"} \cup {"ml"}) \cup ({"sentiment"} \cup {"macro"}))
                      \cup ({"news"} \cup {"orderbook"})
  BY DEF FactorNames
<1> QED BY <1>1, <1>5, <1>6

(* Three different elements make three at least. *)
LEMMA ThreeElements ==
  ASSUME NEW S, IsFiniteSet(S), NEW a \in S, NEW b \in S, NEW c \in S,
         a # b, a # c, b # c
  PROVE  Cardinality(S) >= 3
<1>1. IsFiniteSet({a}) /\ Cardinality({a}) = 1
  BY FS_Singleton, Zenon
<1>2. IsFiniteSet({a} \cup {b}) /\ Cardinality({a} \cup {b}) = 2
  <2>1. /\ IsFiniteSet({a} \cup {b})
        /\ Cardinality({a} \cup {b}) = IF b \in {a} THEN Cardinality({a}) ELSE Cardinality({a}) + 1
    BY <1>1, FS_AddElement
  <2>2. Cardinality({a} \cup {b}) = 1 + 1
    BY <1>1, <2>1
  <2> QED BY <2>1, <2>2
<1>3. /\ IsFiniteSet(({a} \cup {b}) \cup {c})
      /\ Cardinality(({a} \cup {b}) \cup {c}) = 3
  <2> DEFINE pair == {a} \cup {b}
  <2>1. IsFiniteSet(pair) /\ Cardinality(pair) = 2 /\ c \notin pair
    BY <1>2
  <2> HIDE DEF pair
  <2>2. /\ IsFiniteSet(pair \cup {c})
        /\ Cardinality(pair \cup {c}) = IF c \in pair THEN Cardinality(pair) ELSE Cardinality(pair) + 1
    BY <2>1, FS_AddElement
  <2>3. Cardinality(pair \cup {c}) = 2 + 1
    BY <2>1, <2>2
  <2> QED BY <2>2, <2>3 DEF pair
<1>4. ({a} \cup {b}) \cup {c} \in SUBSET S
  OBVIOUS
<1>5. Cardinality(S) \in Nat
  BY FS_CardinalityType
<1> QED BY <1>3, <1>4, <1>5, FS_Subset

(* No two weights reach the threshold: a weighted sum that does has three factors
   on its side. *)
LEMMA ThreePush ==
  ASSUME NEW push, \A f \in FactorNames : push[f] \in ScoreRange,
         30 * push["technical"] + 25 * push["ml"] + 10 * push["sentiment"]
           + 10 * push["macro"] + 15 * push["news"] + 10 * push["orderbook"] >= 6500
  PROVE  \E a, b, c \in FactorNames :
           /\ a # b /\ a # c /\ b # c
           /\ push[a] > 0 /\ push[b] > 0 /\ push[c] > 0
<1>0. \A f \in FactorNames : push[f] \in Int /\ push[f] <= 100
  BY DEF ScoreRange
<1>1. PICK a \in FactorNames : push[a] > 0
  BY <1>0 DEF FactorNames
<1>2. PICK b \in FactorNames \ {a} : push[b] > 0
  BY <1>0, <1>1 DEF FactorNames
<1>3. PICK c \in FactorNames \ {a, b} : push[c] > 0
  BY <1>0, <1>1, <1>2 DEF FactorNames
<1> QED BY <1>1, <1>2, <1>3

(* The stop of a signal is never wider than the default. *)
LEMMA StopsNear == FactorsShape => Stop \in Int /\ TakeProfit >= 2 * Stop
BY DEF FactorsShape, Stop, StopLoss, TakeProfit

(* The gates of _handle_candle: the side a signal takes has three factors, and its
   target is twice as far as its stop. *)
LEMMA SignalGated ==
  ASSUME FactorsShape, NEW technical \in TechnicalScores, NEW ml \in MLScores,
         HandleCandle(technical, ml)
  PROVE  ThreeAgree'
<1> DEFINE scores == ScoresOf(technical, ml)
<1>1. technical \in ScoreRange /\ ml \in ScoreRange
  <2>1. technical \in ScoreRange
    BY DEF TechnicalScores, ScoreRange
  <2> QED BY <2>1, FactorsAssumption DEF ScoreRange
<1>2. NewsScore \in ScoreRange
  <2>1. NewsScore = 0 \/ \E value : NewsScore = Clip(value)
    BY DEF NewsScore
  <2> QED BY <2>1, Clipped DEF ScoreRange
<1>3. \A f \in FactorNames : scores[f] \in ScoreRange
  BY <1>1, <1>2 DEF ScoresOf, FactorNames, FactorsShape
<1>4. /\ signal'.rising = {f \in Factors : scores[f] > 0}
      /\ signal'.falling = {f \in Factors : scores[f] < 0}
      /\ signal'.direction = IF Composite(scores) > 0 THEN "long" ELSE "short"
      /\ signal'.stop = Stop /\ signal'.take = TakeProfit
      /\ Size(Composite(scores)) >= 6500
  BY DEF HandleCandle, MinScore
<1>5. /\ Composite(scores) = 30 * scores["technical"] + 25 * scores["ml"] + 10 * scores["sentiment"]
                              + 10 * scores["macro"] + 15 * scores["news"] + 10 * scores["orderbook"]
      /\ Composite(scores) \in Int
  <2> HIDE DEF scores
  <2>1. \A f \in FactorNames : scores[f] \in Int
    BY <1>3 DEF ScoreRange
  <2> QED BY <2>1 DEF Composite, Weight, FactorNames
<1> HIDE DEF scores
<1>6. CASE Composite(scores) > 0
  <2>1. Composite(scores) >= 6500
    BY <1>4, <1>5, <1>6 DEF Size
  <2>2. PICK a, b, c \in FactorNames :
          /\ a # b /\ a # c /\ b # c
          /\ scores[a] > 0 /\ scores[b] > 0 /\ scores[c] > 0
    BY <1>3, <1>5, <2>1, ThreePush
  <2>3. IsFiniteSet(signal'.rising) /\ {a, b, c} \subseteq signal'.rising
    BY <1>4, <2>2, SixFactors, FS_Subset
  <2>4. Cardinality(signal'.rising) >= 3
    BY <2>2, <2>3, ThreeElements
  <2> QED BY <1>4, <1>6, <2>4, StopsNear DEF ThreeAgree, MinFactors
<1>7. CASE ~(Composite(scores) > 0)
  <2> DEFINE push == [f \in FactorNames |-> -scores[f]]
  <2>1. Composite(scores) <= -6500
    BY <1>4, <1>5, <1>7 DEF Size
  <2>2. /\ \A f \in FactorNames : push[f] \in ScoreRange /\ scores[f] \in Int
        /\ push["technical"] = -scores["technical"] /\ push["ml"] = -scores["ml"]
        /\ push["sentiment"] = -scores["sentiment"] /\ push["macro"] = -scores["macro"]
        /\ push["news"] = -scores["news"] /\ push["orderbook"] = -scores["orderbook"]
    BY <1>3, SMTT(30) DEF ScoreRange, FactorNames
  <2>3. 30 * push["technical"] + 25 * push["ml"] + 10 * push["sentiment"]
          + 10 * push["macro"] + 15 * push["news"] + 10 * push["orderbook"] >= 6500
    BY <1>5, <2>1, <2>2 DEF FactorNames
  <2> HIDE DEF push
  <2>4. PICK a, b, c \in FactorNames :
          /\ a # b /\ a # c /\ b # c
          /\ push[a] > 0 /\ push[b] > 0 /\ push[c] > 0
    BY <2>2, <2>3, ThreePush
  <2>5. scores[a] < 0 /\ scores[b] < 0 /\ scores[c] < 0
    BY <2>2, <2>4 DEF push
  <2>6. IsFiniteSet(signal'.falling) /\ {a, b, c} \subseteq signal'.falling
    BY <1>4, <2>4, <2>5, SixFactors, FS_Subset
  <2>7. Cardinality(signal'.falling) >= 3
    BY <2>4, <2>6, ThreeElements
  <2> QED BY <1>4, <1>7, <2>7, StopsNear DEF ThreeAgree, MinFactors
<1> QED BY <1>6, <1>7

(* Every signal the generator publishes has three factors on its side and a target
   twice as far as its stop, whatever the six scores are within their range. *)
THEOREM SignalsAgree == FactorsSpec => []ThreeAgree
<1> DEFINE Inv == FactorsShape /\ ThreeAgree
<1>1. FactorsInit => Inv
  BY DEF FactorsInit, FactorsShape, ThreeAgree, ScoreRange
<1>2. ASSUME Inv, [FactorsNext]_factorVars PROVE Inv'
  <2>1. ASSUME NEW index \in Indexes, HandleSentiment(index) PROVE Inv'
    <3>1. index \in 0..100
      BY FactorsAssumption
    <3>2. 2 * (index - 50) \in ScoreRange
      BY <3>1 DEF ScoreRange
    <3> QED BY <1>2, <2>1, <3>2 DEF HandleSentiment, FactorsShape, ThreeAgree
  <2>2. ASSUME NEW first \in FundingRates, NEW second \in FundingRates,
               HandleFunding(<<first, second>>)
        PROVE  Inv'
    BY <1>2, <2>2, Clipped DEF HandleFunding, FactorsShape, ThreeAgree
  <2>3. ASSUME NEW value \in Headlines, NEW age \in 0..1, HandleNews(value, age)
        PROVE  Inv'
    BY <1>2, <2>3 DEF HandleNews, FactorsShape, ThreeAgree
  <2>4. ASSUME NEW bid \in Volumes, NEW ask \in Volumes, HandleOrderbook(bid, ask)
        PROVE  Inv'
    <3>1. imbalance' = 0 \/ \E value : imbalance' = Clip(value)
      BY <2>4 DEF HandleOrderbook
    <3>2. imbalance' \in ScoreRange
      BY <3>1, Clipped DEF ScoreRange
    <3> QED BY <1>2, <2>4, <3>2 DEF HandleOrderbook, FactorsShape, ThreeAgree
  <2>5. CASE Age
    BY <1>2, <2>5 DEF Age, FactorsShape, ThreeAgree
  <2>6. ASSUME NEW on \in BOOLEAN, NEW autoStop \in BOOLEAN, NEW risk \in RiskPerTrade,
               SetTrading(on, risk, autoStop)
        PROVE  Inv'
    <3>1. risk \in Int
      BY FactorsAssumption
    <3> QED BY <1>2, <2>6, <3>1 DEF SetTrading, FactorsShape, ThreeAgree
  <2>7. ASSUME NEW technical \in TechnicalScores, NEW ml \in MLScores,
               HandleCandle(technical, ml)
        PROVE  Inv'
    <3>1. ThreeAgree'
      BY <1>2, <2>7, SignalGated
    <3> QED BY <1>2, <2>7, <3>1 DEF HandleCandle, FactorsShape
  <2>8. CASE UNCHANGED factorVars
    BY <1>2, <2>8 DEF factorVars, FactorsShape, ThreeAgree
  <2> QED BY <1>2, <2>1, <2>2, <2>3, <2>4, <2>5, <2>6, <2>7, <2>8, Zenon DEF FactorsNext
<1> QED BY <1>1, <1>2, PTL DEF FactorsSpec

----------------------------------------------------------------------------
(* VenuePolls: the opportunities of a round. *)

SymbolRates == UNION {[some -> Rates] : some \in SUBSET Symbols}

(* A round holds rates of the venues asked. *)
RoundInv ==
  /\ asked \subseteq Venues
  /\ DOMAIN round \subseteq Venues
  /\ \A v \in DOMAIN round : round[v] \in SymbolRates

(* A set of naturals has a least element, and a finite set of rates a lowest and a
   highest. *)
LEMMA LeastNatural ==
  ASSUME NEW S, S \subseteq Nat, S # {}
  PROVE  \E n \in S : \A m \in S : n <= m
<1>1. PICK x \in S : \A y \in S : ~(<<y, x>> \in OpToRel(<, Nat))
  BY NatLessThanWellFounded, WFMin, Zenon
<1>2. \A y \in S : ~(y < x)
  BY <1>1, Zenon DEF OpToRel
<1> QED BY <1>2

LEMMA LowestOfMany ==
  ASSUME NEW Q, IsFiniteSet(Q), Q # {}, NEW rate, \A v \in Q : rate[v] \in Int
  PROVE  \E v \in Q : \A w \in Q : rate[v] <= rate[w]
<1> DEFINE below(v) == {w \in Q : rate[w] < rate[v]}
<1> DEFINE counts == {Cardinality(below(v)) : v \in Q}
<1>1. \A v \in Q : IsFiniteSet(below(v)) /\ Cardinality(below(v)) \in Nat
  <2> SUFFICES ASSUME NEW v \in Q PROVE IsFiniteSet(below(v)) /\ Cardinality(below(v)) \in Nat
    OBVIOUS
  <2>1. below(v) \in SUBSET Q
    OBVIOUS
  <2>2. IsFiniteSet(below(v))
    BY <2>1, FS_Subset
  <2> QED BY <2>2, FS_CardinalityType
<1>2. PICK n \in counts : \A m \in counts : n <= m
  <2>1. counts \subseteq Nat /\ counts # {}
    BY <1>1, Zenon
  <2> HIDE DEF counts
  <2> QED BY <2>1, LeastNatural, Zenon
<1>3. PICK v \in Q : n = Cardinality(below(v))
  OBVIOUS
<1>4. ASSUME NEW w \in Q, rate[w] < rate[v] PROVE FALSE
  <2>1. below(w) \in SUBSET below(v) /\ w \in below(v) /\ w \notin below(w)
    BY <1>4
  <2>2. Cardinality(below(w)) <= Cardinality(below(v))
        /\ (Cardinality(below(v)) = Cardinality(below(w)) => below(v) = below(w))
    <3> HIDE DEF below
    <3> QED BY <1>1, <2>1, FS_Subset
  <2>3. Cardinality(below(v)) <= Cardinality(below(w))
    BY <1>2, <1>3, Zenon
  <2> HIDE DEF below
  <2> QED BY <1>1, <2>1, <2>2, <2>3
<1> QED BY <1>4

LEMMA HighestOfMany ==
  ASSUME NEW Q, IsFiniteSet(Q), Q # {}, NEW rate, \A v \in Q : rate[v] \in Int
  PROVE  \E v \in Q : \A w \in Q : rate[v] >= rate[w]
<1> DEFINE minus == [v \in Q |-> -rate[v]]
<1>1. \A v \in Q : minus[v] \in Int /\ minus[v] = -rate[v]
  OBVIOUS
<1> HIDE DEF minus
<1>2. PICK v \in Q : \A w \in Q : minus[v] <= minus[w]
  BY <1>1, LowestOfMany
<1> QED BY <1>1, <1>2

(* An opportunity is between the venues of the lowest and the highest rate. *)
LEMMA OpportunityReal ==
  ASSUME RoundInv, NEW o \in Opportunities(round)
  PROVE  /\ {o.long, o.short} \subseteq Quoted(round, o.symbol)
         /\ o.spread = round[o.short][o.symbol] - round[o.long][o.symbol]
         /\ \A v \in Quoted(round, o.symbol) :
              /\ round[v][o.symbol] \in round[o.long][o.symbol] .. round[o.short][o.symbol]
         /\ o.long # o.short
         /\ o.spread \in Int
<1>1. PICK s \in Symbols :
        /\ Cardinality(Quoted(round, s)) >= 2
        /\ o = Opportunity(round, s) /\ o.spread >= MinSpread
  BY DEF Opportunities
<1> DEFINE quotes == Quoted(round, s)
<1> DEFINE rate == [v \in quotes |-> round[v][s]]
<1>2. quotes \in SUBSET Venues /\ \A v \in quotes : s \in DOMAIN round[v]
  BY DEF RoundInv, Quoted
<1>3. IsFiniteSet(quotes)
  BY <1>2, PollsAssumption, FS_Subset
<1>4. \A v \in quotes : round[v][s] \in Int
  <2> SUFFICES ASSUME NEW v \in quotes PROVE round[v][s] \in Int
    OBVIOUS
  <2>1. v \in DOMAIN round /\ s \in DOMAIN round[v]
    BY DEF Quoted
  <2>2. PICK some \in SUBSET Symbols : round[v] \in [some -> Rates]
    BY <2>1 DEF RoundInv, SymbolRates
  <2> QED BY <2>1, <2>2, PollsAssumption, Zenon
<1>5. quotes # {}
  <2>1. quotes = {} => Cardinality(quotes) = 0
    BY FS_EmptySet
  <2> QED BY <1>1, <2>1
<1>6. \A v \in quotes : rate[v] = round[v][s] /\ rate[v] \in Int
  BY <1>4
<1>7. \E v \in quotes : \A w \in quotes : round[v][s] <= round[w][s]
  <2>1. \E v \in quotes : \A w \in quotes : rate[v] <= rate[w]
    <3> HIDE DEF rate, quotes
    <3> QED BY <1>3, <1>5, <1>6, LowestOfMany
  <2> HIDE DEF rate, quotes
  <2> QED BY <1>6, <2>1
<1>8. \E v \in quotes : \A w \in quotes : round[v][s] >= round[w][s]
  <2>1. \E v \in quotes : \A w \in quotes : rate[v] >= rate[w]
    <3> HIDE DEF rate, quotes
    <3> QED BY <1>3, <1>5, <1>6, HighestOfMany
  <2> HIDE DEF rate, quotes
  <2> QED BY <1>6, <2>1
<1>9. /\ o.symbol = s
      /\ o.long = CHOOSE v \in quotes : \A w \in quotes : round[v][s] <= round[w][s]
      /\ o.short = CHOOSE v \in quotes : \A w \in quotes : round[v][s] >= round[w][s]
      /\ o.spread = round[o.short][s] - round[o.long][s]
  <2> DEFINE lowest == CHOOSE v \in quotes : \A w \in quotes : round[v][s] <= round[w][s]
  <2> DEFINE highest == CHOOSE v \in quotes : \A w \in quotes : round[v][s] >= round[w][s]
  <2>1. o = [symbol |-> s, long |-> lowest, short |-> highest,
             spread |-> round[highest][s] - round[lowest][s]]
    BY <1>1 DEF Opportunity
  <2>2. /\ o.symbol = s /\ o.long = lowest /\ o.short = highest
        /\ o.spread = round[highest][s] - round[lowest][s]
    <3> HIDE DEF lowest, highest
    <3> QED BY <2>1
  <2> QED BY <2>2
<1> HIDE DEF quotes
<1>10. o.long \in quotes /\ \A w \in quotes : round[o.long][s] <= round[w][s]
  BY <1>7, <1>9
<1>11. o.short \in quotes /\ \A w \in quotes : round[o.short][s] >= round[w][s]
  BY <1>8, <1>9
<1>12. o.long # o.short /\ o.spread \in Int
  <2>1. round[o.long][s] \in Int /\ round[o.short][s] \in Int
    BY <1>4, <1>10, <1>11
  <2>2. MinSpread > 0 /\ MinSpread \in Nat
    BY PollsAssumption
  <2>3. /\ o.spread = round[o.short][s] - round[o.long][s] /\ o.spread >= MinSpread
    BY <1>1, <1>9
  <2>4. o.spread \in Int
    BY <2>1, <2>3
  <2>5. o.long # o.short
    <3> SUFFICES ASSUME o.long = o.short PROVE FALSE
      OBVIOUS
    <3>1. o.spread = round[o.long][s] - round[o.long][s]
      BY <2>3
    <3> QED BY <2>1, <2>2, <2>3, <3>1
  <2> QED BY <2>4, <2>5
<1>13. \A v \in quotes : round[v][s] \in round[o.long][s] .. round[o.short][s]
  BY <1>4, <1>10, <1>11
<1> QED BY <1>9, <1>10, <1>11, <1>12, <1>13, Zenon DEF quotes

(* At most one opportunity for each symbol. *)
LEMMA OpportunitiesFinite == Cardinality(Opportunities(round)) \in Nat
<1> DEFINE all == {Opportunity(round, s) : s \in Symbols}
<1>1. [s \in Symbols |-> Opportunity(round, s)] \in Surjection(Symbols, all)
  BY DEF Surjection
<1>2. IsFiniteSet(all)
  BY <1>1, PollsAssumption, FS_Surjection
<1>3. Opportunities(round) \in SUBSET all
  BY DEF Opportunities
<1> HIDE DEF all
<1> QED BY <1>2, <1>3, FS_Subset, FS_CardinalityType

LEMMA RoundKept == RoundInv /\ [PollsNext]_pollVars => RoundInv'
<1> SUFFICES ASSUME RoundInv, [PollsNext]_pollVars PROVE RoundInv'
  OBVIOUS
<1>1. CASE StartRound
  BY <1>1 DEF StartRound, RoundInv
<1>2. CASE EndRound
  BY <1>2 DEF EndRound, RoundInv, NoRates
<1>3. ASSUME NEW v \in Venues, NEW rates \in SymbolRates, VenueAnswers(v, rates) PROVE RoundInv'
  <2>1. asked' = asked \ {v} /\ round' = Updated(round, [w \in {v} |-> rates])
    BY <1>3 DEF VenueAnswers
  <2>2. DOMAIN round' = {v} \cup DOMAIN round
        /\ \A w \in DOMAIN round' : round'[w] = IF w = v THEN rates ELSE round[w]
    BY <2>1 DEF Updated
  <2> QED BY <2>1, <2>2 DEF RoundInv
<1>4. CASE StopPolls \/ (\E got \in SUBSET Symbols \ {{}} : ReadInterest(got)) \/ UNCHANGED pollVars
  BY <1>4 DEF StopPolls, ReadInterest, pollVars, RoundInv
<1> QED BY <1>1, <1>2, <1>3, <1>4 DEF PollsNext, SymbolRates

(* A round that ends announces what it read: for any venues and symbols, however
   many venues failed. *)
THEOREM AnnouncedSpreadsAreReal == PollsSpec => SpreadsAreReal
<1> DEFINE Real ==
      round # NoRates /\ round' = NoRates =>
       \A n \in DOMAIN announced' :
         LET o == announced'[n] IN
         /\ o.long # o.short
         /\ {o.long, o.short} \subseteq Quoted(round, o.symbol)
         /\ o.spread = rateCache'[o.short][o.symbol] - rateCache'[o.long][o.symbol]
         /\ \A v \in Quoted(round, o.symbol) :
              round[v][o.symbol] \in round[o.long][o.symbol] .. round[o.short][o.symbol]
         /\ n > 1 => announced'[n - 1].spread >= o.spread
<1>1. PollsInit => RoundInv
  BY DEF PollsInit, RoundInv, NoRates
<1>2. ASSUME RoundInv, [PollsNext]_pollVars, round # NoRates, round' = NoRates PROVE Real
  <2>1. EndRound
    <3>1. ASSUME NEW v \in Venues, NEW rates, VenueAnswers(v, rates) PROVE FALSE
      <4>1. round' = Updated(round, [w \in {v} |-> rates])
        BY <3>1 DEF VenueAnswers
      <4>2. v \in DOMAIN round'
        BY <4>1 DEF Updated
      <4> QED BY <1>2, <4>2 DEF NoRates
    <3>2. ~(StartRound \/ StopPolls \/ (\E got \in SUBSET Symbols \ {{}} : ReadInterest(got))
            \/ UNCHANGED pollVars)
      BY <1>2 DEF StartRound, StopPolls, ReadInterest, pollVars
    <3> QED BY <1>2, <3>1, <3>2 DEF PollsNext
  <2>2. announced' \in WidestFirst(Opportunities(round)) /\ rateCache' = Cached
    BY <2>1 DEF EndRound, Detect
  <2>3. /\ announced' \in [1..Cardinality(Opportunities(round)) -> Opportunities(round)]
        /\ \A m, n \in DOMAIN announced' : m < n => announced'[m].spread >= announced'[n].spread
    BY <2>2 DEF WidestFirst, SetToSeqs
  <2> SUFFICES ASSUME NEW n \in DOMAIN announced'
               PROVE  LET o == announced'[n] IN
                      /\ o.long # o.short
                      /\ {o.long, o.short} \subseteq Quoted(round, o.symbol)
                      /\ o.spread = rateCache'[o.short][o.symbol] - rateCache'[o.long][o.symbol]
                      /\ \A v \in Quoted(round, o.symbol) :
                           round[v][o.symbol] \in round[o.long][o.symbol] .. round[o.short][o.symbol]
                      /\ n > 1 => announced'[n - 1].spread >= o.spread
    OBVIOUS
  <2> DEFINE o == announced'[n]
  <2>4. o \in Opportunities(round)
    BY <2>3
  <2>5. n > 1 => announced'[n - 1].spread >= o.spread
    <3>1. DOMAIN announced' = 1..Cardinality(Opportunities(round)) /\ n \in Int
      BY <2>3
    <3>2. n > 1 => n - 1 \in DOMAIN announced' /\ n - 1 < n
      <4>1. Cardinality(Opportunities(round)) \in Nat
        BY OpportunitiesFinite
      <4> QED BY <3>1, <4>1
    <3> QED BY <2>3, <3>2
  <2> HIDE DEF o
  <2>6. /\ {o.long, o.short} \subseteq Quoted(round, o.symbol)
        /\ o.spread = round[o.short][o.symbol] - round[o.long][o.symbol]
        /\ \A v \in Quoted(round, o.symbol) :
             round[v][o.symbol] \in round[o.long][o.symbol] .. round[o.short][o.symbol]
        /\ o.long # o.short
    BY <1>2, <2>4, OpportunityReal
  <2>7. \A v \in Quoted(round, o.symbol) : rateCache'[v][o.symbol] = round[v][o.symbol]
    BY <1>2, <2>2 DEF Cached, Quoted, RoundInv, Updated
  <2> QED BY <2>5, <2>6, <2>7 DEF o
<1>3. RoundInv /\ [PollsNext]_pollVars => [Real]_pollVars
  BY <1>2
<1> QED BY <1>1, <1>3, RoundKept, PTL DEF PollsSpec, SpreadsAreReal

----------------------------------------------------------------------------
(* MacroRegime: risk and the size of a position. *)

(* The regime is the classification of some signals that were published. *)
MacroInv ==
  /\ macroSignals \in Seq(MacroSignal)
  /\ \E s \in Seq(MacroSignal) : regime = Classified(s)

(* A calendar of finitely many events has finitely many to come. *)
LEMMA UpcomingFinite ==
  ASSUME NEW events, IsFiniteSet(events)
  PROVE  IsFiniteSet(Upcoming(events)) /\ Cardinality(Upcoming(events)) \in Nat
<1>1. Upcoming(events) \in SUBSET events
  BY DEF Upcoming
<1>2. IsFiniteSet(Upcoming(events))
  BY <1>1, FS_Subset
<1> QED BY <1>2, FS_CardinalityType

LEMMA CalendarsFinite == IsFiniteSet(FedEvents) /\ IsFiniteSet(Releases)
<1> DEFINE decision(i) == [on |-> 30 * i, importance |-> 5, decision |-> TRUE]
<1> DEFINE speech(i) == [on |-> 7 + 3 * i, importance |-> 3, decision |-> FALSE]
<1> DEFINE release(i) == [on |-> 7 + 5 * i, importance |-> IF i \in {0, 2} THEN 5 ELSE 4]
<1>1. IsFiniteSet(1..5) /\ IsFiniteSet(0..2) /\ IsFiniteSet(0..3)
  <2>1. \A a, b \in Int : IsFiniteSet(a..b)
    BY FS_Interval
  <2>2. 0 \in Int /\ 1 \in Int /\ 2 \in Int /\ 3 \in Int /\ 5 \in Int
    OBVIOUS
  <2> QED BY ONLY <2>1, <2>2, Zenon
<1>2. IsFiniteSet({decision(i) : i \in 1..5})
  <2>1. [i \in 1..5 |-> decision(i)] \in Surjection(1..5, {decision(i) : i \in 1..5})
    BY Zenon DEF Surjection
  <2> QED BY <1>1, <2>1, FS_Surjection
<1>3. IsFiniteSet({speech(i) : i \in 0..2})
  <2>1. [i \in 0..2 |-> speech(i)] \in Surjection(0..2, {speech(i) : i \in 0..2})
    BY Zenon DEF Surjection
  <2> QED BY <1>1, <2>1, FS_Surjection
<1>4. IsFiniteSet({release(i) : i \in 0..3})
  <2>1. [i \in 0..3 |-> release(i)] \in Surjection(0..3, {release(i) : i \in 0..3})
    BY DEF Surjection
  <2> QED BY <1>1, <2>1, FS_Surjection
<1>5. IsFiniteSet({decision(i) : i \in 1..5} \cup {speech(i) : i \in 0..2})
  BY <1>2, <1>3, FS_Union, Zenon
<1> QED BY <1>4, <1>5 DEF FedEvents, Releases

(* The events of a calendar to come, by their dates. *)
LEMMA Dated ==
  ASSUME NEW events, IsFiniteSet(events), NEW dated \in ByDate(Upcoming(events))
  PROVE  \E k \in Nat : dated \in [1..k -> events]
<1>1. dated \in [1..Cardinality(Upcoming(events)) -> Upcoming(events)]
  BY DEF ByDate, SetToSeqs
<1>2. Cardinality(Upcoming(events)) \in Nat /\ Upcoming(events) \subseteq events
  BY UpcomingFinite DEF Upcoming
<1> QED BY <1>1, <1>2

(* How many of the signals are counted is between none and all. *)
LEMMA CountedTyped ==
  ASSUME NEW s \in Seq(MacroSignal)
  PROVE  /\ Len(s) \in Nat
         /\ \A bias : Biased(s, bias) \in 0..Len(s)
         /\ Important(s) \in 0..Len(s)
<1>1. Len(s) \in Nat /\ DOMAIN s = 1..Len(s) /\ \A n \in 1..Len(s) : s[n] \in MacroSignal
  BY SeqShape
<1>2. IsFiniteSet(1..Len(s)) /\ Cardinality(1..Len(s)) = Len(s)
  <2> DEFINE n == Len(s)
  <2>1. n \in Nat
    BY <1>1
  <2> HIDE DEF n
  <2>2. IsFiniteSet(1..n) /\ Cardinality(1..n) = IF 1 > n THEN 0 ELSE n - 1 + 1
    BY <2>1, FS_Interval
  <2>3. Cardinality(1..n) = n
    BY <2>1, <2>2
  <2> QED BY <2>2, <2>3 DEF n
<1>3. ASSUME NEW T \in SUBSET (1..Len(s)) PROVE Cardinality(T) \in 0..Len(s)
  <2>1. IsFiniteSet(T) /\ Cardinality(T) <= Cardinality(1..Len(s))
    BY <1>2, FS_Subset, Zenon
  <2>2. Cardinality(T) \in Nat
    BY <2>1, FS_CardinalityType
  <2> QED BY <1>1, <1>2, <2>1, <2>2
<1>4. \A bias : {n \in DOMAIN s : s[n].bias = bias} \in SUBSET (1..Len(s))
  BY <1>1
<1>5. {n \in DOMAIN s : s[n].importance >= 5} \in SUBSET (1..Len(s))
  BY <1>1
<1> QED BY <1>1, <1>3, <1>4, <1>5, Zenon DEF Biased, Important

(* A confidence is a fraction of one, of nine tenths at most in a bull market. *)
LEMMA LeaningSound ==
  ASSUME NEW s \in Seq(MacroSignal)
  PROVE  /\ Leaning(s).per \in Nat /\ Leaning(s).per > 0
         /\ Leaning(s).sure \in 0..Leaning(s).per
         /\ Leaning(s).name \in {"BULL", "BEAR", "SIDEWAYS", "TRANSITION"}
         /\ Leaning(s).name = "BULL" => 10 * Leaning(s).sure <= 9 * Leaning(s).per
<1> DEFINE n == Len(s)
<1> DEFINE bulls == Biased(s, "bullish")
<1> DEFINE bears == Biased(s, "bearish")
<1>1. n \in Nat /\ bulls \in 0..n /\ bears \in 0..n
  BY CountedTyped
<1>2. Distance(bulls, bears) \in 0..n
  BY <1>1 DEF Distance
<1> HIDE DEF n, bulls, bears
<1>3. CASE n = 0
  <2>1. Leaning(s) = [name |-> "SIDEWAYS", sure |-> 1, per |-> 2]
    BY <1>3 DEF Leaning, n
  <2> QED BY <2>1
<1>4. CASE n > 0 /\ 10 * bulls > 6 * n /\ Weighty(s)
  <2>1. \/ /\ 10 * bulls > 9 * n
           /\ Leaning(s) = [name |-> "BULL", sure |-> 9, per |-> 10]
        \/ /\ ~(10 * bulls > 9 * n)
           /\ Leaning(s) = [name |-> "BULL", sure |-> bulls, per |-> n]
    <3>1. Leaning(s) = [name |-> "BULL", sure |-> Capped(bulls, n).sure, per |-> Capped(bulls, n).per]
      BY <1>1, <1>4 DEF Leaning, n, bulls
    <3> QED BY <3>1 DEF Capped
  <2> QED BY <1>1, <1>4, <2>1
<1>5. CASE n > 0 /\ ~(10 * bulls > 6 * n /\ Weighty(s)) /\ 10 * bears > 6 * n /\ Weighty(s)
  <2>1. \/ /\ 10 * bears > 9 * n
           /\ Leaning(s) = [name |-> "BEAR", sure |-> 9, per |-> 10]
        \/ /\ ~(10 * bears > 9 * n)
           /\ Leaning(s) = [name |-> "BEAR", sure |-> bears, per |-> n]
    BY <1>1, <1>5 DEF Leaning, Capped, n, bulls, bears
  <2> QED BY <1>1, <1>5, <2>1
<1>6. CASE /\ n > 0 /\ ~(10 * bulls > 6 * n /\ Weighty(s))
           /\ ~(10 * bears > 6 * n /\ Weighty(s))
  <2>1. \/ Leaning(s) = [name |-> "SIDEWAYS", sure |-> n - Distance(bulls, bears), per |-> n]
        \/ Leaning(s) = [name |-> "TRANSITION", sure |-> 6, per |-> 10]
    BY <1>1, <1>6 DEF Leaning, n, bulls, bears
  <2> QED BY <1>1, <1>2, <1>6, <2>1
<1> QED BY <1>1, <1>3, <1>4, <1>5, <1>6

LEMMA Scaled ==
  ASSUME NEW base \in Nat, NEW most \in Nat, NEW factor \in 0..most,
         NEW per \in Nat, NEW sure \in 0..per
  PROVE  base * factor * sure <= most * base * per
<1>1. base * factor <= base * most /\ base * factor \in Nat /\ base * most \in Nat
  OBVIOUS
<1>2. (base * factor) * sure <= (base * factor) * per
  BY <1>1
<1>3. (base * factor) * per <= (base * most) * per
  BY <1>1
<1> QED BY <1>1, <1>2, <1>3

(* What remains of the base at a level of risk, in thousandths of a percent. *)
LEMMA LevelShrinks ==
  ASSUME NEW s \in Seq(MacroSignal), NEW level \in {100, 80, 50, 25}, NEW most \in Nat,
         level * 108 <= most, level * 70 <= most, level * 100 <= most,
         RiskFactor[Classified(s).risk] = level
  PROVE  Adjusted(Classified(s))[1] <= most * BaseSize * Adjusted(Classified(s))[2]
<1> DEFINE r == Classified(s)
<1> DEFINE name == r.name
<1> DEFINE sure == r.sure
<1> DEFINE per == r.per
<1>0. BaseSize \in Nat
  BY MacroAssumption
<1>1. /\ per \in Nat /\ sure \in 0..per
      /\ name \in {"BULL", "BEAR", "SIDEWAYS", "TRANSITION", "VOLATILE"}
      /\ name = "BULL" => 10 * sure <= 9 * per
  BY LeaningSound DEF Classified
<1>2. Adjusted(r) = <<BaseSize * level * RegimeFactor[name] * sure, per>>
  BY DEF Adjusted
<1>3. CASE name = "BULL"
  <2>1. Adjusted(r)[1] = BaseSize * level * 120 * sure /\ Adjusted(r)[2] = per
    BY <1>2, <1>3 DEF RegimeFactor
  <2> HIDE DEF r, name, sure, per
  <2>2. BaseSize * (level * 12) * (10 * sure) <= (level * 12) * BaseSize * (9 * per)
    <3>1. BaseSize * (level * 12) \in Nat /\ 10 * sure \in Nat /\ 9 * per \in Nat
      BY <1>0, <1>1
    <3>2. \A a, b, c \in Nat : b <= c => a * b <= a * c
      OBVIOUS
    <3> QED BY <1>0, <1>1, <1>3, <3>1, <3>2
  <2>3. (level * 108) * BaseSize * per <= most * BaseSize * per
    <3>1. BaseSize * per \in Nat /\ level * 108 \in Nat
      BY <1>0, <1>1
    <3>2. \A a, b, c \in Nat : b <= c => b * a <= c * a
      OBVIOUS
    <3> QED BY <1>0, <1>1, <3>1, <3>2
  <2>4. BaseSize * level * 120 * sure = BaseSize * (level * 12) * (10 * sure)
    <3>1. \A a, b, c \in Int : a * b * 120 * c = a * (b * 12) * (10 * c)
      OBVIOUS
    <3>2. BaseSize \in Int /\ level \in Int /\ sure \in Int
      BY <1>0, <1>1
    <3> QED BY <3>1, <3>2, Zenon
  <2>5. (level * 12) * BaseSize * (9 * per) = (level * 108) * BaseSize * per
    <3>1. \A a, b, c \in Int : (b * 12) * a * (9 * c) = (b * 108) * a * c
      OBVIOUS
    <3>2. BaseSize \in Int /\ level \in Int /\ per \in Int
      BY <1>0, <1>1
    <3> QED BY <3>1, <3>2, SMT
  <2>6. /\ BaseSize * (level * 12) * (10 * sure) \in Int
        /\ (level * 108) * BaseSize * per \in Int /\ most * BaseSize * per \in Int
    BY <1>0, <1>1
  <2>7. \A a, b, c \in Int : a <= b /\ b <= c => a <= c
    OBVIOUS
  <2>8. BaseSize * level * 120 * sure <= most * BaseSize * per
    BY <2>2, <2>3, <2>4, <2>5, <2>6, <2>7, Zenon
  <2> QED BY <2>1, <2>8, Zenon DEF r
<1>4. CASE name # "BULL"
  <2>1. \E factor \in {60, 100, 70, 80} :
          Adjusted(r)[1] = BaseSize * level * factor * sure /\ Adjusted(r)[2] = per
    BY <1>1, <1>2, <1>4 DEF RegimeFactor
  <2> HIDE DEF r, name, sure, per
  <2>2. PICK factor \in {60, 100, 70, 80} :
          Adjusted(r)[1] = BaseSize * level * factor * sure /\ Adjusted(r)[2] = per
    BY <2>1
  <2>3. level * factor \in 0..most
    BY <2>2
  <2>4. BaseSize * (level * factor) * sure <= most * BaseSize * per
    BY <1>0, <1>1, <2>3, Scaled
  <2> QED BY <1>0, <1>1, <2>2, <2>4 DEF r
<1> QED BY <1>3, <1>4

(* A position of a classified regime: at extreme risk the regime is volatile, at any
   other it may be a bull market. *)
LEMMA SizeShrinks ==
  ASSUME NEW s \in Seq(MacroSignal), regime = Classified(s)
  PROVE  RiskShrinksSize
<1> DEFINE r == Classified(s)
<1>0. BaseSize \in Nat
  BY MacroAssumption
<1>1. r.risk \in {"EXTREME", "HIGH", "MEDIUM", "LOW"}
  BY DEF Classified, RiskLevel
<1>2. PositionSize(regime) = <<10000, 1>> \/ PositionSize(regime) = Adjusted(r)
  BY DEF PositionSize
<1>3. CASE r.risk = "EXTREME"
  <2>1. r.name = "VOLATILE" /\ r.sure \in 0..r.per /\ r.per \in Nat
    <3>1. Important(s) \in Nat /\ Len(s) \in Nat
      BY CountedTyped
    <3> QED BY <1>3, <3>1, LeaningSound DEF Classified, RiskLevel, Volatile
  <2>2. Adjusted(r)[1] = BaseSize * 25 * 70 * r.sure /\ Adjusted(r)[2] = r.per
    BY <1>3, <2>1 DEF RiskFactor, RegimeFactor, Adjusted
  <2> HIDE DEF r
  <2>3. BaseSize * 1750 * r.sure <= 1750 * BaseSize * r.per
    BY <1>0, <2>1, Scaled
  <2>4. Adjusted(r)[1] <= 175 * 10 * BaseSize * Adjusted(r)[2]
    BY <1>0, <2>1, <2>2, <2>3
  <2> QED BY <1>2, <1>3, <2>4 DEF RiskShrinksSize, r
<1>4. CASE r.risk = "HIGH"
  <2>1. Adjusted(r)[1] <= 5400 * BaseSize * Adjusted(r)[2]
    BY <1>4, LevelShrinks DEF RiskFactor
  <2> HIDE DEF r
  <2>2. Adjusted(r)[1] <= 540 * 10 * BaseSize * Adjusted(r)[2]
    BY <2>1
  <2> QED BY <1>2, <1>4, <2>2 DEF RiskShrinksSize, r
<1>5. CASE r.risk = "MEDIUM"
  <2>1. Adjusted(r)[1] <= 8640 * BaseSize * Adjusted(r)[2]
    BY <1>5, LevelShrinks DEF RiskFactor
  <2> HIDE DEF r
  <2>2. Adjusted(r)[1] <= 864 * 10 * BaseSize * Adjusted(r)[2]
    BY <2>1
  <2> QED BY <1>2, <1>5, <2>2 DEF RiskShrinksSize, r
<1>6. CASE r.risk = "LOW"
  <2>1. Adjusted(r)[1] <= 10800 * BaseSize * Adjusted(r)[2]
    BY <1>6, LevelShrinks DEF RiskFactor
  <2> HIDE DEF r
  <2>2. Adjusted(r)[1] <= 1080 * 10 * BaseSize * Adjusted(r)[2]
    BY <2>1
  <2> QED BY <1>2, <1>6, <2>2 DEF RiskShrinksSize, r
<1> QED BY <1>1, <1>3, <1>4, <1>5, <1>6

(* The last of some signals are signals. *)
LEMMA LastSignalsTyped ==
  ASSUME NEW s \in Seq(MacroSignal)
  PROVE  LastSignals(s) \in Seq(MacroSignal)
BY MacroAssumption DEF LastSignals

(* Risk reaches the size: whatever the calendars and others publish and whenever the
   regime is classified, a position keeps at most 17.5% of its base at extreme risk,
   54% at high, 86.4% at medium and 108% at low, unless it is the floor. *)
THEOREM RiskReachesSize == MacroSpec => []RiskShrinksSize
<1>1. MacroInit => MacroInv
  <2>1. << >> \in Seq(MacroSignal)
    OBVIOUS
  <2> QED BY <2>1, Zenon DEF MacroInit, MacroInv
<1>2. ASSUME MacroInv, [MacroNext]_macroVars PROVE MacroInv'
  <2>1. \A e \in FedEvents : FedSignal(e) \in MacroSignal
    BY DEF FedEvents, FedSignal, MacroSignal
  <2>2. \A e \in Releases, figure \in DOMAIN Biases : ReleaseSignal(e, figure) \in MacroSignal
    BY DEF Releases, ReleaseSignal, Biases, MacroSignal
  <2>3. ASSUME NEW signals \in Seq(MacroSignal), Publishes(signals) PROVE MacroInv'
    <3>1. macroSignals' \in Seq(MacroSignal)
      BY <1>2, <2>3, ConcatProperties DEF MacroInv, Publishes
    <3>2. regime' = regime
      BY <2>3 DEF Publishes
    <3> QED BY <1>2, <3>1, <3>2 DEF MacroInv
  <2>4. CASE ProcessFedEvents
    <3>1. PICK events \in ByDate(Upcoming(FedEvents)) :
            Publishes([n \in DOMAIN events |-> FedSignal(events[n])])
      BY <2>4 DEF ProcessFedEvents
    <3>2. PICK k \in Nat : events \in [1..k -> FedEvents]
      BY CalendarsFinite, Dated
    <3>3. [n \in DOMAIN events |-> FedSignal(events[n])] \in [1..k -> MacroSignal]
      BY <2>1, <3>2
    <3> QED BY <2>3, <3>1, <3>3
  <2>5. CASE ProcessReleases
    <3>0. PICK events \in ByDate(Upcoming(Releases)) :
            \E figures \in [DOMAIN events -> DOMAIN Biases] :
              Publishes([n \in DOMAIN events |-> ReleaseSignal(events[n], figures[n])])
      BY <2>5 DEF ProcessReleases
    <3>1. PICK figures \in [DOMAIN events -> DOMAIN Biases] :
            Publishes([n \in DOMAIN events |-> ReleaseSignal(events[n], figures[n])])
      BY <3>0
    <3>2. PICK k \in Nat : events \in [1..k -> Releases]
      BY CalendarsFinite, Dated
    <3>3. [n \in DOMAIN events |-> ReleaseSignal(events[n], figures[n])] \in [1..k -> MacroSignal]
      BY <2>2, <3>2
    <3> QED BY <2>3, <3>1, <3>3
  <2>6. CASE Classify
    <3>1. regime' = Classified(LastSignals(macroSignals)) /\ macroSignals' = macroSignals
      BY <2>6 DEF Classify
    <3> QED BY <1>2, <3>1, LastSignalsTyped DEF MacroInv
  <2>8. CASE PublishSignals
    BY <2>3, <2>8, MacroAssumption DEF PublishSignals
  <2>7. CASE DayPasses \/ UNCHANGED macroVars
    <3>1. UNCHANGED <<macroSignals, regime>>
      BY <2>7 DEF DayPasses, macroVars
    <3> QED BY <1>2, <3>1 DEF MacroInv
  <2> QED BY <1>2, <2>4, <2>5, <2>6, <2>7, <2>8 DEF MacroNext
<1>3. MacroInv => RiskShrinksSize
  BY SizeShrinks DEF MacroInv
<1> QED BY <1>1, <1>2, <1>3, PTL DEF MacroSpec

----------------------------------------------------------------------------
(* Dashboard: the reads and the caches they share. *)

ReadParts == {"book", "news", "candles", "market"}

ReadRecord ==
  [todo : Seq(ReadParts), key : Pairs \cup {NoKey}, page : Nat,
   at : {"idle", "next", "klines", "coingecko", "tickers", "depth", "trending", "articles"},
   waited : Nat]

(* A request under way has a part to answer. *)
ReadShape ==
  /\ request \in [Requests -> ReadRecord]
  /\ \A r \in Requests : request[r].at # "idle" => request[r].todo # << >>

(* What a cache holds is no older than its stamp says. *)
NoYoungerThanStamped ==
  /\ market \in [count : Nat, age : Nat, since : Nat] /\ market.age <= market.since
  /\ candleCache \in [key : Pairs \cup {NoKey}, age : Nat, since : Nat]
  /\ candleCache.age <= candleCache.since

ReadInv == ReadShape /\ NoYoungerThanStamped /\ AnswersAreRecent

(* A part is answered: its request is as well formed as before, and what came out
   of a cache is what the step says it is. *)
LEMMA PartAnswered ==
  ASSUME ReadShape, NEW r \in Requests, request[r].at # "idle",
         NEW part, NEW from, NEW held, NEW age, AnswersWith(r, part, from, held, age)
  PROVE  /\ ReadShape'
         /\ \/ from # "cache" /\ answer' = NoAnswer
            \/ from = "cache" /\ answer' = [part |-> part, key |-> request[r].key,
                                            held |-> held, age |-> age]
<1>1. request[r] \in ReadRecord /\ request[r].todo \in Seq(ReadParts) /\ request[r].todo # << >>
  BY DEF ReadShape, ReadRecord
<1>2. NoRequest \in ReadRecord /\ NoRequest.at = "idle"
  BY DEF NoRequest, ReadRecord
<1> DEFINE todo == request[r].todo
<1> DEFINE next == [request[r] EXCEPT !.todo = Tail(todo), !.at = "next", !.waited = 0]
<1>3. CASE Len(request[r].todo) = 1
  <2>1. request' = [request EXCEPT ![r] = NoRequest]
    BY <1>3 DEF AnswersWith, ReadShape
  <2> QED BY <1>2, <2>1, Zenon DEF ReadShape, AnswersWith
<1>4. CASE Len(request[r].todo) # 1
  <2>0. request' = [request EXCEPT ![r] = IF Len(request[r].todo) = 1 THEN NoRequest ELSE next]
    BY DEF AnswersWith
  <2>1. request' = [request EXCEPT ![r] = next]
    <3> HIDE DEF next
    <3> QED BY <1>4, <2>0
  <2>2. Tail(todo) \in Seq(ReadParts) /\ Len(Tail(todo)) = Len(todo) - 1
    BY <1>1, HeadTailProperties
  <2>3. Len(todo) \in Nat /\ Len(todo) # 0
    BY <1>1, EmptySeq
  <2>4. Tail(todo) # << >>
    <3>1. Len(Tail(todo)) # 0
      BY <1>4, <2>2, <2>3
    <3> QED BY <3>1, EmptySeq, Zenon
  <2>5. next \in ReadRecord /\ next.todo = Tail(todo)
    BY <1>1, <2>2, Zenon DEF ReadRecord
  <2> HIDE DEF next, todo
  <2>6. ReadShape'
    BY <2>1, <2>4, <2>5 DEF ReadShape
  <2> QED BY <2>6 DEF AnswersWith
<1> QED BY <1>3, <1>4

(* A part's source is asked. *)
LEMMA SourceAsked ==
  ASSUME ReadShape, NEW r \in Requests, request[r].at # "idle",
         NEW source \in {"klines", "coingecko", "tickers", "depth", "trending", "articles"},
         Asks(r, source)
  PROVE  ReadShape' /\ answer' = NoAnswer
<1>1. request[r] \in ReadRecord /\ request[r].todo # << >>
  BY DEF ReadShape
<1>2. [request[r] EXCEPT !.at = source] \in ReadRecord
      /\ [request[r] EXCEPT !.at = source].todo = request[r].todo
  BY <1>1 DEF ReadRecord
<1>3. request' = [request EXCEPT ![r] = [request[r] EXCEPT !.at = source]]
  BY DEF Asks, ReadShape
<1>4. ReadShape'
  BY <1>1, <1>2, <1>3 DEF ReadShape
<1> QED BY <1>4 DEF Asks

(* A step that answers nothing out of a cache, and changes none. *)
LEMMA ReadQuiet ==
  ASSUME ReadInv, ReadShape', answer' = NoAnswer, UNCHANGED <<market, candleCache>>
  PROVE  ReadInv'
BY DEF ReadInv, NoYoungerThanStamped, AnswersAreRecent

LEMMA ReadStep == ReadInv /\ [ReadNext /\ UNCHANGED guardVars]_dashVars => ReadInv'
<1> SUFFICES ASSUME ReadInv, ReadNext PROVE ReadInv'
  <2>1. CASE UNCHANGED dashVars
    BY <2>1 DEF dashVars, cacheVars, ReadInv, ReadShape, NoYoungerThanStamped, AnswersAreRecent
  <2> QED BY <2>1
<1>0. ReadShape /\ NoYoungerThanStamped
  BY DEF ReadInv
<1>1. ASSUME NEW r \in Requests, NEW key \in Pairs, NEW page \in Pages,
             NEW parts \in {<<"candles">>, <<"market">>, Snapshot}, Arrive(r, parts, key, page)
      PROVE  ReadInv'
  <2> DEFINE new == [todo |-> parts, key |-> key, page |-> page, at |-> "next", waited |-> 0]
  <2>1. parts \in Seq(ReadParts) /\ parts # << >>
    <3>1. <<"candles">> \in Seq(ReadParts) /\ <<"candles">> # << >>
      BY DEF ReadParts
    <3>2. <<"market">> \in Seq(ReadParts) /\ <<"market">> # << >>
      BY DEF ReadParts
    <3>3. Snapshot \in Seq(ReadParts) /\ Snapshot # << >>
      BY DEF Snapshot, ReadParts
    <3> QED BY <3>1, <3>2, <3>3, Zenon
  <2>2. page \in Nat
    BY DashboardAssumption
  <2>3. new \in ReadRecord /\ new.todo = parts
    BY <2>1, <2>2 DEF ReadRecord
  <2>4. request' = [request EXCEPT ![r] = new]
    BY <1>1 DEF Arrive
  <2> HIDE DEF new
  <2>5. ReadShape'
    BY <1>0, <2>1, <2>3, <2>4 DEF ReadShape
  <2> QED BY <1>1, <2>5, ReadQuiet DEF Arrive
<1>2. ASSUME NEW r \in Requests, AskCandles(r) PROVE ReadInv'
  <2>1. request[r].at # "idle"
    BY <1>2 DEF AskCandles, Wants
  <2>2. CASE AnswersWith(r, "candles", "live", request[r].key, 0)
    <3>1. ReadShape' /\ answer' = NoAnswer
      BY <1>0, <2>1, <2>2, PartAnswered
    <3> QED BY <1>2, <3>1, ReadQuiet DEF AskCandles
  <2>3. CASE /\ candleCache.key = request[r].key /\ candleCache.since < CandleTTL
             /\ AnswersWith(r, "candles", "cache", candleCache.key, candleCache.age)
    <3>1. /\ ReadShape'
          /\ answer' = [part |-> "candles", key |-> request[r].key,
                        held |-> candleCache.key, age |-> candleCache.age]
      BY <1>0, <2>1, <2>3, PartAnswered
    <3>2. answer'.part = "candles" /\ answer'.held = answer'.key /\ answer'.age = candleCache.age
      BY <2>3, <3>1
    <3>3. candleCache.age < CandleTTL
      <4>1. CandleTTL \in Nat
        BY DashboardAssumption
      <4>2. candleCache.age \in Nat /\ candleCache.since \in Nat
        BY <1>0 DEF NoYoungerThanStamped
      <4> QED BY <1>0, <2>3, <4>1, <4>2 DEF NoYoungerThanStamped
    <3>4. UNCHANGED <<market, candleCache>>
      BY <1>2 DEF AskCandles
    <3> QED BY <1>0, <3>1, <3>2, <3>3, <3>4 DEF ReadInv, NoYoungerThanStamped, AnswersAreRecent
  <2>4. CASE Asks(r, "klines")
    <3>1. ReadShape' /\ answer' = NoAnswer
      BY <1>0, <2>1, <2>4, SourceAsked
    <3> QED BY <1>2, <3>1, ReadQuiet DEF AskCandles
  <2> QED BY <1>2, <2>2, <2>3, <2>4 DEF AskCandles
<1>3. ASSUME NEW r \in Requests, NEW age \in 0..FetchTimeout, CandlesFetched(r, age)
      PROVE  ReadInv'
  <2>1. request[r].at # "idle" /\ age \in 0..request[r].waited
    BY <1>3 DEF CandlesFetched
  <2>2. ReadShape' /\ answer' = NoAnswer
    BY <1>0, <1>3, <2>1, PartAnswered DEF CandlesFetched
  <2>3. request[r].key \in Pairs \cup {NoKey} /\ request[r].waited \in Nat
    BY <1>0 DEF ReadShape, ReadRecord
  <2>4. market' = market
        /\ candleCache' = [key |-> request[r].key, age |-> age, since |-> request[r].waited]
    BY <1>3 DEF CandlesFetched
  <2>5. NoYoungerThanStamped'
    BY <1>0, <2>1, <2>3, <2>4 DEF NoYoungerThanStamped
  <2> QED BY <2>2, <2>5 DEF ReadInv, AnswersAreRecent
<1>4. ASSUME NEW r \in Requests, CandlesFailed(r) PROVE ReadInv'
  <2>1. request[r].at # "idle"
    BY <1>4 DEF CandlesFailed
  <2>2. ReadShape' /\ answer' = NoAnswer
    BY <1>0, <1>4, <2>1, PartAnswered DEF CandlesFailed
  <2> QED BY <1>4, <2>2, ReadQuiet DEF CandlesFailed
<1>5. ASSUME NEW r \in Requests, AskMarket(r) PROVE ReadInv'
  <2>1. request[r].at # "idle"
    BY <1>5 DEF AskMarket, Wants
  <2>2. CASE market.since < MarketTTL /\ AnswersWith(r, "market", "cache", NoKey, market.age)
    <3>1. /\ ReadShape'
          /\ answer' = [part |-> "market", key |-> request[r].key,
                        held |-> NoKey, age |-> market.age]
      BY <1>0, <2>1, <2>2, PartAnswered
    <3>2. answer'.part = "market" /\ answer'.age = market.age
      BY <3>1
    <3>3. market.age < MarketTTL
      <4>1. MarketTTL \in Nat
        BY DashboardAssumption
      <4>2. market.age \in Nat /\ market.since \in Nat
        BY <1>0 DEF NoYoungerThanStamped
      <4> QED BY <1>0, <2>2, <4>1, <4>2 DEF NoYoungerThanStamped
    <3>4. UNCHANGED <<market, candleCache>>
      BY <1>5 DEF AskMarket
    <3> QED BY <1>0, <3>1, <3>2, <3>3, <3>4 DEF ReadInv, NoYoungerThanStamped, AnswersAreRecent
  <2>3. CASE Asks(r, "coingecko")
    <3>1. ReadShape' /\ answer' = NoAnswer
      BY <1>0, <2>1, <2>3, SourceAsked
    <3> QED BY <1>5, <3>1, ReadQuiet DEF AskMarket
  <2> QED BY <1>5, <2>2, <2>3 DEF AskMarket
<1>6. ASSUME NEW r \in Requests, NEW age \in 0..FetchTimeout, NEW count \in Pages,
             MarketFetched(r, count, age)
      PROVE  ReadInv'
  <2>1. request[r].at # "idle" /\ age \in 0..request[r].waited /\ count \in Nat
    BY <1>6, DashboardAssumption DEF MarketFetched
  <2>2. ReadShape' /\ answer' = NoAnswer
    BY <1>0, <1>6, <2>1, PartAnswered DEF MarketFetched
  <2>3. request[r].waited \in Nat
    BY <1>0 DEF ReadShape, ReadRecord
  <2>4. market' = [count |-> count, age |-> age, since |-> request[r].waited]
        /\ candleCache' = candleCache
    BY <1>6 DEF MarketFetched, Kept
  <2>5. NoYoungerThanStamped'
    BY <1>0, <2>1, <2>3, <2>4 DEF NoYoungerThanStamped
  <2> QED BY <2>2, <2>5 DEF ReadInv, AnswersAreRecent
<1>7. ASSUME NEW r \in Requests, MarketFailed(r) PROVE ReadInv'
  <2>1. CASE Asks(r, "tickers") /\ request[r].at = "coingecko"
    <3>1. ReadShape' /\ answer' = NoAnswer
      BY <1>0, <2>1, SourceAsked
    <3> QED BY <1>7, <3>1, ReadQuiet DEF MarketFailed
  <2>2. CASE /\ request[r].at = "tickers"
             /\ AnswersWith(r, "market", IF market.count > 0 THEN "stale" ELSE "nothing", NoKey, market.age)
    <3> DEFINE from == IF market.count > 0 THEN "stale" ELSE "nothing"
    <3>1. from # "cache" /\ AnswersWith(r, "market", from, NoKey, market.age)
      BY <2>2
    <3> HIDE DEF from
    <3>2. ReadShape' /\ answer' = NoAnswer
      BY <1>0, <2>2, <3>1, PartAnswered
    <3> QED BY <1>7, <3>2, ReadQuiet DEF MarketFailed
  <2> QED BY <1>7, <2>1, <2>2 DEF MarketFailed, Asks
<1>8. ASSUME NEW r \in Requests, NEW b, AskBook(r, b) PROVE ReadInv'
  <2>1. request[r].at # "idle"
    BY <1>8 DEF AskBook, Wants
  <2>2. Asks(r, "depth") \/ \E held : AnswersWith(r, "book", "event", held, 0)
    BY <1>8 DEF AskBook
  <2>3. ReadShape' /\ answer' = NoAnswer
    BY <1>0, <2>1, <2>2, PartAnswered, SourceAsked
  <2> QED BY <1>8, <2>3, ReadQuiet DEF AskBook
<1>9. ASSUME NEW r \in Requests, AskNews(r) PROVE ReadInv'
  <2>1. request[r].at # "idle"
    BY <1>9 DEF AskNews, Wants
  <2>2. Asks(r, "trending") \/ AnswersWith(r, "news", "event", NoKey, 0)
    BY <1>9 DEF AskNews
  <2>3. ReadShape' /\ answer' = NoAnswer
    BY <1>0, <2>1, <2>2, PartAnswered, SourceAsked
  <2> QED BY <1>9, <2>3, ReadQuiet DEF AskNews
<1>10. ASSUME NEW r \in Requests, NEW some \in BOOLEAN, SourceAnswers(r, some) PROVE ReadInv'
  <2>1. request[r].at # "idle"
    BY <1>10 DEF SourceAnswers
  <2> DEFINE from == IF some THEN "source" ELSE "nothing"
  <2>2. Asks(r, "articles") \/ AnswersWith(r, Head(request[r].todo), from, NoKey, 0)
    BY <1>10 DEF SourceAnswers, Asks
  <2>3. from # "cache"
    OBVIOUS
  <2> HIDE DEF from
  <2>4. ReadShape' /\ answer' = NoAnswer
    BY <1>0, <2>1, <2>2, <2>3, PartAnswered, SourceAsked
  <2> QED BY <1>10, <2>4, ReadQuiet DEF SourceAnswers
<1>11. CASE NewsEvent \/ \E b \in Books : BookEvent(b)
  <2>1. UNCHANGED <<market, candleCache, request, answer>>
    BY <1>11 DEF NewsEvent, BookEvent
  <2> QED BY <2>1 DEF ReadInv, ReadShape, NoYoungerThanStamped, AnswersAreRecent
<1>12. CASE Wait
  <2>1. /\ market' = Aged(market, MarketTTL) /\ candleCache' = Aged(candleCache, CandleTTL)
        /\ request' = [r \in Requests |->
                         IF r \in Waiting THEN [request[r] EXCEPT !.waited = @ + 1] ELSE request[r]]
        /\ answer' = NoAnswer
    BY <1>12 DEF Wait
  <2>2. ReadShape'
    <3>1. ASSUME NEW r \in Requests
          PROVE  /\ [request[r] EXCEPT !.waited = @ + 1] \in ReadRecord
                 /\ [request[r] EXCEPT !.waited = @ + 1].todo = request[r].todo
                 /\ [request[r] EXCEPT !.waited = @ + 1].at = request[r].at
      <4>1. request[r] \in ReadRecord
        BY <1>0 DEF ReadShape
      <4> QED BY <4>1 DEF ReadRecord
    <3>2. \A r \in Requests : /\ request'[r] \in ReadRecord
                              /\ request'[r].todo = request[r].todo
                              /\ request'[r].at = request[r].at
      BY <1>0, <2>1, <3>1 DEF ReadShape
    <3> QED BY <1>0, <2>1, <3>2 DEF ReadShape
  <2>3. NoYoungerThanStamped'
    <3>1. MarketTTL \in Nat /\ CandleTTL \in Nat
      BY DashboardAssumption
    <3>2. market' \in [count : Nat, age : Nat, since : Nat] /\ market'.age <= market'.since
      <4> DEFINE age == IF market.age < MarketTTL THEN market.age + 1 ELSE MarketTTL
      <4> DEFINE since == IF market.since < MarketTTL THEN market.since + 1 ELSE MarketTTL
      <4>1. market \in [count : Nat, age : Nat, since : Nat] /\ market.age <= market.since
        BY <1>0 DEF NoYoungerThanStamped
      <4>2. market' = [market EXCEPT !.age = age, !.since = since]
        BY <2>1 DEF Aged
      <4>3. age \in Nat /\ since \in Nat /\ age <= since
        BY <3>1, <4>1
      <4> HIDE DEF age, since
      <4> QED BY <4>1, <4>2, <4>3, Zenon
    <3>3. /\ candleCache' \in [key : Pairs \cup {NoKey}, age : Nat, since : Nat]
          /\ candleCache'.age <= candleCache'.since
      <4> DEFINE age == IF candleCache.age < CandleTTL THEN candleCache.age + 1 ELSE CandleTTL
      <4> DEFINE since == IF candleCache.since < CandleTTL THEN candleCache.since + 1 ELSE CandleTTL
      <4>1. /\ candleCache \in [key : Pairs \cup {NoKey}, age : Nat, since : Nat]
            /\ candleCache.age <= candleCache.since
        BY <1>0 DEF NoYoungerThanStamped
      <4>2. candleCache' = [candleCache EXCEPT !.age = age, !.since = since]
        BY <2>1 DEF Aged
      <4>3. age \in Nat /\ since \in Nat /\ age <= since
        BY <3>1, <4>1
      <4> HIDE DEF age, since
      <4> QED BY <4>1, <4>2, <4>3, Zenon
    <3> QED BY <3>2, <3>3 DEF NoYoungerThanStamped
  <2> QED BY <2>1, <2>2, <2>3 DEF ReadInv, AnswersAreRecent
<1> QED BY <1>1, <1>2, <1>3, <1>4, <1>5, <1>6, <1>7, <1>8, <1>9, <1>10, <1>11, <1>12 DEF ReadNext

(* What a request gets out of a cache was asked for under its own key and is younger
   than the cache's time to live, for any number of requests under way, whichever
   stored it and in whatever order they ended. *)
THEOREM ReadsAreRecent == ReadSpec => []AnswersAreRecent
<1>1. DashInit => ReadInv
  <2> SUFFICES ASSUME DashInit PROVE ReadInv
    OBVIOUS
  <2>1. NoRequest \in ReadRecord /\ NoRequest.at = "idle"
    BY DEF NoRequest, ReadRecord
  <2>2. ReadShape
    BY <2>1 DEF DashInit, ReadShape
  <2>3. NoYoungerThanStamped
    BY DashboardAssumption DEF DashInit, NoYoungerThanStamped
  <2> QED BY <2>2, <2>3 DEF ReadInv, DashInit, AnswersAreRecent
<1>2. ReadInv => AnswersAreRecent
  BY DEF ReadInv
<1> QED BY <1>1, <1>2, ReadStep, PTL DEF ReadSpec

----------------------------------------------------------------------------
(* PaperTrades: the book of trades and the history of profits. *)

PaperTrade ==
  [status : {"NONE", "OPEN", "CLOSED"}, entry : Int, unrealized : Int, realized : Int]

PaperShape ==
  /\ validated \in Seq([id : Signals, side : {"long", "short"}, valid : BOOLEAN,
                        quality : Qualities])
  /\ paperTrades \in [Signals -> PaperTrade]
  /\ performance \in Seq(Int)
  /\ started \in Nat

PaperInv == PaperShape /\ ProfitsAddUp

LEMMA ProfitTyped ==
  ASSUME PaperShape, NEW id \in Signals, NEW price \in PaperPrices
  PROVE  Profit(id, price) \in Int
<1>1. Direction(id) = 1 \/ Direction(id) = -1
  BY DEF Direction
<1>2. price - paperTrades[id].entry \in Int
  <2>1. price \in Int /\ paperTrades[id] \in PaperTrade
    BY PaperAssumption DEF PaperShape
  <2> QED BY <2>1 DEF PaperTrade
<1>3. CASE Direction(id) = 1
  BY <1>2, <1>3 DEF Profit
<1>4. CASE Direction(id) = -1
  BY <1>2, <1>4 DEF Profit
<1> QED BY <1>1, <1>3, <1>4

LEMMA OpenFinite ==
  ASSUME NEW status
  PROVE  IsFiniteSet(WithStatus(status)) /\ Cardinality(WithStatus(status)) \in Nat
<1>1. WithStatus(status) \in SUBSET Signals /\ IsFiniteSet(Signals)
  BY PaperAssumption DEF WithStatus
<1>2. IsFiniteSet(WithStatus(status))
  BY <1>1, FS_Subset
<1> QED BY <1>2, FS_CardinalityType

LEMMA OpensMore ==
  ASSUME PaperShape, NEW id \in Signals, NEW entry \in Int,
         paperTrades' = [paperTrades EXCEPT ![id] =
           [status |-> "OPEN", entry |-> entry, unrealized |-> 0, realized |-> 0]]
  PROVE  /\ paperTrades' \in [Signals -> PaperTrade]
         /\ Cardinality(WithStatus("OPEN")') <= Cardinality(WithStatus("OPEN")) + 1
         /\ \A s \in WithStatus("CLOSED")' :
              s \in WithStatus("CLOSED") /\ paperTrades'[s].realized = paperTrades[s].realized
<1>1. paperTrades' \in [Signals -> PaperTrade]
  BY DEF PaperShape, PaperTrade
<1>2. WithStatus("OPEN")' = WithStatus("OPEN") \cup {id}
  BY DEF WithStatus, PaperShape
<1>3. Cardinality(WithStatus("OPEN") \cup {id})
        = IF id \in WithStatus("OPEN") THEN Cardinality(WithStatus("OPEN"))
          ELSE Cardinality(WithStatus("OPEN")) + 1
  BY OpenFinite, FS_AddElement, Zenon
<1>4. \A s \in WithStatus("CLOSED")' :
        s \in WithStatus("CLOSED") /\ paperTrades'[s].realized = paperTrades[s].realized
  BY DEF WithStatus, PaperShape
<1>5. Cardinality(WithStatus("OPEN")) \in Nat
  BY OpenFinite
<1>6. Cardinality(WithStatus("OPEN")') = Cardinality(WithStatus("OPEN") \cup {id})
  BY <1>2
<1>7. Cardinality(WithStatus("OPEN")') <= Cardinality(WithStatus("OPEN")) + 1
  BY <1>3, <1>5, <1>6
<1> QED BY <1>1, <1>4, <1>7

LEMMA ClosesOne ==
  ASSUME PaperInv, NEW id \in Signals, NEW price \in PaperPrices, ClosePaperTrade(id, price)
  PROVE  PaperInv'
<1>1. Profit(id, price) \in Int
  BY ProfitTyped DEF PaperInv
<1>2. paperTrades[id].status = "OPEN" /\ paperTrades \in [Signals -> PaperTrade]
  BY DEF ClosePaperTrade, MayClose, PaperInv, PaperShape
<1>3. /\ paperTrades' = [paperTrades EXCEPT ![id].status = "CLOSED", ![id].realized = Profit(id, price)]
      /\ validated' = validated /\ started' = started
  BY DEF ClosePaperTrade
<1>4. paperTrades' \in [Signals -> PaperTrade]
  BY <1>1, <1>2, <1>3, Zenon DEF PaperTrade
<1>5. WithStatus("OPEN")' = WithStatus("OPEN") \ {id} /\ id \in WithStatus("OPEN")
  BY <1>2, <1>3 DEF WithStatus, PaperTrade
<1>6. Cardinality(WithStatus("OPEN")') = Cardinality(WithStatus("OPEN")) - 1
  <2>1. Cardinality(WithStatus("OPEN") \ {id})
          = IF id \in WithStatus("OPEN") THEN Cardinality(WithStatus("OPEN")) - 1
            ELSE Cardinality(WithStatus("OPEN"))
    BY OpenFinite, FS_RemoveElement, Zenon
  <2> QED BY <1>5, <2>1
<1>7. \A s \in WithStatus("CLOSED")' :
        \/ s = id /\ paperTrades'[s].realized = Profit(id, price)
        \/ s \in WithStatus("CLOSED") /\ paperTrades'[s].realized = paperTrades[s].realized
  BY <1>2, <1>3 DEF WithStatus, PaperTrade
<1> DEFINE profits == Append(performance, Profit(id, price))
<1>8. /\ profits \in Seq(Int) /\ Len(profits) = Len(performance) + 1 /\ Len(performance) \in Nat
      /\ \A k \in 1..Len(performance) : profits[k] = performance[k]
      /\ profits[Len(profits)] = Profit(id, price)
  BY <1>1, AppendProperties DEF PaperInv, PaperShape
<1>9. performance' = IF Len(profits) > HistoryKept THEN Trimmed(profits) ELSE profits
  BY DEF ClosePaperTrade
<1> HIDE DEF profits
<1>10. HistoryKept \in Nat /\ HistoryKept > 0
  BY PaperAssumption
<1>11. CASE Len(profits) > HistoryKept
  <2> DEFINE first == Len(profits) - HistoryKept + 1
  <2>1. /\ first \in Int /\ Len(profits) \in Int /\ first <= Len(profits) /\ first >= 1
        /\ Len(profits) - first + 1 = HistoryKept
    BY <1>8, <1>10, <1>11
  <2>2. \A k \in first..Len(profits) : profits[k] \in Int
    BY <1>8, <2>1
  <2>3. performance' = SubSeq(profits, first, Len(profits))
    BY <1>9, <1>11, Zenon DEF Trimmed
  <2> HIDE DEF first
  <2>4. performance' \in Seq(Int) /\ Len(performance') = Len(profits) - first + 1
    BY <2>1, <2>2, <2>3, SubSeqProperties
  <2>5. Len(performance') = HistoryKept /\ HistoryKept <= Len(performance)
    BY <1>8, <1>10, <1>11, <2>1, <2>4
  <2>6. Len(performance') + Cardinality(WithStatus("OPEN")') <= started'
    BY <1>3, <1>6, <1>8, <1>10, <2>5, OpenFinite DEF PaperInv, PaperShape, ProfitsAddUp
  <2> QED BY <1>3, <1>4, <1>10, <2>4, <2>5, <2>6 DEF PaperInv, PaperShape, ProfitsAddUp
<1>12. CASE ~(Len(profits) > HistoryKept)
  <2>1. performance' = profits
    BY <1>9, <1>12
  <2>2. Len(performance') + Cardinality(WithStatus("OPEN")') <= started'
    BY <1>3, <1>6, <1>8, <2>1, OpenFinite DEF PaperInv, PaperShape, ProfitsAddUp
  <2>3. \A k \in 1..Len(profits) : profits[k] \in Range(profits)
    BY <1>8 DEF Range
  <2>4. \A x \in Range(performance) : x \in Range(profits)
    <3>1. performance \in Seq(Int) /\ DOMAIN performance = 1..Len(performance)
      BY DEF PaperInv, PaperShape
    <3>2. \A k \in DOMAIN performance : k \in 1..Len(profits) /\ performance[k] = profits[k]
      BY <1>8, <3>1
    <3> QED BY <2>3, <3>2 DEF Range
  <2>5. ASSUME Len(performance') < HistoryKept, NEW s \in WithStatus("CLOSED")'
        PROVE  paperTrades'[s].realized \in Range(performance')
    <3>1. CASE s = id /\ paperTrades'[s].realized = Profit(id, price)
      BY <1>8, <2>1, <2>3, <3>1
    <3>2. CASE s \in WithStatus("CLOSED") /\ paperTrades'[s].realized = paperTrades[s].realized
      <4>1. Len(performance) < HistoryKept
        BY <1>8, <1>10, <2>1, <2>5
      <4>2. paperTrades[s].realized \in Range(performance)
        BY <3>2, <4>1 DEF PaperInv, ProfitsAddUp
      <4> QED BY <2>1, <2>4, <3>2, <4>2
    <3> QED BY <1>7, <3>1, <3>2
  <2> QED BY <1>3, <1>4, <1>8, <2>1, <2>2, <2>5, Zenon DEF PaperInv, PaperShape, ProfitsAddUp
<1> QED BY <1>11, <1>12

LEMMA PaperStep == PaperInv /\ [PaperNext]_paperVars => PaperInv'
<1> SUFFICES ASSUME PaperInv, [PaperNext]_paperVars PROVE PaperInv'
  OBVIOUS
<1> USE DEF PaperInv
<1>1. ASSUME NEW id \in Signals, NEW side \in {"long", "short"}, NEW confidence \in Confidences,
             NEW fits \in BOOLEAN, NEW calm \in 0..2, NEW tight \in 0..2,
             ValidateSignal(id, side, confidence, fits, calm, tight)
      PROVE  PaperInv'
  <2>1. AssessQuality(confidence, calm, tight) \in Qualities
    BY DEF AssessQuality, Qualities
  <2>2. validated' \in Seq([id : Signals, side : {"long", "short"}, valid : BOOLEAN,
                            quality : Qualities])
    BY <1>1, <2>1 DEF ValidateSignal, PaperShape
  <2>3. UNCHANGED <<paperTrades, performance, started>>
    BY <1>1 DEF ValidateSignal
  <2> QED BY <2>2, <2>3 DEF PaperShape, ProfitsAddUp, WithStatus
<1>2. ASSUME NEW i \in 1..MaxValidated, NEW price \in PaperPrices, StartPaperTrade(i, price)
      PROVE  PaperInv'
  <2>1. validated[i].id \in Signals /\ price \in Int
    <3>1. /\ i \in 1..Len(validated)
          /\ validated \in Seq([id : Signals, side : {"long", "short"}, valid : BOOLEAN,
                                quality : Qualities])
      BY <1>2 DEF StartPaperTrade, PaperShape
    <3>2. validated[i] \in [id : Signals, side : {"long", "short"}, valid : BOOLEAN,
                            quality : Qualities]
      BY <3>1, SeqShape, Zenon
    <3> QED BY <3>2, PaperAssumption
  <2>2. /\ paperTrades' = [paperTrades EXCEPT ![validated[i].id] =
             [status |-> "OPEN", entry |-> price, unrealized |-> 0, realized |-> 0]]
        /\ started' = started + 1 /\ UNCHANGED <<validated, performance>>
    BY <1>2 DEF StartPaperTrade
  <2>3. /\ paperTrades' \in [Signals -> PaperTrade]
        /\ Cardinality(WithStatus("OPEN")') <= Cardinality(WithStatus("OPEN")) + 1
        /\ \A s \in WithStatus("CLOSED")' :
             s \in WithStatus("CLOSED") /\ paperTrades'[s].realized = paperTrades[s].realized
    BY <2>1, <2>2, OpensMore, Zenon
  <2>4. Cardinality(WithStatus("OPEN")) \in Nat /\ Cardinality(WithStatus("OPEN")') \in Nat
    <3>1. WithStatus("OPEN")' \in SUBSET Signals
      BY DEF WithStatus
    <3>2. IsFiniteSet(WithStatus("OPEN")')
      BY <3>1, PaperAssumption, FS_Subset
    <3> QED BY <3>2, OpenFinite, FS_CardinalityType
  <2>5. ProfitsAddUp'
    <3>1. Len(performance') + Cardinality(WithStatus("OPEN")') <= started'
      BY <2>2, <2>3, <2>4 DEF PaperShape, ProfitsAddUp
    <3> QED BY <2>2, <2>3, <3>1 DEF ProfitsAddUp
  <2> QED BY <2>2, <2>3, <2>5 DEF PaperShape
<1>3. ASSUME NEW id \in Signals, NEW price \in PaperPrices, UpdatePaperTrade(id, price)
      PROVE  PaperInv'
  <2>1. /\ paperTrades' = [paperTrades EXCEPT ![id].unrealized = Profit(id, price)]
        /\ UNCHANGED <<validated, performance, started>>
    BY <1>3 DEF UpdatePaperTrade
  <2>2. paperTrades' \in [Signals -> PaperTrade]
    BY <2>1, ProfitTyped, Zenon DEF PaperShape, PaperTrade
  <2>3. \A s \in Signals : /\ paperTrades'[s].status = paperTrades[s].status
                           /\ paperTrades'[s].realized = paperTrades[s].realized
    BY <2>1 DEF PaperShape, PaperTrade
  <2>4. \A status : WithStatus(status)' = WithStatus(status)
    BY <2>3 DEF WithStatus
  <2>5. ProfitsAddUp'
    <3>1. /\ WithStatus("OPEN")' = WithStatus("OPEN")
          /\ WithStatus("CLOSED")' = WithStatus("CLOSED") /\ WithStatus("CLOSED") \subseteq Signals
      BY <2>4 DEF WithStatus
    <3> QED BY <2>1, <2>3, <3>1 DEF ProfitsAddUp
  <2> QED BY <2>1, <2>2, <2>5 DEF PaperShape
<1>4. ASSUME NEW id \in Signals, NEW price \in PaperPrices, ClosePaperTrade(id, price)
      PROVE  PaperInv'
  BY <1>4, ClosesOne
<1>5. CASE UNCHANGED paperVars
  BY <1>5 DEF paperVars, PaperShape, ProfitsAddUp, WithStatus
<1> QED BY <1>1, <1>2, <1>3, <1>4, <1>5 DEF PaperNext

(* No paper trade gives two profits, and every closed one's profit is in the history
   while that still covers it, for any signals, prices and length of the history. *)
THEOREM PaperBooksAgree == PaperSpec => []ProfitsAddUp
<1>1. PaperInit => PaperInv
  <2> SUFFICES ASSUME PaperInit PROVE PaperInv
    OBVIOUS
  <2>1. PaperShape
    BY DEF PaperInit, PaperShape, PaperTrade, NoTrade
  <2>2. WithStatus("OPEN") = {} /\ WithStatus("CLOSED") = {}
    BY DEF PaperInit, WithStatus, NoTrade
  <2>3. Cardinality(WithStatus("OPEN")) = 0 /\ Len(performance) = 0 /\ started = 0
    BY <2>2, FS_EmptySet DEF PaperInit
  <2> QED BY <2>1, <2>2, <2>3 DEF PaperInv, ProfitsAddUp
<1>2. PaperInv => ProfitsAddUp
  BY DEF PaperInv
<1> QED BY <1>1, <1>2, PaperStep, PTL DEF PaperSpec

----------------------------------------------------------------------------
(* CircuitBreaker: its state, its count and the tests it earned. *)

USE BreakerAssumption

BreakerInv == TypeOK /\ StateFollowsCount /\ Earned

LEMMA BreakerStarts == Init => BreakerInv
  BY DEF Init, BreakerInit, BreakerInv, TypeOK, StateFollowsCount, Earned

LEMMA CallStep ==
  ASSUME BreakerInv, NEW c \in Callers, Call(c)
  PROVE  BreakerInv'
<1>1. caller' \in [Callers -> {"idle", "answered", "failing"}] /\ up' \in BOOLEAN
  BY DEF Call, BreakerInv, TypeOK
<1>2. CASE state # "OPEN" /\ UNCHANGED breaker
  BY <1>1, <1>2 DEF BreakerInv, TypeOK, StateFollowsCount, Earned, breaker
<1>3. CASE /\ state = "OPEN" /\ sinceFailure = Timeout
           /\ state' = "HALF_OPEN" /\ successes' = 0
           /\ UNCHANGED <<failures, sinceFailure, closing>>
  BY <1>1, <1>3 DEF BreakerInv, TypeOK, StateFollowsCount, Earned
<1> QED BY <1>2, <1>3 DEF Call, Admits

LEMMA SucceedStep ==
  ASSUME BreakerInv, NEW c \in Callers, Succeed(c)
  PROVE  BreakerInv'
<1>1. caller' \in [Callers -> {"idle", "answered", "failing"}] /\ up' \in BOOLEAN
  BY DEF Succeed, BreakerInv, TypeOK
<1>2. RecordSuccess /\ closing < MaxClosing
  BY DEF Succeed
<1>3. CASE state = "HALF_OPEN"
  BY <1>1, <1>2, <1>3 DEF RecordSuccess, Counted, BreakerInv, TypeOK, StateFollowsCount, Earned
<1>4. CASE state # "HALF_OPEN"
  BY <1>1, <1>2, <1>4 DEF RecordSuccess, Counted, BreakerInv, TypeOK, StateFollowsCount, Earned
<1> QED BY <1>3, <1>4

LEMMA FailStep ==
  ASSUME BreakerInv, NEW c \in Callers, Fail(c)
  PROVE  BreakerInv'
<1>1. caller' \in [Callers -> {"idle", "answered", "failing"}] /\ up' \in BOOLEAN
  BY DEF Fail, BreakerInv, TypeOK
<1>2. RecordFailure
  BY DEF Fail
<1> QED
  BY <1>1, <1>2 DEF RecordFailure, Counted, BreakerInv, TypeOK, StateFollowsCount, Earned

LEMMA BreakerInvStep == BreakerInv /\ [Next]_vars => BreakerInv'
<1> SUFFICES ASSUME BreakerInv, [Next]_vars PROVE BreakerInv'
  OBVIOUS
<1>1. ASSUME NEW c \in Callers, Call(c) PROVE BreakerInv'
  BY <1>1, CallStep
<1>2. ASSUME NEW c \in Callers, Succeed(c) PROVE BreakerInv'
  BY <1>2, SucceedStep
<1>3. ASSUME NEW c \in Callers, Fail(c) PROVE BreakerInv'
  BY <1>3, FailStep
<1>4. ASSUME NEW c \in Callers, Abandon(c) PROVE BreakerInv'
  BY <1>4 DEF Abandon, breaker, BreakerInv, TypeOK, StateFollowsCount, Earned
<1>5. CASE Close /\ UNCHANGED <<caller, up>>
  BY <1>5 DEF Close, BreakerInv, TypeOK, StateFollowsCount, Earned
<1>6. CASE Reset /\ UNCHANGED <<caller, up>>
  BY <1>6 DEF Reset, BreakerInv, TypeOK, StateFollowsCount, Earned
<1>7. CASE Tick /\ UNCHANGED <<caller, up>>
  BY <1>7 DEF Tick, Counted, BreakerInv, TypeOK, StateFollowsCount, Earned
<1>8. CASE VenueChanges
  BY <1>8 DEF VenueChanges, breaker, BreakerInv, TypeOK, StateFollowsCount, Earned
<1>9. CASE UNCHANGED vars
  BY <1>9 DEF vars, BreakerInv, TypeOK, StateFollowsCount, Earned
<1> QED
  BY <1>1, <1>2, <1>3, <1>4, <1>5, <1>6, <1>7, <1>8, <1>9 DEF Next, BreakerStep

(* The inductive invariant, for any number of tasks and any thresholds. *)
THEOREM BreakerInvHolds == Spec => []BreakerInv
  BY BreakerStarts, BreakerInvStep, PTL DEF Spec

(* The breaker is closed exactly while it has counted fewer failures than the
   threshold. *)
THEOREM StateFollows == Spec => []StateFollowsCount
<1>1. BreakerInv => StateFollowsCount
  BY DEF BreakerInv
<1> QED BY <1>1, BreakerInvHolds, PTL

LEMMA ClosingStep ==
  ASSUME BreakerInv, [Next]_vars, closing' < closing, state # "CLOSED", state' = "CLOSED"
  PROVE  state = "HALF_OPEN" /\ successes = Probes
<1>0. closing \in Nat
  BY DEF BreakerInv, TypeOK
<1>1. ASSUME NEW c \in Callers, Call(c) PROVE closing' \in {closing, closing + 1}
  BY <1>0, <1>1 DEF Call, Admits, breaker
<1>2. ASSUME NEW c \in Callers, Succeed(c) PROVE closing' \in {closing, closing + 1}
  BY <1>0, <1>2 DEF Succeed, RecordSuccess
<1>3. ASSUME NEW c \in Callers, Fail(c) \/ Abandon(c) PROVE closing' \in {closing, closing + 1}
  BY <1>0, <1>3 DEF Fail, RecordFailure, Abandon, breaker
<1>4. CASE (Reset \/ Tick) /\ UNCHANGED <<caller, up>>
  BY <1>0, <1>4 DEF Reset, Tick
<1>5. CASE VenueChanges \/ UNCHANGED vars
  BY <1>0, <1>5 DEF VenueChanges, breaker, vars
<1>6. CASE Close
  <2>1. state = "HALF_OPEN" /\ closing > 0
    BY <1>0, <1>6 DEF Close
  <2> QED BY <2>1 DEF BreakerInv, Earned
<1>7. ~(closing' \in {closing, closing + 1})
  BY <1>0
<1> QED
  BY <1>1, <1>2, <1>3, <1>4, <1>5, <1>6, <1>7 DEF Next, BreakerStep

(* A close that was scheduled before the test failed, and runs after another has
   begun, does not end that other test. *)
THEOREM ClosesOnlyOnProbes == Spec => ClosesOnProbes
<1>1. BreakerInv /\ [Next]_vars =>
        [(closing' < closing /\ state # "CLOSED" /\ state' = "CLOSED")
           => state = "HALF_OPEN" /\ successes = Probes]_vars
  BY ClosingStep
<1> QED BY <1>1, BreakerInvHolds, PTL DEF Spec, ClosesOnProbes
=============================================================================
