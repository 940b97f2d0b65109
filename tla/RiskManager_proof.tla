------------------------- MODULE RiskManager_proof -------------------------
(***************************************************************************)
(* Proofs about RiskManager.  The book's come first and need nothing of    *)
(* the account, which decides what its methods do and not what the book    *)
(* is left with.  The account's rest on the order in which the positions   *)
(* of a batch are closed: the pause after a breach keeps entries out.      *)
(***************************************************************************)
EXTENDS RiskManager, FiniteSetTheorems, WellFoundedInduction, TLAPS

----------------------------------------------------------------------------
(* The book. *)

LEMMA OpenTyping ==
  ASSUME BookTypeOK, NEW k \in Keys, NEW side \in Sides, NEW price \in Prices,
         NEW id \in 1..MaxSignals, OpenPosition(k, side, price, id)
  PROVE  /\ Open' = Open \cup {k}
         /\ positions' \in [Open' -> Position]
         /\ sinceTrade' \in [Symbols -> 0..Cooldown]
BY LimitsAssumption DEF BookTypeOK, OpenPosition, Position, Open, Traded

LEMMA CloseTyping ==
  ASSUME BookTypeOK, NEW keys \in SUBSET Keys, NEW priceOf,
         ClosePositions(keys, priceOf)
  PROVE  /\ Open' = Open \ keys
         /\ positions' \in [Open' -> Position]
         /\ \A k \in Open' : positions'[k] = positions[k]
         /\ sinceTrade' \in [Symbols -> 0..Cooldown]
BY LimitsAssumption DEF BookTypeOK, ClosePositions, Position, Open, Keep, Traded

----------------------------------------------------------------------------
(* What every step keeps of the book: its typing. *)

\* Every method leaves the book well typed.
LEMMA BookTypeStep ==
  ASSUME BookTypeOK, [RiskNext]_riskVars
  PROVE  BookTypeOK'
<1>1. ASSUME NEW k \in Keys, NEW side \in Sides, NEW price \in Prices,
             Enter(k, side, price)
      PROVE  BookTypeOK'
  <2>1. signals' = signals + 1 /\ signals + 1 \in 1..MaxSignals /\ killed' = killed
    BY <1>1, LimitsAssumption DEF Enter, BookTypeOK
  <2>2. OpenPosition(k, side, price, signals + 1)
    BY <1>1 DEF Enter
  <2>3. /\ Open' = Open \cup {k}
        /\ positions' \in [Open' -> Position]
        /\ sinceTrade' \in [Symbols -> 0..Cooldown]
    BY <2>1, <2>2, OpenTyping
  <2>4. signals' \in 0..MaxSignals /\ killed' \in BOOLEAN
    BY <2>1, LimitsAssumption DEF BookTypeOK
  <2>. QED
    BY <2>3, <2>4 DEF BookTypeOK
<1>2. ASSUME NEW k \in Keys, NEW price \in Prices, UpdatePrice(k, price)
      PROVE  BookTypeOK'
  <2>1. positions[k] \in Position
    BY <1>2 DEF UpdatePrice, BookTypeOK
  <2>2. [positions[k] EXCEPT !.price = price] \in Position
    BY <2>1 DEF Position
  <2>. QED
    BY <1>2, <2>2 DEF UpdatePrice, BookTypeOK, Open
<1>3. ASSUME NEW keys \in SUBSET Keys, NEW priceOf, ClosePositions(keys, priceOf),
             killed' \in BOOLEAN, signals' = signals
      PROVE  BookTypeOK'
  BY <1>3, CloseTyping DEF BookTypeOK, Open
<1>4. ASSUME NEW k \in Keys, NEW price \in Prices, Close(k, price)
      PROVE  BookTypeOK'
  BY <1>3, <1>4 DEF Close, BookTypeOK
<1>5. ASSUME NEW venues \in SUBSET Exchanges, CloseVenues(venues)
      PROVE  BookTypeOK'
  BY <1>3, <1>5 DEF CloseVenues, BookTypeOK
<1>6. CASE ActivateKillSwitch \/ CloseAllByKilling
  BY <1>3, <1>6 DEF ActivateKillSwitch, CloseAllByKilling, BookTypeOK
<1>7. CASE DeactivateKillSwitch \/ ReadBreaker \/ ResetBreaker
  BY <1>7 DEF DeactivateKillSwitch, ReadBreaker, ResetBreaker, BookTypeOK, Open
<1>8. CASE PassTime
  BY <1>8, LimitsAssumption DEF PassTime, Older, BookTypeOK, Open
<1>9. CASE UNCHANGED riskVars
  BY <1>9 DEF riskVars, BookTypeOK, Open
<1>. QED
  BY <1>1, <1>2, <1>4, <1>5, <1>6, <1>7, <1>8, <1>9 DEF RiskNext

LEMMA RiskInitTyping == RiskInit => BookTypeOK
<1>. SUFFICES ASSUME RiskInit PROVE BookTypeOK
  OBVIOUS
<1>1. Open = {} /\ positions \in [{} -> Position]
  BY DEF RiskInit, Open
<1>2. sinceTrade \in [Symbols -> 0..Cooldown] /\ signals \in 0..MaxSignals
  BY LimitsAssumption DEF RiskInit
<1>. QED
  BY <1>1, <1>2 DEF RiskInit, BookTypeOK, Open

\* The book is well typed, for every limit, price set and number of keys.
THEOREM BookTypeCorrect == RiskSpec => []BookTypeOK
BY RiskInitTyping, BookTypeStep, PTL DEF RiskSpec

----------------------------------------------------------------------------
(* The kill switch. *)

\* While the switch is on nothing is open: approve_signal refuses as long as
\* it is on, and throwing it empties the book.
THEOREM KilledIsFlat == RiskSpec => []KilledMeansFlat
<1>1. RiskInit => KilledMeansFlat
  BY DEF RiskInit, KilledMeansFlat
<1>2. KilledMeansFlat /\ BookTypeOK /\ [RiskNext]_riskVars => KilledMeansFlat'
  <2>. SUFFICES ASSUME KilledMeansFlat, BookTypeOK, [RiskNext]_riskVars
                PROVE  KilledMeansFlat'
    OBVIOUS
  <2>1. ASSUME NEW k \in Keys, NEW side \in Sides, NEW price \in Prices,
               Enter(k, side, price)
        PROVE  KilledMeansFlat'
    BY <2>1 DEF Enter, Approvable, KilledMeansFlat
  <2>2. ASSUME NEW k \in Keys, NEW price \in Prices,
               UpdatePrice(k, price) \/ Close(k, price)
        PROVE  KilledMeansFlat'
    BY <2>2 DEF UpdatePrice, Close, KilledMeansFlat, Open
  <2>3. ASSUME NEW venues \in SUBSET Exchanges, CloseVenues(venues)
        PROVE  KilledMeansFlat'
    BY <2>3, CloseTyping DEF CloseVenues, KilledMeansFlat, BookTypeOK
  <2>4. CASE ActivateKillSwitch
    BY <2>4, CloseTyping DEF ActivateKillSwitch, KilledMeansFlat, BookTypeOK
  <2>5. CASE DeactivateKillSwitch \/ CloseAllByKilling
    BY <2>5 DEF DeactivateKillSwitch, CloseAllByKilling, KilledMeansFlat
  <2>6. CASE ReadBreaker \/ ResetBreaker \/ PassTime
    BY <2>6 DEF ReadBreaker, ResetBreaker, PassTime, KilledMeansFlat, Open
  <2>7. CASE UNCHANGED riskVars
    BY <2>7 DEF riskVars, KilledMeansFlat, Open
  <2>. QED
    BY <2>1, <2>2, <2>3, <2>4, <2>5, <2>6, <2>7 DEF RiskNext
<1>. QED
  BY <1>1, <1>2, BookTypeCorrect, PTL DEF RiskSpec

----------------------------------------------------------------------------
(* The position limit. *)

LEMMA OpenIsFinite ==
  ASSUME BookTypeOK
  PROVE  IsFiniteSet(Open) /\ Cardinality(Open) \in Nat
<1>1. IsFiniteSet(Keys)
  BY FiniteKeys, FS_Product DEF Keys
<1>2. IsFiniteSet(Open)
  BY <1>1, FS_Subset DEF BookTypeOK
<1>. QED
  BY <1>2, FS_CardinalityType

\* Only an approved signal opens anything.
LEMMA OnlySignalsOpen ==
  ASSUME BookTypeOK, [RiskNext]_riskVars, signals' = signals
  PROVE  Open' \subseteq Open
<1>1. ASSUME NEW k \in Keys, NEW side \in Sides, NEW price \in Prices
      PROVE  ~Enter(k, side, price)
  BY LimitsAssumption DEF Enter, BookTypeOK
<1>2. ASSUME NEW k \in Keys, NEW price \in Prices,
             UpdatePrice(k, price) \/ Close(k, price)
      PROVE  Open' \subseteq Open
  BY <1>2, CloseTyping DEF UpdatePrice, Close, Open
<1>3. ASSUME NEW venues \in SUBSET Exchanges, CloseVenues(venues)
      PROVE  Open' \subseteq Open
  BY <1>3, CloseTyping DEF CloseVenues, BookTypeOK
<1>4. CASE ActivateKillSwitch \/ CloseAllByKilling
  BY <1>4, CloseTyping DEF ActivateKillSwitch, CloseAllByKilling, BookTypeOK
<1>5. CASE DeactivateKillSwitch \/ ReadBreaker \/ ResetBreaker \/ PassTime
  BY <1>5 DEF DeactivateKillSwitch, ReadBreaker, ResetBreaker, PassTime, Open
<1>6. CASE UNCHANGED riskVars
  BY <1>6 DEF riskVars, Open
<1>. QED
  BY <1>1, <1>2, <1>3, <1>4, <1>5, <1>6 DEF RiskNext

LEMMA EnterKeepsLimit ==
  ASSUME BookTypeOK, NEW k \in Keys, NEW side \in Sides, NEW price \in Prices,
         Enter(k, side, price)
  PROVE  MaxOpenRespected'
<1>1. Open' = Open \cup {k}
  BY DEF Enter, OpenPosition, Open
<1>2. k \notin Open /\ Cardinality(Open) < MaxOpen
  BY DEF Enter, Approvable
<1>3. IsFiniteSet(Open) /\ Cardinality(Open) \in Nat
  BY OpenIsFinite
<1>4. Cardinality(Open \cup {k}) = Cardinality(Open) + 1
  BY <1>2, <1>3, FS_AddElement
<1>. QED
  BY <1>1, <1>2, <1>3, <1>4, LimitsAssumption DEF MaxOpenRespected

\* There are never more open positions than max_open_positions, over all
\* exchanges together.
THEOREM MaxOpenIsRespected == RiskSpec => []MaxOpenRespected
<1>1. RiskInit => MaxOpenRespected
  <2>1. RiskInit => Open = {}
    BY DEF RiskInit, Open
  <2>. QED
    BY <2>1, FS_EmptySet, LimitsAssumption DEF MaxOpenRespected
<1>2. MaxOpenRespected /\ BookTypeOK /\ [RiskNext]_riskVars => MaxOpenRespected'
  <2>. SUFFICES ASSUME MaxOpenRespected, BookTypeOK, [RiskNext]_riskVars
                PROVE  MaxOpenRespected'
    OBVIOUS
  <2>1. CASE signals' = signals
    <3>1. Open' \subseteq Open
      BY <2>1, OnlySignalsOpen
    <3>2. Cardinality(Open') <= Cardinality(Open) /\ IsFiniteSet(Open')
      BY <3>1, OpenIsFinite, FS_Subset
    <3>. QED
      BY <3>2, OpenIsFinite, FS_CardinalityType, LimitsAssumption DEF MaxOpenRespected
  <2>2. CASE signals' # signals
    <3>1. \E k \in Keys, side \in Sides, price \in Prices : Enter(k, side, price)
      BY <2>2 DEF RiskNext, riskVars, UpdatePrice, Close, CloseVenues, ActivateKillSwitch,
         DeactivateKillSwitch, CloseAllByKilling, ReadBreaker, ResetBreaker, PassTime
    <3>. QED
      BY <3>1, EnterKeepsLimit
  <2>. QED
    BY <2>1, <2>2
<1>. QED
  BY <1>1, <1>2, BookTypeCorrect, PTL DEF RiskSpec

----------------------------------------------------------------------------
(* The account. *)

Accounts ==
  [equity : Int, dailyLoss : 0..MaxDailyLoss, peak : Nat, tripped : BOOLEAN,
   pauseLeft : 0..Pause, sinceBreach : 0..Pause]

\* What makes NoEntryDuringPause inductive: as long as the pause since the last
\* breach has not passed the breaker is tripped, and what is left of its pause
\* covers the rest.
Paused(acc) ==
  acc.sinceBreach < Pause => acc.tripped /\ acc.pauseLeft + acc.sinceBreach >= Pause

Kept(acc) == acc \in Accounts /\ Paused(acc)

LEMMA GreaterOfTwo ==
  ASSUME NEW a \in Int, NEW b \in Int
  PROVE  Max({a, b}) = IF a >= b THEN a ELSE b
<1> DEFINE IsMax(x) == x \in {a, b} /\ \A y \in {a, b} : x >= y
<1>1. \E x : IsMax(x)
  <2>1. CASE a >= b
    BY <2>1
  <2>2. CASE b >= a
    BY <2>2
  <2>. QED
    BY <2>1, <2>2
<1>2. Max({a, b}) = CHOOSE x : IsMax(x)
  BY DEF Max
<1>3. IsMax(Max({a, b}))
  <2> HIDE DEF IsMax
  <2> QED BY <1>1, <1>2
<1>. QED
  BY <1>3

LEMMA SmallerOfTwo ==
  ASSUME NEW a \in Int, NEW b \in Int
  PROVE  Min({a, b}) = IF a <= b THEN a ELSE b
<1> DEFINE IsMin(x) == x \in {a, b} /\ \A y \in {a, b} : x <= y
<1>1. \E x : IsMin(x)
  <2>1. CASE a <= b
    BY <2>1
  <2>2. CASE b <= a
    BY <2>2
  <2>. QED
    BY <2>1, <2>2
<1>2. Min({a, b}) = CHOOSE x : IsMin(x)
  BY DEF Min
<1>3. IsMin(Min({a, b}))
  <2> HIDE DEF IsMin
  <2> QED BY <1>1, <1>2
<1>. QED
  BY <1>3

\* A close moves the amounts, and leaves the pause alone or starts it again.
LEMMA RecordKeeps ==
  ASSUME NEW acc, Kept(acc), NEW percent \in Int
  PROVE  Kept(RecordClose(acc, percent))
<1> DEFINE equity == acc.equity + (percent * Notional) \div 100
           loss   == Min({MaxDailyLoss, acc.dailyLoss + Max({0, -percent})})
           peak   == Max({acc.peak, equity})
           moved  == [acc EXCEPT !.equity = equity, !.dailyLoss = loss, !.peak = peak]
           breach == moved.dailyLoss >= MaxDailyLoss \/ DrawdownBreached(moved)
           tripped == [moved EXCEPT !.tripped = TRUE, !.pauseLeft = Pause, !.sinceBreach = 0]
<1>1. RecordClose(acc, percent) = IF breach THEN tripped ELSE moved
  BY DEF RecordClose
<1>2. acc \in Accounts
  BY DEF Kept
<1>3. equity \in Int
  BY <1>2, LimitsAssumption DEF Accounts
<1>4. loss \in 0..MaxDailyLoss
  <2>1. Max({0, -percent}) \in Nat
    BY GreaterOfTwo
  <2>2. acc.dailyLoss \in Nat /\ MaxDailyLoss \in Nat
    BY <1>2, LimitsAssumption DEF Accounts
  <2>. QED
    BY <2>1, <2>2, SmallerOfTwo
<1>5. peak \in Nat
  <2> HIDE DEF equity
  <2>1. acc.peak \in Nat
    BY <1>2 DEF Accounts
  <2>. QED
    BY <1>3, <2>1, GreaterOfTwo
<1> HIDE DEF equity, loss, peak
<1>6. /\ moved \in Accounts /\ moved.tripped = acc.tripped
      /\ moved.pauseLeft = acc.pauseLeft /\ moved.sinceBreach = acc.sinceBreach
  BY <1>2, <1>3, <1>4, <1>5 DEF Accounts
<1> HIDE DEF moved
<1>7. /\ tripped \in Accounts /\ tripped.tripped = TRUE
      /\ tripped.pauseLeft = Pause /\ tripped.sinceBreach = 0
  <2>1. moved \in Accounts
    BY <1>6
  <2>2. Pause \in 0..Pause /\ 0 \in 0..Pause
    BY LimitsAssumption
  <2>. QED
    BY <2>1, <2>2 DEF Accounts
<1> HIDE DEF tripped, breach
<1>8. Kept(moved)
  BY <1>6 DEF Kept, Paused
<1>9. Kept(tripped)
  BY <1>7, LimitsAssumption DEF Kept, Paused
<1>. QED
  BY <1>1, <1>8, <1>9

LEMMA FirstNatural ==
  ASSUME NEW S, S \subseteq Nat, S # {}
  PROVE  \E n \in S : \A m \in S : n <= m
<1>1. PICK x \in S : \A y \in S : ~(<<y, x>> \in OpToRel(<, Nat))
  BY NatLessThanWellFounded, WFMin
<1>2. \A y \in S : ~(y < x)
  BY <1>1 DEF OpToRel
<1>. QED
  BY <1>2

\* g holds the account after each of N closes, one after another.
Chained(g, acc, result, N) ==
  g = [n \in 0..N |-> IF n = 0 THEN acc ELSE RecordClose(g[n - 1], result[n])]

LEMMA ClosesAreDefined ==
  ASSUME NEW acc, NEW result, NEW N \in Nat
  PROVE  \E g : Chained(g, acc, result, N)
<1> DEFINE Defined(m) ==
      \E g : g = [n \in 0..m |-> IF n = 0 THEN acc ELSE RecordClose(g[n - 1], result[n])]
           Not == {m \in Nat : ~Defined(m)}
<1>1. Defined(0)
  <2> DEFINE g == [n \in 0..0 |-> acc]
  <2>1. g = [n \in 0..0 |-> IF n = 0 THEN acc ELSE RecordClose(g[n - 1], result[n])]
    OBVIOUS
  <2>. QED
    BY <2>1
<1>2. ASSUME NEW m \in Nat, Defined(m)
      PROVE  Defined(m + 1)
  <2>1. PICK g : g = [n \in 0..m |-> IF n = 0 THEN acc ELSE RecordClose(g[n - 1], result[n])]
    BY <1>2
  <2> DEFINE h == [n \in 0..m + 1 |->
                     IF n = m + 1 THEN RecordClose(g[m], result[m + 1]) ELSE g[n]]
  <2>2. \A n \in 0..m : h[n] = g[n]
    OBVIOUS
  <2>3. \A n \in 0..m + 1 : h[n] = IF n = 0 THEN acc ELSE RecordClose(h[n - 1], result[n])
    <3> SUFFICES ASSUME NEW n \in 0..m + 1
                 PROVE  h[n] = IF n = 0 THEN acc ELSE RecordClose(h[n - 1], result[n])
      OBVIOUS
    <3>1. CASE n = m + 1
      <4>1. h[n] = RecordClose(g[m], result[m + 1]) /\ h[n - 1] = g[m] /\ n # 0
        BY <2>2, <3>1
      <4>. QED
        BY <3>1, <4>1
    <3>2. CASE n \in 0..m
      <4>1. h[n] = g[n] /\ (n # 0 => h[n - 1] = g[n - 1])
        BY <2>2, <3>2
      <4>2. g[n] = IF n = 0 THEN acc ELSE RecordClose(g[n - 1], result[n])
        BY <2>1, <3>2
      <4>. QED
        BY <4>1, <4>2
    <3>. QED
      BY <3>1, <3>2
  <2>4. h = [n \in 0..m + 1 |-> IF n = 0 THEN acc ELSE RecordClose(h[n - 1], result[n])]
    <3>1. h = [n \in 0..m + 1 |-> h[n]]
      OBVIOUS
    <3> HIDE DEF h
    <3>. QED
      BY <2>3, <3>1
  <2>. QED
    <3> HIDE DEF h
    <3> QED BY <2>4
<1>3. Not = {}
  <2> SUFFICES ASSUME Not # {} PROVE FALSE
    OBVIOUS
  <2> HIDE DEF Defined
  <2>1. PICK m \in Not : \A k \in Not : m <= k
    <3>1. Not \subseteq Nat
      OBVIOUS
    <3> HIDE DEF Not
    <3> QED BY <3>1, FirstNatural
  <2>2. m # 0 /\ m \in Nat /\ ~Defined(m)
    BY <1>1
  <2>3. m - 1 \in Nat /\ Defined(m - 1)
    BY <2>1, <2>2
  <2>. QED
    BY <1>2, <2>2, <2>3
<1>. QED
  <2> HIDE DEF Defined
  <2>1. Defined(N)
    BY <1>3
  <2>. QED
    BY <2>1 DEF Defined, Chained

\* The positions that close are numbered by their ids.
LEMMA EveryNumberIsTaken ==
  ASSUME NEW keys, IsFiniteSet(keys), NEW id, \A k \in keys : id[k] \in Int,
         \A j, k \in keys : id[j] = id[k] => j = k,
         NEW n \in 1..Cardinality(keys)
  PROVE  \E k \in keys : Cardinality({j \in keys : id[j] <= id[k]}) = n
<1> DEFINE upTo(k) == {j \in keys : id[j] <= id[k]}
           N == Cardinality(keys)
           rank == [k \in keys |-> Cardinality(upTo(k))]
<1>1. N \in Nat
  BY FS_CardinalityType
<1>2. ASSUME NEW k \in keys
      PROVE  IsFiniteSet(upTo(k)) /\ Cardinality(upTo(k)) \in 1..N
  <2>1. upTo(k) \in SUBSET keys /\ k \in upTo(k)
    OBVIOUS
  <2> HIDE DEF upTo
  <2>2. IsFiniteSet(upTo(k)) /\ Cardinality(upTo(k)) <= N
    BY <2>1, FS_Subset
  <2>3. Cardinality(upTo(k)) \in Nat /\ Cardinality(upTo(k)) # 0
    BY <2>1, <2>2, FS_CardinalityType, FS_EmptySet
  <2>. QED
    BY <1>1, <2>2, <2>3
<1>3. ASSUME NEW j \in keys, NEW k \in keys, id[j] < id[k]
      PROVE  Cardinality(upTo(j)) # Cardinality(upTo(k))
  <2>1. upTo(j) \in SUBSET upTo(k) /\ k \in upTo(k) /\ k \notin upTo(j)
    BY <1>3
  <2> HIDE DEF upTo
  <2>. QED
    BY <1>2, <2>1, FS_Subset
<1>4. rank \in Injection(keys, 1..N)
  <2>1. rank \in [keys -> 1..N]
    BY <1>2
  <2>2. ASSUME NEW j \in keys, NEW k \in keys, j # k
        PROVE  rank[j] # rank[k]
    <3>1. id[j] < id[k] \/ id[k] < id[j]
      BY <2>2
    <3>2. Cardinality(upTo(j)) # Cardinality(upTo(k))
      BY <1>3, <3>1
    <3>. QED
      BY <3>2
  <2>. QED
    BY <2>1, <2>2 DEF Injection, IsInjective
<1>5. IsFiniteSet(1..N) /\ Cardinality(1..N) = N
  <2>1. IsFiniteSet(1..N) /\ Cardinality(1..N) = IF 1 > N THEN 0 ELSE N - 1 + 1
    BY <1>1, FS_Interval
  <2>. QED
    BY <1>1, <2>1
<1>6. rank \in Surjection(keys, 1..N)
  <2> HIDE DEF rank
  <2> QED BY <1>4, <1>5, FS_Injection
<1>7. \E k \in keys : rank[k] = n
  BY <1>6 DEF Surjection
<1>. QED
  BY <1>7

\* Positions have ids of their own, and whole prices.
Numbered ==
  \A j, k \in Open : /\ positions[j].id \in 1..signals
                     /\ positions[j].id = positions[k].id => j = k

LEMMA NthIsOpen ==
  ASSUME BookTypeOK, Numbered, NEW keys \in SUBSET Open, NEW n \in 1..Cardinality(keys)
  PROVE  (CHOOSE k \in keys :
            Cardinality({j \in keys : positions[j].id <= positions[k].id}) = n) \in keys
<1>1. PICK id : id = [k \in keys |-> positions[k].id]
  OBVIOUS
<1>2. \A k \in keys : id[k] = positions[k].id /\ positions[k].id \in 1..signals
  BY <1>1 DEF Numbered
<1>3. \A k \in keys : id[k] \in Int
  BY <1>2
<1>4. \A j, k \in keys : id[j] = id[k] => j = k
  BY <1>2 DEF Numbered
<1>5. IsFiniteSet(keys)
  BY OpenIsFinite, FS_Subset
<1>6. \E k \in keys : Cardinality({j \in keys : id[j] <= id[k]}) = n
  BY <1>3, <1>4, <1>5, EveryNumberIsTaken
<1>7. \A k \in keys : {j \in keys : id[j] <= id[k]}
                      = {j \in keys : positions[j].id <= positions[k].id}
  BY <1>2
<1>. QED
  BY <1>6, <1>7

LEMMA PercentIsWhole ==
  ASSUME NEW position \in Position, NEW price \in Prices
  PROVE  Percent(position, price) \in Int
<1>1. position.side \in Sides /\ position.entry \in Prices
  BY DEF Position
<1>2. Sides \subseteq Int /\ Prices \subseteq Nat \ {0}
  BY PricesAssumption
<1>3. position.side \in Int
  BY <1>1, <1>2
<1>4. position.entry \in Nat \ {0} /\ price \in Nat \ {0}
  BY <1>1, <1>2
<1>. QED
  BY <1>3, <1>4 DEF Percent

\* An account that holds each account after the one before keeps its shape to the end.
LEMMA EachCloseKeeps ==
  ASSUME NEW acc, Kept(acc), NEW N \in Nat, NEW result, \A n \in 1..N : result[n] \in Int,
         NEW g, g = [n \in 0..N |-> IF n = 0 THEN acc ELSE RecordClose(g[n - 1], result[n])]
  PROVE  Kept(g[N])
<1>1. g[0] = acc
  OBVIOUS
<1>2. \A n \in 1..N : g[n] = RecordClose(g[n - 1], result[n])
  OBVIOUS
<1>3. \A n \in 1..N : Kept(g[n - 1]) => Kept(g[n])
  BY <1>2, RecordKeeps
<1> DEFINE Bad == {n \in 0..N : ~Kept(g[n])}
<1>4. Bad = {}
  <2> SUFFICES ASSUME Bad # {} PROVE FALSE
    OBVIOUS
  <2>1. PICK n \in Bad : \A m \in Bad : n <= m
    <3>1. Bad \subseteq Nat
      OBVIOUS
    <3> HIDE DEF Bad
    <3> QED BY <3>1, FirstNatural
  <2>2. n # 0 /\ n \in 1..N
    BY <1>1
  <2>3. n - 1 \in 0..N /\ n - 1 \notin Bad
    BY <2>1, <2>2
  <2>. QED
    BY <1>3, <2>2, <2>3
<1>5. N \in 0..N
  OBVIOUS
<1>. QED
  BY <1>4, <1>5

LEMMA ClosesKeep ==
  ASSUME BookTypeOK, Numbered, Kept(account), NEW keys \in SUBSET Open, NEW priceOf,
         \A k \in keys : priceOf[k] \in Prices
  PROVE  Kept(CloseInOrder(account, keys, priceOf))
<1> DEFINE nth(n) == CHOOSE k \in keys :
                       Cardinality({j \in keys : positions[j].id <= positions[k].id}) = n
           percent(n) == Percent(positions[nth(n)], priceOf[nth(n)])
           IsAfter(g) == g = [n \in 0..Cardinality(keys) |->
             IF n = 0 THEN account ELSE RecordClose(g[n - 1], percent(n))]
<1>1. CloseInOrder(account, keys, priceOf) = (CHOOSE g : IsAfter(g))[Cardinality(keys)]
  BY DEF CloseInOrder
<1>2. Cardinality(keys) \in Nat
  BY OpenIsFinite, FS_Subset, FS_CardinalityType
<1>3. \A n \in 1..Cardinality(keys) : nth(n) \in keys
  BY NthIsOpen
<1> HIDE DEF nth
<1>4. \A n \in 1..Cardinality(keys) : percent(n) \in Int
  <2>1. \A k \in keys : positions[k] \in Position
    BY DEF BookTypeOK
  <2>. QED
    BY <1>3, <2>1, PercentIsWhole
<1> HIDE DEF percent
<1>5. PICK result : result = [n \in 1..Cardinality(keys) |-> percent(n)]
  OBVIOUS
<1>6. PICK g : Chained(g, account, result, Cardinality(keys))
  <2> HIDE DEF IsAfter
  <2> QED BY <1>2, ClosesAreDefined
<1>7. \A n \in 0..Cardinality(keys) : n # 0 => result[n] = percent(n)
  BY <1>2, <1>5
<1>8. IsAfter(g)
  BY <1>6, <1>7 DEF Chained
<1> DEFINE after == CHOOSE h : IsAfter(h)
<1>9. IsAfter(after)
  <2> HIDE DEF IsAfter
  <2> QED BY <1>8
<1> HIDE DEF after
<1>10. after = [n \in 0..Cardinality(keys) |->
                  IF n = 0 THEN account ELSE RecordClose(after[n - 1], result[n])]
  BY <1>7, <1>9
<1>11. \A n \in 1..Cardinality(keys) : result[n] \in Int
  BY <1>4, <1>5
<1>12. Kept(after[Cardinality(keys)])
  <2> HIDE DEF IsAfter
  <2> QED BY <1>2, <1>10, <1>11, EachCloseKeeps
<1>. QED
  BY <1>1, <1>12 DEF after

\* Every method leaves the ids apart.
LEMMA NumberedStep ==
  ASSUME BookTypeOK, Numbered, [RiskNext]_riskVars
  PROVE  Numbered'
<1>1. signals \in Nat
  BY LimitsAssumption DEF BookTypeOK
<1>2. ASSUME NEW k \in Keys, NEW side \in Sides, NEW price \in Prices,
             Enter(k, side, price)
      PROVE  Numbered'
  <2>1. signals' = signals + 1 /\ OpenPosition(k, side, price, signals + 1) /\ k \notin Open
    BY <1>2 DEF Enter, Approvable
  <2>2. Open' = Open \cup {k} /\ positions'[k].id = signals + 1
    BY <2>1 DEF OpenPosition, Open
  <2>3. \A j \in Open : positions'[j] = positions[j] /\ positions[j].id \in 1..signals
    BY <2>1 DEF OpenPosition, Numbered
  <2>. QED
    BY <1>1, <2>1, <2>2, <2>3 DEF Numbered
<1>3. ASSUME NEW k \in Keys, NEW price \in Prices, UpdatePrice(k, price)
      PROVE  Numbered'
  <2>1. Open' = Open /\ signals' = signals
    BY <1>3 DEF UpdatePrice, Open
  <2>2. \A j \in Open : positions'[j].id = positions[j].id
    BY <1>3 DEF UpdatePrice, Open, BookTypeOK, Position
  <2>. QED
    BY <2>1, <2>2 DEF Numbered
<1>4. ASSUME NEW keys \in SUBSET Keys, NEW priceOf, ClosePositions(keys, priceOf), UNCHANGED signals
      PROVE  Numbered'
  <2>1. Open' \subseteq Open /\ \A j \in Open' : positions'[j] = positions[j]
    BY <1>4, CloseTyping
  <2>. QED
    BY <1>4, <2>1 DEF Numbered
<1>5. ASSUME NEW k \in Keys, NEW price \in Prices, Close(k, price)
      PROVE  Numbered'
  BY <1>4, <1>5 DEF Close
<1>6. ASSUME NEW venues \in SUBSET Exchanges, CloseVenues(venues)
      PROVE  Numbered'
  BY <1>4, <1>6 DEF CloseVenues, BookTypeOK
<1>7. CASE ActivateKillSwitch \/ CloseAllByKilling
  BY <1>4, <1>7 DEF ActivateKillSwitch, CloseAllByKilling, BookTypeOK
<1>8. CASE DeactivateKillSwitch \/ ReadBreaker \/ ResetBreaker \/ PassTime \/ UNCHANGED riskVars
  BY <1>8 DEF DeactivateKillSwitch, ReadBreaker, ResetBreaker, PassTime, riskVars, Numbered, Open
<1>. QED
  BY <1>2, <1>3, <1>5, <1>6, <1>7, <1>8 DEF RiskNext

LEMMA ReadKeeps ==
  ASSUME NEW acc, Kept(acc)
  PROVE  Kept(ReadTripped(acc))
<1>1. CASE acc.pauseLeft = 0
  <2>1. ReadTripped(acc) = [acc EXCEPT !.tripped = FALSE]
    BY <1>1 DEF ReadTripped
  <2>2. ~(acc.sinceBreach < Pause)
    BY <1>1, LimitsAssumption DEF Kept, Paused, Accounts
  <2>. QED
    BY <2>1, <2>2 DEF Kept, Paused, Accounts
<1>2. CASE acc.pauseLeft # 0
  BY <1>2 DEF ReadTripped
<1>. QED
  BY <1>1, <1>2

\* Every method leaves the account well typed, and the pause as long as it is due.
LEMMA AccountStep ==
  ASSUME BookTypeOK, Numbered, Kept(account), [RiskNext]_riskVars
  PROVE  Kept(account')
<1>1. CASE account' = account
  BY <1>1
<1>2. CASE account' = ReadTripped(account)
  BY <1>2, ReadKeeps
<1>3. ASSUME NEW keys \in SUBSET Open, NEW priceOf, \A k \in keys : priceOf[k] \in Prices,
             ClosePositions(keys, priceOf)
      PROVE  Kept(account')
  BY <1>3, ClosesKeep DEF ClosePositions
<1>4. \A keys \in SUBSET Open : \A k \in keys : LastPrices[k] \in Prices
  BY DEF LastPrices, BookTypeOK, Position
<1>5. ASSUME NEW k \in Keys, NEW price \in Prices, Close(k, price)
      PROVE  Kept(account')
  <2>1. {k} \in SUBSET Open /\ ClosePositions({k}, [j \in {k} |-> price])
    BY <1>5 DEF Close
  <2>. QED
    BY <1>3, <2>1
<1>6. ASSUME NEW venues \in SUBSET Exchanges, CloseVenues(venues)
      PROVE  Kept(account')
  BY <1>3, <1>4, <1>6 DEF CloseVenues
<1>7. CASE ActivateKillSwitch \/ CloseAllByKilling
  BY <1>3, <1>4, <1>7 DEF ActivateKillSwitch, CloseAllByKilling
<1>8. CASE ResetBreaker
  <2>1. account' = [account EXCEPT !.tripped = FALSE, !.dailyLoss = 0, !.sinceBreach = Pause]
    BY <1>8 DEF ResetBreaker, ResetAccount
  <2>2. account \in Accounts /\ 0 \in 0..MaxDailyLoss /\ Pause \in 0..Pause
    BY LimitsAssumption DEF Kept
  <2>3. account' \in Accounts /\ account'.sinceBreach = Pause
    BY <2>1, <2>2 DEF Accounts
  <2>. QED
    BY <2>3, LimitsAssumption DEF Kept, Paused
<1>9. CASE PassTime
  <2> DEFINE left  == IF account.pauseLeft > 0 THEN account.pauseLeft - 1 ELSE account.pauseLeft
             since == Older(account.sinceBreach, Pause)
  <2>1. account' = [account EXCEPT !.pauseLeft = left, !.sinceBreach = since]
    BY <1>9 DEF PassTime
  <2>2. /\ account \in Accounts
        /\ account.pauseLeft \in 0..Pause /\ account.sinceBreach \in 0..Pause
    BY DEF Kept, Accounts
  <2>3. left \in 0..Pause /\ since \in 0..Pause
    BY <2>2, LimitsAssumption DEF Older
  <2>4. since < Pause => account.sinceBreach < Pause /\ left + since >= Pause
    BY <2>2, LimitsAssumption DEF Older, Kept, Paused
  <2> HIDE DEF left, since
  <2>5. /\ account' \in Accounts /\ account'.pauseLeft = left
        /\ account'.sinceBreach = since /\ account'.tripped = account.tripped
    BY <2>1, <2>2, <2>3 DEF Accounts
  <2>. QED
    BY <2>4, <2>5 DEF Kept, Paused
<1>. QED
  BY <1>1, <1>2, <1>5, <1>6, <1>7, <1>8, <1>9
  DEF RiskNext, Enter, UpdatePrice, DeactivateKillSwitch, ReadBreaker, riskVars

LEMMA RiskInitKeeps == RiskInit => Numbered /\ Kept(account)
<1> SUFFICES ASSUME RiskInit PROVE Numbered /\ Kept(account)
  OBVIOUS
<1>1. Open = {}
  BY DEF RiskInit, Open
<1>2. account = [equity |-> InitialEquity, dailyLoss |-> 0, peak |-> 0,
                 tripped |-> FALSE, pauseLeft |-> 0, sinceBreach |-> Pause]
  BY DEF RiskInit
<1>3. account \in Accounts /\ account.sinceBreach = Pause
  BY <1>2, LimitsAssumption DEF Accounts
<1>. QED
  BY <1>1, <1>3, LimitsAssumption DEF Numbered, Kept, Paused

AccountInv == BookTypeOK /\ Numbered /\ Kept(account)

LEMMA AccountInvHolds == RiskSpec => []AccountInv
<1>1. RiskInit => AccountInv
  BY RiskInitTyping, RiskInitKeeps DEF AccountInv
<1>2. AccountInv /\ [RiskNext]_riskVars => AccountInv'
  <2> SUFFICES ASSUME AccountInv, [RiskNext]_riskVars PROVE AccountInv'
    OBVIOUS
  <2>1. BookTypeOK /\ Numbered /\ Kept(account)
    BY DEF AccountInv
  <2>2. BookTypeOK'
    BY <2>1, BookTypeStep
  <2>3. Numbered'
    BY <2>1, NumberedStep
  <2>4. Kept(account')
    BY <2>1, AccountStep
  <2>. QED
    BY <2>2, <2>3, <2>4 DEF AccountInv
<1>. QED
  BY <1>1, <1>2, PTL DEF RiskSpec

\* The account keeps its shape with the book, in whatever order positions close.
THEOREM AccountTypeCorrect == RiskSpec => []TypeOK
<1>1. AccountInv => TypeOK
  BY DEF AccountInv, Kept, Accounts, TypeOK, AccountTypeOK
<1>. QED
  BY <1>1, AccountInvHolds, PTL

\* After a close that found a loss limit reached nothing opens until the whole
\* pause has passed since the last such close, whatever is read, won or closed in
\* between, or an operator resets the breaker.
THEOREM PausesLast == RiskSpec => NoEntryDuringPause
<1>1. AccountInv /\ [RiskNext]_riskVars =>
        [Open' \ Open # {} => account.sinceBreach = Pause]_riskVars
  <2> SUFFICES ASSUME AccountInv, [RiskNext]_riskVars, Open' \ Open # {}
               PROVE  account.sinceBreach = Pause
    OBVIOUS
  <2>1. BookTypeOK /\ account \in Accounts /\ Paused(account)
    BY DEF AccountInv, Kept
  <2>2. signals' # signals
    BY <2>1, OnlySignalsOpen
  <2>3. \E k \in Keys, side \in Sides, price \in Prices : Enter(k, side, price)
    BY <2>2 DEF RiskNext, riskVars, UpdatePrice, Close, CloseVenues, ActivateKillSwitch,
       DeactivateKillSwitch, CloseAllByKilling, ReadBreaker, ResetBreaker, PassTime
  <2>4. ~ReadTripped(account).tripped
    BY <2>3 DEF Enter, Approvable
  <2>5. account.tripped => account.pauseLeft = 0
    BY <2>1, <2>4 DEF ReadTripped, Accounts
  <2>6. account.pauseLeft \in 0..Pause /\ account.sinceBreach \in 0..Pause
    BY <2>1 DEF Accounts
  <2>. QED
    BY <2>1, <2>5, <2>6, LimitsAssumption DEF Paused
<1>. QED
  BY <1>1, AccountInvHolds, PTL DEF RiskSpec, NoEntryDuringPause
=============================================================================
