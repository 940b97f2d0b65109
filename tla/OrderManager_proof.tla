------------------------- MODULE OrderManager_proof -------------------------
(***************************************************************************)
(* Proofs about the orders' way to the venues: OrderManager and the        *)
(* endpoints over it (its tables keep their shape, self-trade prevention   *)
(* works when reports are timely, a client id's record lets one order      *)
(* through, a sweep of the open orders passes over none), and the smart    *)
(* order router (it reads no stale score).                                 *)
(***************************************************************************)
EXTENDS OrdersApi, SmartOrderRouter, FiniteSetTheorems, SequenceTheorems, TLAPS

USE TtlAssumption, MaxRecordsAssumption, OrdersAssumption

(* What check_and_set leaves: the new record is young, every other record is as
   it was or gone, and the cap holds. *)
LEMMA StoredShape ==
  ASSUME NEW S, IsFiniteSet(S), NEW ages \in [S -> 0..Ttl], NEW key \in S,
         Cardinality(Live(ages)) <= MaxRecords, NEW new \in Stored(ages, key)
  PROVE  /\ new \in [S -> 0..Ttl]
         /\ new[key] = 0
         /\ \A k \in S : k # key => new[k] \in {ages[k], Ttl}
         /\ Cardinality(Live(new)) <= MaxRecords
<1> DEFINE with == [ages EXCEPT ![key] = 0]
<1>1. /\ with \in [S -> 0..Ttl] /\ with[key] = 0
      /\ \A k \in S : k # key => with[k] = ages[k]
  OBVIOUS
<1>2. CASE Cardinality(Live(with)) <= MaxRecords
  <2>1. new = with
    BY <1>2 DEF Stored
  <2> QED BY <1>1, <1>2, <2>1
<1>3. CASE ~(Cardinality(Live(with)) <= MaxRecords)
  <2>1. PICK k \in Live(with) \ {key} : new = [with EXCEPT ![k] = Ttl]
    BY <1>3 DEF Stored
  <2>2. k \in S /\ k # key
    BY <2>1, <1>1 DEF Live
  <2>3. /\ new \in [S -> 0..Ttl] /\ new[key] = 0
        /\ \A j \in S : j # key => new[j] \in {ages[j], Ttl}
    BY <1>1, <2>1, <2>2
  <2>4. Live(with) = Live(ages) \cup {key}
    BY <1>1 DEF Live
  <2>5. IsFiniteSet(Live(ages)) /\ IsFiniteSet(Live(with))
    <3>1. Live(ages) \subseteq S /\ Live(with) \subseteq S
      BY <1>1 DEF Live
    <3> QED BY <3>1, FS_Subset
  <2>6. Cardinality(Live(with)) <= Cardinality(Live(ages)) + 1
    <3>1. Cardinality(Live(ages) \cup {key})
            = IF key \in Live(ages) THEN Cardinality(Live(ages)) ELSE Cardinality(Live(ages)) + 1
      BY <2>5, FS_AddElement
    <3>2. Cardinality(Live(ages)) \in Nat
      BY <2>5, FS_CardinalityType
    <3>3. Cardinality(Live(with)) = Cardinality(Live(ages) \cup {key})
      BY <2>4
    <3> HIDE DEF with
    <3> QED BY <3>1, <3>2, <3>3
  <2>7. Live(new) = Live(with) \ {k}
    BY <1>1, <2>1, <2>2, <2>3 DEF Live
  <2>8. Cardinality(Live(new)) = Cardinality(Live(with)) - 1
    <3>1. Cardinality(Live(with) \ {k})
            = IF k \in Live(with) THEN Cardinality(Live(with)) - 1 ELSE Cardinality(Live(with))
      BY <2>5, FS_RemoveElement
    <3> QED BY <2>1, <2>7, <3>1
  <2> QED
    BY <2>3, <2>5, <2>6, <2>8, FS_CardinalityType
<1> QED BY <1>2, <1>3

(* Time only makes records fewer. *)
LEMMA ElapsedShape ==
  ASSUME NEW S, IsFiniteSet(S), NEW ages \in [S -> 0..Ttl],
         Cardinality(Live(ages)) <= MaxRecords
  PROVE  /\ Elapsed(ages) \in [S -> 0..Ttl]
         /\ \A k \in S : ages[k] = Ttl => Elapsed(ages)[k] = Ttl
         /\ Cardinality(Live(Elapsed(ages))) <= MaxRecords
<1>1. Elapsed(ages) \in [S -> 0..Ttl]
  BY DEF Elapsed
<1>2. \A k \in S : ages[k] = Ttl => Elapsed(ages)[k] = Ttl
  BY DEF Elapsed
<1>3. Live(Elapsed(ages)) \subseteq Live(ages) /\ Live(ages) \subseteq S
  BY <1>1 DEF Live, Elapsed
<1>4. IsFiniteSet(Live(ages))
  BY <1>3, FS_Subset
<1> QED
  BY <1>1, <1>2, <1>3, <1>4, FS_Subset, FS_CardinalityType

----------------------------------------------------------------------------
(* The orders of the table are orders. *)
LEMMA OrderTyping ==
  ASSUME TypeOK
  PROVE  /\ Count \in Nat
         /\ \A k \in 1..Count :
              /\ orders[k] \in Order
              /\ orders[k].age \in Int /\ orders[k].filled \in 0..MaxFilled
<1>1. Count \in Nat /\ \A k \in 1..Count : orders[k] \in Order
  BY DEF TypeOK, Count
<1>2. \A k \in 1..Count : orders[k].age \in Int /\ orders[k].filled \in 0..MaxFilled
  BY <1>1 DEF Order
<1> QED BY <1>1, <1>2

(* What ChecksKey leaves in the store. *)
LEMMA ChecksKeyShape ==
  ASSUME TypeOK, NEW c \in Clients, ChecksKey(c)
  PROVE  /\ keyAge' \in [Clients -> 0..Ttl]
         /\ \A k \in Clients : k # c => keyAge'[k] \in {keyAge[k], Ttl}
         /\ Cardinality(Live(keyAge')) <= MaxRecords
<1>1. CASE keyAge' \in Stored(keyAge, c)
  BY <1>1, StoredShape DEF TypeOK
<1>2. CASE UNCHANGED keyAge
  BY <1>2 DEF TypeOK
<1> QED BY <1>1, <1>2 DEF ChecksKey

(* An operation on an order the map holds changes its status and quantity only. *)
LEMMA RecordedShape ==
  ASSUME TypeOK, NEW i \in 1..Count, NEW status \in Status,
         NEW filled \in 0..MaxFilled, Recorded(i, status, filled)
  PROVE  /\ TypeOK'
         /\ Count' = Count
         /\ byClient' = byClient
         /\ \A k \in 1..Count :
              /\ orders'[k].client = orders[k].client
              /\ orders'[k].instrument = orders[k].instrument
              /\ orders'[k].side = orders[k].side
              /\ orders'[k].age = orders[k].age
              /\ k # i => orders'[k] = orders[k]
<1> DEFINE new == Changed(orders[i], status, filled)
<1>1. orders \in Seq(Order) /\ orders[i] \in Order
  BY DEF TypeOK, Count
<1>2. new \in Order /\ new.client = orders[i].client /\ new.age = orders[i].age
      /\ new.instrument = orders[i].instrument /\ new.side = orders[i].side
  BY <1>1 DEF Changed, Order
<1>3. orders' = [orders EXCEPT ![i] = new] /\ UNCHANGED <<byClient, keyAge, underKey>>
  BY DEF Recorded
<1> HIDE DEF new
<1>4. /\ orders' \in Seq(Order) /\ Len(orders') = Len(orders)
      /\ \A k \in 1..Count : orders'[k] = IF k = i THEN new ELSE orders[k]
  BY <1>1, <1>2, <1>3 DEF Count
<1>5. TypeOK'
  BY <1>2, <1>3, <1>4 DEF TypeOK, Count
<1> QED BY <1>2, <1>3, <1>4, <1>5 DEF Count

LEMMA InitTyping == Init => TypeOK
<1> SUFFICES ASSUME Init PROVE TypeOK
  OBVIOUS
<1>1. orders \in Seq(Order) /\ Count = 0
  BY DEF Init, Count
<1>2. Live(keyAge) = {}
  BY DEF Init, Live, NoRecords
<1>3. Cardinality(Live(keyAge)) = 0
  BY <1>2, FS_EmptySet
<1> QED
  BY <1>1, <1>3 DEF Init, TypeOK, NoRecords

(* What a placement does to the tables. *)
LEMMA PlaceShape ==
  ASSUME TypeOK, NEW c \in Clients, NEW instrument \in Instruments, NEW side \in Sides,
         Place(c, instrument, side)
  PROVE  /\ TypeOK'
         /\ Count' = Count + 1
         /\ orders'[Count + 1] = Placed(c, instrument, side)
         /\ \A k \in 1..Count : orders'[k] = orders[k]
         /\ \A d \in Clients : byClient'[d] \in {byClient[d], Count + 1}
<1> DEFINE new == Placed(c, instrument, side)
<1>1. new \in Order /\ new.client = c
  BY DEF Placed, Order, Status, Active
<1>2. orders' = Append(orders, new) /\ byClient' = [byClient EXCEPT ![c] = Count + 1]
  BY DEF Place
<1> HIDE DEF new
<1>3. /\ orders' \in Seq(Order) /\ Len(orders') = Len(orders) + 1
      /\ orders'[Len(orders) + 1] = new
      /\ \A k \in 1..Len(orders) : orders'[k] = orders[k]
  BY <1>1, <1>2 DEF TypeOK
<1>4. Count' <= MaxOrders /\ Count \in Nat
  BY <1>3 DEF Place, Count, TypeOK
<1>5. /\ byClient' \in [Clients -> 0..Count']
      /\ \A d \in Clients : byClient'[d] # 0 => orders'[byClient'[d]].client = d
  BY <1>1, <1>2, <1>3, <1>4 DEF TypeOK, Count
<1>6. underKey' \in [Clients -> Nat]
  BY DEF TypeOK, Place, UnderKey
<1>7. keyAge' \in [Clients -> 0..Ttl] /\ Cardinality(Live(keyAge')) <= MaxRecords
  BY ChecksKeyShape DEF Place
<1>8. TypeOK'
  BY <1>3, <1>4, <1>5, <1>6, <1>7 DEF TypeOK
<1>9. \A d \in Clients : byClient'[d] \in {byClient[d], Count + 1}
  BY <1>2 DEF TypeOK
<1> QED BY <1>3, <1>8, <1>9 DEF Count, new

(* A refused placement leaves the orders and the map alone. *)
LEMMA RefusedShape ==
  ASSUME TypeOK, NEW c \in Clients, NEW instrument \in Instruments, NEW side \in Sides,
         PlaceRefused(c, instrument, side)
  PROVE  TypeOK' /\ UNCHANGED <<orders, byClient>>
<1>1. UNCHANGED <<orders, byClient>> /\ underKey' \in [Clients -> Nat]
  BY DEF TypeOK, PlaceRefused, UnderKey
<1>2. keyAge' \in [Clients -> 0..Ttl] /\ Cardinality(Live(keyAge')) <= MaxRecords
  BY ChecksKeyShape DEF PlaceRefused
<1> QED BY <1>1, <1>2 DEF TypeOK, Count

(* Time only makes orders older. *)
LEMMA ClockShape ==
  ASSUME TypeOK, Clock
  PROVE  /\ TypeOK'
         /\ Count' = Count /\ byClient' = byClient
         /\ \A k \in 1..Count :
              /\ orders'[k].client = orders[k].client
              /\ orders'[k].instrument = orders[k].instrument
              /\ orders'[k].side = orders[k].side
              /\ orders'[k].status = orders[k].status
              /\ orders'[k].age >= orders[k].age
<1>1. \A k \in 1..Count : orders[k] \in Order
  BY DEF TypeOK, Count
<1>2. \A k \in 1..Count :
        /\ Aged(orders[k]) \in Order
        /\ Aged(orders[k]).client = orders[k].client
        /\ Aged(orders[k]).instrument = orders[k].instrument
        /\ Aged(orders[k]).side = orders[k].side
        /\ Aged(orders[k]).status = orders[k].status
        /\ Aged(orders[k]).age >= orders[k].age
  BY <1>1 DEF Aged, Order
<1>3. orders' = [k \in 1..Count |-> Aged(orders[k])] /\ UNCHANGED byClient
  BY DEF Clock
<1>4. Count \in Nat
  BY DEF TypeOK, Count
<1>5. orders' \in Seq(Order) /\ Count' = Count
  BY <1>2, <1>3, <1>4 DEF Count
<1>6. /\ keyAge' \in [Clients -> 0..Ttl]
      /\ Cardinality(Live(keyAge')) <= MaxRecords
  BY ElapsedShape DEF TypeOK, Clock
<1>7. \A k \in 1..Count : orders'[k] = Aged(orders[k])
  BY <1>3, <1>4
<1>8. ASSUME NEW d \in Clients, byClient'[d] # 0
      PROVE  orders'[byClient'[d]].client = d
  <2>1. byClient[d] \in 1..Count /\ byClient'[d] = byClient[d]
    BY <1>3, <1>4, <1>8 DEF TypeOK
  <2> QED BY <1>2, <1>7, <1>8, <2>1, ZenonT(60) DEF TypeOK
<1>9. underKey' \in [Clients -> Nat]
  BY DEF Clock, TypeOK
<1>10. TypeOK'
  BY <1>3, <1>5, <1>6, <1>8, <1>9 DEF TypeOK
<1> QED BY <1>2, <1>3, <1>5, <1>7, <1>10

----------------------------------------------------------------------------
(* An operation finds its order through the map, so an operation on client c is
   one on an order of the table. *)
LEMMA ReportShape ==
  ASSUME TypeOK, NEW c \in Clients,
         \/ Confirm(c) \/ Cancel(c)
         \/ \E lots \in 1..Lots : Fill(c, lots)
  PROVE  /\ byClient[c] \in 1..Count
         /\ LateReports \/ IsActive(byClient[c])
         /\ \E status \in Status, filled \in 0..MaxFilled :
              Recorded(byClient[c], status, filled)
<1>1. byClient[c] \in 1..Count
  BY DEF TypeOK, Confirm, Cancel, Fill, Count
<1>2. orders[byClient[c]].filled \in 0..MaxFilled
  BY <1>1, OrderTyping
<1>3. LateReports \/ IsActive(byClient[c])
  BY DEF Confirm, Cancel, Fill
<1>4. CASE Confirm(c)
  BY <1>1, <1>2, <1>3, <1>4 DEF Confirm, Status, Active
<1>5. CASE Cancel(c)
  BY <1>1, <1>2, <1>3, <1>5 DEF Cancel, Status, Active
<1>6. CASE \E lots \in 1..Lots : Fill(c, lots)
  <2>1. PICK lots \in 1..Lots : Fill(c, lots)
    BY <1>6
  <2>2. orders[byClient[c]].filled + lots \in 0..MaxFilled
    BY <1>2, <2>1 DEF Fill
  <2> QED BY <1>1, <1>3, <2>1, <2>2 DEF Fill, Status, Active
<1> QED BY <1>4, <1>5, <1>6

(* Every step keeps the tables' shape. *)
LEMMA TypeStep == TypeOK /\ [Next]_vars => TypeOK'
<1> SUFFICES ASSUME TypeOK, [Next]_vars PROVE TypeOK'
  OBVIOUS
<1>1. ASSUME NEW c \in Clients, NEW instrument \in Instruments, NEW side \in Sides,
             Place(c, instrument, side)
      PROVE  TypeOK'
  BY <1>1, PlaceShape
<1>2. ASSUME NEW c \in Clients, NEW instrument \in Instruments, NEW side \in Sides,
             PlaceRefused(c, instrument, side)
      PROVE  TypeOK'
  BY <1>2, RefusedShape
<1>3. ASSUME NEW c \in Clients,
             \/ Confirm(c) \/ Cancel(c) \/ \E lots \in 1..Lots : Fill(c, lots)
      PROVE  TypeOK'
  BY <1>3, ReportShape, RecordedShape
<1>4. CASE Clock
  BY <1>4, ClockShape
<1>5. CASE UNCHANGED vars
  BY <1>5 DEF vars, TypeOK, Count
<1> QED BY <1>1, <1>2, <1>3, <1>4, <1>5 DEF Next

(* The tables of the manager and the store of keys keep their shape: the map
   never points at another client's order, the store never outgrows its cap. *)
THEOREM TablesTyped == Spec => []TypeOK
<1>1. Init => TypeOK
  BY InitTyping
<1> QED BY <1>1, TypeStep, PTL DEF Spec

----------------------------------------------------------------------------
(* With timely reports a step brings in at most the order it places; the others
   keep their client, instrument and side, get older, do not become active again,
   and stand for their client no more once they do not. *)
LEMMA NobodyRevives ==
  ASSUME TypeOK, ~LateReports, [Next]_vars, NEW k \in 1..Count
  PROVE  /\ k \in 1..Count'
         /\ orders'[k].client = orders[k].client
         /\ byClient'[orders[k].client] = k => byClient[orders[k].client] = k
         /\ orders'[k].instrument = orders[k].instrument
         /\ orders'[k].side = orders[k].side
         /\ orders'[k].age >= orders[k].age
         /\ orders'[k].status \in Active => orders[k].status \in Active
<1> DEFINE Kept ==
      /\ k \in 1..Count'
      /\ orders'[k].client = orders[k].client
      /\ byClient'[orders[k].client] = k => byClient[orders[k].client] = k
      /\ orders'[k].instrument = orders[k].instrument
      /\ orders'[k].side = orders[k].side
      /\ orders'[k].age >= orders[k].age
      /\ orders'[k].status \in Active => orders[k].status \in Active
<1>0. Count \in Nat /\ orders[k].age \in Int /\ orders[k].client \in Clients
  BY OrderTyping DEF Order
<1>1. ASSUME NEW c \in Clients, NEW instrument \in Instruments, NEW side \in Sides,
             Place(c, instrument, side)
      PROVE  Kept
  BY <1>0, <1>1, PlaceShape
<1>2. ASSUME NEW c \in Clients, NEW instrument \in Instruments, NEW side \in Sides,
             PlaceRefused(c, instrument, side)
      PROVE  Kept
  BY <1>0, <1>2, RefusedShape DEF Count
<1>3. ASSUME NEW c \in Clients,
             \/ Confirm(c) \/ Cancel(c) \/ \E lots \in 1..Lots : Fill(c, lots)
      PROVE  Kept
  BY <1>0, <1>3, ReportShape, RecordedShape DEF IsActive
<1>4. CASE Clock
  BY <1>0, <1>4, ClockShape
<1>5. CASE UNCHANGED vars
  BY <1>0, <1>5 DEF vars, Count
<1> QED BY <1>1, <1>2, <1>3, <1>4, <1>5 DEF Next

(* Only a placement makes the table longer, and what it adds opposes no young
   active order. *)
LEMMA OnlyPlacementsAdd ==
  ASSUME TypeOK, [Next]_vars
  PROVE  \/ Count' = Count
         \/ /\ Count' = Count + 1
            /\ \A i \in 1..Count :
                 ~Opposing(i, orders'[Count + 1].instrument, orders'[Count + 1].side)
<1>1. ASSUME NEW c \in Clients, NEW instrument \in Instruments, NEW side \in Sides,
             Place(c, instrument, side)
      PROVE  /\ Count' = Count + 1
             /\ \A i \in 1..Count :
                  ~Opposing(i, orders'[Count + 1].instrument, orders'[Count + 1].side)
  <2>1. orders'[Count + 1].instrument = instrument /\ orders'[Count + 1].side = side
    <3>1. orders'[Count + 1] = Placed(c, instrument, side)
      BY <1>1, PlaceShape
    <3> QED BY <3>1 DEF Placed
  <2>2. ~SelfTrade(instrument, side)
    BY <1>1 DEF Place
  <2> QED BY <1>1, <2>1, <2>2, PlaceShape DEF SelfTrade
<1>2. ASSUME NEW c \in Clients, NEW instrument \in Instruments, NEW side \in Sides,
             PlaceRefused(c, instrument, side)
      PROVE  Count' = Count
  BY <1>2, RefusedShape DEF Count
<1>3. ASSUME NEW c \in Clients,
             \/ Confirm(c) \/ Cancel(c) \/ \E lots \in 1..Lots : Fill(c, lots)
      PROVE  Count' = Count
  BY <1>3, ReportShape, RecordedShape
<1>4. CASE Clock
  BY <1>4, ClockShape
<1>5. CASE UNCHANGED vars
  BY <1>5 DEF vars, Count
<1> QED BY <1>1, <1>2, <1>3, <1>4, <1>5 DEF Next

LEMMA NoOpposingStep ==
  ASSUME TypeOK, ~LateReports, NoOpposingOrders, [Next]_vars
  PROVE  NoOpposingOrders'
<1> SUFFICES ASSUME NEW i \in 1..Count', NEW j \in 1..Count',
                    orders'[i].instrument = orders'[j].instrument,
                    orders'[i].side # orders'[j].side,
                    orders'[i].status \in Active, orders'[j].status \in Active
             PROVE  orders'[i].age >= Window \/ orders'[j].age >= Window
  BY DEF NoOpposingOrders, IsActive, Count
<1>0. Count \in Nat /\ \A k \in 1..Count : orders[k].age \in Int
  BY OrderTyping
<1>t. /\ Count' \in Nat
      /\ \A k \in 1..Count' : orders'[k].age \in Int
  <2>1. orders' \in Seq(Order)
    BY TypeStep DEF TypeOK
  <2>2. Count' \in Nat /\ \A k \in 1..Count' : orders'[k] \in Order
    BY <2>1 DEF Count
  <2> QED BY <2>2 DEF Order
<1>1. CASE i \in 1..Count /\ j \in 1..Count
  <2>1. orders[i].age >= Window \/ orders[j].age >= Window
    BY <1>1, NobodyRevives DEF NoOpposingOrders, IsActive
  <2> QED BY <1>0, <1>t, <1>1, <2>1, NobodyRevives
<1>2. CASE i = Count + 1 /\ j \in 1..Count
  <2>1. ~Opposing(j, orders'[i].instrument, orders'[i].side)
    BY <1>0, <1>2, OnlyPlacementsAdd
  <2>2. ~(orders[j].age < Window)
    BY <1>2, <2>1, NobodyRevives DEF Opposing, IsActive
  <2> QED BY <1>0, <1>t, <1>2, <2>2, NobodyRevives
<1>3. CASE j = Count + 1 /\ i \in 1..Count
  <2>1. ~Opposing(i, orders'[j].instrument, orders'[j].side)
    BY <1>0, <1>3, OnlyPlacementsAdd
  <2>2. ~(orders[i].age < Window)
    BY <1>3, <2>1, NobodyRevives DEF Opposing, IsActive
  <2> QED BY <1>0, <1>t, <1>3, <2>2, NobodyRevives
<1>4. CASE i = Count + 1 /\ j = Count + 1
  BY <1>4
<1>5. Count' = Count \/ Count' = Count + 1
  BY OnlyPlacementsAdd
<1> QED BY <1>0, <1>1, <1>2, <1>3, <1>4, <1>5

(* Self-trade prevention holds for any number of clients, instruments and orders
   as long as reports come for active orders only: a late one makes a cancelled
   order active again. *)
THEOREM SelfTradePrevented ==
  ASSUME ~LateReports PROVE Spec => []NoOpposingOrders
<1>1. Init => NoOpposingOrders
  BY DEF Init, NoOpposingOrders, Count
<1>2. TypeOK /\ NoOpposingOrders /\ [Next]_vars => NoOpposingOrders'
  BY NoOpposingStep
<1> QED BY <1>1, <1>2, TablesTyped, PTL DEF Spec

----------------------------------------------------------------------------
(* What makes OneOrderPerKey inductive: an order placed under a living record is
   in the map, which is where the next attempt finds it. *)
KeyInv ==
  \A c \in Clients : keyAge[c] < Ttl =>
    /\ underKey[c] <= 1
    /\ underKey[c] = 1 => byClient[c] # 0

LEMMA CheckedKeys ==
  ASSUME TypeOK, KeyInv, NEW c \in Clients, ChecksKey(c)
  PROVE  /\ UnderKey(c) = 0
         /\ \A d \in Clients : d # c /\ keyAge'[d] < Ttl => keyAge[d] < Ttl
<1>1. UnderKey(c) = 0
  BY DEF ChecksKey, UnderKey, KeyInv, TypeOK
<1>2. ASSUME NEW d \in Clients, d # c, keyAge'[d] < Ttl PROVE keyAge[d] < Ttl
  <2>1. keyAge'[d] \in {keyAge[d], Ttl}
    BY <1>2, ChecksKeyShape
  <2> QED BY <1>2, <2>1
<1> QED BY <1>1, <1>2

LEMMA KeyStep == TypeOK /\ KeyInv /\ [Next]_vars => KeyInv'
<1> SUFFICES ASSUME TypeOK, KeyInv, [Next]_vars PROVE KeyInv'
  OBVIOUS
<1>1. ASSUME NEW c \in Clients, NEW instrument \in Instruments, NEW side \in Sides,
             Place(c, instrument, side)
      PROVE  KeyInv'
  <2>1. UnderKey(c) = 0 /\ \A d \in Clients : d # c /\ keyAge'[d] < Ttl => keyAge[d] < Ttl
    BY <1>1, CheckedKeys DEF Place
  <2>2. underKey' = [underKey EXCEPT ![c] = 1] /\ byClient' = [byClient EXCEPT ![c] = Count + 1]
    BY <1>1, <2>1 DEF Place
  <2>3. Count \in Nat
    BY DEF TypeOK, Count
  <2> QED BY <2>1, <2>2, <2>3 DEF KeyInv, TypeOK
<1>2. ASSUME NEW c \in Clients, NEW instrument \in Instruments, NEW side \in Sides,
             PlaceRefused(c, instrument, side)
      PROVE  KeyInv'
  <2>1. UnderKey(c) = 0 /\ \A d \in Clients : d # c /\ keyAge'[d] < Ttl => keyAge[d] < Ttl
    BY <1>2, CheckedKeys DEF PlaceRefused
  <2>2. underKey' = [underKey EXCEPT ![c] = 0] /\ byClient' = byClient
    BY <1>2, <2>1 DEF PlaceRefused
  <2> QED BY <2>1, <2>2 DEF KeyInv, TypeOK
<1>3. ASSUME NEW c \in Clients,
             \/ Confirm(c) \/ Cancel(c) \/ \E lots \in 1..Lots : Fill(c, lots)
      PROVE  KeyInv'
  BY <1>3 DEF KeyInv, Confirm, Cancel, Fill, Recorded
<1>4. CASE Clock
  <2>1. \A c \in Clients : keyAge'[c] < Ttl => keyAge[c] < Ttl
    BY <1>4 DEF Clock, Elapsed, TypeOK
  <2> QED BY <1>4, <2>1 DEF Clock, KeyInv
<1>5. CASE UNCHANGED vars
  BY <1>5 DEF vars, KeyInv
<1> QED BY <1>1, <1>2, <1>3, <1>4, <1>5 DEF Next

(* A living record lets one order through, whatever was refused before and
   whatever the cap evicted, with reports of any kind. *)
THEOREM KeysLetOneThrough == Spec => []OneOrderPerKey
<1>1. Init => KeyInv
  BY DEF Init, KeyInv, NoRecords
<1>2. KeyInv => OneOrderPerKey
  BY DEF KeyInv, OneOrderPerKey
<1> QED BY <1>1, <1>2, KeyStep, TablesTyped, PTL DEF Spec
----------------------------------------------------------------------------
(* The endpoints' own variables: what is listed are places of the table, and
   what is still to be cancelled is part of it. *)
ApiTypeOK ==
  /\ batch \in Seq(Request)
  /\ sweep \subseteq listed /\ listed \subseteq 1..Count

(* What the sweep has passed by is not active, unless a younger order has taken
   its client id. *)
Swept ==
  sweep # {} =>
    \A i \in listed \ sweep :
      byClient[orders[i].client] = i => orders[i].status \notin Active

(* Whatever an endpoint does to the tables is one operation of the manager. *)
LEMMA EndpointsOperate ==
  ASSUME TypeOK, ApiTypeOK, [ApiNext]_<<vars, apiVars>>
  PROVE  [Next]_vars
<1>1. CASE BatchPlaces
  <2>1. Head(batch) \in Request
    BY <1>1 DEF ApiTypeOK, BatchPlaces
  <2>2. /\ Head(batch).client \in Clients /\ Head(batch).instrument \in Instruments
        /\ Head(batch).side \in Sides
    BY <2>1 DEF Request
  <2> QED BY <1>1, <2>2 DEF BatchPlaces, Next
<1>2. CASE BatchRefused
  <2>1. Head(batch) \in Request
    BY <1>2 DEF ApiTypeOK, BatchRefused
  <2>2. /\ Head(batch).client \in Clients /\ Head(batch).instrument \in Instruments
        /\ Head(batch).side \in Sides
    BY <2>1 DEF Request
  <2> QED BY <1>2, <2>2 DEF BatchRefused, Next
<1>3. \A i \in 1..Count : orders[i].client \in Clients
  BY OrderTyping DEF Order
<1>4. ASSUME NEW i \in 1..MaxOrders, SweepCancels(i) PROVE [Next]_vars
  <2>1. i \in 1..Count
    BY <1>4 DEF SweepCancels, ApiTypeOK
  <2> QED BY <1>3, <1>4, <2>1 DEF SweepCancels, Next
<1>5. ASSUME NEW i \in 1..MaxOrders, CancelById(i) PROVE [Next]_vars
  BY <1>3, <1>5 DEF CancelById, Next
<1>6. ASSUME NEW list \in Batches, StartBatch(list) PROVE [Next]_vars
  BY <1>6 DEF StartBatch
<1>7. ASSUME NEW filter \in SUBSET Instruments, StartSweep(filter) PROVE [Next]_vars
  BY <1>7 DEF StartSweep
<1> QED BY <1>1, <1>2, <1>4, <1>5, <1>6, <1>7 DEF ApiNext

(* No operation makes the table of orders shorter. *)
LEMMA TableGrows ==
  ASSUME TypeOK, [Next]_vars PROVE 1..Count \subseteq 1..Count'
<1>1. Count \in Nat
  BY DEF TypeOK, Count
<1> QED BY <1>1, OnlyPlacementsAdd

LEMMA ApiTypeStep ==
  ASSUME TypeOK, ApiTypeOK, [ApiNext]_<<vars, apiVars>>
  PROVE  ApiTypeOK'
<1>1. 1..Count \subseteq 1..Count'
  BY EndpointsOperate, TableGrows
<1>2. CASE UNCHANGED apiVars
  BY <1>1, <1>2 DEF ApiTypeOK, apiVars
<1>3. ASSUME NEW list \in Batches, StartBatch(list) PROVE ApiTypeOK'
  BY <1>1, <1>3, BatchesAssumption DEF ApiTypeOK, StartBatch
<1>4. CASE BatchPlaces \/ BatchRefused
  <2>1. batch \in Seq(Request) /\ batch # <<>> /\ batch' \in {Tail(batch), <<>>}
    BY <1>4 DEF ApiTypeOK, BatchPlaces, BatchRefused
  <2>2. Tail(batch) \in Seq(Request) /\ <<>> \in Seq(Request)
    BY <2>1, HeadTailProperties
  <2>3. batch' \in Seq(Request)
    BY <2>1, <2>2
  <2> QED BY <1>1, <1>4, <2>3 DEF ApiTypeOK, BatchPlaces, BatchRefused
<1>5. ASSUME NEW filter \in SUBSET Instruments, StartSweep(filter) PROVE ApiTypeOK'
  BY <1>1, <1>5 DEF ApiTypeOK, StartSweep, OpenOrders
<1>6. ASSUME NEW i \in 1..MaxOrders, SweepCancels(i) PROVE ApiTypeOK'
  BY <1>1, <1>6 DEF ApiTypeOK, SweepCancels, Remaining
<1> QED BY <1>2, <1>3, <1>4, <1>5, <1>6 DEF ApiNext, CancelById, apiVars

(* An order a step does not revive, and that stands for its client afterwards,
   was as inactive before as it is now. *)
LEMMA PassedStays ==
  ASSUME TypeOK, ~LateReports, [Next]_vars, NEW i \in 1..Count,
         byClient[orders[i].client] = i => orders[i].status \notin Active
  PROVE  byClient'[orders'[i].client] = i => orders'[i].status \notin Active
BY NobodyRevives

(* What a step passes over is not active after it. *)
LEMMA SweepStep ==
  ASSUME TypeOK, ApiTypeOK, ~LateReports, Swept, [ApiNext]_<<vars, apiVars>>,
         sweep # {}, NEW i \in listed \ sweep'
  PROVE  byClient'[orders'[i].client] = i => orders'[i].status \notin Active
<1>1. i \in 1..Count
  BY DEF ApiTypeOK
<1>2. CASE i \notin sweep
  BY <1>1, <1>2, EndpointsOperate, PassedStays DEF Swept
<1>3. CASE i \in sweep
  <2>1. SweepCancels(i)
    BY <1>3 DEF ApiNext, apiVars, StartBatch, BatchPlaces, BatchRefused, StartSweep,
                Free, SweepCancels, Remaining, CancelById
  <2>2. CASE byClient[orders[i].client] # i \/ orders[i].status \notin Active
    BY <1>1, <2>2, EndpointsOperate, PassedStays
  <2>3. CASE byClient[orders[i].client] = i /\ orders[i].status \in Active
    <3>1. Cancel(orders[i].client)
      BY <2>1, <2>3 DEF SweepCancels, IsActive
    <3>2. orders' = [orders EXCEPT ![i] = Changed(orders[i], "cancelled", orders[i].filled)]
      BY <2>3, <3>1 DEF Cancel, Recorded
    <3>3. orders'[i].status = "cancelled"
      BY <1>1, <3>2 DEF Changed, Count, TypeOK
    <3> QED BY <3>3 DEF Active
  <2> QED BY <2>2, <2>3
<1> QED BY <1>2, <1>3

LEMMA SweptStep ==
  ASSUME TypeOK, ApiTypeOK, ~LateReports, Swept, [ApiNext]_<<vars, apiVars>>
  PROVE  Swept'
<1>1. CASE sweep = {}
  <2>1. sweep' # {} => listed' = sweep'
    BY <1>1 DEF ApiNext, apiVars, StartBatch, BatchPlaces, BatchRefused, StartSweep,
                SweepCancels, CancelById
  <2> QED BY <2>1 DEF Swept
<1>2. CASE sweep # {}
  <2>1. sweep' # {} => listed' = listed
    BY <1>2 DEF ApiNext, apiVars, StartBatch, BatchPlaces, BatchRefused, StartSweep,
                Free, SweepCancels, CancelById
  <2> QED BY <1>2, <2>1, SweepStep DEF Swept
<1> QED BY <1>1, <1>2

(* A sweep of the open orders leaves none behind that still stands for its client
   id, for any number of orders, filters and interleaved requests, as long as
   reports come for active orders only. *)
THEOREM SweepLeavesNone ==
  ASSUME ~LateReports PROVE ApiSpec => SweepMissesNone
<1> DEFINE Inv == TypeOK /\ ApiTypeOK /\ Swept
<1>1. ApiInit => Inv
  BY InitTyping DEF ApiInit, ApiTypeOK, Swept
<1>2. Inv /\ [ApiNext]_<<vars, apiVars>> => Inv'
  BY EndpointsOperate, TypeStep, ApiTypeStep, SweptStep
<1>3. Inv /\ [ApiNext]_<<vars, apiVars>> =>
        [sweep # {} =>
          \A i \in listed \ sweep' :
            byClient'[orders'[i].client] = i => orders'[i].status \notin Active]_<<vars, apiVars>>
  BY SweepStep
<1> QED BY <1>1, <1>2, <1>3, PTL DEF ApiSpec, SweepMissesNone
----------------------------------------------------------------------------
(* The router's scores. *)

CallFields == {"pc", "quantity", "filling", "age", "routes", "reached"}

IsACall(x) == DOMAIN x = CallFields /\ x = [f \in CallFields |-> x[f]]

IsAScore(s) == DOMAIN s = {"quote", "age"}

\* What is fetched so far is no older than the call's reading of the clock.
Fetching(x) ==
  /\ IsACall(x) /\ x.age \in 0..Interval
  /\ \A v \in DOMAIN x.filling : IsAScore(x.filling[v]) /\ x.filling[v].age \in 0..x.age

\* What makes ScoresAreFresh inductive: the table's age is no less than the age of
\* any score in it, and becomes the age of the call that fetched them.
ScoresInv ==
  /\ tableAge \in 0..Interval
  /\ \A v \in DOMAIN fetchAge : fetchAge[v] \in 0..tableAge
  /\ call = [c \in Callers |-> call[c]]
  /\ \A c \in Callers : Fetching(call[c])

LEMMA OlderTogether ==
  ASSUME NEW a \in Int, NEW limit \in Nat, a \in 0..limit, NEW b \in 0..a
  PROVE  Older(a, limit) \in 0..limit /\ Older(b, limit) \in 0..Older(a, limit)
BY DEF Older

LEMMA IdleIsFetching == Fetching(Idle)
<1>1. IsACall(Idle)
  BY DEF IsACall, CallFields, Idle
<1>2. Idle.age = 0 /\ Idle.filling = <<>>
  BY DEF Idle
<1>. QED
  BY <1>1, <1>2, LimitsAssumption DEF Fetching

\* A call moves to another place, with or without new routes.
LEMMA MovedIsFetching ==
  ASSUME NEW x, Fetching(x), NEW y, IsACall(y),
         y.age = x.age /\ y.filling = x.filling
  PROVE  Fetching(y)
BY DEF Fetching

LEMMA AgedIsFetching ==
  ASSUME NEW x, Fetching(x)
  PROVE  Fetching(AgedCall(x))
<1> DEFINE old == x.filling
           age == Older(x.age, Interval)
           filling == [v \in DOMAIN old |-> [old[v] EXCEPT !.age = Older(old[v].age, Interval)]]
<1>1. AgedCall(x) = [x EXCEPT !.age = age, !.filling = filling]
  BY DEF AgedCall
<1>2. /\ x.age \in 0..Interval
      /\ \A v \in DOMAIN old : IsAScore(old[v]) /\ old[v].age \in 0..x.age
  BY DEF Fetching
<1>3. age \in 0..Interval
  BY <1>2, OlderTogether, LimitsAssumption
<1>4. ASSUME NEW v \in DOMAIN old
      PROVE  IsAScore(filling[v]) /\ filling[v].age = Older(old[v].age, Interval)
  BY <1>2 DEF IsAScore
<1>5. ASSUME NEW v \in DOMAIN old
      PROVE  Older(old[v].age, Interval) \in 0..age
  <2>1. x.age \in Int /\ old[v].age \in 0..x.age /\ Interval \in Nat
    BY <1>2, LimitsAssumption
  <2>. QED
    BY <1>2, <2>1, OlderTogether
<1>6. DOMAIN filling = DOMAIN old
  OBVIOUS
<1> HIDE DEF age, filling
<1>7. IsACall(AgedCall(x)) /\ AgedCall(x).age = age /\ AgedCall(x).filling = filling
  BY <1>1 DEF Fetching, IsACall, CallFields
<1>. QED
  BY <1>3, <1>4, <1>5, <1>6, <1>7 DEF Fetching

LEMMA SelectKeeps ==
  ASSUME ScoresInv, NEW c \in Callers, NEW t, Select(c, t)
  PROVE  call' = [d \in Callers |-> call'[d]] /\ \A d \in Callers : Fetching(call'[d])
<1>1. CASE Suitable(t, call[c].quantity) = {}
  <2>1. call' = [call EXCEPT ![c] = Idle]
    BY <1>1 DEF Select
  <2>. QED
    BY <2>1, IdleIsFetching DEF ScoresInv
<1>2. CASE Suitable(t, call[c].quantity) # {}
  <2>1. PICK r : call' = [call EXCEPT ![c] = [@ EXCEPT !.pc = "price", !.filling = <<>>,
                            !.age = 0, !.routes = Routes(t, r, call[c].quantity)]]
    BY <1>2 DEF Select
  <2> DEFINE y == [call[c] EXCEPT !.pc = "price", !.filling = <<>>,
                     !.age = 0, !.routes = Routes(t, r, call[c].quantity)]
  <2>2. IsACall(call[c])
    BY DEF ScoresInv, Fetching
  <2>3. IsACall(y) /\ y.age = 0 /\ y.filling = <<>>
    BY <2>2 DEF IsACall, CallFields
  <2>4. call' = [call EXCEPT ![c] = y]
    BY <2>1
  <2> HIDE DEF y
  <2>5. Fetching(y)
    BY <2>3, LimitsAssumption DEF Fetching
  <2>. QED
    BY <2>4, <2>5 DEF ScoresInv
<1>. QED
  BY <1>1, <1>2

LEMMA ScoresStep == ScoresInv /\ [RouterNext]_routerVars => ScoresInv'
<1> SUFFICES ASSUME ScoresInv, [RouterNext]_routerVars PROVE ScoresInv'
  OBVIOUS
<1>1. ASSUME NEW c \in Callers, NEW y, Fetching(y), call' = [call EXCEPT ![c] = y],
             UNCHANGED <<tableAge, fetchAge>>
      PROVE  ScoresInv'
  BY <1>1 DEF ScoresInv
<1>2. \A c \in Callers : Fetching(call[c]) /\ IsACall(call[c])
  BY DEF ScoresInv, Fetching
<1>3. ASSUME NEW c \in Callers, NEW quantity \in Quantities, RouteOrder(c, quantity)
      PROVE  ScoresInv'
  <2> DEFINE y == [Idle EXCEPT !.pc = "route", !.quantity = quantity]
  <2>1. IsACall(y) /\ y.age = Idle.age /\ y.filling = Idle.filling
    BY DEF Idle, IsACall, CallFields
  <2>2. Fetching(y)
    BY <2>1, IdleIsFetching, MovedIsFetching
  <2>. QED
    BY <1>1, <1>3, <2>2 DEF RouteOrder
<1>4. ASSUME NEW c \in Callers, Reuse(c)
      PROVE  ScoresInv'
  BY <1>4, SelectKeeps DEF Reuse, ScoresInv
<1>5. ASSUME NEW c \in Callers, Refresh(c)
      PROVE  ScoresInv'
  <2> DEFINE y == [call[c] EXCEPT !.pc = "refresh"]
  <2>1. IsACall(y) /\ y.age = call[c].age /\ y.filling = call[c].filling
    BY <1>2 DEF IsACall, CallFields
  <2>2. Fetching(y)
    BY <1>2, <2>1, MovedIsFetching
  <2>. QED
    BY <1>1, <1>5, <2>2 DEF Refresh
<1>6. ASSUME NEW c \in Callers, NEW v \in Venues, NEW q
      PROVE  LET filled == With(call[c].filling, v, [quote |-> q, age |-> 0])
             IN \A u \in DOMAIN filled : /\ IsAScore(filled[u])
                                          /\ filled[u].age \in 0..call[c].age
  <2>1. /\ call[c].age \in Nat
        /\ \A u \in DOMAIN call[c].filling :
             /\ IsAScore(call[c].filling[u])
             /\ call[c].filling[u].age \in 0..call[c].age
    BY <1>2, LimitsAssumption DEF Fetching
  <2>2. IsAScore([quote |-> q, age |-> 0]) /\ [quote |-> q, age |-> 0].age = 0
    BY DEF IsAScore
  <2>. QED
    BY <2>1, <2>2 DEF With
<1>7. ASSUME NEW c \in Callers, NEW v \in Venues, NEW q, Fetch(c, v, q)
      PROVE  ScoresInv'
  <2> DEFINE filled == With(call[c].filling, v, [quote |-> q, age |-> 0])
             y == [call[c] EXCEPT !.filling = filled]
  <2>1. call' = [call EXCEPT ![c] = y]
    BY <1>7 DEF Fetch
  <2>2. \A u \in DOMAIN filled : IsAScore(filled[u]) /\ filled[u].age \in 0..call[c].age
    BY <1>6
  <2> HIDE DEF filled
  <2>3. IsACall(y) /\ y.age = call[c].age /\ y.filling = filled
    BY <1>2 DEF IsACall, CallFields
  <2> HIDE DEF y
  <2>4. Fetching(y)
    BY <1>2, <2>2, <2>3 DEF Fetching
  <2>. QED
    BY <1>1, <1>7, <2>1, <2>4 DEF Fetch
<1>8. ASSUME NEW c \in Callers, NEW v \in Venues, NEW q, FetchLast(c, v, q)
      PROVE  ScoresInv'
  <2> DEFINE filled == With(call[c].filling, v, [quote |-> q, age |-> 0])
             t      == [u \in Venues |-> filled[u].quote]
  <2>1. /\ fetchAge' = [u \in Venues |-> filled[u].age]
        /\ tableAge' = call[c].age /\ Select(c, t)
    BY <1>8 DEF FetchLast, Swapped
  <2>2. \A u \in DOMAIN filled : IsAScore(filled[u]) /\ filled[u].age \in 0..call[c].age
    BY <1>6
  <2>3. Venues \subseteq DOMAIN filled
    BY <1>8 DEF FetchLast, With
  <2> HIDE DEF filled, t
  <2>4. tableAge' \in 0..Interval /\ \A u \in DOMAIN fetchAge' : fetchAge'[u] \in 0..tableAge'
    BY <1>2, <2>1, <2>2, <2>3 DEF Fetching
  <2>5. call' = [d \in Callers |-> call'[d]] /\ \A d \in Callers : Fetching(call'[d])
    BY <2>1, SelectKeeps
  <2>. QED
    BY <2>4, <2>5 DEF ScoresInv
<1>9. ASSUME NEW c \in Callers, Price(c)
      PROVE  ScoresInv'
  <2>1. CASE call' = [call EXCEPT ![c].reached = @ + 1]
    <3> DEFINE y == [call[c] EXCEPT !.reached = @ + 1]
    <3>1. IsACall(y) /\ y.age = call[c].age /\ y.filling = call[c].filling
      BY <1>2 DEF IsACall, CallFields
    <3>2. Fetching(y)
      BY <1>2, <3>1, MovedIsFetching
    <3>. QED
      BY <1>1, <1>9, <2>1, <3>2 DEF Price
  <2>2. CASE call' = [call EXCEPT ![c] = Idle]
    BY <1>1, <1>9, <2>2, IdleIsFetching DEF Price
  <2>3. CASE call' = [call EXCEPT ![c] = [@ EXCEPT !.pc = "place", !.reached = 0]]
    <3> DEFINE y == [call[c] EXCEPT !.pc = "place", !.reached = 0]
    <3>1. IsACall(y) /\ y.age = call[c].age /\ y.filling = call[c].filling
      BY <1>2 DEF IsACall, CallFields
    <3>2. Fetching(y)
      BY <1>2, <3>1, MovedIsFetching
    <3>. QED
      BY <1>1, <1>9, <2>3, <3>2 DEF Price
  <2>. QED
    BY <1>9, <2>1, <2>2, <2>3 DEF Price
<1>10. ASSUME NEW c \in Callers, PlaceRoute(c)
      PROVE  ScoresInv'
  <2> DEFINE pc == IF LastPlaced(c) THEN "executed" ELSE call[c].pc
             y == [call[c] EXCEPT !.reached = @ + 1, !.pc = pc]
  <2>1. call' = [call EXCEPT ![c] = y]
    BY <1>2, <1>10 DEF PlaceRoute, ScoresInv, IsACall, CallFields
  <2> HIDE DEF pc
  <2>2. IsACall(y) /\ y.age = call[c].age /\ y.filling = call[c].filling
    BY <1>2 DEF IsACall, CallFields
  <2>3. Fetching(y)
    BY <1>2, <2>2, MovedIsFetching
  <2>. QED
    BY <1>1, <1>10, <2>1, <2>3 DEF PlaceRoute
<1>11. ASSUME NEW c \in Callers, Report(c)
      PROVE  ScoresInv'
  BY <1>1, <1>11, IdleIsFetching DEF Report
<1>12. CASE PassTime
  <2>1. tableAge' = Older(tableAge, Interval) /\ tableAge \in 0..Interval
    BY <1>12 DEF PassTime, ScoresInv
  <2>2. fetchAge' = [v \in DOMAIN fetchAge |-> Older(fetchAge[v], Interval)]
    BY <1>12 DEF PassTime
  <2>3. \A v \in DOMAIN fetchAge' : fetchAge'[v] \in 0..tableAge'
    BY <2>1, <2>2, OlderTogether, LimitsAssumption DEF ScoresInv
  <2>4. ASSUME NEW c \in Callers
        PROVE  Fetching(call'[c])
    <3>1. CASE ~At(c, "refresh")
      BY <1>2, <1>12, <3>1 DEF PassTime
    <3>2. CASE At(c, "refresh")
      BY <1>2, <1>12, <3>2, AgedIsFetching DEF PassTime
    <3>. QED
      BY <3>1, <3>2
  <2>5. call' = [c \in Callers |-> call'[c]]
    BY <1>12 DEF PassTime
  <2>. QED
    BY <2>1, <2>3, <2>4, <2>5, OlderTogether, LimitsAssumption DEF ScoresInv
<1>13. CASE UNCHANGED routerVars
  BY <1>13 DEF routerVars, ScoresInv
<1>. QED
  BY <1>3, <1>4, <1>5, <1>7, <1>8, <1>9, <1>10, <1>11, <1>12, <1>13 DEF RouterNext, CallStep

LEMMA ScoresInvHolds == RouterSpec => []ScoresInv
<1>1. RouterInit => ScoresInv
  <2> SUFFICES ASSUME RouterInit PROVE ScoresInv
    OBVIOUS
  <2>1. call = [c \in Callers |-> Idle]
    BY DEF RouterInit
  <2>2. \A c \in Callers : call[c] = Idle
    BY <2>1
  <2>. QED
    BY <2>1, <2>2, IdleIsFetching, LimitsAssumption DEF RouterInit, ScoresInv
<1>. QED
  BY <1>1, ScoresStep, PTL DEF RouterSpec

\* A decision that reuses the table reads no score older than the refresh
\* interval, however long each snapshot of the refresh took, for any venues,
\* callers and interval.
THEOREM RouterScoresAreFresh == RouterSpec => ScoresAreFresh
<1>1. ScoresInv => [\A c \in Callers :
                      Reuse(c) => \A v \in DOMAIN fetchAge : fetchAge[v] < Interval]_routerVars
  BY LimitsAssumption DEF ScoresInv, Reuse
<1>. QED
  BY <1>1, ScoresInvHolds, PTL DEF ScoresAreFresh
=============================================================================
