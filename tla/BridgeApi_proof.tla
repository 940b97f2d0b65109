-------------------------- MODULE BridgeApi_proof --------------------------
(***************************************************************************)
(* Proofs about BridgeApi.                                                 *)
(***************************************************************************)
EXTENDS BridgeApi, FiniteSetTheorems, SequenceTheorems, TLAPS

----------------------------------------------------------------------------
(* Kinds of requests, and the tasks they are. *)

LEMMA KindsAre ==
  /\ Kinds = {"trade", "closeAll", "auto", "config", "test"}
  /\ PartOf["trade"] = "orders" /\ PartOf["closeAll"] = "orders"
  /\ PartOf["auto"] = "auto" /\ PartOf["config"] = "config" /\ PartOf["test"] = "config"
BY DEF Kinds, PartOf

Parts == {"orders", "auto", "config"}
Task == {Waiting, Answered} \cup OrderTasks \cup SettingTasks

\* Which tasks wait at which await.
LEMMA TaskAt ==
  ASSUME TypeOK, NEW r \in Requests
  PROVE  /\ (At(r, "reads") \/ At(r, "submits") \/ At(r, "records")) => task[r] \in OrderTasks
         /\ (At(r, "persists") \/ At(r, "engine") \/ At(r, "checks")) => task[r] \in SettingTasks
BY KindsAre DEF TypeOK, At, Waiting, Answered, OrderTasks, SettingTasks

LEMMA BeginTyping ==
  ASSUME TypeOK, NEW r \in Requests, NEW t \in OrderTasks \cup SettingTasks,
         t.pc # "records", now' = now, Begin(r, t)
  PROVE  /\ task' \in [Requests -> Task'] /\ disturbed' \subseteq Parts
         /\ \A q \in Requests : At(q, "records")' => task'[q].left # <<>>
<1>1. t.kind \in Kinds /\ PartOf[t.kind] \in Parts
  BY KindsAre DEF Parts, OrderTasks, SettingTasks
<1>2. Task' = Task
  BY DEF Task, OrderTasks, SettingTasks, Waiting, Answered
<1>3. task' = [task EXCEPT ![r] = t] /\ task \in [Requests -> Task] /\ t \in Task
  BY DEF Begin, TypeOK, Task
<1>4. disturbed' \subseteq Parts
  BY <1>1, Zenon DEF Begin, TypeOK, Parts
<1>5. \A q \in Requests : At(q, "records")' => task'[q].left # <<>>
  BY <1>3 DEF TypeOK, At
<1>. QED
  BY <1>2, <1>3, <1>4, <1>5

\* A task goes on, or is cut off.
LEMMA GoesOnTyping ==
  ASSUME TypeOK, NEW r \in Requests, now' = now,
         \/ \E t \in {Answered} \cup OrderTasks \cup SettingTasks :
              Continue(r, t) /\ (t # Answered /\ t.pc = "records" => t.left # <<>>)
         \/ task[r].kind \in Kinds /\ Cut(r)
  PROVE  /\ task' \in [Requests -> Task'] /\ disturbed' \subseteq Parts
         /\ \A q \in Requests : At(q, "records")' => task'[q].left # <<>>
<1>1. Task' = Task
  BY DEF Task, OrderTasks, SettingTasks, Waiting, Answered
<1>2. PICK t \in {Answered} \cup OrderTasks \cup SettingTasks :
        /\ task' = [task EXCEPT ![r] = t]
        /\ t # Answered /\ t.pc = "records" => t.left # <<>>
  BY DEF Continue, Cut
<1>3. task \in [Requests -> Task] /\ t \in Task
  BY DEF TypeOK, Task
<1>4. disturbed' \subseteq Parts
  BY KindsAre, Zenon DEF Continue, Cut, TypeOK, Parts
<1>5. \A q \in Requests : At(q, "records")' => task'[q].left # <<>>
  BY <1>2, KindsAre DEF TypeOK, At, Answered
<1>. QED
  BY <1>1, <1>2, <1>3, <1>4, <1>5

\* What a part of the state keeps of its shape while the others change.
BookTyped == pending \in [Symbols -> Int] /\ orders \in [Symbols -> Int]
SettingsTyped ==
  /\ memory \in [Settings -> StampedValue]
  /\ rows \in [Settings -> SUBSET StampedValue] /\ registry \subseteq StampedValue
  /\ engine \in BOOLEAN /\ acked \in [Settings -> 0..now]
TasksTyped ==
  /\ task \in [Requests -> Task] /\ disturbed \subseteq Parts
  /\ \A r \in Requests : At(r, "records") => task[r].left # <<>>

LEMMA TypeParts == TypeOK <=> now \in 0..MaxTime /\ TasksTyped /\ BookTyped /\ SettingsTyped
BY DEF TypeOK, TasksTyped, BookTyped, SettingsTyped, Task, Parts

LEMMA TypePartsNext ==
  now' \in 0..MaxTime /\ TasksTyped' /\ BookTyped' /\ SettingsTyped' => TypeOK'
BY DEF TypeOK, TasksTyped, BookTyped, SettingsTyped, Task, Parts

\* What is left to send closes every position held, each once.
Plan(left, held) ==
  /\ \A i, j \in 1..Len(left) : left[i].symbol = left[j].symbol => i = j
  /\ \A i \in 1..Len(left) : left[i].lots = -held[left[i].symbol]
  /\ \A s \in Symbols : held[s] = 0 \/ \E i \in 1..Len(left) : left[i].symbol = s

\* The orders a close-all is to send: SetToSeqs lists every element of the set once.
LEMMA LeftTyping ==
  ASSUME TypeOK,
         NEW left \in SetToSeqs({Opposite(s) : s \in {s \in Symbols : orders[s] # 0}})
  PROVE  left \in OrderList /\ Plan(left, orders)
<1> DEFINE T == {s \in Symbols : orders[s] # 0}
            S == {Opposite(s) : s \in T}
            f == [s \in T |-> Opposite(s)]
            n == Cardinality(S)
<1>1. IsFiniteSet(T)
  BY BridgeAssumption, FS_Subset
<1>2. f \in Surjection(T, S)
  BY DEF Surjection
<1>3. IsFiniteSet(S)
  <2> HIDE DEF f, S, T
  <2> QED BY <1>1, <1>2, FS_Surjection
<1>4. n \in Nat
  BY <1>3, FS_CardinalityType
<1>5. left \in [1..n -> S] /\ \A i, j \in 1..n : i # j => left[i] # left[j]
  BY DEF SetToSeqs
<1>6. Cardinality(1..n) = n
  <2> HIDE DEF n
  <2>1. Cardinality(1..n) = IF 1 > n THEN 0 ELSE n - 1 + 1
    BY <1>4, FS_Interval
  <2>. QED
    BY <1>4, <2>1
<1>7. left \in Injection(1..n, S)
  BY <1>5 DEF Injection, IsInjective
<1>8. left \in Surjection(1..n, S)
  <2> HIDE DEF S
  <2> QED BY <1>3, <1>6, <1>7, FS_Injection
<1>9. left \in Seq(S) /\ Len(left) = n
  <2> HIDE DEF S, n
  <2>1. left \in Seq(S)
    BY <1>4, <1>5, SeqDef
  <2>. QED
    BY <1>4, <1>5, <2>1, LenProperties
<1>10. \A s \in Symbols : orders[s] = 0 \/ \E i \in 1..n : left[i] = Opposite(s)
  <2> HIDE DEF n
  <2>1. \A e \in S : \E i \in 1..n : left[i] = e
    BY <1>8 DEF Surjection
  <2>. QED
    BY <2>1
<1>11. \A i \in 1..n : \E s \in T : left[i] = Opposite(s)
  BY <1>5
<1>12. \A s \in Symbols : Opposite(s).symbol = s /\ Opposite(s).lots = -orders[s]
  BY DEF Opposite, Order
<1>. QED
  <2> HIDE DEF n
  <2>1. \A i \in 1..n : left[i].symbol \in Symbols /\ left[i] = Opposite(left[i].symbol)
    BY <1>11, <1>12
  <2>2. \A i, j \in 1..n : left[i].symbol = left[j].symbol => i = j
    BY <1>5, <2>1
  <2>3. \A i \in 1..n : left[i].lots = -orders[left[i].symbol]
    BY <1>12, <2>1
  <2>4. \A s \in Symbols : orders[s] = 0 \/ \E i \in 1..n : left[i].symbol = s
    BY <1>10, <1>12
  <2>5. S \subseteq [symbol : Symbols, lots : Int]
    BY DEF TypeOK, Opposite, Order
  <2>6. left \in OrderList
    <3> HIDE DEF S
    <3> QED BY <1>9, <2>5, SeqMonotonic, Zenon DEF OrderList
  <2>. QED
    BY <1>9, <2>2, <2>3, <2>4, <2>6 DEF Plan

\* The later of two stamps.
LEMMA MaxOfTwo ==
  ASSUME NEW a \in Int, NEW b \in Int
  PROVE  Max({a, b}) = IF a >= b THEN a ELSE b
<1> DEFINE IsMax(x) == x \in {a, b} /\ \A y \in {a, b} : x >= y
<1>1. \E x : IsMax(x)
  <2>1. CASE a >= b
    BY <2>1
  <2>2. CASE b >= a
    BY <2>2
  <2>. QED
    BY <2>1, <2>2
<1>2. Max({a, b}) = CHOOSE x : IsMax(x)
  BY DEF Max
<1>3. IsMax(Max({a, b}))
  <2> HIDE DEF IsMax
  <2> QED BY <1>1, <1>2
<1>. QED
  BY <1>3

\* Nothing but time passes for the settings.
LEMMA OldStamps ==
  ASSUME SettingsTyped, now \in Nat, now' \in Nat, now <= now', UNCHANGED settings
  PROVE  SettingsTyped'
<1>1. StampedValue \subseteq StampedValue' /\ 0..now \subseteq 0..now'
  BY DEF StampedValue
<1>. QED
  BY <1>1 DEF SettingsTyped, settings

LEMMA OldTasks ==
  ASSUME TasksTyped, now \in Nat, now' \in Nat, now <= now', UNCHANGED <<task, disturbed>>
  PROVE  TasksTyped'
<1>1. Task \subseteq Task'
  BY DEF Task, OrderTasks, SettingTasks, Waiting, Answered
<1>. QED
  BY <1>1 DEF TasksTyped, At

----------------------------------------------------------------------------
(* Types: one lemma for the orders, one for the settings, one for restarts. *)

\* Every step about orders keeps the types.
LEMMA OrdersTypes ==
  ASSUME TypeOK, NEW r \in Requests,
         \/ \E s \in Symbols, lots \in Lots : Trade(r, Order(s, lots))
         \/ CloseAll(r) \/ ReadsPositions(r)
         \/ GatewayTakes(r) \/ Records(r) \/ OrdersDone(r) \/ OrdersRaise(r)
  PROVE  TypeOK'
<1>1. now \in 0..MaxTime /\ TasksTyped /\ BookTyped /\ SettingsTyped /\ MaxTime \in Nat
  BY TypeParts, BridgeAssumption
<1>2. now' = now /\ UNCHANGED settings
  BY Zenon DEF Trade, CloseAll, ReadsPositions, GatewayTakes, Records, OrdersDone, OrdersRaise
<1>3. SettingsTyped'
  BY <1>1, <1>2, OldStamps
<1>4. At(r, "submits") \/ At(r, "records") =>
        /\ task[r] \in OrderTasks /\ task[r].left \in OrderList
  BY TaskAt DEF OrderTasks
<1>5. (At(r, "submits") /\ task[r].left # <<>>) \/ At(r, "records") =>
        /\ task[r].left # <<>>
        /\ Sending(r) \in [symbol : Symbols, lots : Int] /\ Tail(task[r].left) \in OrderList
  BY <1>4, HeadTailProperties, Zenon DEF TypeOK, OrderList, Sending
<1>6. CASE \E s \in Symbols, lots \in Lots : Trade(r, Order(s, lots))
  <2>1. PICK s \in Symbols, lots \in Lots : Trade(r, Order(s, lots))
    BY <1>6
  <2> DEFINE t == OrderTask("trade", "submits", <<Order(s, lots)>>)
  <2>2. t \in OrderTasks
    BY BridgeAssumption DEF OrderTask, OrderTasks, OrderList, Order
  <2>3. t.pc # "records" /\ Begin(r, t)
    BY <2>1 DEF Trade, OrderTask
  <2>4. TasksTyped'
    <3> HIDE DEF t
    <3> QED BY <1>2, <2>2, <2>3, BeginTyping DEF TasksTyped
  <2>5. BookTyped'
    BY <1>1, <2>1 DEF Trade, book, BookTyped
  <2>. QED
    BY <1>1, <1>2, <1>3, <2>4, <2>5, TypePartsNext
<1>7. CASE CloseAll(r)
  <2> DEFINE t == OrderTask("closeAll", "reads", <<>>)
  <2>1. t \in OrderTasks
    BY EmptySeq DEF OrderTask, OrderTasks, OrderList
  <2>2. t.pc # "records" /\ Begin(r, t)
    BY <1>7 DEF CloseAll, OrderTask
  <2>3. TasksTyped'
    <3> HIDE DEF t
    <3> QED BY <1>2, <2>1, <2>2, BeginTyping DEF TasksTyped
  <2>4. BookTyped'
    BY <1>1, <1>7 DEF CloseAll, book, BookTyped
  <2>. QED
    BY <1>1, <1>2, <1>3, <2>3, <2>4, TypePartsNext
<1>8. CASE ReadsPositions(r)
  <2>1. PICK left \in SetToSeqs({Opposite(s) : s \in {s \in Symbols : orders[s] # 0}}) :
          Continue(r, OrderTask("closeAll", "submits", left))
    BY <1>8, Zenon DEF ReadsPositions
  <2>2. left \in OrderList
    BY <2>1, LeftTyping
  <2> DEFINE t == OrderTask("closeAll", "submits", left)
  <2>3. t \in OrderTasks /\ t.pc # "records"
    BY <2>2 DEF OrderTask, OrderTasks
  <2>4. TasksTyped'
    <3> HIDE DEF t
    <3> QED BY <1>2, <2>1, <2>3, GoesOnTyping DEF TasksTyped, t
  <2>5. BookTyped'
    BY <1>1, <1>8 DEF ReadsPositions, book, BookTyped
  <2>. QED
    BY <1>1, <1>2, <1>3, <2>4, <2>5, TypePartsNext
<1>9. CASE GatewayTakes(r)
  <2> DEFINE t == OrderTask(task[r].kind, "records", task[r].left)
  <2>1. At(r, "submits") /\ task[r].left # <<>>
    BY <1>9 DEF GatewayTakes
  <2>2. t \in OrderTasks /\ t.left # <<>> /\ Continue(r, t)
    BY <1>4, <1>9, <2>1 DEF OrderTask, OrderTasks, GatewayTakes
  <2>3. TasksTyped'
    <3> HIDE DEF t
    <3> QED BY <1>2, <2>2, GoesOnTyping DEF TasksTyped
  <2>4. BookTyped'
    BY <1>1, <1>5, <1>9, <2>1 DEF GatewayTakes, BookTyped
  <2>. QED
    BY <1>1, <1>2, <1>3, <2>3, <2>4, TypePartsNext
<1>10. CASE Records(r)
  <2> DEFINE t == OrderTask(task[r].kind, "submits", Tail(task[r].left))
  <2>1. At(r, "records") /\ Continue(r, t)
    BY <1>10 DEF Records
  <2>2. t \in OrderTasks /\ t.pc # "records"
    BY <1>4, <1>5, <2>1 DEF OrderTask, OrderTasks
  <2>3. TasksTyped'
    <3> HIDE DEF t
    <3> QED BY <1>2, <2>1, <2>2, GoesOnTyping DEF TasksTyped
  <2>4. BookTyped'
    BY <1>1, <1>5, <1>10, <2>1 DEF Records, BookTyped
  <2>. QED
    BY <1>1, <1>2, <1>3, <2>3, <2>4, TypePartsNext
<1>11. CASE OrdersDone(r)
  <2>1. TasksTyped'
    BY <1>2, <1>11, GoesOnTyping DEF OrdersDone, TasksTyped
  <2>2. BookTyped'
    BY <1>1, <1>11 DEF OrdersDone, book, BookTyped
  <2>. QED
    BY <1>1, <1>2, <1>3, <2>1, <2>2, TypePartsNext
<1>12. CASE OrdersRaise(r)
  <2>1. task[r].kind \in Kinds /\ Cut(r)
    BY <1>12 DEF OrdersRaise, At
  <2>2. TasksTyped'
    BY <1>2, <2>1, GoesOnTyping DEF TasksTyped
  <2>3. BookTyped'
    BY <1>1, <1>5, <1>12 DEF OrdersRaise, BookTyped
  <2>. QED
    BY <1>1, <1>2, <1>3, <2>2, <2>3, TypePartsNext
<1>. QED
  BY <1>6, <1>7, <1>8, <1>9, <1>10, <1>11, <1>12

\* Every step about settings keeps the types.
LEMMA SettingsTypes ==
  ASSUME TypeOK, NEW r \in Requests,
         \/ \E setting \in Settings, value \in BOOLEAN : Save(r, setting, value)
         \/ Persists(r) \/ PersistRaises(r) \/ TellsEngine(r) \/ EngineMissed(r)
         \/ Test(r) \/ Checks(r) \/ ChecksRaise(r)
  PROVE  TypeOK'
<1>1. now \in 0..MaxTime /\ TasksTyped /\ BookTyped /\ SettingsTyped /\ MaxTime \in Nat
  BY TypeParts, BridgeAssumption
<1>2. now' = now /\ UNCHANGED book
  BY DEF Save, Persists, PersistRaises, TellsEngine, EngineMissed, Test, Checks, ChecksRaise
<1>3. BookTyped' /\ now' \in 0..MaxTime /\ StampedValue' = StampedValue
  BY <1>1, <1>2 DEF BookTyped, book, StampedValue
<1>4. CASE \E setting \in Settings, value \in BOOLEAN : Save(r, setting, value)
  <2>1. PICK setting \in Settings, value \in BOOLEAN : Save(r, setting, value)
    BY <1>4
  <2> DEFINE t == SettingTask(setting, "persists", value, now)
  <2>2. t \in SettingTasks /\ t.pc # "records" /\ Begin(r, t)
    BY <1>1, <2>1 DEF SettingTask, SettingTasks, Settings, Save
  <2>3. TasksTyped'
    <3> HIDE DEF t
    <3> QED BY <1>2, <2>2, BeginTyping DEF TasksTyped
  <2>4. Stamped(value, now) \in StampedValue
    BY <1>1 DEF Stamped, StampedValue
  <2>5. SettingsTyped'
    BY <1>1, <1>2, <1>3, <2>1, <2>4 DEF SettingsTyped, Save
  <2>. QED
    BY <1>3, <2>3, <2>5, TypePartsNext
<1>5. CASE Test(r)
  <2> DEFINE t == SettingTask("test", "checks", memory["config"].value, now)
  <2>1. t \in SettingTasks /\ t.pc # "records" /\ Begin(r, t)
    BY <1>1, <1>5 DEF SettingTask, SettingTasks, Settings, Test, SettingsTyped, StampedValue
  <2>2. TasksTyped'
    <3> HIDE DEF t
    <3> QED BY <1>2, <2>1, BeginTyping DEF TasksTyped
  <2>3. SettingsTyped'
    BY <1>1, <1>2, <1>5, OldStamps DEF Test
  <2>. QED
    BY <1>3, <2>2, <2>3, TypePartsNext
<1>6. CASE Persists(r) \/ PersistRaises(r) \/ TellsEngine(r) \/ EngineMissed(r)
             \/ Checks(r) \/ ChecksRaise(r)
  <2>1. task[r] \in SettingTasks /\ task[r].kind \in Kinds
    BY <1>6, TaskAt DEF Persists, PersistRaises, TellsEngine, EngineMissed, Checks, ChecksRaise, At
  <2>2. /\ task[r].value \in BOOLEAN /\ task[r].stamp \in 0..now
        /\ Stamped(task[r].value, task[r].stamp) \in StampedValue
        /\ Stamped(task[r].value, now) \in StampedValue
    BY <1>1, <2>1 DEF SettingTasks, Stamped, StampedValue
  <2>3. memory["config"].value \in BOOLEAN
    BY <1>1 DEF SettingsTyped, StampedValue, Settings
  <2>4. TasksTyped'
    <3>1. CASE Persists(r)
      <4> DEFINE t == IF task[r].kind = "auto"
                      THEN SettingTask("auto", "engine", task[r].value, task[r].stamp)
                      ELSE SettingTask("config", "checks", memory["config"].value, task[r].stamp)
      <4>1. t \in SettingTasks /\ t.pc # "records"
        BY <2>2, <2>3 DEF SettingTask, SettingTasks
      <4>2. Continue(r, t)
        BY <3>1 DEF Persists
      <4>. QED
        <5> HIDE DEF t
        <5> QED BY <1>2, <4>1, <4>2, GoesOnTyping DEF TasksTyped
    <3>2. CASE Continue(r, Answered)
      BY <1>2, <3>2, GoesOnTyping DEF TasksTyped
    <3>3. CASE Cut(r)
      BY <1>2, <2>1, <3>3, GoesOnTyping DEF TasksTyped
    <3>. QED
      BY <1>6, <3>1, <3>2, <3>3 DEF PersistRaises, TellsEngine, EngineMissed, Checks, ChecksRaise
  <2>5. rows' \in [Settings -> SUBSET StampedValue]
    <3>1. CASE Inserted(r)
      BY <1>1, <2>2, <3>1, Zenon DEF Inserted, SettingsTyped
    <3>2. CASE UNCHANGED rows
      BY <1>1, <3>2 DEF SettingsTyped
    <3>. QED
      BY <1>6, <3>1, <3>2 DEF Persists, PersistRaises, TellsEngine, EngineMissed, Checks, ChecksRaise
  <2>6. acked' \in [Settings -> 0..now]
    <3>1. CASE Acknowledge(r)
      <4>1. acked[task[r].kind] \in 0..now \/ task[r].kind \notin Settings
        BY <1>1 DEF SettingsTyped
      <4>2. task[r].kind \in Settings =>
              Max({acked[task[r].kind], task[r].stamp}) \in 0..now
        BY <2>2, <4>1, MaxOfTwo
      <4>. QED
        BY <1>1, <3>1, <4>2, Zenon DEF Acknowledge, SettingsTyped
    <3>2. CASE UNCHANGED acked
      BY <1>1, <3>2 DEF SettingsTyped
    <3>. QED
      BY <1>6, <3>1, <3>2 DEF Persists, PersistRaises, TellsEngine, EngineMissed, Checks, ChecksRaise
  <2>7. registry' \subseteq StampedValue
    <3>1. CASE Registers(r)
      BY <1>1, <2>2, <3>1 DEF Registers, SettingsTyped
    <3>2. CASE UNCHANGED registry
      BY <1>1, <3>2 DEF SettingsTyped
    <3>. QED
      BY <1>6, <3>1, <3>2 DEF Persists, PersistRaises, TellsEngine, EngineMissed, Checks, ChecksRaise
  <2>8. memory' = memory /\ engine' \in BOOLEAN
    BY <1>1, <1>6, <2>2
    DEF Persists, PersistRaises, TellsEngine, EngineMissed, Checks, ChecksRaise, SettingsTyped
  <2>9. SettingsTyped'
    BY <1>1, <1>2, <1>3, <2>5, <2>6, <2>7, <2>8 DEF SettingsTyped
  <2>. QED
    BY <1>3, <2>4, <2>9, TypePartsNext
<1>. QED
  BY <1>4, <1>5, <1>6

\* Restarts and the clock keep the types.
LEMMA TimeTypes ==
  ASSUME TypeOK, Restart \/ EngineRestarts \/ EngineSetElsewhere \/ Clock
  PROVE  TypeOK'
<1>1. now \in 0..MaxTime /\ TasksTyped /\ BookTyped /\ SettingsTyped /\ MaxTime \in Nat
  BY TypeParts, BridgeAssumption
<1>2. now' \in 0..MaxTime /\ now <= now' /\ now \in Nat /\ now' \in Nat
  BY <1>1 DEF Restart, EngineRestarts, EngineSetElsewhere, Clock
<1>3. BookTyped'
  BY <1>1 DEF Restart, EngineRestarts, EngineSetElsewhere, Clock, book, BookTyped
<1>4. CASE Restart
  <2>1. StampedValue \subseteq StampedValue' /\ 0..now \subseteq 0..now'
    BY <1>2 DEF StampedValue
  <2>2. \A setting \in Settings : Loaded(setting) \subseteq StampedValue
    <3>1. Stamped(FALSE, now) \in StampedValue
      BY <1>2 DEF Stamped, StampedValue
    <3>2. \A setting \in Settings : rows[setting] \subseteq StampedValue
      BY <1>1 DEF SettingsTyped
    <3>. QED
      BY <3>1, <3>2, Zenon DEF Loaded, Newest
  <2>3. memory' \in [Settings -> StampedValue']
    BY <1>4, <2>1, <2>2 DEF Restart, Settings
  <2>4. SettingsTyped'
    BY <1>1, <1>4, <2>1, <2>3 DEF SettingsTyped, Restart
  <2>5. task' \in [Requests -> {Waiting, Answered}]
    BY <1>4 DEF Restart
  <2>6. disturbed' \subseteq Parts
    BY <1>1, <1>4, KindsAre, Zenon DEF Restart, TasksTyped, Parts
  <2>7. TasksTyped'
    BY <2>5, <2>6, KindsAre DEF TasksTyped, Task, At, Waiting, Answered
  <2>. QED
    BY <1>2, <1>3, <2>4, <2>7, TypePartsNext
<1>5. CASE EngineRestarts \/ EngineSetElsewhere
  <2>1. Task' = Task
    BY <1>5 DEF EngineRestarts, EngineSetElsewhere, Task, OrderTasks, SettingTasks, Waiting, Answered
  <2>2. TasksTyped'
    BY <1>1, <1>5, <2>1 DEF EngineRestarts, EngineSetElsewhere, TasksTyped, Parts, At
  <2>3. SettingsTyped'
    BY <1>1, <1>5, Zenon DEF EngineRestarts, EngineSetElsewhere, SettingsTyped, StampedValue
  <2>. QED
    BY <1>2, <1>3, <2>2, <2>3, TypePartsNext
<1>6. CASE Clock
  <2>1. UNCHANGED settings /\ UNCHANGED <<task, disturbed>>
    BY <1>6 DEF Clock
  <2>. QED
    BY <1>1, <1>2, <1>3, <2>1, OldTasks, OldStamps, TypePartsNext
<1>. QED
  BY <1>4, <1>5, <1>6

LEMMA InitTypes == Init => TypeOK
<1> SUFFICES ASSUME Init PROVE TypeOK
  OBVIOUS
<1>1. now = 0 /\ now \in 0..MaxTime
  BY BridgeAssumption DEF Init
<1>2. TasksTyped
  BY KindsAre DEF Init, TasksTyped, Task, At, Waiting
<1>3. BookTyped
  BY DEF Init, BookTyped
<1>4. Stamped(FALSE, 0) \in StampedValue
  BY <1>1 DEF Stamped, StampedValue
<1>5. SettingsTyped
  <2>1. memory \in [Settings -> StampedValue]
    BY <1>4, Zenon DEF Init
  <2>2. rows \in [Settings -> SUBSET StampedValue] /\ registry \subseteq StampedValue
    BY DEF Init
  <2>3. acked \in [Settings -> 0..now]
    BY <1>1 DEF Init
  <2>4. engine \in BOOLEAN
    BY Zenon DEF Init
  <2>. QED
    BY <2>1, <2>2, <2>3, <2>4 DEF SettingsTyped
<1>. QED
  BY <1>1, <1>2, <1>3, <1>5, TypeParts

LEMMA NextTypes == TypeOK /\ [Next]_vars => TypeOK'
<1> SUFFICES ASSUME TypeOK, [Next]_vars PROVE TypeOK'
  OBVIOUS
<1>1. CASE UNCHANGED vars
  BY <1>1 DEF vars, book, settings, TypeOK, At, StampedValue, OrderTasks, SettingTasks
<1>. QED
  BY <1>1, OrdersTypes, SettingsTypes, TimeTypes DEF Next

\* Whatever requests overlap, fail or are cut off, the state keeps its shape:
\* nothing is stamped in the future and what is recorded was sent.
THEOREM TypeCorrect == Spec => []TypeOK
<1>. QED
  BY InitTypes, NextTypes, PTL DEF Spec

----------------------------------------------------------------------------
(* An answered save is never lost. *)

\* What keeps it true across a restart: the newest answered save has a row, or a
\* newer one has; and so has every save that is about to be answered.
RowsHold ==
  \A setting \in Settings :
    acked[setting] = 0 \/ \E row \in rows[setting] : acked[setting] <= row.stamp

Saved(t) ==
  /\ t.kind \in Settings =>
       /\ t.stamp <= memory[t.kind].stamp
       /\ t.pc # "persists" => \E row \in rows[t.kind] : t.stamp <= row.stamp
  /\ t.kind = "test" => t.pc # "persists"

SavedNext(t) ==
  /\ t.kind \in Settings =>
       /\ t.stamp <= memory'[t.kind].stamp
       /\ t.pc # "persists" => \E row \in rows'[t.kind] : t.stamp <= row.stamp
  /\ t.kind = "test" => t.pc # "persists"

SaveInv == TypeOK /\ SettingsSurvive /\ RowsHold /\ \A r \in Requests : Saved(task[r])

\* Memory and tables only get newer while a request goes from one task to another.
LEMMA StillSaved ==
  ASSUME SaveInv, TypeOK', NEW r \in Requests, NEW t,
         task' = [task EXCEPT ![r] = t], SavedNext(t),
         \A setting \in Settings : /\ memory[setting].stamp <= memory'[setting].stamp
                                  /\ rows[setting] \subseteq rows'[setting]
  PROVE  \A q \in Requests : Saved(task[q])'
<1> SUFFICES ASSUME NEW q \in Requests, q # r, task'[q] = task[q]
             PROVE  Saved(task[q])'
  <2>1. task'[r] = t
    BY DEF SaveInv, TypeOK
  <2>2. \A q \in Requests : q # r => task'[q] = task[q]
    BY DEF SaveInv, TypeOK
  <2>. QED
    BY <2>1, <2>2 DEF Saved, SavedNext
<1>1. task[q].kind \in Settings =>
        /\ task[q].stamp \in Int
        /\ memory[task[q].kind].stamp \in Int /\ memory'[task[q].kind].stamp \in Int
  BY SMTT(60) DEF SaveInv, TypeOK, Settings, StampedValue, SettingTasks, OrderTasks, Waiting, Answered
<1>. QED
  BY <1>1 DEF SaveInv, Saved

\* Steps about orders and the engine leave what is saved alone.
LEMMA OtherStepsSave ==
  ASSUME SaveInv, TypeOK', UNCHANGED <<memory, rows, acked>>, NEW r \in Requests,
         \/ UNCHANGED task
         \/ \E t : task' = [task EXCEPT ![r] = t] /\ t.kind \notin Settings \cup {"test"}
  PROVE  SaveInv'
<1>1. SettingsSurvive' /\ RowsHold'
  BY DEF SaveInv, SettingsSurvive, RowsHold
<1>2. CASE UNCHANGED task
  BY <1>1, <1>2 DEF SaveInv, Saved
<1>3. CASE \E t : task' = [task EXCEPT ![r] = t] /\ t.kind \notin Settings \cup {"test"}
  <2>1. PICK t : task' = [task EXCEPT ![r] = t] /\ t.kind \notin Settings \cup {"test"}
    BY <1>3, Zenon
  <2>2. SavedNext(t)
    BY <2>1 DEF SavedNext
  <2>3. \A setting \in Settings : memory[setting].stamp <= memory'[setting].stamp
    BY DEF SaveInv, TypeOK, StampedValue
  <2>4. \A q \in Requests : Saved(task[q])'
    BY <2>1, <2>2, <2>3, StillSaved, Zenon
  <2>. QED
    BY <1>1, <2>4 DEF SaveInv
<1>. QED
  BY <1>2, <1>3

LEMMA OrdersSave ==
  ASSUME SaveInv, TypeOK', NEW r \in Requests,
         \/ \E s \in Symbols, lots \in Lots : Trade(r, Order(s, lots))
         \/ CloseAll(r) \/ ReadsPositions(r)
         \/ GatewayTakes(r) \/ Records(r) \/ OrdersDone(r) \/ OrdersRaise(r)
  PROVE  SaveInv'
<1>1. UNCHANGED <<memory, rows, acked>>
  BY Zenon DEF Trade, CloseAll, ReadsPositions, GatewayTakes, Records, OrdersDone, OrdersRaise, settings
<1>2. At(r, "submits") \/ At(r, "records") => task[r].kind \notin Settings \cup {"test"}
  BY TaskAt DEF SaveInv, OrderTasks, Settings
<1>3. \E t : task' = [task EXCEPT ![r] = t] /\ t.kind \notin Settings \cup {"test"}
  BY <1>2, Zenon DEF Trade, CloseAll, ReadsPositions, GatewayTakes, Records, OrdersDone, OrdersRaise,
              Begin, Continue, Cut, OrderTask, Answered, Settings
<1>. QED
  BY <1>1, <1>3, OtherStepsSave, Zenon

LEMMA SettingsSave ==
  ASSUME SaveInv, TypeOK', NEW r \in Requests,
         \/ \E setting \in Settings, value \in BOOLEAN : Save(r, setting, value)
         \/ Persists(r) \/ PersistRaises(r) \/ TellsEngine(r) \/ EngineMissed(r)
         \/ Test(r) \/ Checks(r) \/ ChecksRaise(r)
  PROVE  SaveInv'
<1>1. TypeOK /\ now \in Nat /\ now' = now
  BY BridgeAssumption DEF SaveInv, TypeOK, Save, Persists, PersistRaises, TellsEngine,
     EngineMissed, Test, Checks, ChecksRaise
<1>2. \A setting \in Settings :
        /\ memory[setting].stamp \in 0..now /\ acked[setting] \in 0..now
        /\ \A row \in rows[setting] : row.stamp \in 0..now
  BY <1>1 DEF TypeOK, StampedValue
<1>3. CASE \E setting \in Settings, value \in BOOLEAN : Save(r, setting, value)
  <2>1. PICK setting \in Settings, value \in BOOLEAN : Save(r, setting, value)
    BY <1>3
  <2> DEFINE t == SettingTask(setting, "persists", value, now)
  <2>2. /\ memory' = [memory EXCEPT ![setting] = Stamped(value, now)]
        /\ UNCHANGED <<rows, acked>> /\ task' = [task EXCEPT ![r] = t]
    BY <2>1 DEF Save, Begin
  <2>3. memory'[setting].stamp = now /\ \A other \in Settings \ {setting} : memory'[other] = memory[other]
    BY <1>1, <2>2 DEF TypeOK, Stamped
  <2>4. \A other \in Settings : /\ memory[other].stamp <= memory'[other].stamp
                               /\ rows[other] \subseteq rows'[other]
    BY <1>1, <1>2, <2>2, <2>3
  <2>5. SettingsSurvive' /\ RowsHold'
    BY <1>1, <1>2, <2>2, <2>3 DEF SaveInv, SettingsSurvive, RowsHold
  <2>6. SavedNext(t)
    BY <1>1, <2>3 DEF SavedNext, SettingTask, Settings
  <2>7. \A q \in Requests : Saved(task[q])'
    <3> HIDE DEF t
    <3> QED BY <2>2, <2>4, <2>6, StillSaved, Zenon
  <2>. QED
    BY <2>5, <2>7 DEF SaveInv
<1>4. CASE Test(r)
  <2> DEFINE t == SettingTask("test", "checks", memory["config"].value, now)
  <2>1. UNCHANGED <<memory, rows, acked>> /\ task' = [task EXCEPT ![r] = t]
    BY <1>4 DEF Test, Begin, settings
  <2>2. SavedNext(t)
    BY DEF SavedNext, SettingTask, Settings
  <2>3. SettingsSurvive' /\ RowsHold'
    BY <2>1 DEF SaveInv, SettingsSurvive, RowsHold
  <2>4. \A setting \in Settings : /\ memory[setting].stamp <= memory'[setting].stamp
                                 /\ rows[setting] \subseteq rows'[setting]
    BY <1>1, <1>2, <2>1
  <2>5. \A q \in Requests : Saved(task[q])'
    <3> HIDE DEF t
    <3> QED BY <2>1, <2>2, <2>4, StillSaved, Zenon
  <2>. QED
    BY <2>3, <2>5 DEF SaveInv
<1>5. CASE Persists(r) \/ PersistRaises(r) \/ TellsEngine(r) \/ EngineMissed(r)
             \/ Checks(r) \/ ChecksRaise(r)
  <2>1. task[r] \in SettingTasks /\ Saved(task[r])
    BY <1>1, <1>5, TaskAt
    DEF Persists, PersistRaises, TellsEngine, EngineMissed, Checks, ChecksRaise, SaveInv
  <2>2. task[r].stamp \in 0..now
    BY <2>1 DEF SettingTasks
  <2>3. memory' = memory
    BY <1>5 DEF Persists, PersistRaises, TellsEngine, EngineMissed, Checks, ChecksRaise
  <2>4. /\ \A setting \in Settings : rows[setting] \subseteq rows'[setting]
        /\ Inserted(r) /\ task[r].kind \in Settings =>
             Stamped(task[r].value, task[r].stamp) \in rows'[task[r].kind]
    BY <1>1, <1>5, Zenon DEF Persists, PersistRaises, TellsEngine, EngineMissed, Checks, ChecksRaise,
       Inserted, TypeOK
  <2>5. \A setting \in Settings : /\ memory[setting].stamp <= memory'[setting].stamp
                                 /\ rows[setting] \subseteq rows'[setting]
    BY <1>1, <1>2, <2>3, <2>4
  <2>6. \A q \in Requests : Saved(task[q])'
    <3>1. CASE task' = [task EXCEPT ![r] = Answered]
      <4>1. SavedNext(Answered)
        BY DEF SavedNext, Answered, Settings
      <4>. QED
        BY <2>5, <3>1, <4>1, StillSaved, Zenon
    <3>2. CASE Persists(r)
      <4> DEFINE t == IF task[r].kind = "auto"
                      THEN SettingTask("auto", "engine", task[r].value, task[r].stamp)
                      ELSE SettingTask("config", "checks", memory["config"].value, task[r].stamp)
      <4>1. task[r].pc = "persists" /\ task[r].kind \in Settings
        BY <2>1, <3>2 DEF Persists, At, Saved, SettingTasks, Settings
      <4>2. t.kind = task[r].kind /\ t.stamp = task[r].stamp
        BY <4>1 DEF SettingTask, Settings
      <4>3. \E row \in rows'[task[r].kind] : task[r].stamp <= row.stamp
        BY <2>2, <2>4, <3>2, <4>1 DEF Persists, Stamped
      <4>4. SavedNext(t)
        <5>1. t.kind \in Settings /\ t.kind # "test"
          BY <4>1, <4>2 DEF Settings
        <5>2. t.stamp <= memory'[t.kind].stamp
          BY <2>1, <2>3, <4>1, <4>2 DEF Saved
        <5>. QED
          <6> HIDE DEF t
          <6> QED BY <4>2, <4>3, <5>1, <5>2 DEF SavedNext
      <4>5. task' = [task EXCEPT ![r] = t]
        BY <3>2 DEF Persists, Continue
      <4>. QED
        <5> HIDE DEF t
        <5> QED BY <2>5, <4>4, <4>5, StillSaved, Zenon
    <3>. QED
      BY <1>5, <3>1, <3>2
      DEF PersistRaises, TellsEngine, EngineMissed, Checks, ChecksRaise, Continue, Cut
  <2>7. SettingsSurvive' /\ RowsHold'
    <3>1. CASE UNCHANGED acked
      BY <2>3, <2>4, <3>1 DEF SaveInv, SettingsSurvive, RowsHold
    <3>2. CASE Acknowledge(r) /\ task[r].kind \in Settings /\ task[r].pc # "persists"
      <4> DEFINE k == task[r].kind
      <4>1. acked'[k] = Max({acked[k], task[r].stamp})
        BY <1>1, <3>2, Zenon DEF Acknowledge, TypeOK
      <4>2. \A other \in Settings \ {k} : acked'[other] = acked[other]
        BY <1>1, <3>2 DEF Acknowledge, TypeOK
      <4>3. acked'[k] \in {acked[k], task[r].stamp}
        BY <1>2, <2>2, <3>2, <4>1, MaxOfTwo
      <4>4. task[r].stamp <= memory[k].stamp /\ \E row \in rows[k] : task[r].stamp <= row.stamp
        BY <2>1, <3>2 DEF Saved
      <4>5. SettingsSurvive'
        BY <2>3, <4>2, <4>3, <4>4 DEF SaveInv, SettingsSurvive
      <4>6. RowsHold'
        BY <2>4, <4>2, <4>3, <4>4 DEF SaveInv, RowsHold
      <4>. QED
        BY <4>5, <4>6
    <3>3. CASE Acknowledge(r) /\ task[r].kind \notin Settings
      <4>1. acked' = acked
        BY <1>1, <3>3 DEF Acknowledge, TypeOK
      <4>. QED
        BY <3>1, <4>1
    <3>. QED
      BY <1>5, <3>1, <3>2, <3>3
      DEF Persists, PersistRaises, TellsEngine, EngineMissed, Checks, ChecksRaise, At
  <2>. QED
    BY <2>6, <2>7 DEF SaveInv
<1>. QED
  BY <1>3, <1>4, <1>5

LEMMA TimeSaves ==
  ASSUME SaveInv, TypeOK', Restart \/ EngineRestarts \/ EngineSetElsewhere \/ Clock
  PROVE  SaveInv'
<1>1. CASE EngineRestarts \/ EngineSetElsewhere \/ Clock
  <2>1. UNCHANGED <<task, memory, rows, acked>>
    BY <1>1 DEF EngineRestarts, EngineSetElsewhere, Clock, settings
  <2>. QED
    BY <2>1 DEF SaveInv, SettingsSurvive, RowsHold, Saved
<1>2. CASE Restart
  <2>1. UNCHANGED <<rows, acked>>
    BY <1>2 DEF Restart
  <2>2. RowsHold'
    BY <2>1 DEF SaveInv, RowsHold
  <2>3. \A q \in Requests : Saved(task[q])'
    BY <1>2 DEF Restart, Saved, Waiting, Answered, Settings
  <2>4. \A setting \in Settings : memory'[setting] \in Loaded(setting)
    BY <1>2 DEF Restart, Settings
  <2>5. ASSUME NEW setting \in Settings
        PROVE  acked[setting] <= memory'[setting].stamp
    <3>1. /\ acked[setting] \in 0..now /\ now \in Nat
          /\ \A row \in rows[setting] : row.stamp \in 0..now
      BY BridgeAssumption DEF SaveInv, TypeOK, StampedValue
    <3>2. CASE rows[setting] = {}
      <4>1. acked[setting] = 0 /\ memory'[setting].stamp = now
        BY <2>4, <3>2 DEF SaveInv, RowsHold, Loaded, Stamped
      <4>. QED
        BY <3>1, <4>1
    <3>3. CASE rows[setting] # {}
      <4>1. /\ memory'[setting] \in rows[setting]
            /\ \A other \in rows[setting] : other.stamp <= memory'[setting].stamp
        BY <2>4, <3>3, Zenon DEF Loaded, Newest
      <4>. QED
        BY <3>1, <4>1 DEF SaveInv, RowsHold
    <3>. QED
      BY <3>2, <3>3
  <2>. QED
    BY <2>1, <2>2, <2>3, <2>5 DEF SaveInv, SettingsSurvive
<1>. QED
  BY <1>1, <1>2

LEMMA InitSaves == Init => SaveInv
<1> SUFFICES ASSUME Init PROVE SaveInv
  OBVIOUS
<1>1. \A setting \in Settings : acked[setting] = 0 /\ memory[setting].stamp = 0
  BY DEF Init, Stamped
<1>2. \A r \in Requests : Saved(task[r])
  BY Zenon DEF Init, Saved, Waiting, Settings
<1>. QED
  BY <1>1, <1>2, InitTypes DEF SaveInv, SettingsSurvive, RowsHold

LEMMA NextSaves == SaveInv /\ [Next]_vars => SaveInv'
<1> SUFFICES ASSUME SaveInv, [Next]_vars PROVE SaveInv'
  OBVIOUS
<1>1. TypeOK'
  BY NextTypes DEF SaveInv
<1>2. CASE UNCHANGED vars
  BY <1>1, <1>2 DEF vars, settings, SaveInv, SettingsSurvive, RowsHold, Saved
<1>. QED
  BY <1>1, <1>2, OrdersSave, SettingsSave, TimeSaves DEF Next

\* A setting whose save was answered stays in force, or a newer one does, whatever
\* saves overlap, fail or are cut off by restarts, for any number of requests.
THEOREM AnsweredSavesSurvive == Spec => []SettingsSurvive
<1>1. SaveInv => SettingsSurvive
  BY DEF SaveInv
<1>. QED
  BY <1>1, InitSaves, NextSaves, PTL DEF Spec

----------------------------------------------------------------------------
(* A close-all that has the orders to itself flattens them. *)

OrderKinds == {"trade", "closeAll"}
Alone == \A r, q \in Requests :
           task[r].kind \in OrderKinds /\ task[q].kind \in OrderKinds => r = q
Planned == \A r \in Requests :
             task[r].kind = "closeAll" /\ task[r].pc # "reads" => Plan(task[r].left, orders)

FlattenInv == TypeOK /\ ("orders" \notin disturbed => Alone /\ Planned)

LEMMA UnderWayOrders == UnderWay("orders") = {r \in Requests : task[r].kind \in OrderKinds}
BY KindsAre DEF UnderWay, OrderKinds


\* The orders and the order tasks are left alone.
LEMMA OrdersAlone ==
  ASSUME FlattenInv, TypeOK', UNCHANGED orders,
         "orders" \in disturbed' <=> "orders" \in disturbed,
         NEW r \in Requests, NEW t,
         task' = [task EXCEPT ![r] = t], t.kind \notin OrderKinds,
         task[r].kind \notin OrderKinds
  PROVE  FlattenInv'
<1>1. task'[r] = t /\ \A q \in Requests \ {r} : task'[q] = task[q]
  BY DEF FlattenInv, TypeOK
<1>2. Alone => Alone'
  BY <1>1 DEF Alone
<1>3. Planned => Planned'
  BY <1>1 DEF Planned, Plan, OrderKinds
<1>. QED
  BY <1>2, <1>3 DEF FlattenInv

LEMMA SettingsFlatten ==
  ASSUME FlattenInv, TypeOK', NEW r \in Requests,
         \/ \E setting \in Settings, value \in BOOLEAN : Save(r, setting, value)
         \/ Persists(r) \/ PersistRaises(r) \/ TellsEngine(r) \/ EngineMissed(r)
         \/ Test(r) \/ Checks(r) \/ ChecksRaise(r)
  PROVE  FlattenInv'
<1>1. UNCHANGED orders
  BY DEF Save, Persists, PersistRaises, TellsEngine, EngineMissed, Test, Checks, ChecksRaise,
     book
<1>2. CASE \/ \E setting \in Settings, value \in BOOLEAN : Save(r, setting, value)
           \/ Test(r)
  <2>1. PICK t : /\ Begin(r, t) /\ t.kind \in {"auto", "config", "test"}
    <3>1. CASE \E setting \in Settings, value \in BOOLEAN : Save(r, setting, value)
      <4>1. PICK setting \in Settings, value \in BOOLEAN :
              Begin(r, SettingTask(setting, "persists", value, now))
        BY <3>1 DEF Save
      <4>2. SettingTask(setting, "persists", value, now).kind \in {"auto", "config", "test"}
        BY DEF SettingTask, Settings
      <4>. QED
        BY <4>1, <4>2
    <3>2. CASE Test(r)
      <4>1. Begin(r, SettingTask("test", "checks", memory["config"].value, now))
        BY <3>2 DEF Test
      <4>2. SettingTask("test", "checks", memory["config"].value, now).kind
              \in {"auto", "config", "test"}
        BY DEF SettingTask
      <4>. QED
        BY <4>1, <4>2
    <3>. QED
      BY <1>2, <3>1, <3>2
  <2>2. task[r] = Waiting /\ task' = [task EXCEPT ![r] = t] /\ PartOf[t.kind] # "orders"
    BY <2>1, KindsAre DEF Begin
  <2>3. "orders" \in disturbed' <=> "orders" \in disturbed
    BY <2>1, <2>2 DEF Begin
  <2>4. task[r].kind \notin OrderKinds /\ t.kind \notin OrderKinds
    BY <2>1, <2>2 DEF Waiting, OrderKinds
  <2>. QED
    BY <1>1, <2>2, <2>3, <2>4, OrdersAlone, Zenon
<1>3. CASE Persists(r) \/ PersistRaises(r) \/ TellsEngine(r) \/ EngineMissed(r)
             \/ Checks(r) \/ ChecksRaise(r)
  <2>1. task[r] \in SettingTasks
    BY <1>3, TaskAt
    DEF Persists, PersistRaises, TellsEngine, EngineMissed, Checks, ChecksRaise, FlattenInv
  <2>2. task[r].kind \notin OrderKinds /\ PartOf[task[r].kind] # "orders"
    BY <2>1, KindsAre DEF SettingTasks, OrderKinds
  <2>3. \E t : task' = [task EXCEPT ![r] = t] /\ t.kind \notin OrderKinds
    <3>1. CASE Persists(r)
      <4> DEFINE t == IF task[r].kind = "auto"
                      THEN SettingTask("auto", "engine", task[r].value, task[r].stamp)
                      ELSE SettingTask("config", "checks", memory["config"].value, task[r].stamp)
      <4>1. t.kind \notin OrderKinds
        BY DEF SettingTask, OrderKinds
      <4>2. task' = [task EXCEPT ![r] = t]
        BY <3>1 DEF Persists, Continue
      <4>. QED
        <5> HIDE DEF t
        <5> QED BY <4>1, <4>2, Zenon
    <3>2. Answered.kind \notin OrderKinds
      BY DEF Answered, OrderKinds
    <3>. QED
      BY <1>3, <3>1, <3>2
      DEF PersistRaises, TellsEngine, EngineMissed, Checks, ChecksRaise, Continue, Cut
  <2>4. "orders" \in disturbed' <=> "orders" \in disturbed
    BY <1>3, <2>2 DEF Persists, PersistRaises, TellsEngine, EngineMissed, Checks, ChecksRaise,
       Continue, Cut
  <2>. QED
    BY <1>1, <2>2, <2>3, <2>4, OrdersAlone, Zenon
<1>. QED
  BY <1>2, <1>3

LEMMA TimeFlattens ==
  ASSUME FlattenInv, TypeOK', Restart \/ EngineRestarts \/ EngineSetElsewhere \/ Clock
  PROVE  FlattenInv'
<1>1. UNCHANGED orders
  BY DEF Restart, EngineRestarts, EngineSetElsewhere, Clock, book
<1>2. CASE Restart
  <2>1. \A r \in Requests : task'[r].kind \notin OrderKinds
    BY <1>2 DEF Restart, Waiting, Answered, OrderKinds
  <2>2. Alone' /\ Planned'
    BY <2>1 DEF Alone, Planned, OrderKinds
  <2>. QED
    BY <2>2 DEF FlattenInv
<1>3. CASE EngineRestarts \/ EngineSetElsewhere \/ Clock
  <2>1. UNCHANGED task /\ ("orders" \in disturbed' <=> "orders" \in disturbed)
    BY <1>3 DEF EngineRestarts, EngineSetElsewhere, Clock
  <2>. QED
    BY <1>1, <2>1 DEF FlattenInv, Alone, Planned, Plan
<1>. QED
  BY <1>2, <1>3

\* A request about orders begins: it has them to itself, or they are disturbed.
LEMMA OrdersBegin ==
  ASSUME FlattenInv, TypeOK', NEW r \in Requests, NEW t, UNCHANGED orders, Begin(r, t),
         t.kind = "trade" \/ (t.kind = "closeAll" /\ t.pc = "reads")
  PROVE  FlattenInv'
<1>1. /\ task'[r] = t /\ \A q \in Requests \ {r} : task'[q] = task[q]
      /\ task[r] = Waiting
  BY DEF Begin, FlattenInv, TypeOK
<1>2. PartOf[t.kind] = "orders"
  BY KindsAre
<1>3. CASE UnderWay("orders") = {}
  <2>1. \A q \in Requests : task'[q].kind \in OrderKinds => q = r
    BY <1>1, <1>3, UnderWayOrders
  <2>2. Alone' /\ Planned'
    BY <1>1, <2>1 DEF Alone, Planned, OrderKinds
  <2>. QED
    BY <2>2 DEF FlattenInv
<1>4. CASE UnderWay("orders") # {}
  BY <1>2, <1>4 DEF Begin, FlattenInv
<1>. QED
  BY <1>3, <1>4

\* It goes on: alone as before, with a plan as good as the one it had.
LEMMA OrdersGoOn ==
  ASSUME FlattenInv, TypeOK', NEW r \in Requests, NEW t, Continue(r, t),
         task[r].kind \in OrderKinds,
         "orders" \notin disturbed /\ t.kind = "closeAll" /\ t.pc # "reads" => Plan(t.left, orders')
  PROVE  FlattenInv'
<1>1. task'[r] = t /\ \A q \in Requests \ {r} : task'[q] = task[q]
  BY DEF Continue, FlattenInv, TypeOK
<1>2. "orders" \in disturbed' <=> "orders" \in disturbed
  BY DEF Continue
<1>3. Alone => Alone'
  BY <1>1 DEF Alone
<1>4. Alone /\ "orders" \notin disturbed => Planned'
  <2> SUFFICES ASSUME Alone, "orders" \notin disturbed, NEW q \in Requests,
                      task'[q].kind = "closeAll", task'[q].pc # "reads"
               PROVE  Plan(task'[q].left, orders')
    BY DEF Planned
  <2>1. q = r
    BY <1>1 DEF Alone, OrderKinds
  <2>. QED
    BY <1>1, <2>1
<1>. QED
  BY <1>2, <1>3, <1>4 DEF FlattenInv

\* One order of the plan is recorded.
LEMMA PlanShrinks ==
  ASSUME TypeOK, NEW left \in OrderList, left # <<>>, Plan(left, orders),
         orders' = [orders EXCEPT ![Head(left).symbol] = @ + Head(left).lots]
  PROVE  Plan(Tail(left), orders')
<1> DEFINE n == Len(left)
<1>1. n \in Nat \ {0} /\ Len(Tail(left)) = n - 1 /\ Head(left) = left[1]
  BY EmptySeq, HeadTailProperties DEF OrderList
<1>2. \A i \in 1..(n - 1) : Tail(left)[i] = left[i + 1]
  BY <1>1, HeadTailProperties DEF OrderList
<1>3. \A i \in 1..n : left[i].symbol \in Symbols
  <2>1. \A i \in 1..n : left[i] \in [symbol : Symbols, lots : Int]
    BY ElementOfSeq, Zenon DEF OrderList
  <2>. QED
    BY <2>1
<1>4. orders'[left[1].symbol] = 0
  <2>1. left[1].lots = -orders[left[1].symbol] /\ left[1].symbol \in Symbols
    BY <1>1, <1>3 DEF Plan
  <2>. QED
    BY <1>1, <2>1 DEF TypeOK
<1>5. \A s \in Symbols : s # left[1].symbol => orders'[s] = orders[s]
  BY <1>1 DEF TypeOK
<1>. QED
  <2> HIDE DEF n
  <2>1. \A i \in 1..(n - 1) : i + 1 \in 1..n /\ i + 1 # 1
    BY <1>1
  <2>2. \A i, j \in 1..(n - 1) : left[i + 1].symbol = left[j + 1].symbol => i = j
    BY <1>1, <2>1 DEF Plan, n
  <2>3. \A i \in 1..(n - 1) : left[i + 1].symbol # left[1].symbol
    BY <1>1, <2>1 DEF Plan, n
  <2>4. \A i \in 1..(n - 1) : left[i + 1].lots = -orders'[left[i + 1].symbol]
    BY <1>3, <1>5, <2>1, <2>3 DEF Plan, n
  <2>5. ASSUME NEW s \in Symbols, orders'[s] # 0
        PROVE  \E i \in 1..(n - 1) : left[i + 1].symbol = s
    <3>1. s # left[1].symbol /\ orders[s] # 0
      BY <1>4, <1>5, <2>5
    <3>2. PICK j \in 1..n : left[j].symbol = s
      BY <3>1 DEF Plan, n
    <3>3. j - 1 \in 1..(n - 1) /\ left[(j - 1) + 1].symbol = s
      BY <1>1, <3>1, <3>2
    <3>. QED
      BY <3>3
  <2>. QED
    BY <1>1, <1>2, <2>2, <2>4, <2>5 DEF Plan

LEMMA OrdersFlatten ==
  ASSUME FlattenInv, TypeOK', NEW r \in Requests,
         \/ \E s \in Symbols, lots \in Lots : Trade(r, Order(s, lots))
         \/ CloseAll(r) \/ ReadsPositions(r)
         \/ GatewayTakes(r) \/ Records(r) \/ OrdersDone(r) \/ OrdersRaise(r)
  PROVE  FlattenInv'
<1>1. TypeOK
  BY DEF FlattenInv
<1>2. CASE \/ \E s \in Symbols, lots \in Lots : Trade(r, Order(s, lots))
           \/ CloseAll(r)
  <2>1. UNCHANGED orders
    BY <1>2, Zenon DEF Trade, CloseAll, book
  <2>2. CASE \E s \in Symbols, lots \in Lots : Trade(r, Order(s, lots))
    <3>1. PICK s \in Symbols, lots \in Lots :
            Begin(r, OrderTask("trade", "submits", <<Order(s, lots)>>))
      BY <2>2 DEF Trade
    <3> DEFINE t == OrderTask("trade", "submits", <<Order(s, lots)>>)
    <3>2. t.kind = "trade" /\ Begin(r, t)
      BY <3>1 DEF OrderTask
    <3>. QED
      <4> HIDE DEF t
      <4> QED BY <2>1, <3>2, OrdersBegin
  <2>3. CASE CloseAll(r)
    <3> DEFINE t == OrderTask("closeAll", "reads", <<>>)
    <3>1. t.kind = "closeAll" /\ t.pc = "reads" /\ Begin(r, t)
      BY <2>3 DEF OrderTask, CloseAll
    <3>. QED
      <4> HIDE DEF t
      <4> QED BY <2>1, <3>1, OrdersBegin
  <2>. QED
    BY <1>2, <2>2, <2>3
<1>3. CASE ReadsPositions(r)
  <2>1. task[r].kind \in OrderKinds /\ UNCHANGED orders
    BY <1>1, <1>3, TaskAt DEF ReadsPositions, OrderTasks, OrderKinds, book
  <2>2. PICK left \in SetToSeqs({Opposite(s) : s \in {s \in Symbols : orders[s] # 0}}) :
          Continue(r, OrderTask("closeAll", "submits", left))
    BY <1>3 DEF ReadsPositions
  <2> DEFINE t == OrderTask("closeAll", "submits", left)
  <2>3. t.left = left /\ Plan(left, orders)
    BY <1>1, <2>2, LeftTyping DEF OrderTask
  <2>4. Continue(r, t)
    BY <2>2
  <2>. QED
    <3> HIDE DEF t
    <3> QED BY <2>1, <2>3, <2>4, OrdersGoOn
<1>4. CASE GatewayTakes(r)
  <2> DEFINE t == OrderTask(task[r].kind, "records", task[r].left)
  <2>1. task[r].kind \in OrderKinds /\ UNCHANGED orders /\ Continue(r, t) /\ task[r].pc = "submits"
    BY <1>1, <1>4, TaskAt DEF GatewayTakes, OrderTasks, OrderKinds, At
  <2>2. t.kind = task[r].kind /\ t.left = task[r].left
    BY DEF OrderTask
  <2>3. "orders" \notin disturbed /\ t.kind = "closeAll" => Plan(t.left, orders')
    BY <2>1, <2>2 DEF FlattenInv, Planned
  <2>. QED
    <3> HIDE DEF t
    <3> QED BY <2>1, <2>3, OrdersGoOn
<1>5. CASE Records(r)
  <2> DEFINE t == OrderTask(task[r].kind, "submits", Tail(task[r].left))
  <2>1. At(r, "records") /\ task[r] \in OrderTasks /\ task[r].pc = "records" /\ Continue(r, t)
    BY <1>1, <1>5, TaskAt DEF Records, At
  <2>2. task[r].kind \in OrderKinds /\ task[r].left \in OrderList /\ task[r].left # <<>>
    BY <1>1, <2>1 DEF OrderTasks, OrderKinds, TypeOK
  <2>3. orders' = [orders EXCEPT ![Head(task[r].left).symbol] = @ + Head(task[r].left).lots]
    BY <1>5 DEF Records, Sending
  <2>4. t.kind = task[r].kind /\ t.left = Tail(task[r].left)
    BY DEF OrderTask
  <2>5. "orders" \notin disturbed /\ t.kind = "closeAll" => Plan(t.left, orders')
    <3>1. "orders" \notin disturbed /\ t.kind = "closeAll" => Plan(task[r].left, orders)
      BY <2>1, <2>4 DEF FlattenInv, Planned
    <3>2. Plan(task[r].left, orders) => Plan(Tail(task[r].left), orders')
      BY <1>1, <2>2, <2>3, PlanShrinks, Zenon
    <3>. QED
      BY <2>4, <3>1, <3>2
  <2>. QED
    <3> HIDE DEF t
    <3> QED BY <2>1, <2>2, <2>5, OrdersGoOn
<1>6. CASE OrdersDone(r)
  <2>1. task[r].kind \in OrderKinds /\ Continue(r, Answered)
    BY <1>1, <1>6, TaskAt DEF OrdersDone, OrderTasks, OrderKinds
  <2>2. Answered.kind # "closeAll"
    BY DEF Answered
  <2>. QED
    BY <2>1, <2>2, OrdersGoOn
<1>7. CASE OrdersRaise(r)
  <2>1. task[r].kind \in OrderKinds
    BY <1>1, <1>7, TaskAt DEF OrdersRaise, OrderTasks, OrderKinds
  <2>2. "orders" \in disturbed'
    BY <1>7, <2>1, KindsAre DEF OrdersRaise, Cut, OrderKinds
  <2>. QED
    BY <2>2 DEF FlattenInv
<1>. QED
  BY <1>2, <1>3, <1>4, <1>5, <1>6, <1>7

LEMMA NextFlattens == FlattenInv /\ [Next]_vars => FlattenInv'
<1> SUFFICES ASSUME FlattenInv, [Next]_vars PROVE FlattenInv'
  OBVIOUS
<1>1. TypeOK'
  BY NextTypes DEF FlattenInv
<1>2. CASE UNCHANGED vars
  BY <1>1, <1>2 DEF vars, book, FlattenInv, Alone, Planned, Plan
<1>. QED
  BY <1>1, <1>2, OrdersFlatten, SettingsFlatten, TimeFlattens DEF Next

\* A close-all that nothing else disturbed leaves no position when it has sent the
\* orders it read, for any symbols, quantities and requests before it.
THEOREM CloseAllsFlatten == Spec => []CloseAllFlattens
<1>1. Init => FlattenInv
  <2>1. Init => Alone /\ Planned
    BY DEF Init, Alone, Planned, Waiting, OrderKinds
  <2>. QED
    BY <2>1, InitTypes DEF FlattenInv
<1>2. FlattenInv => CloseAllFlattens
  BY DEF FlattenInv, Planned, Plan, CloseAllFlattens, At
<1>. QED
  BY <1>1, <1>2, NextFlattens, PTL DEF Spec

----------------------------------------------------------------------------
(* What is in force is what the engine and the registry were told. *)

\* A row is written at least a millisecond after the save it is of began.
RowsArePast == \A setting \in Settings : \A row \in rows[setting] : row.stamp < now

\* Which awaits the requests about settings have.
PcsFit ==
  \A r \in Requests :
    /\ task[r].kind = "auto" => task[r].pc \in {"persists", "engine"}
    /\ task[r].kind = "config" => task[r].pc \in {"persists", "checks"}
    /\ task[r].kind = "test" => task[r].pc = "checks"

\* A restart now would load what is in memory.
Kept(setting) ==
  /\ rows[setting] = {} => memory[setting].value = FALSE
  /\ \A row \in Newest(rows[setting]) : row.value = memory[setting].value

\* The request that has a setting to itself works on what is in memory, and what
\* it writes will be newer than what is there.
AtWork(setting, r) ==
  /\ task[r].value = memory[setting].value
  /\ task[r].pc = "persists" => \A row \in rows[setting] : row.stamp < task[r].stamp
  /\ task[r].kind = "config" => /\ \A record \in registry : record.stamp <= task[r].stamp
                                /\ task[r].pc = "checks" => task[r].stamp < now

EngineTold == engine = memory["auto"].value
RegistryTold == \A record \in Newest(registry) : record.value = memory["config"].value

\* What holds of a setting whose requests did not overlap: a save at its first
\* await has changed the memory alone; the row comes next, and what is outside last.
Orderly(setting) ==
  /\ \A q, r \in UnderWay(setting) : q = r
  /\ \A r \in UnderWay(setting) : AtWork(setting, r)
  /\ (\A r \in UnderWay(setting) : task[r].pc # "persists") => Kept(setting)
  /\ setting = "auto" /\ UnderWay("auto") = {} => EngineTold
  /\ setting = "config" /\ (\A r \in UnderWay("config") : task[r].kind = "test") => RegistryTold

EffectInv ==
  /\ TypeOK /\ RowsArePast /\ PcsFit
  /\ \A setting \in Settings : setting \in disturbed \/ Orderly(setting)

LEMMA UnderWaySettings ==
  /\ UnderWay("auto") = {r \in Requests : task[r].kind = "auto"}
  /\ UnderWay("config") = {r \in Requests : task[r].kind \in {"config", "test"}}
BY KindsAre DEF UnderWay

LEMMA SettingTyping ==
  ASSUME TypeOK, NEW r \in Requests, task[r].kind \in {"auto", "config", "test"}
  PROVE  /\ task[r] \in SettingTasks
         /\ task[r].value \in BOOLEAN /\ task[r].stamp \in Int /\ task[r].stamp <= now
<1>1. task[r] \in {Waiting, Answered} \cup OrderTasks \cup SettingTasks
  BY DEF TypeOK
<1>2. task[r] \in SettingTasks
  BY <1>1 DEF Waiting, Answered, OrderTasks, SettingTasks
<1>3. now \in Int
  BY BridgeAssumption DEF TypeOK
<1>. QED
  BY <1>2, <1>3 DEF SettingTasks

\* A step that touches neither a setting nor its requests leaves it orderly.
LEMMA StillOrderly ==
  ASSUME EffectInv, TypeOK', NEW setting \in Settings, setting \notin disturbed,
         UnderWay(setting)' = UnderWay(setting),
         \A r \in UnderWay(setting) : task'[r] = task[r],
         memory'[setting] = memory[setting], rows'[setting] = rows[setting],
         setting = "config" => UNCHANGED registry, setting = "auto" => UNCHANGED engine,
         now' \in {now, now + 1}
  PROVE  Orderly(setting)'
<1>1. Orderly(setting)
  BY DEF EffectInv
<1>2. \A q, r \in UnderWay(setting)' : q = r
  BY <1>1 DEF Orderly
<1>3. \A r \in UnderWay(setting)' : AtWork(setting, r)'
  <2> SUFFICES ASSUME NEW r \in UnderWay(setting) PROVE AtWork(setting, r)'
    OBVIOUS
  <2>1. AtWork(setting, r) /\ task'[r] = task[r] /\ r \in Requests
    BY <1>1 DEF Orderly, UnderWay
  <2>2. task[r].kind = "config" => task[r].stamp \in Int /\ setting = "config"
    BY <2>1, SettingTyping, UnderWaySettings DEF EffectInv, Settings
  <2>3. now \in Int
    BY BridgeAssumption DEF EffectInv, TypeOK
  <2>. QED
    BY <2>1, <2>2, <2>3 DEF AtWork
<1>4. (\A r \in UnderWay(setting)' : task'[r].pc # "persists") => Kept(setting)'
  <2> SUFFICES ASSUME \A r \in UnderWay(setting) : task[r].pc # "persists"
               PROVE  Kept(setting)'
    OBVIOUS
  <2>1. Kept(setting)
    BY <1>1 DEF Orderly
  <2>. QED
    BY <2>1 DEF Kept, Newest
<1>5. setting = "auto" /\ UnderWay("auto")' = {} => EngineTold'
  BY <1>1 DEF Orderly, EngineTold
<1>6. setting = "config" /\ (\A r \in UnderWay("config")' : task'[r].kind = "test") => RegistryTold'
  BY <1>1 DEF Orderly, RegistryTold, Newest
<1>. QED
  BY <1>2, <1>3, <1>4, <1>5, <1>6 DEF Orderly

\* So does one that goes on with a request that has nothing to do with it.
LEMMA OtherOrderly ==
  ASSUME EffectInv, TypeOK', NEW r \in Requests, NEW t, task' = [task EXCEPT ![r] = t],
         NEW setting \in Settings, setting \notin disturbed,
         r \notin UnderWay(setting), ~(t.kind \in Kinds /\ PartOf[t.kind] = setting),
         memory'[setting] = memory[setting], rows'[setting] = rows[setting],
         setting = "config" => UNCHANGED registry, setting = "auto" => UNCHANGED engine,
         UNCHANGED now
  PROVE  Orderly(setting)'
<1>1. TypeOK
  BY DEF EffectInv
<1>2. UnderWay(setting)' = UnderWay(setting) \ {r} /\ \A q \in Requests \ {r} : task'[q] = task[q]
  BY <1>1 DEF UnderWay, TypeOK
<1>3. UnderWay(setting)' = UnderWay(setting) /\ \A q \in UnderWay(setting) : task'[q] = task[q]
  BY <1>2 DEF UnderWay
<1>. QED
  BY <1>3, StillOrderly

LEMMA InitEffect == Init => EffectInv
<1> SUFFICES ASSUME Init PROVE EffectInv
  OBVIOUS
<1>1. \A setting \in Settings : UnderWay(setting) = {}
  BY KindsAre DEF Init, UnderWay, Waiting
<1>2. RowsArePast /\ PcsFit
  BY DEF Init, RowsArePast, PcsFit, Waiting
<1>3. EngineTold /\ RegistryTold /\ \A setting \in Settings : Kept(setting)
  BY Zenon DEF Init, EngineTold, RegistryTold, Kept, Newest, Stamped, Settings
<1>4. \A setting \in Settings : Orderly(setting)
  BY <1>1, <1>3 DEF Orderly
<1>. QED
  BY <1>2, <1>4, InitTypes DEF EffectInv

\* Trades and close-alls.
LEMMA OrdersEffect ==
  ASSUME EffectInv, TypeOK', NEW r \in Requests,
         \/ \E s \in Symbols, lots \in Lots : Trade(r, Order(s, lots))
         \/ CloseAll(r) \/ ReadsPositions(r)
         \/ GatewayTakes(r) \/ Records(r) \/ OrdersDone(r) \/ OrdersRaise(r)
  PROVE  EffectInv'
<1>1. UNCHANGED <<now, memory, rows, registry, engine>>
  BY Zenon DEF Trade, CloseAll, ReadsPositions, GatewayTakes, Records, OrdersDone, OrdersRaise, settings
<1>2. At(r, "submits") \/ At(r, "records") \/ At(r, "reads") =>
        task[r].kind \in {"trade", "closeAll"}
  BY TaskAt DEF EffectInv, OrderTasks
<1>3. \E t : /\ task' = [task EXCEPT ![r] = t] /\ t.kind \notin {"auto", "config", "test"}
             /\ task[r] = Waiting \/ task[r].kind \in {"trade", "closeAll"}
             /\ \A setting \in Settings : setting \in disturbed => setting \in disturbed'
  BY <1>2, KindsAre, Zenon DEF Trade, CloseAll, ReadsPositions, GatewayTakes, Records, OrdersDone, OrdersRaise,
              Begin, Continue, Cut, OrderTask, Answered, Settings
<1>4. PICK t : /\ task' = [task EXCEPT ![r] = t] /\ t.kind \notin {"auto", "config", "test"}
               /\ task[r] = Waiting \/ task[r].kind \in {"trade", "closeAll"}
               /\ \A setting \in Settings : setting \in disturbed => setting \in disturbed'
  BY <1>3, Zenon
<1>5. \A setting \in Settings :
        r \notin UnderWay(setting) /\ ~(t.kind \in Kinds /\ PartOf[t.kind] = setting)
  BY <1>4, UnderWaySettings, KindsAre DEF Settings, Waiting
<1>6. \A setting \in Settings : setting \in disturbed' \/ Orderly(setting)'
  BY <1>1, <1>4, <1>5, OtherOrderly, Zenon
<1>7. RowsArePast'
  BY <1>1 DEF EffectInv, RowsArePast
<1>8. PcsFit'
  BY <1>4 DEF EffectInv, PcsFit, TypeOK
<1>. QED
  BY <1>6, <1>7, <1>8 DEF EffectInv

LEMMA SaveEffect ==
  ASSUME EffectInv, TypeOK', NEW r \in Requests, NEW setting \in Settings, NEW value \in BOOLEAN,
         Save(r, setting, value)
  PROVE  EffectInv'
<1> DEFINE t == SettingTask(setting, "persists", value, now)
<1>1. /\ task' = [task EXCEPT ![r] = t] /\ task[r] = Waiting
      /\ memory' = [memory EXCEPT ![setting] = Stamped(value, now)]
      /\ UNCHANGED <<now, rows, registry, engine>>
  BY DEF Save, Begin
<1>2. TypeOK /\ now \in Int
  BY BridgeAssumption DEF EffectInv, TypeOK
<1>3. t.kind = setting /\ t.pc = "persists" /\ t.value = value /\ t.stamp = now
  BY DEF SettingTask
<1>4. PartOf[setting] = setting /\ setting \in Kinds
  BY KindsAre DEF Settings
<1>5. \A part \in Settings : r \notin UnderWay(part)
  BY <1>1, KindsAre DEF UnderWay, Waiting
<1>6. /\ UnderWay(setting) # {} => setting \in disturbed'
      /\ \A other \in Settings \ {setting} : other \in disturbed => other \in disturbed'
  BY <1>3, <1>4 DEF Save, Begin, Settings
<1> HIDE DEF t
<1>7. ASSUME NEW other \in Settings \ {setting}
      PROVE  other \in disturbed' \/ Orderly(other)'
  <2>1. memory'[other] = memory[other]
    BY <1>1, <1>2 DEF TypeOK
  <2>. QED
    BY <1>1, <1>3, <1>4, <1>5, <1>6, <2>1, OtherOrderly, Zenon
<1>8. ASSUME UnderWay(setting) = {}
      PROVE  Orderly(setting)'
  <2>1. UnderWay(setting)' = {r} /\ task'[r] = t
    BY <1>1, <1>2, <1>3, <1>4, <1>8 DEF UnderWay, TypeOK
  <2>2. memory'[setting].value = value
    BY <1>1, <1>2 DEF TypeOK, Stamped
  <2>3. \A row \in rows[setting] : row.stamp < now
    BY DEF EffectInv, RowsArePast
  <2>4. \A record \in registry : record.stamp <= now
    BY <1>2 DEF TypeOK, StampedValue
  <2>5. AtWork(setting, r)'
    BY <1>1, <1>3, <2>1, <2>2, <2>3, <2>4 DEF AtWork
  <2>. QED
    BY <1>3, <2>1, <2>5 DEF Orderly
<1>9. RowsArePast'
  BY <1>1 DEF EffectInv, RowsArePast
<1>10. PcsFit'
  BY <1>1, <1>2, <1>3 DEF EffectInv, PcsFit, TypeOK, Settings
<1>. QED
  BY <1>6, <1>7, <1>8, <1>9, <1>10 DEF EffectInv

LEMMA TestEffect ==
  ASSUME EffectInv, TypeOK', NEW r \in Requests, Test(r)
  PROVE  EffectInv'
<1> DEFINE t == SettingTask("test", "checks", memory["config"].value, now)
<1>1. /\ task' = [task EXCEPT ![r] = t] /\ task[r] = Waiting
      /\ UNCHANGED <<now, memory, rows, registry, engine>>
  BY DEF Test, Begin, settings
<1>2. TypeOK
  BY DEF EffectInv
<1>3. t.kind = "test" /\ t.pc = "checks" /\ t.value = memory["config"].value
  BY DEF SettingTask
<1>4. PartOf["test"] = "config" /\ "test" \in Kinds
  BY KindsAre
<1>5. \A part \in Settings : r \notin UnderWay(part)
  BY <1>1, KindsAre DEF UnderWay, Waiting
<1>6. /\ UnderWay("config") # {} => "config" \in disturbed'
      /\ \A other \in Settings : other \in disturbed => other \in disturbed'
  BY <1>3, <1>4 DEF Test, Begin
<1> HIDE DEF t
<1>7. "auto" \in disturbed' \/ Orderly("auto")'
  BY <1>1, <1>3, <1>4, <1>5, <1>6, OtherOrderly, Zenon DEF Settings
<1>8. ASSUME UnderWay("config") = {}, "config" \notin disturbed
      PROVE  Orderly("config")'
  <2>1. UnderWay("config")' = {r} /\ task'[r] = t
    BY <1>1, <1>2, <1>3, <1>4, <1>8 DEF UnderWay, TypeOK
  <2>2. AtWork("config", r)'
    BY <1>1, <1>3, <2>1 DEF AtWork
  <2>3. Kept("config") /\ RegistryTold
    BY <1>8 DEF EffectInv, Orderly, Settings
  <2>4. Kept("config")' /\ RegistryTold'
    BY <1>1, <2>3 DEF Kept, Newest, RegistryTold
  <2>. QED
    BY <2>1, <2>2, <2>4 DEF Orderly
<1>9. RowsArePast'
  BY <1>1 DEF EffectInv, RowsArePast
<1>10. PcsFit'
  BY <1>1, <1>2, <1>3 DEF EffectInv, PcsFit, TypeOK
<1>. QED
  BY <1>6, <1>7, <1>8, <1>9, <1>10 DEF EffectInv, Settings

\* What a request about a setting is before it goes on.
LEMMA RequestAt ==
  ASSUME EffectInv, NEW r \in Requests, At(r, "persists") \/ At(r, "engine") \/ At(r, "checks")
  PROVE  /\ task[r].kind \in {"auto", "config", "test"} /\ task[r].kind \in Kinds
         /\ At(r, "persists") => task[r].kind \in Settings
         /\ At(r, "engine") => task[r].kind = "auto"
         /\ At(r, "checks") => task[r].kind \in {"config", "test"}
         /\ task[r].value \in BOOLEAN /\ task[r].stamp \in Int /\ task[r].stamp <= now
         /\ r \in UnderWay(PartOf[task[r].kind]) /\ PartOf[task[r].kind] \in Settings
<1>1. task[r] \in SettingTasks
  BY TaskAt DEF EffectInv
<1>2. task[r].kind \in {"auto", "config", "test"}
  BY <1>1 DEF SettingTasks
<1>3. task[r].value \in BOOLEAN /\ task[r].stamp \in Int /\ task[r].stamp <= now
  BY <1>2, SettingTyping DEF EffectInv
<1>4. task[r].kind \in Kinds /\ PartOf[task[r].kind] \in Settings
  BY <1>2, KindsAre DEF Settings
<1>. QED
  BY <1>2, <1>3, <1>4 DEF EffectInv, PcsFit, At, Settings, UnderWay

\* A request that ends badly disturbs its own setting and no other.
LEMMA CutEffect ==
  ASSUME EffectInv, TypeOK', NEW r \in Requests,
         At(r, "persists") \/ At(r, "engine") \/ At(r, "checks"),
         Cut(r), UNCHANGED <<now, memory>>,
         \A setting \in Settings \ {PartOf[task[r].kind]} : rows'[setting] = rows[setting],
         task[r].kind = "auto" => UNCHANGED registry, task[r].kind # "auto" => UNCHANGED engine,
         RowsArePast'
  PROVE  EffectInv'
<1>1. task' = [task EXCEPT ![r] = Answered] /\ disturbed' = disturbed \cup {PartOf[task[r].kind]}
  BY DEF Cut
<1>2. task[r].kind \in {"auto", "config", "test"} /\ task[r].kind \in Kinds
  BY RequestAt
<1>3. Answered.kind = "answered"
  BY DEF Answered
<1>4. ASSUME NEW setting \in Settings, setting # PartOf[task[r].kind], setting \notin disturbed
      PROVE  Orderly(setting)'
  <2>1. r \notin UnderWay(setting)
    BY <1>4 DEF UnderWay
  <2>2. Answered.kind \notin Kinds
    BY <1>3, KindsAre
  <2>3. (setting = "config" => UNCHANGED registry) /\ (setting = "auto" => UNCHANGED engine)
    BY <1>2, <1>4, KindsAre
  <2>. QED
    BY <1>1, <1>4, <2>1, <2>2, <2>3, OtherOrderly, Zenon
<1>5. PcsFit'
  BY <1>1, <1>3 DEF EffectInv, PcsFit, TypeOK
<1>. QED
  BY <1>1, <1>4, <1>5 DEF EffectInv

LEMMA RaisesEffect ==
  ASSUME EffectInv, TypeOK', NEW r \in Requests,
         PersistRaises(r) \/ EngineMissed(r) \/ ChecksRaise(r)
  PROVE  EffectInv'
<1>1. TypeOK
  BY DEF EffectInv
<1>2. CASE PersistRaises(r)
  <2>1. At(r, "persists") /\ now > task[r].stamp /\ Cut(r) /\ UNCHANGED <<now, memory, registry, engine>>
    BY <1>2 DEF PersistRaises
  <2>2. task[r].kind \in Settings /\ PartOf[task[r].kind] = task[r].kind
    BY <2>1, RequestAt, KindsAre DEF Settings
  <2>3. \A setting \in Settings \ {PartOf[task[r].kind]} : rows'[setting] = rows[setting]
    BY <1>1, <1>2, <2>2 DEF PersistRaises, Inserted, TypeOK
  <2>4. rows'[task[r].kind] \subseteq rows[task[r].kind] \cup {Stamped(task[r].value, task[r].stamp)}
    BY <1>1, <1>2, <2>2 DEF PersistRaises, Inserted, TypeOK
  <2>5. RowsArePast'
    BY <2>1, <2>2, <2>3, <2>4 DEF EffectInv, RowsArePast, Stamped
  <2>. QED
    BY <2>1, <2>3, <2>5, CutEffect
<1>3. CASE EngineMissed(r)
  <2>1. At(r, "engine") /\ Cut(r) /\ UNCHANGED <<now, memory, rows, registry, engine>>
    BY <1>3 DEF EngineMissed
  <2>2. RowsArePast'
    BY <2>1 DEF EffectInv, RowsArePast
  <2>. QED
    BY <2>1, <2>2, CutEffect
<1>4. CASE ChecksRaise(r)
  <2>1. At(r, "checks") /\ Cut(r) /\ UNCHANGED <<now, memory, rows, engine>>
    BY <1>4 DEF ChecksRaise
  <2>2. RowsArePast'
    BY <2>1 DEF EffectInv, RowsArePast
  <2>3. task[r].kind # "auto"
    BY <2>1, RequestAt
  <2>. QED
    BY <2>1, <2>2, <2>3, CutEffect
<1>. QED
  BY <1>2, <1>3, <1>4

\* The row of a save that has its setting to itself is the newest of the table.
LEMMA PersistsEffect ==
  ASSUME EffectInv, TypeOK', NEW r \in Requests, Persists(r)
  PROVE  EffectInv'
<1>1. /\ At(r, "persists") /\ task[r].stamp < now
      /\ UNCHANGED <<now, memory, registry, engine, disturbed>>
  BY DEF Persists, Continue
<1>2. PICK k \in Settings : k = task[r].kind
  BY <1>1, RequestAt
<1> DEFINE row == Stamped(task[r].value, task[r].stamp)
           t == IF k = "auto"
                THEN SettingTask("auto", "engine", task[r].value, task[r].stamp)
                ELSE SettingTask("config", "checks", memory["config"].value, task[r].stamp)
<1>3. TypeOK /\ now \in Int
  BY BridgeAssumption DEF EffectInv, TypeOK
<1>4. task' = [task EXCEPT ![r] = t] /\ rows' = [rows EXCEPT ![k] = @ \cup {row}]
  BY <1>2 DEF Persists, Inserted, Continue
<1>5. /\ k \in Settings /\ PartOf[k] = k /\ k \in Kinds /\ r \in UnderWay(k)
      /\ task[r].stamp \in Int
  BY <1>1, <1>2, <1>4, RequestAt, KindsAre DEF Settings
<1>6. /\ t.kind = k /\ t.stamp = task[r].stamp /\ t.pc = IF k = "auto" THEN "engine" ELSE "checks"
      /\ t.value = IF k = "auto" THEN task[r].value ELSE memory["config"].value
  BY <1>5 DEF SettingTask, Settings
<1>7. row.value = task[r].value /\ row.stamp = task[r].stamp
  BY DEF Stamped
<1> HIDE DEF t, row
<1>8. rows'[k] = rows[k] \cup {row} /\ \A other \in Settings \ {k} : rows'[other] = rows[other]
  BY <1>1, <1>2, <1>3, <1>4, <1>5 DEF TypeOK
<1>9. RowsArePast'
  BY <1>1, <1>2, <1>4, <1>7, <1>8 DEF EffectInv, RowsArePast
<1>10. PcsFit'
  BY <1>1, <1>2, <1>3, <1>4, <1>5, <1>6 DEF EffectInv, PcsFit, TypeOK, Settings
<1>11. ASSUME NEW other \in Settings, other # k, other \notin disturbed
      PROVE  Orderly(other)'
  <2>1. r \notin UnderWay(other)
    BY <1>5, <1>11 DEF UnderWay
  <2>2. ~(t.kind \in Kinds /\ PartOf[t.kind] = other)
    BY <1>5, <1>6, <1>11
  <2>. QED
    BY <1>1, <1>2, <1>4, <1>8, <1>11, <2>1, <2>2, OtherOrderly, Zenon
<1>12. ASSUME k \notin disturbed
       PROVE  Orderly(k)'
  <2>1. Orderly(k) /\ UnderWay(k) = {r}
    BY <1>5, <1>12 DEF EffectInv, Orderly
  <2>2. UnderWay(k)' = {r} /\ task'[r] = t
    BY <1>1, <1>2, <1>3, <1>4, <1>5, <1>6, <2>1 DEF UnderWay, TypeOK
  <2>3. AtWork(k, r) /\ task[r].pc = "persists"
    BY <1>1, <1>2, <1>4, <2>1 DEF Orderly, At
  <2>4. t.value = memory[k].value /\ row.value = memory[k].value
    BY <1>5, <1>6, <1>7, <2>3 DEF AtWork, Settings
  <2>5. AtWork(k, r)'
    BY <1>1, <1>2, <1>4, <1>5, <1>6, <2>2, <2>3, <2>4 DEF AtWork, Settings
  <2>6. \A old \in rows[k] : old.stamp < row.stamp
    BY <1>7, <2>3 DEF AtWork
  <2>7. \A old \in rows[k] : old.stamp \in Int
    BY <1>3, <1>5 DEF TypeOK, StampedValue
  <2>8. Newest(rows'[k]) \subseteq {row}
    BY <1>5, <1>7, <1>8, <2>6, <2>7 DEF Newest
  <2>9. Kept(k)'
    BY <1>1, <1>2, <1>4, <1>8, <2>4, <2>8 DEF Kept, Newest
  <2>10. k = "config" => t.kind # "test"
    BY <1>6
  <2>. QED
    BY <2>2, <2>5, <2>9, <2>10 DEF Orderly
<1>. QED
  <2>1. \A setting \in Settings : setting \in disturbed' \/ Orderly(setting)'
    BY <1>1, <1>2, <1>4, <1>11, <1>12
  <2>. QED
    BY <1>9, <1>10, <2>1 DEF EffectInv

\* The engine or the registry is told last.
LEMMA TellsEffect ==
  ASSUME EffectInv, TypeOK', NEW r \in Requests, TellsEngine(r) \/ Checks(r)
  PROVE  EffectInv'
<1>1. TypeOK /\ now \in Int
  BY BridgeAssumption DEF EffectInv, TypeOK
<1>2. /\ At(r, "engine") \/ At(r, "checks")
      /\ task' = [task EXCEPT ![r] = Answered]
      /\ UNCHANGED <<now, memory, rows, disturbed>>
      /\ TellsEngine(r) => UNCHANGED registry
      /\ Checks(r) => UNCHANGED engine
  BY DEF TellsEngine, Checks, Continue
<1>3. /\ PartOf[task[r].kind] \in Settings /\ r \in UnderWay(PartOf[task[r].kind])
      /\ task[r].kind \in Kinds
      /\ TellsEngine(r) => task[r].kind = "auto"
      /\ Checks(r) => task[r].kind \in {"config", "test"}
  BY <1>2, RequestAt DEF TellsEngine, Checks
<1> PICK k \in Settings : k = PartOf[task[r].kind]
  BY <1>3
<1>4. (TellsEngine(r) => k = "auto") /\ (Checks(r) => k = "config")
  BY <1>3, KindsAre
<1>5. Answered.kind = "answered" /\ Answered.kind \notin Kinds
  BY KindsAre DEF Answered
<1>6. RowsArePast'
  BY <1>2 DEF EffectInv, RowsArePast
<1>7. PcsFit'
  BY <1>1, <1>2, <1>5 DEF EffectInv, PcsFit, TypeOK
<1>8. ASSUME NEW other \in Settings, other # k, other \notin disturbed
      PROVE  Orderly(other)'
  <2>1. r \notin UnderWay(other)
    BY <1>8 DEF UnderWay
  <2>2. other = "config" => UNCHANGED registry
    BY <1>2, <1>4, <1>8
  <2>3. other = "auto" => UNCHANGED engine
    BY <1>2, <1>4, <1>8
  <2>. QED
    BY <1>2, <1>5, <1>8, <2>1, <2>2, <2>3, OtherOrderly, Zenon
<1>9. ASSUME k \notin disturbed
      PROVE  Orderly(k)'
  <2>1. Orderly(k) /\ UnderWay(k) = {r}
    BY <1>3, <1>9 DEF EffectInv, Orderly
  <2>2. UnderWay(k)' = {}
    BY <1>1, <1>2, <1>5, <2>1 DEF UnderWay, TypeOK
  <2>3. AtWork(k, r) /\ task[r].pc # "persists"
    BY <1>2, <2>1 DEF Orderly, At
  <2>4. Kept(k)
    BY <2>1, <2>3 DEF Orderly
  <2>5. Kept(k)'
    BY <1>2, <2>4 DEF Kept, Newest
  <2>6. k = "auto" => EngineTold'
    BY <1>2, <1>4, <2>3 DEF TellsEngine, AtWork, EngineTold
  <2>7. ASSUME k = "config"
        PROVE  RegistryTold'
    <3> DEFINE new == Stamped(task[r].value, now)
    <3>1. Checks(r) /\ task[r].kind \in {"config", "test"}
      BY <1>2, <1>3, <1>4, <2>7
    <3>2. registry' = registry \cup {new}
      BY <3>1 DEF Checks, Registers
    <3>3. new.value = memory["config"].value /\ new.stamp = now
      BY <2>3, <2>7 DEF AtWork, Stamped
    <3> HIDE DEF new
    <3>4. \A record \in registry : record.stamp \in Int /\ record.stamp <= now
      BY <1>1 DEF TypeOK, StampedValue
    <3>5. CASE task[r].kind = "config"
      <4>1. \A record \in registry : record.stamp <= task[r].stamp
        BY <2>3, <3>5 DEF AtWork
      <4>2. task[r].stamp \in Int /\ task[r].stamp < now
        BY <1>1, <1>2, <2>3, <3>1, <3>5, RequestAt DEF AtWork, Checks, At
      <4>3. \A record \in registry : record.stamp < now
        BY <1>1, <3>4, <4>1, <4>2
      <4>4. Newest(registry') \subseteq {new}
        BY <1>1, <3>2, <3>3, <3>4, <4>3 DEF Newest
      <4>. QED
        BY <1>2, <3>3, <4>4 DEF RegistryTold
    <3>6. CASE task[r].kind = "test"
      <4>1. RegistryTold
        BY <2>1, <2>7, <3>6 DEF Orderly
      <4>2. Newest(registry') \subseteq Newest(registry) \cup {new}
        BY <3>2 DEF Newest
      <4>. QED
        BY <1>2, <3>3, <4>1, <4>2 DEF RegistryTold
    <3>. QED
      BY <3>1, <3>5, <3>6
  <2>. QED
    BY <2>2, <2>5, <2>6, <2>7 DEF Orderly
<1>10. \A setting \in Settings : setting \in disturbed' \/ Orderly(setting)'
  BY <1>2, <1>8, <1>9
<1>. QED
  BY <1>6, <1>7, <1>10 DEF EffectInv

\* A restart loads what was in memory, unless it cut a request off.
LEMMA RestartEffect ==
  ASSUME EffectInv, TypeOK', Restart
  PROVE  EffectInv'
<1>1. TypeOK /\ now \in Int /\ now' = now + 1
  BY BridgeAssumption DEF EffectInv, TypeOK, Restart
<1>2. UNCHANGED <<rows, registry, engine>>
  BY DEF Restart
<1>3. \A r \in Requests : task'[r] \in {Waiting, Answered}
  BY DEF Restart
<1>4. RowsArePast'
  <2>1. \A setting \in Settings : \A row \in rows[setting] : row.stamp \in Int /\ row.stamp < now
    BY <1>1 DEF EffectInv, RowsArePast, TypeOK, StampedValue
  <2>. QED
    BY <1>1, <1>2, <2>1 DEF RowsArePast
<1>5. PcsFit'
  BY <1>3 DEF PcsFit, Waiting, Answered
<1>6. ASSUME NEW setting \in Settings, setting \notin disturbed'
      PROVE  Orderly(setting)'
  <2>1. setting \notin disturbed /\ UnderWay(setting) = {}
    BY <1>6 DEF Restart, UnderWay
  <2>2. Orderly(setting) /\ Kept(setting)
    BY <2>1 DEF EffectInv, Orderly
  <2>3. UnderWay(setting)' = {}
    BY <1>3, KindsAre DEF UnderWay, Waiting, Answered
  <2>4. memory'[setting] \in Loaded(setting)
    BY DEF Restart, Settings
  <2>5. memory'[setting].value = memory[setting].value
    <3>1. CASE rows[setting] = {}
      <4>1. memory'[setting] = [value |-> FALSE, stamp |-> now]
        BY <2>4, <3>1, Zenon DEF Loaded, Stamped
      <4>2. memory'[setting].value = FALSE
        BY <4>1
      <4>. QED
        BY <2>2, <3>1, <4>2, Zenon DEF Kept
    <3>2. CASE rows[setting] # {}
      BY <2>2, <2>4, <3>2 DEF Kept, Loaded
    <3>. QED
      BY <3>1, <3>2
  <2>6. Kept(setting)'
    BY <1>2, <2>2, <2>5 DEF Kept, Newest
  <2>7. setting = "auto" => EngineTold'
    BY <1>2, <2>1, <2>2, <2>5 DEF Orderly, EngineTold
  <2>8. setting = "config" => RegistryTold'
    BY <1>2, <2>1, <2>2, <2>5 DEF Orderly, RegistryTold, Newest
  <2>. QED
    BY <2>3, <2>6, <2>7, <2>8 DEF Orderly
<1>. QED
  BY <1>4, <1>5, <1>6 DEF EffectInv

LEMMA TimeEffect ==
  ASSUME EffectInv, TypeOK', EngineRestarts \/ EngineSetElsewhere \/ Clock
  PROVE  EffectInv'
<1>1. TypeOK /\ now \in Int /\ now' \in {now, now + 1}
  BY BridgeAssumption DEF EffectInv, TypeOK, EngineRestarts, EngineSetElsewhere, Clock
<1>2. /\ UNCHANGED <<task, memory, rows, registry>> /\ disturbed \subseteq disturbed'
      /\ engine' = engine \/ "auto" \in disturbed'
  BY DEF EngineRestarts, EngineSetElsewhere, Clock, settings
<1>3. RowsArePast'
  <2>1. \A setting \in Settings : \A row \in rows[setting] : row.stamp \in Int /\ row.stamp < now
    BY <1>1 DEF EffectInv, RowsArePast, TypeOK, StampedValue
  <2>. QED
    BY <1>1, <1>2, <2>1 DEF RowsArePast
<1>4. PcsFit'
  BY <1>2 DEF EffectInv, PcsFit
<1>5. ASSUME NEW setting \in Settings, setting \notin disturbed'
      PROVE  Orderly(setting)'
  <2>1. UnderWay(setting)' = UnderWay(setting)
    BY <1>2 DEF UnderWay
  <2>2. setting \notin disturbed /\ (setting = "auto" => UNCHANGED engine)
    BY <1>2, <1>5
  <2>. QED
    BY <1>1, <1>2, <2>1, <2>2, StillOrderly
<1>. QED
  BY <1>3, <1>4, <1>5 DEF EffectInv

LEMMA NextEffect == EffectInv /\ [Next]_vars => EffectInv'
<1> SUFFICES ASSUME EffectInv, [Next]_vars PROVE EffectInv'
  OBVIOUS
<1>1. TypeOK'
  BY NextTypes DEF EffectInv
<1>2. CASE UNCHANGED vars
  <2>1. UNCHANGED <<now, task, memory, rows, registry, engine, disturbed>>
    BY <1>2 DEF vars, settings
  <2>2. \A setting \in Settings : setting \in disturbed' \/ Orderly(setting)'
    <3> SUFFICES ASSUME NEW setting \in Settings, setting \notin disturbed PROVE Orderly(setting)'
      BY <2>1
    <3>1. UnderWay(setting)' = UnderWay(setting)
      BY <2>1 DEF UnderWay
    <3>. QED
      BY <1>1, <2>1, <3>1, StillOrderly
  <2>. QED
    BY <1>1, <2>1, <2>2 DEF EffectInv, RowsArePast, PcsFit
<1>. QED
  BY <1>1, <1>2, OrdersEffect, SaveEffect, TestEffect, PersistsEffect, RaisesEffect, TellsEffect,
     RestartEffect, TimeEffect DEF Next

\* While nothing is under way on a setting, and nothing overlapped or failed since
\* it was last set, the engine has the value of the interface, unless it was set by
\* the dashboard or restarted since, and the newest records of the registry have
\* that of the configuration, across restarts.
THEOREM SettingsReachTheirEnds == Spec => []SettingsTakeEffect
<1>1. EffectInv => SettingsTakeEffect
  <2> SUFFICES ASSUME EffectInv PROVE SettingsTakeEffect
    OBVIOUS
  <2>1. UnderWay("auto") = {} /\ "auto" \notin disturbed => engine = memory["auto"].value
    BY DEF EffectInv, Orderly, EngineTold, Settings
  <2>2. UnderWay("config") = {} /\ "config" \notin disturbed => RegistryTold
    BY DEF EffectInv, Orderly, Settings
  <2>. QED
    BY <2>1, <2>2 DEF SettingsTakeEffect, RegistryTold
<1>. QED
  BY <1>1, InitEffect, NextEffect, PTL DEF Spec

=============================================================================
