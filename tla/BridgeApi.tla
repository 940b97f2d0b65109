------------------------------ MODULE BridgeApi ------------------------------
(***************************************************************************)
(* services/bridge-api/src/index.ts: the web interface's server.  A request *)
(* is a task, and between two of its awaits the others run: calls to the    *)
(* gateway (rust/gateway), reads and inserts in ClickHouse, calls to the    *)
(* Python engine.                                                           *)
(*                                                                          *)
(* An await delays its task by any time, so one that only reads what no     *)
(* property depends on (prices, pings) is part of the next.  Restarts lose  *)
(* the tasks and load the settings again.  All rows of execution_orders     *)
(* have the status the gateway answers, SUBMITTED, so the table is kept as  *)
(* the sums computePositions makes of it.  A behaviour lasts less than the   *)
(* 30 days after which that table, and the 180 after which those of the      *)
(* settings, drop a row.                                                     *)
(***************************************************************************)
EXTENDS Integers, FiniteSets, SequencesExt

CONSTANTS
  Requests,    \* the requests of one behaviour
  Symbols,
  Lots,        \* quantities traded: above zero is bought, below is sold
  MaxTime      \* bound: the clock, in milliseconds

ASSUME BridgeAssumption ==
  /\ IsFiniteSet(Requests) /\ IsFiniteSet(Symbols)
  /\ Lots \subseteq Int \ {0} /\ MaxTime \in Nat

VARIABLES
  now,         \* Date.now()
  task,        \* where each request is
  pending,     \* the gateway's pending_orders: the net quantity of each symbol
  orders,      \* execution_orders: the net quantity of each symbol
  memory,      \* autoTradingState and uiConfigState
  rows,        \* auto_trading_state and ui_config_state
  registry,    \* exchange_connection_registry
  engine,      \* the Python engine's switch
  acked,       \* history: the newest stamp of an answered save of each setting
  disturbed    \* history: what was not changed by one request at a time

book == <<pending, orders>>
settings == <<memory, rows, registry, engine, acked>>
vars == <<now, task, book, settings, disturbed>>

\* The auto-trading state and the configuration, each reduced to one switch.
Settings == {"auto", "config"}

\* The part of the state a kind of request works on.
PartOf == [trade |-> "orders", closeAll |-> "orders",
           auto |-> "auto", config |-> "config", test |-> "config"]
Kinds == DOMAIN PartOf

Waiting == [kind |-> "waiting"]
Answered == [kind |-> "answered"]

OrderTask(kind, pc, left) == [kind |-> kind, pc |-> pc, left |-> left]
SettingTask(kind, pc, value, stamp) ==
  [kind |-> kind, pc |-> pc, value |-> value, stamp |-> stamp]

UnderWay(part) == {r \in Requests : task[r].kind \in Kinds /\ PartOf[task[r].kind] = part}
At(r, pc) == task[r].kind \in Kinds /\ task[r].pc = pc

Stamped(value, stamp) == [value |-> value, stamp |-> stamp]

----------------------------------------------------------------------------
Init ==
  /\ now = 0
  /\ task = [r \in Requests |-> Waiting]
  /\ pending = [s \in Symbols |-> 0] /\ orders = [s \in Symbols |-> 0]
  /\ memory = [setting \in Settings |-> Stamped(FALSE, 0)]
  /\ rows = [setting \in Settings |-> {}]
  /\ registry = {}
  /\ engine = FALSE
  /\ acked = [setting \in Settings |-> 0]
  /\ disturbed = {}

\* A request begins.  One that sets its part whatever it was, and finds it to
\* itself, ends the disturbance of the ones before.
Begin(r, t) ==
  LET part == PartOf[t.kind] IN
  /\ task[r] = Waiting
  /\ task' = [task EXCEPT ![r] = t]
  /\ disturbed' = IF UnderWay(part) # {} THEN disturbed \cup {part}
                  ELSE IF t.kind \in {"closeAll", "auto", "config"} THEN disturbed \ {part}
                  ELSE disturbed

\* It goes on with its next await, or is answered.
Continue(r, t) == task' = [task EXCEPT ![r] = t] /\ UNCHANGED disturbed

\* Answered, with a part of its work not done.
Cut(r) ==
  /\ task' = [task EXCEPT ![r] = Answered]
  /\ disturbed' = disturbed \cup {PartOf[task[r].kind]}

----------------------------------------------------------------------------
(* Orders: /api/trade, /api/tool-selection, /api/positions/close-all. *)

Order(symbol, lots) == [symbol |-> symbol, lots |-> lots]

Trade(r, order) ==
  /\ Begin(r, OrderTask("trade", "submits", <<order>>))
  /\ UNCHANGED <<now, book, settings>>

CloseAll(r) ==
  /\ Begin(r, OrderTask("closeAll", "reads", <<>>))
  /\ UNCHANGED <<now, book, settings>>

\* Mutant of Opposite: a short position is sold again.
OppositeOfLong(symbol) ==
  Order(symbol, IF orders[symbol] > 0 THEN -orders[symbol] ELSE orders[symbol])

\* The order that closes the net position of a symbol.
Opposite(symbol) == Order(symbol, -orders[symbol])

\* computePositions: the table is read once, before anything is sent.
ReadsPositions(r) ==
  /\ At(r, "reads")
  /\ \E left \in SetToSeqs({Opposite(s) : s \in {s \in Symbols : orders[s] # 0}}) :
       Continue(r, OrderTask("closeAll", "submits", left))
  /\ UNCHANGED <<now, book, settings>>

Sending(r) == Head(task[r].left)

\* submitExecutionOrder: the gateway puts every order it gets under an id of its
\* own, whatever idempotency_key it carries, and answers SUBMITTED.
GatewayTakes(r) ==
  /\ At(r, "submits") /\ task[r].left # <<>>
  /\ pending' = [pending EXCEPT ![Sending(r).symbol] = @ + Sending(r).lots]
  /\ Continue(r, OrderTask(task[r].kind, "records", task[r].left))
  /\ UNCHANGED <<now, orders, settings>>

\* What was sent is recorded, and the next order is sent.
Records(r) ==
  /\ At(r, "records")
  /\ orders' = [orders EXCEPT ![Sending(r).symbol] = @ + Sending(r).lots]
  /\ Continue(r, OrderTask(task[r].kind, "submits", Tail(task[r].left)))
  /\ UNCHANGED <<now, pending, settings>>

OrdersDone(r) ==
  /\ At(r, "submits") /\ task[r].left = <<>>
  /\ Continue(r, Answered)
  /\ UNCHANGED <<now, book, settings>>

\* The read, the call or an insert raises: what the gateway took stays taken, and
\* an insert that raises may have been made.
OrdersRaise(r) ==
  /\ At(r, "reads") \/ At(r, "submits") \/ At(r, "records")
  /\ Cut(r)
  /\ \/ UNCHANGED orders
     \/ /\ At(r, "records")
        /\ orders' = [orders EXCEPT ![Sending(r).symbol] = @ + Sending(r).lots]
  /\ UNCHANGED <<now, pending, settings>>

----------------------------------------------------------------------------
(* Settings: /api/auto/toggle, /api/config, /api/config/test. *)

\* The request's own value in memory, before anything is awaited.
Save(r, setting, value) ==
  /\ Begin(r, SettingTask(setting, "persists", value, now))
  /\ memory' = [memory EXCEPT ![setting] = Stamped(value, now)]
  /\ UNCHANGED <<now, book, rows, registry, engine, acked>>

Inserted(r) ==
  rows' = [rows EXCEPT ![task[r].kind] = @ \cup {Stamped(task[r].value, task[r].stamp)}]

\* Mutant of Persists: the row is not waited for.
PersistsNot(r) ==
  /\ At(r, "persists") /\ now > task[r].stamp
  /\ Continue(r, IF task[r].kind = "auto"
                 THEN SettingTask("auto", "engine", task[r].value, task[r].stamp)
                 ELSE SettingTask("config", "checks", memory["config"].value, task[r].stamp))
  /\ UNCHANGED <<now, book, memory, rows, registry, engine, acked>>

\* The row is in the table, a millisecond later at the least.  The toggle goes on
\* with its own value, the configuration is checked as it is by now.
Persists(r) ==
  /\ At(r, "persists") /\ now > task[r].stamp
  /\ Inserted(r)
  /\ Continue(r, IF task[r].kind = "auto"
                 THEN SettingTask("auto", "engine", task[r].value, task[r].stamp)
                 ELSE SettingTask("config", "checks", memory["config"].value, task[r].stamp))
  /\ UNCHANGED <<now, book, memory, registry, engine, acked>>

PersistRaises(r) ==
  /\ At(r, "persists") /\ now > task[r].stamp
  /\ Cut(r)
  /\ Inserted(r) \/ UNCHANGED rows
  /\ UNCHANGED <<now, book, memory, registry, engine, acked>>

Acknowledge(r) ==
  acked' = [acked EXCEPT ![task[r].kind] = Max({@, task[r].stamp})]

TellsEngine(r) ==
  /\ At(r, "engine")
  /\ engine' = task[r].value
  /\ Acknowledge(r)
  /\ Continue(r, Answered)
  /\ UNCHANGED <<now, book, memory, rows, registry>>

\* The engine cannot be reached, or refuses: the toggle is answered all the same.
EngineMissed(r) ==
  /\ At(r, "engine")
  /\ Acknowledge(r)
  /\ Cut(r)
  /\ UNCHANGED <<now, book, memory, rows, registry, engine>>

Test(r) ==
  /\ Begin(r, SettingTask("test", "checks", memory["config"].value, now))
  /\ UNCHANGED <<now, book, settings>>

Registers(r) == registry' = registry \cup {Stamped(task[r].value, now)}

\* evaluateConnectivity and persistConnectionRegistry: records of the
\* configuration it was called with, stamped when they are made.
Checks(r) ==
  /\ At(r, "checks")
  /\ Registers(r)
  /\ IF task[r].kind = "config" THEN Acknowledge(r) ELSE UNCHANGED acked
  /\ Continue(r, Answered)
  /\ UNCHANGED <<now, book, memory, rows, engine>>

ChecksRaise(r) ==
  /\ At(r, "checks")
  /\ Registers(r) \/ UNCHANGED registry
  /\ Cut(r)
  /\ UNCHANGED <<now, book, memory, rows, engine, acked>>

----------------------------------------------------------------------------
\* ORDER BY updated_at DESC LIMIT 1: of rows with one stamp, any.
Newest(table) == {row \in table : \A other \in table : other.stamp <= row.stamp}

\* Mutant of Loaded: ORDER BY updated_at ASC.
LoadedAscending(setting) ==
  IF rows[setting] = {} THEN {Stamped(FALSE, now)}
  ELSE {row \in rows[setting] : \A other \in rows[setting] : row.stamp <= other.stamp}

Loaded(setting) ==
  IF rows[setting] = {} THEN {Stamped(FALSE, now)} ELSE Newest(rows[setting])

\* The process ends and starts again, which takes more than a millisecond.
Restart ==
  /\ now < MaxTime
  /\ now' = now + 1
  /\ task' = [r \in Requests |-> IF task[r] = Waiting THEN Waiting ELSE Answered]
  /\ disturbed' = disturbed \cup {PartOf[task[r].kind] :
                     r \in {r \in Requests : task[r].kind \in Kinds}}
  /\ \E auto \in Loaded("auto"), config \in Loaded("config") :
       memory' = [setting \in Settings |-> IF setting = "auto" THEN auto ELSE config]
  /\ UNCHANGED <<book, rows, registry, engine, acked>>

\* The Python process starts with auto trading off, and nobody tells it more.
EngineRestarts ==
  /\ engine
  /\ engine' = FALSE
  /\ disturbed' = disturbed \cup {"auto"}
  /\ UNCHANGED <<now, task, book, memory, rows, registry, acked>>

\* The dashboard's own routes set the switch and leave the server's state alone:
\* /auto/toggle, and POST /api/config, which turns it off unless the body says on.
EngineSetElsewhere ==
  /\ engine' \in BOOLEAN
  /\ disturbed' = disturbed \cup {"auto"}
  /\ UNCHANGED <<now, task, book, memory, rows, registry, acked>>

Clock ==
  /\ now < MaxTime
  /\ now' = now + 1
  /\ UNCHANGED <<task, book, settings, disturbed>>

Next ==
  \/ \E r \in Requests, s \in Symbols, lots \in Lots : Trade(r, Order(s, lots))
  \/ \E r \in Requests, setting \in Settings, value \in BOOLEAN : Save(r, setting, value)
  \/ \E r \in Requests :
       \/ CloseAll(r) \/ ReadsPositions(r)
       \/ GatewayTakes(r) \/ Records(r) \/ OrdersDone(r) \/ OrdersRaise(r)
       \/ Persists(r) \/ PersistRaises(r) \/ TellsEngine(r) \/ EngineMissed(r)
       \/ Test(r) \/ Checks(r) \/ ChecksRaise(r)
  \/ Restart \/ EngineRestarts \/ EngineSetElsewhere \/ Clock

Spec == Init /\ [][Next]_vars

----------------------------------------------------------------------------
(* Properties. *)

StampedValue == [value : BOOLEAN, stamp : 0..now]
OrderList == Seq([symbol : Symbols, lots : Int])

OrderTasks ==
  [kind : {"trade", "closeAll"}, pc : {"reads", "submits", "records"}, left : OrderList]
SettingTasks ==
  [kind : {"auto", "config", "test"}, pc : {"persists", "engine", "checks"},
   value : BOOLEAN, stamp : 0..now]

\* The shape of the state; nothing is stamped in the future, and what is recorded
\* was sent.
TypeOK ==
  /\ now \in 0..MaxTime
  /\ task \in [Requests -> {Waiting, Answered} \cup OrderTasks \cup SettingTasks]
  /\ \A r \in Requests : At(r, "records") => task[r].left # <<>>
  /\ pending \in [Symbols -> Int] /\ orders \in [Symbols -> Int]
  /\ memory \in [Settings -> StampedValue]
  /\ rows \in [Settings -> SUBSET StampedValue] /\ registry \subseteq StampedValue
  /\ engine \in BOOLEAN
  /\ acked \in [Settings -> 0..now]
  /\ disturbed \subseteq {"orders", "auto", "config"}

\* "so long+short inventory can actually flatten on close-all": a close-all that
\* had the orders to itself and has sent all it meant to leaves no position.
CloseAllFlattens ==
  \A r \in Requests :
    (/\ task[r].kind = "closeAll" /\ At(r, "submits") /\ task[r].left = <<>>
     /\ "orders" \notin disturbed)
    => \A s \in Symbols : orders[s] = 0

\* A setting whose save was answered is not lost: whatever saves overlap, fail or
\* are cut off, what is in force, after a restart too, is as new.
SettingsSurvive == \A setting \in Settings : acked[setting] <= memory[setting].stamp

\* Once the saves that did not overlap are done the engine trades if and only if
\* the interface says so, unless it restarted or was set by the dashboard since,
\* and the registry is that of the configuration in force, across restarts of the
\* server.
SettingsTakeEffect ==
  /\ (UnderWay("auto") = {} /\ "auto" \notin disturbed) => engine = memory["auto"].value
  /\ (UnderWay("config") = {} /\ "config" \notin disturbed) =>
       \A record \in Newest(registry) : record.value = memory["config"].value
=============================================================================
