------------------------------ MODULE Dispatcher ------------------------------
(***************************************************************************)
(* Dispatcher: it connects the stores, starts the components as tasks, and *)
(* stops them again; run_forever watches the tasks and stops everything    *)
(* when one of them fails.  DBHandler and Cache are here as the dispatcher *)
(* uses them: a connection that fails leaves the program without the store,*)
(* a migration or a ping that fails after it with one it no longer knows.  *)
(* A stop that is cancelled, or in which a store does not close, ends where*)
(* it is.                                                                  *)
(*                                                                         *)
(* A component's task ends by returning, by failing or by being cancelled; *)
(* the event bus returns on its own once it was told to stop.              *)
(***************************************************************************)
EXTENDS Integers, FiniteSets

CONSTANTS
  Components,   \* the components that are wired (bus, data manager, generator, ...)
  Bus      \* the event bus among them

ASSUME DispatcherAssumption == IsFiniteSet(Components) /\ Bus \in Components

Stores == {"db", "cache"}

VARIABLES
  stage,     \* where the dispatcher is
  task,      \* component -> "none", "running", "returned", "failed", "cancelled"
  store,     \* store -> "none", "open", "closed" or "forgotten", which is open
  busOn,     \* EventBus._running has not been reset
  watched,   \* run_forever: pending; main: {} for nobody watches
  forever    \* run_forever was called, not start alone

dispVars == <<stage, task, store, busOn, watched, forever>>

DispInit ==
  /\ stage = "idle" /\ task = [p \in Components |-> "none"]
  /\ store = [s \in Stores |-> "none"]
  /\ busOn = TRUE /\ watched = {} /\ forever = FALSE

Running == {p \in Components : task[p] = "running"}

-----------------------------------------------------------------------------
(* start *)

Start(watch) ==
  /\ stage = "idle" /\ stage' = "connecting db" /\ forever' = watch
  /\ UNCHANGED <<task, store, busOn, watched>>

(* Redis makes no connection before its first command, the ping.            *)
ToCache(db) ==
  /\ stage' = "connecting cache"
  /\ store' = [store EXCEPT !["db"] = db, !["cache"] = "open"]

PoolOpened(reachable) ==
  /\ stage = "connecting db"
  /\ IF reachable THEN stage' = "migrating" /\ store' = [store EXCEPT !["db"] = "open"]
                  ELSE ToCache("none")
  /\ UNCHANGED <<task, busOn, watched, forever>>

(* A statement that raises leaves the pool open and drops it.               *)
Migrated(done) ==
  /\ stage = "migrating" /\ ToCache(IF done THEN "open" ELSE "forgotten")
  /\ UNCHANGED <<task, busOn, watched, forever>>

(* From the cache's answer on start runs without a wait: every component    *)
(* has its task.  A client is dropped with or without a connection.         *)
CacheConnected(cache) ==
  /\ stage = "connecting cache" /\ stage' = "started"
  /\ store' = [store EXCEPT !["cache"] = cache]
  /\ task' = [p \in Components |-> "running"]
  /\ watched' = IF forever THEN Components ELSE {}
  /\ UNCHANGED <<busOn, forever>>

Connecting ==
  \/ \E done \in BOOLEAN : PoolOpened(done) \/ Migrated(done)
  \/ \E cache \in {"open", "none", "forgotten"} : CacheConnected(cache)

-----------------------------------------------------------------------------
(* The tasks *)

Fails(p) ==
  /\ task[p] = "running" /\ task' = [task EXCEPT ![p] = "failed"]
  /\ UNCHANGED <<stage, store, busOn, watched, forever>>

BusReturns ==
  /\ task[Bus] = "running" /\ ~busOn
  /\ task' = [task EXCEPT ![Bus] = "returned"]
  /\ UNCHANGED <<stage, store, busOn, watched, forever>>

Cancelled(tasks) ==
  [p \in Components |-> IF p \in tasks /\ task[p] = "running" THEN "cancelled" ELSE task[p]]

-----------------------------------------------------------------------------
(* run_forever: asyncio.wait until a task fails, or all have ended.         *)

\* Mutant of WaitEnds: waits for all of them.
WaitEndsAll == \A p \in watched : task[p] # "running"

WaitEnds == \/ \E p \in watched : task[p] = "failed"
            \/ \A p \in watched : task[p] # "running"

(* A failure cancels those still running before everything is stopped.      *)
Notice ==
  /\ stage = "started" /\ forever /\ WaitEnds
  /\ task' = Cancelled(watched)
  /\ watched' = {} /\ stage' = "stopping"
  /\ UNCHANGED <<store, busOn, forever>>

-----------------------------------------------------------------------------
(* stop *)

StopCalled ==
  /\ stage = "stopping" /\ stage' = "joining"
  /\ busOn' = FALSE /\ task' = Cancelled(Components)
  /\ UNCHANGED <<store, watched, forever>>

Closed(s) == [store EXCEPT ![s] = IF @ = "open" THEN "closed" ELSE @]

Joined ==
  /\ stage = "joining" /\ Running = {} /\ stage' = "closing db"
  /\ UNCHANGED <<task, store, busOn, watched, forever>>

DbClosed ==
  /\ stage = "closing db" /\ stage' = "closing cache" /\ store' = Closed("db")
  /\ UNCHANGED <<task, busOn, watched, forever>>

CacheClosed ==
  /\ stage = "closing cache" /\ stage' = "stopped" /\ store' = Closed("cache")
  /\ UNCHANGED <<task, busOn, watched, forever>>

(* The wait for a store that closes ends early, when it is closed or not.   *)
ClosingEnds ==
  /\ \/ stage = "closing db" /\ store["db"] = "open" /\ store' \in {store, Closed("db")}
     \/ stage = "closing cache" /\ store["cache"] = "open" /\ store' \in {store, Closed("cache")}
  /\ stage' = "cut off"

CloseRaises == ClosingEnds /\ UNCHANGED <<task, busOn, watched, forever>>

(* run_forever is cancelled.  While start runs nothing is stopped, for it   *)
(* is called outside the try; while stop waits for the tasks or a store     *)
(* nothing is called after it any more.                                     *)
CancelForever ==
  /\ forever
  /\ \/ /\ stage \in {"connecting db", "migrating", "connecting cache"}
        /\ stage' = "abandoned" /\ UNCHANGED store
     \/ stage = "started" /\ stage' = "stopping" /\ UNCHANGED store
     \/ stage = "joining" /\ stage' = "cut off" /\ UNCHANGED store
     \/ ClosingEnds
  /\ watched' = {}
  /\ UNCHANGED <<task, busOn, forever>>

DispSteps ==
  \/ Connecting
  \/ BusReturns \/ Notice \/ StopCalled \/ Joined \/ DbClosed \/ CacheClosed

DispNext ==
  \/ \E watch \in BOOLEAN : Start(watch)
  \/ \E p \in Components : Fails(p)
  \/ CancelForever \/ CloseRaises
  \/ DispSteps

-----------------------------------------------------------------------------
(* Under run_forever one failed component stops all of them: once it has    *)
(* failed, the dispatcher comes to a state in which nothing runs; and if    *)
(* its stop was not cut off, no store it knew of is open, wherever in start *)
(* or stop a connection, a migration or a cancellation broke in             *)
(* (dispatcher.py:71-121).                                                  *)
NoStoreOpen == \A s \in Stores : store[s] # "open"

FailureStopsAll ==
  \A p \in Components :
    (forever /\ task[p] = "failed")
      ~> (Running = {} /\ (stage = "cut off" \/ (stage = "stopped" /\ NoStoreOpen)))
=============================================================================
