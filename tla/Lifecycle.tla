------------------------------ MODULE Lifecycle -------------------------------
(***************************************************************************)
(* main: the dispatcher, the executors and the other tasks it starts, and  *)
(* its shutdown: it closes the executors one await at a time while the bus *)
(* still delivers, cancels its tasks, stops the dispatcher and then the    *)
(* rest.  An executor subscribes when its client has loaded the markets,   *)
(* and its signal handler makes several calls to the exchange on behalf of *)
(* the bus's consumer; stop unsubscribes it and closes its client.         *)
(*                                                                         *)
(* The exchange is external: a call answers or raises.  Jobs are the feeds *)
(* and the other tasks of main, which have nothing to do but to end when   *)
(* they are cancelled.                                                     *)
(***************************************************************************)
EXTENDS Dispatcher, Sequences, SequencesExt

CONSTANTS
  Executors,   \* in the order of the list of executors
  Jobs,        \* tasks of main beside the dispatcher's and the executors'
  MaxCalls,    \* exchange calls of one signal's handler at most
  MaxSignals   \* bound: SIGNAL events

ASSUME LifecycleAssumption ==
  MaxCalls \in Nat \ {0} /\ MaxSignals \in Nat /\ Executors # << >>

Execs == ToSet(Executors)

VARIABLES
  mainAt,      \* "waiting", "closing", "cancelling", "dispatcher", "done", "raised"
  closing,     \* position in Executors of the one being closed
  job,         \* task of main -> "running", "cancelled", "done"
  client,      \* executor -> "loading", "none", "open", "closed", "forgotten"
  handlers,    \* the executors subscribed, in order
  handling,    \* consumer: [pos, calls, calling]: place in the live list
  signals      \* SIGNAL events so far

mainVars == <<mainAt, closing, job, client, handlers, handling, signals>>

MainTasks == Jobs \union Execs \union {"dispatcher"}
NotHandling == [pos |-> 0, calls |-> 0, calling |-> FALSE]

LifeInit ==
  /\ DispInit
  /\ mainAt = "waiting" /\ closing = 1
  /\ job = [j \in MainTasks |-> "running"]
  /\ client = [e \in Execs |-> "loading"]
  /\ handlers = << >> /\ handling = NotHandling /\ signals = 0

-----------------------------------------------------------------------------
(* Executors: the first slice of each run has begun to load its markets.    *)

(* _init_client ends and run subscribes, with a client or without one: a    *)
(* load that fails drops the client, whose session may be open by then, and *)
(* one that goes on after stop has closed the client opens it again.        *)
MarketsLoaded(e, loaded) ==
  /\ job[e] = "running" /\ client[e] \in {"loading", "closed"} /\ ~Contains(handlers, e)
  /\ client' = [client EXCEPT ![e] =
                  IF @ = "closed" /\ loaded # "forgotten" THEN "closed" ELSE loaded]
  /\ handlers' = Append(handlers, e)
  /\ UNCHANGED <<mainAt, closing, job, handling, signals, dispVars>>

(* stop unsubscribes at once and then awaits the client, if there is one.   *)
StopExecutor ==
  /\ mainAt = "closing" /\ closing <= Len(Executors)
  /\ LET e == Executors[closing]
     IN /\ handlers' = SelectSeq(handlers, LAMBDA h : h # e)
        /\ IF client[e] \in {"open", "loading"}
           THEN mainAt' = "closing client" /\ UNCHANGED closing
           ELSE closing' = closing + 1 /\ UNCHANGED mainAt
  /\ UNCHANGED <<job, client, handling, signals, dispVars>>

ClientClosed ==
  /\ mainAt = "closing client"
  /\ client' = [client EXCEPT ![Executors[closing]] = IF @ = "none" THEN "none" ELSE "closed"]
  /\ mainAt' = "closing" /\ closing' = closing + 1
  /\ UNCHANGED <<job, handlers, handling, signals, dispVars>>

-----------------------------------------------------------------------------
(* The consumer of the bus walks the live list of handlers.                 *)

Delivering == task[Bus] = "running" /\ busOn

TakeSignal ==
  /\ Delivering /\ handling = NotHandling /\ signals < MaxSignals
  /\ signals' = signals + 1
  /\ handling' = [NotHandling EXCEPT !.pos = 1]
  /\ UNCHANGED <<mainAt, closing, job, client, handlers, dispVars>>

AtHandler == task[Bus] = "running" /\ handling.pos \in 1 .. Len(handlers) /\ ~handling.calling

(* A handler calls its exchange through self._client, which stop has set to *)
(* None by then or not; without one the call raises inside _live_execute.   *)
CallExchange ==
  /\ AtHandler /\ handling.calls < MaxCalls
  /\ client[handlers[handling.pos]] = "open"
  /\ handling' = [handling EXCEPT !.calls = @ + 1, !.calling = TRUE]
  /\ UNCHANGED <<mainAt, closing, job, client, handlers, signals, dispVars>>

ExchangeAnswers ==
  /\ task[Bus] = "running" /\ handling.calling
  /\ handling' = [handling EXCEPT !.calling = FALSE]
  /\ UNCHANGED <<mainAt, closing, job, client, handlers, signals, dispVars>>

(* The next place of a list that stop may have shortened meanwhile: a       *)
(* handler behind the one removed is passed over.                           *)
HandlerEnds ==
  /\ AtHandler
  /\ handling' = [handling EXCEPT !.pos = @ + 1, !.calls = 0]
  /\ UNCHANGED <<mainAt, closing, job, client, handlers, signals, dispVars>>

DispatchEnds ==
  /\ task[Bus] = "running"
  /\ handling.pos > Len(handlers) /\ ~handling.calling
  /\ handling' = NotHandling
  /\ UNCHANGED <<mainAt, closing, job, client, handlers, signals, dispVars>>

-----------------------------------------------------------------------------
(* main *)

StartDispatcher ==
  /\ job["dispatcher"] = "running" /\ Start(FALSE)
  /\ UNCHANGED mainVars

DispatcherStep ==
  /\ \/ /\ job["dispatcher"] = "running"
        /\ Connecting
     \/ mainAt = "dispatcher" /\ (StopCalled \/ Joined \/ DbClosed \/ CacheClosed)
     \/ /\ handling = NotHandling /\ BusReturns
  /\ UNCHANGED <<mainAt, closing, job, client, handlers, signals>>
  /\ handling' = IF task'[Bus] = "running" THEN handling ELSE NotHandling

StopSignal ==
  /\ mainAt = "waiting" /\ mainAt' = "closing"
  /\ UNCHANGED <<closing, job, client, handlers, handling, signals, dispVars>>

(* Every task that still runs is cancelled, and gathered.                   *)
CancelTasks ==
  /\ mainAt = "closing" /\ closing > Len(Executors)
  /\ job' = [j \in MainTasks |-> "cancelled"]
  /\ mainAt' = "cancelling"
  /\ UNCHANGED <<closing, client, handlers, handling, signals, dispVars>>

JobEnds(j) ==
  /\ job[j] = "cancelled" /\ job' = [job EXCEPT ![j] = "done"]
  /\ UNCHANGED <<mainAt, closing, client, handlers, handling, signals, dispVars>>

\* Mutant of StopDispatcher: a dispatcher that had not started is not stopped.
StopDispatcherStarted ==
  /\ mainAt = "cancelling" /\ \A j \in MainTasks : job[j] = "done"
  /\ mainAt' = "dispatcher" /\ stage' = IF stage = "started" THEN "stopping" ELSE stage
  /\ UNCHANGED <<task, store, busOn, watched, forever>>
  /\ UNCHANGED <<closing, job, client, handlers, handling, signals>>

(* dispatcher.stop, whatever start had come to.                             *)
StopDispatcher ==
  /\ mainAt = "cancelling" /\ \A j \in MainTasks : job[j] = "done"
  /\ mainAt' = "dispatcher" /\ stage' = "stopping"
  /\ UNCHANGED <<task, store, busOn, watched, forever>>
  /\ UNCHANGED <<closing, job, client, handlers, handling, signals>>

(* The feeds, the notifier and the order manager are stopped one by one.    *)
StopRest ==
  /\ mainAt = "dispatcher" /\ stage = "stopped"
  /\ mainAt' = "done"
  /\ UNCHANGED <<closing, job, client, handlers, handling, signals, dispVars>>

(* What dispatcher.stop raises ends main.                                   *)
StopRaises ==
  /\ mainAt = "dispatcher" /\ CloseRaises
  /\ mainAt' = "raised"
  /\ UNCHANGED <<closing, job, client, handlers, handling, signals>>

MainSteps ==
  \/ DispatcherStep \/ StartDispatcher
  \/ StopExecutor \/ ClientClosed
  \/ CancelTasks \/ StopDispatcher \/ StopRest
  \/ \E j \in MainTasks : JobEnds(j)
  \/ ExchangeAnswers

LifeNext ==
  \/ MainSteps \/ StopSignal \/ StopRaises
  \/ \E e \in Execs, loaded \in {"open", "none", "forgotten"} : MarketsLoaded(e, loaded)
  \/ TakeSignal \/ CallExchange \/ HandlerEnds \/ DispatchEnds

-----------------------------------------------------------------------------
(* After a stop signal the program comes to its end, wherever its start,    *)
(* its executors and its consumer are at that moment: no task runs, no      *)
(* handler waits for an exchange, no client that an executor still knows of *)
(* is open and, unless a store did not close, no store that is still known  *)
(* (main.py:164-185).                                                       *)
NothingLeft ==
  /\ Running = {} /\ handling = NotHandling
  /\ \A e \in Execs : client[e] \notin {"open", "loading"}
  /\ mainAt = "raised" \/ NoStoreOpen

ShutdownEnds == mainAt = "closing" ~> (mainAt \in {"done", "raised"} /\ NothingLeft)
=============================================================================
