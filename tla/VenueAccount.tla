----------------------------- MODULE VenueAccount -----------------------------
(***************************************************************************)
(* What execution/bybit_executor.py and execution/okx_executor.py do       *)
(* besides place_order (VenueExecutor): bybit's stream of order books,     *)
(* which shares the breaker with the orders, the list of open positions    *)
(* with the cache it falls back on, cancellations and settings, and okx's  *)
(* funding arbitrage.                                                      *)
(***************************************************************************)
EXTENDS VenueExecutor, Sequences

CONSTANTS
  Traded,      \* the symbols with positions, and of the stream
  Loops,       \* names for the stream's tasks: bound on starts of the stream
  MaxTrips,    \* bound: positions opened or closed at the venue
  FundingAt,   \* funding rates, in thresholds
  MaxCommands  \* bound: commands and funding requests

ASSUME LoopsAssumption == Loops \subseteq Nat \ {0} /\ IsFiniteSet(Traded) /\ Traded # {}
ASSUME AccountAssumption == MaxTrips \in Nat /\ MaxCommands \in Nat

VARIABLES
  venue,       \* which of the two executors this is
  paper,       \* paper_trading
  held,        \* the symbols with a position at the venue
  past,        \* history: what was held at some moment, newest last
  positions,   \* position_cache
  asked,       \* get_positions: the moment the venue read, NotAsked
  told,        \* what get_positions last returned
  running,     \* _running
  task,        \* _orderbook_task, NoTask
  loop,        \* where each task of the stream is
  wanted,      \* history: the stream was started after it was last stopped
  command,     \* cancel_order, set_leverage, set_position_mode: where the call is
  funding      \* calculate_funding_arbitrage: what it last returned

NotAsked == 0
NoTask == 0

streamVars == <<running, task, loop, wanted>>
positionVars == <<held, past, positions, asked, told>>
commandVars == <<command, funding>>
accountVars == <<venue, paper, streamVars, positionVars, commandVars>>

AccountInit ==
  /\ venue \in {"bybit", "okx"} /\ paper \in BOOLEAN
  /\ held = {} /\ past = <<{}>> /\ positions = {} /\ asked = NotAsked /\ told = {}
  /\ running = FALSE /\ task = NoTask /\ wanted = FALSE
  /\ loop = [l \in Loops |-> [pc |-> "unused", left |-> 0]]
  /\ command = [pc |-> "idle", answer |-> FALSE, number |-> 0] /\ funding = "none"

----------------------------------------------------------------------------
(* get_positions. *)

\* External: a position is opened or closed.
Trades(s) ==
  /\ Len(past) <= MaxTrips
  /\ held' = IF s \in held THEN held \ {s} ELSE held \cup {s}
  /\ past' = Append(past, held')
  /\ UNCHANGED <<venue, paper, positions, asked, told, streamVars, commandVars>>

\* In paper mode the cache is the answer, and nothing ever fills it.
AskPositions ==
  /\ asked = NotAsked
  /\ IF paper THEN told' = positions /\ UNCHANGED asked
     ELSE asked' = Len(past) /\ UNCHANGED told
  /\ UNCHANGED <<venue, paper, held, past, positions, streamVars, commandVars>>

\* okx replaces the cache; bybit writes over it, and a closed position stays.
Kept(open) == IF venue = "okx" THEN open ELSE positions \cup open

PositionsAnswered ==
  /\ asked # NotAsked
  /\ \E moment \in asked .. Len(past) :
       told' = past[moment] /\ positions' = Kept(past[moment])
  /\ asked' = NotAsked
  /\ UNCHANGED <<venue, paper, held, past, streamVars, commandVars>>

PositionsFail ==
  /\ asked # NotAsked
  /\ told' = positions /\ asked' = NotAsked
  /\ UNCHANGED <<venue, paper, held, past, positions, streamVars, commandVars>>

----------------------------------------------------------------------------
(* start_orderbook_stream and stop_orderbook_stream of bybit. *)

LoopAt(l, pc) == loop[l].pc = pc

\* A second start forgets the task of the first.
StartStream(l) ==
  /\ venue = "bybit" /\ LoopAt(l, "unused")
  /\ running' = TRUE /\ task' = l /\ wanted' = TRUE
  /\ loop' = [loop EXCEPT ![l].pc = "head"]
  /\ UNCHANGED <<venue, paper, positionVars, commandVars>>

\* The head of the loop.
Streams(l) ==
  /\ LoopAt(l, "head")
  /\ loop' = IF running THEN [loop EXCEPT ![l] = [pc |-> "fetch", left |-> Cardinality(Traded)]]
             ELSE [loop EXCEPT ![l].pc = "ended"]
  /\ UNCHANGED <<venue, paper, running, task, wanted, positionVars, commandVars>>

\* The symbols one after another, whatever comes of each, then the interval.
NextSymbol(l) ==
  /\ LoopAt(l, "fetch")
  /\ loop' = IF loop[l].left > 1 THEN [loop EXCEPT ![l].left = @ - 1]
             ELSE [loop EXCEPT ![l].pc = "head"]
  /\ UNCHANGED <<venue, paper, running, task, wanted, positionVars, commandVars>>

\* Mutant of StopStream: the task is cancelled and the flag left as it is.
StopStreamTask ==
  /\ venue = "bybit"
  /\ wanted' = FALSE
  /\ loop' = IF task = NoTask THEN loop ELSE [loop EXCEPT ![task].pc = "ended"]
  /\ UNCHANGED <<venue, paper, running, task, positionVars, commandVars>>

\* The flag, then the task it knows of, which awaits a fetch or the interval.
StopStream ==
  /\ venue = "bybit"
  /\ running' = FALSE /\ wanted' = FALSE
  /\ loop' = IF task = NoTask THEN loop ELSE [loop EXCEPT ![task].pc = "ended"]
  /\ UNCHANGED <<venue, paper, task, positionVars, commandVars>>

----------------------------------------------------------------------------
(* Commands and funding. *)

\* cancel_order, set_position_mode, set_leverage; paper mode says yes at once.
Command ==
  /\ command.pc = "idle" /\ command.number < MaxCommands
  /\ command' = [pc |-> IF paper THEN "idle" ELSE "sent", answer |-> paper,
                 number |-> command.number + 1]
  /\ UNCHANGED <<venue, paper, streamVars, positionVars, funding>>

\* They turn what the venue raises, or an answer that is lost, into FALSE.
CommandAnswered ==
  /\ command.pc = "sent"
  /\ \E ok \in BOOLEAN : command' = [command EXCEPT !.pc = "idle", !.answer = ok]
  /\ UNCHANGED <<venue, paper, streamVars, positionVars, funding>>

\* The side calculate_funding_arbitrage names.
Side(rate) ==
  IF rate > 1 THEN "long" ELSE IF rate < -1 THEN "short" ELSE "none"

\* get_funding_rate fails quietly, and there is no opportunity.
FundingAsked ==
  /\ venue = "okx" /\ command.pc = "idle" /\ command.number < MaxCommands
  /\ command' = [command EXCEPT !.number = @ + 1]
  /\ funding' \in {"none"} \cup {Side(rate) : rate \in FundingAt}
  /\ UNCHANGED <<venue, paper, streamVars, positionVars>>

----------------------------------------------------------------------------
\* A symbol comes with its snapshot, refused by an open breaker, read or failed.
FetchesNext(l) ==
  /\ NextSymbol(l)
  /\ \/ state = "OPEN" /\ UNCHANGED breaker
     \/ Snapshot
     \/ SnapshotRaises
  /\ UNCHANGED <<keyAge, client, ghosts>>

LoopSteps(l) == FetchesNext(l) \/ (Streams(l) /\ UNCHANGED executor)

StreamNext ==
  \/ \E l \in Loops : (StartStream(l) /\ UNCHANGED executor) \/ LoopSteps(l)
  \/ StopStream /\ UNCHANGED executor

AccountNext ==
  \/ \E s \in Traded : Trades(s)
  \/ AskPositions \/ PositionsAnswered \/ PositionsFail
  \/ Command \/ CommandAnswered \/ FundingAsked

----------------------------------------------------------------------------
(* Property. *)

\* A stream that was stopped asks the venue no more, the tasks it has forgotten
\* included, unless it is started again (bybit_executor.py:283-316).
StoppedStreamsEnd ==
  ~wanted ~> (wanted \/ \A l \in Loops : loop[l].pc \in {"unused", "ended"})
=============================================================================
