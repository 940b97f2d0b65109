--------------------------- MODULE Services_proof ---------------------------
(***************************************************************************)
(* Proofs about the services around the book: a message to many misses     *)
(* only clients that have gone; a health report is no older than the       *)
(* checks behind it may be; and the order books lose nothing and keep the  *)
(* priority of price and time.                                             *)
(***************************************************************************)
EXTENDS WebsocketManager, HealthChecks, OrderMatcher,
        FiniteSetTheorems, SequenceTheorems, TLAPS

----------------------------------------------------------------------------
(* WebsocketManager: the two tables, and messages to many. *)

SenderRecord ==
  [at : Clients \cup {NoClient}, todo : SUBSET Clients, roster : SUBSET Clients,
   got : SUBSET Clients, round : Nat]

WsShape ==
  /\ active \subseteq Clients /\ fresh \subseteq Clients
  /\ channelsOf \in [Clients -> SUBSET Channels]
  /\ subscribers \in [Channels -> SUBSET Clients]
  /\ sender \in [Senders -> SenderRecord]

(* A drawn id is not drawn again; whom a sender's message is for connected before
   it began, and of those still here each is to be sent to, is being sent to or has
   got it. *)
Accounted ==
  /\ active \cap fresh = {}
  /\ \A t \in Senders : /\ sender[t].roster \cap fresh = {}
                        /\ sender[t].roster \cap active
                             \subseteq sender[t].todo \cup sender[t].got \cup {sender[t].at}

WsInv == WsShape /\ TablesAgree /\ Accounted

(* disconnect removes the client from both tables. *)
LEMMA RemovedAgree ==
  ASSUME WsShape, TablesAgree, NEW c \in Clients, Removed(c), UNCHANGED channelsOf
  PROVE  /\ active' = active \ {c}
         /\ subscribers' \in [Channels -> SUBSET Clients]
         /\ TablesAgree'
<1>1. CASE c \notin active
  <2>1. UNCHANGED <<active, subscribers>>
    BY <1>1 DEF Removed
  <2> QED BY <1>1, <2>1 DEF WsShape, TablesAgree
<1>2. CASE c \in active
  <2>1. /\ active' = active \ {c}
        /\ subscribers' = [ch \in Channels |->
                             IF ch \in channelsOf[c] THEN subscribers[ch] \ {c} ELSE subscribers[ch]]
    BY <1>2 DEF Removed
  <2> QED BY <1>2, <2>1 DEF WsShape, TablesAgree
<1> QED BY <1>1, <1>2

(* The senders' records are what they were, and nobody comes. *)
LEMMA AccountedShrinks ==
  ASSUME Accounted, active' \subseteq active, fresh' \subseteq fresh, UNCHANGED sender
  PROVE  Accounted'
BY DEF Accounted

(* A sender's step keeps the account when what leaves its list is tried, got, or gone. *)
LEMMA SenderSteps ==
  ASSUME WsShape, Accounted, NEW t \in Senders, NEW new \in SenderRecord,
         sender' = [sender EXCEPT ![t] = new], UNCHANGED <<fresh, channelsOf>>,
         active' \subseteq active, new.roster \cap fresh = {},
         new.roster \cap active' \subseteq new.todo \cup new.got \cup {new.at}
  PROVE  sender' \in [Senders -> SenderRecord] /\ Accounted'
BY DEF WsShape, Accounted

LEMMA WsStep == WsInv /\ [WsNext]_wsVars => WsInv'
<1> SUFFICES ASSUME WsInv, [WsNext]_wsVars PROVE WsInv'
  OBVIOUS
<1>0. WsShape /\ TablesAgree /\ Accounted
  BY DEF WsInv
<1>1. ASSUME NEW c \in Clients, NEW chans \in SUBSET Channels, Connect(c, chans)
      PROVE  WsInv'
  <2>1. c \in fresh /\ fresh' = fresh \ {c} /\ sender' = sender
    BY <1>1 DEF Connect
  <2>2. CASE UNCHANGED <<active, channelsOf, subscribers>>
    <3>1. Accounted'
      BY <1>0, <2>1, <2>2, AccountedShrinks
    <3> QED BY <1>0, <2>1, <2>2, <3>1 DEF WsInv, WsShape, TablesAgree
  <2>3. CASE ~UNCHANGED <<active, channelsOf, subscribers>>
    <3>1. /\ active' = active \cup {c} /\ channelsOf' = [channelsOf EXCEPT ![c] = chans]
          /\ subscribers' = [ch \in Channels |->
                               IF ch \in chans THEN subscribers[ch] \cup {c} ELSE subscribers[ch]]
      BY <1>1, <2>3 DEF Connect
    <3>2. c \notin active
      BY <1>0, <2>1 DEF Accounted
    <3>3. WsShape'
      BY <1>0, <2>1, <3>1 DEF WsShape
    <3>4. TablesAgree'
      BY <1>0, <3>1, <3>2 DEF WsShape, TablesAgree
    <3>5. Accounted'
      BY <1>0, <2>1, <3>1 DEF Accounted
    <3> QED BY <3>3, <3>4, <3>5 DEF WsInv
  <2> QED BY <2>2, <2>3
<1>2. ASSUME NEW c \in Clients, NEW chans \in SUBSET Channels, Subscribe(c, chans)
      PROVE  WsInv'
  <2>1. /\ c \in active /\ channelsOf' = [channelsOf EXCEPT ![c] = channelsOf[c] \cup chans]
        /\ subscribers' = [ch \in Channels |->
                             IF ch \in chans THEN subscribers[ch] \cup {c} ELSE subscribers[ch]]
        /\ UNCHANGED <<fresh, active, sender>>
    BY <1>2 DEF Subscribe
  <2>2. WsShape' /\ TablesAgree'
    BY <1>0, <2>1 DEF WsShape, TablesAgree
  <2>3. Accounted'
    BY <1>0, <2>1, AccountedShrinks
  <2> QED BY <2>2, <2>3 DEF WsInv
<1>3. ASSUME NEW c \in Clients, NEW chans \in SUBSET Channels, Unsubscribe(c, chans)
      PROVE  WsInv'
  <2>1. /\ c \in active /\ channelsOf' = [channelsOf EXCEPT ![c] = channelsOf[c] \ chans]
        /\ subscribers' = [ch \in Channels |->
                             IF ch \in chans THEN subscribers[ch] \ {c} ELSE subscribers[ch]]
        /\ UNCHANGED <<fresh, active, sender>>
    BY <1>3 DEF Unsubscribe
  <2>2. WsShape' /\ TablesAgree'
    BY <1>0, <2>1 DEF WsShape, TablesAgree
  <2>3. Accounted'
    BY <1>0, <2>1, AccountedShrinks
  <2> QED BY <2>2, <2>3 DEF WsInv
<1>4. ASSUME NEW c \in Clients, Disconnect(c) PROVE WsInv'
  <2>1. Removed(c) /\ UNCHANGED <<fresh, channelsOf, sender>>
    BY <1>4 DEF Disconnect
  <2>2. /\ active' = active \ {c} /\ subscribers' \in [Channels -> SUBSET Clients]
        /\ TablesAgree'
    BY <1>0, <2>1, RemovedAgree
  <2>3. Accounted'
    BY <1>0, <2>1, <2>2, AccountedShrinks
  <2> QED BY <1>0, <2>1, <2>2, <2>3 DEF WsInv, WsShape
<1>5. ASSUME NEW t \in Senders, NEW ids \in SUBSET Clients, ids \subseteq active,
             StartWith(t, ids), UNCHANGED <<fresh, active, channelsOf, subscribers>>
      PROVE  WsInv'
  <2> DEFINE new == [at |-> NoClient, todo |-> ids, roster |-> ids, got |-> {},
                     round |-> sender[t].round + 1]
  <2>1. sender' = [sender EXCEPT ![t] = new]
    BY <1>5 DEF StartWith
  <2>2. new \in SenderRecord /\ new.roster = ids /\ new.todo = ids
    BY <1>0 DEF WsShape, SenderRecord
  <2>3. ids \cap fresh = {}
    BY <1>0, <1>5 DEF Accounted
  <2> HIDE DEF new
  <2>4. sender' \in [Senders -> SenderRecord] /\ Accounted'
    BY <1>0, <1>5, <2>1, <2>2, <2>3, SenderSteps, Zenon
  <2> QED BY <1>0, <1>5, <2>4 DEF WsInv, WsShape, TablesAgree
<1>6. ASSUME NEW t \in Senders, NEW ch \in Channels, Broadcast(t, ch) PROVE WsInv'
  <2>1. subscribers[ch] \subseteq active /\ subscribers[ch] \in SUBSET Clients
    BY <1>0 DEF WsShape, TablesAgree
  <2> QED BY <1>5, <1>6, <2>1 DEF Broadcast
<1>7. ASSUME NEW t \in Senders, BroadcastToAll(t) PROVE WsInv'
  <2>1. active \in SUBSET Clients
    BY <1>0 DEF WsShape
  <2> QED BY <1>5, <1>7, <2>1 DEF BroadcastToAll
<1>8. ASSUME NEW t \in Senders, NEW c \in Clients, Send(t, c) PROVE WsInv'
  <2> DEFINE new == [sender[t] EXCEPT !.todo = sender[t].todo \ {c},
                                      !.at = IF c \in active THEN c ELSE NoClient]
  <2>1. /\ sender[t].at = NoClient /\ c \in sender[t].todo
        /\ UNCHANGED <<fresh, active, channelsOf, subscribers>>
    BY <1>8 DEF Send
  <2>2. sender[t] \in SenderRecord
    BY <1>0 DEF WsShape
  <2>3. sender' = [sender EXCEPT ![t] = new]
    BY <1>0, <1>8, <2>2, Zenon DEF Send, WsShape, SenderRecord
  <2>4. /\ new \in SenderRecord /\ new.roster = sender[t].roster /\ new.got = sender[t].got
        /\ new.todo = sender[t].todo \ {c} /\ new.at = IF c \in active THEN c ELSE NoClient
    BY <2>2, Zenon DEF SenderRecord
  <2> HIDE DEF new
  <2>5. /\ new.roster \cap fresh = {}
        /\ new.roster \cap active \subseteq new.todo \cup new.got \cup {new.at}
    <3>1. sender[t].roster \cap active \subseteq sender[t].todo \cup sender[t].got \cup {NoClient}
      BY <1>0, <2>1 DEF Accounted
    <3>2. NoClient \notin active
      BY <1>0, WsAssumption DEF WsShape
    <3> QED BY <1>0, <2>4, <3>1, <3>2 DEF Accounted
  <2>6. sender' \in [Senders -> SenderRecord] /\ Accounted'
    BY <1>0, <2>1, <2>3, <2>4, <2>5, SenderSteps, Zenon
  <2> QED BY <1>0, <2>1, <2>6 DEF WsInv, WsShape, TablesAgree
<1>9. ASSUME NEW t \in Senders, Sent(t) PROVE WsInv'
  <2> DEFINE new == [sender[t] EXCEPT !.at = NoClient, !.got = sender[t].got \cup {sender[t].at}]
  <2>1. sender[t].at # NoClient /\ UNCHANGED <<fresh, active, channelsOf, subscribers>>
    BY <1>9 DEF Sent
  <2>2. sender[t] \in SenderRecord
    BY <1>0 DEF WsShape
  <2>3. sender' = [sender EXCEPT ![t] = new]
    BY <1>0, <1>9, <2>2, Zenon DEF Sent, WsShape, SenderRecord
  <2>4. /\ new \in SenderRecord /\ new.roster = sender[t].roster
        /\ new.got = sender[t].got \cup {sender[t].at} /\ new.todo = sender[t].todo
    BY <2>1, <2>2, Zenon DEF SenderRecord
  <2> HIDE DEF new
  <2>5. /\ new.roster \cap fresh = {}
        /\ new.roster \cap active \subseteq new.todo \cup new.got \cup {new.at}
    BY <1>0, <2>4 DEF Accounted
  <2>6. sender' \in [Senders -> SenderRecord] /\ Accounted'
    BY <1>0, <2>1, <2>3, <2>4, <2>5, SenderSteps, Zenon
  <2> QED BY <1>0, <2>1, <2>6 DEF WsInv, WsShape, TablesAgree
<1>10. ASSUME NEW t \in Senders, SendRaised(t) PROVE WsInv'
  <2> DEFINE new == [sender[t] EXCEPT !.at = NoClient]
  <2> DEFINE c == sender[t].at
  <2>1. /\ c # NoClient /\ Removed(c) /\ UNCHANGED <<fresh, channelsOf>>
        /\ sender' = [sender EXCEPT ![t] = new]
    BY <1>10 DEF SendRaised, AfterFailure
  <2>2. sender[t] \in SenderRecord /\ c \in Clients
    BY <1>0, <2>1 DEF WsShape, SenderRecord
  <2>3. /\ active' = active \ {c} /\ subscribers' \in [Channels -> SUBSET Clients]
        /\ TablesAgree'
    BY <1>0, <2>1, <2>2, RemovedAgree
  <2>4. /\ new \in SenderRecord /\ new.roster = sender[t].roster
        /\ new.got = sender[t].got /\ new.todo = sender[t].todo
    BY <2>2 DEF SenderRecord
  <2> HIDE DEF new
  <2>5. /\ new.roster \cap fresh = {}
        /\ new.roster \cap active' \subseteq new.todo \cup new.got \cup {new.at}
    BY <1>0, <2>3, <2>4 DEF Accounted
  <2>6. sender' \in [Senders -> SenderRecord] /\ Accounted'
    BY <1>0, <2>1, <2>3, <2>4, <2>5, SenderSteps, Zenon
  <2> QED BY <1>0, <2>1, <2>3, <2>6 DEF WsInv, WsShape
<1>11. CASE UNCHANGED wsVars
  BY <1>11 DEF wsVars, WsInv, WsShape, TablesAgree, Accounted
<1> QED BY <1>1, <1>2, <1>3, <1>4, <1>6, <1>7, <1>8, <1>9, <1>10, <1>11 DEF WsNext

(* The two tables agree, and a message to many misses only clients that have gone,
   for any clients, channels and senders: an id connects once, so whoever is still
   here was never dropped by a send of another. *)
THEOREM PushReachesThePresent == WsSpec => []MissesOnlyTheGone
<1>1. WsInit => WsInv
  BY DEF WsInit, WsInv, WsShape, SenderRecord, TablesAgree, Accounted
<1>2. WsInv => MissesOnlyTheGone
  BY DEF WsInv, Accounted, MissesOnlyTheGone
<1> QED BY <1>1, <1>2, WsStep, PTL DEF WsSpec
----------------------------------------------------------------------------
(* HealthChecks: the ages of what is reported. *)

Checked == [status : Statuses, age : Nat]
Tables(parts) == UNION {[some -> Checked] : some \in SUBSET parts}
CallRecord == [asked : SUBSET Parts, elapsed : 0..CheckTimeout, results : Tables(Parts)]
ReportRecord ==
  [overall : Statuses, ages : UNION {[some -> Nat] : some \in SUBSET Parts}, known : SUBSET Parts]

HealthShape ==
  /\ registered \subseteq Parts
  /\ health \in [registered -> Checked]
  /\ call \in [Callers -> CallRecord]
  /\ report \in [Callers -> ReportRecord]

(* A check asks components that are registered, and no result of it is older than
   it is itself; between checks nothing of the last one is left. *)
CallsSound ==
  \A c \in Callers :
    /\ call[c].asked \subseteq registered
    /\ DOMAIN call[c].results \subseteq call[c].asked
    /\ \A n \in DOMAIN call[c].results : call[c].results[n].age <= call[c].elapsed
    /\ call[c].asked = {} => call[c] = Idle

HealthInv == HealthShape /\ CallsSound /\ ReportsAreRecent

LEMMA HealthConstants ==
  /\ CheckTimeout \in Nat /\ StaleAfter \in Nat /\ CheckTimeout <= StaleAfter /\ Never \in Nat
  /\ Never > StaleAfter /\ Builtin \subseteq Parts /\ Answers \subseteq Statuses /\ CheckTimeout > 0
BY HealthAssumption DEF Never

LEMMA NothingYet ==
  /\ << >> \in Tables(Parts) /\ DOMAIN << >> = {}
  /\ Idle \in CallRecord /\ NoReport \in ReportRecord /\ Unchecked \in Checked
<1>1. << >> \in [{} -> Checked] /\ << >> \in [{} -> Nat] /\ DOMAIN << >> = {}
  OBVIOUS
<1>2. << >> \in Tables(Parts)
  BY <1>1 DEF Tables
<1>3. Idle \in CallRecord
  BY <1>2, HealthConstants DEF Idle, CallRecord
<1>4. NoReport \in ReportRecord
  BY <1>1 DEF NoReport, ReportRecord, Statuses
<1>5. Unchecked \in Checked
  BY HealthConstants DEF Unchecked, Checked, Statuses
<1> QED BY <1>1, <1>2, <1>3, <1>4, <1>5

(* What a report says of a table. *)
LEMMA ReportedTyped ==
  ASSUME NEW parts \in SUBSET Parts, NEW table \in [parts -> Checked], NEW known \in SUBSET Parts
  PROVE  /\ Reported(table, known) \in ReportRecord
         /\ Reported(table, known).known = known
         /\ \A n \in parts : Reported(table, known).ages[n] = table[n].age
<1>1. Overall(table) \in Statuses
  BY DEF Overall, Statuses
<1>2. [n \in DOMAIN table |-> table[n].age] \in [parts -> Nat]
  BY DEF Checked
<1>3. [n \in DOMAIN table |-> table[n].age] \in UNION {[some -> Nat] : some \in SUBSET Parts}
  BY <1>2
<1> QED BY <1>1, <1>3 DEF Reported, ReportRecord

(* A call's new record, and everyone else's as before. *)
LEMMA CallMoves ==
  ASSUME HealthInv, NEW c \in Callers, NEW new \in CallRecord,
         call' = [call EXCEPT ![c] = new], UNCHANGED <<registered, health, report>>,
         new.asked \subseteq registered, DOMAIN new.results \subseteq new.asked,
         \A n \in DOMAIN new.results : new.results[n].age <= new.elapsed,
         new.asked = {} => new = Idle
  PROVE  HealthInv'
<1>1. HealthShape'
  BY DEF HealthInv, HealthShape
<1>2. CallsSound'
  BY DEF HealthInv, HealthShape, CallsSound
<1>3. ReportsAreRecent'
  BY DEF HealthInv, ReportsAreRecent
<1> QED BY <1>1, <1>2, <1>3 DEF HealthInv

LEMMA CallTyped ==
  ASSUME HealthInv, NEW c \in Callers
  PROVE  /\ call[c] \in CallRecord /\ call[c].asked \subseteq registered
         /\ call[c].elapsed \in 0..CheckTimeout
         /\ DOMAIN call[c].results \subseteq call[c].asked
         /\ call[c].results \in [DOMAIN call[c].results -> Checked]
         /\ \A n \in DOMAIN call[c].results : call[c].results[n].age <= call[c].elapsed
         /\ call[c].asked = {} => call[c] = Idle
<1>1. call[c] \in CallRecord
  BY DEF HealthInv, HealthShape
<1>2. call[c].results \in Tables(Parts)
  BY <1>1 DEF CallRecord
<1>3. call[c].results \in [DOMAIN call[c].results -> Checked]
  BY <1>2 DEF Tables
<1>4. /\ call[c].asked \subseteq registered
      /\ DOMAIN call[c].results \subseteq call[c].asked
      /\ \A n \in DOMAIN call[c].results : call[c].results[n].age <= call[c].elapsed
      /\ call[c].asked = {} => call[c] = Idle
  BY DEF HealthInv, CallsSound
<1> QED BY <1>1, <1>3, <1>4 DEF CallRecord

LEMMA ResultMoves ==
  ASSUME HealthInv, NEW c \in Callers, NEW n \in Unanswered(c), NEW status \in Statuses,
         Result(c, n, status), UNCHANGED <<registered, health, report>>
  PROVE  HealthInv'
<1> DEFINE old == call[c].results
<1> DEFINE results == [m \in DOMAIN old \cup {n} |->
                         IF m = n THEN [status |-> status, age |-> 0] ELSE old[m]]
<1> DEFINE new == [asked |-> call[c].asked, elapsed |-> call[c].elapsed, results |-> results]
<1>1. call' = [call EXCEPT ![c].results = results]
  BY DEF Result, HealthInv, HealthShape
<1>2. /\ n \in call[c].asked /\ call[c].asked \in SUBSET Parts /\ call[c] \in CallRecord
      /\ call[c].elapsed \in 0..CheckTimeout /\ DOMAIN old \subseteq call[c].asked
      /\ old \in [DOMAIN old -> Checked]
      /\ \A m \in DOMAIN old : old[m].age <= call[c].elapsed
      /\ call[c].asked \subseteq registered
  BY CallTyped DEF Unanswered, HealthInv, HealthShape
<1>3. results \in [DOMAIN old \cup {n} -> Checked]
  BY <1>2 DEF Checked
<1>4. DOMAIN old \cup {n} \in SUBSET Parts
  BY <1>2
<1>5. results \in Tables(Parts) /\ DOMAIN results = DOMAIN old \cup {n}
  BY <1>3, <1>4, Zenon DEF Tables
<1>6. \A m \in DOMAIN results : results[m].age <= call[c].elapsed
  BY <1>2, <1>3
<1> HIDE DEF results, old
<1>7. new \in CallRecord /\ new.asked = call[c].asked /\ new.elapsed = call[c].elapsed
      /\ new.results = results
  BY <1>2, <1>5 DEF CallRecord
<1>8. call' = [call EXCEPT ![c] = new]
  <2>1. call \in [Callers -> CallRecord] /\ call[c] \in CallRecord
    BY <1>2 DEF HealthInv, HealthShape
  <2>2. [call[c] EXCEPT !.results = results] = new
    BY <2>1 DEF CallRecord
  <2>3. call' = [call EXCEPT ![c] = [call[c] EXCEPT !.results = results]]
    BY <1>1, <2>1
  <2> QED BY <2>2, <2>3, Zenon
<1> HIDE DEF new
<1> QED BY <1>2, <1>5, <1>6, <1>7, <1>8, CallMoves, Zenon

(* A check of all that is registered begins. *)
LEMMA CheckStarts ==
  ASSUME HealthInv, NEW c \in Callers, ~Asking(c), registered # {}, Starts(c),
         UNCHANGED <<registered, health, report>>
  PROVE  HealthInv'
<1> DEFINE new == [asked |-> registered, elapsed |-> 0, results |-> << >>]
<1>1. call[c] = Idle /\ call[c] \in CallRecord
  BY CallTyped DEF Asking
<1>2. call' = [call EXCEPT ![c] = [call[c] EXCEPT !.asked = registered]]
  BY DEF Starts, HealthInv, HealthShape
<1>3. [call[c] EXCEPT !.asked = registered] = new
  BY <1>1 DEF Idle
<1>4. /\ new \in CallRecord /\ new.asked = registered /\ new.elapsed = 0
      /\ DOMAIN new.results = {}
  BY NothingYet, HealthConstants DEF CallRecord, HealthInv, HealthShape
<1>5. call' = [call EXCEPT ![c] = new]
  BY <1>2, <1>3, Zenon
<1> HIDE DEF new
<1> QED BY <1>4, <1>5, CallMoves, Zenon

LEMMA CollectMoves ==
  ASSUME HealthInv, NEW c \in Callers, Collect(c)
  PROVE  HealthInv'
<1> DEFINE asked == call[c].asked
<1> DEFINE results == call[c].results
<1>1. /\ asked \subseteq DOMAIN results /\ registered' = registered
      /\ health' = [n \in registered |-> IF n \in asked THEN results[n] ELSE health[n]]
      /\ report' = [report EXCEPT ![c] = Reported(health', asked)]
      /\ call' = [call EXCEPT ![c] = Idle]
  BY DEF Collect, Unanswered
<1>2. /\ asked \subseteq registered /\ results \in [DOMAIN results -> Checked]
      /\ registered \in SUBSET Parts /\ health \in [registered -> Checked]
      /\ \A n \in DOMAIN results : results[n].age <= call[c].elapsed
      /\ call[c].elapsed \in 0..CheckTimeout
  BY CallTyped DEF HealthInv, HealthShape
<1> HIDE DEF asked, results
<1>3. health' \in [registered -> Checked]
  BY <1>1, <1>2
<1>4. asked \in SUBSET Parts
  BY <1>2
<1>5. /\ Reported(health', asked) \in ReportRecord
      /\ Reported(health', asked).known = asked
      /\ \A n \in registered : Reported(health', asked).ages[n] = health'[n].age
  BY <1>2, <1>3, <1>4, ReportedTyped
<1>6. \A n \in asked : health'[n].age <= StaleAfter
  <2> SUFFICES ASSUME NEW n \in asked PROVE health'[n].age <= StaleAfter
    OBVIOUS
  <2>1. health'[n] = results[n] /\ n \in DOMAIN results
    BY <1>1, <1>2
  <2>2. results[n].age \in Nat /\ results[n].age <= call[c].elapsed
    BY <1>2, <2>1 DEF Checked
  <2> QED BY <1>2, <2>1, <2>2, HealthConstants
<1>7. HealthShape'
  BY <1>1, <1>3, <1>5, NothingYet DEF HealthInv, HealthShape
<1>8. CallsSound'
  <2>1. DOMAIN Idle.results = {} /\ Idle.asked = {}
    BY NothingYet DEF Idle
  <2> QED BY <1>1, <2>1 DEF HealthInv, HealthShape, CallsSound
<1>9. ReportsAreRecent'
  <2> SUFFICES ASSUME NEW d \in Callers, NEW n \in report'[d].known
               PROVE  report'[d].ages[n] <= StaleAfter
    BY DEF ReportsAreRecent
  <2>1. CASE d = c
    <3>1. report'[d] = Reported(health', asked)
      BY <1>1, <2>1 DEF HealthInv, HealthShape
    <3>2. n \in asked /\ report'[d].ages[n] = health'[n].age
      BY <1>2, <1>5, <3>1
    <3> QED BY <1>6, <3>2
  <2>2. CASE d # c
    <3>1. report'[d] = report[d]
      BY <1>1, <2>2 DEF HealthInv, HealthShape
    <3> QED BY <3>1 DEF HealthInv, ReportsAreRecent
  <2> QED BY <2>1, <2>2
<1> QED BY <1>7, <1>8, <1>9 DEF HealthInv

(* Time passes while no check is past its timeout. *)
LEMMA TimeMoves ==
  ASSUME HealthInv, PassTime
  PROVE  HealthInv'
<1>1. /\ registered' = registered
      /\ health' = [n \in registered |-> Older(health[n])]
      /\ report' = [c \in Callers |-> NoReport]
      /\ call' = [c \in Callers |->
                    IF Asking(c)
                    THEN [asked |-> call[c].asked, elapsed |-> call[c].elapsed + 1,
                          results |-> [n \in DOMAIN call[c].results |-> Older(call[c].results[n])]]
                    ELSE Idle]
  BY DEF PassTime
<1>2. \A r \in Checked : /\ Older(r) \in Checked
                         /\ Older(r).age <= r.age + 1
  <2> SUFFICES ASSUME NEW r \in Checked PROVE Older(r) \in Checked /\ Older(r).age <= r.age + 1
    OBVIOUS
  <2> DEFINE age == IF r.age < Never THEN r.age + 1 ELSE r.age
  <2>1. Older(r) = [r EXCEPT !.age = age]
    BY DEF Older
  <2>2. r.age \in Nat /\ age \in Nat /\ age <= r.age + 1
    BY DEF Checked
  <2> HIDE DEF age
  <2> QED BY <2>1, <2>2 DEF Checked
<1>3. ASSUME NEW c \in Callers, Asking(c)
      PROVE  /\ call'[c] \in CallRecord /\ call'[c].asked = call[c].asked
             /\ call[c].asked # {}
             /\ DOMAIN call'[c].results = DOMAIN call[c].results
             /\ \A n \in DOMAIN call'[c].results : call'[c].results[n].age <= call'[c].elapsed
  <2> DEFINE old == call[c].results
  <2> DEFINE results == [n \in DOMAIN old |-> Older(old[n])]
  <2>1. call'[c] = [asked |-> call[c].asked, elapsed |-> call[c].elapsed + 1, results |-> results]
    BY <1>1, <1>3
  <2>2. /\ old \in [DOMAIN old -> Checked] /\ DOMAIN old \subseteq call[c].asked
        /\ call[c].asked \in SUBSET Parts /\ call[c].asked \subseteq registered
        /\ call[c].elapsed \in 0..CheckTimeout
        /\ \A n \in DOMAIN old : old[n].age <= call[c].elapsed
    BY CallTyped DEF HealthInv, HealthShape
  <2>3. call[c].elapsed < CheckTimeout
    BY <1>3 DEF PassTime, Asking
  <2>4. call[c].elapsed + 1 \in 0..CheckTimeout
    BY <2>2, <2>3, HealthConstants
  <2>5. results \in [DOMAIN old -> Checked] /\ DOMAIN results = DOMAIN old
    BY <1>2, <2>2
  <2>6. DOMAIN old \in SUBSET Parts
    BY <2>2
  <2>7. results \in Tables(Parts)
    BY <2>5, <2>6 DEF Tables
  <2>8. \A n \in DOMAIN results : results[n].age <= call[c].elapsed + 1
    <3> SUFFICES ASSUME NEW n \in DOMAIN old PROVE results[n].age <= call[c].elapsed + 1
      BY <2>5
    <3>1. results[n] = Older(old[n]) /\ old[n] \in Checked /\ old[n].age <= call[c].elapsed
      BY <2>2
    <3>2. Older(old[n]).age <= old[n].age + 1 /\ Older(old[n]).age \in Nat /\ old[n].age \in Nat
      BY <1>2, <3>1 DEF Checked
    <3> QED BY <2>2, <3>1, <3>2
  <2> HIDE DEF results, old
  <2> QED BY <1>3, <2>1, <2>2, <2>4, <2>5, <2>7, <2>8 DEF CallRecord, Asking, old
<1>4. ASSUME NEW c \in Callers, ~Asking(c) PROVE call'[c] = Idle
  BY <1>1, <1>4
<1>5. HealthShape'
  <2>1. \A c \in Callers : call'[c] \in CallRecord
    BY <1>3, <1>4, NothingYet
  <2>2. call' \in [Callers -> CallRecord]
    BY <1>1, <2>1
  <2>3. health' \in [registered -> Checked]
    BY <1>1, <1>2 DEF HealthInv, HealthShape
  <2> QED BY <1>1, <2>2, <2>3, NothingYet DEF HealthInv, HealthShape
<1>6. CallsSound'
  <2> SUFFICES ASSUME NEW c \in Callers
               PROVE  /\ call'[c].asked \subseteq registered
                      /\ DOMAIN call'[c].results \subseteq call'[c].asked
                      /\ \A n \in DOMAIN call'[c].results : call'[c].results[n].age <= call'[c].elapsed
                      /\ call'[c].asked = {} => call'[c] = Idle
    BY <1>1, Zenon DEF CallsSound
  <2>1. CASE Asking(c)
    BY <1>3, <2>1, CallTyped
  <2>2. CASE ~Asking(c)
    <3>1. DOMAIN Idle.results = {} /\ Idle.asked = {}
      BY NothingYet DEF Idle
    <3> QED BY <1>4, <2>2, <3>1
  <2> QED BY <2>1, <2>2
<1>7. ReportsAreRecent'
  BY <1>1 DEF ReportsAreRecent, NoReport
<1> QED BY <1>5, <1>6, <1>7 DEF HealthInv

LEMMA HealthStep == HealthInv /\ [HealthNext]_healthVars => HealthInv'
<1> SUFFICES ASSUME HealthInv, [HealthNext]_healthVars PROVE HealthInv'
  OBVIOUS
<1>1. ASSUME NEW n \in Parts, Register(n) PROVE HealthInv'
  <2>1. /\ registered' = registered \cup {n}
        /\ health' = [m \in registered' |-> IF m = n THEN Unchecked ELSE health[m]]
        /\ UNCHANGED <<call, report>>
    BY <1>1 DEF Register
  <2>2. HealthShape'
    BY <2>1, NothingYet DEF HealthInv, HealthShape
  <2>3. CallsSound'
    BY <2>1 DEF HealthInv, CallsSound
  <2>4. ReportsAreRecent'
    BY <2>1 DEF HealthInv, ReportsAreRecent
  <2> QED BY <2>2, <2>3, <2>4 DEF HealthInv
<1>2. ASSUME NEW c \in Callers, ReadStatus(c) PROVE HealthInv'
  <2>1. CASE Stale(health)
    <3>1. /\ ~Asking(c) /\ registered # {} /\ Starts(c)
          /\ UNCHANGED <<registered, health, report>>
      BY <1>2, <2>1 DEF ReadStatus
    <3> QED BY <3>1, CheckStarts
  <2>2. CASE ~Stale(health)
    <3>1. /\ report' = [report EXCEPT ![c] = Reported(health, registered)]
          /\ UNCHANGED <<registered, health, call>>
      BY <1>2, <2>2 DEF ReadStatus
    <3>2. health \in [registered -> Checked] /\ registered \in SUBSET Parts
      BY DEF HealthInv, HealthShape
    <3>3. /\ Reported(health, registered) \in ReportRecord
          /\ Reported(health, registered).known = registered
          /\ \A n \in registered : Reported(health, registered).ages[n] = health[n].age
      BY <3>2, ReportedTyped
    <3>4. \A n \in registered : health[n].age <= StaleAfter
      BY <2>2, <3>2, HealthConstants DEF Stale, Checked
    <3>5. HealthShape' /\ CallsSound'
      BY <3>1, <3>3 DEF HealthInv, HealthShape, CallsSound
    <3>6. ReportsAreRecent'
      BY <3>1, <3>3, <3>4 DEF HealthInv, HealthShape, ReportsAreRecent
    <3> QED BY <3>5, <3>6 DEF HealthInv
  <2> QED BY <2>1, <2>2
<1>3. ASSUME NEW c \in Callers, NEW n \in Parts, NEW status \in Answers, Answered(c, n, status)
      PROVE  HealthInv'
  BY <1>3, ResultMoves, HealthConstants DEF Answered
<1>4. ASSUME NEW c \in Callers, NEW n \in Parts, TimedOut(c, n) PROVE HealthInv'
  BY <1>4, ResultMoves DEF TimedOut, Statuses
<1>5. CASE LoopChecks
  BY <1>5, CheckStarts DEF LoopChecks, Callers
<1>6. CASE StopLoop
  <2>1. Idle \in CallRecord /\ Idle.asked = {} /\ DOMAIN Idle.results = {}
    BY NothingYet DEF Idle
  <2>2. Loop \in Callers
    BY DEF Callers
  <2> QED BY <1>6, <2>1, <2>2, CallMoves, Zenon DEF StopLoop
<1>7. CASE StartLoop \/ UNCHANGED healthVars
  BY <1>7 DEF StartLoop, healthVars, HealthInv, HealthShape, CallsSound, ReportsAreRecent
<1> QED BY <1>1, <1>2, <1>3, <1>4, <1>5, <1>6, <1>7, CollectMoves, TimeMoves DEF HealthNext

(* No report passes off an old result as the present state, for any components,
   readers and periods whose timeout is within the age they allow: whichever checks
   overlap, what a check writes is no older than the check. *)
THEOREM HealthReportsAreRecent == HealthSpec => []ReportsAreRecent
<1>1. HealthInit => HealthInv
  <2> SUFFICES ASSUME HealthInit PROVE HealthInv
    OBVIOUS
  <2>1. HealthShape
    BY NothingYet, HealthConstants DEF HealthInit, HealthShape
  <2>2. CallsSound
    <3>1. DOMAIN Idle.results = {} /\ Idle.asked = {}
      BY NothingYet DEF Idle
    <3> QED BY <3>1 DEF HealthInit, CallsSound
  <2>3. ReportsAreRecent
    BY DEF HealthInit, ReportsAreRecent, NoReport
  <2> QED BY <2>1, <2>2, <2>3 DEF HealthInv
<1>2. HealthInv => ReportsAreRecent
  BY DEF HealthInv
<1> QED BY <1>1, <1>2, HealthStep, PTL DEF HealthSpec

----------------------------------------------------------------------------
(* OrderMatcher: levels. *)

\* The smaller of two quantities.
LEMMA LeastOfTwo ==
  ASSUME NEW a \in Nat \ {0}, NEW b \in Nat \ {0}
  PROVE  Min({a, b}) \in Nat \ {0} /\ Min({a, b}) <= a /\ Min({a, b}) <= b
<1>1. \E x \in {a, b} : \A y \in {a, b} : x <= y
  OBVIOUS
<1>2. Min({a, b}) \in {a, b} /\ \A y \in {a, b} : Min({a, b}) <= y
  BY <1>1 DEF Min
<1>. QED
  BY <1>2

\* A sequence without its i-th element.
LEMMA Removal ==
  ASSUME NEW S, NEW s \in Seq(S), NEW i \in 1..Len(s)
  PROVE  /\ RemoveAt(s, i) \in Seq(S)
         /\ Len(RemoveAt(s, i)) = Len(s) - 1
         /\ \A j \in 1..(Len(s) - 1) : RemoveAt(s, i)[j] = s[IF j < i THEN j ELSE j + 1]
<1>. DEFINE front == SubSeq(s, 1, i - 1)
            back  == SubSeq(s, i + 1, Len(s))
<1>1. Len(s) \in Nat
  OBVIOUS
<1>2. /\ front \in Seq(S) /\ Len(front) = i - 1
      /\ \A j \in 1..(i - 1) : front[j] = s[j]
  BY <1>1
<1>3. /\ back \in Seq(S) /\ Len(back) = Len(s) - i
      /\ \A j \in 1..(Len(s) - i) : back[j] = s[i + j]
  BY <1>1
<1>4. RemoveAt(s, i) = front \o back
  BY DEF RemoveAt
<1>. HIDE DEF front, back
<1>5. /\ front \o back \in Seq(S) /\ Len(front \o back) = Len(s) - 1
      /\ \A j \in 1..(Len(s) - 1) :
           (front \o back)[j] = IF j <= i - 1 THEN front[j] ELSE back[j - (i - 1)]
  <2>1. /\ front \o back \in Seq(S) /\ Len(front \o back) = Len(front) + Len(back)
        /\ \A j \in 1..(Len(front) + Len(back)) :
             (front \o back)[j] = IF j <= Len(front) THEN front[j] ELSE back[j - Len(front)]
    BY <1>2, <1>3, ConcatProperties, Zenon
  <2>2. Len(front) + Len(back) = Len(s) - 1
    BY <1>1, <1>2, <1>3
  <2>. QED
    BY <1>2, <2>1, <2>2
<1>6. ASSUME NEW j \in 1..(Len(s) - 1)
      PROVE  (front \o back)[j] = s[IF j < i THEN j ELSE j + 1]
  <2>1. CASE j < i
    BY <1>1, <1>2, <1>5, <2>1
  <2>2. CASE j >= i
    <3>1. j - (i - 1) \in 1..(Len(s) - i) /\ i + (j - (i - 1)) = j + 1
      BY <1>1, <2>2
    <3>2. back[j - (i - 1)] = s[j + 1]
      BY <1>3, <3>1
    <3>. QED
      BY <1>1, <1>5, <2>2, <3>2
  <2>3. j < i \/ j >= i
    BY <1>1
  <2>. QED
    BY <2>1, <2>2, <2>3, Zenon
<1>. QED
  BY <1>4, <1>5, <1>6

\* Where the j-th of what is left of a level stood in it.
Stood(i, left, j) == IF left = 0 /\ j >= i THEN j + 1 ELSE j

LEMMA LeftOver ==
  ASSUME NEW S, NEW level \in Seq(S), NEW i \in DOMAIN level, NEW left \in Int,
         NEW rest, rest = Left(level, i, left)
  PROVE  /\ rest \in Seq(S) /\ Len(rest) <= Len(level)
         /\ \A j \in DOMAIN rest :
              /\ Stood(i, left, j) \in DOMAIN level
              /\ rest[j] = level[Stood(i, left, j)]
              /\ left = 0 => Stood(i, left, j) # i
         /\ \A j, k \in DOMAIN rest : j < k => Stood(i, left, j) < Stood(i, left, k)
<1>1. Len(level) \in Nat /\ DOMAIN level = 1..Len(level)
  OBVIOUS
<1>2. CASE left = 0
  <2>1. /\ rest \in Seq(S) /\ Len(rest) = Len(level) - 1
        /\ \A j \in 1..(Len(level) - 1) : rest[j] = level[IF j < i THEN j ELSE j + 1]
    BY <1>1, <1>2, Removal, Zenon DEF Left
  <2>2. DOMAIN rest = 1..(Len(level) - 1)
    BY <2>1
  <2>3. ASSUME NEW j \in DOMAIN rest
        PROVE  /\ Stood(i, left, j) \in DOMAIN level
               /\ rest[j] = level[Stood(i, left, j)]
               /\ Stood(i, left, j) # i
    <3>1. Stood(i, left, j) = IF j < i THEN j ELSE j + 1
      <4>1. j < i <=> ~(j >= i)
        BY <1>1, <2>2
      <4>. QED
        BY <1>2, <4>1, Zenon DEF Stood
    <3>2. rest[j] = level[Stood(i, left, j)]
      BY <2>1, <2>2, <3>1
    <3>3. Stood(i, left, j) \in 1..Len(level) /\ Stood(i, left, j) # i
      BY <1>1, <2>2, <3>1
    <3>. QED
      BY <1>1, <3>2, <3>3
  <2>4. \A j, k \in DOMAIN rest : j < k => Stood(i, left, j) < Stood(i, left, k)
    BY <1>1, <2>2 DEF Stood
  <2>. QED
    BY <1>1, <2>1, <2>3, <2>4
<1>3. CASE left # 0
  BY <1>1, <1>3 DEF Left, Stood
<1>. QED
  BY <1>2, <1>3

\* A level in the order of arrival.
InOrder(level) == \A i, j \in 1..Len(level) : i < j => level[i] < level[j]

\* What is left of a level that is in the order of arrival: orders of it, in that
\* order, without the filled one.
LEMMA LeftInOrder ==
  ASSUME TypeOK, NEW level \in Seq(Added), NEW i \in 1..Len(level), NEW left \in Int,
         InOrder(level),
         NEW rest, rest = Left(level, i, left)
  PROVE  /\ rest \in Seq(Added) /\ Len(rest) <= Len(level) /\ InOrder(rest)
         /\ \A j \in 1..Len(rest) :
              \E k \in 1..Len(level) : rest[j] = level[k] /\ (left = 0 => level[k] # level[i])
<1>1. /\ rest \in Seq(Added) /\ Len(rest) <= Len(level)
      /\ \A j \in DOMAIN rest :
           /\ Stood(i, left, j) \in DOMAIN level
           /\ rest[j] = level[Stood(i, left, j)]
           /\ left = 0 => Stood(i, left, j) # i
      /\ \A j, k \in DOMAIN rest : j < k => Stood(i, left, j) < Stood(i, left, k)
  <2>1. i \in DOMAIN level
    OBVIOUS
  <2>. QED
    BY <2>1, LeftOver
<1>2. DOMAIN rest = 1..Len(rest) /\ DOMAIN level = 1..Len(level)
  BY <1>1
<1>3. InOrder(rest)
  <2>. SUFFICES ASSUME NEW j \in 1..Len(rest), NEW k \in 1..Len(rest), j < k
                PROVE  rest[j] < rest[k]
    BY DEF InOrder
  <2>1. /\ Stood(i, left, j) \in 1..Len(level) /\ rest[j] = level[Stood(i, left, j)]
        /\ Stood(i, left, k) \in 1..Len(level) /\ rest[k] = level[Stood(i, left, k)]
        /\ Stood(i, left, j) < Stood(i, left, k)
    BY <1>1, <1>2
  <2>. QED
    BY <2>1 DEF InOrder
<1>4. ASSUME NEW j \in 1..Len(rest)
      PROVE  \E k \in 1..Len(level) : rest[j] = level[k] /\ (left = 0 => level[k] # level[i])
  <2>. DEFINE k == Stood(i, left, j)
  <2>1. k \in 1..Len(level) /\ rest[j] = level[k] /\ (left = 0 => k # i)
    BY <1>1, <1>2
  <2>. HIDE DEF k
  <2>2. k # i => level[k] # level[i]
    <3>1. level[k] \in Nat /\ level[i] \in Nat
      <4>1. level[k] \in Added /\ level[i] \in Added
        BY <2>1
      <4>. QED
        BY <4>1 DEF TypeOK, Added
    <3>2. k # i => level[k] < level[i] \/ level[i] < level[k]
      BY <2>1 DEF InOrder
    <3>. QED
      BY <2>1, <3>1, <3>2
  <2>. QED
    BY <2>1, <2>2
<1>. QED
  BY <1>1, <1>3, <1>4

\* One level of one book changes.
LEMMA LevelSet ==
  ASSUME NEW S, book \in [Shards -> [Sides -> [Prices -> Seq(S)]]],
         NEW sh \in Shards, NEW side \in Sides, NEW p \in Prices, NEW level \in Seq(S),
         book' = [book EXCEPT ![sh][side][p] = level]
  PROVE  /\ book' \in [Shards -> [Sides -> [Prices -> Seq(S)]]]
         /\ \A s \in Shards, d \in Sides, q \in Prices :
              book'[s][d][q] = IF s = sh /\ d = side /\ q = p THEN level ELSE book[s][d][q]
<1>. DEFINE L == Seq(S)
<1>1. book \in [Shards -> [Sides -> [Prices -> L]]] /\ level \in L
  OBVIOUS
<1>. HIDE DEF L
<1>2. book' \in [Shards -> [Sides -> [Prices -> L]]]
  BY <1>1
<1>3. \A s \in Shards, d \in Sides, q \in Prices :
        book'[s][d][q] = IF s = sh /\ d = side /\ q = p THEN level ELSE book[s][d][q]
  BY <1>1
<1>. QED
  BY <1>2, <1>3 DEF L

----------------------------------------------------------------------------
(* OrderMatcher: what stands in the books. *)

\* An order in a level waits for something and is of its shard, side and price; the
\* order being matched came after it.
Stands(id, sh, side, p) ==
  /\ Home(id) = sh /\ orders[id].side = side /\ orders[id].price = p
  /\ remaining[id] > 0
  /\ ~Free(sh) => id < taker[sh]

Placed ==
  \A sh \in Shards, side \in Sides, p \in Prices :
    /\ InOrder(Level(sh, side, p))
    /\ \A i \in 1..Len(Level(sh, side, p)) : Stands(Level(sh, side, p)[i], sh, side, p)

\* Only a shard that matches has fills to give, to orders of its own.
Matching ==
  /\ \A sh \in Shards :
       /\ Free(sh) => fills[sh] = None
       /\ ~Free(sh) => Home(taker[sh]) = sh
       /\ \A id \in Ids : fills[sh][id] > 0 => id \in Added /\ Home(id) = sh
  /\ \A id \in Ids : reported[id] > 0 => id \in Added

MatcherInv == TypeOK /\ Placed /\ Matching

LEMMA CountTyped ==
  ASSUME TypeOK
  PROVE  count \in Nat /\ MaxOrders \in Nat /\ MaxDepth \in Nat /\ Added \subseteq Ids
BY BooksAssumption DEF TypeOK, Added, Ids

\* An order that has come knows its shard.
LEMMA OrderTyped ==
  ASSUME TypeOK, NEW id \in Added
  PROVE  /\ orders[id] \in Order /\ Home(id) \in Shards
         /\ orders[id].side \in Sides /\ Opposite(orders[id].side) \in Sides
         /\ orders[id].price \in Prices /\ orders[id].quantity \in Nat \ {0}
<1>1. orders[id] \in Order
  BY DEF TypeOK
<1>. QED
  BY <1>1, BooksAssumption DEF Order, Home, Opposite, Sides

LEMMA TakerTyped ==
  ASSUME MatcherInv, NEW sh \in Shards, ~Free(sh)
  PROVE  taker[sh] \in Added /\ Taker(sh) = orders[taker[sh]]
BY CountTyped DEF MatcherInv, TypeOK, Free, Taker, Added

\* What an order that may be hit is.
LEMMA HitTyped ==
  ASSUME MatcherInv, NEW sh \in Shards, ~Free(sh), NEW p \in Prices, NEW i \in Places,
         MayHit(sh, p, i), NEW side, side = Opposite(Taker(sh).side),
         NEW maker, maker = Level(sh, side, p)[i]
  PROVE  /\ side \in Sides /\ Level(sh, side, p) \in Seq(Added)
         /\ i \in 1..Len(Level(sh, side, p)) /\ maker \in Added
         /\ Home(maker) = sh /\ orders[maker].price = p
         /\ remaining[maker] \in Nat \ {0} /\ maker < taker[sh]
         /\ prevention => orders[maker].user # Taker(sh).user
<1>1. side \in Sides
  BY TakerTyped, OrderTyped DEF MatcherInv
<1>2. Level(sh, side, p) \in Seq(Added)
  BY <1>1 DEF MatcherInv, TypeOK, Level
<1>3. i \in 1..Len(Level(sh, side, p)) /\ ~OwnMaker(Taker(sh), maker)
  BY <1>2 DEF MayHit
<1>4. maker \in Added
  BY <1>2, <1>3
<1>5. maker \in Ids /\ remaining[maker] \in Nat
  BY <1>4, CountTyped DEF MatcherInv, TypeOK
<1>6. /\ Home(maker) = sh /\ orders[maker].price = p
      /\ remaining[maker] > 0 /\ maker < taker[sh]
  BY <1>1, <1>3 DEF MatcherInv, Placed, Stands
<1>. QED
  BY <1>1, <1>2, <1>3, <1>4, <1>5, <1>6 DEF OwnMaker


\* A fill, seen from the level it is made in: so much goes from the maker to the
\* order being matched, and rest is what the level is left with.
Hit(sh, side, p, maker, qty, rest) ==
  LET t == taker[sh] IN
  /\ ~Free(sh) /\ Home(t) = sh
  /\ Home(maker) = sh /\ orders[maker].side = side /\ orders[maker].price = p
  /\ maker < t /\ qty <= remaining[t] /\ qty <= remaining[maker]
  /\ Len(rest) <= Len(Level(sh, side, p)) /\ InOrder(rest)
  /\ \A j \in 1..Len(rest) : \E k \in 1..Len(Level(sh, side, p)) :
       /\ rest[j] = Level(sh, side, p)[k]
       /\ qty = remaining[maker] => rest[j] # maker
  /\ remaining' = Moved(remaining, {t, maker}, -qty)
  /\ fills' = [fills EXCEPT ![sh] = Moved(fills[sh], {t, maker}, qty)]
  /\ book' = [book EXCEPT ![sh][side][p] = rest]
  /\ UNCHANGED <<count, orders, taker, reported, prevention>>

LEMMA HitParties ==
  ASSUME MatcherInv, NEW sh \in Shards, NEW side \in Sides, NEW p \in Prices,
         NEW maker \in Added, NEW qty \in Nat \ {0}, NEW rest \in Seq(Added),
         Hit(sh, side, p, maker, qty, rest)
  PROVE  /\ taker[sh] \in Added /\ taker[sh] \in Ids /\ maker \in Ids /\ maker # taker[sh]
         /\ remaining[taker[sh]] \in Nat /\ remaining[maker] \in Nat
         /\ qty <= remaining[taker[sh]] /\ qty <= remaining[maker]
<1>1. taker[sh] \in Added
  BY TakerTyped DEF Hit
<1>2. maker < taker[sh] /\ qty <= remaining[taker[sh]] /\ qty <= remaining[maker]
  BY DEF Hit
<1>4. /\ taker[sh] \in Ids /\ maker \in Ids /\ maker # taker[sh]
      /\ remaining[taker[sh]] \in Nat /\ remaining[maker] \in Nat
  <2>1. taker[sh] \in Ids /\ maker \in Ids
    BY <1>1, CountTyped DEF MatcherInv
  <2>. QED
    <3>1. remaining[taker[sh]] \in Nat /\ remaining[maker] \in Nat
      BY <2>1 DEF MatcherInv, TypeOK
    <3>2. taker[sh] \in Int /\ maker \in Int
      BY <2>1 DEF Ids
    <3>. QED
      BY <1>2, <2>1, <3>1, <3>2
<1>. QED
  BY <1>1, <1>2, <1>4

LEMMA HitAmounts ==
  ASSUME MatcherInv, NEW sh \in Shards, NEW side \in Sides, NEW p \in Prices,
         NEW maker \in Added, NEW qty \in Nat \ {0}, NEW rest \in Seq(Added),
         Hit(sh, side, p, maker, qty, rest)
  PROVE  /\ remaining' \in [Ids -> Nat]
         /\ \A id \in Ids : remaining'[id] =
              IF id \in {taker[sh], maker} THEN remaining[id] - qty ELSE remaining[id]
         /\ fills' \in [Shards -> [Ids -> Nat]]
         /\ \A s \in Shards \ {sh} : fills'[s] = fills[s]
         /\ \A id \in Ids : fills'[sh][id] =
              IF id \in {taker[sh], maker} THEN fills[sh][id] + qty ELSE fills[sh][id]
<1>. DEFINE t == taker[sh]
<1>4. /\ t \in Added /\ t \in Ids /\ maker \in Ids /\ maker # t
      /\ remaining[t] \in Nat /\ remaining[maker] \in Nat
      /\ qty <= remaining[t] /\ qty <= remaining[maker]
  BY HitParties
<1>2. /\ remaining' = Moved(remaining, {t, maker}, -qty)
      /\ fills' = [fills EXCEPT ![sh] = Moved(fills[sh], {t, maker}, qty)]
  BY DEF Hit
<1>. HIDE DEF t
<1>7. /\ remaining' \in [Ids -> Nat]
      /\ \A id \in Ids : remaining'[id] = IF id \in {t, maker} THEN remaining[id] - qty ELSE remaining[id]
  <2>1. remaining \in [Ids -> Nat] /\ qty \in Nat
    BY <1>2, <1>4 DEF MatcherInv, TypeOK
  <2>2. \A id \in Ids : remaining'[id] = IF id \in {t, maker} THEN remaining[id] - qty ELSE remaining[id]
    BY <1>2, <1>4, <2>1 DEF Moved
  <2>3. ASSUME NEW id \in Ids
        PROVE  remaining'[id] \in Nat
    <3>1. CASE id \in {t, maker}
      <4>1. remaining'[id] = remaining[id] - qty /\ remaining[id] \in Nat
        BY <2>1, <2>2, <3>1
      <4>2. qty <= remaining[id]
        BY <1>4, <3>1
      <4>. QED
        BY <4>1, <4>2
    <3>2. CASE id \notin {t, maker}
      BY <2>1, <2>2, <3>2
    <3>. QED
      BY <3>1, <3>2
  <2>4. \A id \in Ids : remaining'[id] \in Nat
    BY <2>3
  <2>5. DOMAIN remaining' = Ids /\ remaining' = [id \in Ids |-> remaining'[id]]
    BY <1>2, <1>4 DEF Moved
  <2>. QED
    BY <2>2, <2>4, <2>5
<1>8. /\ fills' \in [Shards -> [Ids -> Nat]]
      /\ \A s \in Shards \ {sh} : fills'[s] = fills[s]
      /\ \A id \in Ids : fills'[sh][id] = IF id \in {t, maker} THEN fills[sh][id] + qty ELSE fills[sh][id]
  <2>1. fills \in [Shards -> [Ids -> Nat]] /\ qty \in Nat
    BY <1>2, <1>4 DEF MatcherInv, TypeOK
  <2>2. Moved(fills[sh], {t, maker}, qty) \in [Ids -> Nat]
    BY <2>1 DEF Moved
  <2>3. /\ fills' \in [Shards -> [Ids -> Nat]]
        /\ \A s \in Shards \ {sh} : fills'[s] = fills[s]
        /\ fills'[sh] = Moved(fills[sh], {t, maker}, qty)
    BY <1>2, <1>4, <2>1, <2>2, Zenon
  <2>. QED
    BY <2>3 DEF Moved
<1>. QED
  BY <1>7, <1>8 DEF t

LEMMA HitLevels ==
  ASSUME MatcherInv, NEW sh \in Shards, NEW side \in Sides, NEW p \in Prices,
         NEW maker \in Added, NEW qty \in Nat \ {0}, NEW rest \in Seq(Added),
         Hit(sh, side, p, maker, qty, rest)
  PROVE  /\ book' \in [Shards -> [Sides -> [Prices -> Seq(Added)]]]
         /\ \A s \in Shards, d \in Sides, q \in Prices :
              Level(s, d, q)' = IF s = sh /\ d = side /\ q = p THEN rest ELSE Level(s, d, q)
<1>2. book' = [book EXCEPT ![sh][side][p] = rest]
  BY DEF Hit
<1>9. /\ book' \in [Shards -> [Sides -> [Prices -> Seq(Added)]]]
      /\ \A s \in Shards, d \in Sides, q \in Prices :
           Level(s, d, q)' = IF s = sh /\ d = side /\ q = p THEN rest ELSE Level(s, d, q)
  <2>1. book \in [Shards -> [Sides -> [Prices -> Seq(Added)]]]
    BY DEF MatcherInv, TypeOK
  <2>2. /\ book' \in [Shards -> [Sides -> [Prices -> Seq(Added)]]]
        /\ \A s \in Shards, d \in Sides, q \in Prices :
             book'[s][d][q] = IF s = sh /\ d = side /\ q = p THEN rest ELSE book[s][d][q]
    BY <1>2, <2>1, LevelSet
  <2>. QED
    BY <2>2 DEF Level
<1>. QED
  BY <1>9

LEMMA HitKeeps ==
  ASSUME MatcherInv, NEW sh \in Shards, NEW side \in Sides, NEW p \in Prices,
         NEW maker \in Added, NEW qty \in Nat \ {0}, NEW rest \in Seq(Added),
         Hit(sh, side, p, maker, qty, rest)
  PROVE  MatcherInv'
<1>. DEFINE t == taker[sh]
<1>. HIDE DEF t
<1>2. /\ ~Free(sh) /\ t = taker[sh] /\ Home(t) = sh
      /\ Home(maker) = sh /\ orders[maker].side = side /\ orders[maker].price = p
      /\ maker < t /\ qty <= remaining[t] /\ qty <= remaining[maker]
      /\ Len(rest) <= Len(Level(sh, side, p)) /\ InOrder(rest)
      /\ remaining' = Moved(remaining, {t, maker}, -qty)
      /\ fills' = [fills EXCEPT ![sh] = Moved(fills[sh], {t, maker}, qty)]
      /\ book' = [book EXCEPT ![sh][side][p] = rest]
      /\ UNCHANGED <<count, orders, taker, reported, prevention>>
  BY DEF Hit, t
<1>3. \A j \in 1..Len(rest) : \E k \in 1..Len(Level(sh, side, p)) :
        /\ rest[j] = Level(sh, side, p)[k]
        /\ qty = remaining[maker] => rest[j] # maker
  BY DEF Hit
<1>4. /\ t \in Added /\ t \in Ids /\ maker \in Ids /\ maker # t
      /\ remaining[t] \in Nat /\ remaining[maker] \in Nat
  BY HitParties, Zenon DEF t
<1>6. Added' = Added /\ \A id : Home(id)' = Home(id)
  BY <1>2 DEF Added, Home
<1>7. /\ remaining' \in [Ids -> Nat]
      /\ \A id \in Ids : remaining'[id] = IF id \in {t, maker} THEN remaining[id] - qty ELSE remaining[id]
  BY HitAmounts DEF t
<1>8. /\ fills' \in [Shards -> [Ids -> Nat]]
      /\ \A s \in Shards \ {sh} : fills'[s] = fills[s]
      /\ \A id \in Ids : fills'[sh][id] = IF id \in {t, maker} THEN fills[sh][id] + qty ELSE fills[sh][id]
  BY HitAmounts DEF t
<1>9. /\ book' \in [Shards -> [Sides -> [Prices -> Seq(Added)]]]
      /\ \A s \in Shards, d \in Sides, q \in Prices :
           Level(s, d, q)' = IF s = sh /\ d = side /\ q = p THEN rest ELSE Level(s, d, q)
  BY HitLevels
<1>10. \A s \in Shards, d \in Sides, q \in Prices : Len(Level(s, d, q)') <= MaxDepth
  <2>. SUFFICES ASSUME NEW s \in Shards, NEW d \in Sides, NEW q \in Prices
                PROVE  Len(Level(s, d, q)') <= MaxDepth
    OBVIOUS
  <2>1. Len(Level(sh, side, p)) <= MaxDepth /\ Len(Level(s, d, q)) <= MaxDepth
    BY <1>2, <1>4 DEF MatcherInv, TypeOK
  <2>2. Len(Level(sh, side, p)) \in Nat /\ Len(rest) \in Nat /\ MaxDepth \in Nat
    BY <1>2, <1>4, BooksAssumption
  <2>3. CASE s = sh /\ d = side /\ q = p
    <3>1. Level(s, d, q)' = rest
      BY <1>9, <2>3
    <3>. QED
      BY <1>2, <2>1, <2>2, <3>1
  <2>4. CASE ~(s = sh /\ d = side /\ q = p)
    <3>1. Level(s, d, q)' = Level(s, d, q)
      BY <1>9, <2>4
    <3>. QED
      BY <2>1, <3>1
  <2>. QED
    BY <2>3, <2>4
<1>11. TypeOK'
  BY <1>2, <1>6, <1>7, <1>8, <1>9, <1>10, Zenon DEF MatcherInv, TypeOK
<1>12. Placed'
  <2>. SUFFICES ASSUME NEW s \in Shards, NEW d \in Sides, NEW q \in Prices
                PROVE  /\ InOrder(Level(s, d, q)')
                       /\ \A j \in 1..Len(Level(s, d, q)') : Stands(Level(s, d, q)[j], s, d, q)'
    BY DEF Placed, InOrder
  <2>1. /\ Level(s, d, q) \in Seq(Added) /\ InOrder(Level(s, d, q))
        /\ \A j \in 1..Len(Level(s, d, q)) : Stands(Level(s, d, q)[j], s, d, q)
    <3>1. book[s][d][q] \in Seq(Added)
      BY DEF MatcherInv, TypeOK
    <3>. QED
      BY <3>1 DEF MatcherInv, Placed, Level
  <2>2. ASSUME NEW j \in 1..Len(Level(s, d, q)), NEW id, id = Level(s, d, q)[j]
        PROVE  id \in Ids /\ id # t
    <3>1. id \in Added
      BY <2>1, <2>2
    <3>2. id \in Ids
      BY <3>1, CountTyped DEF MatcherInv
    <3>3. id \in Nat /\ t \in Nat /\ Stands(id, s, d, q)
      BY <1>2, <1>4, <2>1, <2>2, <3>2 DEF Ids
    <3>4. (s = sh => id < t) /\ Home(id) = s
      BY <1>2, <3>3 DEF Stands
    <3>5. CASE s = sh
      BY <3>2, <3>3, <3>4, <3>5
    <3>6. CASE s # sh
      BY <1>2, <3>2, <3>4, <3>6
    <3>. QED
      BY <3>5, <3>6
  <2>3. ASSUME NEW j \in 1..Len(Level(s, d, q)), NEW id, id = Level(s, d, q)[j], id # maker
        PROVE  Stands(id, s, d, q)'
    <3>1. id \in Ids /\ id # t
      BY <2>2, <2>3
    <3>2. remaining'[id] = remaining[id]
      BY <1>7, <2>3, <3>1
    <3>3. Stands(id, s, d, q)
      BY <2>1, <2>3
    <3>. QED
      BY <1>2, <1>6, <3>2, <3>3 DEF Stands, Free
  <2>4. CASE s = sh /\ d = side /\ q = p
    <3>1. Level(s, d, q)' = rest /\ Level(s, d, q) = Level(sh, side, p)
      BY <1>9, <2>4
    <3>2. ASSUME NEW j \in 1..Len(rest), NEW id, id = rest[j]
          PROVE  Stands(id, s, d, q)'
      <4>1. PICK k \in 1..Len(Level(s, d, q)) :
              id = Level(s, d, q)[k] /\ (qty = remaining[maker] => id # maker)
        BY <1>3, <3>1, <3>2
      <4>2. CASE Level(s, d, q)[k] = maker
        <5>1. qty # remaining[maker] /\ remaining'[maker] = remaining[maker] - qty
          BY <1>2, <1>4, <1>7, <4>1, <4>2, Zenon
        <5>2. remaining'[maker] > 0
          BY <1>2, <1>4, <5>1
        <5>3. Stands(maker, s, d, q)
          BY <2>1, <4>2
        <5>. QED
          BY <1>2, <1>6, <4>1, <4>2, <5>2, <5>3 DEF Stands, Free
      <4>3. CASE Level(s, d, q)[k] # maker
        BY <2>3, <4>1, <4>3
      <4>. QED
        BY <4>2, <4>3
    <3>. QED
      BY <1>2, <3>1, <3>2, Zenon DEF Stands
  <2>5. CASE ~(s = sh /\ d = side /\ q = p)
    <3>1. Level(s, d, q)' = Level(s, d, q)
      BY <1>9, <2>5
    <3>2. ASSUME NEW j \in 1..Len(Level(s, d, q)), NEW id, id = Level(s, d, q)[j]
          PROVE  Stands(id, s, d, q)'
      <4>1. Stands(id, s, d, q)
        BY <2>1, <3>2
      <4>2. id # maker
        BY <1>2, <2>5, <4>1 DEF Stands
      <4>. QED
        BY <2>3, <3>2, <4>2
    <3>. QED
      BY <2>1, <3>1, <3>2 DEF Stands
  <2>. QED
    BY <2>4, <2>5
<1>13. Matching'
  <2>1. ASSUME NEW s \in Shards
        PROVE  /\ taker'[s] = 0 => fills'[s] = None
               /\ taker'[s] # 0 => Home(taker'[s]) = s
               /\ \A id \in Ids : fills'[s][id] > 0 => id \in Added /\ Home(id) = s
    <3>1. /\ taker[s] = 0 => fills[s] = None
          /\ taker[s] # 0 => Home(taker[s]) = s
          /\ \A id \in Ids : fills[s][id] > 0 => id \in Added /\ Home(id) = s
      BY DEF MatcherInv, Matching, Free
    <3>2. CASE s = sh
      BY <1>2, <1>4, <1>8, <3>1, <3>2, Zenon DEF Free
    <3>3. CASE s # sh
      BY <1>2, <1>8, <3>1, <3>3
    <3>. QED
      BY <3>2, <3>3
  <2>2. \A id \in Ids : reported'[id] > 0 => id \in Added
    BY <1>2 DEF MatcherInv, Matching
  <2>3. None' = None
    BY DEF None
  <2>4. \A s \in Shards : /\ Home(taker'[s]) = Home(taker[s])' /\ Free(s)' = (taker'[s] = 0)
                          /\ \A id \in Ids : Home(id)' = Home(id)
    BY <1>2 DEF Home, Free
  <2>. QED
    BY <1>6, <2>1, <2>2, <2>3, <2>4 DEF Matching, Free
<1>. QED
  BY <1>11, <1>12, <1>13 DEF MatcherInv


\* A fill is a hit of the level it is made in.
LEMMA FillHits ==
  ASSUME MatcherInv, NEW sh \in Shards, NEW p \in Prices, NEW i \in Places, Fill(sh, p, i)
  PROVE  \E side \in Sides, maker \in Added, qty \in Nat \ {0}, rest \in Seq(Added) :
           /\ side = Opposite(Taker(sh).side) /\ maker = Level(sh, side, p)[i]
           /\ Hit(sh, side, p, maker, qty, rest)
<1>1. PICK side \in Sides, maker \in Added, qty \in Nat \ {0} :
        /\ side = Opposite(Taker(sh).side) /\ maker = Level(sh, side, p)[i]
        /\ taker[sh] \in Added /\ maker < taker[sh]
        /\ Level(sh, side, p) \in Seq(Added) /\ i \in 1..Len(Level(sh, side, p))
        /\ qty <= remaining[taker[sh]] /\ qty <= remaining[maker]
        /\ remaining' = Moved(remaining, {taker[sh], maker}, -qty)
        /\ fills' = [fills EXCEPT ![sh] = Moved(fills[sh], {taker[sh], maker}, qty)]
        /\ book' = [book EXCEPT ![sh][side][p] =
                      Left(Level(sh, side, p), i, remaining[maker] - qty)]
  <2>. DEFINE side  == Opposite(Taker(sh).side)
              maker == Level(sh, side, p)[i]
              qty   == Min({remaining[taker[sh]], remaining[maker]})
  <2>1. ~Free(sh) /\ MayHit(sh, p, i) /\ remaining[taker[sh]] > 0
    BY DEF Fill
  <2>2. /\ side \in Sides /\ Level(sh, side, p) \in Seq(Added)
        /\ i \in 1..Len(Level(sh, side, p)) /\ maker \in Added
        /\ remaining[maker] \in Nat \ {0} /\ maker < taker[sh]
    BY <2>1, HitTyped
  <2>3. taker[sh] \in Added
    BY <2>1, TakerTyped
  <2>4. remaining[taker[sh]] \in Nat /\ taker[sh] \in Nat /\ maker \in Nat
    <3>1. taker[sh] \in Ids /\ maker \in Ids
      BY <2>2, <2>3, CountTyped DEF MatcherInv
    <3>. QED
      BY <3>1 DEF MatcherInv, TypeOK, Ids
  <2>5. remaining[taker[sh]] \in Nat \ {0}
    BY <2>1, <2>4
  <2>6. qty \in Nat \ {0} /\ qty <= remaining[taker[sh]] /\ qty <= remaining[maker]
    BY <2>2, <2>5, LeastOfTwo
  <2>7. /\ remaining' = Moved(remaining, {taker[sh], maker}, -qty)
        /\ fills' = [fills EXCEPT ![sh] = Moved(fills[sh], {taker[sh], maker}, qty)]
        /\ book' = [book EXCEPT ![sh][side][p] =
                      Left(Level(sh, side, p), i, remaining[maker] - qty)]
    BY DEF Fill, Level
  <2>8. side = Opposite(Taker(sh).side) /\ maker = Level(sh, side, p)[i]
    OBVIOUS
  <2>. HIDE DEF qty, maker, side
  <2>. QED
    BY <2>2, <2>3, <2>6, <2>7, <2>8, Zenon
<1>2. ~Free(sh) /\ UNCHANGED <<count, orders, taker, reported, prevention>>
  BY DEF Fill
<1>3. Home(maker) = sh /\ orders[maker].side = side /\ orders[maker].price = p
  BY <1>1 DEF MatcherInv, Placed, Stands
<1>4. Home(taker[sh]) = sh
  BY <1>2 DEF MatcherInv, Matching
<1>5. remaining[maker] \in Nat /\ TypeOK /\ InOrder(Level(sh, side, p))
  <2>1. maker \in Ids
    BY CountTyped DEF MatcherInv
  <2>. QED
    BY <2>1 DEF MatcherInv, TypeOK, Placed
<1>6. PICK left \in Int : left = remaining[maker] - qty /\ (qty = remaining[maker] => left = 0)
  <2>1. remaining[maker] - qty \in Int /\ (qty = remaining[maker] => remaining[maker] - qty = 0)
    BY <1>5
  <2>. QED
    BY <2>1
<1>7. PICK rest : /\ rest = Left(Level(sh, side, p), i, left)
                  /\ rest \in Seq(Added) /\ Len(rest) <= Len(Level(sh, side, p)) /\ InOrder(rest)
                  /\ \A j \in 1..Len(rest) : \E k \in 1..Len(Level(sh, side, p)) :
                       /\ rest[j] = Level(sh, side, p)[k]
                       /\ left = 0 => Level(sh, side, p)[k] # Level(sh, side, p)[i]
  <2>. DEFINE all == Level(sh, side, p)
              rest == Left(all, i, left)
  <2>1. all \in Seq(Added) /\ InOrder(all) /\ i \in 1..Len(all)
    BY <1>1, <1>5
  <2>. HIDE DEF all
  <2>2. /\ rest \in Seq(Added) /\ Len(rest) <= Len(all) /\ InOrder(rest)
        /\ \A j \in 1..Len(rest) : \E k \in 1..Len(all) :
             rest[j] = all[k] /\ (left = 0 => all[k] # all[i])
    BY <1>5, <2>1, LeftInOrder
  <2>. QED
    BY <2>2 DEF all
<1>8. book' = [book EXCEPT ![sh][side][p] = rest]
  BY <1>1, <1>6, <1>7
<1>9. \A j \in 1..Len(rest) : \E k \in 1..Len(Level(sh, side, p)) :
        /\ rest[j] = Level(sh, side, p)[k]
        /\ qty = remaining[maker] => rest[j] # maker
  BY <1>1, <1>6, <1>7, SMTT(30)
<1>10. Hit(sh, side, p, maker, qty, rest)
  BY <1>1, <1>2, <1>3, <1>4, <1>7, <1>8, <1>9, Zenon DEF Hit
<1>. QED
  BY <1>1, <1>7, <1>10


\* Whoever stands in a level is an order that has come.
LEMMA LevelTyped ==
  ASSUME MatcherInv, NEW s \in Shards, NEW d \in Sides, NEW q \in Prices
  PROVE  /\ Level(s, d, q) \in Seq(Added) /\ Len(Level(s, d, q)) \in Nat
         /\ InOrder(Level(s, d, q)) /\ Len(Level(s, d, q)) <= MaxDepth
         /\ \A i \in 1..Len(Level(s, d, q)) :
              /\ Level(s, d, q)[i] \in Added
              /\ Stands(Level(s, d, q)[i], s, d, q)
<1>1. book[s][d][q] \in Seq(Added)
  BY DEF MatcherInv, TypeOK
<1>2. Level(s, d, q) \in Seq(Added)
  BY <1>1 DEF Level
<1>3. Len(Level(s, d, q)) \in Nat /\ \A i \in 1..Len(Level(s, d, q)) : Level(s, d, q)[i] \in Added
  BY <1>2
<1>. QED
  BY <1>2, <1>3 DEF MatcherInv, TypeOK, Placed

LEMMA WiderSeq ==
  ASSUME NEW S, NEW T, S \subseteq T, NEW s \in Seq(S)
  PROVE  s \in Seq(T)
<1>1. Len(s) \in Nat /\ s \in [1..Len(s) -> T]
  OBVIOUS
<1>. QED
  BY <1>1

\* An order comes, and the shard it hashes to may start to match it.
LEMMA NewOrderKeeps ==
  ASSUME MatcherInv, NEW o \in Requests, NewOrder(o),
         UNCHANGED <<book, fills, reported, prevention>>,
         NEW sh, sh = ShardFor[o.symbol], Free(sh),
         taker' = taker \/ taker' = [taker EXCEPT ![sh] = count + 1]
  PROVE  MatcherInv'
<1>. DEFINE n == count + 1
<1>1. /\ n \in Ids /\ n \notin Added /\ Added' = Added \cup {n} /\ count' = n /\ n \in Nat
      /\ \A id \in Added : id \in Nat /\ id < n
  BY CountTyped DEF MatcherInv, NewOrder, Added, Ids
<1>2. o \in Order /\ sh \in Shards /\ o.quantity \in Nat
  BY BooksAssumption DEF Order
<1>3. /\ orders' = [orders EXCEPT ![n] = o]
      /\ remaining' = [remaining EXCEPT ![n] = o.quantity]
  BY DEF NewOrder
<1>4. taker \in [Shards -> 0..count] /\ taker[sh] = 0
  BY DEF MatcherInv, TypeOK, Free
<1>. HIDE DEF n
<1>5. /\ orders' \in [Ids -> Order \cup {NoOrder}] /\ remaining' \in [Ids -> Nat]
      /\ orders'[n] = o
      /\ \A id \in Added : orders'[id] = orders[id] /\ remaining'[id] = remaining[id]
  <2>1. orders \in [Ids -> Order \cup {NoOrder}] /\ remaining \in [Ids -> Nat] /\ Added \subseteq Ids
    BY CountTyped DEF MatcherInv, TypeOK
  <2>. QED
    BY <1>1, <1>2, <1>3, <2>1
<1>6. \A s \in Shards : taker'[s] = taker[s] \/ (s = sh /\ taker'[s] = n)
  BY <1>4 DEF n
<1>7. taker' \in [Shards -> 0..count']
  <2>1. \A x \in 0..count : x \in 0..count'
    BY <1>1, CountTyped DEF MatcherInv, n
  <2>2. n \in 0..count'
    BY <1>1
  <2>. QED
    BY <1>2, <1>4, <2>1, <2>2 DEF n
<1>8. ASSUME NEW s \in Shards, NEW d \in Sides, NEW q \in Prices
      PROVE  book[s][d][q] \in Seq(Added')
  <2>1. book[s][d][q] \in Seq(Added)
    BY <1>8 DEF MatcherInv, TypeOK
  <2>. QED
    BY <1>1, <2>1, WiderSeq
<1>9. book \in [Shards -> [Sides -> [Prices -> Seq(Added')]]]
  <2>. DEFINE old == Seq(Added)
              new == Seq(Added')
  <2>1. book \in [Shards -> [Sides -> [Prices -> old]]]
    BY DEF MatcherInv, TypeOK
  <2>2. \A s \in Shards, d \in Sides, q \in Prices : book[s][d][q] \in new
    BY <1>8
  <2>. HIDE DEF old, new
  <2>3. book \in [Shards -> [Sides -> [Prices -> new]]]
    BY <2>1, <2>2
  <2>. QED
    BY <2>3 DEF new
<1>10. TypeOK'
  <2>1. count' \in 0..MaxOrders
    BY <1>1 DEF Ids
  <2>2. \A id \in Added' : orders'[id] \in Order
    BY <1>1, <1>2, <1>5 DEF MatcherInv, TypeOK
  <2>. QED
    BY <1>5, <1>7, <1>9, <2>1, <2>2 DEF MatcherInv, TypeOK, Level
<1>11. \A id \in Added : Home(id)' = Home(id)
  BY <1>5 DEF Home
<1>12. Placed'
  <2>. SUFFICES ASSUME NEW s \in Shards, NEW d \in Sides, NEW q \in Prices
                PROVE  /\ InOrder(Level(s, d, q)')
                       /\ \A i \in 1..Len(Level(s, d, q)') : Stands(Level(s, d, q)[i], s, d, q)'
    BY DEF Placed, InOrder
  <2>1. Level(s, d, q)' = Level(s, d, q)
    BY DEF Level
  <2>2. ASSUME NEW i \in 1..Len(Level(s, d, q)), NEW id, id = Level(s, d, q)[i]
        PROVE  Stands(id, s, d, q)'
    <3>1. id \in Added /\ Stands(id, s, d, q)
      BY <2>2, LevelTyped
    <3>2. ~Free(s)' => id < taker'[s]
      BY <1>1, <1>6, <3>1 DEF Stands, Free
    <3>. QED
      BY <1>5, <1>11, <3>1, <3>2 DEF Stands
  <2>3. InOrder(Level(s, d, q))
    BY LevelTyped
  <2>. QED
    BY <2>1, <2>2, <2>3 DEF Stands
<1>13. Matching'
  <2>1. ASSUME NEW s \in Shards
        PROVE  /\ Free(s)' => fills[s] = None
               /\ ~Free(s)' => Home(taker[s])' = s
               /\ \A id \in Ids : fills[s][id] > 0 => id \in Added' /\ Home(id)' = s
    <3>1. /\ Free(s) => fills[s] = None
          /\ ~Free(s) => Home(taker[s]) = s /\ taker[s] \in Added
          /\ \A id \in Ids : fills[s][id] > 0 => id \in Added /\ Home(id) = s
      BY TakerTyped DEF MatcherInv, Matching
    <3>2. ShardFor[orders'[n].symbol] = sh /\ n # 0
      BY <1>1, <1>5 DEF Ids
    <3>3. taker'[s] = taker[s] \/ (s = sh /\ taker'[s] = n)
      BY <1>6
    <3>4. Home(taker[s])' = ShardFor[orders'[taker'[s]].symbol]
      BY DEF Home
    <3>5. ~Free(s)' => Home(taker[s])' = s
      <4>1. CASE taker'[s] = taker[s]
        BY <1>5, <3>1, <3>4, <4>1 DEF Free, Home
      <4>2. CASE s = sh /\ taker'[s] = n
        BY <3>2, <3>4, <4>2
      <4>. QED
        BY <3>3, <4>1, <4>2
    <3>6. Free(s)' => Free(s)
      BY <3>2, <3>3 DEF Free
    <3>. QED
      BY <1>1, <1>11, <3>1, <3>5, <3>6
  <2>2. \A id \in Ids : reported[id] > 0 => id \in Added'
    BY <1>1 DEF MatcherInv, Matching
  <2>3. None' = None
    BY DEF None
  <2>. QED
    BY <2>1, <2>2, <2>3 DEF Matching
<1>. QED
  BY <1>10, <1>12, <1>13 DEF MatcherInv


\* The lock is let go: the shard has nothing to give any more.
LEMMA UnlockKeeps ==
  ASSUME MatcherInv, NEW sh \in Shards, ~Free(sh), Unlock(sh),
         UNCHANGED <<count, orders, prevention>>, Report(sh) \/ UNCHANGED reported
  PROVE  /\ Added' = Added /\ \A id : Home(id)' = Home(id)
         /\ taker' \in [Shards -> 0..count'] /\ fills' \in [Shards -> [Ids -> Nat]]
         /\ reported' \in [Ids -> Nat]
         /\ taker'[sh] = 0 /\ \A s \in Shards \ {sh} : taker'[s] = taker[s]
         /\ Matching'
<1>1. /\ taker \in [Shards -> 0..count] /\ fills \in [Shards -> [Ids -> Nat]]
      /\ reported \in [Ids -> Nat] /\ count \in Nat
  BY CountTyped DEF MatcherInv, TypeOK
<1>2. Added' = Added /\ \A id : Home(id)' = Home(id)
  BY DEF Added, Home
<1>3. None \in [Ids -> Nat] /\ None' = None /\ \A id \in Ids : None[id] = 0
  BY DEF None
<1>4. /\ taker' \in [Shards -> 0..count'] /\ taker'[sh] = 0
      /\ \A s \in Shards \ {sh} : taker'[s] = taker[s]
  BY <1>1 DEF Unlock
<1>5. /\ fills' \in [Shards -> [Ids -> Nat]] /\ fills'[sh] = None
      /\ \A s \in Shards \ {sh} : fills'[s] = fills[s]
  BY <1>1, <1>3 DEF Unlock
<1>6. reported' \in [Ids -> Nat]
  BY <1>1 DEF Report
<1>7. \A id \in Ids : reported'[id] > 0 => id \in Added
  <2>. SUFFICES ASSUME NEW id \in Ids, id \notin Added
                PROVE  reported'[id] = 0
    BY <1>1, <1>6
  <2>1. reported[id] \in Nat /\ fills[sh][id] \in Nat
    BY <1>1
  <2>2. reported[id] = 0 /\ fills[sh][id] = 0
    BY <2>1 DEF MatcherInv, Matching
  <2>3. reported'[id] = reported[id] \/ reported'[id] = reported[id] + fills[sh][id]
    BY DEF Report
  <2>. QED
    BY <2>2, <2>3
<1>8. ASSUME NEW s \in Shards
      PROVE  /\ taker'[s] = 0 => fills'[s] = None
             /\ taker'[s] # 0 => Home(taker'[s]) = s
             /\ \A id \in Ids : fills'[s][id] > 0 => id \in Added /\ Home(id) = s
  <2>1. /\ taker[s] = 0 => fills[s] = None
        /\ taker[s] # 0 => Home(taker[s]) = s
        /\ \A id \in Ids : fills[s][id] > 0 => id \in Added /\ Home(id) = s
    BY DEF MatcherInv, Matching, Free
  <2>2. CASE s = sh
    BY <1>3, <1>4, <1>5, <2>2
  <2>3. CASE s # sh
    BY <1>4, <1>5, <2>1, <2>3
  <2>. QED
    BY <2>2, <2>3
<1>9. Matching'
  <2>1. \A s \in Shards : Home(taker[s])' = Home(taker'[s]) /\ Free(s)' = (taker'[s] = 0)
    BY DEF Home, Free
  <2>. QED
    BY <1>2, <1>3, <1>7, <1>8, <2>1 DEF Matching, Free
<1>. QED
  BY <1>2, <1>4, <1>5, <1>6, <1>9

\* What stands in a level still does when its shard is free, or as busy as before.
LEMMA StandsStill ==
  ASSUME MatcherInv, NEW sh \in Shards, NEW s \in Shards, NEW d, NEW q,
         NEW id \in Added, Stands(id, s, d, q), remaining'[id] = remaining[id],
         UNCHANGED orders, taker'[sh] = 0, \A x \in Shards \ {sh} : taker'[x] = taker[x]
  PROVE  Stands(id, s, d, q)'
<1>1. Home(id)' = Home(id)
  BY DEF Home
<1>2. ~Free(s)' => ~Free(s) /\ taker'[s] = taker[s]
  BY DEF Free
<1>. QED
  BY <1>1, <1>2 DEF Stands

\* The match ends with the books as they are.
LEMMA EndKeeps ==
  ASSUME MatcherInv, NEW sh \in Shards, DropRest(sh) \/ Return(sh) \/ Kill(sh)
  PROVE  MatcherInv'
<1>1. /\ ~Free(sh) /\ Unlock(sh) /\ UNCHANGED <<count, orders, book, prevention>>
      /\ Report(sh) \/ UNCHANGED reported
  BY DEF DropRest, Return, Kill, Matched
<1>2. /\ Added' = Added /\ \A id : Home(id)' = Home(id)
      /\ taker' \in [Shards -> 0..count'] /\ fills' \in [Shards -> [Ids -> Nat]]
      /\ reported' \in [Ids -> Nat]
      /\ taker'[sh] = 0 /\ \A s \in Shards \ {sh} : taker'[s] = taker[s]
      /\ Matching'
  BY <1>1, UnlockKeeps
<1>3. taker[sh] \in Added /\ taker[sh] \in Ids /\ Taker(sh).quantity \in Nat
  BY <1>1, TakerTyped, OrderTyped, CountTyped DEF MatcherInv
<1>4. remaining' \in [Ids -> Nat] /\ \A id \in Ids : id # taker[sh] => remaining'[id] = remaining[id]
  <2>1. remaining \in [Ids -> Nat]
    BY DEF MatcherInv, TypeOK
  <2>2. remaining' = remaining \/ remaining' = [remaining EXCEPT ![taker[sh]] = Taker(sh).quantity]
    BY DEF DropRest, Return, Kill
  <2>. QED
    BY <1>3, <2>1, <2>2
<1>5. TypeOK'
  BY <1>1, <1>2, <1>4 DEF MatcherInv, TypeOK, Level
<1>6. Placed'
  <2>. SUFFICES ASSUME NEW s \in Shards, NEW d \in Sides, NEW q \in Prices
                PROVE  /\ InOrder(Level(s, d, q)')
                       /\ \A i \in 1..Len(Level(s, d, q)') : Stands(Level(s, d, q)[i], s, d, q)'
    BY DEF Placed, InOrder
  <2>1. Level(s, d, q)' = Level(s, d, q)
    BY <1>1 DEF Level
  <2>2. ASSUME NEW i \in 1..Len(Level(s, d, q)), NEW id, id = Level(s, d, q)[i]
        PROVE  Stands(id, s, d, q)'
    <3>1. id \in Added /\ Stands(id, s, d, q)
      BY <2>2, LevelTyped
    <3>2. id \in Ids /\ id \in Nat /\ taker[sh] \in Nat
      BY <1>3, <3>1, CountTyped DEF MatcherInv, Ids
    <3>3. id # taker[sh]
      <4>1. CASE s = sh
        BY <1>1, <3>1, <3>2, <4>1 DEF Stands
      <4>2. CASE s # sh
        BY <1>1, <3>1, <4>2 DEF Stands, MatcherInv, Matching
      <4>. QED
        BY <4>1, <4>2
    <3>. QED
      BY <1>1, <1>2, <1>4, <3>1, <3>2, <3>3, StandsStill
  <2>3. InOrder(Level(s, d, q))
    BY LevelTyped
  <2>. QED
    BY <2>1, <2>2, <2>3 DEF Stands
<1>. QED
  BY <1>2, <1>5, <1>6 DEF MatcherInv

\* What is left of the order joins the end of its level.
LEMMA RestKeeps ==
  ASSUME MatcherInv, NEW sh \in Shards, Rest(sh)
  PROVE  MatcherInv'
<1>. DEFINE t    == taker[sh]
            side == Taker(sh).side
            p    == Taker(sh).price
            end  == Append(Level(sh, side, p), t)
<1>1. /\ ~Free(sh) /\ Unlock(sh) /\ Report(sh)
      /\ UNCHANGED <<count, orders, remaining, prevention>>
      /\ remaining[t] > 0 /\ Len(Level(sh, side, p)) < MaxDepth
      /\ book' = [book EXCEPT ![sh][side][p] = end]
  BY DEF Rest, Matched, Rests, HasPlace, Level
<1>2. /\ Added' = Added /\ \A id : Home(id)' = Home(id)
      /\ taker' \in [Shards -> 0..count'] /\ fills' \in [Shards -> [Ids -> Nat]]
      /\ reported' \in [Ids -> Nat]
      /\ taker'[sh] = 0 /\ \A s \in Shards \ {sh} : taker'[s] = taker[s]
      /\ Matching'
  BY <1>1, UnlockKeeps
<1>3. /\ t \in Added /\ t \in Nat /\ side \in Sides /\ p \in Prices
      /\ orders[t].side = side /\ orders[t].price = p /\ Home(t) = sh
  <2>1. t \in Added /\ Taker(sh) = orders[t]
    BY <1>1, TakerTyped
  <2>2. t \in Nat
    BY <2>1, CountTyped DEF MatcherInv, Ids
  <2>. QED
    BY <1>1, <2>1, <2>2, OrderTyped DEF MatcherInv, Matching
<1>4. /\ Level(sh, side, p) \in Seq(Added) /\ InOrder(Level(sh, side, p))
      /\ \A i \in 1..Len(Level(sh, side, p)) :
           Level(sh, side, p)[i] \in Added /\ Level(sh, side, p)[i] < t
  BY <1>1, <1>3, LevelTyped DEF Stands
<1>. HIDE DEF t, side, p
<1>5. /\ end \in Seq(Added) /\ Len(end) = Len(Level(sh, side, p)) + 1
      /\ \A i \in 1..Len(end) :
           end[i] = IF i <= Len(Level(sh, side, p)) THEN Level(sh, side, p)[i] ELSE t
  BY <1>3, <1>4
<1>6. InOrder(end)
  <2>. SUFFICES ASSUME NEW i \in 1..Len(end), NEW j \in 1..Len(end), i < j
                PROVE  end[i] < end[j]
    BY DEF InOrder
  <2>1. i <= Len(Level(sh, side, p)) /\ end[i] = Level(sh, side, p)[i]
    BY <1>4, <1>5
  <2>2. CASE j <= Len(Level(sh, side, p))
    BY <1>4, <1>5, <2>1, <2>2 DEF InOrder
  <2>3. CASE ~(j <= Len(Level(sh, side, p)))
    BY <1>4, <1>5, <2>1, <2>3
  <2>. QED
    BY <2>2, <2>3
<1>. HIDE DEF end
<1>7. /\ book' \in [Shards -> [Sides -> [Prices -> Seq(Added)]]]
      /\ \A s \in Shards, d \in Sides, q \in Prices :
           Level(s, d, q)' = IF s = sh /\ d = side /\ q = p THEN end ELSE Level(s, d, q)
  <2>1. book \in [Shards -> [Sides -> [Prices -> Seq(Added)]]]
    BY DEF MatcherInv, TypeOK
  <2>2. /\ book' \in [Shards -> [Sides -> [Prices -> Seq(Added)]]]
        /\ \A s \in Shards, d \in Sides, q \in Prices :
             book'[s][d][q] = IF s = sh /\ d = side /\ q = p THEN end ELSE book[s][d][q]
    BY <1>1, <1>3, <1>5, <2>1, LevelSet
  <2>. QED
    BY <2>2 DEF Level
<1>8. ASSUME NEW s \in Shards, NEW d \in Sides, NEW q \in Prices
      PROVE  /\ Len(Level(s, d, q)') <= MaxDepth /\ InOrder(Level(s, d, q)')
             /\ \A i \in 1..Len(Level(s, d, q)') : Stands(Level(s, d, q)[i], s, d, q)'
  <2>1. ASSUME NEW i \in 1..Len(Level(s, d, q)), NEW id, id = Level(s, d, q)[i]
        PROVE  Stands(id, s, d, q)'
    <3>1. id \in Added /\ Stands(id, s, d, q) /\ remaining'[id] = remaining[id]
      BY <1>1, <2>1, LevelTyped
    <3>. QED
      BY <1>1, <1>2, <3>1, StandsStill
  <2>2. CASE s = sh /\ d = side /\ q = p
    <3>1. Level(s, d, q)' = end /\ Level(s, d, q) = Level(sh, side, p)
      BY <1>7, <2>2
    <3>2. Len(end) <= MaxDepth
      <4>1. Len(Level(sh, side, p)) \in Nat /\ MaxDepth \in Nat
        BY <1>4, BooksAssumption
      <4>. QED
        BY <1>1, <1>5, <4>1
    <3>3. ASSUME NEW i \in 1..Len(end), NEW id, id = end[i]
          PROVE  Stands(id, s, d, q)'
      <4>1. CASE i <= Len(Level(sh, side, p))
        <5>1. i \in 1..Len(Level(s, d, q)) /\ id = Level(s, d, q)[i]
          BY <1>4, <1>5, <3>1, <3>3, <4>1
        <5>. QED
          BY <2>1, <5>1
      <4>2. CASE ~(i <= Len(Level(sh, side, p)))
        <5>1. id = t
          BY <1>5, <3>3, <4>2
        <5>. QED
          BY <1>1, <1>2, <1>3, <2>2, <5>1 DEF Stands, Free
      <4>. QED
        BY <4>1, <4>2
    <3>. QED
      BY <1>6, <3>1, <3>2, <3>3 DEF Stands
  <2>3. CASE ~(s = sh /\ d = side /\ q = p)
    <3>1. Level(s, d, q)' = Level(s, d, q)
      BY <1>7, <2>3
    <3>2. InOrder(Level(s, d, q)) /\ Len(Level(s, d, q)) <= MaxDepth
      BY LevelTyped
    <3>. QED
      BY <2>1, <3>1, <3>2 DEF Stands
  <2>. QED
    BY <2>2, <2>3
<1>9. TypeOK'
  BY <1>1, <1>2, <1>7, <1>8 DEF MatcherInv, TypeOK
<1>10. Placed'
  BY <1>8 DEF Placed, InOrder
<1>. QED
  BY <1>2, <1>9, <1>10 DEF MatcherInv


LEMMA CancelKeeps ==
  ASSUME MatcherInv, NEW id \in Ids, NEW side \in Sides, NEW symbol \in Symbols,
         Cancel(id, side, symbol)
  PROVE  MatcherInv'
<1>. DEFINE sh == ShardFor[symbol]
<1>1. sh \in Shards
  BY BooksAssumption
<1>2. PICK p \in Prices : \E i \in DOMAIN Level(sh, side, p) :
        book' = [book EXCEPT ![sh][side][p] = RemoveAt(Level(sh, side, p), i)]
  BY Zenon DEF Cancel, Level
<1>3. Free(sh) /\ UNCHANGED <<count, orders, remaining, taker, fills, reported, prevention>>
  BY DEF Cancel, matching
<1>. HIDE DEF sh
<1>4. PICK i \in DOMAIN Level(sh, side, p) :
        book' = [book EXCEPT ![sh][side][p] = RemoveAt(Level(sh, side, p), i)]
  BY <1>2, Zenon
<1>5. /\ Level(sh, side, p) \in Seq(Added) /\ InOrder(Level(sh, side, p))
      /\ i \in 1..Len(Level(sh, side, p)) /\ TypeOK
  <2>1. Level(sh, side, p) \in Seq(Added) /\ InOrder(Level(sh, side, p))
    BY <1>1, LevelTyped
  <2>. QED
    BY <2>1 DEF MatcherInv
<1>6. PICK rest : /\ rest = RemoveAt(Level(sh, side, p), i)
                  /\ rest \in Seq(Added) /\ Len(rest) <= Len(Level(sh, side, p)) /\ InOrder(rest)
                  /\ \A j \in 1..Len(rest) : \E k \in 1..Len(Level(sh, side, p)) :
                       rest[j] = Level(sh, side, p)[k]
  <2>. DEFINE all == Level(sh, side, p)
              left == Left(all, i, 0)
  <2>1. all \in Seq(Added) /\ InOrder(all) /\ i \in 1..Len(all)
    BY <1>5
  <2>2. left = RemoveAt(all, i)
    BY DEF Left
  <2>. HIDE DEF all
  <2>3. /\ left \in Seq(Added) /\ Len(left) <= Len(all) /\ InOrder(left)
        /\ \A j \in 1..Len(left) : \E k \in 1..Len(all) : left[j] = all[k]
    BY <1>5, <2>1, LeftInOrder
  <2>. QED
    BY <2>2, <2>3 DEF all
<1>7. /\ book' \in [Shards -> [Sides -> [Prices -> Seq(Added)]]]
      /\ \A s \in Shards, d \in Sides, q \in Prices :
           Level(s, d, q)' = IF s = sh /\ d = side /\ q = p THEN rest ELSE Level(s, d, q)
  <2>1. book \in [Shards -> [Sides -> [Prices -> Seq(Added)]]]
    BY DEF MatcherInv, TypeOK
  <2>2. /\ book' \in [Shards -> [Sides -> [Prices -> Seq(Added)]]]
        /\ \A s \in Shards, d \in Sides, q \in Prices :
             book'[s][d][q] = IF s = sh /\ d = side /\ q = p THEN rest ELSE book[s][d][q]
    BY <1>1, <1>4, <1>6, <2>1, LevelSet
  <2>. QED
    BY <2>2 DEF Level
<1>8. Added' = Added /\ \A x : Home(x)' = Home(x)
  BY <1>3 DEF Added, Home
<1>9. ASSUME NEW s \in Shards, NEW d \in Sides, NEW q \in Prices
      PROVE  /\ Len(Level(s, d, q)') <= MaxDepth /\ InOrder(Level(s, d, q)')
             /\ \A j \in 1..Len(Level(s, d, q)') : Stands(Level(s, d, q)[j], s, d, q)'
  <2>1. ASSUME NEW j \in 1..Len(Level(s, d, q)), NEW x, x = Level(s, d, q)[j]
        PROVE  Stands(x, s, d, q)'
    <3>1. Stands(x, s, d, q)
      BY <2>1, LevelTyped
    <3>. QED
      BY <1>3, <1>8, <3>1 DEF Stands, Free
  <2>2. CASE s = sh /\ d = side /\ q = p
    <3>1. Level(s, d, q)' = rest /\ Level(s, d, q) = Level(sh, side, p)
      BY <1>7, <2>2
    <3>2. Len(rest) <= MaxDepth
      <4>1. Len(Level(sh, side, p)) <= MaxDepth /\ Len(Level(sh, side, p)) \in Nat
        BY <1>1, LevelTyped
      <4>2. MaxDepth \in Nat /\ Len(rest) \in Nat
        BY <1>6, BooksAssumption
      <4>. QED
        BY <1>6, <4>1, <4>2
    <3>3. ASSUME NEW j \in 1..Len(rest), NEW x, x = rest[j]
          PROVE  Stands(x, s, d, q)'
      <4>1. PICK k \in 1..Len(Level(s, d, q)) : x = Level(s, d, q)[k]
        BY <1>6, <3>1, <3>3
      <4>. QED
        BY <2>1, <4>1
    <3>. QED
      BY <1>6, <3>1, <3>2, <3>3 DEF Stands
  <2>3. CASE ~(s = sh /\ d = side /\ q = p)
    <3>1. Level(s, d, q)' = Level(s, d, q)
      BY <1>7, <2>3
    <3>2. InOrder(Level(s, d, q)) /\ Len(Level(s, d, q)) <= MaxDepth
      BY LevelTyped
    <3>. QED
      BY <2>1, <3>1, <3>2 DEF Stands
  <2>. QED
    BY <2>2, <2>3
<1>10. TypeOK'
  BY <1>3, <1>7, <1>8, <1>9 DEF MatcherInv, TypeOK
<1>11. Placed'
  BY <1>9 DEF Placed, InOrder
<1>12. Matching'
  <2>1. \A s \in Shards : Free(s)' = Free(s)
    BY <1>3 DEF Free
  <2>2. \A s \in Shards : Home(taker[s])' = Home(taker[s])
    BY <1>3 DEF Home
  <2>3. None' = None
    BY DEF None
  <2>. QED
    BY <1>3, <1>8, <2>1, <2>2, <2>3 DEF MatcherInv, Matching
<1>. QED
  BY <1>10, <1>11, <1>12 DEF MatcherInv

\* Nothing moved but the switch.
LEMMA SwitchKeeps ==
  ASSUME MatcherInv, UNCHANGED <<count, orders, remaining, book, taker, fills, reported>>,
         prevention' \in BOOLEAN
  PROVE  MatcherInv'
<1>1. TypeOK'
  BY DEF MatcherInv, TypeOK, Added, Level
<1>2. /\ \A s \in Shards, d \in Sides, q \in Prices : Level(s, d, q)' = Level(s, d, q)
      /\ \A id, s, d, q : Stands(id, s, d, q)' = Stands(id, s, d, q)
  BY DEF Level, Stands, Home, Free
<1>3. Placed'
  BY DEF MatcherInv, Placed, InOrder, Level, Stands, Home, Free
<1>4. Matching'
  BY DEF MatcherInv, Matching, Free, Home, None, Added
<1>. QED
  BY <1>1, <1>3, <1>4 DEF MatcherInv

LEMMA AddKeeps ==
  ASSUME MatcherInv, NEW o \in Requests, AddOrder(o) \/ DropStop(o)
  PROVE  MatcherInv'
<1>. DEFINE sh == ShardFor[o.symbol]
<1>1. /\ NewOrder(o) /\ Free(sh) /\ UNCHANGED <<book, fills, reported, prevention>>
      /\ taker' = taker \/ taker' = [taker EXCEPT ![sh] = count + 1]
  BY DEF AddOrder, DropStop, matching
<1>. QED
  BY <1>1, NewOrderKeeps

LEMMA MatcherStep ==
  ASSUME MatcherInv, [Next]_vars
  PROVE  MatcherInv'
<1>1. ASSUME NEW o \in Requests, AddOrder(o) \/ DropStop(o)
      PROVE  MatcherInv'
  BY <1>1, AddKeeps
<1>2. ASSUME NEW sh \in Shards, NEW p \in Prices, NEW i \in Places, Fill(sh, p, i)
      PROVE  MatcherInv'
  BY <1>2, FillHits, HitKeeps
<1>3. ASSUME NEW sh \in Shards, Rest(sh)
      PROVE  MatcherInv'
  BY <1>3, RestKeeps
<1>4. ASSUME NEW sh \in Shards, DropRest(sh) \/ Return(sh) \/ Kill(sh)
      PROVE  MatcherInv'
  BY <1>4, EndKeeps
<1>5. ASSUME NEW id \in Ids, NEW side \in Sides, NEW symbol \in Symbols, Cancel(id, side, symbol)
      PROVE  MatcherInv'
  BY <1>5, CancelKeeps
<1>6. ASSUME NEW enabled \in BOOLEAN, SetSelfTradePrevention(enabled)
      PROVE  MatcherInv'
  BY <1>6, SwitchKeeps DEF SetSelfTradePrevention, matching
<1>7. CASE UNCHANGED vars
  <2>1. prevention \in BOOLEAN
    BY DEF MatcherInv, TypeOK
  <2>. QED
    BY <1>7, <2>1, SwitchKeeps DEF vars, matching
<1>. QED
  BY <1>1, <1>2, <1>3, <1>4, <1>5, <1>6, <1>7 DEF Next, Match

LEMMA MatcherStart == Init => MatcherInv
<1>. SUFFICES ASSUME Init PROVE MatcherInv
  OBVIOUS
<1>1. Added = {} /\ count \in 0..MaxOrders
  BY BooksAssumption DEF Init, Added
<1>2. \A sh \in Shards, side \in Sides, p \in Prices : Level(sh, side, p) = <<>>
  BY DEF Init, Level
<1>3. \A sh \in Shards, side \in Sides, p \in Prices : Len(Level(sh, side, p)) = 0
  BY <1>2
<1>4. book \in [Shards -> [Sides -> [Prices -> Seq(Added)]]]
  <2>1. <<>> \in Seq(Added)
    OBVIOUS
  <2>. QED
    BY <2>1 DEF Init
<1>5. taker \in [Shards -> 0..count] /\ \A sh \in Shards : Free(sh)
  BY DEF Init, Free
<1>6. None \in [Ids -> Nat] /\ \A id \in Ids : None[id] = 0
  BY DEF None
<1>7. TypeOK
  BY <1>1, <1>3, <1>4, <1>5, <1>6, BooksAssumption DEF TypeOK, Init
<1>8. Placed
  BY <1>3 DEF Placed, InOrder
<1>9. Matching
  BY <1>5, <1>6 DEF Init, Matching
<1>. QED
  BY <1>7, <1>8, <1>9 DEF MatcherInv


\* The levels of every book hold each order at most once, in the order of arrival,
\* on its own side at its own price, and only while it waits for something.
THEOREM LevelsAreFifo == Spec => []LevelsFifo
<1>1. MatcherInv => LevelsFifo
  <2>. SUFFICES ASSUME MatcherInv, NEW sh \in Shards, NEW side \in Sides, NEW p \in Prices
                PROVE  LET level == Level(sh, side, p) IN
                       /\ \A i, j \in DOMAIN level : i < j => level[i] < level[j]
                       /\ \A i \in DOMAIN level :
                            /\ orders[level[i]].side = side /\ orders[level[i]].price = p
                            /\ remaining[level[i]] > 0 /\ level[i] # taker[sh]
    BY DEF LevelsFifo
  <2>1. DOMAIN Level(sh, side, p) = 1..Len(Level(sh, side, p))
    BY LevelTyped
  <2>2. InOrder(Level(sh, side, p))
    BY LevelTyped
  <2>3. ASSUME NEW i \in 1..Len(Level(sh, side, p)), NEW id, id = Level(sh, side, p)[i]
        PROVE  /\ orders[id].side = side /\ orders[id].price = p
               /\ remaining[id] > 0 /\ id # taker[sh]
    <3>1. id \in Added /\ Stands(id, sh, side, p)
      BY <2>3, LevelTyped
    <3>2. taker[sh] \in 0..count /\ count \in Nat
      BY CountTyped DEF MatcherInv, TypeOK
    <3>3. id \in 1..count
      BY <3>1 DEF Added
    <3>. QED
      BY <3>1, <3>2, <3>3 DEF Stands, Free
  <2>. QED
    BY <2>1, <2>2, <2>3 DEF InOrder
<1>. QED
  BY <1>1, MatcherStart, MatcherStep, PTL DEF Spec

----------------------------------------------------------------------------
(* OrderMatcher: nothing lost. *)

\* A fill takes from what an order waits for what it gives it.
LEMMA FillLosesNothing ==
  ASSUME MatcherInv, NothingLost, NEW sh \in Shards, NEW side \in Sides, NEW p \in Prices,
         NEW maker \in Added, NEW qty \in Nat \ {0}, NEW rest \in Seq(Added),
         Hit(sh, side, p, maker, qty, rest)
  PROVE  NothingLost'
<1>1. /\ Added' = Added /\ orders' = orders /\ reported' = reported
      /\ \A id : Home(id)' = Home(id)
  BY DEF Hit, Added, Home
<1>. SUFFICES ASSUME \A id \in Added : orders[id].tif # "FOK", NEW id \in Added
              PROVE  remaining'[id] + reported[id] + fills'[Home(id)][id] = orders[id].quantity
  BY <1>1 DEF NothingLost
<1>2. remaining[id] + reported[id] + fills[Home(id)][id] = orders[id].quantity
  BY DEF NothingLost
<1>3. id \in Ids /\ Home(id) \in Shards
  BY OrderTyped, CountTyped DEF MatcherInv
<1>4. /\ remaining[id] \in Nat /\ reported[id] \in Nat /\ fills[Home(id)][id] \in Nat
      /\ Home(taker[sh]) = sh /\ Home(maker) = sh
  BY <1>3 DEF MatcherInv, TypeOK, Hit
<1>5. CASE id \in {taker[sh], maker}
  <2>1. Home(id) = sh
    BY <1>4, <1>5
  <2>2. remaining'[id] = remaining[id] - qty /\ fills'[sh][id] = fills[sh][id] + qty
    <3>1. remaining'[id] = remaining[id] - qty
      BY <1>3, <1>5, HitAmounts
    <3>2. fills'[sh][id] = fills[sh][id] + qty
      BY <1>3, <1>5, HitAmounts
    <3>. QED
      BY <3>1, <3>2
  <2>. QED
    BY <1>2, <1>4, <2>1, <2>2
<1>6. CASE id \notin {taker[sh], maker}
  <2>1. remaining'[id] = remaining[id] /\ fills'[Home(id)][id] = fills[Home(id)][id]
    <3>1. remaining'[id] = remaining[id]
      BY <1>3, <1>6, HitAmounts
    <3>2. fills'[sh][id] = fills[sh][id]
      BY <1>3, <1>6, HitAmounts
    <3>3. Home(id) # sh => fills'[Home(id)] = fills[Home(id)]
      BY <1>3, HitAmounts
    <3>. QED
      BY <3>1, <3>2, <3>3
  <2>. QED
    BY <1>2, <2>1
<1>. QED
  BY <1>5, <1>6

\* The fills an order was given are told its owner when the lock is let go.
LEMMA ReportLosesNothing ==
  ASSUME MatcherInv, NothingLost, NEW sh \in Shards, ~Free(sh), Unlock(sh), Report(sh),
         UNCHANGED <<count, orders, remaining, prevention>>
  PROVE  NothingLost'
<1>1. Added' = Added /\ \A id : Home(id)' = Home(id)
  BY DEF Added, Home
<1>. SUFFICES ASSUME \A id \in Added : orders[id].tif # "FOK", NEW id \in Added
              PROVE  remaining[id] + reported'[id] + fills'[Home(id)][id] = orders[id].quantity
  BY <1>1 DEF NothingLost
<1>2. remaining[id] + reported[id] + fills[Home(id)][id] = orders[id].quantity
  BY DEF NothingLost
<1>3. id \in Ids /\ Home(id) \in Shards
  BY OrderTyped, CountTyped DEF MatcherInv
<1>4. /\ remaining[id] \in Nat /\ reported[id] \in Nat
      /\ \A s \in Shards : fills[s][id] \in Nat
  BY <1>3 DEF MatcherInv, TypeOK
<1>5. reported'[id] = reported[id] + fills[sh][id]
  BY <1>3 DEF Report
<1>6. /\ fills \in [Shards -> [Ids -> Nat]] /\ None[id] = 0
      /\ fills' = [fills EXCEPT ![sh] = None]
  BY <1>3 DEF MatcherInv, TypeOK, None, Unlock
<1>7. CASE Home(id) = sh
  BY <1>2, <1>4, <1>5, <1>6, <1>7
<1>8. CASE Home(id) # sh
  <2>1. fills[sh][id] = 0
    BY <1>3, <1>4, <1>8 DEF MatcherInv, Matching
  <2>2. fills'[Home(id)][id] = fills[Home(id)][id]
    BY <1>3, <1>6, <1>8
  <2>. QED
    BY <1>2, <1>4, <1>5, <2>1, <2>2
<1>. QED
  BY <1>7, <1>8

\* A new order waits for all it asked for.
LEMMA NewLosesNothing ==
  ASSUME MatcherInv, NothingLost, NEW o \in Requests, NewOrder(o), UNCHANGED <<fills, reported>>
  PROVE  NothingLost'
<1>. DEFINE n == count + 1
<1>1. n \in Ids /\ n \notin Added /\ Added' = Added \cup {n}
  BY CountTyped DEF MatcherInv, NewOrder, Added, Ids
<1>2. o \in Order /\ ShardFor[o.symbol] \in Shards /\ o.quantity \in Nat
  BY BooksAssumption DEF Order
<1>3. /\ orders' = [orders EXCEPT ![n] = o]
      /\ remaining' = [remaining EXCEPT ![n] = o.quantity]
  BY DEF NewOrder
<1>. HIDE DEF n
<1>4. /\ orders'[n] = o /\ remaining'[n] = o.quantity
      /\ \A id \in Added : orders'[id] = orders[id] /\ remaining'[id] = remaining[id]
  <2>1. orders \in [Ids -> Order \cup {NoOrder}] /\ remaining \in [Ids -> Nat] /\ Added \subseteq Ids
    BY CountTyped DEF MatcherInv, TypeOK
  <2>. QED
    BY <1>1, <1>3, <2>1
<1>. SUFFICES ASSUME \A id \in Added' : orders'[id].tif # "FOK", NEW id \in Added'
              PROVE  remaining'[id] + reported[id] + fills[ShardFor[orders'[id].symbol]][id]
                       = orders'[id].quantity
  BY DEF NothingLost, Home
<1>5. \A x \in Added : orders[x].tif # "FOK"
  BY <1>1, <1>4
<1>6. CASE id \in Added
  BY <1>4, <1>5, <1>6 DEF NothingLost, Home
<1>7. CASE id = n
  <2>1. reported[n] \in Nat /\ fills[ShardFor[o.symbol]][n] \in Nat
    BY <1>1, <1>2 DEF MatcherInv, TypeOK
  <2>2. reported[n] = 0 /\ fills[ShardFor[o.symbol]][n] = 0
    BY <1>1, <1>2, <2>1 DEF MatcherInv, Matching
  <2>. QED
    BY <1>2, <1>4, <1>7, <2>2
<1>. QED
  BY <1>1, <1>6, <1>7

LEMMA LedgerStep ==
  ASSUME MatcherInv, NothingLost, [Next]_vars
  PROVE  NothingLost'
<1>1. ASSUME NEW o \in Requests, AddOrder(o) \/ DropStop(o)
      PROVE  NothingLost'
  BY <1>1, NewLosesNothing DEF AddOrder, DropStop, matching
<1>2. ASSUME NEW sh \in Shards, NEW p \in Prices, NEW i \in Places, Fill(sh, p, i)
      PROVE  NothingLost'
  BY <1>2, FillHits, FillLosesNothing
<1>3. ASSUME NEW sh \in Shards, Rest(sh) \/ DropRest(sh) \/ Return(sh)
      PROVE  NothingLost'
  BY <1>3, ReportLosesNothing DEF Rest, DropRest, Return, Matched
<1>4. ASSUME NEW sh \in Shards, Kill(sh)
      PROVE  NothingLost'
  <2>1. taker[sh] \in Added /\ orders[taker[sh]].tif = "FOK"
    BY <1>4, TakerTyped DEF Kill, Matched, Killed
  <2>. QED
    BY <1>4, <2>1 DEF NothingLost, Kill, Added
<1>5. CASE UNCHANGED <<count, orders, remaining, taker, fills, reported>>
  BY <1>5 DEF NothingLost, Added, Home
<1>. QED
  BY <1>1, <1>2, <1>3, <1>4, <1>5
     DEF Next, Match, Cancel, SetSelfTradePrevention, vars, matching

\* Over any number of takers and cancels, what an order still waits for and what
\* its owner was told of make up what it asked for, unless a fill-or-kill order
\* has been there.
THEOREM QuantitiesAddUp == Spec => []NothingLost
<1>1. Init => NothingLost
  BY DEF Init, NothingLost, Added
<1>. QED
  BY <1>1, MatcherStart, MatcherStep, LedgerStep, PTL DEF Spec


----------------------------------------------------------------------------
(* OrderMatcher: the priority of price and time, and no trade with oneself. *)

\* No order the taker may still hit should have been hit before this maker.
Foremost(sh, m) ==
  \A p \in Prices, i \in Places : MayHit(sh, p, i) =>
    /\ Taker(sh).side = "Buy"  => orders[m].price <= p
    /\ Taker(sh).side = "Sell" => orders[m].price >= p
    /\ p = orders[m].price => m <= Level(sh, Opposite(Taker(sh).side), p)[i]

Priority == \A sh \in Shards : ~Free(sh) => \A m \in Makers(sh) : Foremost(sh, m)

NoneOwn == \A sh \in Shards : ~Free(sh) /\ prevention =>
             \A m \in Makers(sh) : orders[m].user # Taker(sh).user

\* A shard that a step leaves alone can hit what it could.
LEMMA HitsKept ==
  ASSUME MatcherInv, NEW s \in Shards, ~Free(s), UNCHANGED <<taker[s], book[s], prevention>>,
         \A id \in Added : orders'[id] = orders[id]
  PROVE  /\ Taker(s)' = Taker(s)
         /\ \A q \in Prices : Level(s, Opposite(Taker(s).side), q)' = Level(s, Opposite(Taker(s).side), q)
         /\ \A q \in Prices, j \in Places : MayHit(s, q, j)' => MayHit(s, q, j)
<1>1. taker[s] \in Added /\ Taker(s)' = Taker(s)
  BY TakerTyped DEF Taker
<1>2. Opposite(Taker(s).side) \in Sides
  BY <1>1, TakerTyped, OrderTyped DEF MatcherInv
<1>3. \A q \in Prices : Level(s, Opposite(Taker(s).side), q)' = Level(s, Opposite(Taker(s).side), q)
  BY <1>1 DEF Level
<1>4. ASSUME NEW q \in Prices, NEW j \in Places, MayHit(s, q, j)'
      PROVE  MayHit(s, q, j)
  <2>. DEFINE level == Level(s, Opposite(Taker(s).side), q)
  <2>1. \A i \in DOMAIN level : level[i] \in Added
    BY <1>2, LevelTyped
  <2>2. level' = level
    BY <1>3
  <2>. HIDE DEF level
  <2>3. \A i \in DOMAIN level : orders'[level[i]] = orders[level[i]]
    BY <2>1
  <2>4. /\ j \in DOMAIN level /\ Crosses(Taker(s), q)
        /\ ~OwnLevel(Taker(s), level)' /\ ~OwnMaker(Taker(s), level[j])'
    BY <1>1, <1>4, <2>2 DEF MayHit, level, Crosses
  <2>5. ~OwnLevel(Taker(s), level) /\ ~OwnMaker(Taker(s), level[j])
    BY <1>1, <2>2, <2>3, <2>4 DEF OwnLevel, OwnMaker
  <2>. QED
    BY <2>4, <2>5 DEF MayHit, level
<1>. QED
  BY <1>1, <1>3, <1>4

LEMMA ShardLeftAlone ==
  ASSUME MatcherInv, Priority, NoneOwn, NEW s \in Shards, ~Free(s),
         UNCHANGED <<taker[s], book[s], fills[s], prevention>>,
         \A id \in Added : orders'[id] = orders[id],
         NEW m, m \in Makers(s)'
  PROVE  Foremost(s, m)' /\ (prevention' => orders'[m].user # Taker(s)'.user)
<1>1. m \in Makers(s) /\ m \in Added
  BY DEF Makers, MatcherInv, Matching
<1>2. Foremost(s, m) /\ (prevention => orders[m].user # Taker(s).user)
  BY <1>1 DEF Priority, NoneOwn
<1>3. orders'[m] = orders[m] /\ Taker(s)' = Taker(s)
  BY <1>1, HitsKept
<1>4. Foremost(s, m)'
  BY <1>2, <1>3, HitsKept DEF Foremost
<1>. QED
  BY <1>2, <1>3, <1>4

\* In a match, an order the taker may still hit after a fill is one it could hit
\* before, at the same price.
LEMMA HitsNarrow ==
  ASSUME MatcherInv, NEW sh \in Shards, NEW side \in Sides, NEW p \in Prices,
         NEW maker \in Added, NEW qty \in Nat \ {0}, NEW rest \in Seq(Added),
         Hit(sh, side, p, maker, qty, rest), side = Opposite(Taker(sh).side),
         ~OwnLevel(Taker(sh), Level(sh, side, p)),
         NEW q \in Prices, NEW j \in Places, MayHit(sh, q, j)'
  PROVE  \E k \in Places : MayHit(sh, q, k) /\ Level(sh, side, q)[k] = Level(sh, side, q)'[j]
<1>1. /\ Taker(sh)' = Taker(sh) /\ orders' = orders /\ prevention' = prevention
      /\ \A i \in 1..Len(rest) : \E k \in 1..Len(Level(sh, side, p)) : rest[i] = Level(sh, side, p)[k]
  BY DEF Hit, Taker
<1>2. Level(sh, side, q)' = IF q = p THEN rest ELSE Level(sh, side, q)
  BY HitLevels
<1>. DEFINE new == IF q = p THEN rest ELSE Level(sh, side, q)
<1>3. /\ j \in DOMAIN new /\ Crosses(Taker(sh), q)
      /\ ~OwnLevel(Taker(sh), new) /\ ~OwnMaker(Taker(sh), new[j])
  BY <1>1, <1>2 DEF MayHit, Crosses, OwnLevel, OwnMaker
<1>4. /\ \A d \in Prices : DOMAIN Level(sh, side, d) = 1..Len(Level(sh, side, d))
      /\ \A d \in Prices : 1..Len(Level(sh, side, d)) \subseteq Places
  <2>. SUFFICES ASSUME NEW d \in Prices
                PROVE  /\ DOMAIN Level(sh, side, d) = 1..Len(Level(sh, side, d))
                       /\ 1..Len(Level(sh, side, d)) \subseteq Places
    OBVIOUS
  <2>1. /\ Level(sh, side, d) \in Seq(Added) /\ Len(Level(sh, side, d)) \in Nat
        /\ Len(Level(sh, side, d)) <= MaxDepth
    BY LevelTyped
  <2>. QED
    BY <2>1, BooksAssumption DEF Places
<1>5. CASE q = p
  <2>1. j \in 1..Len(rest) /\ new = rest
    BY <1>3, <1>5
  <2>2. PICK k \in 1..Len(Level(sh, side, p)) : rest[j] = Level(sh, side, p)[k]
    BY <1>1, <2>1
  <2>3. MayHit(sh, p, k)
    BY <1>3, <1>4, <1>5, <2>1, <2>2 DEF MayHit, OwnMaker
  <2>. QED
    BY <1>2, <1>4, <1>5, <2>2, <2>3
<1>6. CASE q # p
  <2>1. MayHit(sh, q, j)
    BY <1>3, <1>6 DEF MayHit
  <2>. QED
    BY <1>2, <1>6, <2>1
<1>. QED
  BY <1>5, <1>6

\* The best price first, and in its level the first.
LEMMA FillPriority ==
  ASSUME MatcherInv, Priority, NoneOwn, NEW sh \in Shards, NEW p \in Prices, NEW i \in Places,
         Fill(sh, p, i)
  PROVE  Priority' /\ NoneOwn'
<1>1. PICK side \in Sides, maker \in Added, qty \in Nat \ {0}, rest \in Seq(Added) :
        /\ side = Opposite(Taker(sh).side) /\ maker = Level(sh, side, p)[i]
        /\ Hit(sh, side, p, maker, qty, rest)
  BY FillHits
<1>2. /\ ~Free(sh) /\ MayHit(sh, p, i) /\ UNCHANGED <<orders, taker, prevention>>
      /\ \A q \in Prices, j \in Places : MayHit(sh, q, j) => ~Comes(Taker(sh).side, q, j, p, i)
  BY DEF Fill
<1>3. \A s \in Shards \ {sh} : /\ fills'[s] = fills[s]
                               /\ taker'[s] = taker[s] /\ book'[s] = book[s]
  <2>1. book' = [book EXCEPT ![sh][side][p] = rest] /\ \A s \in Shards \ {sh} : fills'[s] = fills[s]
    BY <1>1, HitAmounts DEF Hit
  <2>2. book \in [Shards -> [Sides -> [Prices -> Seq(Added)]]]
    BY DEF MatcherInv, TypeOK
  <2>. QED
    BY <1>2, <2>1, <2>2
<1>4. Makers(sh)' \subseteq Makers(sh) \cup {maker}
  <2>. SUFFICES ASSUME NEW m \in Ids, fills'[sh][m] > 0, m # taker[sh], m # maker
                PROVE  m \in Makers(sh)
    BY <1>2 DEF Makers
  <2>1. fills'[sh][m] = fills[sh][m]
    BY <1>1, HitAmounts
  <2>. QED
    BY <2>1 DEF Makers
<1>5. /\ orders[maker].price = p /\ ~OwnLevel(Taker(sh), Level(sh, side, p))
      /\ prevention => orders[maker].user # Taker(sh).user
      /\ i \in 1..Len(Level(sh, side, p)) /\ Level(sh, side, p) \in Seq(Added)
  BY <1>1, <1>2, HitTyped DEF MayHit
<1>6. Taker(sh)' = Taker(sh) /\ Taker(sh).side \in Sides
  BY <1>2, TakerTyped, OrderTyped DEF Taker, MatcherInv
<1>7. ASSUME NEW m, Foremost(sh, m)
      PROVE  Foremost(sh, m)'
  <2>. SUFFICES ASSUME NEW q \in Prices, NEW j \in Places, MayHit(sh, q, j)'
                PROVE  /\ Taker(sh).side = "Buy"  => orders[m].price <= q
                       /\ Taker(sh).side = "Sell" => orders[m].price >= q
                       /\ q = orders[m].price => m <= Level(sh, side, q)'[j]
    BY <1>1, <1>2, <1>6 DEF Foremost
  <2>1. PICK k \in Places : MayHit(sh, q, k) /\ Level(sh, side, q)[k] = Level(sh, side, q)'[j]
    BY <1>1, <1>5, HitsNarrow
  <2>. QED
    BY <1>1, <1>7, <2>1 DEF Foremost
<1>8. Foremost(sh, maker)
  <2>. SUFFICES ASSUME NEW q \in Prices, NEW j \in Places, MayHit(sh, q, j)
                PROVE  /\ Taker(sh).side = "Buy"  => p <= q
                       /\ Taker(sh).side = "Sell" => p >= q
                       /\ q = p => maker <= Level(sh, side, q)[j]
    BY <1>1, <1>5 DEF Foremost
  <2>1. ~Better(Taker(sh).side, q, p) /\ ~(q = p /\ j < i)
    BY <1>2 DEF Comes
  <2>2. p \in Nat /\ q \in Nat /\ i \in Nat /\ j \in Nat
    BY BooksAssumption DEF Places
  <2>3. (Taker(sh).side = "Buy" => p <= q) /\ (Taker(sh).side = "Sell" => p >= q)
    BY <2>1, <2>2 DEF Better
  <2>4. ASSUME q = p
        PROVE  maker <= Level(sh, side, p)[j]
    <3>1. i <= j
      BY <2>1, <2>2, <2>4
    <3>2. j \in DOMAIN Level(sh, side, p)
      BY <1>1, <2>4 DEF MayHit
    <3>3. j \in 1..Len(Level(sh, side, p)) /\ InOrder(Level(sh, side, p))
      BY <1>5, <3>2, LevelTyped
    <3>4. maker \in Nat
      BY CountTyped DEF MatcherInv, Ids
    <3>5. CASE i = j
      BY <1>1, <3>4, <3>5
    <3>6. CASE i < j
      <4>1. maker < Level(sh, side, p)[j] /\ Level(sh, side, p)[j] \in Added
        BY <1>1, <1>5, <3>3, <3>6, LevelTyped DEF InOrder
      <4>2. Level(sh, side, p)[j] \in Nat
        BY <4>1, CountTyped DEF MatcherInv, Ids
      <4>. QED
        BY <3>4, <4>1, <4>2
    <3>. QED
      BY <2>2, <3>1, <3>5, <3>6
  <2>. QED
    BY <2>3, <2>4
<1>9. ASSUME NEW m \in Makers(sh)'
      PROVE  Foremost(sh, m)' /\ (prevention' => orders'[m].user # Taker(sh)'.user)
  <2>1. CASE m \in Makers(sh)
    BY <1>2, <1>6, <1>7, <2>1 DEF Priority, NoneOwn
  <2>2. CASE m = maker
    BY <1>2, <1>5, <1>6, <1>7, <1>8, <2>2
  <2>. QED
    BY <1>4, <2>1, <2>2
<1>10. ASSUME NEW s \in Shards \ {sh}, ~Free(s)', NEW m \in Makers(s)'
       PROVE  Foremost(s, m)' /\ (prevention' => orders'[m].user # Taker(s)'.user)
  <2>1. ~Free(s)
    BY <1>3, <1>10 DEF Free
  <2>. QED
    BY <1>2, <1>3, <1>10, <2>1, ShardLeftAlone
<1>. QED
  BY <1>9, <1>10 DEF Priority, NoneOwn

\* A step that fills nothing leaves every shard alone that goes on with its match;
\* what begins has no maker yet.
LEMMA OtherPriority ==
  ASSUME MatcherInv, Priority, NoneOwn,
         \A s \in Shards : taker'[s] # 0 =>
           \/ fills'[s] = None
           \/ ~Free(s) /\ UNCHANGED <<taker[s], book[s], fills[s], prevention>>,
         \A id \in Added : orders'[id] = orders[id]
  PROVE  Priority' /\ NoneOwn'
<1>. SUFFICES ASSUME NEW s \in Shards, ~Free(s)', NEW m \in Makers(s)'
              PROVE  Foremost(s, m)' /\ (prevention' => orders'[m].user # Taker(s)'.user)
  BY DEF Priority, NoneOwn
<1>1. m \in Ids /\ fills'[s][m] > 0
  BY DEF Makers
<1>2. fills'[s] # None
  BY <1>1 DEF None
<1>. QED
  BY <1>2, ShardLeftAlone DEF Free

LEMMA PriorityStep ==
  ASSUME MatcherInv, Priority, NoneOwn, [Next]_vars
  PROVE  Priority' /\ NoneOwn'
<1>1. ASSUME NEW o \in Requests, AddOrder(o) \/ DropStop(o)
      PROVE  Priority' /\ NoneOwn'
  <2>. DEFINE sh == ShardFor[o.symbol]
  <2>1. /\ Free(sh) /\ UNCHANGED <<book, fills, prevention>>
        /\ orders' = [orders EXCEPT ![count + 1] = o]
        /\ taker' = taker \/ taker' = [taker EXCEPT ![sh] = count + 1]
    BY <1>1 DEF AddOrder, DropStop, NewOrder, matching
  <2>2. sh \in Shards /\ fills[sh] = None
    BY <2>1, BooksAssumption DEF Order, MatcherInv, Matching
  <2>3. \A id \in Added : orders'[id] = orders[id]
    <3>1. \A id \in Added : id # count + 1
      BY CountTyped DEF MatcherInv, Added
    <3>. QED
      BY <2>1, <3>1, CountTyped DEF MatcherInv, TypeOK
  <2>4. \A s \in Shards : s # sh => taker'[s] = taker[s]
    BY <2>1 DEF MatcherInv, TypeOK
  <2>. HIDE DEF sh
  <2>. QED
    BY <2>1, <2>2, <2>3, <2>4, OtherPriority DEF Free
<1>2. ASSUME NEW sh \in Shards, NEW p \in Prices, NEW i \in Places, Fill(sh, p, i)
      PROVE  Priority' /\ NoneOwn'
  BY <1>2, FillPriority
<1>3. ASSUME NEW sh \in Shards, Rest(sh) \/ DropRest(sh) \/ Return(sh) \/ Kill(sh)
      PROVE  Priority' /\ NoneOwn'
  <2>1. /\ Unlock(sh) /\ UNCHANGED <<orders, prevention>>
        /\ \/ UNCHANGED book
           \/ book' = [book EXCEPT ![sh][Taker(sh).side][Taker(sh).price] =
                         Append(Level(sh, Taker(sh).side, Taker(sh).price), taker[sh])]
    BY <1>3 DEF Rest, DropRest, Return, Kill, Level
  <2>2. taker'[sh] = 0 /\ \A s \in Shards \ {sh} : UNCHANGED <<taker[s], book[s], fills[s]>>
    <3>1. /\ taker \in [Shards -> 0..count] /\ fills \in [Shards -> [Ids -> Nat]]
          /\ book \in [Shards -> [Sides -> [Prices -> Seq(Added)]]]
      BY DEF MatcherInv, TypeOK
    <3>. QED
      BY <2>1, <3>1 DEF Unlock
  <2>. QED
    BY <2>1, <2>2, OtherPriority DEF Free
<1>4. ASSUME NEW id \in Ids, NEW side \in Sides, NEW symbol \in Symbols, Cancel(id, side, symbol)
      PROVE  Priority' /\ NoneOwn'
  <2>. DEFINE sh == ShardFor[symbol]
  <2>1. /\ sh \in Shards /\ Free(sh) /\ UNCHANGED <<orders, taker, fills, prevention>>
        /\ \E p \in Prices : \E level : book' = [book EXCEPT ![sh][side][p] = level]
    BY <1>4, BooksAssumption, Zenon DEF Cancel, matching, Level
  <2>2. \A s \in Shards \ {sh} : book'[s] = book[s]
    BY <2>1 DEF MatcherInv, TypeOK
  <2>. HIDE DEF sh
  <2>. QED
    BY <2>1, <2>2, OtherPriority DEF Free
<1>5. ASSUME NEW enabled \in BOOLEAN, SetSelfTradePrevention(enabled)
      PROVE  Priority' /\ NoneOwn'
  BY <1>5, OtherPriority DEF SetSelfTradePrevention, matching, Free
<1>6. CASE UNCHANGED vars
  BY <1>6, OtherPriority DEF vars, matching, Free
<1>. QED
  BY <1>1, <1>2, <1>3, <1>4, <1>5, <1>6 DEF Next, Match

LEMMA PriorityStart == Init => Priority /\ NoneOwn
BY DEF Init, Priority, NoneOwn, Free

\* Fills go by price and then by time, whatever joins, leaves or is cancelled.
THEOREM BestIsHitFirst == Spec => []PriceTimePriority
<1>1. Priority => PriceTimePriority
  BY DEF Priority, Foremost, PriceTimePriority
<1>. QED
  BY <1>1, PriorityStart, PriorityStep, MatcherStart, MatcherStep, PTL DEF Spec

\* While self-trade prevention is on, nobody's orders trade with one another.
THEOREM NobodyTradesAlone == Spec => []NoSelfTrade
<1>1. MatcherInv /\ NoneOwn => NoSelfTrade
  BY DEF MatcherInv, Matching, NoneOwn, NoSelfTrade, Makers, None
<1>. QED
  BY <1>1, PriorityStart, PriorityStep, MatcherStart, MatcherStep, PTL DEF Spec
=============================================================================
