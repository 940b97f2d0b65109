--------------------------- MODULE WebsocketManager ---------------------------
(***************************************************************************)
(* WebsocketManager: the clients of the dashboard's stream, their channels *)
(* in two tables, and the tasks that send to many clients with one await   *)
(* per client while clients connect, subscribe and leave.                  *)
(*                                                                         *)
(* A client id is a fresh uuid: it connects at most once.  A sender is a   *)
(* task in broadcast, in broadcast_to_all or in the heartbeat, which run   *)
(* through the ids they copied at their start.  The client is external: a  *)
(* send to it answers or raises.                                           *)
(***************************************************************************)
EXTENDS Integers, FiniteSets

CONSTANTS
  Clients,         \* client ids
  Channels,
  Senders,         \* tasks that send to many
  MaxConnections,  \* max_connections
  MaxMessages      \* bound: messages each sender sends

NoClient == "nobody"   \* no client

ASSUME WsAssumption ==
  /\ IsFiniteSet(Clients) /\ IsFiniteSet(Channels) /\ NoClient \notin Clients
  /\ MaxConnections \in Nat \ {0} /\ MaxMessages \in Nat

VARIABLES
  fresh,        \* ids not drawn yet
  active,       \* keys of active_connections
  channelsOf,   \* ClientSubscription.channels
  subscribers,  \* channel_subscribers
  sender        \* [at, todo, roster, got, round]: a task that sends to many

wsVars == <<fresh, active, channelsOf, subscribers, sender>>

WsInit ==
  /\ fresh = Clients /\ active = {}
  /\ channelsOf = [c \in Clients |-> {}]
  /\ subscribers = [ch \in Channels |-> {}]
  /\ sender = [t \in Senders |->
                 [at |-> NoClient, todo |-> {}, roster |-> {}, got |-> {}, round |-> 0]]

-----------------------------------------------------------------------------
(* Clients come, choose channels and go. *)

Connect(c, chans) ==
  /\ c \in fresh /\ fresh' = fresh \ {c}
  /\ IF Cardinality(active) >= MaxConnections
     THEN UNCHANGED <<active, channelsOf, subscribers>>
     ELSE /\ active' = active \union {c}
          /\ channelsOf' = [channelsOf EXCEPT ![c] = chans]
          /\ subscribers' = [ch \in Channels |->
                               IF ch \in chans THEN subscribers[ch] \union {c} ELSE subscribers[ch]]
  /\ UNCHANGED sender

Subscribe(c, chans) ==
  /\ c \in active
  /\ channelsOf' = [channelsOf EXCEPT ![c] = @ \union chans]
  /\ subscribers' = [ch \in Channels |->
                       IF ch \in chans THEN subscribers[ch] \union {c} ELSE subscribers[ch]]
  /\ UNCHANGED <<fresh, active, sender>>

Unsubscribe(c, chans) ==
  /\ c \in active
  /\ channelsOf' = [channelsOf EXCEPT ![c] = @ \ chans]
  /\ subscribers' = [ch \in Channels |->
                       IF ch \in chans THEN subscribers[ch] \ {c} ELSE subscribers[ch]]
  /\ UNCHANGED <<fresh, active, sender>>

(* disconnect: nothing for a client that has gone already.                  *)
Removed(c) ==
  IF c \notin active
  THEN UNCHANGED <<active, subscribers>>
  ELSE /\ active' = active \ {c}
       /\ subscribers' = [ch \in Channels |->
                            IF ch \in channelsOf[c] THEN subscribers[ch] \ {c} ELSE subscribers[ch]]

Disconnect(c) ==
  /\ c \in active /\ Removed(c)
  /\ UNCHANGED <<fresh, channelsOf, sender>>

-----------------------------------------------------------------------------
(* Sending to many. *)

Ready(t) == sender[t].at = NoClient /\ sender[t].todo = {} /\ sender[t].round < MaxMessages

StartWith(t, ids) ==
  sender' = [sender EXCEPT ![t] =
               [at |-> NoClient, todo |-> ids, roster |-> ids, got |-> {}, round |-> @.round + 1]]

Broadcast(t, ch) ==
  /\ Ready(t) /\ StartWith(t, subscribers[ch])
  /\ UNCHANGED <<fresh, active, channelsOf, subscribers>>

(* broadcast_to_all, and one round of the heartbeat.                        *)
BroadcastToAll(t) ==
  /\ Ready(t) /\ StartWith(t, active)
  /\ UNCHANGED <<fresh, active, channelsOf, subscribers>>

(* send_personal_message passes over an id that has gone; else it awaits.   *)
Send(t, c) ==
  /\ sender[t].at = NoClient /\ c \in sender[t].todo
  /\ sender' = [sender EXCEPT ![t].todo = @ \ {c}, ![t].at = IF c \in active THEN c ELSE NoClient]
  /\ UNCHANGED <<fresh, active, channelsOf, subscribers>>

Sent(t) ==
  /\ sender[t].at # NoClient
  /\ sender' = [sender EXCEPT ![t].at = NoClient, ![t].got = @ \union {sender[t].at}]
  /\ UNCHANGED <<fresh, active, channelsOf, subscribers>>

\* Mutant of AfterFailure: the exception leaves the loop.
AfterFailureLeaves(t) == [sender[t] EXCEPT !.at = NoClient, !.todo = {}]

(* A send that raises disconnects its client, and the next one is sent to.  *)
AfterFailure(t) == [sender[t] EXCEPT !.at = NoClient]

SendRaised(t) ==
  /\ sender[t].at # NoClient
  /\ Removed(sender[t].at)
  /\ sender' = [sender EXCEPT ![t] = AfterFailure(t)]
  /\ UNCHANGED <<fresh, channelsOf>>

WsNext ==
  \/ \E c \in Clients, chans \in SUBSET Channels :
       Connect(c, chans) \/ Subscribe(c, chans) \/ Unsubscribe(c, chans)
  \/ \E c \in Clients : Disconnect(c)
  \/ \E t \in Senders : \/ \E ch \in Channels : Broadcast(t, ch)
                        \/ BroadcastToAll(t)
                        \/ \E c \in Clients : Send(t, c)
                        \/ Sent(t) \/ SendRaised(t)

WsSpec == WsInit /\ [][WsNext]_wsVars

-----------------------------------------------------------------------------
(* The two tables agree, and a message to many misses only clients that     *)
(* have gone, whoever connects, subscribes or is dropped between its sends  *)
(* (websocket_manager.py:180-199).                                          *)
TablesAgree ==
  \A ch \in Channels : subscribers[ch] = {c \in active : ch \in channelsOf[c]}

MissesOnlyTheGone ==
  /\ TablesAgree
  /\ \A t \in Senders :
       sender[t].roster \intersect active
         \subseteq sender[t].todo \union sender[t].got \union {sender[t].at}
=============================================================================
