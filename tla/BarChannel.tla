----------------------------- MODULE BarChannel -----------------------------
(***************************************************************************)
(* What the bus promises whoever listens to the bars of a series: a bar is *)
(* delivered once, after those completed before it and before those        *)
(* completed later, whatever else the bus carries and whatever other       *)
(* series do.  The channels share one fate: when the bus breaks down,      *)
(* nothing is delivered on any of them again, and a bar completed in the   *)
(* moment it breaks down never gets on its way.                            *)
(***************************************************************************)
EXTENDS SequencesExt

CONSTANT Channels

VARIABLES
  sent,      \* the bars of each channel, in the order of their completion
  waiting,   \* those on their way
  got,       \* those delivered
  broken

channelVars == <<sent, waiting, got, broken>>

Added(bars, ch, bar) == [bars EXCEPT ![ch] = Append(@, bar)]

ChannelInit ==
  /\ sent = [ch \in Channels |-> <<>>]
  /\ waiting = [ch \in Channels |-> <<>>]
  /\ got = [ch \in Channels |-> <<>>]
  /\ broken = FALSE

\* A bar is completed, and either goes on its way or the bus breaks down with it.
Send(ch) ==
  /\ ~broken
  /\ Len(sent'[ch]) > Len(sent[ch])
  /\ sent' = Added(sent, ch, Last(sent'[ch]))
  /\ \/ waiting' = Added(waiting, ch, Last(sent'[ch])) /\ UNCHANGED broken
     \/ broken' = TRUE /\ UNCHANGED waiting
  /\ UNCHANGED got

Deliver(ch) ==
  /\ ~broken
  /\ waiting[ch] # <<>>
  /\ got' = Added(got, ch, Head(waiting[ch]))
  /\ waiting' = [waiting EXCEPT ![ch] = Tail(@)]
  /\ UNCHANGED <<sent, broken>>

Breaks ==
  /\ broken' = TRUE
  /\ UNCHANGED <<sent, waiting, got>>

ChannelNext ==
  \/ \E ch \in Channels : Send(ch) \/ Deliver(ch)
  \/ Breaks

ChannelSpec == ChannelInit /\ [][ChannelNext]_channelVars
=============================================================================
