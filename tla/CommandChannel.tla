---------------------------- MODULE CommandChannel ----------------------------
(***************************************************************************)
(* What the serial line between a host and its modem promises: the         *)
(* commands the host sends reach the modem whole, in order, once each.     *)
(***************************************************************************)
EXTENDS Naturals, Sequences

CONSTANTS
    Message,      \* what can be sent
    MaxSent       \* bound: messages sent in a behaviour

VARIABLES
    sent,         \* the messages sent so far
    delivered     \* the messages delivered so far

channel == <<sent, delivered>>

Init == sent = <<>> /\ delivered = <<>>

Send(m) ==
    /\ Len(sent) < MaxSent
    /\ sent' = Append(sent, m)
    /\ UNCHANGED delivered

DeliverNext ==
    /\ Len(delivered) < Len(sent)
    /\ delivered' = Append(delivered, sent[Len(delivered) + 1])
    /\ UNCHANGED sent

Next == (\E m \in Message : Send(m)) \/ DeliverNext

Spec == Init /\ [][Next]_channel

================================================================================
