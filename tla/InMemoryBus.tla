------------------------------ MODULE InMemoryBus ------------------------------
(***************************************************************************)
(* The in-process acoustic bus of nanomodem (core/transports/in_memory.py):*)
(* an InMemoryBus, the InMemoryTransport objects on it, and the            *)
(* application code that their callbacks run.                              *)
(*                                                                         *)
(* Everything is synchronous.  A handler of the bus calls                  *)
(* InMemoryTransport.deliver, which runs application code BEFORE the       *)
(* handler's next statement; that code may itself send commands, change an *)
(* address, construct or stop transports, or raise.  The model therefore   *)
(* keeps the call stack: one frame per command being handled.  A step runs *)
(* a handler from where its last callback returned to its next delivery,   *)
(* or to its return.                                                       *)
(***************************************************************************)
EXTENDS Integers, Sequences, FiniteSets

CONSTANTS
    Transport,      \* the InMemoryTransport objects that may be constructed
    Id,             \* node addresses ("001" ... "255" in the code)
    NoTransport,    \* None
    NoId,           \* the node_id of an object that is not yet constructed
    MaxDepth,       \* bound: commands nested in each other's callbacks
    TopOps,         \* operations the application performs outside callbacks
    NestedOps,      \* operations it performs inside event callbacks
    MayRaise,       \* an application callback may raise
    Disciplined     \* the application constructs a transport only under a
                    \* free id and stops each transport at most once

\* The ModemCommand variants dispatched by the bus (core/wire_types.py).
Commands == {"Broadcast", "Unicast", "UnicastWithAck", "Ping", "StatusQuery",
             "QualityQuery", "TestRequest", "SetAddress", "RemoteVoltageQuery",
             "Echo"}

\* The commands that read a heard flag or move it.
FlagCommands == {"SetAddress", "QualityQuery"}

\* What the application does to a transport without sending a command.
Lifecycle == {"Construct", "Stop", "Reposition"}

\* The ModemEvent variants; "Dispatched" is a command not yet handled.
DataEvents == {"ReceivedBroadcast", "ReceivedUnicast", "TestBroadcastReceived"}
LocalAcks  == {"BroadcastAck", "UnicastAck", "UnicastWithAckAck", "PingAck",
               "TestRequestAck", "RemoteVoltageAck", "EchoAck"}
Results    == {"Roundtrip", "PingTimeout", "Status", "QualityIndicator",
               "QualityRejected", "AddressSet", "RemoteVoltage"}
Events     == DataEvents \cup LocalAcks \cup Results

ASSUME ConstantsAssumption ==
    /\ NoTransport \notin Transport
    /\ NoId \notin Id
    /\ MaxDepth \in Nat \ {0}
    /\ TopOps \subseteq Commands \cup Lifecycle
    /\ NestedOps \subseteq Commands \cup Lifecycle
    /\ MayRaise \in BOOLEAN
    /\ Disciplined \in BOOLEAN

VARIABLES
    nodeId,      \* InMemoryTransport.node_id of each object
    positioned,  \* the objects whose position is not None
    registry,    \* InMemoryBus._transports
    heard,       \* the keys of InMemoryBus._heard_data_packet (all True)
    stack,       \* the handlers being executed, innermost last
    stopped,     \* ghost: objects on which stop() has been called
    detected,    \* ghost: objects with a data packet delivered since the
                 \*        last quality query made under their address
    undisturbed  \* ghost: no flag has been left behind; no transport has been
                 \*        stopped, and no callback that was receiving data has
                 \*        raised, changed its address or asked for quality

vars == <<nodeId, positioned, registry, heard, stack, stopped, detected, undisturbed>>
objects == <<nodeId, positioned, stopped>>

MaybeTransport == Transport \cup {NoTransport}

\* A frame is a call of InMemoryBus.dispatch: the command, the ids it names,
\* the sender object once looked up, the listeners still to serve, and the
\* delivery in progress (the event and the transport whose callback runs).
\* caller is a ghost: the object whose send_command made the call.
Frame == [op     : Commands,
          caller : Transport,
          sid    : Id,
          tid    : Id,
          src    : MaybeTransport,
          todo   : SUBSET Transport,
          rcpt   : MaybeTransport,
          event  : Events \cup {"Dispatched"}]

Constructed == {t \in Transport : nodeId[t] # NoId}
Top == stack[Len(stack)]

\* A data packet is just being delivered to t: its heard flag is yet to be set.
Hearing(t) == \E k \in 1..Len(stack) : stack[k].event \in DataEvents /\ stack[k].rcpt = t

\* Application code runs at top level and inside a delivery.
InApplication == stack # <<>> => Top.rcpt # NoTransport
May(op) == /\ InApplication
           /\ op \in IF stack = <<>> THEN TopOps ELSE NestedOps

--------------------------------------------------------------------------------
(* The application's operations on the transport objects.                     *)

Init ==
    /\ nodeId = [t \in Transport |-> NoId]
    /\ positioned = {}
    /\ registry = [i \in Id |-> NoTransport]
    /\ heard = {}
    /\ stack = <<>>
    /\ stopped = {}
    /\ detected = {}
    /\ undisturbed = TRUE

\* InMemoryTransport(node_id, bus): register overwrites whoever had the id.
Construct(t, i) ==
    /\ May("Construct")
    /\ nodeId[t] = NoId
    /\ Disciplined => registry[i] = NoTransport
    /\ nodeId' = [nodeId EXCEPT ![t] = i]
    /\ registry' = [registry EXCEPT ![i] = t]
    /\ UNCHANGED <<positioned, heard, stack, stopped, detected, undisturbed>>

\* InMemoryTransport.stop: unregister pops the id, whoever is under it.
StopForgettingId(t) ==    \* mutant: stop also clears node_id
    /\ May("Stop")
    /\ t \in Constructed
    /\ Disciplined => t \notin stopped
    /\ registry' = [registry EXCEPT ![nodeId[t]] = NoTransport]
    /\ nodeId' = [nodeId EXCEPT ![t] = NoId]
    /\ stopped' = stopped \cup {t}
    /\ undisturbed' = FALSE
    /\ UNCHANGED <<positioned, heard, stack, detected>>
Stop(t) ==
    /\ May("Stop")
    /\ t \in Constructed
    /\ Disciplined => t \notin stopped
    /\ registry' = [registry EXCEPT ![nodeId[t]] = NoTransport]
    /\ stopped' = stopped \cup {t}
    /\ undisturbed' = FALSE
    /\ UNCHANGED <<nodeId, positioned, heard, stack, detected>>

\* transport.position is assigned a coordinate or None.
Reposition(t) ==
    /\ May("Reposition")
    /\ t \in Constructed
    /\ positioned' = IF t \in positioned THEN positioned \ {t} ELSE positioned \cup {t}
    /\ UNCHANGED <<nodeId, registry, heard, stack, stopped, detected, undisturbed>>

\* InMemoryTransport.send_command: the bus sees the object's current node_id.
\* The ids a command does not carry are not distinguished.
SendCommand(t, op, i) ==
    /\ Len(stack) < MaxDepth
    /\ May(op)
    /\ t \in Constructed
    /\ stack' = Append(stack, [op |-> op, caller |-> t, sid |-> nodeId[t], tid |-> i,
                               src |-> NoTransport, todo |-> {},
                               rcpt |-> NoTransport, event |-> "Dispatched"])
    /\ undisturbed' = (undisturbed /\ ~(op \in FlagCommands /\ Hearing(t)))
    /\ UNCHANGED <<objects, registry, heard, detected>>

--------------------------------------------------------------------------------
(* Control: how a handler moves from one delivery to the next.                *)

At(op, event) == stack # <<>> /\ Top.op = op /\ Top.event = event

Proceed(frame) == stack' = [stack EXCEPT ![Len(stack)] = frame]
Return == stack' = SubSeq(stack, 1, Len(stack) - 1)

\* transport.deliver(event) from the handler on top.
Deliver(t, e) == Proceed([Top EXCEPT !.rcpt = t, !.event = e])
DeliverToSender(t, e) == Proceed([Top EXCEPT !.src = t, !.rcpt = t, !.event = e])

\* What a command starts with, or a unicast ends with: its sender, if the sender's
\* id is registered at that moment, is handed e; otherwise the handler returns.
ReplyToTarget(e) ==    \* mutant: the wrong id is looked up
    LET target == registry[Top.tid] IN
    IF target = NoTransport THEN Return ELSE DeliverToSender(target, e)
ReplyToSender(e) ==
    LET sender == registry[Top.sid] IN
    IF sender = NoTransport THEN Return ELSE DeliverToSender(sender, e)

\* get_all_except(id), evaluated to a list before the first delivery.
AllOfThem(i) == {registry[j] : j \in Id} \ {NoTransport}    \* mutant: no exception
AllExcept(i) == {registry[j] : j \in Id \ {i}} \ {NoTransport}

\* for listener in ...: listener.deliver(event).  The bus goes through the
\* snapshot in insertion order; the model allows every order.
DeliverToEach(listeners, e) ==
    IF listeners = {}
    THEN Return /\ UNCHANGED detected
    ELSE \E l \in listeners :
            /\ Proceed([Top EXCEPT !.rcpt = l, !.todo = listeners \ {l}, !.event = e])
            /\ detected' = detected \cup {l}

\* The listener's callback has returned: heard[listener.node_id] = True.
NextListener(e) ==
    /\ heard' = heard \cup {nodeId[Top.rcpt]}
    /\ DeliverToEach(Top.todo, e)

--------------------------------------------------------------------------------
(* The handlers of InMemoryBus.dispatch.                                      *)

Broadcast ==
    LET sender == registry[Top.sid] IN
    \/ /\ At("Broadcast", "Dispatched")
       /\ IF sender # NoTransport
          THEN DeliverToSender(sender, "BroadcastAck") /\ UNCHANGED detected
          ELSE DeliverToEach(AllExcept(Top.sid), "ReceivedBroadcast")
       /\ UNCHANGED <<objects, undisturbed, registry, heard>>
    \/ /\ At("Broadcast", "BroadcastAck")
       /\ DeliverToEach(AllExcept(Top.sid), "ReceivedBroadcast")
       /\ UNCHANGED <<objects, undisturbed, registry, heard>>
    \/ /\ At("Broadcast", "ReceivedBroadcast")
       /\ NextListener("ReceivedBroadcast")
       /\ UNCHANGED <<objects, undisturbed, registry>>

\* Both unicasts deliver first; the ack follows, and only if the target exists.
UnicastOf(op, ack) ==
    LET target == registry[Top.tid] IN
    /\ \/ /\ At(op, "Dispatched")
          /\ IF target = NoTransport
             THEN Return /\ UNCHANGED detected
             ELSE /\ Deliver(target, "ReceivedUnicast")
                  /\ detected' = detected \cup {target}
          /\ UNCHANGED heard
       \/ /\ At(op, "ReceivedUnicast")
          /\ heard' = heard \cup {Top.tid}
          /\ ReplyToSender(ack)
          /\ UNCHANGED detected
       \/ /\ At(op, ack)
          /\ Return
          /\ UNCHANGED <<heard, detected>>
    /\ UNCHANGED <<objects, undisturbed, registry>>

Unicast == UnicastOf("Unicast", "UnicastAck")
UnicastWithAck == UnicastOf("UnicastWithAck", "UnicastWithAckAck")

\* Another transport has the new id.
NeverTaken(transport, new) == FALSE    \* mutant: the check is dropped
Taken(transport, new) == registry[new] \notin {NoTransport, transport}

\* The registry, the transport's own node_id and its heard flag move together.
RekeyInRegistryOnly(transport, old, new) ==    \* mutant: node_id is not updated
    /\ registry' = [registry EXCEPT ![old] = NoTransport, ![new] = transport]
    /\ UNCHANGED <<nodeId, heard>>
RekeyWithoutFlag(transport, old, new) ==       \* mutant: the flag stays behind
    /\ registry' = [registry EXCEPT ![old] = NoTransport, ![new] = transport]
    /\ nodeId' = [nodeId EXCEPT ![transport] = new]
    /\ UNCHANGED heard
Rekey(transport, old, new) ==
    /\ registry' = [registry EXCEPT ![old] = NoTransport, ![new] = transport]
    /\ nodeId' = [nodeId EXCEPT ![transport] = new]
    /\ heard' = IF old \in heard THEN (heard \ {old}) \cup {new} ELSE heard

\* Everything from the lookup to the AddressSet delivery is one atomic stretch.
SetAddress ==
    LET old == Top.sid
        new == Top.tid
        transport == registry[old]
    IN
    /\ \/ /\ At("SetAddress", "Dispatched")
          /\ transport = NoTransport \/ (new # old /\ Taken(transport, new))
          /\ Return
          /\ UNCHANGED <<nodeId, registry, heard>>
       \/ /\ At("SetAddress", "Dispatched")
          /\ transport # NoTransport
          /\ new # old => ~Taken(transport, new)
          /\ Rekey(transport, old, new)
          /\ DeliverToSender(transport, "AddressSet")
       \/ /\ At("SetAddress", "AddressSet")
          /\ Return
          /\ UNCHANGED <<nodeId, registry, heard>>
    /\ UNCHANGED <<positioned, stopped, detected, undisturbed>>

RemoteVoltageQuery ==
    /\ \/ At("RemoteVoltageQuery", "Dispatched") /\ ReplyToSender("RemoteVoltageAck")
       \/ /\ At("RemoteVoltageQuery", "RemoteVoltageAck")
          /\ IF registry[Top.tid] = NoTransport THEN Return
             ELSE Deliver(Top.src, "RemoteVoltage")
       \/ At("RemoteVoltageQuery", "RemoteVoltage") /\ Return
    /\ UNCHANGED <<objects, undisturbed, registry, heard, detected>>

Echo ==
    /\ \/ /\ At("Echo", "Dispatched")
          /\ IF registry[Top.tid] = NoTransport THEN Return ELSE ReplyToSender("EchoAck")
       \/ At("Echo", "EchoAck") /\ Return
    /\ UNCHANGED <<objects, undisturbed, registry, heard, detected>>

\* The sender object is captured before the ack callback; target and positions
\* are read after it.
Ping ==
    LET target == registry[Top.tid]
        inRange == target # NoTransport /\ {Top.src, target} \subseteq positioned
    IN
    /\ \/ At("Ping", "Dispatched") /\ ReplyToSender("PingAck")
       \/ /\ At("Ping", "PingAck")
          /\ Deliver(Top.src, IF inRange THEN "Roundtrip" ELSE "PingTimeout")
       \/ /\ At("Ping", "Roundtrip") \/ At("Ping", "PingTimeout")
          /\ Return
    /\ UNCHANGED <<objects, undisturbed, registry, heard, detected>>

StatusQuery ==
    /\ \/ At("StatusQuery", "Dispatched") /\ ReplyToSender("Status")
       \/ At("StatusQuery", "Status") /\ Return
    /\ UNCHANGED <<objects, undisturbed, registry, heard, detected>>

\* The heard flag is popped before the answer is delivered.
QualityQuery ==
    LET transport == registry[Top.sid] IN
    /\ \/ /\ At("QualityQuery", "Dispatched")
          /\ IF transport = NoTransport
             THEN Return /\ UNCHANGED <<heard, detected>>
             ELSE /\ heard' = heard \ {Top.sid}
                  /\ detected' = detected \ {transport}
                  /\ DeliverToSender(transport, IF Top.sid \in heard THEN "QualityIndicator"
                                                ELSE "QualityRejected")
       \/ /\ At("QualityQuery", "QualityIndicator") \/ At("QualityQuery", "QualityRejected")
          /\ Return
          /\ UNCHANGED <<heard, detected>>
    /\ UNCHANGED <<objects, undisturbed, registry>>

\* The listeners of the test message are all transports but the target's id.
TestRequest ==
    /\ \/ /\ At("TestRequest", "Dispatched")
          /\ IF registry[Top.tid] = NoTransport THEN Return
             ELSE ReplyToSender("TestRequestAck")
          /\ UNCHANGED <<heard, detected>>
       \/ /\ At("TestRequest", "TestRequestAck")
          /\ DeliverToEach(AllExcept(Top.tid), "TestBroadcastReceived")
          /\ UNCHANGED heard
       \/ /\ At("TestRequest", "TestBroadcastReceived")
          /\ NextListener("TestBroadcastReceived")
    /\ UNCHANGED <<objects, undisturbed, registry>>

\* An exception of a callback ends the handler that delivered the event and
\* reaches the application code that sent that command, which may raise again.
CallbackRaises ==
    /\ MayRaise
    /\ stack # <<>>
    /\ Top.rcpt # NoTransport
    /\ Return
    /\ undisturbed' = (undisturbed /\ Top.event \notin DataEvents)
    /\ UNCHANGED <<objects, registry, heard, detected>>

--------------------------------------------------------------------------------

Handle == \/ Broadcast \/ Unicast \/ UnicastWithAck \/ SetAddress
          \/ RemoteVoltageQuery \/ Echo \/ Ping \/ StatusQuery
          \/ QualityQuery \/ TestRequest

Next ==
    \/ \E t \in Transport, i \in Id : Construct(t, i)
    \/ \E t \in Transport : Stop(t) \/ Reposition(t)
    \/ \E t \in Transport, op \in Commands \cap (TopOps \cup NestedOps), i \in Id :
            SendCommand(t, op, i)
    \/ Handle
    \/ CallbackRaises

Spec == Init /\ [][Next]_vars

--------------------------------------------------------------------------------
(* Properties.                                                                *)

\* Every variable has its type: names are ids, frames hold constructed objects.
TypeOK ==
    /\ nodeId \in [Transport -> Id \cup {NoId}]
    /\ positioned \subseteq Transport
    /\ registry \in [Id -> MaybeTransport]
    /\ heard \subseteq Id
    /\ stack \in Seq(Frame)
    /\ stopped \subseteq Transport
    /\ detected \subseteq Transport
    /\ undisturbed \in BOOLEAN

\* The bus files every transport under the address the transport itself
\* believes it has, through every re-keying by SetAddress, displacement by a
\* second constructor and stop, whoever's command caused it
\* (in_memory.py register, unregister, _handle_set_address).
RegistryConsistent ==
    \A i \in Id : registry[i] # NoTransport => nodeId[registry[i]] = i

\* When no constructor takes an id in use and nobody stops twice, the bus
\* reaches exactly the transports that have not been stopped: none is evicted
\* by another's stop or address change, and none lingers (in_memory.py:60-64,
\* 140-161).
RegisteredIffLive ==
    \A t \in Constructed : registry[nodeId[t]] = t <=> t \notin stopped

\* Acks and results reach the transport object that sent the command for as long
\* as it keeps the address it sent under, although the bus works with ids and
\* looks the sender of a unicast up only after the target's callback has run
\* (in_memory.py:119-138).
RepliesToCaller ==
    [][LET k == Len(stack) IN
         /\ stack # <<>> /\ Len(stack') = k
         /\ stack'[k].event \in (LocalAcks \cup Results) \ {stack[k].event}
         /\ stack[k].caller \notin stopped
         /\ nodeId[stack[k].caller] = stack[k].sid
         => stack'[k].rcpt = stack[k].caller]_vars

\* A broadcast is delivered to all live transports and not to its sender, as they
\* stand when the ack callback has returned, if the sender still has the address
\* it sent under (in_memory.py:101-109).
BroadcastReachesOthers ==
    [][LET k == Len(stack) IN
         /\ At("Broadcast", "BroadcastAck") /\ Len(stack') = k
         /\ stack'[k].event = "ReceivedBroadcast"
         /\ Top.src \notin stopped
         /\ nodeId[Top.src] = Top.sid
         => {stack'[k].rcpt} \cup stack'[k].todo = Constructed \ (stopped \cup {Top.src})]_vars

\* The heard flag follows the modem: until a transport is stopped, or a callback
\* that is receiving data raises, changes its address or asks for quality, a
\* transport to which nothing is just being delivered is flagged iff a data packet
\* has reached it since the last quality query under its address, whatever
\* addresses it has had, and whatever the other callbacks send, construct or
\* re-address (in_memory.py:109, 116, 157-159, 231).
QualityExact ==
    undisturbed => \A t \in Constructed : ~Hearing(t) => (nodeId[t] \in heard <=> t \in detected)

================================================================================
