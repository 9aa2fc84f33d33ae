-------------------------- MODULE InMemoryBus_proofs ---------------------------
(***************************************************************************)
(* Theorems about InMemoryBus: its types, the consistency of the registry  *)
(* and, for a disciplined application, that the bus reaches exactly the    *)
(* transports that have not been stopped, that answers reach the object    *)
(* that sent the command, that broadcasts reach all the others and that    *)
(* the heard flags are exact until an application disturbs them.  They     *)
(* hold for any numbers of transports and ids, any nesting depth and any   *)
(* choice of operations.                                                   *)
(*                                                                         *)
(* The registry invariant has to travel with the types: a handler flags    *)
(* heard[listener.node_id] for a listener it found in the registry before  *)
(* its callback ran, and that listener's node_id is an id only because     *)
(* whatever the registry held was constructed and stays so.                *)
(***************************************************************************)
EXTENDS InMemoryBus, SequenceTheorems, TLAPS

\* A frame only refers to transports of C; a fan-out delivery has a recipient.
FrameRefersTo(f, C) ==
    /\ f.rcpt \in C \cup {NoTransport}
    /\ f.src \in C \cup {NoTransport}
    /\ f.todo \subseteq C
    /\ f.event # "Dispatched" => f.rcpt # NoTransport
    /\ f.event \in Results \cup LocalAcks => f.src # NoTransport

FramesRefer == \A k \in 1..Len(stack) : FrameRefersTo(stack[k], Constructed)

\* The inductive invariant.
IInv == TypeOK /\ RegistryConsistent /\ FramesRefer /\ stopped \subseteq Constructed

--------------------------------------------------------------------------------
(* The stack operations keep frames typed and referring to constructed        *)
(* transports.                                                                *)

\* What a handler does to the stack: it returns, or proceeds to frame f.
StackMoves == Return \/ \E f \in Frame : FrameRefersTo(f, Constructed') /\ Proceed(f)

\* A reference to constructed transports survives constructing more of them.
LEMMA RefersMonotone ==
    ASSUME NEW f, NEW C, NEW D, C \subseteq D, FrameRefersTo(f, C)
    PROVE  FrameRefersTo(f, D)
  BY DEF FrameRefersTo

\* Dropping the last element of a sequence keeps the others.
LEMMA ButLast ==
    ASSUME NEW S, NEW s \in Seq(S), s # <<>>, NEW r, r = SubSeq(s, 1, Len(s) - 1)
    PROVE  /\ r \in Seq(S)
           /\ Len(r) = Len(s) - 1
           /\ \A k \in 1..Len(r) : r[k] = s[k]
<1>. DEFINE n == Len(s) - 1
<1>1. n \in Nat /\ n \in Int /\ 1 \in Int /\ \A k \in 1..n : s[k] \in S
  OBVIOUS
<1>. HIDE DEF n
<1>2. /\ SubSeq(s, 1, n) \in Seq(S)
      /\ Len(SubSeq(s, 1, n)) = IF 1 <= n THEN n - 1 + 1 ELSE 0
      /\ \A k \in 1..(n - 1 + 1) : SubSeq(s, 1, n)[k] = s[1 + k - 1]
  BY <1>1, SubSeqProperties
<1>3. r = SubSeq(s, 1, n)
  BY DEF n
<1>4. Len(r) = n
  BY <1>1, <1>2, <1>3
<1>5. ASSUME NEW k \in 1..n  PROVE r[k] = s[k]
  <2>1. k \in 1..(n - 1 + 1) /\ 1 + k - 1 = k
    BY <1>1
  <2>. QED  BY <1>2, <1>3, <2>1
<1>. QED  BY <1>2, <1>3, <1>4, <1>5 DEF n

\* Whatever a handler does to the stack, the stack stays sound.
LEMMA StackMovesSound ==
    ASSUME stack \in Seq(Frame), stack # <<>>, FramesRefer,
           Constructed \subseteq Constructed', StackMoves
    PROVE  stack' \in Seq(Frame) /\ FramesRefer'
<1>1. CASE Return
  <2>1. /\ stack' \in Seq(Frame)
        /\ Len(stack') = Len(stack) - 1
        /\ \A k \in 1..Len(stack') : stack'[k] = stack[k]
    BY <1>1, ButLast DEF Return
  <2>2. \A k \in 1..Len(stack') : FrameRefersTo(stack'[k], Constructed')
    BY <2>1, RefersMonotone DEF FramesRefer
  <2>. QED  BY <2>1, <2>2 DEF FramesRefer
<1>2. ASSUME NEW f \in Frame, FrameRefersTo(f, Constructed'), Proceed(f)
      PROVE  stack' \in Seq(Frame) /\ FramesRefer'
  <2>1. /\ stack' \in Seq(Frame)
        /\ Len(stack') = Len(stack)
        /\ \A k \in 1..Len(stack) : stack'[k] = IF k = Len(stack) THEN f ELSE stack[k]
    BY <1>2 DEF Proceed
  <2>2. \A k \in 1..Len(stack') : FrameRefersTo(stack'[k], Constructed')
    BY <1>2, <2>1, RefersMonotone DEF FramesRefer
  <2>. QED  BY <2>1, <2>2 DEF FramesRefer
<1>. QED  BY <1>1, <1>2 DEF StackMoves

\* Under the invariant the innermost frame is a frame, and sound.
LEMMA TopIsFrame ==
    ASSUME IInv, stack # <<>>
    PROVE  Top \in Frame /\ FrameRefersTo(Top, Constructed)
<1>1. Len(stack) \in 1..Len(stack)
  BY DEF IInv, TypeOK
<1>. QED  BY <1>1 DEF IInv, TypeOK, FramesRefer, Top

\* What the registry holds has been constructed.
LEMMA RegisteredIsConstructed ==
    ASSUME IInv, NEW i \in Id
    PROVE  registry[i] \in Constructed \cup {NoTransport}
  BY ConstantsAssumption
  DEF IInv, TypeOK, RegistryConsistent, Constructed, MaybeTransport

\* Delivering event e to a constructed transport proceeds to a sound frame.
LEMMA DeliverMoves ==
    ASSUME IInv, stack # <<>>, Constructed \subseteq Constructed',
           NEW t \in Constructed, NEW e \in Events,
           \/ DeliverToSender(t, e)
           \/ Deliver(t, e) /\ (e \in DataEvents \/ Top.src # NoTransport)
    PROVE  StackMoves
<1>1. Top \in Frame /\ FrameRefersTo(Top, Constructed)
  BY TopIsFrame
<1>2. CASE DeliverToSender(t, e)
  <2>. DEFINE f == [Top EXCEPT !.src = t, !.rcpt = t, !.event = e]
  <2>1. f \in Frame
    BY <1>1 DEF Frame, Constructed, MaybeTransport
  <2>2. FrameRefersTo(f, Constructed')
    BY <1>1, ConstantsAssumption DEF FrameRefersTo, Frame, Constructed, MaybeTransport
  <2>. QED  BY <1>2, <2>1, <2>2 DEF StackMoves, DeliverToSender
<1>3. CASE Deliver(t, e) /\ (e \in DataEvents \/ Top.src # NoTransport)
  <2>. DEFINE f == [Top EXCEPT !.rcpt = t, !.event = e]
  <2>1. f \in Frame
    BY <1>1 DEF Frame, Constructed, MaybeTransport
  <2>2. FrameRefersTo(f, Constructed')
    BY <1>1, <1>3, ConstantsAssumption
    DEF FrameRefersTo, Frame, Constructed, MaybeTransport, DataEvents, Results, LocalAcks
  <2>. QED  BY <1>3, <2>1, <2>2 DEF StackMoves, Deliver
<1>. QED  BY <1>2, <1>3

\* A fan-out moves the stack soundly and only marks constructed listeners.
LEMMA FanOutMoves ==
    ASSUME IInv, stack # <<>>, UNCHANGED nodeId,
           NEW listeners \in SUBSET Constructed, NEW e \in DataEvents,
           DeliverToEach(listeners, e)
    PROVE  StackMoves /\ detected' \subseteq Transport
<1>1. Top \in Frame /\ FrameRefersTo(Top, Constructed)
  BY TopIsFrame
<1>2. CASE listeners = {}
  BY <1>2 DEF DeliverToEach, StackMoves, IInv, TypeOK
<1>3. CASE listeners # {}
  <2>1. PICK l \in listeners :
          /\ Proceed([Top EXCEPT !.rcpt = l, !.todo = listeners \ {l}, !.event = e])
          /\ detected' = detected \cup {l}
    BY <1>3 DEF DeliverToEach
  <2>. DEFINE f == [Top EXCEPT !.rcpt = l, !.todo = listeners \ {l}, !.event = e]
  <2>2. f \in Frame
    BY <1>1 DEF Frame, Constructed, MaybeTransport, Events
  <2>3. FrameRefersTo(f, Constructed')
    BY <1>1, ConstantsAssumption
    DEF FrameRefersTo, Frame, Constructed, MaybeTransport, DataEvents, Results, LocalAcks
  <2>. QED  BY <2>1, <2>2, <2>3 DEF StackMoves, IInv, TypeOK, Constructed
<1>. QED  BY <1>2, <1>3

\* The listeners of a fan-out are constructed.
LEMMA AllExceptConstructed ==
    ASSUME IInv, NEW i \in Id
    PROVE  AllExcept(i) \in SUBSET Constructed
  BY RegisteredIsConstructed DEF AllExcept

\* Answering the sender returns or delivers to a registered transport.
LEMMA ReplyMoves ==
    ASSUME IInv, stack # <<>>, Constructed' = Constructed,
           NEW e \in Events, ReplyToSender(e)
    PROVE  StackMoves
<1>1. Top \in Frame /\ FrameRefersTo(Top, Constructed)
  BY TopIsFrame
<1>2. registry[Top.sid] \in Constructed \cup {NoTransport}
  BY <1>1, RegisteredIsConstructed DEF Frame
<1>. QED  BY <1>1, <1>2, DeliverMoves DEF ReplyToSender, StackMoves

--------------------------------------------------------------------------------
(* Each handler moves the stack soundly and keeps the bookkeeping typed.      *)

Bookkeeping == /\ heard' \subseteq Id
               /\ detected' \subseteq Transport

SoundStep == stack # <<>> /\ StackMoves /\ Bookkeeping

\* A step of the broadcast handler moves only the stack and the heard flags.
LEMMA BroadcastSound ==
    ASSUME IInv, Broadcast
    PROVE  SoundStep /\ UNCHANGED <<objects, registry>>
<1>1. stack # <<>> /\ UNCHANGED <<objects, registry>>
  BY DEF Broadcast, At
<1>2. Top \in Frame /\ FrameRefersTo(Top, Constructed) /\ Constructed' = Constructed
  BY <1>1, TopIsFrame DEF objects, Constructed
<1>3. Top.sid \in Id /\ AllExcept(Top.sid) \in SUBSET Constructed
  BY <1>2, AllExceptConstructed DEF Frame
<1>4. CASE /\ At("Broadcast", "Dispatched")
           /\ registry[Top.sid] # NoTransport
           /\ DeliverToSender(registry[Top.sid], "BroadcastAck")
           /\ UNCHANGED <<heard, detected>>
  <2>1. registry[Top.sid] \in Constructed
    BY <1>3, <1>4, RegisteredIsConstructed
  <2>. QED
    BY <1>1, <1>2, <1>4, <2>1, DeliverMoves
    DEF SoundStep, Bookkeeping, IInv, TypeOK, Events, LocalAcks
<1>5. CASE DeliverToEach(AllExcept(Top.sid), "ReceivedBroadcast") /\ UNCHANGED heard
  BY <1>1, <1>3, <1>5, FanOutMoves
  DEF SoundStep, Bookkeeping, IInv, TypeOK, DataEvents, objects
<1>6. CASE At("Broadcast", "ReceivedBroadcast") /\ NextListener("ReceivedBroadcast")
  <2>1. nodeId[Top.rcpt] \in Id /\ Top.todo \in SUBSET Constructed
    BY <1>2, <1>6 DEF At, FrameRefersTo, Constructed, IInv, TypeOK
  <2>. QED
    BY <1>1, <1>6, <2>1, FanOutMoves
    DEF NextListener, SoundStep, Bookkeeping, IInv, TypeOK, DataEvents, objects
<1>. QED  BY <1>1, <1>4, <1>5, <1>6 DEF Broadcast

\* So does a step of either unicast handler.
LEMMA UnicastSound ==
    ASSUME IInv, NEW op, NEW ack \in {"UnicastAck", "UnicastWithAckAck"},
           UnicastOf(op, ack)
    PROVE  SoundStep /\ UNCHANGED <<objects, registry>>
<1>1. stack # <<>> /\ UNCHANGED <<objects, registry>>
  BY DEF UnicastOf, At
<1>2. Top \in Frame /\ FrameRefersTo(Top, Constructed) /\ Constructed' = Constructed
  BY <1>1, TopIsFrame DEF objects, Constructed
<1>3. /\ Top.sid \in Id /\ Top.tid \in Id
      /\ registry[Top.sid] \in Constructed \cup {NoTransport}
      /\ registry[Top.tid] \in Constructed \cup {NoTransport}
  BY <1>2, RegisteredIsConstructed DEF Frame
<1>4. CASE Return /\ UNCHANGED <<heard, detected>>
  BY <1>1, <1>4 DEF SoundStep, StackMoves, Bookkeeping, IInv, TypeOK
<1>5. CASE /\ registry[Top.tid] # NoTransport
           /\ Deliver(registry[Top.tid], "ReceivedUnicast")
           /\ detected' = detected \cup {registry[Top.tid]}
           /\ UNCHANGED heard
  <2>1. StackMoves
    BY <1>1, <1>2, <1>3, <1>5, DeliverMoves DEF Events, DataEvents
  <2>. QED  BY <1>1, <1>3, <1>5, <2>1 DEF SoundStep, Bookkeeping, IInv, TypeOK, Constructed
<1>6. CASE /\ heard' = heard \cup {Top.tid}
           /\ ReplyToSender(ack)
           /\ UNCHANGED detected
  <2>1. StackMoves
    BY <1>1, <1>2, <1>6, ReplyMoves DEF Events, LocalAcks
  <2>. QED  BY <1>1, <1>3, <1>6, <2>1 DEF SoundStep, Bookkeeping, IInv, TypeOK
<1>. QED  BY <1>1, <1>4, <1>5, <1>6 DEF UnicastOf

\* The handlers that only look ids up and answer the sender.
LEMMA AnswersSound ==
    ASSUME IInv, RemoteVoltageQuery \/ Echo \/ StatusQuery \/ QualityQuery \/ Ping
    PROVE  SoundStep /\ UNCHANGED <<objects, registry>>
<1>1. stack # <<>> /\ UNCHANGED <<objects, registry>>
  BY DEF RemoteVoltageQuery, Echo, StatusQuery, QualityQuery, Ping, At
<1>2. Top \in Frame /\ FrameRefersTo(Top, Constructed) /\ Constructed' = Constructed
  BY <1>1, TopIsFrame DEF objects, Constructed
<1>3. /\ Top.sid \in Id /\ Top.tid \in Id
      /\ registry[Top.sid] \in Constructed \cup {NoTransport}
      /\ registry[Top.tid] \in Constructed \cup {NoTransport}
  BY <1>2, RegisteredIsConstructed DEF Frame
<1>4. Top.event \in LocalAcks \cup Results => Top.src \in Constructed
  BY <1>2 DEF FrameRefersTo
<1>5. Bookkeeping
  BY <1>1, <1>2, <1>3
  DEF Bookkeeping, RemoteVoltageQuery, Echo, StatusQuery, QualityQuery, Ping,
      IInv, TypeOK
<1>6. StackMoves
  <2>1. ASSUME NEW e \in Events, registry[Top.sid] # NoTransport,
               DeliverToSender(registry[Top.sid], e)
        PROVE  StackMoves
    BY <1>1, <1>2, <1>3, <2>1, DeliverMoves
  <2>8. ASSUME NEW e \in Events, ReplyToSender(e)
        PROVE  StackMoves
    BY <1>1, <1>2, <2>8, ReplyMoves
  <2>2. ASSUME NEW e \in Events, Top.event \in LocalAcks, Deliver(Top.src, e)
        PROVE  StackMoves
    BY <1>1, <1>2, <1>4, <2>2, ConstantsAssumption, DeliverMoves DEF Constructed
  <2>3. CASE RemoteVoltageQuery
    BY <2>2, <2>3, <2>8
    DEF RemoteVoltageQuery, At, StackMoves, Events, LocalAcks, Results
  <2>4. CASE Echo
    BY <2>4, <2>8 DEF Echo, StackMoves, Events, LocalAcks
  <2>5. CASE StatusQuery
    BY <2>5, <2>8 DEF StatusQuery, StackMoves, Events, Results
  <2>6. CASE QualityQuery
    BY <2>1, <2>6 DEF QualityQuery, StackMoves, Events, Results
  <2>7. CASE Ping
    BY <2>2, <2>7, <2>8 DEF Ping, At, StackMoves, Events, LocalAcks, Results
  <2>. QED  BY <2>3, <2>4, <2>5, <2>6, <2>7
<1>. QED  BY <1>1, <1>5, <1>6 DEF SoundStep

\* So does a step of the test request handler.
LEMMA TestRequestSound ==
    ASSUME IInv, TestRequest
    PROVE  SoundStep /\ UNCHANGED <<objects, registry>>
<1>1. stack # <<>> /\ UNCHANGED <<objects, registry>>
  BY DEF TestRequest, At
<1>2. Top \in Frame /\ FrameRefersTo(Top, Constructed) /\ Constructed' = Constructed
  BY <1>1, TopIsFrame DEF objects, Constructed
<1>3. Top.sid \in Id /\ Top.tid \in Id /\ AllExcept(Top.tid) \in SUBSET Constructed
  BY <1>2, AllExceptConstructed DEF Frame
<1>4. CASE At("TestRequest", "Dispatched")
  <2>1. UNCHANGED <<heard, detected>>
    BY <1>4 DEF TestRequest, At
  <2>2. Return \/ ReplyToSender("TestRequestAck")
    BY <1>4 DEF TestRequest, At
  <2>3. StackMoves
    BY <1>1, <1>2, <2>2, ReplyMoves DEF StackMoves, Events, LocalAcks
  <2>. QED  BY <1>1, <2>1, <2>3 DEF SoundStep, Bookkeeping, IInv, TypeOK
<1>5. CASE DeliverToEach(AllExcept(Top.tid), "TestBroadcastReceived") /\ UNCHANGED heard
  BY <1>1, <1>3, <1>5, FanOutMoves
  DEF SoundStep, Bookkeeping, IInv, TypeOK, DataEvents, objects
<1>6. CASE At("TestRequest", "TestBroadcastReceived") /\ NextListener("TestBroadcastReceived")
  <2>1. nodeId[Top.rcpt] \in Id /\ Top.todo \in SUBSET Constructed
    BY <1>2, <1>6 DEF At, FrameRefersTo, Constructed, IInv, TypeOK
  <2>. QED
    BY <1>1, <1>6, <2>1, FanOutMoves
    DEF NextListener, SoundStep, Bookkeeping, IInv, TypeOK, DataEvents, objects
<1>. QED  BY <1>1, <1>4, <1>5, <1>6 DEF TestRequest

--------------------------------------------------------------------------------
(* The inductive invariant.                                                   *)

\* A sound step that leaves the objects and the registry alone keeps IInv.
LEMMA SoundStepKeepsIInv ==
    ASSUME IInv, SoundStep, UNCHANGED <<objects, registry>>, undisturbed' \in BOOLEAN
    PROVE  IInv'
<1>1. Constructed' = Constructed
  BY DEF objects, Constructed
<1>2. stack' \in Seq(Frame) /\ FramesRefer'
  BY <1>1, StackMovesSound DEF SoundStep, IInv, TypeOK
<1>. QED
  BY <1>1, <1>2 DEF IInv, TypeOK, RegistryConsistent, SoundStep, Bookkeeping, objects

\* Re-keying a transport keeps every other transport under its own id.
LEMMA SetAddressKeepsIInv ==
    ASSUME IInv, SetAddress
    PROVE  IInv'
<1>1. stack # <<>> /\ UNCHANGED <<positioned, stopped, detected, undisturbed>>
  BY DEF SetAddress, At
<1>2. Top \in Frame /\ FrameRefersTo(Top, Constructed)
  BY <1>1, TopIsFrame
<1>3. CASE Return /\ UNCHANGED <<nodeId, registry, heard>>
  <2>1. SoundStep
    BY <1>1, <1>3 DEF SoundStep, StackMoves, Bookkeeping, IInv, TypeOK
  <2>. QED  BY <1>1, <1>3, <2>1, SoundStepKeepsIInv DEF objects, IInv, TypeOK
<1>4. CASE ~(Return /\ UNCHANGED <<nodeId, registry, heard>>)
  <2>. DEFINE old == Top.sid
              new == Top.tid
              t == registry[old]
  <2>1. /\ t # NoTransport
        /\ new # old => registry[new] \in {NoTransport, t}
        /\ registry' = [registry EXCEPT ![old] = NoTransport, ![new] = t]
        /\ nodeId' = [nodeId EXCEPT ![t] = new]
        /\ heard' = IF old \in heard THEN (heard \ {old}) \cup {new} ELSE heard
        /\ DeliverToSender(t, "AddressSet")
    BY <1>4 DEF SetAddress, Rekey, Taken
  <2>2. old \in Id /\ new \in Id /\ t \in Transport /\ t \in Constructed /\ nodeId[t] = old
    BY <1>2, <2>1, RegisteredIsConstructed
    DEF Frame, Constructed, IInv, RegistryConsistent
  <2>3. nodeId' \in [Transport -> Id \cup {NoId}] /\ Constructed \subseteq Constructed'
    BY <2>1, <2>2, ConstantsAssumption DEF IInv, TypeOK, Constructed
  <2>4. registry' \in [Id -> MaybeTransport]
    BY <2>1, <2>2 DEF IInv, TypeOK, MaybeTransport
  <2>5. RegistryConsistent'
    <3> SUFFICES ASSUME NEW i \in Id, registry'[i] # NoTransport
                 PROVE  nodeId'[registry'[i]] = i
      BY DEF RegistryConsistent
    <3>1. CASE i = new
      BY <2>1, <2>2, <3>1 DEF IInv, TypeOK
    <3>2. CASE i # new
      <4>1. i # old /\ registry'[i] = registry[i]
        BY <2>1, <2>2, <3>2 DEF IInv, TypeOK
      <4>2. nodeId[registry[i]] = i /\ registry[i] # t /\ registry[i] \in Transport
        BY <2>2, <4>1 DEF IInv, TypeOK, RegistryConsistent, MaybeTransport
      <4>. QED  BY <2>1, <4>1, <4>2 DEF IInv, TypeOK
    <3>. QED  BY <3>1, <3>2
  <2>6. stack' \in Seq(Frame) /\ FramesRefer'
    <3>1. StackMoves
      BY <1>1, <2>1, <2>2, <2>3, DeliverMoves DEF Events, Results
    <3>. QED  BY <1>1, <2>3, <3>1, StackMovesSound DEF IInv, TypeOK
  <2>. QED  BY <1>1, <2>1, <2>2, <2>3, <2>4, <2>5, <2>6 DEF IInv, TypeOK
<1>. QED  BY <1>3, <1>4

\* The operations of the application.
LEMMA ApplicationKeepsIInv ==
    ASSUME IInv, NEW t \in Transport, NEW i \in Id, NEW op \in Commands,
           Construct(t, i) \/ Stop(t) \/ Reposition(t) \/ SendCommand(t, op, i)
    PROVE  IInv'
<1>1. CASE Construct(t, i)
  <2>1. Constructed \subseteq Constructed'
    BY <1>1, ConstantsAssumption DEF Construct, Constructed, IInv, TypeOK
  <2>2. FramesRefer'
    BY <1>1, <2>1, RefersMonotone DEF Construct, FramesRefer, IInv
  <2>3. RegistryConsistent'
    BY <1>1, ConstantsAssumption
    DEF Construct, RegistryConsistent, IInv, TypeOK, MaybeTransport
  <2>. QED  BY <1>1, <2>1, <2>2, <2>3 DEF Construct, IInv, TypeOK, MaybeTransport
<1>2. CASE Stop(t)
  <2>1. UNCHANGED <<nodeId, positioned, heard, stack, detected>> /\ undisturbed' \in BOOLEAN
    BY <1>2 DEF Stop
  <2>2. Constructed' = Constructed /\ FramesRefer'
    BY <2>1 DEF FramesRefer, Constructed, IInv
  <2>. QED
    BY <1>2, <2>1, <2>2 DEF Stop, RegistryConsistent, IInv, TypeOK, MaybeTransport
<1>3. CASE Reposition(t)
  <2>1. Constructed' = Constructed /\ FramesRefer'
    BY <1>3 DEF Reposition, FramesRefer, Constructed, IInv
  <2>. QED  BY <1>3, <2>1 DEF Reposition, RegistryConsistent, IInv, TypeOK
<1>4. CASE SendCommand(t, op, i)
  <2>. DEFINE f == [op |-> op, caller |-> t, sid |-> nodeId[t], tid |-> i,
                    src |-> NoTransport, todo |-> {},
                    rcpt |-> NoTransport, event |-> "Dispatched"]
  <2>1. f \in Frame /\ UNCHANGED <<objects, registry, heard, detected>>
        /\ undisturbed' \in BOOLEAN
    BY <1>4 DEF SendCommand, Frame, Constructed, IInv, TypeOK, MaybeTransport
  <2>2. FrameRefersTo(f, Constructed)
    BY DEF FrameRefersTo, LocalAcks, Results
  <2>3. /\ stack' \in Seq(Frame)
        /\ Len(stack') = Len(stack) + 1
        /\ \A k \in 1..Len(stack') : stack'[k] = IF k = Len(stack) + 1 THEN f ELSE stack[k]
    BY <1>4, <2>1 DEF SendCommand, IInv, TypeOK
  <2>4. Constructed' = Constructed /\ FramesRefer'
    <3>1. Constructed' = Constructed
      BY <2>1 DEF objects, Constructed
    <3>2. ASSUME NEW k \in 1..Len(stack')  PROVE FrameRefersTo(stack'[k], Constructed)
      <4>1. CASE k = Len(stack) + 1
        BY <2>2, <2>3, <4>1
      <4>2. CASE k # Len(stack) + 1
        <5>1. k \in 1..Len(stack) /\ stack'[k] = stack[k]
          BY <2>3, <4>2 DEF IInv, TypeOK
        <5>. QED  BY <5>1 DEF FramesRefer, IInv
      <4>. QED  BY <4>1, <4>2
    <3>. QED  BY <3>1, <3>2 DEF FramesRefer
  <2>. QED  BY <2>1, <2>3, <2>4 DEF objects, RegistryConsistent, IInv, TypeOK
<1>. QED  BY <1>1, <1>2, <1>3, <1>4

\* An exception of a callback only takes the innermost frame away.
LEMMA CallbackRaisesSound ==
    ASSUME IInv, CallbackRaises
    PROVE  SoundStep /\ UNCHANGED <<objects, registry>>
<1>1. stack # <<>> /\ Return /\ UNCHANGED <<objects, registry, heard, detected>>
  BY DEF CallbackRaises
<1>. QED  BY <1>1 DEF SoundStep, StackMoves, Bookkeeping, IInv, TypeOK

\* The history stays a truth value.
LEMMA UndisturbedTyped == IInv /\ [Next]_vars => undisturbed' \in BOOLEAN
<1>. SUFFICES ASSUME IInv, [Next]_vars  PROVE undisturbed' \in BOOLEAN
  OBVIOUS
<1>1. Handle => undisturbed' = undisturbed
  BY DEF Handle, Broadcast, Unicast, UnicastWithAck, UnicastOf, SetAddress, RemoteVoltageQuery,
         Echo, Ping, StatusQuery, QualityQuery, TestRequest
<1>. QED
  BY <1>1 DEF Next, Construct, Stop, Reposition, SendCommand, CallbackRaises, vars, IInv, TypeOK

\* The empty bus satisfies the invariant.
LEMMA InitIInv == Init => IInv
  BY DEF Init, IInv, TypeOK, RegistryConsistent, FramesRefer, MaybeTransport

\* Every step keeps the invariant: one case per disjunct of Next.
LEMMA StepIInv == IInv /\ [Next]_vars => IInv'
<1>. SUFFICES ASSUME IInv, [Next]_vars  PROVE IInv'
  OBVIOUS
<1>1. CASE \E t \in Transport, i \in Id : Construct(t, i)
  BY <1>1, ApplicationKeepsIInv DEF Commands
<1>2. CASE \E t \in Transport : Stop(t) \/ Reposition(t)
  <2>1. PICK t \in Transport : Stop(t) \/ Reposition(t)
    BY <1>2
  <2>2. CASE Id = {}
    BY <2>1, <2>2 DEF Stop, Reposition, Constructed, IInv, TypeOK, FramesRefer,
                      RegistryConsistent, FrameRefersTo
  <2>3. CASE Id # {}
    BY <2>1, <2>3, ApplicationKeepsIInv DEF Commands
  <2>. QED  BY <2>2, <2>3
<1>3. CASE \E t \in Transport, op \in Commands, i \in Id : SendCommand(t, op, i)
  BY <1>3, ApplicationKeepsIInv
<1>4. CASE Handle
  BY <1>4, UndisturbedTyped, BroadcastSound, UnicastSound, AnswersSound, TestRequestSound,
     SoundStepKeepsIInv, SetAddressKeepsIInv
  DEF Handle, Unicast, UnicastWithAck
<1>5. CASE CallbackRaises
  BY <1>5, UndisturbedTyped, CallbackRaisesSound, SoundStepKeepsIInv
<1>6. CASE UNCHANGED vars
  BY <1>6 DEF vars, IInv, TypeOK, RegistryConsistent, FramesRefer, Constructed
<1>. QED  BY <1>1, <1>2, <1>3, <1>4, <1>5, <1>6 DEF Next

\* The invariant the other theorems rest on.
THEOREM IInvHolds == Spec => []IInv
  BY InitIInv, StepIInv, PTL DEF Spec

\* Every variable of the bus keeps its type, whatever the callbacks do.
THEOREM TypeCorrect == Spec => []TypeOK
<1>1. IInv => TypeOK
  BY DEF IInv
<1>. QED  BY <1>1, IInvHolds, PTL

\* The bus files every transport under the transport's own address.
THEOREM RegistryStaysConsistent == Spec => []RegistryConsistent
<1>1. IInv => RegistryConsistent
  BY DEF IInv
<1>. QED  BY <1>1, IInvHolds, PTL

--------------------------------------------------------------------------------
(* Reachability of live transports.                                           *)

\* For a disciplined application every step keeps live transports reachable:
\* only constructors, stop and SetAddress touch the registry.
LEMMA StepRegisteredIffLive ==
    ASSUME Disciplined, IInv, RegisteredIffLive, [Next]_vars
    PROVE  RegisteredIffLive'
<1>1. CASE UNCHANGED <<nodeId, registry, stopped>>
  BY <1>1 DEF RegisteredIffLive, Constructed
<1>2. ASSUME NEW t \in Transport, NEW i \in Id, Construct(t, i)
      PROVE  RegisteredIffLive'
  <2>1. /\ registry[i] = NoTransport /\ nodeId[t] = NoId
        /\ nodeId' = [nodeId EXCEPT ![t] = i]
        /\ registry' = [registry EXCEPT ![i] = t]
        /\ UNCHANGED stopped
    BY <1>2 DEF Construct
  <2>2. t \notin stopped
    BY <2>1 DEF IInv, Constructed
  <2>. SUFFICES ASSUME NEW u \in Transport, nodeId'[u] # NoId
                PROVE  registry'[nodeId'[u]] = u <=> u \notin stopped
    BY <2>1 DEF RegisteredIffLive, Constructed
  <2>3. CASE u = t
    BY <2>1, <2>2, <2>3 DEF IInv, TypeOK
  <2>4. CASE u # t
    <3>1. nodeId'[u] = nodeId[u] /\ nodeId[u] \in Id /\ u \in Constructed
      BY <2>1, <2>4 DEF IInv, TypeOK, Constructed
    <3>2. registry[nodeId[u]] = u <=> u \notin stopped
      BY <3>1 DEF RegisteredIffLive
    <3>. QED
      BY <2>1, <2>4, <3>1, <3>2, ConstantsAssumption DEF IInv, TypeOK
  <2>. QED  BY <2>3, <2>4
<1>3. ASSUME NEW t \in Transport, Stop(t)
      PROVE  RegisteredIffLive'
  <2>1. /\ t \in Constructed /\ t \notin stopped
        /\ registry' = [registry EXCEPT ![nodeId[t]] = NoTransport]
        /\ stopped' = stopped \cup {t}
        /\ UNCHANGED nodeId
    BY <1>3 DEF Stop
  <2>2. registry[nodeId[t]] = t /\ nodeId[t] \in Id
    BY <2>1 DEF RegisteredIffLive, Constructed, IInv, TypeOK
  <2>. SUFFICES ASSUME NEW u \in Constructed
                PROVE  registry'[nodeId[u]] = u <=> u \notin stopped'
    BY <2>1 DEF RegisteredIffLive, Constructed
  <2>3. registry[nodeId[u]] = u <=> u \notin stopped
    BY DEF RegisteredIffLive
  <2>4. nodeId[u] \in Id /\ u \in Transport
    BY DEF Constructed, IInv, TypeOK
  <2>. QED  BY <2>1, <2>2, <2>3, <2>4, ConstantsAssumption DEF IInv, TypeOK
<1>4. ASSUME SetAddress, ~UNCHANGED <<nodeId, registry>>
      PROVE  RegisteredIffLive'
  <2>. DEFINE old == Top.sid
              new == Top.tid
              t == registry[old]
  <2>1. /\ t # NoTransport
        /\ new # old => registry[new] \in {NoTransport, t}
        /\ registry' = [registry EXCEPT ![old] = NoTransport, ![new] = t]
        /\ nodeId' = [nodeId EXCEPT ![t] = new]
        /\ UNCHANGED stopped
    BY <1>4 DEF SetAddress, Rekey, Taken
  <2>2. old \in Id /\ new \in Id /\ t \in Transport /\ nodeId[t] = old
    <3>1. stack # <<>>
      BY <1>4 DEF SetAddress, At
    <3>. QED
      BY <2>1, <3>1, TopIsFrame
      DEF Frame, IInv, TypeOK, RegistryConsistent, MaybeTransport
  <2>3. t \notin stopped
    BY <2>2, ConstantsAssumption DEF RegisteredIffLive, Constructed
  <2>. SUFFICES ASSUME NEW u \in Transport, nodeId'[u] # NoId
                PROVE  registry'[nodeId'[u]] = u <=> u \notin stopped
    BY <2>1 DEF RegisteredIffLive, Constructed
  <2>4. CASE u = t
    BY <2>1, <2>2, <2>3, <2>4 DEF IInv, TypeOK
  <2>5. CASE u # t
    <3>1. nodeId'[u] = nodeId[u] /\ nodeId[u] \in Id /\ u \in Constructed
      BY <2>1, <2>2, <2>5 DEF IInv, TypeOK, Constructed
    <3>2. registry[nodeId[u]] = u <=> u \notin stopped
      BY <3>1 DEF RegisteredIffLive
    <3>3. registry'[nodeId[u]] = u <=> registry[nodeId[u]] = u
      BY <2>1, <2>2, <2>5, <3>1, ConstantsAssumption DEF IInv, TypeOK
    <3>. QED  BY <3>1, <3>2, <3>3
  <2>. QED  BY <2>4, <2>5
<1>5. CASE Handle /\ ~SetAddress
  BY <1>1, <1>5, BroadcastSound, UnicastSound, AnswersSound, TestRequestSound
  DEF Handle, Unicast, UnicastWithAck, objects
<1>6. CASE \E t \in Transport : Reposition(t)
  BY <1>1, <1>6 DEF Reposition
<1>7. CASE \E t \in Transport, op \in Commands, i \in Id : SendCommand(t, op, i)
  BY <1>1, <1>7 DEF SendCommand, objects
<1>8. CASE CallbackRaises
  BY <1>1, <1>8 DEF CallbackRaises, objects
<1>9. CASE SetAddress /\ UNCHANGED <<nodeId, registry>>
  BY <1>1, <1>9 DEF SetAddress
<1>10. CASE UNCHANGED vars
  BY <1>1, <1>10 DEF vars
<1>. QED
  BY <1>2, <1>3, <1>4, <1>5, <1>6, <1>7, <1>8, <1>9, <1>10 DEF Next, Handle

\* For an application that takes only free ids and stops each transport once,
\* the bus reaches exactly the transports that have not been stopped.
THEOREM LiveStayReachable ==
    ASSUME Disciplined
    PROVE  Spec => []RegisteredIffLive
<1>1. Init => RegisteredIffLive
  BY ConstantsAssumption DEF Init, RegisteredIffLive, Constructed
<1>2. IInv /\ RegisteredIffLive /\ [Next]_vars => RegisteredIffLive'
  BY StepRegisteredIffLive
<1>. QED  BY <1>1, <1>2, IInvHolds, PTL DEF Spec

--------------------------------------------------------------------------------
(* Whom the answers reach.                                                    *)

Unicasts == {"Unicast", "UnicastWithAck"}

\* Nothing has happened since the command of the frame was sent.
JustSent(f) == f.rcpt = NoTransport /\ f.src = NoTransport /\ nodeId[f.caller] = f.sid

\* The transport that a handler found under the sender's id, before its first
\* callback ran, is the caller.
FoundCaller(f) ==
    f.src # NoTransport /\ f.op \notin Unicasts /\ f.caller \notin stopped => f.src = f.caller

\* Only the innermost command can be one that is not yet handled.
CallersFound ==
    \A k \in 1..Len(stack) :
        /\ FoundCaller(stack[k])
        /\ stack[k].event = "Dispatched" => k = Len(stack) /\ JustSent(stack[k])

\* The inductive invariant of a disciplined application.
LiveInv == IInv /\ RegisteredIffLive /\ CallersFound

\* What a handler does to the frame on top: it hands the sender's id's transport
\* its first event (a unicast its last), goes on with the transport it found, or
\* hands data to a listener.
HandsSender(e) ==
    /\ registry[Top.sid] # NoTransport
    /\ Top.event = "Dispatched" \/ Top.op \in Unicasts
    /\ DeliverToSender(registry[Top.sid], e)
HandsFound(e) ==
    /\ Top.op \notin Unicasts /\ Top.event \in LocalAcks
    /\ Deliver(Top.src, e)
HandsData(l, rest, e) == Proceed([Top EXCEPT !.rcpt = l, !.todo = rest, !.event = e])

HandlerMoves ==
    \/ Return
    \/ \E e \in Events : HandsSender(e) \/ HandsFound(e)
    \/ \E l \in Transport, rest \in SUBSET Transport, e \in DataEvents : HandsData(l, rest, e)

\* Every step of a handler is one of these.
LEMMA HandlersMove ==
    ASSUME IInv, Handle
    PROVE  stack # <<>> /\ HandlerMoves /\ UNCHANGED <<stopped, undisturbed>>
<1>1. stack # <<>> /\ UNCHANGED <<stopped, undisturbed>>
  BY DEF Handle, Broadcast, Unicast, UnicastWithAck, UnicastOf, SetAddress, RemoteVoltageQuery,
         Echo, Ping, StatusQuery, QualityQuery, TestRequest, At, objects
<1>. SUFFICES HandlerMoves
  BY <1>1
<1>2. /\ Top \in Frame /\ Top.sid \in Id /\ Top.tid \in Id /\ Top.todo \in SUBSET Transport
      /\ \A i \in Id : AllExcept(i) \in SUBSET Transport /\ registry[i] \in MaybeTransport
  BY <1>1, TopIsFrame, AllExceptConstructed DEF Frame, Constructed, IInv, TypeOK
<1>3. ASSUME NEW e \in Events, ReplyToSender(e), Top.event = "Dispatched" \/ Top.op \in Unicasts
      PROVE  HandlerMoves
  BY <1>3 DEF ReplyToSender, HandlerMoves, HandsSender
<1>4. ASSUME NEW L \in SUBSET Transport, NEW e \in DataEvents, DeliverToEach(L, e)
      PROVE  HandlerMoves
  BY <1>4 DEF DeliverToEach, HandlerMoves, HandsData
<1>5. CASE Broadcast
  <2>1. ASSUME registry[Top.sid] # NoTransport, Top.event = "Dispatched",
               DeliverToSender(registry[Top.sid], "BroadcastAck")
        PROVE  HandlerMoves
    BY <2>1 DEF HandlerMoves, HandsSender, Events, LocalAcks
  <2>2. \/ DeliverToEach(AllExcept(Top.sid), "ReceivedBroadcast")
        \/ DeliverToEach(Top.todo, "ReceivedBroadcast")
        => HandlerMoves
    BY <1>2, <1>4 DEF DataEvents
  <2>. QED  BY <1>5, <2>1, <2>2 DEF Broadcast, NextListener, At
<1>6. ASSUME NEW op \in Unicasts, NEW ack \in LocalAcks, UnicastOf(op, ack)
      PROVE  HandlerMoves
  <2>1. CASE registry[Top.tid] # NoTransport /\ Deliver(registry[Top.tid], "ReceivedUnicast")
    <3>1. [Top EXCEPT !.rcpt = registry[Top.tid], !.event = "ReceivedUnicast"]
          = [Top EXCEPT !.rcpt = registry[Top.tid], !.todo = Top.todo,
                        !.event = "ReceivedUnicast"]
      BY <1>2 DEF Frame
    <3>2. registry[Top.tid] \in Transport /\ Top.todo \in SUBSET Transport
      BY <1>2, <2>1 DEF MaybeTransport
    <3>. QED  BY <2>1, <3>1, <3>2 DEF Deliver, HandlerMoves, HandsData, DataEvents
  <2>2. CASE ReplyToSender(ack) /\ Top.op = op
    BY <1>3, <2>2 DEF Events
  <2>. QED  BY <1>6, <2>1, <2>2 DEF UnicastOf, At, HandlerMoves
<1>7. CASE SetAddress
  BY <1>7 DEF SetAddress, At, HandlerMoves, HandsSender, Events, Results
<1>8. CASE RemoteVoltageQuery \/ Ping
  BY <1>3, <1>8 DEF RemoteVoltageQuery, Ping, At, HandlerMoves, HandsFound, Unicasts, Events,
                    LocalAcks, Results
<1>9. CASE Echo \/ StatusQuery
  BY <1>3, <1>9 DEF Echo, StatusQuery, At, HandlerMoves, Events, LocalAcks, Results
<1>10. CASE QualityQuery
  BY <1>10 DEF QualityQuery, At, HandlerMoves, HandsSender, Events, Results
<1>11. CASE TestRequest
  <2>1. \/ DeliverToEach(AllExcept(Top.tid), "TestBroadcastReceived")
        \/ DeliverToEach(Top.todo, "TestBroadcastReceived")
        => HandlerMoves
    BY <1>2, <1>4 DEF DataEvents
  <2>2. Top.event = "Dispatched" /\ ReplyToSender("TestRequestAck") => HandlerMoves
    BY <1>3 DEF Events, LocalAcks
  <2>3. Return => HandlerMoves
    BY DEF HandlerMoves
  <2>. QED  BY <1>11, <2>1, <2>2, <2>3 DEF TestRequest, NextListener, At
<1>. QED  BY <1>5, <1>6, <1>7, <1>8, <1>9, <1>10, <1>11
     DEF Handle, Unicast, UnicastWithAck, Unicasts, LocalAcks

\* A live transport is found under the address it has.
LEMMA LiveIsFound ==
    ASSUME IInv, RegisteredIffLive, NEW t \in Transport, NEW i \in Id,
           nodeId[t] = i, t \notin stopped
    PROVE  registry[i] = t
  BY ConstantsAssumption DEF RegisteredIffLive, Constructed

\* A handler's steps keep CallersFound: a frame gets its source when it is begun.
LEMMA MovesFindCallers ==
    ASSUME LiveInv, stack # <<>>, HandlerMoves, UNCHANGED stopped
    PROVE  CallersFound'
<1>1. /\ stack \in Seq(Frame) /\ Len(stack) \in Nat /\ Len(stack) \in 1..Len(stack)
      /\ Top = stack[Len(stack)] /\ Top \in Frame
  BY TopIsFrame DEF LiveInv, IInv, TypeOK, Top
<1>2. \A k \in 1..Len(stack) : k # Len(stack) => stack[k].event # "Dispatched"
  BY DEF LiveInv, CallersFound
<1>3. ASSUME NEW f \in Frame, f.event # "Dispatched", FoundCaller(f), Proceed(f)
      PROVE  CallersFound'
  <2>1. /\ Len(stack') = Len(stack)
        /\ \A k \in 1..Len(stack) : stack'[k] = IF k = Len(stack) THEN f ELSE stack[k]
    BY <1>1, <1>3 DEF Proceed
  <2>. QED  BY <1>2, <1>3, <2>1 DEF LiveInv, CallersFound, FoundCaller
<1>4. CASE Return
  <2>1. Len(stack') = Len(stack) - 1 /\ \A k \in 1..Len(stack') : stack'[k] = stack[k]
    BY <1>1, <1>4, ButLast DEF Return
  <2>. QED  BY <1>1, <1>2, <2>1 DEF LiveInv, CallersFound, FoundCaller
<1>5. ASSUME NEW e \in Events, HandsSender(e)  PROVE CallersFound'
  <2>. DEFINE t == registry[Top.sid]
              f == [Top EXCEPT !.src = t, !.rcpt = t, !.event = e]
  <2>1. t \in Transport /\ Top.sid \in Id /\ Top.caller \in Transport
    BY <1>1, <1>5, RegisteredIsConstructed DEF HandsSender, Frame, LiveInv, Constructed
  <2>2. f \in Frame /\ f.event # "Dispatched"
    BY <1>1, <2>1 DEF Frame, MaybeTransport, Events, DataEvents, LocalAcks, Results
  <2>3. f.src = t /\ f.op = Top.op /\ f.caller = Top.caller
    BY <1>1 DEF Frame
  <2>4. Top.op \notin Unicasts /\ Top.caller \notin stopped => t = Top.caller
    BY <1>1, <1>5, <2>1, LiveIsFound DEF HandsSender, LiveInv, CallersFound, JustSent
  <2>. QED  BY <1>3, <1>5, <2>2, <2>3, <2>4 DEF HandsSender, DeliverToSender, FoundCaller
<1>6. ASSUME NEW f \in Frame, f.event \in Events, Proceed(f),
             f.src = Top.src /\ f.op = Top.op /\ f.caller = Top.caller
      PROVE  CallersFound'
  BY <1>1, <1>3, <1>6
  DEF LiveInv, CallersFound, FoundCaller, Events, DataEvents, LocalAcks, Results
<1>7. ASSUME NEW e \in Events, HandsFound(e)  PROVE CallersFound'
  <2>. DEFINE f == [Top EXCEPT !.rcpt = Top.src, !.event = e]
  <2>1. f \in Frame /\ f.event = e /\ f.src = Top.src /\ f.op = Top.op /\ f.caller = Top.caller
    BY <1>1 DEF Frame
  <2>. QED  BY <1>6, <1>7, <2>1 DEF HandsFound, Deliver
<1>8. ASSUME NEW l \in Transport, NEW rest \in SUBSET Transport, NEW e \in DataEvents,
             HandsData(l, rest, e)
      PROVE  CallersFound'
  <2>. DEFINE f == [Top EXCEPT !.rcpt = l, !.todo = rest, !.event = e]
  <2>1. f \in Frame /\ f.event = e /\ f.src = Top.src /\ f.op = Top.op /\ f.caller = Top.caller
    BY <1>1 DEF Frame, MaybeTransport, Events
  <2>. QED  BY <1>6, <1>8, <2>1 DEF HandsData, Events
<1>. QED  BY <1>4, <1>5, <1>7, <1>8 DEF HandlerMoves

\* While application code runs every command on the stack has been handled in
\* part, so that what the application does to ids and transports is no matter.
LEMMA ApplicationFindsCallers ==
    ASSUME LiveInv, NEW t \in Transport,
           \/ \E i \in Id : Construct(t, i)
           \/ Stop(t) \/ Reposition(t)
           \/ \E op \in Commands, i \in Id : SendCommand(t, op, i)
    PROVE  CallersFound'
<1>1. stack \in Seq(Frame) /\ Len(stack) \in Nat
  BY DEF LiveInv, IInv, TypeOK
<1>2. InApplication
  BY DEF Construct, Stop, Reposition, SendCommand, May
<1>3. \A f : FoundCaller(f) => FoundCaller(f)'
  <2>1. stopped \subseteq stopped'
    BY DEF Construct, Stop, Reposition, SendCommand, objects
  <2>. QED  BY <2>1 DEF FoundCaller
<1>4. ASSUME NEW k \in 1..Len(stack)  PROVE stack[k].event # "Dispatched" /\ FoundCaller(stack[k])
  <2>1. Len(stack) # 0 /\ stack # <<>>
    BY <1>1
  <2>. QED  BY <1>1, <1>2, <2>1 DEF LiveInv, CallersFound, JustSent, InApplication, Top
<1>5. CASE UNCHANGED stack
  BY <1>3, <1>4, <1>5 DEF CallersFound
<1>6. ASSUME NEW op \in Commands, NEW i \in Id, SendCommand(t, op, i)
      PROVE  CallersFound'
  <2>1. PICK f : /\ stack' = Append(stack, f)
                 /\ f = [op |-> op, caller |-> t, sid |-> nodeId[t], tid |-> i,
                         src |-> NoTransport, todo |-> {},
                         rcpt |-> NoTransport, event |-> "Dispatched"]
    BY <1>6 DEF SendCommand
  <2>2. nodeId' = nodeId
    BY <1>6 DEF SendCommand, objects
  <2>3. JustSent(f)' /\ FoundCaller(f)'
    BY <2>1, <2>2 DEF JustSent, FoundCaller
  <2>4. /\ Len(stack') = Len(stack) + 1
        /\ \A k \in 1..Len(stack) : stack'[k] = stack[k]
        /\ stack'[Len(stack')] = f
    BY <1>1, <2>1
  <2>5. \A k \in 1..Len(stack') : k \in 1..Len(stack) \/ k = Len(stack')
    BY <1>1, <2>4
  <2>6. ASSUME NEW k \in 1..Len(stack')
        PROVE  /\ FoundCaller(stack[k])'
               /\ stack'[k].event = "Dispatched" => k = Len(stack') /\ JustSent(stack[k])'
    <3>1. CASE k \in 1..Len(stack)
      BY <1>3, <1>4, <2>4, <3>1
    <3>2. CASE k = Len(stack')
      BY <2>3, <2>4, <3>2
    <3>. QED  BY <2>5, <3>1, <3>2
  <2>. QED  BY <2>6 DEF CallersFound
<1>. QED  BY <1>5, <1>6 DEF Construct, Stop, Reposition

\* For a disciplined application every step keeps the invariant.
LEMMA StepLiveInv == Disciplined /\ LiveInv /\ [Next]_vars => LiveInv'
<1> SUFFICES ASSUME Disciplined, LiveInv, [Next]_vars  PROVE CallersFound'
  BY StepIInv, StepRegisteredIffLive DEF LiveInv
<1>1. CASE Handle
  BY <1>1, HandlersMove, MovesFindCallers DEF LiveInv
<1>2. CASE CallbackRaises
  BY <1>2, MovesFindCallers DEF CallbackRaises, HandlerMoves, objects
<1>3. CASE UNCHANGED vars
  BY <1>3 DEF vars, LiveInv, CallersFound, FoundCaller, JustSent
<1>. QED  BY <1>1, <1>2, <1>3, ApplicationFindsCallers DEF Next

\* A step that leaves the depth of the stack and changes its innermost event is one
\* of a handler, and not a return.
LEMMA DeliveriesAreHandlers ==
    ASSUME IInv, [Next]_vars, stack # <<>>, Len(stack') = Len(stack),
           stack'[Len(stack)].event # Top.event
    PROVE  Handle /\ ~Return
<1>1. stack \in Seq(Frame) /\ Len(stack) \in Nat /\ stack' # stack
  BY DEF IInv, TypeOK, Top
<1>2. ~Return
  BY <1>1, ButLast DEF Return
<1>3. \A t \in Transport, op \in Commands, i \in Id : ~SendCommand(t, op, i)
  BY <1>1 DEF SendCommand
<1>. QED  BY <1>1, <1>2, <1>3 DEF Next, Construct, Stop, Reposition, CallbackRaises, vars

\* For a disciplined application, acks and results reach the transport object that
\* sent the command for as long as it keeps the address it sent under, whatever the
\* callbacks in between do to transports and addresses (in_memory.py:119-138).
THEOREM AnswersReachTheCaller ==
    ASSUME Disciplined
    PROVE  Spec => RepliesToCaller
<1>1. LiveInv /\ [Next]_vars =>
        LET k == Len(stack) IN
          /\ stack # <<>> /\ Len(stack') = k
          /\ stack'[k].event \in (LocalAcks \cup Results) \ {stack[k].event}
          /\ stack[k].caller \notin stopped
          /\ nodeId[stack[k].caller] = stack[k].sid
          => stack'[k].rcpt = stack[k].caller
  <2>. SUFFICES ASSUME LiveInv, [Next]_vars, stack # <<>>, Len(stack') = Len(stack),
                       stack'[Len(stack)].event \in (LocalAcks \cup Results) \ {Top.event},
                       Top.caller \notin stopped, nodeId[Top.caller] = Top.sid
                PROVE  stack'[Len(stack)].rcpt = Top.caller
    BY DEF Top
  <2>1. Handle /\ ~Return /\ HandlerMoves
    BY DeliveriesAreHandlers, HandlersMove DEF LiveInv
  <2>2. /\ stack \in Seq(Frame) /\ Len(stack) \in 1..Len(stack)
        /\ Top \in Frame /\ FrameRefersTo(Top, Constructed) /\ FoundCaller(Top)
    BY TopIsFrame DEF LiveInv, IInv, TypeOK, CallersFound, Top
  <2>3. ASSUME NEW e \in Events, HandsSender(e)  PROVE stack'[Len(stack)].rcpt = Top.caller
    <3>1. registry[Top.sid] = Top.caller
      BY <2>2, LiveIsFound DEF LiveInv, Frame
    <3>. QED  BY <2>2, <2>3, <3>1 DEF HandsSender, DeliverToSender, Proceed, Frame
  <2>4. ASSUME NEW e \in Events, HandsFound(e)  PROVE stack'[Len(stack)].rcpt = Top.caller
    <3>1. Top.src = Top.caller
      BY <2>2, <2>4 DEF HandsFound, FoundCaller, FrameRefersTo
    <3>. QED  BY <2>2, <2>4, <3>1 DEF HandsFound, Deliver, Proceed, Frame
  <2>5. ASSUME NEW l \in Transport, NEW rest \in SUBSET Transport, NEW e \in DataEvents,
               HandsData(l, rest, e)
        PROVE  FALSE
    <3>1. stack'[Len(stack)].event = e
      BY <2>2, <2>5 DEF HandsData, Proceed, Frame
    <3>. QED  BY <3>1 DEF DataEvents, LocalAcks, Results
  <2>. QED  BY <2>1, <2>3, <2>4, <2>5 DEF HandlerMoves
<1>2. Init => LiveInv
  BY InitIInv, ConstantsAssumption
  DEF LiveInv, Init, RegisteredIffLive, CallersFound, Constructed
<1>. QED  BY <1>1, <1>2, StepLiveInv, PTL DEF Spec, RepliesToCaller

\* The live transports but for the one that has an id are those the bus lists.
LEMMA AllExceptIsLiveOthers ==
    ASSUME IInv, RegisteredIffLive, NEW t \in Constructed, t \notin stopped
    PROVE  AllExcept(nodeId[t]) = Constructed \ (stopped \cup {t})
<1>1. registry[nodeId[t]] = t /\ nodeId[t] \in Id
  BY DEF RegisteredIffLive, Constructed, IInv, TypeOK
<1>2. ASSUME NEW u \in AllExcept(nodeId[t])  PROVE u \in Constructed \ (stopped \cup {t})
  <2>1. PICK j \in Id \ {nodeId[t]} : u = registry[j] /\ u # NoTransport
    BY DEF AllExcept
  <2>2. u \in Constructed /\ nodeId[u] = j
    BY <2>1, RegisteredIsConstructed DEF IInv, RegistryConsistent
  <2>. QED  BY <2>1, <2>2 DEF RegisteredIffLive
<1>3. ASSUME NEW u \in Constructed \ (stopped \cup {t})  PROVE u \in AllExcept(nodeId[t])
  <2>1. registry[nodeId[u]] = u /\ nodeId[u] \in Id /\ u # NoTransport
    BY ConstantsAssumption DEF RegisteredIffLive, Constructed, IInv, TypeOK
  <2>2. nodeId[u] # nodeId[t]
    BY <1>1, <2>1
  <2>. QED  BY <2>1, <2>2 DEF AllExcept
<1>. QED  BY <1>2, <1>3

\* For a disciplined application, a broadcast is delivered to all live transports
\* and not to its sender, as they stand when the ack callback has returned, if the
\* sender still has the address it sent under (in_memory.py:101-109).
THEOREM BroadcastsReachTheOthers ==
    ASSUME Disciplined
    PROVE  Spec => BroadcastReachesOthers
<1>1. IInv /\ RegisteredIffLive /\ [Next]_vars =>
        LET k == Len(stack) IN
          /\ At("Broadcast", "BroadcastAck") /\ Len(stack') = k
          /\ stack'[k].event = "ReceivedBroadcast"
          /\ Top.src \notin stopped
          /\ nodeId[Top.src] = Top.sid
          => {stack'[k].rcpt} \cup stack'[k].todo = Constructed \ (stopped \cup {Top.src})
  <2>. SUFFICES ASSUME IInv, RegisteredIffLive, [Next]_vars,
                       At("Broadcast", "BroadcastAck"), Len(stack') = Len(stack),
                       stack'[Len(stack)].event = "ReceivedBroadcast",
                       Top.src \notin stopped, nodeId[Top.src] = Top.sid
                PROVE  {stack'[Len(stack)].rcpt} \cup stack'[Len(stack)].todo
                          = Constructed \ (stopped \cup {Top.src})
    OBVIOUS
  <2>1. Handle /\ ~Return
    BY DeliveriesAreHandlers DEF At
  <2>2. DeliverToEach(AllExcept(Top.sid), "ReceivedBroadcast")
    BY <2>1 DEF Handle, Broadcast, Unicast, UnicastWithAck, UnicastOf, SetAddress,
                RemoteVoltageQuery, Echo, Ping, StatusQuery, QualityQuery, TestRequest, At
  <2>3. /\ stack \in Seq(Frame) /\ Len(stack) \in 1..Len(stack)
        /\ Top \in Frame /\ FrameRefersTo(Top, Constructed)
    BY TopIsFrame DEF IInv, TypeOK, At
  <2>4. PICK l \in AllExcept(Top.sid) :
          Proceed([Top EXCEPT !.rcpt = l, !.todo = AllExcept(Top.sid) \ {l},
                              !.event = "ReceivedBroadcast"])
    BY <2>1, <2>2 DEF DeliverToEach
  <2>5. {stack'[Len(stack)].rcpt} \cup stack'[Len(stack)].todo = AllExcept(Top.sid)
    BY <2>3, <2>4 DEF Proceed, Frame
  <2>6. Top.src \in Constructed
    BY <2>3 DEF At, FrameRefersTo, LocalAcks
  <2>. QED  BY <2>5, <2>6, AllExceptIsLiveOthers
<1>2. Init => RegisteredIffLive
  BY ConstantsAssumption DEF Init, RegisteredIffLive, Constructed
<1>3. IInv /\ RegisteredIffLive /\ [Next]_vars => RegisteredIffLive'
  BY StepRegisteredIffLive
<1>. QED  BY <1>1, <1>2, <1>3, IInvHolds, PTL DEF Spec, BroadcastReachesOthers

--------------------------------------------------------------------------------
(* The heard flags.                                                           *)

\* A flag is one of a registered id, and a flagged member has detected a packet.
FlagsAreOfMembers ==
    /\ \A i \in heard : registry[i] # NoTransport
    /\ \A t \in Constructed : nodeId[t] \in heard => t \in detected

\* A member that has detected a packet is flagged or about to be.
DetectedAreFlagged ==
    /\ detected \subseteq Constructed
    /\ \A t \in detected : nodeId[t] \in heard \/ Hearing(t)

\* What a frame that delivers data says of the bus.
FrameIsFlagSafe(f) ==
    /\ f.event \in DataEvents => f.rcpt \in detected
    /\ f.event = "ReceivedUnicast" => registry[f.tid] = f.rcpt
FramesAreFlagSafe == \A k \in 1..Len(stack) : FrameIsFlagSafe(stack[k])

\* Nothing is just being delivered to a transport whose flag is about to be read or
\* moved.
FlagCommandsAreFree ==
    stack # <<>> /\ Top.event = "Dispatched" /\ Top.op \in FlagCommands => ~Hearing(Top.caller)

\* What holds while no flag has been left behind.
FlagsRight ==
    /\ IInv /\ RegisteredIffLive /\ CallersFound /\ stopped = {}
    /\ FlagsAreOfMembers /\ DetectedAreFlagged /\ FramesAreFlagSafe /\ FlagCommandsAreFree

\* The inductive invariant of a disciplined application.
FlagInv == LiveInv /\ (undisturbed => FlagsRight)

\* Under the invariant every member is found under the address it has.
LEMMA MembersAreFound ==
    ASSUME FlagsRight, NEW t \in Constructed
    PROVE  t \in Transport /\ t # NoTransport /\ nodeId[t] \in Id /\ registry[nodeId[t]] = t
  BY ConstantsAssumption DEF FlagsRight, RegisteredIffLive, Constructed, IInv, TypeOK

\* When a data callback returns its receiver is flagged, and its next delivery, if
\* it is of data, is recorded.
DataMoves ==
    /\ heard' = IF Top.event \in DataEvents THEN heard \cup {nodeId[Top.rcpt]} ELSE heard
    /\ \/ Return /\ UNCHANGED detected
       \/ \E f \in Frame :
            /\ Proceed(f)
            /\ f.event = "ReceivedUnicast" => registry[f.tid] = f.rcpt
            /\ \/ f.event \in DataEvents /\ f.rcpt \in Constructed
                  /\ detected' = detected \cup {f.rcpt}
               \/ f.event \notin DataEvents /\ UNCHANGED detected

\* The flags are kept exact by a handler that moves so.
LEMMA DataMovesKeepFlags ==
    ASSUME FlagsRight, stack # <<>>, DataMoves, UNCHANGED <<nodeId, registry>>
    PROVE  FlagsAreOfMembers' /\ DetectedAreFlagged' /\ FramesAreFlagSafe'
<1>1. /\ stack \in Seq(Frame) /\ Len(stack) \in Nat /\ Len(stack) \in 1..Len(stack)
      /\ Top = stack[Len(stack)] /\ Top \in Frame /\ FrameRefersTo(Top, Constructed)
      /\ FrameIsFlagSafe(Top)
  BY TopIsFrame DEF FlagsRight, FramesAreFlagSafe, IInv, TypeOK, Top
<1>2. Constructed' = Constructed
  BY DEF Constructed
<1>3. Top.event \in DataEvents =>
        Top.rcpt \in Constructed /\ Top.rcpt \in detected /\ registry[nodeId[Top.rcpt]] = Top.rcpt
  <2>1. Top.event \in DataEvents => Top.rcpt \in Constructed /\ Top.rcpt \in detected
    BY <1>1 DEF FrameRefersTo, FrameIsFlagSafe, DataEvents
  <2>. QED  BY <2>1, MembersAreFound
<1>4. detected \subseteq detected'
  BY DEF DataMoves
<1>5. FlagsAreOfMembers'
  <2>1. ASSUME NEW i \in heard'  PROVE registry[i] # NoTransport
    BY <1>3, MembersAreFound, ConstantsAssumption DEF DataMoves, FlagsRight, FlagsAreOfMembers
  <2>2. ASSUME NEW t \in Constructed, nodeId[t] \in heard'  PROVE t \in detected
    <3>1. CASE nodeId[t] \in heard
      BY <3>1 DEF FlagsRight, FlagsAreOfMembers
    <3>2. CASE Top.event \in DataEvents /\ nodeId[t] = nodeId[Top.rcpt]
      BY <1>3, <3>2, MembersAreFound
    <3>. QED  BY <2>2, <3>1, <3>2 DEF DataMoves
  <2>. QED  BY <1>2, <1>4, <2>1, <2>2 DEF FlagsAreOfMembers
<1>6. ASSUME NEW t \in detected,
             NEW S, S = stack',
             \A k \in 1..(Len(stack) - 1) : k \in 1..Len(S) /\ S[k] = stack[k]
      PROVE  nodeId[t] \in heard' \/ \E k \in 1..Len(S) : S[k].event \in DataEvents /\ S[k].rcpt = t
  <2>1. nodeId[t] \in heard \/ Hearing(t)
    BY DEF FlagsRight, DetectedAreFlagged
  <2>2. CASE nodeId[t] \in heard
    BY <2>2 DEF DataMoves
  <2>3. ASSUME NEW k \in 1..Len(stack), stack[k].event \in DataEvents, stack[k].rcpt = t
        PROVE  nodeId[t] \in heard' \/ \E j \in 1..Len(S) : S[j].event \in DataEvents /\ S[j].rcpt = t
    <3>1. CASE k = Len(stack)
      BY <1>1, <2>3, <3>1 DEF DataMoves
    <3>2. CASE k # Len(stack)
      <4>1. k \in 1..(Len(stack) - 1)
        BY <1>1, <3>2
      <4>. QED  BY <1>6, <2>3, <4>1
    <3>. QED  BY <3>1, <3>2
  <2>. QED  BY <2>1, <2>2, <2>3 DEF Hearing
<1>7. CASE Return /\ UNCHANGED detected
  <2>1. /\ Len(stack') = Len(stack) - 1
        /\ \A k \in 1..Len(stack') : stack'[k] = stack[k]
    BY <1>1, <1>7, ButLast DEF Return
  <2>2. \A k \in 1..Len(stack') : k \in 1..Len(stack)
    BY <1>1, <2>1
  <2>3. FramesAreFlagSafe'
    BY <1>7, <2>1, <2>2 DEF FramesAreFlagSafe, FrameIsFlagSafe, FlagsRight
  <2>4. \A t \in detected : nodeId'[t] \in heard' \/ Hearing(t)'
    BY <1>6, <2>1 DEF Hearing
  <2>. QED  BY <1>2, <1>5, <1>7, <2>3, <2>4 DEF DetectedAreFlagged, FlagsRight
<1>8. ASSUME NEW f \in Frame, Proceed(f),
             f.event = "ReceivedUnicast" => registry[f.tid] = f.rcpt,
             \/ f.event \in DataEvents /\ f.rcpt \in Constructed
                /\ detected' = detected \cup {f.rcpt}
             \/ f.event \notin DataEvents /\ UNCHANGED detected
      PROVE  DetectedAreFlagged' /\ FramesAreFlagSafe'
  <2>1. /\ Len(stack') = Len(stack)
        /\ \A k \in 1..Len(stack) : stack'[k] = IF k = Len(stack) THEN f ELSE stack[k]
    BY <1>1, <1>8 DEF Proceed
  <2>2. /\ f.event \in DataEvents => f.rcpt \in detected'
        /\ f.event = "ReceivedUnicast" => registry'[f.tid] = f.rcpt
    BY <1>1, <1>8 DEF FrameIsFlagSafe
  <2>3. \A k \in 1..Len(stack) : FrameIsFlagSafe(stack[k])
    BY DEF FlagsRight, FramesAreFlagSafe
  <2>4. \A k \in 1..Len(stack') : k = Len(stack) \/ (k \in 1..Len(stack) /\ stack'[k] = stack[k])
    BY <2>1
  <2>5. FramesAreFlagSafe'
    BY <1>4, <1>1, <2>1, <2>2, <2>3, <2>4 DEF FramesAreFlagSafe, FrameIsFlagSafe
  <2>6. \A k \in 1..(Len(stack) - 1) : k \in 1..Len(stack') /\ stack'[k] = stack[k]
    BY <1>1, <2>1
  <2>7. \A t \in detected : nodeId'[t] \in heard' \/ Hearing(t)'
    BY <1>6, <2>6 DEF Hearing
  <2>8. f.event \in DataEvents => Hearing(f.rcpt)'
    BY <1>1, <2>1 DEF Hearing
  <2>. QED  BY <1>2, <1>8, <2>5, <2>7, <2>8 DEF DetectedAreFlagged, FlagsRight
<1>9. CASE ~(Return /\ UNCHANGED detected)
  <2>1. PICK f \in Frame :
          /\ Proceed(f)
          /\ f.event = "ReceivedUnicast" => registry[f.tid] = f.rcpt
          /\ \/ f.event \in DataEvents /\ f.rcpt \in Constructed
                /\ detected' = detected \cup {f.rcpt}
             \/ f.event \notin DataEvents /\ UNCHANGED detected
    BY <1>9 DEF DataMoves
  <2>2. f.event = "ReceivedUnicast" => registry[f.tid] = f.rcpt
    BY <2>1
  <2>3. DetectedAreFlagged' /\ FramesAreFlagSafe'
    BY <1>8, <2>1, <2>2
  <2>. QED  BY <1>5, <2>3
<1>. QED  BY <1>7, <1>9

\* A fan-out hands data to a constructed listener and records it.
LEMMA FanOutIsDataMove ==
    ASSUME FlagsRight, stack # <<>>, NEW e \in {"ReceivedBroadcast", "TestBroadcastReceived"},
           NEW listeners \in SUBSET Constructed, DeliverToEach(listeners, e),
           heard' = IF Top.event \in DataEvents THEN heard \cup {nodeId[Top.rcpt]} ELSE heard
    PROVE  DataMoves
<1>1. Top \in Frame
  BY TopIsFrame DEF FlagsRight
<1>2. CASE listeners = {}
  BY <1>2 DEF DeliverToEach, DataMoves
<1>3. CASE listeners # {}
  <2>1. PICK l \in listeners :
          /\ Proceed([Top EXCEPT !.rcpt = l, !.todo = listeners \ {l}, !.event = e])
          /\ detected' = detected \cup {l}
    BY <1>3 DEF DeliverToEach
  <2>. DEFINE f == [Top EXCEPT !.rcpt = l, !.todo = listeners \ {l}, !.event = e]
  <2>2. /\ f \in Frame /\ f.op = Top.op /\ f.rcpt = l /\ f.event = e
        /\ e \in DataEvents /\ e # "ReceivedUnicast"
    BY <1>1 DEF Frame, Constructed, MaybeTransport, Events, DataEvents
  <2>. QED  BY <2>1, <2>2 DEF DataMoves
<1>. QED  BY <1>2, <1>3

\* An answer hands nothing that needs to be recorded.
LEMMA AnswerIsDataMove ==
    ASSUME FlagsRight, stack # <<>>, NEW e \in LocalAcks \cup Results, UNCHANGED detected,
           heard' = IF Top.event \in DataEvents THEN heard \cup {nodeId[Top.rcpt]} ELSE heard,
           \/ Return
           \/ ReplyToSender(e)
           \/ registry[Top.sid] # NoTransport /\ DeliverToSender(registry[Top.sid], e)
           \/ Deliver(Top.src, e)
    PROVE  DataMoves
<1>1. /\ Top \in Frame /\ Top.src \in MaybeTransport /\ Top.sid \in Id
      /\ registry[Top.sid] \in MaybeTransport
  BY TopIsFrame DEF FlagsRight, IInv, TypeOK, Frame
<1>2. e \notin DataEvents /\ e \in Events
  BY DEF Events, DataEvents, LocalAcks, Results
<1>3. CASE Return
  BY <1>3 DEF DataMoves
<1>4. ASSUME DeliverToSender(registry[Top.sid], e)  PROVE DataMoves
  <2>. DEFINE t == registry[Top.sid]
              f == [Top EXCEPT !.src = t, !.rcpt = t, !.event = e]
  <2>1. f \in Frame /\ f.op = Top.op /\ f.event = e
    BY <1>1, <1>2 DEF Frame
  <2>2. f.event # "ReceivedUnicast"
    BY <1>2, <2>1 DEF DataEvents
  <2>. QED  BY <1>2, <1>4, <2>1, <2>2 DEF DeliverToSender, DataMoves
<1>5. ASSUME Deliver(Top.src, e)  PROVE DataMoves
  <2>. DEFINE f == [Top EXCEPT !.rcpt = Top.src, !.event = e]
  <2>1. f \in Frame /\ f.op = Top.op /\ f.event = e
    BY <1>1, <1>2 DEF Frame
  <2>2. f.event # "ReceivedUnicast"
    BY <1>2, <2>1 DEF DataEvents
  <2>. QED  BY <1>2, <1>5, <2>1, <2>2 DEF Deliver, DataMoves
<1>. QED  BY <1>3, <1>4, <1>5 DEF ReplyToSender

\* Every handler but those that read or move the flags makes data moves.
LEMMA HandlersMoveData ==
    ASSUME FlagsRight, Handle, ~SetAddress, ~QualityQuery
    PROVE  stack # <<>> /\ DataMoves /\ UNCHANGED <<nodeId, registry>>
<1>1. stack # <<>> /\ UNCHANGED <<nodeId, registry>>
  BY DEF Handle, Broadcast, Unicast, UnicastWithAck, UnicastOf, RemoteVoltageQuery,
         Echo, Ping, StatusQuery, TestRequest, At, objects
<1>2. /\ Top \in Frame /\ FrameRefersTo(Top, Constructed) /\ Top.sid \in Id /\ Top.tid \in Id
      /\ Top.todo \in SUBSET Constructed
      /\ AllExcept(Top.sid) \in SUBSET Constructed
      /\ AllExcept(Top.tid) \in SUBSET Constructed
      /\ registry[Top.tid] \in Constructed \cup {NoTransport}
  BY <1>1, TopIsFrame, AllExceptConstructed, RegisteredIsConstructed
  DEF FlagsRight, Frame, FrameRefersTo
<1>. DEFINE flagged == heard' = IF Top.event \in DataEvents THEN heard \cup {nodeId[Top.rcpt]}
                                ELSE heard
<1>3. CASE Broadcast
  <2>1. flagged
    BY <1>3 DEF Broadcast, At, NextListener, DataEvents
  <2>2. ASSUME NEW L \in SUBSET Constructed, DeliverToEach(L, "ReceivedBroadcast")
        PROVE  DataMoves
    BY <1>1, <2>1, <2>2, FanOutIsDataMove
  <2>3. ASSUME registry[Top.sid] # NoTransport, UNCHANGED detected,
               DeliverToSender(registry[Top.sid], "BroadcastAck")
        PROVE  DataMoves
    BY <1>1, <2>1, <2>3, AnswerIsDataMove DEF LocalAcks
  <2>. QED  BY <1>1, <1>2, <1>3, <2>2, <2>3 DEF Broadcast, NextListener
<1>4. CASE TestRequest
  <2>1. flagged
    BY <1>4 DEF TestRequest, At, NextListener, DataEvents
  <2>2. ASSUME NEW L \in SUBSET Constructed, DeliverToEach(L, "TestBroadcastReceived")
        PROVE  DataMoves
    BY <1>1, <2>1, <2>2, FanOutIsDataMove
  <2>3. ASSUME UNCHANGED detected, Return \/ ReplyToSender("TestRequestAck")
        PROVE  DataMoves
    BY <1>1, <2>1, <2>3, AnswerIsDataMove DEF LocalAcks
  <2>. QED  BY <1>1, <1>2, <1>4, <2>2, <2>3 DEF TestRequest, NextListener
<1>5. ASSUME NEW op, NEW ack \in {"UnicastAck", "UnicastWithAckAck"}, UnicastOf(op, ack)
      PROVE  DataMoves
  <2>1. CASE At(op, "Dispatched") /\ UNCHANGED heard /\ registry[Top.tid] # NoTransport
             /\ Deliver(registry[Top.tid], "ReceivedUnicast")
             /\ detected' = detected \cup {registry[Top.tid]}
    <3>. DEFINE t == registry[Top.tid]
                f == [Top EXCEPT !.rcpt = t, !.event = "ReceivedUnicast"]
    <3>1. /\ f \in Frame /\ f.op = Top.op /\ f.event = "ReceivedUnicast"
          /\ f.rcpt = t /\ f.tid = Top.tid
      BY <1>2 DEF Frame, Constructed, MaybeTransport, Events, DataEvents
    <3>2. t \in Constructed /\ flagged /\ Proceed(f)
      BY <1>2, <2>1 DEF At, DataEvents, Deliver
    <3>. QED  BY <2>1, <3>1, <3>2 DEF DataMoves, DataEvents
  <2>2. CASE At(op, "Dispatched") /\ Return /\ UNCHANGED <<heard, detected>>
    BY <2>2 DEF At, DataEvents, DataMoves
  <2>3. CASE At(op, "ReceivedUnicast") /\ heard' = heard \cup {Top.tid}
             /\ ReplyToSender(ack) /\ UNCHANGED detected
    <3>1. FrameIsFlagSafe(Top) /\ Top.rcpt # NoTransport
      <4>1. Len(stack) \in 1..Len(stack)
        BY <1>1 DEF FlagsRight, IInv, TypeOK
      <4>. QED  BY <1>2, <2>3, <4>1 DEF FlagsRight, FramesAreFlagSafe, Top, At, FrameRefersTo
    <3>2. registry[Top.tid] = Top.rcpt
      BY <2>3, <3>1 DEF At, FrameIsFlagSafe
    <3>3. nodeId[Top.rcpt] = Top.tid
      BY <1>2, <3>1, <3>2 DEF FlagsRight, IInv, RegistryConsistent
    <3>4. flagged
      BY <2>3, <3>3 DEF At, DataEvents
    <3>. QED  BY <1>1, <2>3, <3>4, AnswerIsDataMove DEF LocalAcks
  <2>4. CASE At(op, ack) /\ Return /\ UNCHANGED <<heard, detected>>
    BY <2>4 DEF At, DataEvents, DataMoves
  <2>. QED  BY <1>5, <2>1, <2>2, <2>3, <2>4 DEF UnicastOf
<1>6. CASE RemoteVoltageQuery \/ Echo \/ StatusQuery \/ Ping
  <2>1. flagged /\ UNCHANGED detected
    BY <1>6 DEF RemoteVoltageQuery, Echo, StatusQuery, Ping, At, DataEvents
  <2>2. ASSUME NEW e \in LocalAcks \cup Results, ReplyToSender(e)
        PROVE  DataMoves
    BY <1>1, <2>1, <2>2, AnswerIsDataMove
  <2>3. ASSUME NEW e \in LocalAcks \cup Results, Deliver(Top.src, e)
        PROVE  DataMoves
    BY <1>1, <2>1, <2>3, AnswerIsDataMove
  <2>8. Return => DataMoves
    BY <2>1 DEF DataMoves
  <2>4. CASE RemoteVoltageQuery
    BY <1>1, <2>2, <2>3, <2>4, <2>8 DEF RemoteVoltageQuery, LocalAcks, Results
  <2>5. CASE Echo
    BY <1>1, <2>2, <2>5, <2>8 DEF Echo, LocalAcks
  <2>6. CASE StatusQuery
    BY <1>1, <2>2, <2>6, <2>8 DEF StatusQuery, Results
  <2>7. CASE Ping
    BY <1>1, <2>2, <2>3, <2>7, <2>8 DEF Ping, LocalAcks, Results
  <2>. QED  BY <1>6, <2>4, <2>5, <2>6, <2>7
<1>. QED  BY <1>1, <1>3, <1>4, <1>5, <1>6 DEF Handle, Unicast, UnicastWithAck

\* A command that reads or moves a flag is its caller's own: the handler finds the
\* caller under the sender's id, and nothing is just being delivered to it.
LEMMA FlagCommandsFindCaller ==
    ASSUME FlagsRight, stack # <<>>, Top.event = "Dispatched", Top.op \in FlagCommands
    PROVE  /\ registry[Top.sid] \in Constructed
           /\ nodeId[registry[Top.sid]] = Top.sid
           /\ ~Hearing(registry[Top.sid])
<1>1. /\ Len(stack) \in 1..Len(stack) /\ Top = stack[Len(stack)]
      /\ Top.caller \in Transport /\ Top.sid \in Id
  BY TopIsFrame DEF FlagsRight, IInv, TypeOK, Top, Frame
<1>2. nodeId[Top.caller] = Top.sid
  BY <1>1 DEF FlagsRight, CallersFound, JustSent
<1>3. registry[Top.sid] = Top.caller
  BY <1>1, <1>2, LiveIsFound DEF FlagsRight
<1>4. Top.caller \in Constructed
  BY <1>1, <1>2, ConstantsAssumption DEF Constructed
<1>. QED  BY <1>2, <1>3, <1>4 DEF FlagsRight, FlagCommandsAreFree

\* Handing a transport the result of a command leaves the deliveries under way.
LEMMA ResultKeepsDeliveries ==
    ASSUME FlagsRight, stack # <<>>, Top.event = "Dispatched",
           NEW t \in Transport, NEW e \in Results, DeliverToSender(t, e)
    PROVE  /\ \A u : Hearing(u) => Hearing(u)'
           /\ \A k \in 1..Len(stack') :
                 stack'[k].event \in DataEvents => k \in 1..Len(stack) /\ stack'[k] = stack[k]
<1>1. /\ stack \in Seq(Frame) /\ Len(stack) \in Nat /\ Len(stack) \in 1..Len(stack)
      /\ Top = stack[Len(stack)] /\ Top \in Frame
  BY TopIsFrame DEF FlagsRight, IInv, TypeOK, Top
<1>. DEFINE f == [Top EXCEPT !.src = t, !.rcpt = t, !.event = e]
<1>2. f.event = e /\ e \notin DataEvents /\ Top.event \notin DataEvents
  BY <1>1 DEF Frame, DataEvents, Results
<1>. HIDE DEF f
<1>3. /\ Len(stack') = Len(stack)
      /\ \A k \in 1..Len(stack) : stack'[k] = IF k = Len(stack) THEN f ELSE stack[k]
  BY <1>1 DEF DeliverToSender, Proceed, f
<1>4. ASSUME NEW u, Hearing(u)  PROVE Hearing(u)'
  <2>1. PICK k \in 1..Len(stack) : stack[k].event \in DataEvents /\ stack[k].rcpt = u
    BY <1>4 DEF Hearing
  <2>2. k # Len(stack)
    BY <1>1, <1>2, <2>1
  <2>. QED  BY <1>3, <2>1, <2>2 DEF Hearing
<1>. QED  BY <1>2, <1>3, <1>4

\* A quality query takes the flag and the ghost of its member together, at a moment
\* when nothing is just being delivered to that member.
LEMMA QualityQueryKeepsFlags ==
    ASSUME FlagsRight, QualityQuery
    PROVE  FlagsAreOfMembers' /\ DetectedAreFlagged' /\ FramesAreFlagSafe'
<1>1. stack # <<>> /\ UNCHANGED <<nodeId, registry, stopped>>
  BY DEF QualityQuery, At, objects
<1>2. CASE Return /\ UNCHANGED <<heard, detected>>
           /\ (At("QualityQuery", "Dispatched") \/ At("QualityQuery", "QualityIndicator")
                \/ At("QualityQuery", "QualityRejected"))
  <2>1. DataMoves
    BY <1>2 DEF DataMoves, At, DataEvents
  <2>. QED  BY <1>1, <2>1, DataMovesKeepFlags
<1>3. CASE /\ At("QualityQuery", "Dispatched") /\ registry[Top.sid] # NoTransport
           /\ heard' = heard \ {Top.sid}
           /\ detected' = detected \ {registry[Top.sid]}
           /\ DeliverToSender(registry[Top.sid], IF Top.sid \in heard THEN "QualityIndicator"
                                                 ELSE "QualityRejected")
  <2>. DEFINE t == registry[Top.sid]
  <2>1. t \in Constructed /\ t \in Transport /\ nodeId[t] = Top.sid /\ ~Hearing(t)
    BY <1>1, <1>3, FlagCommandsFindCaller DEF At, FlagCommands, Constructed
  <2>2. \A u \in Constructed : u # t => nodeId[u] # Top.sid
    BY <2>1, MembersAreFound
  <2>3. Constructed' = Constructed
    BY <1>1 DEF Constructed
  <2>4. PICK e \in Results : DeliverToSender(t, e)
    BY <1>3 DEF Results
  <2>5. /\ \A u : Hearing(u) => Hearing(u)'
        /\ \A k \in 1..Len(stack') :
              stack'[k].event \in DataEvents => k \in 1..Len(stack) /\ stack'[k] = stack[k]
    BY <1>1, <1>3, <2>1, <2>4, ResultKeepsDeliveries DEF At
  <2>6. FlagsAreOfMembers'
    BY <1>1, <1>3, <2>1, <2>2, <2>3 DEF FlagsAreOfMembers, FlagsRight
  <2>7. DetectedAreFlagged'
    BY <1>1, <1>3, <2>1, <2>2, <2>3, <2>5 DEF DetectedAreFlagged, FlagsRight
  <2>8. ASSUME NEW k \in 1..Len(stack')  PROVE FrameIsFlagSafe(stack[k])'
    <3>1. CASE stack'[k].event \notin DataEvents
      BY <3>1 DEF FrameIsFlagSafe, DataEvents
    <3>2. CASE stack'[k].event \in DataEvents
      <4>1. k \in 1..Len(stack) /\ stack'[k] = stack[k] /\ FrameIsFlagSafe(stack[k])
        BY <2>5, <3>2 DEF FlagsRight, FramesAreFlagSafe
      <4>2. stack[k].rcpt # t
        BY <2>1, <3>2, <4>1 DEF Hearing
      <4>. QED  BY <1>1, <1>3, <3>2, <4>1, <4>2 DEF FrameIsFlagSafe
    <3>. QED  BY <3>1, <3>2
  <2>. QED  BY <2>6, <2>7, <2>8 DEF FramesAreFlagSafe
<1>. QED  BY <1>1, <1>2, <1>3 DEF QualityQuery, At

\* A change of address moves the member's flag with it, if it has one: nothing is just
\* being delivered to that member, and no other has the old address or the new.
LEMMA SetAddressKeepsFlags ==
    ASSUME FlagsRight, SetAddress
    PROVE  FlagsAreOfMembers' /\ DetectedAreFlagged' /\ FramesAreFlagSafe'
<1>1. stack # <<>> /\ UNCHANGED <<stopped, detected>>
  BY DEF SetAddress, At
<1>2. Top \in Frame /\ Top.sid \in Id /\ Top.tid \in Id
  BY <1>1, TopIsFrame DEF FlagsRight, Frame
<1>3. CASE Return /\ UNCHANGED <<nodeId, registry, heard>>
           /\ (At("SetAddress", "Dispatched") \/ At("SetAddress", "AddressSet"))
  <2>1. DataMoves
    BY <1>1, <1>3 DEF DataMoves, At, DataEvents
  <2>. QED  BY <1>1, <1>3, <2>1, DataMovesKeepFlags
<1>4. CASE ~(Return /\ UNCHANGED <<nodeId, registry, heard>>
             /\ (At("SetAddress", "Dispatched") \/ At("SetAddress", "AddressSet")))
  <2>. DEFINE old == Top.sid
              new == Top.tid
              t == registry[old]
  <2>1. /\ At("SetAddress", "Dispatched")
        /\ t # NoTransport
        /\ new # old => registry[new] \in {NoTransport, t}
        /\ registry' = [registry EXCEPT ![old] = NoTransport, ![new] = t]
        /\ nodeId' = [nodeId EXCEPT ![t] = new]
        /\ heard' = IF old \in heard THEN (heard \ {old}) \cup {new} ELSE heard
        /\ DeliverToSender(t, "AddressSet")
    BY <1>1, <1>4 DEF SetAddress, Rekey, Taken
  <2>2. /\ t \in Constructed /\ t \in Transport /\ nodeId[t] = old /\ ~Hearing(t)
        /\ old \in Id /\ new \in Id
    BY <1>1, <1>2, <2>1, FlagCommandsFindCaller DEF At, FlagCommands, Constructed
  <2>3. /\ \A u : Hearing(u) => Hearing(u)'
        /\ \A k \in 1..Len(stack') :
              stack'[k].event \in DataEvents => k \in 1..Len(stack) /\ stack'[k] = stack[k]
    BY <1>1, <2>1, <2>2, ResultKeepsDeliveries DEF At, Results
  <2>4. /\ Constructed' = Constructed
        /\ nodeId'[t] = new
        /\ \A u \in Constructed : u # t => nodeId'[u] = nodeId[u] /\ nodeId[u] \in Id
    BY <2>1, <2>2, ConstantsAssumption DEF Constructed, FlagsRight, IInv, TypeOK
  <2>5. ASSUME NEW u \in Constructed, u # t  PROVE nodeId[u] # old /\ nodeId[u] # new
    <3>1. registry[nodeId[u]] = u /\ u # NoTransport
      BY MembersAreFound
    <3>. QED  BY <2>1, <2>5, <3>1
  <2>6. new # old => registry[new] = NoTransport /\ new \notin heard
    <3>1. new # old => registry[new] = NoTransport
      BY <2>1, <2>2 DEF FlagsRight, IInv, RegistryConsistent
    <3>. QED  BY <3>1 DEF FlagsRight, FlagsAreOfMembers
  <2>7. /\ registry'[new] = t
        /\ \A i \in Id : i # old /\ i # new => registry'[i] = registry[i]
    BY <2>1, <2>2 DEF FlagsRight, IInv, TypeOK
  <2>8. \A i \in heard' : registry'[i] # NoTransport
    <3>1. \A i \in heard : registry[i] # NoTransport /\ i \in Id
      BY DEF FlagsRight, FlagsAreOfMembers, IInv, TypeOK
    <3>2. ASSUME NEW i \in heard', i # new  PROVE i \in heard /\ i # old
      BY <2>1, <3>2
    <3>. QED  BY <2>1, <2>7, <3>1, <3>2
  <2>9. \A u \in Constructed : nodeId'[u] \in heard' <=> nodeId[u] \in heard
    <3>1. new \in heard' <=> old \in heard
      BY <2>1, <2>6
    <3>2. ASSUME NEW u \in Constructed, u # t  PROVE nodeId'[u] \in heard' <=> nodeId[u] \in heard
      BY <2>1, <2>4, <2>5, <3>2
    <3>. QED  BY <2>2, <2>4, <3>1, <3>2
  <2>10. FlagsAreOfMembers' /\ DetectedAreFlagged'
    BY <1>1, <2>3, <2>4, <2>8, <2>9 DEF FlagsAreOfMembers, DetectedAreFlagged, FlagsRight
  <2>11. ASSUME NEW k \in 1..Len(stack')  PROVE FrameIsFlagSafe(stack[k])'
    <3>1. CASE stack'[k].event \notin DataEvents
      BY <3>1 DEF FrameIsFlagSafe, DataEvents
    <3>2. CASE stack'[k].event \in DataEvents
      <4>1. /\ k \in 1..Len(stack) /\ stack'[k] = stack[k] /\ FrameIsFlagSafe(stack[k])
            /\ stack[k] \in Frame /\ FrameRefersTo(stack[k], Constructed)
        BY <2>3, <3>2 DEF FlagsRight, FramesAreFlagSafe, IInv, TypeOK, FramesRefer
      <4>2. stack[k].rcpt # t /\ stack[k].rcpt # NoTransport
        BY <2>2, <3>2, <4>1 DEF Hearing, FrameRefersTo, DataEvents
      <4>3. stack[k].event = "ReceivedUnicast" => registry'[stack[k].tid] = stack[k].rcpt
        <5>1. stack[k].event = "ReceivedUnicast" =>
                 /\ registry[stack[k].tid] = stack[k].rcpt
                 /\ stack[k].tid \in Id
          BY <4>1 DEF FrameIsFlagSafe, Frame
        <5>. QED  BY <2>6, <2>7, <4>2, <5>1
      <4>. QED  BY <1>1, <3>2, <4>1, <4>3 DEF FrameIsFlagSafe
    <3>. QED  BY <3>1, <3>2
  <2>. QED  BY <2>10, <2>11 DEF FramesAreFlagSafe
<1>. QED  BY <1>3, <1>4

\* What the application does outside the handlers keeps the flags exact too.
LEMMA ApplicationKeepsFlags ==
    ASSUME Disciplined, FlagsRight, NEW t \in Transport, NEW i \in Id, NEW op \in Commands,
           Construct(t, i) \/ Reposition(t) \/ SendCommand(t, op, i)
    PROVE  FlagsAreOfMembers' /\ DetectedAreFlagged' /\ FramesAreFlagSafe'
<1>1. stack \in Seq(Frame) /\ Len(stack) \in Nat /\ heard \subseteq Id
  BY DEF FlagsRight, IInv, TypeOK
<1>2. CASE Reposition(t)
  BY <1>2 DEF Reposition, FlagsRight, FlagsAreOfMembers, DetectedAreFlagged, FramesAreFlagSafe,
              FrameIsFlagSafe, Hearing, Constructed
<1>3. CASE Construct(t, i)
  <2>1. /\ nodeId[t] = NoId /\ registry[i] = NoTransport
        /\ nodeId' = [nodeId EXCEPT ![t] = i]
        /\ registry' = [registry EXCEPT ![i] = t]
        /\ UNCHANGED <<heard, stack, detected>>
    BY <1>3 DEF Construct
  <2>2. i \notin heard /\ t \notin detected /\ t # NoTransport
    BY <2>1, ConstantsAssumption
    DEF FlagsRight, FlagsAreOfMembers, DetectedAreFlagged, Constructed
  <2>3. /\ \A j \in Id : registry'[j] = IF j = i THEN t ELSE registry[j]
        /\ \A u \in Transport : nodeId'[u] = IF u = t THEN i ELSE nodeId[u]
    BY <2>1 DEF FlagsRight, IInv, TypeOK
  <2>4. Constructed' = Constructed \cup {t}
    BY <2>3, ConstantsAssumption DEF Constructed
  <2>5. FlagsAreOfMembers'
    <3>1. \A j \in heard' : registry'[j] # NoTransport
      BY <1>1, <2>1, <2>2, <2>3 DEF FlagsRight, FlagsAreOfMembers
    <3>2. \A u \in Constructed \cup {t} : nodeId'[u] \in heard' => u \in detected'
      BY <2>1, <2>2, <2>3 DEF FlagsRight, FlagsAreOfMembers, Constructed
    <3>. QED  BY <2>4, <3>1, <3>2 DEF FlagsAreOfMembers
  <2>6. DetectedAreFlagged'
    BY <2>1, <2>2, <2>3, <2>4
    DEF FlagsRight, DetectedAreFlagged, Hearing, Constructed
  <2>7. FramesAreFlagSafe'
    <3>1. ASSUME NEW k \in 1..Len(stack)  PROVE FrameIsFlagSafe(stack[k])'
      <4>1. stack[k] \in Frame /\ FrameIsFlagSafe(stack[k]) /\ FrameRefersTo(stack[k], Constructed)
        BY <1>1 DEF FlagsRight, FramesAreFlagSafe, IInv, FramesRefer
      <4>2. stack[k].event = "ReceivedUnicast" => stack[k].tid \in Id /\ stack[k].tid # i
        BY <2>1, <4>1 DEF Frame, FrameIsFlagSafe, FrameRefersTo
      <4>. QED  BY <2>1, <2>3, <4>1, <4>2 DEF FrameIsFlagSafe
    <3>. QED  BY <2>1, <3>1 DEF FramesAreFlagSafe
  <2>. QED  BY <2>5, <2>6, <2>7
<1>4. CASE SendCommand(t, op, i)
  <2>1. PICK f : /\ stack' = Append(stack, f)
                 /\ f = [op |-> op, caller |-> t, sid |-> nodeId[t], tid |-> i,
                         src |-> NoTransport, todo |-> {},
                         rcpt |-> NoTransport, event |-> "Dispatched"]
    BY <1>4 DEF SendCommand
  <2>2. UNCHANGED <<nodeId, registry, heard, detected>>
    BY <1>4 DEF SendCommand, objects
  <2>4. /\ Len(stack') = Len(stack) + 1
        /\ \A k \in 1..Len(stack) : k \in 1..Len(stack') /\ stack'[k] = stack[k]
        /\ stack'[Len(stack) + 1] = f
    BY <1>1, <2>1
  <2>5. FlagsAreOfMembers'
    BY <2>2 DEF FlagsRight, FlagsAreOfMembers, Constructed
  <2>6. DetectedAreFlagged'
    <3>1. \A u : Hearing(u) => Hearing(u)'
      BY <2>4 DEF Hearing
    <3>. QED  BY <2>2, <3>1 DEF FlagsRight, DetectedAreFlagged, Constructed
  <2>7. FramesAreFlagSafe'
    <3>1. ASSUME NEW k \in 1..Len(stack')  PROVE FrameIsFlagSafe(stack[k])'
      <4>1. CASE k \in 1..Len(stack)
        BY <2>2, <2>4, <4>1 DEF FlagsRight, FramesAreFlagSafe, FrameIsFlagSafe
      <4>2. CASE k = Len(stack) + 1
        <5>1. stack'[k] = f /\ f.event = "Dispatched"
          BY <2>1, <2>4, <4>2
        <5>. QED  BY <5>1 DEF FrameIsFlagSafe, DataEvents
      <4>. QED  BY <1>1, <2>4, <4>1, <4>2
    <3>. QED  BY <3>1 DEF FramesAreFlagSafe
  <2>. QED  BY <2>5, <2>6, <2>7
<1>. QED  BY <1>2, <1>3, <1>4

\* A handler, or an exception, leaves no command that is not yet handled.
LEMMA HandledLeavesNoneSent ==
    ASSUME IInv, CallersFound, stack # <<>>, HandlerMoves
    PROVE  FlagCommandsAreFree'
<1>1. /\ stack \in Seq(Frame) /\ Len(stack) \in Nat /\ Len(stack) \in 1..Len(stack)
      /\ Top = stack[Len(stack)] /\ Top \in Frame
  BY TopIsFrame DEF IInv, TypeOK, Top
<1>2. CASE Return
  <2>1. /\ stack' \in Seq(Frame)
        /\ Len(stack') = Len(stack) - 1
        /\ \A k \in 1..Len(stack') : stack'[k] = stack[k]
    BY <1>1, <1>2, ButLast DEF Return
  <2>2. CASE stack' = <<>>
    BY <2>2 DEF FlagCommandsAreFree
  <2>3. CASE stack' # <<>>
    <3>1. Len(stack') \in 1..Len(stack') /\ Len(stack') \in 1..Len(stack) /\ Len(stack') # Len(stack)
      BY <1>1, <2>1, <2>3
    <3>2. Top' = stack[Len(stack')]
      BY <2>1, <3>1 DEF Top
    <3>3. Top'.event # "Dispatched"
      BY <3>1, <3>2 DEF CallersFound
    <3>. QED  BY <3>3 DEF FlagCommandsAreFree
  <2>. QED  BY <2>2, <2>3
<1>3. ASSUME NEW f, f.event \in Events, Proceed(f)  PROVE FlagCommandsAreFree'
  <2>1. Top' = f
    BY <1>1, <1>3 DEF Proceed, Top
  <2>. QED  BY <1>3, <2>1 DEF FlagCommandsAreFree, Events, DataEvents, LocalAcks, Results
<1>4. ASSUME NEW e \in Events, HandsSender(e) \/ HandsFound(e)  PROVE FlagCommandsAreFree'
  BY <1>1, <1>3, <1>4 DEF HandsSender, HandsFound, DeliverToSender, Deliver, Frame
<1>5. ASSUME NEW l \in Transport, NEW rest \in SUBSET Transport, NEW e \in DataEvents,
             HandsData(l, rest, e)
      PROVE  FlagCommandsAreFree'
  BY <1>1, <1>3, <1>5 DEF HandsData, Frame, Events
<1>. QED  BY <1>2, <1>4, <1>5 DEF HandlerMoves

\* While application code runs no command waits to be handled, and what it sends to
\* read or move a flag it sends for a transport to which nothing is being delivered,
\* if the flags are to stay undisturbed.
LEMMA ApplicationLeavesNoneSent ==
    ASSUME LiveInv, undisturbed', NEW t \in Transport,
           \/ \E i \in Id : Construct(t, i)
           \/ Reposition(t)
           \/ \E op \in Commands, i \in Id : SendCommand(t, op, i)
    PROVE  FlagCommandsAreFree'
<1>1. stack \in Seq(Frame) /\ Len(stack) \in Nat
  BY DEF LiveInv, IInv, TypeOK
<1>2. stack # <<>> => Top.event # "Dispatched"
  <2>1. stack # <<>> => Len(stack) \in 1..Len(stack)
    BY <1>1
  <2>. QED
    BY <2>1 DEF LiveInv, CallersFound, JustSent, InApplication, Construct, Reposition, SendCommand,
                May, Top
<1>3. CASE UNCHANGED stack
  BY <1>2, <1>3 DEF FlagCommandsAreFree, Top
<1>4. ASSUME NEW op \in Commands, NEW i \in Id, SendCommand(t, op, i)
      PROVE  FlagCommandsAreFree'
  <2>1. PICK f : /\ stack' = Append(stack, f)
                 /\ f = [op |-> op, caller |-> t, sid |-> nodeId[t], tid |-> i,
                         src |-> NoTransport, todo |-> {},
                         rcpt |-> NoTransport, event |-> "Dispatched"]
    BY <1>4 DEF SendCommand
  <2>2. /\ Len(stack') = Len(stack) + 1
        /\ \A k \in 1..Len(stack) : stack'[k] = stack[k]
        /\ stack'[Len(stack')] = f
        /\ \A k \in 1..Len(stack') : k \in 1..Len(stack) \/ k = Len(stack')
    BY <1>1, <2>1
  <2>3. Top' = f /\ f.caller = t /\ f.op = op /\ f.event \notin DataEvents
    BY <2>1, <2>2 DEF Top, DataEvents
  <2>4. op \in FlagCommands => ~Hearing(t)
    BY <1>4 DEF SendCommand
  <2>5. Hearing(t)' => Hearing(t)
    BY <2>2, <2>3 DEF Hearing
  <2>. QED  BY <2>3, <2>4, <2>5 DEF FlagCommandsAreFree
<1>. QED  BY <1>3, <1>4 DEF Construct, Reposition

\* For a disciplined application every step keeps the invariant: what leaves a flag
\* behind ends the hypothesis.
LEMMA StepFlagInv == Disciplined /\ FlagInv /\ [Next]_vars => FlagInv'
<1> SUFFICES ASSUME Disciplined, FlagInv, [Next]_vars, undisturbed'  PROVE FlagsRight'
  BY StepLiveInv DEF FlagInv
<1>1. IInv' /\ RegisteredIffLive' /\ CallersFound'
  BY StepLiveInv DEF FlagInv, LiveInv
<1>2. Handle => stack # <<>> /\ HandlerMoves /\ UNCHANGED <<stopped, undisturbed>>
  BY HandlersMove DEF FlagInv, LiveInv
<1>3. FlagsRight
  BY <1>2 DEF FlagInv, Next, vars, Construct, Stop, Reposition, SendCommand, CallbackRaises
<1>4. \A t \in Transport : ~Stop(t)
  BY DEF Stop
<1>5. stopped' = stopped
  BY <1>2, <1>4 DEF Next, vars, Construct, Reposition, SendCommand, CallbackRaises, objects
<1>. SUFFICES FlagsAreOfMembers' /\ DetectedAreFlagged' /\ FramesAreFlagSafe' /\ FlagCommandsAreFree'
  BY <1>1, <1>3, <1>5 DEF FlagsRight
<1>6. CASE Handle
  <2>1. FlagCommandsAreFree'
    BY <1>2, <1>3, <1>6, HandledLeavesNoneSent DEF FlagsRight
  <2>2. FlagsAreOfMembers' /\ DetectedAreFlagged' /\ FramesAreFlagSafe'
    BY <1>3, <1>6, HandlersMoveData, DataMovesKeepFlags, QualityQueryKeepsFlags,
       SetAddressKeepsFlags
  <2>. QED  BY <2>1, <2>2
<1>7. CASE CallbackRaises
  <2>1. /\ stack # <<>> /\ Return /\ UNCHANGED <<nodeId, registry, heard, detected>>
        /\ Top.event \notin DataEvents
    BY <1>7 DEF CallbackRaises, objects
  <2>2. HandlerMoves /\ DataMoves
    BY <2>1 DEF HandlerMoves, DataMoves
  <2>3. FlagCommandsAreFree'
    BY <1>3, <2>1, <2>2, HandledLeavesNoneSent DEF FlagsRight
  <2>4. FlagsAreOfMembers' /\ DetectedAreFlagged' /\ FramesAreFlagSafe'
    BY <1>3, <2>1, <2>2, DataMovesKeepFlags
  <2>. QED  BY <2>3, <2>4
<1>8. CASE UNCHANGED vars
  BY <1>3, <1>8 DEF vars, FlagsRight, FlagsAreOfMembers, DetectedAreFlagged, FramesAreFlagSafe,
              FrameIsFlagSafe, FlagCommandsAreFree, Hearing, Constructed, Top
<1>9. ASSUME NEW t \in Transport, Reposition(t)
      PROVE  FlagsAreOfMembers' /\ DetectedAreFlagged' /\ FramesAreFlagSafe'
  BY <1>3, <1>9 DEF Reposition, FlagsRight, FlagsAreOfMembers, DetectedAreFlagged,
              FramesAreFlagSafe, FrameIsFlagSafe, Hearing, Constructed
<1>10. ASSUME NEW t \in Transport, NEW i \in Id, Construct(t, i)
       PROVE  FlagsAreOfMembers' /\ DetectedAreFlagged' /\ FramesAreFlagSafe'
  BY <1>3, <1>10, ApplicationKeepsFlags DEF Commands
<1>11. ASSUME NEW t \in Transport, NEW op \in Commands, NEW i \in Id, SendCommand(t, op, i)
       PROVE  FlagsAreOfMembers' /\ DetectedAreFlagged' /\ FramesAreFlagSafe'
  BY <1>3, <1>11, ApplicationKeepsFlags
<1>12. LiveInv
  BY DEF FlagInv
<1>. QED
  BY <1>4, <1>6, <1>7, <1>8, <1>9, <1>10, <1>11, <1>12, ApplicationLeavesNoneSent DEF Next

\* For a disciplined application the heard flag follows the modem until a transport is
\* stopped, or a callback that is receiving data raises, changes its address or asks
\* for quality: a transport to which nothing is just being delivered is flagged iff a
\* data packet has reached it since the last quality query under its address,
\* whatever addresses it has had (in_memory.py:109, 116, 157-159, 231).
THEOREM HeardFlagsAreExact ==
    ASSUME Disciplined
    PROVE  Spec => []QualityExact
<1>1. Init => FlagInv
  BY InitIInv, ConstantsAssumption
  DEF Init, FlagInv, LiveInv, FlagsRight, RegisteredIffLive, CallersFound, FlagsAreOfMembers,
      DetectedAreFlagged, FramesAreFlagSafe, FlagCommandsAreFree, Constructed
<1>2. FlagInv => QualityExact
  BY DEF FlagInv, FlagsRight, FlagsAreOfMembers, DetectedAreFlagged, QualityExact
<1>3. FlagInv /\ [Next]_vars => FlagInv'
  BY StepFlagInv
<1>. QED  BY <1>1, <1>2, <1>3, PTL DEF Spec
================================================================================
