------------------------- MODULE SimulatorWindow_proofs ------------------------
(***************************************************************************)
(* Theorems about SimulatorWindow, for any numbers of nodes, clients and   *)
(* positions and any bound of the queue.                                   *)
(*                                                                         *)
(* That a settled window shows what there is follows from what is true     *)
(* while it is not settled: unless a refresh is due, the panels that have  *)
(* been redrawn are right.                                                 *)
(***************************************************************************)
EXTENDS SimulatorWindow, TLAPS

\* A client thread that is registering a node has made it known.
HandledIsKnown == \A n \in Node : handler[n] # "idle" => n \in nodes

\* The queue is emptied by a callback of its own.
DrainingIsIdle == poll = "draining" => todo = <<>>

\* A refresh is queued, has been taken from the queue, or will be put there by a
\* client thread.
Queued == \E i \in 1..Len(queue) : queue[i] = "refresh"
Taken == poll = "draining" /\ refresh
Registering == \E n \in Node : handler[n] # "idle"
RefreshDue == Queued \/ Taken \/ Registering

\* What each panel shows, apart from what nobody asks a refresh for.
RegistryFresh ==
    \A n \in nodes :
        /\ <<"row", n>> \in unseen \/ rows[n] = Row(n)
        /\ <<"row", n>> \in unseen \/ <<"label", n>> \in unseen \/ labels[n] = transport[n]
MapFresh ==
    /\ \A n \in nodes :
          /\ <<"physical", n>> \in unseen \/ markers[<<"physical", n>>] = physical[n]
          /\ <<"belief", n>> \in unseen \/ markers[<<"belief", n>>] = belief[n]
    /\ markers[Selection] = selection

PanelsFresh ==
    open /\ ~RefreshDue =>
        /\ todo \in {<<>>, <<"map">>} => RegistryFresh
        /\ todo = <<>> => MapFresh

IInv ==
    /\ TypeOK /\ HandledIsKnown
    /\ SelectionOfThisEdit
    /\ DrainingIsIdle /\ PanelsFresh

--------------------------------------------------------------------------------
(* The queue.                                                                 *)

Item == {"text", "refresh"}

\* What is put into the queue is behind what is there.
LEMMA QueuePut ==
    ASSUME TypeOK, NEW item \in Item, Put(item)
    PROVE  /\ queue' \in Seq(Item) /\ Len(queue') <= MaxQueue
           /\ Queued \/ item = "refresh" => Queued'
<1>1. /\ queue \in Seq(Item) /\ Len(queue) \in Nat /\ MaxQueue \in Nat
      /\ Len(queue) < MaxQueue /\ queue' = Append(queue, item)
  BY ConstantsAssumption DEF TypeOK, Put, Item
<1>2. /\ queue' \in Seq(Item) /\ Len(queue') = Len(queue) + 1
      /\ \A i \in 1..Len(queue) : queue'[i] = queue[i]
      /\ queue'[Len(queue) + 1] = item
  BY <1>1
<1>3. Queued => Queued'
  BY <1>1, <1>2 DEF Queued
<1>4. item = "refresh" => Queued'
  BY <1>1, <1>2 DEF Queued
<1>. QED  BY <1>1, <1>2, <1>3, <1>4

\* A refresh in the queue is its first item or is still there when that is taken.
LEMMA QueueTake ==
    ASSUME TypeOK, queue # <<>>, queue' = Tail(queue)
    PROVE  /\ queue' \in Seq(Item) /\ Len(queue') <= MaxQueue
           /\ Queued => Head(queue) = "refresh" \/ Queued'
<1>1. queue \in Seq(Item) /\ Len(queue) \in Nat \ {0} /\ MaxQueue \in Nat
  BY ConstantsAssumption DEF TypeOK, Item
<1>2. /\ queue' \in Seq(Item) /\ Len(queue') = Len(queue) - 1 /\ Head(queue) = queue[1]
      /\ \A i \in 1..Len(queue) - 1 : queue'[i] = queue[i + 1]
  BY <1>1
<1>3. ASSUME NEW i \in 1..Len(queue), queue[i] = "refresh", i # 1  PROVE Queued'
  <2>1. i - 1 \in 1..Len(queue') /\ queue'[i - 1] = "refresh"
    BY <1>1, <1>2, <1>3
  <2>. QED  BY <2>1 DEF Queued
<1>. QED  BY <1>1, <1>2, <1>3 DEF TypeOK, Queued

\* What the running callback redraws next, and what it then has left.
LEMMA TodoSteps ==
    /\ Head(Panels) = "registry" /\ Tail(Panels) = <<"map">>
    /\ Head(<<"map">>) = "map" /\ Tail(<<"map">>) = <<>>
    /\ Panels \notin {<<>>, <<"map">>} /\ <<"map">> # <<>>
  BY DEF Panels

--------------------------------------------------------------------------------
(* Types.                                                                     *)

TypeInv == TypeOK /\ HandledIsKnown

\* Every variable has its type at first; a scenario may have placed nodes.
LEMMA TypeInit == Init => TypeInv
<1> SUFFICES ASSUME Init  PROVE TypeInv
  OBVIOUS
<1>1. /\ nodes \subseteq Node /\ connected \subseteq nodes
      /\ unseen \subseteq {"row", "label", "physical", "belief"} \X nodes
      /\ clicked \subseteq Pos
  BY DEF Init
<1>2. /\ physical \in [Node -> Pos \cup {None}] /\ belief \in [Node -> Pos \cup {None}]
      /\ transport \in [Node -> Transport \cup {None}]
      /\ handler \in [Node -> Transport \cup {"idle", "text", "refresh"}]
      /\ rows \in [Node -> Pos \cup {None, Blank, Edited}]
      /\ labels \in [Node -> Transport \cup {None}]
  BY DEF Init
<1>3. markers \in [Markers -> Pos \cup {None}]
  BY DEF Init
<1>4. queue \in Seq({"text", "refresh"}) /\ Len(queue) <= MaxQueue
  BY ConstantsAssumption DEF Init
<1>5. \A n \in Node \ nodes : /\ physical[n] = None /\ markers[<<"physical", n>>] = None
                            /\ rows[n] = None /\ transport[n] = None
  BY DEF Init, Markers
<1>6. HandledIsKnown
  BY DEF Init, HandledIsKnown
<1>. QED  BY <1>1, <1>2, <1>3, <1>4, <1>5, <1>6 DEF TypeInv, TypeOK, Init

\* The threads of the backend keep the types; what they deal with is known.
LEMMA BackendTypes ==
    ASSUME TypeInv, NEW n \in Node,
           \/ \E t \in Transport : Register(n, t)
           \/ StoreTransport(n) \/ AnnounceText(n) \/ AnnounceRefresh(n)
           \/ CleanUp(n) \/ Traffic(n) \/ \E m \in Node, p \in Pos : UpdateBelief(n, m, p)
    PROVE  TypeInv'
<1>. USE ConstantsAssumption
     DEF TypeInv, TypeOK, HandledIsKnown, known, tables, edit, polling, screen
<1>1. ASSUME NEW t \in Transport, Register(n, t)  PROVE TypeInv'
  BY <1>1 DEF Register
<1>2. CASE StoreTransport(n)
  <2>1. n \in nodes /\ handler[n] \in Transport
    BY <1>2 DEF StoreTransport, Transport
  <2>2. transport' \in [Node -> Transport \cup {None}]
    BY <1>2, <2>1 DEF StoreTransport
  <2>3. handler' \in [Node -> Transport \cup {"idle", "text", "refresh"}]
    BY <1>2 DEF StoreTransport
  <2>4. connected' \subseteq nodes
    BY <1>2 DEF StoreTransport
  <2>5. \A m \in Node \ nodes : transport'[m] = None
    BY <1>2, <2>1 DEF StoreTransport
  <2>6. \A m \in Node : handler'[m] # "idle" => m \in nodes
    BY <1>2, <2>1 DEF StoreTransport
  <2>. QED  BY <1>2, <2>2, <2>3, <2>4, <2>5, <2>6 DEF StoreTransport
<1>3. CASE AnnounceText(n)
  <2>1. queue' \in Seq({"text", "refresh"}) /\ Len(queue') <= MaxQueue
    BY <1>3, QueuePut DEF AnnounceText, Item
  <2>. QED  BY <1>3, <2>1 DEF AnnounceText
<1>4. CASE AnnounceRefresh(n)
  <2>1. queue' \in Seq({"text", "refresh"}) /\ Len(queue') <= MaxQueue
    BY <1>4, QueuePut DEF AnnounceRefresh, Item
  <2>. QED  BY <1>4, <2>1 DEF AnnounceRefresh
<1>5. CASE CleanUp(n)
  BY <1>5 DEF CleanUp
<1>6. CASE Traffic(n)
  <2>1. queue' \in Seq({"text", "refresh"}) /\ Len(queue') <= MaxQueue
    BY <1>6, QueuePut DEF Traffic, Item
  <2>. QED  BY <1>6, <2>1 DEF Traffic
<1>7. ASSUME NEW m \in Node, NEW p \in Pos, UpdateBelief(n, m, p)  PROVE TypeInv'
  <2>1. queue' \in Seq({"text", "refresh"}) /\ Len(queue') <= MaxQueue
    BY <1>7, QueuePut DEF UpdateBelief, Item
  <2>2. /\ belief' \in [Node -> Pos \cup {None}] /\ nodes' \subseteq Node
        /\ nodes \subseteq nodes' /\ m \in nodes'
    BY <1>7 DEF UpdateBelief
  <2>3. unseen' \subseteq {"row", "label", "physical", "belief"} \X nodes'
    BY <1>7, <2>2 DEF UpdateBelief
  <2>. QED  BY <1>7, <2>1, <2>2, <2>3 DEF UpdateBelief
<1>. QED  BY <1>1, <1>2, <1>3, <1>4, <1>5, <1>6, <1>7

\* So do the callbacks of the window.
LEMMA WindowTypes ==
    ASSUME TypeInv,
           \/ \E n \in Node : StartEdit(n) \/ PushGps(n)
           \/ BeginPoll \/ TakeItem \/ EndPoll \/ DrawRegistry \/ DrawMap
           \/ \E v \in Pos \cup {"other"} : Type(v)
           \/ \E p \in Pos : MapClick(p)
           \/ CancelEdit \/ SaveEdit \/ SendGps \/ Close
    PROVE  TypeInv'
<1>. USE ConstantsAssumption
     DEF TypeInv, TypeOK, HandledIsKnown, known, tables, edit, polling, screen
<1>0. Put("text") => queue' \in Seq({"text", "refresh"}) /\ Len(queue') <= MaxQueue
  BY QueuePut DEF Item
<1>1. ASSUME NEW n \in Node, StartEdit(n)  PROVE TypeInv'
  <2>1. n \in nodes
    BY <1>1 DEF StartEdit, HasButtons
  <2>. QED  BY <1>1, <2>1 DEF StartEdit
<1>2. ASSUME NEW n \in Node, PushGps(n)  PROVE TypeInv'
  BY <1>0, <1>2 DEF PushGps
<1>3. CASE BeginPoll
  BY <1>3 DEF BeginPoll
<1>4. CASE TakeItem
  <2>1. queue' \in Seq({"text", "refresh"}) /\ Len(queue') <= MaxQueue
    BY <1>4, QueueTake DEF TakeItem, Item
  <2>2. refresh' \in BOOLEAN
    BY <1>4 DEF TakeItem
  <2>. QED  BY <1>4, <2>1, <2>2 DEF TakeItem
<1>5. CASE EndPoll
  BY <1>5 DEF EndPoll
<1>6. CASE DrawRegistry
  <2>1. todo' = <<"map">>
    BY <1>6, TodoSteps DEF DrawRegistry
  <2>2. rows' \in [Node -> Pos \cup {None, Blank, Edited}]
    BY <1>6 DEF DrawRegistry, Row
  <2>3. labels' \in [Node -> Transport \cup {None}]
    BY <1>6 DEF DrawRegistry
  <2>. QED  BY <1>6, <2>1, <2>2, <2>3 DEF DrawRegistry
<1>7. CASE DrawMap
  <2>1. todo' = <<>>
    BY <1>7, TodoSteps DEF DrawMap
  <2>2. markers' \in [Markers -> Pos \cup {None}]
    BY <1>7 DEF DrawMap, Markers, Selection
  <2>3. \A m \in Node \ nodes : markers'[<<"physical", m>>] = None
    <3>1. TAKE m \in Node \ nodes
    <3>2. <<"physical", m>> \in Markers /\ physical[m] = None
      BY DEF Markers
    <3>3. markers' = [k \in Markers |-> CASE k[1] = "physical" -> physical[k[2]]
                                          [] k[1] = "belief" -> belief[k[2]]
                                          [] k = Selection -> selection]
      BY <1>7 DEF DrawMap
    <3>4. <<"physical", m>> # Selection
      BY DEF Selection
    <3>5. markers'[<<"physical", m>>] = physical[m]
      BY <3>2, <3>3, <3>4
    <3>. QED  BY <3>2, <3>5
  <2>4. /\ unseen' = unseen \ ({"physical", "belief"} \X Node)
        /\ UNCHANGED <<known, tables, queue, open, polling, pushing, edit, rows, labels>>
    BY <1>7 DEF DrawMap
  <2>5. unseen' \subseteq {"row", "label", "physical", "belief"} \X nodes'
    BY <2>4
  <2>. QED  BY <2>1, <2>2, <2>3, <2>4, <2>5
<1>8. ASSUME NEW v \in Pos \cup {"other"}, Type(v)  PROVE TypeInv'
  BY <1>8 DEF Type
<1>9. ASSUME NEW p \in Pos, MapClick(p)  PROVE TypeInv'
  BY <1>9 DEF MapClick
<1>10. CASE CancelEdit
  BY <1>10 DEF CancelEdit, EndEdit
<1>11. CASE SaveEdit
  <2>1. physical' \in [Node -> Pos \cup {None}] /\ editing \in nodes
    BY <1>11 DEF SaveEdit
  <2>2. \A m \in Node \ nodes : physical'[m] = None
    BY <1>11, <2>1 DEF SaveEdit
  <2>. QED  BY <1>0, <1>11, <2>1, <2>2 DEF SaveEdit, EndEdit
<1>12. CASE SendGps
  BY <1>0, <1>12 DEF SendGps
<1>13. CASE Close
  BY <1>13 DEF Close
<1>. QED  BY <1>1, <1>2, <1>3, <1>4, <1>5, <1>6, <1>7, <1>8, <1>9, <1>10, <1>11,
              <1>12, <1>13

\* Every step keeps the types.
LEMMA TypeStep == TypeInv /\ [Next]_vars => TypeInv'
<1>1. TypeInv /\ UNCHANGED vars => TypeInv'
  BY DEF vars, TypeInv, TypeOK, HandledIsKnown, known, tables, edit, polling, screen
<1>2. \A n \in Client : n \in Node
  BY ConstantsAssumption
<1>. QED  BY <1>1, <1>2, BackendTypes, WindowTypes DEF Next
--------------------------------------------------------------------------------
(* The selection, and the queue's own callback.                               *)

\* The selection and what was clicked begin and end together.
LEMMA SelectionStep ==
    SelectionOfThisEdit /\ [Next]_vars => SelectionOfThisEdit'
<1> SUFFICES ASSUME SelectionOfThisEdit, [Next]_vars  PROVE SelectionOfThisEdit'
  OBVIOUS
<1>1. UNCHANGED edit => SelectionOfThisEdit'
  BY DEF SelectionOfThisEdit, edit
<1>2. ASSUME NEW n, StartEdit(n)  PROVE SelectionOfThisEdit'
  BY <1>2 DEF StartEdit, SelectionOfThisEdit
<1>3. ASSUME NEW v, Type(v)  PROVE SelectionOfThisEdit'
  BY <1>3 DEF Type, SelectionOfThisEdit
<1>4. ASSUME NEW p, MapClick(p)  PROVE SelectionOfThisEdit'
  BY <1>4 DEF MapClick, SelectionOfThisEdit
<1>5. CancelEdit \/ SaveEdit => SelectionOfThisEdit'
  BY <1>1 DEF CancelEdit, SaveEdit, EndEdit, SelectionOfThisEdit
<1>6. ASSUME NEW n, \/ \E t \in Transport : Register(n, t)
                    \/ StoreTransport(n) \/ AnnounceText(n) \/ AnnounceRefresh(n)
                    \/ CleanUp(n) \/ Traffic(n) \/ \E m \in Node, p \in Pos : UpdateBelief(n, m, p)
                    \/ PushGps(n)
      PROVE  UNCHANGED edit
  BY <1>6 DEF Register, StoreTransport, AnnounceText, AnnounceRefresh, CleanUp, Traffic,
              UpdateBelief, PushGps
<1>7. BeginPoll \/ TakeItem \/ EndPoll \/ DrawRegistry \/ DrawMap \/ SendGps \/ Close
      => UNCHANGED edit
  BY DEF BeginPoll, TakeItem, EndPoll, DrawRegistry, DrawMap, SendGps, Close
<1>. QED  BY <1>1, <1>2, <1>3, <1>4, <1>5, <1>6, <1>7 DEF Next, vars

\* While the queue is being emptied no other callback runs.
LEMMA DrainingStep ==
    DrainingIsIdle /\ [Next]_vars => DrainingIsIdle'
<1> SUFFICES ASSUME DrainingIsIdle, [Next]_vars  PROVE DrainingIsIdle'
  OBVIOUS
<1>. USE DEF DrainingIsIdle, polling
<1>1. ASSUME NEW n, \/ \E t \in Transport : Register(n, t)
                    \/ StoreTransport(n) \/ AnnounceText(n) \/ AnnounceRefresh(n)
                    \/ CleanUp(n) \/ Traffic(n) \/ \E m \in Node, p \in Pos : UpdateBelief(n, m, p)
                    \/ PushGps(n) \/ StartEdit(n)
      PROVE  DrainingIsIdle'
  BY <1>1 DEF Register, StoreTransport, AnnounceText, AnnounceRefresh, CleanUp, Traffic,
              UpdateBelief, PushGps, StartEdit, Idle
<1>2. BeginPoll \/ TakeItem \/ EndPoll \/ DrawRegistry \/ DrawMap \/ SendGps \/ Close
      => DrainingIsIdle'
  BY DEF BeginPoll, TakeItem, EndPoll, DrawRegistry, DrawMap, SendGps, Close, Idle
<1>3. ASSUME NEW v, Type(v) \/ MapClick(v)  PROVE DrainingIsIdle'
  BY <1>3 DEF Type, MapClick, Idle
<1>4. CancelEdit \/ SaveEdit => DrainingIsIdle'
  BY DEF CancelEdit, SaveEdit, EndEdit, edit, Idle
<1>. QED  BY <1>1, <1>2, <1>3, <1>4 DEF Next, vars

--------------------------------------------------------------------------------
(* What has been drawn is what there is.                                      *)

\* Until its thread has put the refresh into the queue, a node that registers
\* keeps the refresh due, and then the queue does.
LEMMA FreshBackend ==
    ASSUME TypeInv, PanelsFresh, NEW n \in Node,
           \/ \E t \in Transport : Register(n, t)
           \/ StoreTransport(n) \/ AnnounceText(n) \/ AnnounceRefresh(n)
           \/ CleanUp(n) \/ Traffic(n) \/ \E m \in Node, p \in Pos : UpdateBelief(n, m, p)
    PROVE  PanelsFresh'
<1>. USE DEF TypeInv, known, tables, edit, polling, screen
<1>1. ASSUME RefreshDue'  PROVE PanelsFresh'
  BY <1>1 DEF PanelsFresh
<1>2. handler'[n] # "idle" => RefreshDue'
  BY DEF RefreshDue, Registering
<1>3. ASSUME UNCHANGED <<nodes, physical, belief, transport, open, polling, todo, edit,
                         rows, labels, markers, unseen>>,
             RefreshDue => RefreshDue'
      PROVE  PanelsFresh'
  BY <1>3 DEF PanelsFresh, RegistryFresh, MapFresh, Row
<1>4. ASSUME NEW t \in Transport, Register(n, t)  PROVE PanelsFresh'
  BY <1>1, <1>2, <1>4 DEF Register, TypeOK, Transport
<1>5. CASE StoreTransport(n)
  BY <1>1, <1>2, <1>5 DEF StoreTransport, TypeOK
<1>6. CASE AnnounceText(n)
  BY <1>1, <1>2, <1>6 DEF AnnounceText, TypeOK
<1>7. CASE AnnounceRefresh(n)
  <2>1. Queued'
    BY <1>7, QueuePut DEF AnnounceRefresh, Item
  <2>. QED  BY <1>1, <2>1 DEF RefreshDue
<1>8. CASE CleanUp(n)
  <2>1. /\ transport' = [transport EXCEPT ![n] = None]
        /\ unseen' = unseen \cup {<<"label", n>>}
        /\ UNCHANGED <<nodes, physical, belief, handler, queue, open, polling, todo, edit,
                       rows, labels, markers>>
    BY <1>8 DEF CleanUp
  <2>2. RefreshDue' = RefreshDue
    BY <2>1 DEF RefreshDue, Queued, Taken, Registering
  <2>3. RegistryFresh => RegistryFresh'
    BY <2>1 DEF RegistryFresh, Row, TypeOK
  <2>4. MapFresh => MapFresh'
    BY <2>1 DEF MapFresh
  <2>. QED  BY <2>1, <2>2, <2>3, <2>4 DEF PanelsFresh
<1>9. CASE Traffic(n)
  <2>1. Queued => Queued'
    BY <1>9, QueuePut DEF Traffic, Item
  <2>. QED  BY <1>3, <1>9, <2>1 DEF Traffic, RefreshDue, Taken, Registering
<1>10. ASSUME NEW m \in Node, NEW p \in Pos, UpdateBelief(n, m, p)  PROVE PanelsFresh'
  <2>1. /\ belief' = [belief EXCEPT ![m] = p] /\ nodes' = nodes \cup {m}
        /\ unseen' = unseen \cup {<<"belief", m>>} \cup ({"row"} \X ({m} \ nodes))
        /\ UNCHANGED <<physical, transport, handler, open, polling, todo, edit,
                       rows, labels, markers>>
    BY <1>10 DEF UpdateBelief
  <2>2. Queued => Queued'
    BY <1>10, QueuePut DEF UpdateBelief, Item
  <2>3. RefreshDue => RefreshDue'
    BY <2>1, <2>2 DEF RefreshDue, Taken, Registering
  <2>4. RegistryFresh => RegistryFresh'
    BY <2>1 DEF RegistryFresh, Row
  <2>5. MapFresh => MapFresh'
    BY <2>1 DEF MapFresh, TypeOK
  <2>. QED  BY <2>1, <2>3, <2>4, <2>5 DEF PanelsFresh
<1>. QED  BY <1>4, <1>5, <1>6, <1>7, <1>8, <1>9, <1>10

\* A refresh that has been put into the queue stays due until the panels are to be
\* redrawn, and each panel is right when it has been.
LEMMA FreshPolling ==
    ASSUME TypeInv, PanelsFresh, DrainingIsIdle,
           BeginPoll \/ TakeItem \/ EndPoll \/ DrawRegistry \/ DrawMap
    PROVE  PanelsFresh'
<1>. USE DEF TypeInv, known, tables, edit, screen
<1>1. CASE BeginPoll \/ TakeItem
  <2>1. /\ UNCHANGED <<known, tables, open, todo, edit, screen>>
        /\ todo = <<>>
    BY <1>1 DEF BeginPoll, TakeItem, Idle, DrainingIsIdle
  <2>2. open /\ RefreshDue => RefreshDue'
    <3>1. CASE BeginPoll
      BY <3>1 DEF BeginPoll, RefreshDue, Queued, Taken, Registering
    <3>2. CASE TakeItem
      BY <3>2, QueueTake DEF TakeItem, RefreshDue, Taken, Registering, TypeOK
    <3>. QED  BY <1>1, <3>1, <3>2
  <2>. QED  BY <2>1, <2>2 DEF PanelsFresh, RegistryFresh, MapFresh, Row
<1>2. CASE EndPoll
  <2>1. UNCHANGED <<known, tables, queue, open, edit, screen>> /\ poll = "draining"
    BY <1>2 DEF EndPoll
  <2>2. CASE refresh /\ open
    BY <1>2, <2>2, TodoSteps DEF EndPoll, PanelsFresh
  <2>3. CASE ~refresh /\ open
    <3>1. todo = <<>> /\ todo' = <<>>
      BY <1>2, <2>3 DEF EndPoll, DrainingIsIdle
    <3>2. RefreshDue => RefreshDue'
      BY <2>1, <2>3 DEF RefreshDue, Queued, Taken, Registering
    <3>. QED  BY <2>1, <3>1, <3>2 DEF PanelsFresh, RegistryFresh, MapFresh, Row
  <2>4. CASE ~open
    BY <2>1, <2>4 DEF PanelsFresh
  <2>. QED  BY <2>2, <2>3, <2>4
<1>3. CASE DrawRegistry
  <2>1. todo' = <<"map">>
    BY <1>3, TodoSteps DEF DrawRegistry, TypeOK
  <2>2. RegistryFresh'
    BY <1>3 DEF DrawRegistry, RegistryFresh, Row, TypeOK
  <2>. QED  BY <2>1, <2>2, TodoSteps DEF PanelsFresh
<1>4. CASE DrawMap
  <2>1. todo = <<"map">> /\ todo' = <<>>
    BY <1>4, TodoSteps DEF DrawMap, TypeOK
  <2>2. /\ UNCHANGED <<known, tables, queue, open, polling, edit, rows, labels>>
        /\ unseen' = unseen \ ({"physical", "belief"} \X Node)
    BY <1>4 DEF DrawMap
  <2>3. MapFresh'
    <3>1. ASSUME NEW n \in nodes
          PROVE  /\ markers'[<<"physical", n>>] = physical[n]
                 /\ markers'[<<"belief", n>>] = belief[n]
      <4>1. <<"physical", n>> \in Markers /\ <<"belief", n>> \in Markers
        BY <3>1 DEF Markers, TypeOK
      <4>. QED  BY <1>4, <4>1 DEF DrawMap, Selection
    <3>2. markers'[Selection] = selection
      BY <1>4 DEF DrawMap, Markers, Selection
    <3>3. nodes' = nodes /\ physical' = physical /\ belief' = belief /\ selection' = selection
      BY <2>2
    <3>4. Selection' = Selection
      BY DEF Selection
    <3>. QED  BY <3>1, <3>2, <3>3, <3>4 DEF MapFresh
  <2>4. RegistryFresh => RegistryFresh'
    <3>1. \A n : /\ <<"row", n>> \in unseen' <=> <<"row", n>> \in unseen
               /\ <<"label", n>> \in unseen' <=> <<"label", n>> \in unseen
      BY <2>2
    <3>. QED  BY <2>2, <3>1 DEF RegistryFresh, Row
  <2>5. RefreshDue' = RefreshDue
    BY <2>2 DEF RefreshDue, Queued, Taken, Registering, polling
  <2>. QED  BY <2>1, <2>2, <2>3, <2>4, <2>5 DEF PanelsFresh
<1>. QED  BY <1>1, <1>2, <1>3, <1>4

\* The window's own callbacks change nothing on it or have it redrawn.
LEMMA FreshWindow ==
    ASSUME TypeInv, PanelsFresh,
           \/ \E n \in Node : StartEdit(n) \/ PushGps(n)
           \/ \E v \in Pos \cup {"other"} : Type(v)
           \/ \E p \in Pos : MapClick(p)
           \/ CancelEdit \/ SaveEdit \/ SendGps \/ Close
    PROVE  PanelsFresh'
<1>. USE DEF TypeInv, known, tables, polling, screen
<1>1. ASSUME todo' = Panels \/ ~open'  PROVE PanelsFresh'
  BY <1>1, TodoSteps DEF PanelsFresh
<1>2. ASSUME UNCHANGED <<known, tables, open, polling, rows, labels, markers, unseen, editing>>,
             Put("text") \/ UNCHANGED queue,
             \/ UNCHANGED <<todo, selection>>
             \/ todo = <<>> /\ todo' = <<"map">>
      PROVE  PanelsFresh'
  <2>1. Queued => Queued'
    BY <1>2, QueuePut DEF Item, Queued
  <2>2. RefreshDue => RefreshDue'
    BY <1>2, <2>1 DEF RefreshDue, Taken, Registering
  <2>. QED  BY <1>2, <2>2, TodoSteps DEF PanelsFresh, RegistryFresh, MapFresh, Row
<1>3. ASSUME NEW n \in Node, StartEdit(n)  PROVE PanelsFresh'
  BY <1>1, <1>3 DEF StartEdit
<1>4. ASSUME NEW n \in Node, PushGps(n)  PROVE PanelsFresh'
  BY <1>2, <1>4 DEF PushGps, edit
<1>5. ASSUME NEW v, Type(v)  PROVE PanelsFresh'
  BY <1>2, <1>5 DEF Type
<1>6. ASSUME NEW p, MapClick(p)  PROVE PanelsFresh'
  BY <1>2, <1>6 DEF MapClick, Idle
<1>7. CASE CancelEdit \/ Close
  BY <1>1, <1>7 DEF CancelEdit, Close, EndEdit
<1>8. CASE SaveEdit
  <2>1. CASE text \in Pos
    BY <1>1, <1>8, <2>1 DEF SaveEdit, EndEdit
  <2>2. CASE text \notin Pos
    BY <1>2, <1>8, <2>2 DEF SaveEdit, edit
  <2>. QED  BY <2>1, <2>2
<1>9. CASE SendGps
  BY <1>2, <1>9 DEF SendGps, edit
<1>. QED  BY <1>3, <1>4, <1>5, <1>6, <1>7, <1>8, <1>9

--------------------------------------------------------------------------------
(* The theorems.                                                              *)

\* The nodes that a scenario has placed are not on the screen and so unseen.
LEMMA IInvInit == Init => IInv
<1> SUFFICES ASSUME Init  PROVE IInv
  OBVIOUS
<1>1. DrainingIsIdle /\ SelectionOfThisEdit
  BY DEF Init, DrainingIsIdle, SelectionOfThisEdit
<1>2. RegistryFresh
  BY DEF Init, RegistryFresh
<1>3. MapFresh
  BY DEF Init, MapFresh, Markers
<1>. QED  BY <1>1, <1>2, <1>3, TypeInit DEF IInv, TypeInv, PanelsFresh

\* The invariant holds in every state the simulator can reach.
THEOREM IInvHolds == Spec => []IInv
<1>1. IInv /\ [Next]_vars => PanelsFresh'
  <2> SUFFICES ASSUME IInv, [Next]_vars  PROVE PanelsFresh'
    OBVIOUS
  <2>1. CASE UNCHANGED vars
    BY <2>1 DEF IInv, vars, known, tables, edit, polling, screen, PanelsFresh, RegistryFresh,
                MapFresh, Row, RefreshDue, Queued, Taken, Registering
  <2>2. \A n \in Client : n \in Node
    BY ConstantsAssumption
  <2>. QED  BY <2>1, <2>2, FreshBackend, FreshPolling, FreshWindow
       DEF Next, IInv, TypeInv
<1>2. IInv /\ [Next]_vars => IInv'
  BY <1>1, TypeStep, SelectionStep, DrainingStep DEF IInv, TypeInv
<1>. QED  BY <1>2, IInvInit, PTL DEF Spec

\* Every variable of the simulator window keeps its type, and only a known node is
\* placed, connected or shown, whatever threads and callbacks do.
THEOREM TypeCorrect == Spec => []TypeOK
<1>1. IInv => TypeOK
  BY DEF IInv
<1>. QED  BY <1>1, IInvHolds, PTL

\* The grey marker shows where the map was clicked in this edit (app.py:202-229).
THEOREM SelectionBelongs == Spec => []SelectionOfThisEdit
<1>1. IInv => SelectionOfThisEdit
  BY DEF IInv
<1>. QED  BY <1>1, IInvHolds, PTL

\* When the queue is empty and no thread is registering a node, the window shows
\* what there is, although nodes register while it is being redrawn
\* (app.py:167-200, 297-456).
THEOREM SettledWindowIsRight == Spec => []SettledIsShown
<1>1. IInv => SettledIsShown
  <2> SUFFICES ASSUME IInv, Idle, open, queue = <<>>, \A n \in Node : handler[n] = "idle"
               PROVE  RegistryFresh /\ MapFresh
    BY DEF SettledIsShown, RegistryFresh, MapFresh
  <2>1. ~Queued
    BY DEF Queued
  <2>2. ~RefreshDue
    BY <2>1 DEF RefreshDue, Taken, Registering, Idle
  <2>. QED  BY <2>2 DEF IInv, PanelsFresh, Idle
<1>. QED  BY <1>1, IInvHolds, PTL
--------------------------------------------------------------------------------
(* A node that registers is not forgotten.                                    *)

\* A connected node has a row, is about to get one, or has a refresh coming that will
\* give it one: queued, taken from the queue, or still to be put there by a client
\* thread, also when it was placed on the map or had disconnected before.
ConnectedGetsRow ==
    \A n \in connected : open => rows[n] # None \/ RefreshDue \/ todo = Panels

\* A refresh that is due stays due until the panels are redrawn.
LEMMA RefreshStaysDue ==
    ASSUME TypeInv, DrainingIsIdle, [Next]_vars, RefreshDue, open'
    PROVE  RefreshDue' \/ todo' = Panels
<1>. DEFINE Stays == RefreshDue' \/ todo' = Panels
<1>1. ASSUME UNCHANGED <<handler, poll, refresh>>, Put("text") \/ UNCHANGED queue
      PROVE  Stays
  BY <1>1, QueuePut DEF Item, Queued, TypeInv, RefreshDue, Taken, Registering
<1>2. ASSUME NEW n \in Node,
             \/ \E t \in Transport : Register(n, t)
             \/ StoreTransport(n) \/ AnnounceText(n) \/ AnnounceRefresh(n)
             \/ CleanUp(n) \/ Traffic(n) \/ \E m \in Node, p \in Pos : UpdateBelief(n, m, p)
             \/ StartEdit(n) \/ PushGps(n)
      PROVE  Stays
  <2>. USE DEF RefreshDue, Registering
  <2>1. ASSUME handler'[n] # "idle"  PROVE Stays
    BY <2>1
  <2>2. CASE StoreTransport(n) \/ AnnounceText(n) \/ \E t \in Transport : Register(n, t)
    BY <2>1, <2>2 DEF Register, StoreTransport, AnnounceText, Transport, TypeInv, TypeOK
  <2>3. CASE AnnounceRefresh(n)
    BY <2>3, QueuePut DEF AnnounceRefresh, Item, TypeInv
  <2>4. CASE CleanUp(n) \/ Traffic(n) \/ \E m \in Node, p \in Pos : UpdateBelief(n, m, p)
    BY <1>1, <2>4 DEF CleanUp, Traffic, UpdateBelief, tables, polling
  <2>5. CASE StartEdit(n) \/ PushGps(n)
    BY <1>1, <2>5 DEF StartEdit, PushGps, tables, polling
  <2>. QED  BY <1>2, <2>2, <2>3, <2>4, <2>5
<1>3. ASSUME NEW v, Type(v) \/ MapClick(v)  PROVE Stays
  BY <1>1, <1>3 DEF Type, MapClick, tables, polling
<1>4. ASSUME BeginPoll \/ TakeItem \/ EndPoll  PROVE Stays
  <2>. USE DEF RefreshDue, Queued, Taken, Registering, tables
  <2>1. CASE BeginPoll
    BY <2>1 DEF BeginPoll
  <2>2. CASE TakeItem
    BY <2>2, QueueTake DEF TakeItem, TypeInv, TypeOK
  <2>3. CASE EndPoll
    BY <2>3, ConstantsAssumption DEF EndPoll, TypeInv, TypeOK
  <2>. QED  BY <1>4, <2>1, <2>2, <2>3
<1>5. ASSUME \/ DrawRegistry \/ DrawMap \/ CancelEdit \/ SaveEdit \/ SendGps \/ Close
             \/ UNCHANGED vars
      PROVE  Stays
  BY <1>1, <1>5 DEF DrawRegistry, DrawMap, CancelEdit, SaveEdit, SendGps, Close, vars, tables,
                    polling
<1>. HIDE DEF Stays
<1>6. Stays
  BY <1>2, <1>3, <1>4, <1>5, ConstantsAssumption DEF Next
<1>. QED  BY <1>6 DEF Stays

DrawsNothing == UNCHANGED rows /\ (UNCHANGED todo \/ todo = <<>>)

\* Only a redraw changes the rows and takes panels off the list.
LEMMA DrawingSteps ==
    ASSUME DrainingIsIdle, [Next]_vars  PROVE DrawRegistry \/ DrawMap \/ DrawsNothing
<1>1. ASSUME NEW n \in Node,
             \/ \E t \in Transport : Register(n, t)
             \/ StoreTransport(n) \/ AnnounceText(n) \/ AnnounceRefresh(n)
             \/ CleanUp(n) \/ Traffic(n) \/ \E m \in Node, p \in Pos : UpdateBelief(n, m, p)
             \/ StartEdit(n) \/ PushGps(n)
      PROVE  DrawsNothing
  BY <1>1 DEF Register, StoreTransport, AnnounceText, AnnounceRefresh, CleanUp, Traffic,
              UpdateBelief, StartEdit, PushGps, screen, Idle, DrawsNothing
<1>2. ASSUME NEW v, Type(v) \/ MapClick(v)  PROVE DrawsNothing
  BY <1>2 DEF Type, MapClick, screen, Idle, DrawsNothing
<1>3. ASSUME \/ BeginPoll \/ TakeItem \/ EndPoll \/ CancelEdit \/ SaveEdit \/ SendGps \/ Close
             \/ UNCHANGED vars
      PROVE  DrawsNothing
  BY <1>3 DEF DrainingIsIdle, BeginPoll, TakeItem, EndPoll, CancelEdit, SaveEdit, SendGps, Close, vars, screen,
              edit, Idle, DrawsNothing
<1>. QED  BY <1>1, <1>2, <1>3, ConstantsAssumption DEF Next

\* A window that is closed stays closed.
LEMMA ClosedForGood == ASSUME [Next]_vars, open'  PROVE open
  BY DEF Next, Register, StoreTransport, AnnounceText, AnnounceRefresh, CleanUp, Traffic,
         UpdateBelief, StartEdit, PushGps, BeginPoll, TakeItem, EndPoll, DrawRegistry, DrawMap,
         Type, MapClick, CancelEdit, SaveEdit, SendGps, Close, vars

\* A node is connected by a registration, which announces it.
LEMMA JoinsByRegistering ==
    ASSUME TypeInv, [Next]_vars, NEW n \in connected', n \notin connected
    PROVE  RefreshDue'
<1>1. PICK m \in Client, t \in Transport : Register(m, t)
  BY DEF Next, StoreTransport, AnnounceText, AnnounceRefresh, CleanUp, Traffic,
         UpdateBelief, StartEdit, PushGps, BeginPoll, TakeItem, EndPoll, DrawRegistry, DrawMap,
         Type, MapClick, CancelEdit, SaveEdit, SendGps, Close, vars, tables
<1>2. m \in Node /\ handler'[m] = t /\ t # "idle"
  BY <1>1, ConstantsAssumption DEF Register, TypeInv, TypeOK, Transport
<1>. QED  BY <1>2 DEF RefreshDue, Registering

\* Panels still to be drawn are drawn next, and then every known node has a row.
LEMMA RowsAreDrawn ==
    ASSUME TypeInv, DrainingIsIdle, [Next]_vars, NEW n \in nodes
    PROVE  /\ todo = Panels => todo' = Panels \/ rows'[n] # None
           /\ rows[n] # None => rows'[n] # None
<1>1. CASE DrawRegistry
  BY <1>1, ConstantsAssumption DEF DrawRegistry, Row, TypeInv, TypeOK
<1>2. CASE DrawMap
  BY <1>2, TodoSteps DEF DrawMap
<1>3. CASE DrawsNothing
  BY <1>3, TodoSteps DEF DrawsNothing
<1>. QED  BY <1>1, <1>2, <1>3, DrawingSteps

\* A node that connects gets its row with the next refresh of the window, and that is due
\* from its registration on, however registrations, redraws, edits and traffic interleave
\* (app.py:163-200, backends.py:333-373).
THEOREM ConnectedNodesGetRows == Spec => []ConnectedGetsRow
<1>1. Init => ConnectedGetsRow
  BY DEF Init, ConnectedGetsRow
<1>2. IInv /\ ConnectedGetsRow /\ [Next]_vars => ConnectedGetsRow'
  <2>. SUFFICES ASSUME IInv, ConnectedGetsRow, [Next]_vars, NEW n \in connected', open'
                PROVE  rows'[n] # None \/ RefreshDue' \/ todo' = Panels
    BY DEF ConnectedGetsRow
  <2>1. TypeInv /\ DrainingIsIdle
    BY DEF IInv, TypeInv
  <2>2. n \in connected \/ RefreshDue'
    BY ConstantsAssumption, <2>1, JoinsByRegistering
  <2>3. open
    BY ClosedForGood
  <2>. SUFFICES ASSUME n \in connected  PROVE rows'[n] # None \/ RefreshDue' \/ todo' = Panels
    BY <2>2
  <2>4. n \in nodes /\ (rows[n] # None \/ RefreshDue \/ todo = Panels)
    BY <2>1, <2>3 DEF TypeInv, TypeOK, ConnectedGetsRow
  <2>. QED  BY <2>1, <2>4, RefreshStaysDue, RowsAreDrawn
<1>. QED  BY IInvHolds, <1>1, <1>2, PTL DEF Spec

================================================================================
