----------------------------- MODULE SimulatorWindow ---------------------------
(***************************************************************************)
(* The window of the God View simulator (simulator/app.py).  The threads   *)
(* of the backend change the tables and the state (backends.py, state.py)  *)
(* and tell the window through a queue, which the Tk thread empties every  *)
(* 50 ms.  Only the end of a registration asks for a refresh; beliefs and  *)
(* departures are shown by the next one.                                   *)
(*                                                                         *)
(* A callback of the Tk thread is one step, up to what it redraws: each of *)
(* the two panels reads state and tables anew and is a step of its own.    *)
(* What a client thread does to the tables in detail, and to a node that   *)
(* connects twice, is in SimulatorBackend.  Ids are numbers of three       *)
(* digits, as the controllers check (single_node.py:144): a row of any     *)
(* other could not be drawn.                                               *)
(***************************************************************************)
EXTENDS Integers, Sequences

CONSTANTS
    Node,        \* node ids
    Client,      \* bound: the nodes that connect; others are placed by a scenario
    Pos,         \* positions, each with a depth
    None,        \* no position, no row, no marker, no edit
    Blank,       \* a row that shows "Not placed"
    Edited,      \* a row that shows its edit field and not its buttons
    MaxQueue     \* bound: items in the queue

Transport == {"serial", "network"}

ASSUME ConstantsAssumption ==
    /\ Client \subseteq Node
    /\ MaxQueue \in Nat \ {0}
    /\ {None, Blank, Edited} \cap Pos = {} /\ None \notin Node \cup Transport
    /\ None # Blank /\ Blank # Edited /\ None # Edited

VARIABLES
    \* SimulatorState and the tables of HybridBackend.
    nodes,             \* ids in state.physical and state.belief, never removed
    physical, belief,  \* position of each node, None if it has none
    transport,         \* the acoustic transport of each node in the tables, or None
    connected,         \* metadata_clients
    handler,           \* what each node's client thread has still to do to register it
    \* The window.
    queue,             \* _ui_queue, of "text" and "refresh"
    open,              \* the window has not been destroyed
    poll,              \* _process_ui_queue is scheduled, at work or, after an
                       \* exception, never called again
    refresh,           \* its local variable refresh
    todo,              \* panels the running callback has still to redraw
    pushing,           \* the node _push_gps is sending to
    editing,           \* _editing_target
    text,              \* _edit_var
    selection,         \* _selection_marker_pos
    \* What is on the screen.
    rows, labels,      \* what each row shows, and as the node's transport
    markers,           \* _markers
    \* Ghosts.
    unseen,            \* what has changed, without a refresh being asked for
    clicked            \* where the map was clicked since the edit began

known == <<nodes, physical, belief>>
tables == <<transport, connected, handler>>
edit == <<editing, text, selection, clicked>>
polling == <<poll, refresh>>
screen == <<rows, labels, markers, unseen>>
vars == <<known, tables, queue, open, polling, todo, pushing, edit, screen>>

Panels == <<"registry", "map">>

\* The Tk thread is between two callbacks.
Idle == todo = <<>> /\ pushing = None /\ poll # "draining"

Put(item) == Len(queue) < MaxQueue /\ queue' = Append(queue, item)

Selection == <<"selection", None>>
Markers == ({"physical", "belief"} \X Node) \cup {Selection}

\* The main loop begins.  A scenario may have placed nodes after the window was
\* drawn (serial_bridge_with_god_view.py:67-71).
Init ==
    /\ nodes \in SUBSET Node
    /\ physical \in [Node -> Pos \cup {None}]
    /\ \A n \in Node : physical[n] # None <=> n \in nodes
    /\ belief = [n \in Node |-> None]
    /\ transport = [n \in Node |-> None] /\ connected = {}
    /\ handler = [n \in Node |-> "idle"]
    /\ queue = <<>> /\ open = TRUE /\ poll = "scheduled" /\ refresh = FALSE
    /\ todo = <<>> /\ pushing = None
    /\ editing = None /\ text = "other" /\ selection = None /\ clicked = {}
    /\ rows = [n \in Node |-> None] /\ labels = [n \in Node |-> None]
    /\ markers = [m \in Markers |-> None]
    /\ unseen = {"row", "physical"} \X nodes

--------------------------------------------------------------------------------
(* The threads of the backend.                                                *)

\* _handle_registration: the socket, the state and the acoustic transport, also of a
\* line that was received before the backend was stopped ...
Register(n, t) ==
    /\ handler[n] = "idle" /\ n \notin connected
    /\ nodes' = nodes \cup {n}
    /\ connected' = connected \cup {n}
    /\ handler' = [handler EXCEPT ![n] = t]
    /\ UNCHANGED <<physical, belief, transport, queue, open, polling, todo, pushing,
                   edit, screen>>

\* ... which fails, with a clean-up, if the PTY cannot be opened ...
StoreTransport(n) ==
    /\ handler[n] \in Transport
    /\ \/ /\ transport' = [transport EXCEPT ![n] = handler[n]]
          /\ UNCHANGED connected
       \/ /\ handler[n] = "serial"
          /\ connected' = connected \ {n}
          /\ UNCHANGED transport
    /\ handler' = [handler EXCEPT ![n] = "text"]
    /\ UNCHANGED <<known, queue, open, polling, todo, pushing, edit, screen>>

\* ... then on_register, which is the window's _handle_registration.
AnnounceText(n) ==
    /\ handler[n] = "text"
    /\ Put("text")
    /\ handler' = [handler EXCEPT ![n] = "refresh"]
    /\ UNCHANGED <<known, transport, connected, open, polling, todo, pushing, edit,
                   screen>>

AnnounceRefresh(n) ==
    /\ handler[n] = "refresh"
    /\ Put("refresh")
    /\ handler' = [handler EXCEPT ![n] = "idle"]
    /\ UNCHANGED <<known, transport, connected, open, polling, todo, pushing, edit,
                   screen>>

\* _cleanup_node, of which the window is not told.
CleanUp(n) ==
    /\ n \in connected /\ handler[n] = "idle"
    /\ connected' = connected \ {n}
    /\ transport' = [transport EXCEPT ![n] = None]
    /\ unseen' = unseen \cup {<<"label", n>>}
    /\ UNCHANGED <<known, handler, queue, open, polling, todo, pushing, edit, rows,
                   labels, markers>>

\* The reader of a serial node brokers a command, or the client thread of a network
\* node when it is not busy registering.
Brokers(n) == transport[n] = "serial" \/ (transport[n] = "network" /\ handler[n] = "idle")

\* on_raw_traffic.
Traffic(n) ==
    /\ Brokers(n)
    /\ Put("text")
    /\ UNCHANGED <<known, tables, open, polling, todo, pushing, edit, screen>>

\* _apply_belief_update of the id m in the payload, whoever sends it: an id that is not
\* known yet is registered; a line in the console, and no refresh.
UpdateBelief(n, m, p) ==
    /\ Brokers(n)
    /\ nodes' = nodes \cup {m}
    /\ belief' = [belief EXCEPT ![m] = p]
    /\ Put("text")
    /\ unseen' = unseen \cup {<<"belief", m>>} \cup ({"row"} \X ({m} \ nodes))
    /\ UNCHANGED <<physical, tables, open, polling, todo, pushing, edit, rows, labels, markers>>

--------------------------------------------------------------------------------
(* The queue and the redrawing, in the Tk thread.                             *)

BeginPoll ==
    /\ Idle /\ poll = "scheduled"
    /\ poll' = "draining" /\ refresh' = FALSE
    /\ UNCHANGED <<known, tables, queue, open, todo, pushing, edit, screen>>

\* One item; to write to the console of a destroyed window raises TclError.
TakeItemLastDecides ==    \* mutant: a text behind the refresh cancels it
    /\ poll = "draining" /\ queue # <<>>
    /\ queue' = Tail(queue)
    /\ refresh' = (Head(queue) = "refresh")
    /\ poll' = IF Head(queue) = "text" /\ ~open THEN "dead" ELSE poll
    /\ UNCHANGED <<known, tables, open, todo, pushing, edit, screen>>
TakeItem ==
    /\ poll = "draining" /\ queue # <<>>
    /\ queue' = Tail(queue)
    /\ refresh' = (refresh \/ Head(queue) = "refresh")
    /\ poll' = IF Head(queue) = "text" /\ ~open THEN "dead" ELSE poll
    /\ UNCHANGED <<known, tables, open, todo, pushing, edit, screen>>

\* queue.Empty: the refresh, and the next call is scheduled.
EndPollUnscheduled ==     \* mutant: scheduled only if nothing was redrawn
    /\ poll = "draining" /\ queue = <<>>
    /\ IF refresh /\ ~open THEN poll' = "dead" /\ todo' = <<>>
       ELSE /\ poll' = IF refresh THEN "dead" ELSE "scheduled"
            /\ todo' = IF refresh THEN Panels ELSE <<>>
    /\ UNCHANGED <<known, tables, queue, open, refresh, pushing, edit, screen>>
EndPoll ==
    /\ poll = "draining" /\ queue = <<>>
    /\ IF refresh /\ ~open THEN poll' = "dead" /\ todo' = <<>>
       ELSE poll' = "scheduled" /\ todo' = IF refresh THEN Panels ELSE <<>>
    /\ UNCHANGED <<known, tables, queue, open, refresh, pushing, edit, screen>>

Row(n) == IF editing = n THEN Edited ELSE IF physical[n] = None THEN Blank ELSE physical[n]

DrawRegistry ==
    /\ todo # <<>> /\ Head(todo) = "registry"
    /\ rows' = [n \in Node |-> IF n \in nodes THEN Row(n) ELSE None]
    /\ labels' = [n \in Node |-> IF n \in nodes THEN transport[n] ELSE None]
    /\ unseen' = unseen \ ({"row", "label"} \X Node)
    /\ todo' = Tail(todo)
    /\ UNCHANGED <<known, tables, queue, open, polling, pushing, edit, markers>>

DrawMap ==
    /\ todo # <<>> /\ Head(todo) = "map"
    /\ markers' = [m \in Markers |-> CASE m[1] = "physical" -> physical[m[2]]
                                       [] m[1] = "belief" -> belief[m[2]]
                                       [] m = Selection -> selection]
    /\ unseen' = unseen \ ({"physical", "belief"} \X Node)
    /\ todo' = Tail(todo)
    /\ UNCHANGED <<known, tables, queue, open, polling, pushing, edit, rows, labels>>

--------------------------------------------------------------------------------
(* The buttons, the edit field and the map.                                   *)

HasButtons(n) == rows[n] \notin {None, Edited}

\* _start_edit, also while another row is edited.
StartEditKeepingSelection(n) ==    \* mutant: the selection of another edit stays
    /\ Idle /\ open /\ HasButtons(n)
    /\ editing' = n
    /\ clicked' = {}
    /\ text' = IF physical[n] = None THEN "other" ELSE physical[n]
    /\ todo' = Panels
    /\ UNCHANGED <<known, tables, queue, open, polling, pushing, selection, screen>>
StartEdit(n) ==
    /\ Idle /\ open /\ HasButtons(n)
    /\ editing' = n
    /\ selection' = None /\ clicked' = {}
    /\ text' = IF physical[n] = None THEN "other" ELSE physical[n]
    /\ todo' = Panels
    /\ UNCHANGED <<known, tables, queue, open, polling, pushing, screen>>

Type(v) ==
    /\ Idle /\ open /\ editing # None
    /\ text' = v
    /\ UNCHANGED <<known, tables, queue, open, polling, todo, pushing, editing, selection,
                   clicked, screen>>

\* _on_map_click: no depth is filled in, which makes it 0.
MapClick(p) ==
    /\ Idle /\ open /\ editing # None
    /\ selection' = p /\ clicked' = clicked \cup {p}
    /\ text' = p
    /\ todo' = <<"map">>
    /\ UNCHANGED <<known, tables, queue, open, polling, pushing, editing, screen>>

\* _cancel_edit.
EndEditOfField ==         \* mutant: nothing is redrawn
    /\ editing' = None /\ selection' = None /\ clicked' = {}
    /\ todo' = <<>>
    /\ UNCHANGED text
EndEdit ==
    /\ editing' = None /\ selection' = None /\ clicked' = {}
    /\ todo' = Panels
    /\ UNCHANGED text

CancelEdit ==
    /\ Idle /\ open /\ editing # None
    /\ EndEdit
    /\ UNCHANGED <<known, tables, queue, open, polling, pushing, screen>>

\* _save_edit: what does not parse is reported, and the edit goes on.
SaveEdit ==
    /\ Idle /\ open /\ editing # None
    /\ IF text \in Pos
       THEN /\ physical' = [physical EXCEPT ![editing] = text]
            /\ EndEdit
       ELSE UNCHANGED <<physical, edit, todo>>
    /\ Put("text")
    /\ UNCHANGED <<nodes, belief, tables, open, polling, pushing, screen>>

\* _push_gps and send_gps_update: the socket is looked up twice ...
PushGps(n) ==
    /\ Idle /\ open /\ HasButtons(n)
    /\ IF physical[n] # None /\ n \in connected
       THEN pushing' = n /\ UNCHANGED queue
       ELSE Put("text") /\ UNCHANGED pushing
    /\ UNCHANGED <<known, tables, open, polling, todo, edit, screen>>

\* ... and a KeyError ends the callback before it reports anything.
SendGps ==
    /\ pushing # None
    /\ IF pushing \in connected THEN Put("text") ELSE UNCHANGED queue
    /\ pushing' = None
    /\ UNCHANGED <<known, tables, open, polling, todo, edit, screen>>

\* _on_close.
Close ==
    /\ Idle /\ open
    /\ open' = FALSE
    /\ UNCHANGED <<known, transport, connected, handler, queue, polling, todo, pushing, edit,
                   screen>>

--------------------------------------------------------------------------------

Next ==
    \/ \E n \in Client, t \in Transport : Register(n, t)
    \/ \E n \in Client : \/ StoreTransport(n) \/ AnnounceText(n) \/ AnnounceRefresh(n)
                         \/ CleanUp(n) \/ Traffic(n)
                         \/ \E m \in Node, p \in Pos : UpdateBelief(n, m, p)
    \/ \E n \in Node : StartEdit(n) \/ PushGps(n)
    \/ BeginPoll \/ TakeItem \/ EndPoll \/ DrawRegistry \/ DrawMap
    \/ \E v \in Pos \cup {"other"} : Type(v)
    \/ \E p \in Pos : MapClick(p)
    \/ CancelEdit \/ SaveEdit \/ SendGps \/ Close

Spec == Init /\ [][Next]_vars

\* Client threads and callbacks that can go on do.  Strong fairness: Tk runs a timer
\* that is due between other callbacks, an empty queue that is looked at again and
\* again is once found empty, and a put succeeds when there is room again.  Of the
\* steps in one condition only one can be next.  Nobody has to connect, transmit or
\* press a button.
FairSpec ==
    /\ Spec
    /\ \A n \in Client : SF_vars(StoreTransport(n) \/ AnnounceText(n) \/ AnnounceRefresh(n))
    /\ SF_vars(BeginPoll \/ EndPoll) /\ WF_vars(TakeItem)
    /\ WF_vars(DrawRegistry \/ DrawMap) /\ SF_vars(SendGps)

--------------------------------------------------------------------------------
(* Properties.                                                                *)

\* Every variable has its type, and only a known node is placed, connected or shown.
TypeOK ==
    /\ nodes \subseteq Node /\ connected \subseteq nodes
    /\ physical \in [Node -> Pos \cup {None}] /\ belief \in [Node -> Pos \cup {None}]
    /\ transport \in [Node -> Transport \cup {None}]
    /\ handler \in [Node -> Transport \cup {"idle", "text", "refresh"}]
    /\ open \in BOOLEAN /\ refresh \in BOOLEAN
    /\ poll \in {"scheduled", "draining", "dead"}
    /\ poll = "dead" => ~open
    /\ queue \in Seq({"text", "refresh"}) /\ Len(queue) <= MaxQueue
    /\ todo \in {<<>>, <<"map">>, Panels}
    /\ pushing \in Node \cup {None} /\ editing \in nodes \cup {None}
    /\ text \in Pos \cup {"other"} /\ selection \in Pos \cup {None} /\ clicked \subseteq Pos
    /\ rows \in [Node -> Pos \cup {None, Blank, Edited}]
    /\ labels \in [Node -> Transport \cup {None}]
    /\ markers \in [Markers -> Pos \cup {None}]
    /\ \A n \in Node \ nodes : /\ physical[n] = None /\ markers[<<"physical", n>>] = None
                              /\ rows[n] = None /\ transport[n] = None
    /\ unseen \subseteq {"row", "label", "physical", "belief"} \X nodes

\* When the queue is empty and no thread is registering a node, the window shows
\* what there is, although nodes register while it is being redrawn: a row for each
\* node with its place and transport, and every marker (app.py:167-200, 297-456).
\* Shown only with the next refresh are beliefs, departures, and nodes that a scenario
\* has placed in advance or that are known by a belief alone.
SettledIsShown ==
    Idle /\ open /\ queue = <<>> /\ (\A n \in Node : handler[n] = "idle") =>
        /\ \A n \in nodes :
              /\ <<"row", n>> \in unseen \/ rows[n] = Row(n)
              /\ <<"row", n>> \in unseen \/ <<"label", n>> \in unseen \/ labels[n] = transport[n]
              /\ <<"physical", n>> \in unseen \/ markers[<<"physical", n>>] = physical[n]
              /\ <<"belief", n>> \in unseen \/ markers[<<"belief", n>>] = belief[n]
        /\ markers[Selection] = selection

\* The grey marker shows where the map was clicked in this edit, also when an edit
\* of another node was under way (app.py:202-229).
SelectionOfThisEdit == selection # None => selection \in clicked

\* A node that registers gets its row unless the window is closed, if the modems
\* pause: _process_ui_queue goes on until it finds the queue empty, and redraws and
\* returns to the main loop only then (app.py:163-180, 197-200).
Pauses == []<>(queue = <<>>)
RegisteredIsShown ==
    Pauses => \A n \in Client : handler[n] \in Transport ~> rows[n] # None \/ ~open

================================================================================
