---------------------------- MODULE PositioningNode ----------------------------
(***************************************************************************)
(* The table of known nodes of a PositioningNode.  The reader thread of    *)
(* the transport stores position reports and ranges in it and may infer    *)
(* the node's own position; the UI thread of the controller edits, deletes *)
(* and adds entries and calculates positions.  There is no lock.           *)
(*                                                                         *)
(* A step is one access of the table.  What a thread has still to do is    *)
(* the plan of the method it executes, one word per access.  The node's    *)
(* own position and depth are plain attributes and are left out.           *)
(***************************************************************************)
EXTENDS Integers, Sequences, FiniteSets

CONSTANTS
    Id,           \* nodes that can become known
    None,         \* None; no entry
    MinUsable,    \* nodes needed to calculate a position: 3 in the code
    MaxReports,   \* bound: events the reader thread handles
    MaxEdits      \* bound: operations of the UI thread

ASSUME ConstantsAssumption ==
    /\ {MinUsable, MaxReports, MaxEdits} \subseteq Nat
    /\ None \notin Id \cup Nat
    /\ IsFiniteSet(Id)

Thread == {"reader", "ui"}
Ops == {"set_position", "set_depth", "delete", "request_range", "calculate"}

\* A value is the number of the report it came with; 0 is entered by hand, and
\* the depth nobody has set.
Value == 0..MaxReports
Known == [position : Value \cup {None}, depth : Value, range : Value \cup {None}]

VARIABLES
    table,        \* _known_nodes: the KnownNode object of each id
    object,       \* the KnownNode objects, in the order they were created
    inferring,    \* capabilities.is_inferring_own_position
    reports, edits,   \* counters for the bounds
    frame,        \* the method each thread executes, with its local variables
    last,         \* ghost: the last report and range of each id since the UI worked on it
    dirty         \* ghost: changed since on_known_nodes_changed was called

ghosts == <<last, dirty>>
vars == <<table, object, inferring, reports, edits, frame, ghosts>>

New == [position |-> None, depth |-> 0, range |-> None]
Nothing == [report |-> None, range |-> None]
Entries == {n \in Id : table[n] # None}

\* No method: nothing left to do, no arguments, and of calculate_position no
\* iteration, list of objects, or values read from them.
Idle == [plan |-> <<>>, node |-> None, value |-> None,
         size |-> 0, seen |-> {}, usable |-> {}, used |-> {}]

Init ==
    /\ table = [n \in Id |-> None]
    /\ object = <<>>
    /\ inferring \in BOOLEAN
    /\ reports = 0 /\ edits = 0
    /\ frame = [t \in Thread |-> Idle]
    /\ last = [n \in Id |-> Nothing]
    /\ dirty = FALSE

--------------------------------------------------------------------------------
(* The methods.                                                               *)

Infer == IF inferring THEN <<"iterate">> ELSE <<>>
Report == <<"ensure", "position", "depth", "seen", "announce">>
InferFirst == Infer \o <<"ensure", "range", "seen", "announce">>    \* mutant
Response == <<"ensure", "range", "seen", "announce">> \o Infer

SilentDelete(op) ==    \* mutant: delete_known_node calls nobody
    CASE op = "set_position"  -> <<"ensure", "position", "announce">>
      [] op = "set_depth"     -> <<"ensure", "depth", "announce">>
      [] op = "delete"        -> <<"delete">>
      [] OTHER                -> <<>>
Method(op) ==
    CASE op = "set_position"  -> <<"ensure", "position", "announce">>
      [] op = "set_depth"     -> <<"ensure", "depth", "announce">>
      [] op = "delete"        -> <<"delete", "announce">>
      [] op = "request_range" -> <<"ensure">>
      [] op = "calculate"     -> <<"iterate">>

Call(t, method, n, v) ==
    /\ frame[t] = Idle
    /\ frame' = [frame EXCEPT ![t].plan = method, ![t].node = n, ![t].value = v]
    /\ UNCHANGED <<table, object, inferring, dirty>>

\* The UI thread may still change or make the entry of n: it is in a method about n
\* that has more to do than to call on_known_nodes_changed, or to find an entry that
\* is there (only the UI deletes one).
Busy(n) ==
    /\ frame["ui"].node = n
    /\ frame["ui"].plan # <<"announce">>
    /\ ~(frame["ui"].plan = <<"ensure">> /\ table[n] # None)

HandlePositionBroadcast(n) ==
    /\ reports < MaxReports
    /\ reports' = reports + 1
    /\ Call("reader", Report, n, reports')
    /\ last' = IF Busy(n) THEN last ELSE [last EXCEPT ![n].report = reports']
    /\ UNCHANGED edits

\* Also of an id that has been deleted since its range was requested.
HandleRoundtripResponse(n) ==
    /\ reports < MaxReports
    /\ reports' = reports + 1
    /\ Call("reader", Response, n, reports')
    /\ last' = IF Busy(n) THEN last ELSE [last EXCEPT ![n].range = reports']
    /\ UNCHANGED edits

\* The position entered may be None: "Add Node" with an id already known.
Edit(op, n, v) ==
    /\ edits < MaxEdits
    /\ edits' = edits + 1
    /\ v = None => op = "set_position"
    /\ IF op = "calculate"
       THEN Call("ui", Method(op), None, v) /\ UNCHANGED last
       ELSE /\ Call("ui", Method(op), n, v)
            /\ last' = IF op = "request_range" /\ table[n] # None THEN last
                       ELSE [last EXCEPT ![n] = Nothing]
    /\ UNCHANGED reports

--------------------------------------------------------------------------------
(* The accesses.                                                              *)

Node(t) == frame[t].node
At(t, word) == frame[t].plan # <<>> /\ Head(frame[t].plan) = word
Goto(t, plan) == frame' = [frame EXCEPT ![t].plan = plan]

\* The method returns, or raises: the reader loop and Tk catch every exception.
Return(t) == frame' = [frame EXCEPT ![t] = Idle]

Continue(t) ==
    IF Len(frame[t].plan) = 1 THEN Return(t) ELSE Goto(t, Tail(frame[t].plan))

rest == <<inferring, reports, edits, last>>

\* _ensure_known_node: the test, and then the insertion.
EnsureAnew(t) ==    \* mutant: an entry is made even if there is one
    /\ At(t, "ensure")
    /\ Goto(t, <<"insert">> \o Tail(frame[t].plan))
    /\ UNCHANGED <<table, object, dirty, rest>>
Ensure(t) ==
    /\ At(t, "ensure")
    /\ IF table[Node(t)] = None
       THEN Goto(t, <<"insert">> \o Tail(frame[t].plan))
       ELSE Continue(t)
    /\ UNCHANGED <<table, object, dirty, rest>>

\* request_range does nothing else with the table, and announces nothing.
InsertShared(t) ==    \* mutant: one default object for all
    /\ At(t, "insert")
    /\ object' = IF object = <<>> THEN <<New>> ELSE object
    /\ table' = [table EXCEPT ![Node(t)] = 1]
    /\ dirty' = (dirty \/ Len(frame[t].plan) > 1)
    /\ Continue(t)
    /\ UNCHANGED rest
Insert(t) ==
    /\ At(t, "insert")
    /\ object' = Append(object, New)
    /\ table' = [table EXCEPT ![Node(t)] = Len(object')]
    /\ dirty' = (dirty \/ Len(frame[t].plan) > 1)
    /\ Continue(t)
    /\ UNCHANGED rest

\* self._known_nodes[node_id].field = value; KeyError when the entry is gone.
Store(t) ==
    /\ \E field \in {"position", "depth", "range", "seen"} :
        /\ At(t, field)
        /\ IF table[Node(t)] = None
           THEN Return(t) /\ UNCHANGED <<object, dirty>>
           ELSE /\ object' = IF field = "seen" THEN object
                             ELSE [object EXCEPT ![table[Node(t)]][field] = frame[t].value]
                /\ dirty' = TRUE
                /\ Continue(t)
    /\ UNCHANGED <<table, rest>>

\* delete_known_node: nothing is announced when there is no entry.
Delete(t) ==
    /\ At(t, "delete")
    /\ IF table[Node(t)] = None
       THEN Return(t) /\ UNCHANGED dirty
       ELSE Continue(t) /\ dirty' = TRUE
    /\ table' = [table EXCEPT ![Node(t)] = None]
    /\ UNCHANGED <<object, rest>>

\* on_known_nodes_changed: the controller schedules a refresh.
Announce(t) ==
    /\ At(t, "announce")
    /\ dirty' = FALSE
    /\ Continue(t)
    /\ UNCHANGED <<table, object, rest>>

--------------------------------------------------------------------------------
(* calculate_position.                                                        *)

Usable(known) == None \notin {known.position, known.range}

Iterate(t) ==
    /\ At(t, "iterate")
    /\ frame' = [frame EXCEPT ![t].plan = <<"collect">> \o Tail(@), ![t].size = Cardinality(Entries)]
    /\ UNCHANGED <<table, object, dirty, rest>>

\* The next entry (an id deleted and added again meanwhile counts as the same);
\* RuntimeError when the dictionary has changed its size.
Collect(t) ==
    /\ At(t, "collect")
    /\ \/ Cardinality(Entries) # frame[t].size /\ Return(t)
       \/ /\ Cardinality(Entries) = frame[t].size
          /\ \E n \in Entries \ frame[t].seen :
                frame' = [frame EXCEPT
                    ![t].seen = @ \cup {n},
                    ![t].usable = IF Usable(object[table[n]]) THEN @ \cup {<<n, table[n]>>} ELSE @]
    /\ UNCHANGED <<table, object, dirty, rest>>

Collected(t) ==
    /\ At(t, "collect")
    /\ Cardinality(Entries) = frame[t].size
    /\ Entries \subseteq frame[t].seen
    /\ IF Cardinality(frame[t].usable) < MinUsable
       THEN Continue(t)
       ELSE Goto(t, <<"use">> \o Tail(frame[t].plan))
    /\ UNCHANGED <<table, object, dirty, rest>>

\* One object of the list: range, depth and position; AssertionError when it has lost position or range.
Use(t) ==
    /\ At(t, "use")
    /\ \E entry \in frame[t].usable :
        LET known == object[entry[2]] IN
        IF Usable(known)
        THEN frame' = [frame EXCEPT ![t].usable = @ \ {entry},
                                    ![t].used = @ \cup {<<entry[1], known>>}]
        ELSE Return(t)
    /\ UNCHANGED <<table, object, dirty, rest>>

\* The new position is a function of what has been read.
Assign(t) ==
    /\ At(t, "use")
    /\ frame[t].usable = {}
    /\ Continue(t)
    /\ UNCHANGED <<table, object, dirty, rest>>

--------------------------------------------------------------------------------
Step(t) == \/ Ensure(t) \/ Insert(t) \/ Store(t) \/ Delete(t) \/ Announce(t)
           \/ Iterate(t) \/ Collect(t) \/ Collected(t) \/ Use(t) \/ Assign(t)

Next ==
    \/ \E n \in Id : HandlePositionBroadcast(n) \/ HandleRoundtripResponse(n)
    \/ \E op \in Ops, n \in Id, v \in {0, None} : Edit(op, n, v)
    \/ \E t \in Thread : Step(t)

Spec == Init /\ [][Next]_vars

--------------------------------------------------------------------------------
(* Properties.                                                                *)

Words == {"ensure", "insert", "position", "depth", "range", "seen", "announce", "delete",
          "iterate", "collect", "use"}

Frame ==
    [plan : Seq(Words), node : Id \cup {None}, value : Value \cup {None}, size : Nat,
     seen : SUBSET Id, usable : SUBSET (Id \X (1..Len(object))), used : SUBSET (Id \X Known)]

\* Types of the state; no two ids share an object.
TypeOK ==
    /\ table \in [Id -> 1..Len(object) \cup {None}]
    /\ \A m, n \in Entries : table[m] = table[n] => m = n
    /\ object \in Seq(Known)
    /\ inferring \in BOOLEAN
    /\ reports \in 0..MaxReports /\ edits \in 0..MaxEdits
    /\ frame \in [Thread -> Frame]
    /\ last \in [Id -> [report : Value \cup {None}, range : Value \cup {None}]]
    /\ dirty \in BOOLEAN

\* The entry of n is what the node itself has reported last, in so far as the UI
\* has not worked on it since.
AsReported(n, known) ==
    /\ last[n].report # None => {known.position, known.depth} = {last[n].report}
    /\ last[n].range # None => known.range = last[n].range

\* A report or range is in the table once it is handled and until the UI works on
\* the node itself, whatever the UI does to other entries and whatever exceptions
\* that causes; a request_range of a known node loses nothing
\* (positioning_node.py:147-149, 206-228, 246).
ReportsStand ==
    frame["reader"] = Idle =>
        \A n \in Id :
            last[n] # Nothing =>
                table[n] # None /\ AsReported(n, object[table[n]])

\* A position inferred by the reader thread rests on every node that has reported
\* position and range since the UI last worked on it, with its current position,
\* depth and range together (positioning_node.py:170-204, 228).
InferenceIsCurrent ==
    [][Assign("reader") =>
          \A n \in Id :
              None \notin {last[n].report, last[n].range} =>
                  \E entry \in frame["reader"].used : entry[1] = n /\ AsReported(n, entry[2])]_vars

\* When neither thread is in a method, every change of the table but the entries
\* made by request_range has been announced, also when a method raised half-way
\* (positioning_node.py:118, 125, 131, 219, 227).
ChangesAnnounced == frame = [t \in Thread |-> Idle] => ~dirty

================================================================================
