---------------------------- MODULE ControllerWindow ---------------------------
(***************************************************************************)
(* The window of one positioning node (controller.py).  The Tk thread runs *)
(* one callback at a time: buttons, keys, map clicks, the debounce timer   *)
(* of the edit field, and refreshes that were scheduled with after(0).     *)
(* The reader thread of the transport changes the node's table meanwhile   *)
(* and schedules a refresh after each change, which Tk allows a foreign    *)
(* thread only while the main loop runs: the transport is started before.  *)
(*                                                                         *)
(* A callback's own statements are one step; the panels it redraws are a   *)
(* step each, since every one of them reads the node's table anew.  The    *)
(* races inside a single change of the table are those of PositioningNode. *)
(***************************************************************************)
EXTENDS Integers, Sequences

CONSTANTS
    Node,        \* other nodes that can become known
    Pos,         \* positions
    None,        \* None: no entry, no row, no marker, no position, no edit
    Blank,       \* a row that shows "-": an entry without a position
    Edited,      \* a row that shows its edit field and not its buttons
    MaxPending   \* bound: refreshes scheduled and not yet run

Own == {"me_pos", "me_depth"}
Target == Node \cup Own

\* The names of the code's own rows, markers and kinds of text are no nodes,
\* positions or sentinels.
ASSUME ConstantsAssumption ==
    /\ MaxPending \in Nat \ {0}
    /\ {None, Blank, Edited} \cap (Node \cup Pos) = {}
    /\ None # Blank /\ Blank # Edited /\ None # Edited
    /\ Node \cap (Own \cup {"me", "selection"}) = {}
    /\ Pos \cap {"number", "empty", "other"} = {}
    /\ None \notin Own \cup {"pos", "depth"}

\* What the edit field holds: a position, a number, nothing, or anything else.
Text == Pos \cup {"number", "empty", "other"}

VARIABLES
    \* The node (PositioningNode).
    known,       \* the position of each known node, Blank if it has none
    ranged,      \* the known nodes with a last_range greater than 0
    ownPos,      \* the node's own position
    announcing,  \* the node the reader has stored something of and not yet called back
    main,        \* what the main thread is at: the constructor, the launch, the loop
    \* The window.
    open,        \* the window has not been destroyed
    editTarget, editType,   \* _editing_target, _editing_type
    text,        \* _edit_var
    timer,       \* _debounce_timer is set
    selection,   \* _selection_marker_pos
    hint,        \* the map hint is packed
    pending,     \* number of _refresh_ui calls scheduled with after(0)
    todo,        \* panels that the running callback has still to redraw
    \* What is on the screen.
    rows,        \* what each row shows
    choices,     \* values of the combobox
    markers,     \* _markers: position of each marker
    paths,       \* _paths: nodes with a range circle
    \* Ghosts.
    silent,      \* nodes changed with no refresh scheduled, and not drawn since
    entered      \* positions typed or clicked since the edit began

node == <<known, ranged, ownPos>>
edit == <<editTarget, editType, text, timer, selection, hint, entered>>
screen == <<rows, choices, markers, paths>>
vars == <<node, announcing, main, open, edit, pending, todo, screen, silent>>

Known == {n \in Node : known[n] # None}
OrBlank(p) == IF p = None THEN Blank ELSE p
Placed(p) == IF p = Blank THEN None ELSE p

Panels == <<"me", "registry", "choices", "map">>

\* To empty the field of a position redraws the map before the window is redrawn.
MapAndPanels == <<"map", "me", "registry", "choices", "map">>

\* The Tk thread is between two callbacks.  Callbacks of the user run in the launch
\* too: the god view calls root.update() before its main loop.
Idle == open /\ todo = <<>> /\ main # "constructor"

Init ==
    /\ known = [n \in Node |-> None] /\ ranged = {}
    /\ ownPos \in Pos \cup {None}
    /\ announcing = None /\ main = "constructor" /\ open = TRUE
    /\ editTarget = None /\ editType = None /\ text = "empty"
    /\ timer = FALSE /\ selection = None /\ hint = FALSE
    /\ pending = 0 /\ todo = Panels
    /\ rows = [t \in Target |-> IF t \in Own THEN Blank ELSE None]
    /\ choices = {} /\ markers = [k \in Node \cup {"me", "selection"} |-> None] /\ paths = {}
    /\ silent = {} /\ entered = {}

\* root.after(0, self._refresh_ui), by any thread.
Schedule == pending < MaxPending /\ pending' = pending + 1

--------------------------------------------------------------------------------
(* Redrawing, one panel after the other.                                      *)

RowOf(t, value) == IF editTarget = t THEN Edited ELSE value

\* A range circle is dropped with its marker, or when the node has none to show.
Circles ==
    {n \in Known : known[n] # Blank /\ n \in ranged}
    \cup {n \in paths \ Known : markers[n] = None}

Marked == [k \in DOMAIN markers |-> CASE k = "me" -> ownPos
                                    [] k = "selection" -> selection
                                    [] OTHER -> Placed(known[k])]

Draw ==
    /\ open /\ todo # <<>>
    /\ todo' = Tail(todo)
    /\ \/ /\ Head(todo) = "me"
          /\ rows' = [rows EXCEPT !["me_pos"] = RowOf("me_pos", OrBlank(ownPos)),
                                  !["me_depth"] = RowOf("me_depth", Blank)]
          /\ UNCHANGED <<choices, markers, paths, silent>>
       \/ /\ Head(todo) = "registry"
          /\ rows' = [t \in Target |-> IF t \in Own THEN rows[t]
                                       ELSE IF t \in Known THEN RowOf(t, known[t]) ELSE None]
          /\ silent' = {}
          /\ UNCHANGED <<choices, markers, paths>>
       \/ /\ Head(todo) = "choices"
          /\ choices' = Known
          /\ UNCHANGED <<rows, markers, paths, silent>>
       \/ /\ Head(todo) = "map"
          /\ paths' = Circles
          /\ markers' = Marked
          /\ UNCHANGED <<rows, choices, silent>>
    /\ UNCHANGED <<node, announcing, main, open, edit, pending>>

\* A refresh that was scheduled; once the window is destroyed it raises TclError.
Refresh ==
    /\ pending > 0 /\ todo = <<>>
    /\ pending' = pending - 1
    /\ todo' = IF open THEN Panels ELSE <<>>
    /\ UNCHANGED <<node, announcing, main, open, edit, screen, silent>>

--------------------------------------------------------------------------------
(* The edit field.                                                            *)

\* _on_edit_var_changed, after the field was given the value v in an edit of type
\* type; chosen is the selection so far.
ChangedWithoutRearming(type, v, chosen) ==    \* mutant: the timer is only cancelled
    IF type # "pos" THEN UNCHANGED timer /\ selection' = chosen
    ELSE IF v = "empty" THEN timer' = FALSE /\ selection' = None
    ELSE timer' = ~timer /\ selection' = chosen
Changed(type, v, chosen) ==
    IF type # "pos" THEN UNCHANGED timer /\ selection' = chosen
    ELSE IF v = "empty" THEN timer' = FALSE /\ selection' = None
    ELSE timer' = TRUE /\ selection' = chosen

\* The user types in the one edit field that is shown.
Type(v) ==
    /\ Idle /\ editTarget # None
    /\ text' = v
    /\ Changed(editType, v, selection)
    /\ todo' = IF editType = "pos" /\ v = "empty" THEN <<"map">> ELSE <<>>
    /\ entered' = IF v \in Pos THEN entered \cup {v} ELSE entered
    /\ UNCHANGED <<node, announcing, main, open, editTarget, editType, hint, pending, screen, silent>>

\* _on_map_click fills the field in.
MapClick(p) ==
    /\ Idle /\ editTarget # None /\ editType = "pos"
    /\ text' = p
    /\ Changed("pos", p, p)
    /\ todo' = <<"map">>
    /\ entered' = entered \cup {p}
    /\ UNCHANGED <<node, announcing, main, open, editTarget, editType, hint, pending, screen, silent>>

\* _sync_selection_from_input, when the debounce timer expires.  Nothing has
\* stopped the timer when the edit it was set in was cancelled or saved.
SyncSelection ==
    /\ timer /\ todo = <<>>
    /\ timer' = FALSE
    /\ IF text \in Pos
       THEN selection' = text /\ todo' = IF open THEN <<"map">> ELSE <<>>
       ELSE UNCHANGED <<selection, todo>>
    /\ UNCHANGED <<node, announcing, main, open, editTarget, editType, text, hint, entered,
                   pending, screen, silent>>

\* _start_edit: the field is emptied, which clears selection and timer if it is a
\* position that is edited.
EditKeepingText(target, type) ==    \* mutant: the field keeps its text
    /\ editTarget' = target /\ editType' = type /\ entered' = {}
    /\ UNCHANGED <<text, timer>> /\ selection' = None
    /\ hint' = (hint \/ type = "pos")
    /\ todo' = Panels
EditSilently(target, type) ==       \* mutant: the window is not redrawn
    /\ editTarget' = target /\ editType' = type /\ entered' = {}
    /\ text' = "empty"
    /\ Changed(type, "empty", None)
    /\ hint' = (hint \/ type = "pos")
    /\ todo' = <<>>
Edit(target, type) ==
    /\ editTarget' = target /\ editType' = type /\ entered' = {}
    /\ text' = "empty"
    /\ Changed(type, "empty", None)
    /\ hint' = (hint \/ type = "pos")
    /\ todo' = IF type = "pos" THEN MapAndPanels ELSE Panels

\* A row has its buttons when it shows neither its edit field nor nothing.
HasButtons(t) == rows[t] \notin {None, Edited}

StartEdit(target, type) ==
    /\ Idle /\ HasButtons(target)
    /\ target \in Own => (type = "pos") = (target = "me_pos")
    /\ Edit(target, type)
    /\ UNCHANGED <<node, announcing, main, open, pending, screen, silent>>

\* _cancel_edit.
EndEditKeepingType ==               \* mutant: _editing_type is not reset
    /\ editTarget' = None
    /\ selection' = None /\ hint' = FALSE
    /\ todo' = Panels
    /\ UNCHANGED <<editType, text, timer, entered>>
EndEdit ==
    /\ editTarget' = None /\ editType' = None
    /\ selection' = None /\ hint' = FALSE
    /\ todo' = Panels
    /\ UNCHANGED <<text, timer, entered>>

CancelEdit ==
    /\ Idle /\ editTarget # None
    /\ EndEdit
    /\ UNCHANGED <<node, announcing, main, open, pending, screen, silent>>

\* What set_position, set_known_node_position and set_known_node_depth do to the
\* node; a number is a depth, which is not distinguished.
Store(t, v) ==
    /\ IF t \in Own
       THEN /\ ownPos' = IF t = "me_pos" THEN v ELSE ownPos
            /\ UNCHANGED known
       ELSE /\ known' = [known EXCEPT ![t] = IF v \in Pos THEN v ELSE OrBlank(@)]
            /\ UNCHANGED ownPos
    /\ UNCHANGED ranged
    /\ Schedule

\* _save_edit.  A position that does not parse leaves the edit as it is; a depth
\* that does not parse is reported and ends the edit.
SaveEdit ==
    /\ Idle /\ editTarget # None
    /\ editType = "pos" => text \in Pos
    /\ IF editType = "pos" \/ text = "number"
       THEN Store(editTarget, text)
       ELSE UNCHANGED <<node, pending>>
    /\ EndEdit
    /\ UNCHANGED <<announcing, main, open, screen, silent>>

--------------------------------------------------------------------------------
(* The other buttons, and the end of the window.                              *)

\* confirm() of the add dialog, which is not modal: an entry without a position,
\* also where there was one with a position, and an edit of it.
AddNode(n) ==
    /\ Idle
    /\ known' = [known EXCEPT ![n] = Blank]
    /\ Schedule
    /\ Edit(n, "pos")
    /\ UNCHANGED <<ranged, ownPos, announcing, main, open, screen, silent>>

\* _on_delete_node.
DeleteNode(n) ==
    /\ Idle /\ HasButtons(n)
    /\ known' = [known EXCEPT ![n] = None]
    /\ ranged' = ranged \ {n}
    /\ IF n \in Known THEN Schedule ELSE UNCHANGED pending
    /\ todo' = Panels
    /\ UNCHANGED <<ownPos, announcing, main, open, edit, screen, silent>>

\* _on_request_range, for any id typed into the combobox: the new entry is
\* announced to nobody.
RequestRange(n) ==
    /\ Idle
    /\ known' = [known EXCEPT ![n] = OrBlank(@)]
    /\ silent' = IF n \in Known THEN silent ELSE silent \cup {n}
    /\ UNCHANGED <<ranged, ownPos, announcing, main, open, edit, pending, todo, screen>>

\* set_position on the Tk thread: a GPS update, or _on_calculate.
MoveOwn(p) ==
    /\ Idle
    /\ ownPos' = p
    /\ Schedule
    /\ UNCHANGED <<known, ranged, announcing, main, open, edit, todo, screen, silent>>

\* _on_close: the window and everything in it is destroyed.
Close ==
    /\ Idle
    /\ open' = FALSE
    /\ rows' = [t \in Target |-> None]
    /\ choices' = {} /\ paths' = {}
    /\ markers' = [k \in DOMAIN markers |-> None]
    /\ UNCHANGED <<node, announcing, main, edit, pending, todo, silent>>

--------------------------------------------------------------------------------
(* The main thread builds the window, starts the transport and enters the     *)
(* main loop, after up to two seconds of waiting for the modem's id.          *)

StartTransport ==
    /\ main = "constructor" /\ todo = <<>>
    /\ main' = "launch"
    /\ UNCHANGED <<node, announcing, open, edit, pending, todo, screen, silent>>

EnterMainLoop ==
    /\ main = "launch" /\ todo = <<>>
    /\ main' = "loop"
    /\ UNCHANGED <<node, announcing, open, edit, pending, todo, screen, silent>>

--------------------------------------------------------------------------------
(* The reader thread stores a position or a range and then calls              *)
(* on_known_nodes_changed.                                                    *)

StoreReport(n, p) ==
    /\ open /\ main # "constructor" /\ announcing = None
    /\ known' = [known EXCEPT ![n] = p]
    /\ announcing' = n
    /\ UNCHANGED <<ranged, ownPos, main, open, edit, pending, todo, screen, silent>>

StoreRange(n) ==
    /\ open /\ main # "constructor" /\ announcing = None
    /\ known' = [known EXCEPT ![n] = OrBlank(@)]
    /\ ranged' = ranged \cup {n}
    /\ announcing' = n
    /\ UNCHANGED <<ownPos, main, open, edit, pending, todo, screen, silent>>

\* root.after waits up to a second for the main loop to run, and succeeds if it does.
AnnounceIfIdle ==    \* mutant: no refresh is scheduled while another one runs
    /\ announcing # None /\ main = "loop"
    /\ announcing' = None
    /\ IF todo = <<>> THEN Schedule ELSE UNCHANGED pending
    /\ UNCHANGED <<node, main, open, edit, todo, screen, silent>>
Announce ==
    /\ announcing # None /\ main = "loop"
    /\ announcing' = None
    /\ Schedule
    /\ UNCHANGED <<node, main, open, edit, todo, screen, silent>>

\* It raises RuntimeError if the launch takes longer: no refresh is scheduled.
AnnounceFails ==
    /\ announcing # None /\ main = "launch"
    /\ announcing' = None
    /\ silent' = silent \cup {announcing}
    /\ UNCHANGED <<node, main, open, edit, pending, todo, screen>>

--------------------------------------------------------------------------------

Next ==
    \/ Draw \/ Refresh \/ SyncSelection
    \/ \E v \in Text : Type(v)
    \/ \E p \in Pos : MapClick(p) \/ MoveOwn(p)
    \/ \E t \in Target, type \in {"pos", "depth"} : StartEdit(t, type)
    \/ CancelEdit \/ SaveEdit \/ Close
    \/ \E n \in Node : AddNode(n) \/ DeleteNode(n) \/ RequestRange(n) \/ StoreRange(n)
    \/ \E n \in Node, p \in Pos : StoreReport(n, p)
    \/ StartTransport \/ EnterMainLoop \/ Announce \/ AnnounceFails

Spec == Init /\ [][Next]_vars

--------------------------------------------------------------------------------
(* Properties.                                                                *)

\* Every variable has its type; range circles belong to nodes.
TypeOK ==
    /\ known \in [Node -> Pos \cup {None, Blank}]
    /\ ranged \subseteq Known
    /\ ownPos \in Pos \cup {None}
    /\ announcing \in Node \cup {None} /\ main \in {"constructor", "launch", "loop"}
    /\ open \in BOOLEAN /\ timer \in BOOLEAN /\ hint \in BOOLEAN
    /\ editTarget \in Target \cup {None} /\ editType \in {"pos", "depth", None}
    /\ editTarget = None <=> editType = None
    /\ text \in Text /\ selection \in Pos \cup {None}
    /\ pending \in 0..MaxPending
    /\ todo \in {<<>>, <<"map">>, <<"choices", "map">>, <<"registry", "choices", "map">>,
                 Panels, MapAndPanels}
    /\ rows \in [Target -> Pos \cup {None, Blank, Edited}]
    /\ choices \subseteq Node /\ paths \subseteq Node /\ silent \subseteq Node
    /\ markers \in [Node \cup {"me", "selection"} -> Pos \cup {None}]
    /\ entered \subseteq Pos

\* An edit is always of something the node knows: no sequence of edits, additions
\* and deletions leaves an edit open whose Save would bring a deleted node back
\* (controller.py:333-407; set_known_node_position creates what is missing).
EditedIsKnown == editTarget \in Known \cup Own \cup {None}

\* When nothing is scheduled or running, the window shows the node's table as it
\* is, although the reader thread changes it between the redrawing of two panels:
\* rows, combobox, markers and range circles (controller.py:129-143, 463-640).
\* Shown only with the next refresh are entries made by request_range, and what
\* was stored in a launch too slow for it to be announced.
SettledIsShown ==
    Idle /\ pending = 0 /\ announcing = None =>
        /\ \A n \in Node \ silent :
              /\ rows[n] = RowOf(n, known[n])
              /\ n \in choices <=> n \in Known
              /\ markers[n] = Placed(known[n])
              /\ n \in paths <=> n \in ranged /\ known[n] # Blank
        /\ rows["me_pos"] = RowOf("me_pos", OrBlank(ownPos))
        /\ markers["me"] = ownPos
        /\ markers["selection"] = selection

\* While a position is edited the grey marker shows something entered in this
\* edit, never what an earlier edit left in the field or in the timer
\* (controller.py:296-344).
SelectionOfThisEdit ==
    editType = "pos" /\ selection # None => selection \in entered

\* A position in the field of a position edit is on the map, or the timer that
\* puts it there is running (controller.py:296-331).
TypedIsMarked ==
    editType = "pos" /\ text \in Pos => timer \/ selection = text

================================================================================
