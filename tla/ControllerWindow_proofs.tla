------------------------ MODULE ControllerWindow_proofs ------------------------
(***************************************************************************)
(* Theorems about ControllerWindow, for any numbers of nodes, positions    *)
(* and scheduled refreshes.                                                *)
(*                                                                         *)
(* None of the properties is inductive.  A panel that has been redrawn     *)
(* shows what the table held then, so it is still right only if nothing    *)
(* has changed since or a refresh has been scheduled; and that an edit is  *)
(* of a known node depends on the buttons, which depend on what was drawn. *)
(***************************************************************************)
EXTENDS ControllerWindow, TLAPS

\* The panels behind these have been redrawn by the running callback, if any.
MapDrawn == todo = <<>>
ChoicesDrawn == MapDrawn \/ todo = <<"map">>
RegistryDrawn == ChoicesDrawn \/ todo = <<"choices", "map">>
MeDrawn == RegistryDrawn \/ todo = <<"registry", "choices", "map">>

\* A row of the registry is a known node's, and that of the edited node has its
\* edit field, hence no buttons.
RowsAreKnown ==
    open /\ RegistryDrawn =>
        /\ \A n \in Node : rows[n] # None => n \in Known
        /\ editTarget \in Node => rows[editTarget] = Edited

\* An edit of the node itself is of the kind its row allows.
OwnEdit == editTarget \in Own => (editType = "pos" <=> editTarget = "me_pos")

\* A position in the field was entered in this edit.
TextIsEntered == editType = "pos" /\ text \in Pos => text \in entered

\* A circle goes when its marker goes.
CirclesAreMarked == \A n \in paths : markers[n] # None

\* No refresh is scheduled.
Settled == open /\ pending = 0

\* Nodes the panels need not show yet.  That the reader is about to announce one is
\* no excuse for the others: the call may fail.
Stale == silent \cup {announcing}

\* What each panel shows, once it has been drawn.
MeFresh == rows["me_pos"] = RowOf("me_pos", OrBlank(ownPos))
RegistryFresh == \A n \in Node \ Stale : rows[n] = RowOf(n, known[n])
ChoicesFresh == \A n \in Node \ Stale : n \in choices <=> n \in Known
MapFresh ==
    /\ \A n \in Node \ Stale :
          /\ markers[n] = Placed(known[n])
          /\ n \in paths <=> n \in ranged /\ known[n] # Blank
    /\ markers["me"] = ownPos
    /\ markers["selection"] = selection

PanelsFresh ==
    Settled => /\ MeDrawn => MeFresh
               /\ RegistryDrawn => RegistryFresh
               /\ ChoicesDrawn => ChoicesFresh
               /\ MapDrawn => MapFresh

\* The inductive invariant, apart from the freshness of the panels.
EditInv ==
    /\ TypeOK /\ EditedIsKnown /\ RowsAreKnown
    /\ OwnEdit /\ TextIsEntered /\ SelectionOfThisEdit

IInv == EditInv /\ TypedIsMarked /\ CirclesAreMarked /\ PanelsFresh

--------------------------------------------------------------------------------
(* The panels still to be redrawn.                                            *)

Todos == {<<>>, <<"map">>, <<"choices", "map">>, <<"registry", "choices", "map">>,
          Panels, MapAndPanels}

\* What a redrawing that is under way draws next, and what it then has left.
LEMMA TodoSteps ==
    ASSUME todo \in Todos, todo # <<>>
    PROVE  /\ Tail(todo) \in Todos
           /\ \/ Head(todo) = "map" /\ todo = <<"map">> /\ Tail(todo) = <<>>
              \/ Head(todo) = "map" /\ todo = MapAndPanels /\ Tail(todo) = Panels
              \/ /\ Head(todo) = "choices" /\ todo = <<"choices", "map">>
                 /\ Tail(todo) = <<"map">>
              \/ /\ Head(todo) = "registry" /\ todo = <<"registry", "choices", "map">>
                 /\ Tail(todo) = <<"choices", "map">>
              \/ /\ Head(todo) = "me" /\ todo = Panels
                 /\ Tail(todo) = <<"registry", "choices", "map">>
<1>1. Tail(MapAndPanels) = Panels /\ Head(MapAndPanels) = "map"
  BY DEF Panels, MapAndPanels
<1>2. Tail(Panels) = <<"registry", "choices", "map">> /\ Head(Panels) = "me"
  BY DEF Panels
<1>3. /\ Tail(<<"registry", "choices", "map">>) = <<"choices", "map">>
      /\ Head(<<"registry", "choices", "map">>) = "registry"
  OBVIOUS
<1>4. Tail(<<"choices", "map">>) = <<"map">> /\ Head(<<"choices", "map">>) = "choices"
  OBVIOUS
<1>5. Tail(<<"map">>) = <<>> /\ Head(<<"map">>) = "map"
  OBVIOUS
<1>. QED  BY <1>1, <1>2, <1>3, <1>4, <1>5 DEF Todos

\* A callback that begins to redraw the window has drawn none of its panels.
LEMMA PanelsAreAhead ==
    /\ Panels \notin {<<>>, <<"map">>, <<"choices", "map">>, <<"registry", "choices", "map">>}
    /\ MapAndPanels \notin {<<>>, <<"map">>, <<"choices", "map">>,
                            <<"registry", "choices", "map">>}
    /\ <<"registry", "choices", "map">> \notin {<<>>, <<"map">>, <<"choices", "map">>}
    /\ <<"choices", "map">> \notin {<<>>, <<"map">>}
    /\ <<"map">> # <<>>
  BY DEF Panels, MapAndPanels

--------------------------------------------------------------------------------
(* Types.                                                                     *)

LEMMA TypeInit == Init => TypeOK /\ OwnEdit
<1> SUFFICES ASSUME Init  PROVE TypeOK /\ OwnEdit
  OBVIOUS
<1>. USE DEF Init
<1>1. /\ announcing = None /\ main = "constructor" /\ open \in BOOLEAN
      /\ timer \in BOOLEAN /\ hint \in BOOLEAN
  OBVIOUS
<1>2. editTarget = None /\ editType = None /\ text \in Text /\ OwnEdit
  BY ConstantsAssumption DEF Text, OwnEdit
<1>3. /\ rows \in [Target -> Pos \cup {None, Blank, Edited}]
      /\ markers \in [Node \cup {"me", "selection"} -> Pos \cup {None}]
      /\ known \in [Node -> Pos \cup {None, Blank}]
  OBVIOUS
<1>4. /\ ranged \subseteq Known /\ choices \subseteq Node /\ paths \subseteq Node
      /\ silent \subseteq Node /\ entered \subseteq Pos /\ pending \in 0..MaxPending
  BY ConstantsAssumption
<1>. QED  BY <1>1, <1>2, <1>3, <1>4 DEF TypeOK

LEMMA ScheduleType == TypeOK /\ Schedule => pending' \in 0..MaxPending
  BY ConstantsAssumption DEF TypeOK, Schedule

\* What a change of the edit field does to timer and selection.
LEMMA ChangedTypes ==
    ASSUME TypeOK, NEW type, NEW v, NEW chosen \in Pos \cup {None},
           Changed(type, v, chosen)
    PROVE  timer' \in BOOLEAN /\ selection' \in Pos \cup {None}
  BY DEF TypeOK, Changed

\* Every step keeps the types; an own position is only stored from an edit of it.
LEMMA TypeStep == TypeOK /\ OwnEdit /\ [Next]_vars => TypeOK' /\ OwnEdit'
<1> SUFFICES ASSUME TypeOK, OwnEdit, [Next]_vars  PROVE TypeOK' /\ OwnEdit'
  OBVIOUS
<1>. USE ConstantsAssumption DEF TypeOK, OwnEdit, node, edit, screen, Known, OrBlank
<1>0. todo \in Todos
  BY DEF Todos
<1>1. CASE Draw
  <2>1. todo' \in Todos /\ UNCHANGED <<node, announcing, main, open, edit, pending>>
    BY <1>0, <1>1, TodoSteps DEF Draw
  <2>2. rows' \in [Target -> Pos \cup {None, Blank, Edited}]
    BY <1>1 DEF Draw, RowOf, Target, Own
  <2>3. choices' \subseteq Node /\ silent' \subseteq Node /\ paths' \subseteq Node
    BY <1>1 DEF Draw, Circles
  <2>4. markers' \in [Node \cup {"me", "selection"} -> Pos \cup {None}]
    BY <1>1 DEF Draw, Marked, Placed
  <2>. QED  BY <2>1, <2>2, <2>3, <2>4 DEF Todos
<1>2. CASE Refresh
  BY <1>2 DEF Refresh, Panels
<1>3. CASE SyncSelection
  <2>1. /\ timer' = FALSE /\ selection' \in Pos \cup {None}
        /\ todo' \in {<<>>, <<"map">>}
    BY <1>3 DEF SyncSelection
  <2>. QED  BY <1>3, <2>1 DEF SyncSelection
<1>4. ASSUME NEW v \in Text, Type(v)  PROVE TypeOK' /\ OwnEdit'
  <2>1. timer' \in BOOLEAN /\ selection' \in Pos \cup {None}
    BY <1>4, ChangedTypes DEF Type
  <2>. QED  BY <1>4, <2>1 DEF Type, Text
<1>5. ASSUME NEW p \in Pos, MapClick(p)  PROVE TypeOK' /\ OwnEdit'
  <2>1. timer' \in BOOLEAN /\ selection' \in Pos \cup {None}
    BY <1>5, ChangedTypes DEF MapClick
  <2>. QED  BY <1>5, <2>1 DEF MapClick, Text
<1>6. ASSUME NEW t \in Target, NEW type \in {"pos", "depth"}, StartEdit(t, type)
      PROVE TypeOK' /\ OwnEdit'
  <2>1. timer' \in BOOLEAN /\ selection' \in Pos \cup {None}
    BY <1>6, ChangedTypes DEF StartEdit, Edit
  <2>2. hint' \in BOOLEAN /\ editTarget' = t /\ editType' = type /\ text' \in Text
    BY <1>6 DEF StartEdit, Edit, Text
  <2>3. t # None /\ type # None
    BY <1>6 DEF Target
  <2>. QED  BY <1>6, <2>1, <2>2, <2>3 DEF StartEdit, Edit
<1>7. CASE CancelEdit
  BY <1>7 DEF CancelEdit, EndEdit, Own
<1>8. CASE SaveEdit
  <2>1. editTarget \in Target
    BY <1>8 DEF SaveEdit
  <2>2. \/ UNCHANGED <<node, pending>>
        \/ Store(editTarget, text) /\ (text \in Pos \/ (editType = "depth" /\ text = "number"))
    BY <1>8, <2>1 DEF SaveEdit
  <2>3. CASE UNCHANGED <<node, pending>>
    BY <1>8, <2>3 DEF SaveEdit, EndEdit, Own
  <2>4. CASE Store(editTarget, text) /\ (text \in Pos \/ (editType = "depth" /\ text = "number"))
    <3>1. pending' \in 0..MaxPending /\ UNCHANGED ranged
      BY <2>4, ScheduleType DEF Store
    <3>2. known' \in [Node -> Pos \cup {None, Blank}]
      BY <2>4 DEF Store
    <3>3. ranged' \subseteq Known'
      BY <2>1, <2>4 DEF Store, Target
    <3>4. ownPos' \in Pos \cup {None}
      BY <2>1, <2>4 DEF Store, Own
    <3>. QED  BY <1>8, <3>1, <3>2, <3>3, <3>4 DEF SaveEdit, EndEdit, Own
  <2>. QED  BY <2>2, <2>3, <2>4
<1>9. ASSUME NEW n \in Node, AddNode(n)  PROVE TypeOK' /\ OwnEdit'
  <2>1. timer' \in BOOLEAN /\ selection' \in Pos \cup {None} /\ pending' \in 0..MaxPending
    BY <1>9, ChangedTypes, ScheduleType DEF AddNode, Edit
  <2>2. /\ hint' \in BOOLEAN /\ editTarget' = n /\ editType' = "pos" /\ text' \in Text
        /\ n # None /\ n \notin Own
    BY <1>9 DEF AddNode, Edit, Text, Target
  <2>3. known' \in [Node -> Pos \cup {None, Blank}] /\ ranged' \subseteq Known'
    BY <1>9 DEF AddNode
  <2>. QED  BY <1>9, <2>1, <2>2, <2>3 DEF AddNode, Edit, Target
<1>10. ASSUME NEW n \in Node, DeleteNode(n)  PROVE TypeOK' /\ OwnEdit'
  <2>1. pending' \in 0..MaxPending
    BY <1>10, ScheduleType DEF DeleteNode
  <2>. QED  BY <1>10, <2>1 DEF DeleteNode
<1>11. ASSUME NEW n \in Node, RequestRange(n)  PROVE TypeOK' /\ OwnEdit'
  BY <1>11 DEF RequestRange
<1>12. ASSUME NEW p \in Pos, MoveOwn(p)  PROVE TypeOK' /\ OwnEdit'
  BY <1>12, ScheduleType DEF MoveOwn
<1>13. CASE Close
  BY ZenonT(30), <1>13 DEF Close
<1>14. ASSUME NEW n \in Node, NEW p \in Pos, StoreReport(n, p)
       PROVE TypeOK' /\ OwnEdit'
  BY <1>14 DEF StoreReport
<1>15. ASSUME NEW n \in Node, StoreRange(n)  PROVE TypeOK' /\ OwnEdit'
  <2>1. known' \in [Node -> Pos \cup {None, Blank}] /\ ranged' \subseteq Known'
    BY <1>15 DEF StoreRange
  <2>. QED  BY <1>15, <2>1 DEF StoreRange
<1>16. CASE Announce
  BY <1>16, ScheduleType DEF Announce
<1>17. CASE UNCHANGED vars
  BY <1>17 DEF vars
<1>18. CASE StartTransport \/ EnterMainLoop
  BY <1>18 DEF StartTransport, EnterMainLoop
<1>19. CASE AnnounceFails
  BY <1>19 DEF AnnounceFails
<1>. QED  BY <1>1, <1>2, <1>3, <1>4, <1>5, <1>6, <1>7, <1>8, <1>9, <1>10, <1>11,
              <1>12, <1>13, <1>14, <1>15, <1>16, <1>17, <1>18, <1>19 DEF Next

--------------------------------------------------------------------------------
(* Edits: the edited node is known, because only what is known has buttons.   *)

\* Between two callbacks a row with buttons is a known node's and not being edited.
LEMMA ButtonsAreOfKnown ==
    ASSUME TypeOK, RowsAreKnown, Idle, NEW t \in Target, HasButtons(t)
    PROVE  t \in Node => t \in Known /\ t # editTarget
  BY DEF RowsAreKnown, Idle, HasButtons, RegistryDrawn, ChoicesDrawn, MapDrawn

\* Starting an edit empties the field and is followed by a redrawing of the window.
LEMMA EditBegins ==
    ASSUME TypeOK, NEW t \in Target, NEW type \in {"pos", "depth"}, Edit(t, type)
    PROVE  /\ editTarget' = t /\ editType' = type /\ text' \notin Pos
           /\ type = "pos" => selection' = None
           /\ ~MeDrawn' /\ ~RegistryDrawn' /\ ~ChoicesDrawn' /\ ~MapDrawn'
  BY ConstantsAssumption, PanelsAreAhead
  DEF Edit, Changed, MeDrawn, RegistryDrawn, ChoicesDrawn, MapDrawn

\* So does ending one.
LEMMA EditEnds ==
    ASSUME EndEdit
    PROVE  /\ editTarget' = None /\ editType' = None
           /\ ~MeDrawn' /\ ~RegistryDrawn' /\ ~ChoicesDrawn' /\ ~MapDrawn'
  BY PanelsAreAhead DEF EndEdit, MeDrawn, RegistryDrawn, ChoicesDrawn, MapDrawn

\* Redrawing keeps what RowsAreKnown says, or brings it about.
LEMMA DrawRows ==
    ASSUME TypeOK, EditedIsKnown, RowsAreKnown, Draw
    PROVE  RowsAreKnown'
<1>1. todo \in Todos /\ todo # <<>>
  BY DEF TypeOK, Todos, Draw
<1>2. UNCHANGED <<known, editTarget, open>> /\ todo' = Tail(todo)
  BY DEF Draw, node, edit
<1>3. CASE Head(todo) = "registry"
  <2>1. \A n \in Node : rows'[n] = IF n \in Known THEN RowOf(n, known[n]) ELSE None
    BY <1>3, ConstantsAssumption DEF Draw, Target
  <2>2. \A n \in Node : rows'[n] # None => n \in Known
    BY <2>1
  <2>3. editTarget \in Node => rows'[editTarget] = Edited
    BY <2>1, ConstantsAssumption DEF EditedIsKnown, RowOf
  <2>. QED  BY <1>2, <2>2, <2>3 DEF RowsAreKnown, Known
<1>4. CASE Head(todo) # "registry"
  <2>1. \A n \in Node : rows'[n] = rows[n]
    BY <1>4, ConstantsAssumption DEF Draw, TypeOK, Target, Own
  <2>2. RegistryDrawn' => RegistryDrawn
    BY <1>1, <1>2, <1>4, TodoSteps, PanelsAreAhead
    DEF RegistryDrawn, ChoicesDrawn, MapDrawn
  <2>. QED  BY <1>2, <2>1, <2>2 DEF RowsAreKnown, Known, TypeOK
<1>. QED  BY <1>3, <1>4

LEMMA EditInit == Init => EditInv
<1> SUFFICES ASSUME Init  PROVE EditInv
  OBVIOUS
<1>1. editTarget = None /\ editType = None /\ selection = None /\ todo = Panels
  BY DEF Init
<1>. QED  BY <1>1, TypeInit, ConstantsAssumption, PanelsAreAhead
     DEF EditInv, EditedIsKnown, RowsAreKnown, TextIsEntered, SelectionOfThisEdit,
         RegistryDrawn, ChoicesDrawn, MapDrawn

LEMMA EditStep == EditInv /\ [Next]_vars => EditInv'
<1> SUFFICES ASSUME EditInv, [Next]_vars
             PROVE  (EditedIsKnown /\ RowsAreKnown /\ TextIsEntered /\ SelectionOfThisEdit)'
  BY TypeStep DEF EditInv
<1> DEFINE Kept == (EditedIsKnown /\ RowsAreKnown /\ TextIsEntered /\ SelectionOfThisEdit)'
<1>. USE ConstantsAssumption DEF EditInv, node, edit, screen
<1>0. TypeOK'
  BY TypeStep
\* Steps that change neither the edit nor what is known nor the rows.
<1>1. ASSUME UNCHANGED <<editTarget, editType, text, selection, entered, rows, todo, open>>,
             Known \subseteq Known'
      PROVE  Kept
  BY <1>1 DEF EditedIsKnown, RowsAreKnown, TextIsEntered, SelectionOfThisEdit,
              RegistryDrawn, ChoicesDrawn, MapDrawn
<1>2. CASE Draw
  <2>1. RowsAreKnown'
    BY <1>2, DrawRows
  <2>. QED  BY <1>2, <2>1 DEF Draw, EditedIsKnown, Known, TextIsEntered, SelectionOfThisEdit
<1>3. CASE Refresh
  BY <1>3, PanelsAreAhead
  DEF Refresh, EditedIsKnown, RowsAreKnown, Known, TextIsEntered, SelectionOfThisEdit,
      RegistryDrawn, ChoicesDrawn, MapDrawn
<1>4. CASE SyncSelection
  BY <1>4 DEF SyncSelection, EditedIsKnown, RowsAreKnown, Known, TextIsEntered,
              SelectionOfThisEdit, RegistryDrawn, ChoicesDrawn, MapDrawn
<1>5. ASSUME NEW v \in Text, Type(v)  PROVE Kept
  BY <1>5 DEF Type, Changed, Idle, EditedIsKnown, RowsAreKnown, Known, TextIsEntered,
              SelectionOfThisEdit, RegistryDrawn, ChoicesDrawn, MapDrawn
<1>6. ASSUME NEW p \in Pos, MapClick(p)  PROVE Kept
  BY <1>6 DEF MapClick, Changed, Idle, EditedIsKnown, RowsAreKnown, Known, TextIsEntered,
              SelectionOfThisEdit, RegistryDrawn, ChoicesDrawn, MapDrawn
<1>7. ASSUME NEW t \in Target, NEW type \in {"pos", "depth"}, StartEdit(t, type)
      PROVE  Kept
  <2>1. t \in Known \cup Own /\ Known' = Known
    BY <1>7, ButtonsAreOfKnown DEF StartEdit, Target, Known
  <2>. QED  BY <1>7, <2>1, EditBegins
       DEF StartEdit, EditedIsKnown, RowsAreKnown, TextIsEntered, SelectionOfThisEdit
<1>8. CASE CancelEdit
  BY <1>8, EditEnds
  DEF CancelEdit, EditedIsKnown, RowsAreKnown, TextIsEntered, SelectionOfThisEdit
<1>9. CASE SaveEdit
  BY <1>9, EditEnds
  DEF SaveEdit, EditedIsKnown, RowsAreKnown, TextIsEntered, SelectionOfThisEdit
<1>10. ASSUME NEW n \in Node, AddNode(n)  PROVE Kept
  <2>1. n \in Target /\ Edit(n, "pos")
    BY <1>10 DEF AddNode, Target
  <2>2. n \in Known'
    BY <1>10 DEF AddNode, Known, TypeOK
  <2>. QED  BY <2>1, <2>2, EditBegins
       DEF EditedIsKnown, RowsAreKnown, TextIsEntered, SelectionOfThisEdit
<1>11. ASSUME NEW n \in Node, DeleteNode(n)  PROVE Kept
  <2>1. n # editTarget
    BY <1>11, ButtonsAreOfKnown DEF DeleteNode, Target
  <2>2. Known' = Known \ {n} /\ UNCHANGED edit
    BY <1>11 DEF DeleteNode, Known, TypeOK
  <2>3. ~RegistryDrawn'
    BY <1>11, PanelsAreAhead DEF DeleteNode, RegistryDrawn, ChoicesDrawn, MapDrawn
  <2>. QED  BY <2>1, <2>2, <2>3
       DEF EditedIsKnown, RowsAreKnown, TextIsEntered, SelectionOfThisEdit
<1>12. ASSUME NEW n \in Node, RequestRange(n)  PROVE Kept
  <2>1. Known \subseteq Known'
    BY <1>12 DEF RequestRange, Known, TypeOK, OrBlank
  <2>. QED  BY <1>1, <1>12, <2>1 DEF RequestRange
<1>13. ASSUME NEW p \in Pos, MoveOwn(p)  PROVE Kept
  BY <1>1, <1>13 DEF MoveOwn, Known
<1>14. CASE Close
  BY <1>14 DEF Close, EditedIsKnown, RowsAreKnown, Known, TextIsEntered, SelectionOfThisEdit
<1>15. ASSUME NEW n \in Node, NEW p \in Pos, StoreReport(n, p)  PROVE Kept
  <2>1. Known \subseteq Known'
    BY <1>15 DEF StoreReport, Known, TypeOK
  <2>. QED  BY <1>1, <1>15, <2>1 DEF StoreReport
<1>16. ASSUME NEW n \in Node, StoreRange(n)  PROVE Kept
  <2>1. Known \subseteq Known'
    BY <1>16 DEF StoreRange, Known, TypeOK, OrBlank
  <2>. QED  BY <1>1, <1>16, <2>1 DEF StoreRange
<1>17. CASE Announce \/ AnnounceFails \/ StartTransport \/ EnterMainLoop
  BY <1>1, <1>17 DEF Announce, AnnounceFails, StartTransport, EnterMainLoop, Known
<1>18. CASE UNCHANGED vars
  BY <1>1, <1>18 DEF vars, Known
<1>. QED  BY <1>2, <1>3, <1>4, <1>5, <1>6, <1>7, <1>8, <1>9, <1>10, <1>11, <1>12,
              <1>13, <1>14, <1>15, <1>16, <1>17, <1>18 DEF Next

--------------------------------------------------------------------------------
(* Markers and circles.                                                       *)

\* The timer runs from each change of the field to a position until the position
\* is on the map, and the field is emptied when an edit begins.
LEMMA TypedStep ==
    EditInv /\ TypedIsMarked /\ [Next]_vars => TypedIsMarked'
<1> SUFFICES ASSUME EditInv, TypedIsMarked, [Next]_vars  PROVE TypedIsMarked'
  OBVIOUS
<1>. USE ConstantsAssumption DEF TypedIsMarked, node, edit, screen
<1>1. ASSUME UNCHANGED <<editType, text, timer, selection>>  PROVE TypedIsMarked'
  BY <1>1
<1>2. CASE SyncSelection
  BY <1>2 DEF SyncSelection
<1>3. ASSUME NEW v \in Text, Type(v)  PROVE TypedIsMarked'
  BY <1>3 DEF Type, Changed
<1>4. ASSUME NEW p \in Pos, MapClick(p)  PROVE TypedIsMarked'
  BY <1>4 DEF MapClick, Changed
<1>5. ASSUME NEW t, NEW type, Edit(t, type)  PROVE TypedIsMarked'
  BY <1>5 DEF Edit
<1>6. CASE EndEdit
  BY <1>6 DEF EndEdit
<1>7. \/ Draw \/ Refresh \/ Close
      \/ Announce \/ AnnounceFails \/ StartTransport \/ EnterMainLoop
      => TypedIsMarked'
  BY <1>1 DEF Draw, Refresh, Close, Announce, AnnounceFails, StartTransport, EnterMainLoop
<1>8. ASSUME NEW n \in Node, DeleteNode(n) \/ RequestRange(n) \/ StoreRange(n)
      PROVE  TypedIsMarked'
  BY <1>1, <1>8 DEF DeleteNode, RequestRange, StoreRange
<1>9. ASSUME NEW p \in Pos, MoveOwn(p) \/ \E n \in Node : StoreReport(n, p)
      PROVE  TypedIsMarked'
  BY <1>1, <1>9 DEF MoveOwn, StoreReport
<1>10. (\E t \in Target, type \in {"pos", "depth"} : StartEdit(t, type)) => TypedIsMarked'
  BY <1>5 DEF StartEdit
<1>11. (\E n \in Node : AddNode(n)) => TypedIsMarked'
  BY <1>5 DEF AddNode
<1>12. CancelEdit \/ SaveEdit => TypedIsMarked'
  BY <1>6 DEF CancelEdit, SaveEdit
<1>13. UNCHANGED vars => TypedIsMarked'
  BY <1>1 DEF vars
<1>. QED  BY <1>2, <1>3, <1>4, <1>7, <1>8, <1>9, <1>10, <1>11, <1>12, <1>13 DEF Next

\* Only the map's own redrawing and the end of the window touch either.
LEMMA CirclesStep ==
    TypeOK /\ CirclesAreMarked /\ [Next]_vars => CirclesAreMarked'
<1> SUFFICES ASSUME TypeOK, CirclesAreMarked, [Next]_vars  PROVE CirclesAreMarked'
  OBVIOUS
<1>. USE DEF CirclesAreMarked, node, edit, screen
<1>1. ASSUME UNCHANGED <<paths, markers>>  PROVE CirclesAreMarked'
  BY <1>1
<1>2. CASE Draw
  <2>1. CASE Head(todo) = "map"
    <3>1. paths' = {n \in Known : known[n] # Blank /\ n \in ranged}
      BY <1>2, <2>1 DEF Draw, Circles
    <3>2. \A n \in paths' : markers'[n] = known[n] /\ known[n] # None
      BY <1>2, <2>1, <3>1, ConstantsAssumption DEF Draw, Marked, TypeOK, Known, Placed
    <3>. QED  BY <3>2
  <2>2. CASE Head(todo) # "map"
    BY <1>2, <2>2 DEF Draw
  <2>. QED  BY <2>1, <2>2
<1>3. CASE Close
  BY <1>3 DEF Close
<1>4. Next /\ ~Draw /\ ~Close => UNCHANGED <<paths, markers>>
  BY DEF Next, Refresh, SyncSelection, Type, MapClick, MoveOwn, StartEdit, CancelEdit,
         SaveEdit, AddNode, DeleteNode, RequestRange, StoreRange, StoreReport,
         StartTransport, EnterMainLoop, Announce, AnnounceFails
<1>. QED  BY <1>1, <1>2, <1>3, <1>4 DEF vars
--------------------------------------------------------------------------------
(* What has been drawn is what the table holds.                               *)

\* A panel that has just been drawn is fresh, and so are those drawn before it.
LEMMA FreshDraw ==
    ASSUME EditInv, CirclesAreMarked, PanelsFresh, Draw  PROVE PanelsFresh'
<1> SUFFICES ASSUME Settled'  PROVE /\ MeDrawn' => MeFresh'
                                    /\ RegistryDrawn' => RegistryFresh'
                                    /\ ChoicesDrawn' => ChoicesFresh'
                                    /\ MapDrawn' => MapFresh'
  BY DEF PanelsFresh
<1>. USE ConstantsAssumption
<1>1. todo \in Todos /\ todo # <<>> /\ todo' = Tail(todo)
  BY DEF EditInv, TypeOK, Todos, Draw
<1>2. /\ UNCHANGED <<known, ranged, ownPos, announcing, editTarget, selection>>
      /\ Settled
  BY DEF Draw, node, edit, Settled
<1>. USE DEF MeDrawn, RegistryDrawn, ChoicesDrawn, MapDrawn
<1>3. CASE Head(todo) = "me"
  <2>1. MeFresh'
    BY <1>2, <1>3 DEF MeFresh, Draw, EditInv, TypeOK, RowOf, OrBlank, Target, Own
  <2>. QED  BY <1>1, <1>3, <2>1, TodoSteps, PanelsAreAhead
<1>4. CASE Head(todo) = "registry"
  <2>1. todo = <<"registry", "choices", "map">> /\ todo' = <<"choices", "map">>
    BY <1>1, <1>4, TodoSteps
  <2>2. MeFresh'
    <3>1. rows'["me_pos"] = rows["me_pos"]
      BY <1>4 DEF Draw, Target, Own
    <3>. QED  BY <1>2, <2>1, <3>1 DEF PanelsFresh, MeFresh, RowOf, OrBlank
  <2>3. RegistryFresh'
    <3>1. \A n \in Node : rows'[n] = IF n \in Known THEN RowOf(n, known[n]) ELSE None
      BY <1>4 DEF Draw, Target
    <3>2. \A n \in Node : n \notin Known => RowOf(n, known[n]) = None
      BY DEF EditInv, EditedIsKnown, RowOf, Known
    <3>. QED  BY <1>2, <3>1, <3>2 DEF RegistryFresh, RowOf
  <2>. QED  BY <2>1, <2>2, <2>3, PanelsAreAhead
<1>5. CASE Head(todo) = "choices"
  <2>1. todo = <<"choices", "map">> /\ todo' = <<"map">>
    BY <1>1, <1>5, TodoSteps
  <2>2. UNCHANGED <<rows, silent>> /\ choices' = Known
    BY <1>5 DEF Draw
  <2>. QED  BY <1>2, <2>1, <2>2, PanelsAreAhead
       DEF PanelsFresh, MeFresh, RegistryFresh, ChoicesFresh, Stale, Known, RowOf, OrBlank
<1>6. CASE Head(todo) = "map"
  <2>1. UNCHANGED <<rows, choices, silent>> /\ markers' = Marked /\ paths' = Circles
    BY <1>6 DEF Draw
  <2>2. CASE todo = <<"map">>
    <3>1. todo' = <<>>
      BY <1>1, <2>2, TodoSteps, PanelsAreAhead
    <3>2. MapFresh'
      <4>1. \A n \in Node : markers'[n] = Placed(known[n])
        BY <2>1 DEF Marked, EditInv, TypeOK
      <4>2. markers'["me"] = ownPos /\ markers'["selection"] = selection
        BY <2>1 DEF Marked, EditInv, TypeOK
      <4>3. \A n \in Node : n \in paths' <=> n \in ranged /\ known[n] # Blank
        BY <2>1 DEF Circles, CirclesAreMarked, EditInv, TypeOK
      <4>. QED  BY <1>2, <4>1, <4>2, <4>3 DEF MapFresh, Placed, Stale
    <3>. QED  BY <1>2, <2>1, <2>2, <3>2
         DEF PanelsFresh, MeFresh, RegistryFresh, ChoicesFresh, Stale, Known, RowOf, OrBlank
  <2>3. CASE todo = MapAndPanels
    BY <1>1, <1>6, <2>3, TodoSteps, PanelsAreAhead
  <2>. QED  BY <1>1, <1>6, <2>2, <2>3, TodoSteps
<1>. QED  BY <1>1, <1>3, <1>4, <1>5, <1>6, TodoSteps

\* Every other step leaves the panels fresh, has all of them ahead of it, or
\* leaves a refresh scheduled or about to be.
LEMMA FreshStep ==
    EditInv /\ CirclesAreMarked /\ PanelsFresh /\ [Next]_vars => PanelsFresh'
<1> SUFFICES ASSUME EditInv, CirclesAreMarked, PanelsFresh, [Next]_vars
             PROVE  PanelsFresh'
  OBVIOUS
<1>. USE ConstantsAssumption DEF node, edit, screen
<1>1. ASSUME ~Settled' \/ ~(MeDrawn' \/ RegistryDrawn' \/ ChoicesDrawn' \/ MapDrawn')
      PROVE  PanelsFresh'
  BY <1>1 DEF PanelsFresh
<1>2. ASSUME UNCHANGED <<rows, choices, markers, paths, known, ranged, ownPos, editTarget,
                         silent, open, announcing, pending>>,
             todo = <<>>, \/ todo' = <<>> /\ selection' = selection
                          \/ todo' = <<"map">>
      PROVE  PanelsFresh'
  BY <1>2, PanelsAreAhead
  DEF PanelsFresh, Settled, Stale, MeFresh, RegistryFresh, ChoicesFresh, MapFresh, Known,
      RowOf, OrBlank, Placed, MeDrawn, RegistryDrawn, ChoicesDrawn, MapDrawn
<1>3. Schedule => ~Settled'
  BY DEF Schedule, Settled, EditInv, TypeOK
<1>4. todo' = Panels => ~(MeDrawn' \/ RegistryDrawn' \/ ChoicesDrawn' \/ MapDrawn')
  BY PanelsAreAhead DEF MeDrawn, RegistryDrawn, ChoicesDrawn, MapDrawn
<1>5. CASE Draw
  BY <1>5, FreshDraw
<1>6. CASE Refresh
  BY <1>1, <1>4, <1>6 DEF Refresh, Settled
<1>7. CASE SyncSelection
  <2>1. CASE open
    BY <1>2, <1>7, <2>1 DEF SyncSelection
  <2>2. CASE ~open
    BY <1>1, <1>7, <2>2 DEF SyncSelection, Settled
  <2>. QED  BY <2>1, <2>2
<1>8. ASSUME NEW v \in Text, Type(v)  PROVE PanelsFresh'
  BY <1>2, <1>8 DEF Type, Changed, Idle
<1>9. ASSUME NEW p \in Pos, MapClick(p)  PROVE PanelsFresh'
  BY <1>2, <1>9 DEF MapClick, Idle
<1>10. ASSUME NEW t \in Target, NEW type \in {"pos", "depth"}, StartEdit(t, type)
       PROVE  PanelsFresh'
  BY <1>1, <1>10, EditBegins DEF StartEdit, EditInv
<1>11. CASE CancelEdit \/ SaveEdit
  BY <1>1, <1>11, EditEnds DEF CancelEdit, SaveEdit
<1>12. ASSUME NEW n \in Node, AddNode(n) \/ DeleteNode(n)  PROVE PanelsFresh'
  BY <1>1, <1>3, <1>4, <1>12 DEF AddNode, DeleteNode
\* Steps after which a node is stale, or was before, and the others are as they were.
<1>13. ASSUME Stale \cup {None} \subseteq Stale' \cup {None},
              \A m \in Node \ Stale' : known'[m] = known[m] /\ (m \in ranged' <=> m \in ranged),
              UNCHANGED <<rows, choices, markers, paths, ownPos, editTarget, selection, open,
                          pending, todo>>
       PROVE  PanelsFresh'
  <2>1. \A m \in Node \ Stale' : m \in Node \ Stale
    BY <1>13
  <2>. QED  BY <1>13, <2>1
       DEF PanelsFresh, Settled, MeFresh, RegistryFresh, ChoicesFresh, MapFresh, Known,
           RowOf, OrBlank, Placed, MeDrawn, RegistryDrawn, ChoicesDrawn, MapDrawn
<1>14. ASSUME NEW p \in Pos, MoveOwn(p)  PROVE PanelsFresh'
  BY <1>1, <1>3, <1>14 DEF MoveOwn
<1>15. CASE Close
  BY <1>1, <1>15 DEF Close, Settled
<1>16. ASSUME NEW n \in Node,
              RequestRange(n) \/ StoreRange(n) \/ \E p \in Pos : StoreReport(n, p)
       PROVE  PanelsFresh'
  <2>1. /\ Stale \cup {None} \subseteq Stale' \cup {None}
        /\ n \in Stale' \/ (UNCHANGED ranged /\ known'[n] = known[n])
    BY <1>16 DEF RequestRange, StoreRange, StoreReport, Stale, EditInv, TypeOK, Known, OrBlank
  <2>2. \A m \in Node \ {n} : known'[m] = known[m] /\ (m \in ranged' <=> m \in ranged)
    BY <1>16 DEF RequestRange, StoreRange, StoreReport, EditInv, TypeOK
  <2>3. UNCHANGED <<rows, choices, markers, paths, ownPos, editTarget, selection, open,
                    pending, todo>>
    BY <1>16 DEF RequestRange, StoreRange, StoreReport
  <2>. QED  BY <1>13, <2>1, <2>2, <2>3
<1>17. CASE Announce
  BY <1>1, <1>3, <1>17 DEF Announce
<1>18. CASE AnnounceFails \/ StartTransport \/ EnterMainLoop \/ UNCHANGED vars
  <2>1. UNCHANGED <<node, edit, screen, open, pending, todo>>
    BY <1>18 DEF AnnounceFails, StartTransport, EnterMainLoop, vars
  <2>2. Stale \cup {None} \subseteq Stale' \cup {None}
    BY <1>18 DEF AnnounceFails, StartTransport, EnterMainLoop, vars, Stale
  <2>. QED  BY <1>13, <2>1, <2>2
<1>. QED  BY <1>5, <1>6, <1>7, <1>8, <1>9, <1>10, <1>11, <1>12, <1>14, <1>15,
              <1>16, <1>17, <1>18 DEF Next

--------------------------------------------------------------------------------
(* The theorems.                                                              *)

LEMMA IInvInit == Init => IInv
<1> SUFFICES ASSUME Init  PROVE IInv
  OBVIOUS
<1>1. editType = None /\ todo = Panels /\ paths = {}
  BY DEF Init
<1>. QED  BY <1>1, EditInit, ConstantsAssumption, PanelsAreAhead
     DEF IInv, TypedIsMarked, CirclesAreMarked, PanelsFresh, MeDrawn, RegistryDrawn,
         ChoicesDrawn, MapDrawn

\* The invariant holds in every state the window can reach.
THEOREM IInvHolds == Spec => []IInv
<1>1. IInv /\ [Next]_vars => IInv'
  BY EditStep, TypedStep, CirclesStep, FreshStep DEF IInv, EditInv
<1>. QED  BY <1>1, IInvInit, PTL DEF Spec

\* Every variable of the window keeps its type, whatever the order of buttons,
\* timer, refreshes and changes by the reader thread.
THEOREM TypeCorrect == Spec => []TypeOK
<1>1. IInv => TypeOK
  BY DEF IInv, EditInv
<1>. QED  BY <1>1, IInvHolds, PTL

\* No sequence of edits, additions and deletions leaves an edit open whose Save
\* would bring a deleted node back (controller.py:333-407).
THEOREM EditedStaysKnown == Spec => []EditedIsKnown
<1>1. IInv => EditedIsKnown
  BY DEF IInv, EditInv
<1>. QED  BY <1>1, IInvHolds, PTL

\* The grey marker shows something entered in the edit that is open, although the
\* debounce timer of an earlier edit may still fire (controller.py:296-344).
THEOREM SelectionBelongs == Spec => []SelectionOfThisEdit
<1>1. IInv => SelectionOfThisEdit
  BY DEF IInv, EditInv
<1>. QED  BY <1>1, IInvHolds, PTL

\* A typed position is on the map or the timer that puts it there is running
\* (controller.py:296-331).
THEOREM TypedGetsMarked == Spec => []TypedIsMarked
<1>1. IInv => TypedIsMarked
  BY DEF IInv
<1>. QED  BY <1>1, IInvHolds, PTL

\* A window with nothing scheduled or running shows the node's table as it is,
\* although the reader thread changes it between the redrawing of two panels
\* (controller.py:129-143, 463-640).
THEOREM SettledWindowIsRight == Spec => []SettledIsShown
<1>1. IInv => SettledIsShown
  BY ConstantsAssumption
  DEF IInv, PanelsFresh, Settled, Stale, SettledIsShown, Idle, MeFresh, RegistryFresh,
         ChoicesFresh, MapFresh, MeDrawn, RegistryDrawn, ChoicesDrawn, MapDrawn
<1>. QED  BY <1>1, IInvHolds, PTL
================================================================================
