--------------------------- MODULE MCControllerWindow --------------------------
(* A small instance of ControllerWindow for TLC.                              *)
EXTENDS ControllerWindow, TLC, FiniteSets

\* Two nodes with one position between them, or one node and two positions: what
\* lies beyond is checked but not explored further.
PosInUse == Pos \cap ({known[n] : n \in Node} \cup {ownPos, text, selection} \cup entered
                      \cup {rows[t] : t \in Target} \cup {markers[k] : k \in DOMAIN markers})
NodesInUse == Known \cup ranged \cup choices \cup paths \cup {n \in Node : rows[n] # None}
TwoNodesOrTwoPositions == Cardinality(NodesInUse) <= 1 \/ Cardinality(PosInUse) <= 1

\* What is begun in the launch has one node, one position and no edit.
SmallLaunch == main = "launch" =>
    editTarget = None /\ Cardinality(NodesInUse) <= 1 /\ Cardinality(PosInUse) <= 1

Symmetry == Permutations(Node) \cup Permutations(Pos)
================================================================================
