--------------------------- MODULE MCPositioningNode ---------------------------
(***************************************************************************)
(* A small instance of PositioningNode for TLC.                            *)
(***************************************************************************)
EXTENDS PositioningNode, TLC

\* Bound: what a sixth call leads to is checked when it begins and not explored.
FiveCalls == reports + edits <= 5

Symmetry == Permutations(Id)

================================================================================
