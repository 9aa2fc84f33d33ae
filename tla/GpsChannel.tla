------------------------------- MODULE GpsChannel ------------------------------
(* What a controller may expect of the simulator's virtual GPS: an update can *)
(* get lost, but the node's position only ever moves on to a later one.       *)
EXTENDS Integers

VARIABLES
    pushed,   \* number of the last message of the simulator
    current   \* number of the update the node's position is from, 0 if none

Init == pushed = 0 /\ current = 0

Push == pushed' = pushed + 1 /\ UNCHANGED current

Apply ==
    /\ current' \in current + 1 .. pushed
    /\ UNCHANGED pushed

Next == Push \/ Apply

Spec == Init /\ [][Next]_<<pushed, current>>
================================================================================
