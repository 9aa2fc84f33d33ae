--------------------------- MODULE MCSimulatorBackend --------------------------
(* Small instances of SimulatorBackend for TLC: c1 and c2 belong to one serial *)
(* node, c3 to a node on the network.                                          *)
EXTENDS SimulatorBackend

CONSTANTS n1, n2, c1, c2, c3

OwnerOf == [c \in Conn |-> IF c = c3 THEN n2 ELSE n1]
ModeOf == [c \in Conn |-> IF c = c3 THEN "network" ELSE "serial"]

\* A node that reconnects when its earlier connection is closed, beside a peer.
Reconnection ==
    [conns |-> Conn, ops |-> {"broadcast"}, ioErrors |-> {},
     ptyFails |-> FALSE, exclusive |-> TRUE, stops |-> TRUE]
\* The same without traffic when the PTY may not open.
Refusal == [Reconnection EXCEPT !.ops = {}, !.ptyFails = TRUE]
\* Two connections of one node at a time, whatever fails.
Overlap ==
    [conns |-> {c1, c2}, ops |-> {"status", "ping", "test", "quality"},
     ioErrors |-> {"SerialException", "OSError"},
     ptyFails |-> TRUE, exclusive |-> FALSE, stops |-> FALSE]
\* One connection per node, an error of a PTY and commands that raise.
Release ==
    [conns |-> {c1, c3}, ops |-> {"broadcast", "malformed"}, ioErrors |-> {"OSError"},
     ptyFails |-> FALSE, exclusive |-> TRUE, stops |-> TRUE]

TablesSettings == {Reconnection, Refusal, Overlap}
ReleaseSettings == {Release}
ReconnectSettings == {[Overlap EXCEPT !.conns = Conn, !.ops = {}, !.ioErrors = {}, !.ptyFails = FALSE]}
SerialErrorSettings == {[Release EXCEPT !.ops = {}, !.stops = FALSE]}
================================================================================
