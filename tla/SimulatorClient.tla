---------------------------- MODULE SimulatorClient ----------------------------
(***************************************************************************)
(* A controller process as a client of the simulator: the reader thread of *)
(* SimulatorMetadataClient (simulator/protocol.py) or of                   *)
(* SimulatorJsonTransport (transports/simulator_json.py), and the main     *)
(* thread that launches it, runs the Tk main loop and stops it when the    *)
(* window closes (scenarios/single_node.py, controller.py).                *)
(*                                                                         *)
(* Messages are lines of JSON on a TCP connection.  A line is two pieces,  *)
(* the second of which ends in the newline, and recv returns any number of *)
(* pieces.  The simulator writes a message with sendall, piece by piece as *)
(* the socket takes them, and gives up when the socket's timeout of 0.1 s  *)
(* expires first.  Nothing locks the socket: while one of its threads is   *)
(* between two pieces, another one's may get onto the connection.          *)
(*                                                                         *)
(* GPS updates reach the node through root.after(0, apply): Tk hands the   *)
(* call of a foreign thread to the main thread and lets the caller wait;   *)
(* outside the main loop it gives up after a second and raises.            *)
(***************************************************************************)
EXTENDS Integers, Sequences

CONSTANT MaxSent    \* bound: messages of the simulator
ASSUME ConstantsAssumption == MaxSent \in Nat

VARIABLES
    setup,     \* how the process was launched; never changes
    main,      \* what the main thread does
    handler,   \* the client has a callback for GPS updates
    pending,   \* apply calls scheduled with after(0), by message
    current,   \* the update the node's position is from, 0 if none
    running,   \* _running of the client
    closed,    \* the client has closed its socket
    reader,    \* where the reader thread is
    buffer,    \* JsonLineBuffer._buffer
    lines,     \* the text of the complete lines still to dispatch
    wire,      \* pieces on the connection
    gone,      \* the simulator has closed its end
    sent,      \* the calls of sendall, in the order in which they began
    written,   \* ghost: all that was ever put on the connection
    handled    \* ghost: messages that were parsed and dispatched

mainVars == <<setup, main, handler, pending, current>>
readerVars == <<reader, buffer, lines, handled>>
simulatorVars == <<gone, sent, written>>
vars == <<mainVars, readerVars, running, closed, wire, simulatorVars>>

\* single_node.py with --network or with --world, and
\* serial_bridge_with_god_view.py, where nothing stops the client when its
\* window closes and other windows keep the process alive.
Setups == {"network", "world", "god_view"}
StopsClient == setup # "god_view"
OtherWindows == setup = "god_view"

\* Both root.mainloop() with the window open and, after it was closed, without.
InMainLoop == main \in {"loop", "alone"}
Alive == main # "exited"

Head1(k) == [message |-> k, part |-> 1]
Tail1(k) == [message |-> k, part |-> 2]
EndsLine(piece) == piece.part = 2

\* SimulatorJsonTransport connects and registers when it is constructed, the
\* metadata client in its thread, where it also closes its socket at the end.
Registered == setup = "network" \/ reader \notin {"off", "connect", "ended"}

Init ==
    /\ setup \in Setups
    /\ main = "launch"
    /\ handler = (setup # "network")
    /\ pending = <<>> /\ current = 0
    /\ running = FALSE /\ closed = FALSE
    /\ reader = "off" /\ buffer = <<>> /\ lines = <<>>
    /\ wire = <<>> /\ gone = FALSE
    /\ sent = <<>> /\ written = <<>> /\ handled = {}

--------------------------------------------------------------------------------
(* The simulator.                                                             *)

\* sendall of message k has sent its first piece and has not returned.
Sending(k) == sent[k].sending

\* send_gps_update or send_message calls sendall, which puts the first piece on the
\* connection, or fails before that.  GPS updates are the Tk thread's and so one at a
\* time; acoustic messages come from any thread that brokers, and only to a client
\* that registered as network node (the metadata clients register a serial port).
BeginSend(kind, parts) ==
    /\ Alive /\ Registered /\ ~gone /\ ~closed /\ Len(sent) < MaxSent
    /\ IF kind = "gps" THEN \A k \in DOMAIN sent : Sending(k) => sent[k].kind # "gps"
                       ELSE setup = "network"
    /\ sent' = Append(sent, [kind |-> kind, parts |-> parts, sending |-> parts = 1])
    /\ LET pieces == SubSeq(<<Head1(Len(sent) + 1)>>, 1, parts) IN
          wire' = wire \o pieces /\ written' = written \o pieces
    /\ UNCHANGED <<mainVars, readerVars, running, closed, gone>>

\* With the second piece sendall returns.
EndSend(k) ==
    /\ Alive /\ Registered /\ ~gone /\ ~closed /\ Sending(k)
    /\ sent' = [sent EXCEPT ![k] = [kind |-> @.kind, parts |-> 2, sending |-> FALSE]]
    /\ wire' = Append(wire, Tail1(k)) /\ written' = Append(written, Tail1(k))
    /\ UNCHANGED <<mainVars, readerVars, running, closed, gone>>

\* sendall raises, with one piece on its way: the timeout, or an error.
GiveUp(k) ==
    /\ Sending(k)
    /\ sent' = [sent EXCEPT ![k].sending = FALSE]
    /\ UNCHANGED <<mainVars, readerVars, running, closed, wire, gone, written>>

SimulatorCloses ==
    /\ Alive /\ Registered /\ ~gone
    /\ gone' = TRUE
    /\ UNCHANGED <<mainVars, readerVars, running, closed, wire, sent, written>>

--------------------------------------------------------------------------------
(* The reader thread: _run and _read_loop.                                    *)

\* socket.connect and the registration, in the thread of the metadata client.
Connect ==
    /\ Alive /\ reader = "connect"
    /\ reader' \in {"loop", "ended"}
    /\ UNCHANGED <<mainVars, running, closed, buffer, lines, handled, wire, simulatorVars>>

\* while self._running
LoopTest ==
    /\ Alive /\ reader = "loop"
    /\ reader' = IF running THEN "recv" ELSE "ended"
    /\ UNCHANGED <<mainVars, running, closed, buffer, lines, handled, wire, simulatorVars>>

\* recv times out.
Timeout ==
    /\ Alive /\ reader = "recv" /\ ~closed
    /\ reader' = "loop"
    /\ UNCHANGED <<mainVars, running, closed, buffer, lines, handled, wire, simulatorVars>>

\* recv returns b"" or, on a socket closed by stop, raises.
NoMore ==
    /\ Alive /\ reader = "recv"
    /\ closed \/ (gone /\ wire = <<>>)
    /\ reader' = "ended"
    /\ UNCHANGED <<mainVars, running, closed, buffer, lines, handled, wire, simulatorVars>>

\* Where a text has its newlines; its first line, and the lines that follow.
Ends(text) == {i \in DOMAIN text : EndsLine(text[i])}
FirstEnd(text) == CHOOSE e \in Ends(text) : \A i \in Ends(text) : e <= i
FirstLine(text) == SubSeq(text, 1, FirstEnd(text))
OtherLines(text) == SubSeq(text, FirstEnd(text) + 1, Len(text))

\* JsonLineBuffer.feed: the text up to the last newline is lines, the rest is kept.
LastEnd(text) == CHOOSE e \in Ends(text) \cup {0} : \A i \in Ends(text) : i <= e
FirstOf(text) ==                  \* mutant: one line is taken from each chunk
    IF Ends(text) = {} THEN <<>> ELSE FirstLine(text)
LinesOf(text) == SubSeq(text, 1, LastEnd(text))
RestForgotten(text) == <<>>       \* mutant: what follows the last newline is lost
AfterLastLine(text) == SubSeq(text, LastEnd(text) + 1, Len(text))

Receive(n) ==
    /\ Alive /\ reader = "recv" /\ ~closed
    /\ n \in 1..Len(wire)
    /\ LET pieces == buffer \o SubSeq(wire, 1, n) IN
          /\ lines' = LinesOf(pieces)
          /\ buffer' = AfterLastLine(pieces)
    /\ wire' = SubSeq(wire, n + 1, Len(wire))
    /\ reader' = "dispatch"
    /\ UNCHANGED <<mainVars, running, closed, handled, simulatorVars>>

\* json.loads succeeds on a message that is alone on its line.  The rest of one message
\* after the beginning of another is not JSON, unless both are acoustic, and what
\* acoustic messages do is not modelled.  (No piece is taken to be as short as the
\* {"type": " that every message begins with.)
Parses(line) == Len(line) = 2 /\ line[1] = Head1(line[2].message)

\* A GPS update for which there is a callback.
WantedByAll(k) == sent[k].kind = "gps"    \* mutant: the callback is not tested
Wanted(k) == sent[k].kind = "gps" /\ handler

\* dispatch_simulator_line: exceptions are logged.  What an acoustic message does
\* is the node's business and not modelled here, its wait for Tk to log it
\* included; an update without handler is dropped.
Dispatch ==
    /\ Alive /\ reader = "dispatch"
    /\ IF lines = <<>>
       THEN reader' = "loop" /\ UNCHANGED <<lines, handled>>
       ELSE LET line == FirstLine(lines)
                k == line[1].message IN
            IF Parses(line)
            THEN /\ handled' = handled \cup {k}
                 /\ IF Wanted(k)
                    THEN reader' = "posting" /\ UNCHANGED lines
                    ELSE reader' = "dispatch" /\ lines' = OtherLines(lines)
            ELSE /\ lines' = OtherLines(lines)
                 /\ UNCHANGED <<reader, handled>>
    /\ UNCHANGED <<mainVars, running, closed, buffer, wire, simulatorVars>>

\* root.after in the reader thread, before the main loop runs: RuntimeError.
PostFails ==
    /\ reader = "posting" /\ main \in {"launch", "verify"}
    /\ reader' = "dispatch" /\ lines' = OtherLines(lines)
    /\ UNCHANGED <<mainVars, running, closed, buffer, handled, wire, simulatorVars>>

--------------------------------------------------------------------------------
(* The main thread.                                                           *)

\* launch_single: the reader thread is started; on_gps_update comes after it.
Launch ==
    /\ main = "launch" /\ reader = "off"
    /\ running' = TRUE
    /\ reader' = IF setup = "network" THEN "loop" ELSE "connect"
    /\ UNCHANGED <<mainVars, closed, buffer, lines, handled, wire, simulatorVars>>

\* transport.on_gps_update(...), and on to verify_modem_id_at_startup.
SetHandler ==
    /\ main = "launch" /\ reader # "off"
    /\ handler' = TRUE
    /\ main' = "verify"
    /\ UNCHANGED <<setup, pending, current, readerVars, running, closed, wire, simulatorVars>>

\* The id is right and the main loop begins, or sys.exit: daemon threads end too.
Verify ==
    /\ main = "verify"
    /\ main' \in {"loop", "exited"}
    /\ UNCHANGED <<setup, handler, pending, current, readerVars, running, closed, wire,
                   simulatorVars>>

\* Tk runs the call the reader thread is waiting for.
ServeIfNone ==        \* mutant: dropped when another update is scheduled
    /\ InMainLoop /\ reader = "posting"
    /\ pending' = IF pending = <<>> THEN <<Head(lines).message>> ELSE pending
    /\ reader' = "dispatch" /\ lines' = OtherLines(lines)
    /\ UNCHANGED <<setup, main, handler, current, running, closed, buffer, handled, wire,
                   simulatorVars>>
Serve ==
    /\ InMainLoop /\ reader = "posting"
    /\ pending' = Append(pending, Head(lines).message)
    /\ reader' = "dispatch" /\ lines' = OtherLines(lines)
    /\ UNCHANGED <<setup, main, handler, current, running, closed, buffer, handled, wire,
                   simulatorVars>>

\* apply(): node.set_position, also when the window is gone.
ApplyNewestFirst ==   \* mutant: the last callback scheduled runs first
    /\ InMainLoop /\ pending # <<>>
    /\ current' = pending[Len(pending)]
    /\ pending' = SubSeq(pending, 1, Len(pending) - 1)
    /\ UNCHANGED <<setup, main, handler, readerVars, running, closed, wire, simulatorVars>>
Apply ==
    /\ InMainLoop /\ pending # <<>>
    /\ current' = Head(pending)
    /\ pending' = Tail(pending)
    /\ UNCHANGED <<setup, main, handler, readerVars, running, closed, wire, simulatorVars>>

\* _on_close, _shutdown and the client's stop up to the join: the flag, and with
\* SimulatorJsonTransport the socket.
CloseWindow ==
    /\ main = "loop"
    /\ IF StopsClient
       THEN /\ main' = "joining"
            /\ running' = FALSE
            /\ closed' = (setup = "network")
       ELSE /\ main' = "alone"
            /\ UNCHANGED <<running, closed>>
    /\ UNCHANGED <<setup, handler, pending, current, readerVars, wire, simulatorVars>>

\* thread.join(timeout=2.0) returns; the window is destroyed and, as no other
\* window is left, the main loop and the process end.
JoinForEver ==        \* mutant: join() without a timeout
    /\ main = "joining" /\ reader = "ended"
    /\ main' = IF OtherWindows THEN "alone" ELSE "exited"
    /\ UNCHANGED <<setup, handler, pending, current, readerVars, running, closed, wire,
                   simulatorVars>>
Join ==
    /\ main = "joining"
    /\ main' = IF OtherWindows THEN "alone" ELSE "exited"
    /\ UNCHANGED <<setup, handler, pending, current, readerVars, running, closed, wire,
                   simulatorVars>>

--------------------------------------------------------------------------------

Reader == Connect \/ LoopTest \/ Timeout \/ NoMore
          \/ (\E n \in 1..Len(wire) : Receive(n)) \/ Dispatch \/ PostFails
Main == Launch \/ SetHandler \/ Verify \/ Serve \/ Apply \/ CloseWindow \/ Join

Next ==
    \/ \E kind \in {"gps", "acoustic"}, parts \in {0, 1} : BeginSend(kind, parts)
    \/ \E k \in DOMAIN sent : EndSend(k) \/ GiveUp(k)
    \/ SimulatorCloses
    \/ Reader
    \/ Main

\* Launching goes on, the reader runs and receives what is there; the main loop
\* serves calls, runs what is scheduled, and a join ends.  Strong fairness, since
\* recv may be between two timeouts whenever it could return something.  Nobody
\* has to close a window or to send.
Spec == Init /\ [][Next]_vars
FairSpec ==
    /\ Spec
    /\ WF_vars(Launch) /\ WF_vars(SetHandler) /\ WF_vars(Verify)
    /\ WF_vars(Connect) /\ WF_vars(LoopTest) /\ WF_vars(Dispatch) /\ WF_vars(PostFails)
    /\ SF_vars(\E n \in 1..Len(wire) : Receive(n))
    /\ WF_vars(Serve) /\ WF_vars(Apply) /\ WF_vars(Join)

--------------------------------------------------------------------------------
(* Properties.                                                                *)

Pieces == [message : 1..MaxSent, part : {1, 2}]

\* Every variable has its type; a reader that waits for Tk has an update in hand.
TypeOK ==
    /\ setup \in Setups
    /\ main \in {"launch", "verify", "loop", "alone", "joining", "exited"}
    /\ handler \in BOOLEAN /\ running \in BOOLEAN /\ closed \in BOOLEAN /\ gone \in BOOLEAN
    /\ pending \in Seq(1..MaxSent)
    /\ current \in 0..MaxSent
    /\ reader \in {"off", "connect", "loop", "recv", "dispatch", "posting", "ended"}
    /\ {lines, buffer, wire} \subseteq Seq(Pieces) /\ Ends(buffer) = {}
    /\ lines # <<>> => EndsLine(lines[Len(lines)])
    /\ reader = "posting" => lines # <<>> /\ Parses(FirstLine(lines)) /\ handler
    /\ sent \in Seq([kind : {"gps", "acoustic"}, parts : 0..2, sending : BOOLEAN])
    /\ Len(sent) <= MaxSent
    /\ written \in Seq(Pieces)
    /\ handled \subseteq DOMAIN sent

\* Where a message still is before it has been dispatched or dropped.
Underway(k) ==
    \E text \in {lines, buffer, wire} : \E i \in DOMAIN text : text[i].message = k

\* The pieces of message k are on the connection on a line of their own: neither one
\* that was cut off before it nor a call of another thread is on the same line.
IntactAt(i, k) ==
    /\ written[i] = Head1(k) /\ written[i + 1] = Tail1(k)
    /\ i = 1 \/ EndsLine(written[i - 1])
Intact(k) == \E i \in 1..Len(written) - 1 : IntactAt(i, k)

\* Exactly the messages that are whole on a line of their own are dispatched, however
\* the bytes arrive: whatever was cut off or mixed up, the client is in step again at
\* the next newline, and it costs no other message (protocol.py:37-48,
\* backends.py:232, 254).
IntactIsHandled ==
    \A k \in DOMAIN sent : ~Underway(k) => (k \in handled <=> Intact(k))

\* The position moves on only, from update to later update
\* (protocol.py, simulator_json.py, single_node.py:82-90 implement GpsChannel).
Gps == INSTANCE GpsChannel WITH pushed <- Len(sent), current <- current
PositionMovesOn == Gps!Spec

\* An update that is dispatched while the main loop runs reaches the node unless
\* the window is closed first (single_node.py:82-90).
DispatchedIsApplied ==
    \A k \in 1..MaxSent :
        (reader = "posting" /\ Head(lines).message = k /\ main = "loop")
            ~> (current >= k \/ main # "loop")

\* Closing the window ends: the main thread joins a reader that may itself be
\* waiting for the main thread to serve its call (controller.py:155-163, 452-457,
\* protocol.py:153-159, simulator_json.py:104-119).
CloseEnds == (main = "joining") ~> (main = "exited")

\* A message that is whole on a line of its own is dispatched if the reader goes on
\* (protocol.py:163-184, simulator_json.py:128-143).
IntactIsHandledInTheEnd ==
    \A k \in 1..MaxSent :
        (k \in DOMAIN sent /\ Intact(k))
            ~> (k \in handled \/ ~Alive \/ ~running \/ reader = "ended")

================================================================================
