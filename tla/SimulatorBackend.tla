---------------------------- MODULE SimulatorBackend ---------------------------
(***************************************************************************)
(* The backend of the God View simulator                                   *)
(* (nanomodem_demo/simulator/backends.py): HybridBackend and SerialReader. *)
(*                                                                         *)
(* Every accepted TCP connection has a client thread; a serial node also   *)
(* has a reader thread on its PTY.  The threads share the routing tables   *)
(* metadata_clients, serial_readers and network_acoustic_clients without a *)
(* lock.  A step of the model is the code between two accesses of a shared *)
(* table that another thread can come between, so that check-then-act      *)
(* sequences, joins and multi-statement clean-ups interleave.              *)
(***************************************************************************)
EXTENDS Integers, FiniteSets

CONSTANTS
    Node,        \* node ids
    Conn,        \* TCP connections, each accepted at most once
    Owner,       \* [Conn -> Node], the node_id the client registers
    Mode,        \* [Conn -> {"network", "serial"}], its acoustic transport
    None,        \* no entry in a table
    Settings     \* bound: what the backend is exposed to, a set of records of
                 \*   conns      the connections that are made
                 \*   ops        the modem commands the nodes transmit
                 \*   ioErrors   failures of a read: "SerialException", "OSError"
                 \*   ptyFails   serial.Serial(pty_path) may raise
                 \*   exclusive  a node connects only when its earlier connections
                 \*              are closed
                 \*   stops      HybridBackend.stop may be called

Commands == {"status", "broadcast", "malformed", "ping", "test", "quality"}

ASSUME ConstantsAssumption ==
    /\ Owner \in [Conn -> Node]
    /\ Mode \in [Conn -> {"network", "serial"}]
    /\ None \notin Conn
    /\ Settings \subseteq [conns : SUBSET Conn, ops : SUBSET Commands,
                           ioErrors : SUBSET {"SerialException", "OSError"},
                           ptyFails : BOOLEAN, exclusive : BOOLEAN, stops : BOOLEAN]

VARIABLES
    setting,     \* one of Settings; never changes
    running,     \* HybridBackend.running
    main,        \* how far the operator's thread is: "up", "readers", "down"
    halting,     \* the readers stop() has still to stop
    peer,        \* the client's end of each connection
    registered,  \* connections whose thread has set its local node_id
    metadata,    \* metadata_clients: [Node -> Conn or None]
    readers,     \* serial_readers: a reader is named by the connection
                 \* whose registration created it
    network,     \* network_acoustic_clients
    known,       \* nodes of SimulatorState (never removed)
    placed,      \* nodes with a physical position
    heard,       \* the keys of HybridBackend._heard_data_packet
    reading,     \* SerialReader.running of each reader
    port,        \* SerialReader.port of each reader
    pc,          \* what each thread does next
    job,         \* the command each thread is brokering
    victim,      \* the reader each cleaning thread is stopping
    nested       \* connections whose registration failed and cleans up: those
                 \* threads run _cleanup_node inside SerialReader.start

tables == <<metadata, readers, network>>
world == <<known, placed, heard>>
pty == <<reading, port>>
operator == <<setting, running, main, halting>>
vars == <<operator, peer, registered, tables, world, pty, pc, job, victim, nested>>

\* The client thread and the reader thread that a connection gives rise to.
Thread == Conn \X {"client", "reader"}
Client(c) == <<c, "client">>
Reader(c) == <<c, "reader">>
Self(th) == Owner[th[1]]       \* the node_id the thread works for

MaybeConn == Conn \cup {None}
NoJob == [op |-> "none", msg |-> "none", to |-> None, target |-> None, todo |-> {}]

\* Where a thread waits for input.
Idle(th) == IF th[2] = "client" THEN "recv" ELSE "read"

Goto(th, label) == pc' = [pc EXCEPT ![th] = label]

\* thread.join(timeout=2.0) returns.  It can time out while the reader is brokering
\* a command; what a reader does besides takes it some 0.1 s.
Brokering == {"send", "serial_write", "socket_write"}
Joined(r) == pc[Reader(r)] \in {"dead"} \cup Brokering

\* An exception ends a reader thread; a client thread leaves its loop for the
\* clean-up that follows it (backends.py:323-331).
AlwaysDies(th) == "dead"      \* mutant: the client's loop catches nothing
Raised(th) == IF th[2] = "client" THEN "clean" ELSE "dead"

\* self.port.close(), the end of SerialReader.stop.
LeftOpen(r) == port           \* mutant: the port is not closed
Closed(r) == [port EXCEPT ![r] = "closed"]

\* del table[n].
Kept(table, n) == table       \* mutant: the entry stays
Emptied(table, n) == [m \in DOMAIN table |-> None]    \* mutant: table.clear()
Without(table, n) == [table EXCEPT ![n] = None]

--------------------------------------------------------------------------------
Init ==
    /\ setting \in Settings
    /\ running = TRUE
    /\ main = "up"
    /\ halting = {}
    /\ peer = [c \in Conn |-> "new"]
    /\ registered = {}
    /\ metadata = [n \in Node |-> None]
    /\ readers = [n \in Node |-> None]
    /\ network = {}
    /\ known = {}
    /\ placed = {}
    /\ heard = {}
    /\ reading = {}
    /\ port = [c \in Conn |-> "none"]
    /\ pc = [th \in Thread |-> "off"]
    /\ job = [th \in Thread |-> NoJob]
    /\ victim = [th \in Thread |-> None]
    /\ nested = {}

--------------------------------------------------------------------------------
(* The environment: clients, the operator's window, and stop().               *)

\* A client connects and the accept loop starts its thread.
Accept(c) ==
    /\ running
    /\ c \in setting.conns
    /\ peer[c] = "new"
    /\ setting.exclusive =>
           \A d \in Conn : Owner[d] = Owner[c] /\ pc[Client(d)] # "off"
                             => pc[Client(d)] = "done"
    /\ peer' = [peer EXCEPT ![c] = "open"]
    /\ Goto(Client(c), "recv")
    /\ UNCHANGED <<operator, registered, tables, world, pty, job, victim, nested>>

\* The client closes its end, or dies.
Disconnect(c) ==
    /\ peer[c] = "open"
    /\ peer' = [peer EXCEPT ![c] = "gone"]
    /\ UNCHANGED <<operator, registered, tables, world, pty, pc, job, victim, nested>>

\* The operator gives a node a physical position.
Place(n) ==
    /\ n \in known \ placed
    /\ placed' = placed \cup {n}
    /\ UNCHANGED <<operator, peer, registered, tables, known, heard, pty, pc, job, victim, nested>>

\* HybridBackend.stop, in the operator's thread: clear running, then stop every
\* reader in the table (tell it, join it, close its port), then close every
\* socket in the table.
StopBegin ==
    /\ setting.stops /\ main = "up"
    /\ running' = FALSE
    /\ main' = "readers"
    /\ halting' = {readers[n] : n \in Node} \ {None}
    /\ UNCHANGED <<setting, peer, registered, tables, world, pty, pc, job, victim, nested>>

StopReader(r) ==
    /\ main = "readers" /\ r \in halting
    /\ \/ /\ r \in reading
          /\ reading' = reading \ {r}
          /\ UNCHANGED <<port, halting>>
       \/ /\ r \notin reading
          /\ Joined(r)
          /\ port' = Closed(r)
          /\ halting' = halting \ {r}
          /\ UNCHANGED reading
    /\ UNCHANGED <<setting, running, main, peer, registered, tables, world, pc, job, victim, nested>>

StopSockets ==
    /\ main = "readers" /\ halting = {}
    /\ LET closing == {metadata[n] : n \in Node}
       IN peer' = [c \in Conn |-> IF c \in closing THEN "gone" ELSE peer[c]]
    /\ main' = "down"
    /\ UNCHANGED <<setting, running, halting, registered, tables, world, pty, pc, job, victim, nested>>

--------------------------------------------------------------------------------
(* Registration, in the client thread (_handle_registration).  The line may have *)
(* been received before stop() or before the peer closed.                     *)

Register(c) ==
    /\ pc[Client(c)] = "recv"
    /\ c \notin registered
    /\ registered' = registered \cup {c}
    /\ metadata' = [metadata EXCEPT ![Owner[c]] = c]
    /\ known' = known \cup {Owner[c]}
    /\ Goto(Client(c), IF Mode[c] = "serial" THEN "reg_reader" ELSE "reg_network")
    /\ UNCHANGED <<operator, peer, readers, network, placed, heard, pty, job, victim, nested>>

RegisterNetwork(c) ==
    /\ pc[Client(c)] = "reg_network"
    /\ network' = network \cup {Owner[c]}
    /\ Goto(Client(c), "recv")
    /\ UNCHANGED <<operator, peer, registered, metadata, readers, world, pty, job, victim, nested>>

\* "already has serial reader", or construct one and start it: SerialReader.start
\* opens the port and starts the thread before the reader is in the table.
\* If the PTY does not open, start runs on_error, which cleans the node up.
StartReader(c) ==
    /\ pc[Client(c)] = "reg_reader"
    /\ \/ /\ readers[Owner[c]] # None
          /\ Goto(Client(c), "recv")
          /\ UNCHANGED <<pty, nested>>
       \/ /\ readers[Owner[c]] = None
          /\ port' = [port EXCEPT ![c] = "open"]
          /\ reading' = reading \cup {c}
          /\ pc' = [pc EXCEPT ![Client(c)] = "reg_insert", ![Reader(c)] = "read"]
          /\ UNCHANGED nested
       \/ /\ readers[Owner[c]] = None
          /\ setting.ptyFails
          /\ nested' = nested \cup {c}
          /\ Goto(Client(c), "clean")
          /\ UNCHANGED pty
    /\ UNCHANGED <<operator, peer, registered, tables, world, job, victim>>

InsertReader(c) ==
    /\ pc[Client(c)] = "reg_insert"
    /\ readers' = [readers EXCEPT ![Owner[c]] = c]
    /\ Goto(Client(c), "recv")
    /\ UNCHANGED <<operator, peer, registered, metadata, network, world, pty, job, victim, nested>>

--------------------------------------------------------------------------------
(* Clean-up (_cleanup_node), in whichever thread runs it.  Each "if node_id in *)
(* table" is one step and the statement it guards another.                    *)

\* An entry that was there when tested has gone: KeyError.  _handle_client catches
\* what comes out of a registration; nothing catches it at the end of a thread.
KeyErrorIn(th) ==
    /\ Goto(th, IF th[1] \in nested THEN "clean" ELSE "dead")
    /\ nested' = nested \ {th[1]}

CleanReaderUntested(th) ==    \* mutant: "if node_id in serial_readers" is dropped
    /\ pc[th] = "clean"
    /\ Goto(th, "clean_stop")
    /\ UNCHANGED <<operator, peer, registered, tables, world, pty, job, victim, nested>>
JoinFirst(th) ==              \* mutant: stop() joins before anything else
    /\ pc[th] = "clean"
    /\ Goto(th, IF readers[Self(th)] = None THEN "clean_network" ELSE "clean_join")
    /\ UNCHANGED <<operator, peer, registered, tables, world, pty, job, victim, nested>>
CleanReader(th) ==
    /\ pc[th] = "clean"
    /\ Goto(th, IF readers[Self(th)] = None THEN "clean_network" ELSE "clean_stop")
    /\ UNCHANGED <<operator, peer, registered, tables, world, pty, job, victim, nested>>

\* SerialReader.stop: running = False; then thread.join(timeout=2.0), and then
\* port.close().  Joining the current thread raises RuntimeError.
CleanStop(th) ==
    LET r == readers[Self(th)] IN
    /\ pc[th] = "clean_stop"
    /\ IF r = None
       THEN KeyErrorIn(th) /\ UNCHANGED <<reading, victim>>
       ELSE /\ reading' = reading \ {r}
            /\ victim' = [victim EXCEPT ![th] = r]
            /\ Goto(th, "clean_join")
            /\ UNCHANGED nested
    /\ UNCHANGED <<operator, peer, registered, tables, world, port, job>>

CleanJoin(th) ==
    LET r == victim[th] IN
    /\ pc[th] = "clean_join"
    /\ IF th = Reader(r)
       THEN Goto(th, "dead") /\ UNCHANGED port
       ELSE /\ Joined(r)
            /\ port' = Closed(r)
            /\ Goto(th, "clean_delete")
    /\ UNCHANGED <<operator, peer, registered, tables, world, reading, job, victim, nested>>

\* del self.serial_readers[node_id].
CleanDelete(th) ==
    /\ pc[th] = "clean_delete"
    /\ IF readers[Self(th)] = None
       THEN KeyErrorIn(th) /\ UNCHANGED readers
       ELSE /\ readers' = Without(readers, Self(th))
            /\ Goto(th, "clean_network")
            /\ UNCHANGED nested
    /\ victim' = [victim EXCEPT ![th] = None]
    /\ UNCHANGED <<operator, peer, registered, metadata, network, world, pty, job>>

CleanNetwork(th) ==
    /\ \/ /\ pc[th] = "clean_network"
          /\ Goto(th, IF Self(th) \in network THEN "clean_remove" ELSE "clean_metadata")
          /\ UNCHANGED <<network, nested>>
       \/ /\ pc[th] = "clean_remove"
          /\ IF Self(th) \notin network
             THEN KeyErrorIn(th) /\ UNCHANGED network
             ELSE /\ network' = network \ {Self(th)}
                  /\ Goto(th, "clean_metadata")
                  /\ UNCHANGED nested
    /\ UNCHANGED <<operator, peer, registered, metadata, readers, world, pty, job, victim>>

\* The last statement; then the thread goes on after the call.
Cleaned(th) == IF th[2] = "reader" THEN "dead" ELSE IF th[1] \in nested THEN "recv" ELSE "close"

CleanMetadata(th) ==
    /\ \/ /\ pc[th] = "clean_metadata"
          /\ IF metadata[Self(th)] # None
             THEN Goto(th, "clean_forget") /\ UNCHANGED nested
             ELSE Goto(th, Cleaned(th)) /\ nested' = nested \ {th[1]}
          /\ UNCHANGED metadata
       \/ /\ pc[th] = "clean_forget"
          /\ IF metadata[Self(th)] = None
             THEN KeyErrorIn(th) /\ UNCHANGED metadata
             ELSE /\ metadata' = Without(metadata, Self(th))
                  /\ Goto(th, Cleaned(th))
                  /\ nested' = nested \ {th[1]}
    /\ UNCHANGED <<operator, peer, registered, readers, network, world, pty, job, victim>>

Cleanup(th) == \/ CleanReader(th) \/ CleanStop(th) \/ CleanJoin(th) \/ CleanDelete(th)
               \/ CleanNetwork(th) \/ CleanMetadata(th)

\* The client thread finds the connection closed or the backend stopped.
EndOfOpenClient(c) ==    \* mutant: the loop does not look at running
    /\ pc[Client(c)] = "recv"
    /\ peer[c] = "gone"
    /\ Goto(Client(c), IF c \in registered THEN "clean" ELSE "close")
    /\ UNCHANGED <<operator, peer, registered, tables, world, pty, job, victim, nested>>
EndOfClient(c) ==
    /\ pc[Client(c)] = "recv"
    /\ peer[c] = "gone" \/ ~running
    /\ Goto(Client(c), IF c \in registered THEN "clean" ELSE "close")
    /\ UNCHANGED <<operator, peer, registered, tables, world, pty, job, victim, nested>>

CloseSocket(c) ==
    /\ pc[Client(c)] = "close"
    /\ Goto(Client(c), "done")
    /\ peer' = [peer EXCEPT ![c] = "gone"]
    /\ UNCHANGED <<operator, registered, tables, world, pty, job, victim, nested>>

--------------------------------------------------------------------------------
(* The reader thread (SerialReader._read_loop).                               *)

\* The loop ends when stop() cleared running.
EndOfReader(c) ==
    /\ pc[Reader(c)] = "read"
    /\ c \notin reading
    /\ Goto(Reader(c), "dead")
    /\ UNCHANGED <<operator, peer, registered, tables, world, pty, job, victim, nested>>

\* SerialException just ends the loop; OSError calls on_error, hence _cleanup_node,
\* on the reader's own thread.  The port that stop() closed is not read again:
\* a reader that was busy then finds running cleared first.
ReadFails(c) ==
    /\ pc[Reader(c)] = "read"
    /\ port[c] = "open"
    /\ \/ "SerialException" \in setting.ioErrors /\ Goto(Reader(c), "dead")
       \/ "OSError" \in setting.ioErrors /\ Goto(Reader(c), "clean")
    /\ UNCHANGED <<operator, peer, registered, tables, world, pty, job, victim, nested>>

--------------------------------------------------------------------------------
(* Brokering a command (_broker_message, send_message).                        *)

\* A thread hands a message to send_message.
Sending(th, j) == job' = [job EXCEPT ![th] = j] /\ Goto(th, "send")
Finish(th) == job' = [job EXCEPT ![th] = NoJob] /\ Goto(th, Idle(th))
Abort(th) == job' = [job EXCEPT ![th] = NoJob] /\ Goto(th, Raised(th))

\* A network node's command arrives on its connection, a serial node's on its PTY.
\* What a thread has buffered it brokers also after stop() cleared its flag and
\* after the peer has closed.
HasInput(th) ==
    /\ pc[th] = Idle(th)
    /\ th[2] = "client" => th[1] \in registered /\ Mode[th[1]] = "network"

\* Every command starts by answering its sender, except a test request for an
\* unknown node, which is ignored, and a broadcast whose payload the position
\* codec rejects, whose ValueError ends the thread's loop before the ack.
Receive(th, op, target) ==
    LET n == Self(th)
        msg == IF op # "quality" THEN op
               ELSE IF n \in heard THEN "quality" ELSE "rejected"
    IN
    /\ HasInput(th)
    /\ IF op = "malformed"
       THEN Abort(th)
       ELSE IF op = "test" /\ target \notin known
       THEN Finish(th)
       ELSE Sending(th, [op |-> op, msg |-> msg, to |-> n, todo |-> {},
                         target |-> IF op \in {"ping", "test"} THEN target ELSE None])
    /\ heard' = IF op = "quality" THEN heard \ {n} ELSE heard
    /\ UNCHANGED <<operator, peer, registered, tables, known, placed, pty, victim, nested>>

\* The loop over the listeners; nodes without a position do not hear a broadcast
\* but do hear a test message.  The code takes them in sorted order, the model
\* in any.
RelayNext(th, todo) ==
    LET j == job[th]
        hearing == IF j.op = "broadcast" THEN todo \cap placed ELSE todo
    IN
    IF hearing = {}
    THEN Finish(th)
    ELSE \E n \in hearing :
            Sending(th, [j EXCEPT !.msg = "relay", !.to = n, !.todo = todo \ {n}])

\* What the broker does after send_message has returned.
Continue(th) ==
    LET j == job[th]
        n == Self(th)
    IN
    /\ heard' = IF j.op = "test" /\ j.msg = "relay" THEN heard \cup {j.to} ELSE heard
    /\ CASE j.op \in {"status", "quality"} \/ j.msg = "range" -> Finish(th)
         [] j.msg = "relay" -> RelayNext(th, j.todo)
         [] j.msg = "broadcast" -> IF n \in placed THEN RelayNext(th, known \ {n})
                                                  ELSE Finish(th)
         [] j.msg = "test" -> RelayNext(th, known \ {j.target})
         [] j.msg = "ping" -> IF {n, j.target} \subseteq placed
                              THEN Sending(th, [j EXCEPT !.msg = "range"])
                              ELSE Finish(th)

\* send_message looks the target up first ...
Route(th) ==
    LET to == job[th].to IN
    /\ pc[th] = "send"
    /\ IF readers[to] # None
       THEN Goto(th, "serial_write") /\ UNCHANGED <<job, heard>>
       ELSE IF to \in network /\ metadata[to] # None
       THEN Goto(th, "socket_write") /\ UNCHANGED <<job, heard>>
       ELSE Continue(th)
    /\ UNCHANGED <<operator, peer, registered, tables, known, placed, pty, victim, nested>>

\* ... and indexes the table again to write: a KeyError if the entry has gone
\* in between, a SerialException if the port has been closed.
SerialWrite(th) ==
    LET r == readers[job[th].to] IN
    /\ pc[th] = "serial_write"
    /\ IF r # None /\ port[r] # "closed"
       THEN Continue(th)
       ELSE Abort(th) /\ UNCHANGED heard
    /\ UNCHANGED <<operator, peer, registered, tables, known, placed, pty, victim, nested>>

\* A failure of sendall itself is caught and logged.
SocketWrite(th) ==
    /\ pc[th] = "socket_write"
    /\ IF metadata[job[th].to] # None
       THEN Continue(th)
       ELSE Abort(th) /\ UNCHANGED heard
    /\ UNCHANGED <<operator, peer, registered, tables, known, placed, pty, victim, nested>>

--------------------------------------------------------------------------------
ClientStep(c) ==
    \/ Register(c) \/ RegisterNetwork(c) \/ StartReader(c) \/ InsertReader(c)
    \/ EndOfClient(c) \/ CloseSocket(c)

Progress(th) == Cleanup(th) \/ Route(th) \/ SerialWrite(th) \/ SocketWrite(th)

Next ==
    \/ \E c \in Conn : \/ Accept(c) \/ Disconnect(c)
                       \/ ClientStep(c)
                       \/ EndOfReader(c) \/ ReadFails(c)
    \/ \E n \in Node : Place(n)
    \/ StopBegin \/ StopSockets \/ \E r \in Conn : StopReader(r)
    \/ \E th \in Thread : Progress(th)
    \/ \E th \in Thread, op \in setting.ops, target \in Node : Receive(th, op, target)

Spec == Init /\ [][Next]_vars

\* Threads that can run do run.  A client is not obliged to register, to send
\* commands or to disconnect, and no read has to fail.  Buffers are finite: a thread
\* cannot broker for ever instead of finding that it has been stopped, or its peer gone.
FairSpec ==
    /\ Spec
    /\ \A c \in Conn : /\ SF_vars(ClientStep(c) /\ ~Register(c))
                       /\ SF_vars(EndOfReader(c))
                       /\ WF_vars(StopReader(c))
    /\ \A th \in Thread : WF_vars(Progress(th))
    /\ WF_vars(StopSockets)

--------------------------------------------------------------------------------
(* Properties.                                                                *)

Labels == {"off", "recv", "reg_network", "reg_reader", "reg_insert",
           "clean", "clean_stop", "clean_join", "clean_delete", "clean_network",
           "clean_remove", "clean_metadata", "clean_forget", "close", "done",
           "read", "send", "serial_write", "socket_write", "dead"}

Job == [op : Commands \cup {"none"},
        msg : Commands \cup {"rejected", "relay", "range", "none"},
        to : Node \cup {None}, target : Node \cup {None}, todo : SUBSET Node]

\* Every table maps nodes to connections, every thread is at a known point.
TypeOK ==
    /\ setting \in Settings
    /\ running \in BOOLEAN
    /\ main \in {"up", "readers", "down"}
    /\ halting \subseteq Conn
    /\ peer \in [Conn -> {"new", "open", "gone"}]
    /\ registered \subseteq Conn
    /\ metadata \in [Node -> MaybeConn]
    /\ readers \in [Node -> MaybeConn]
    /\ {network, known, placed, heard} \subseteq SUBSET Node
    /\ reading \subseteq Conn
    /\ port \in [Conn -> {"none", "open", "closed"}]
    /\ pc \in [Thread -> Labels]
    /\ job \in [Thread -> Job]
    /\ victim \in [Thread -> MaybeConn]
    /\ nested \subseteq Conn
    /\ \A th \in Thread :
        /\ pc[th] = "clean_join" => victim[th] \in Conn
        /\ pc[th] \in Brokering => job[th].to \in Node

Serving(c) == c \in registered /\ pc[Client(c)] \in {"recv"} \cup Brokering

\* Connections of a node do not overlap and no read fails.
Orderly == setting.exclusive /\ setting.ioErrors = {}

\* Messages for the node find its socket and its own acoustic transport.
Routable(c) ==
    /\ metadata[Owner[c]] = c
    /\ Mode[c] = "network" => Owner[c] \in network
    /\ Mode[c] = "serial" => readers[Owner[c]] = c /\ port[c] = "open"

\* Its PTY did not open, and nothing of its registration is left in the tables.
Refused(c) ==
    /\ setting.ptyFails /\ Mode[c] = "serial" /\ port[c] = "none"
    /\ metadata[Owner[c]] = None /\ readers[Owner[c]] = None

\* In orderly use a registration is all or nothing: a node whose client thread is
\* serving it can be reached, or its PTY did not open and it is in no table, whatever
\* the other nodes' threads register and clean up meanwhile (backends.py:333-387).
ServedIsRoutable ==
    \A c \in Conn : Orderly /\ Serving(c) /\ running => Routable(c) \/ Refused(c)

\* In orderly use, when a client thread has ended nothing of its connection is left:
\* no table entry, no reader told to run, no open PTY (backends.py:327-331, 375-387).
EndedIsReleased ==
    \A c \in Conn :
        Orderly /\ pc[Client(c)] = "done" =>
            /\ metadata[Owner[c]] # c
            /\ readers[Owner[c]] # c
            /\ c \notin reading
            /\ port[c] # "open"

\* In orderly use a client thread does not die half-way through its clean-up of an
\* exception nobody catches (backends.py:375-385).
NoClientDies == Orderly => \A c \in Conn : pc[Client(c)] # "dead"

\* Also when connections of one node overlap and PTYs fail: a reader whose PTY is
\* closed is in the routing table only while a thread is about to take it out
\* (backends.py:375-387).
NoClosedReaderRouted ==
    \A n \in Node :
        readers[n] # None /\ port[readers[n]] = "closed" /\ main = "up" =>
            \E th \in Thread : pc[th] = "clean_delete" /\ victim[th] = readers[n]

\* A client that goes away is cleaned up and its socket closed, however long the
\* reader to be joined is busy (backends.py:86-92, 285-331).
DepartedIsReleased ==
    \A c \in Conn : peer[c] = "gone" ~> pc[Client(c)] = "done"

\* After stop() every thread ends, also one that was registering when stop() went
\* through the tables (backends.py:198-212).
StopEndsThreads ==
    ~running ~> \A th \in Thread : pc[th] \in {"off", "done", "dead"}

\* backends.py:376, the docstring of _cleanup_node, "Clean up resources for a
\* disconnected node.": a node with a registered open connection is not cleaned up.
CleanupOnlyIfDisconnected ==
    [][\A n \in Node :
          metadata[n] # None /\ metadata'[n] = None /\ running =>
             \A c \in registered : Owner[c] = n => peer[c] # "open"]_vars

\* backends.py:87, the docstring of SerialReader.stop, "Stop the reader thread and
\* close the PTY.": a reader that is being stopped has its PTY closed.
StoppedReaderIsClosed ==
    \A c \in Conn, th \in Thread :
        (pc[th] = "clean_join" /\ victim[th] = c) ~> port[c] = "closed"

================================================================================
