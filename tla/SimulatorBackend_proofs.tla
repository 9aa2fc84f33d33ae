------------------------ MODULE SimulatorBackend_proofs ------------------------
(***************************************************************************)
(* Theorems about SimulatorBackend, for any numbers of nodes and           *)
(* connections and whatever the backend is exposed to.                     *)
(*                                                                         *)
(* The tables are shared without a lock.  What makes them right in orderly *)
(* use is that a node's entries are touched by one thread only, that of    *)
(* its one connection; and a closed reader is on its way out of the tables *)
(* because a reader that is about to be put there has never been there.    *)
(***************************************************************************)
EXTENDS SimulatorBackend, TLAPS

CleanLabels == {"clean", "clean_stop", "clean_join", "clean_delete", "clean_network",
                "clean_remove", "clean_metadata", "clean_forget"}

--------------------------------------------------------------------------------
(* What holds whatever the backend is exposed to.                             *)

\* A command that is being brokered, its next message and whom that goes to.
ValidJob(j) ==
    /\ j \in Job /\ j.to \in Node
    /\ \/ j.op = "status" /\ j.msg = "status"
       \/ j.op = "quality" /\ j.msg \in {"quality", "rejected"}
       \/ j.op = "broadcast" /\ j.msg \in {"broadcast", "relay"}
       \/ j.op = "test" /\ j.msg \in {"test", "relay"}
       \/ j.op = "ping" /\ j.msg \in {"ping", "range"} /\ j.target \in Node
JobsValid == \A th \in Thread : pc[th] \in Brokering => ValidJob(job[th])

\* A reader is routed, and stopped, under the node that registered it.
ReadersOwned == \A n \in Node : readers[n] # None => Owner[readers[n]] = n

Stopping(th) == pc[th] \in {"clean_join", "clean_delete"}
VictimsOwned ==
    \A th \in Thread : Stopping(th) => victim[th] \in Conn /\ Owner[victim[th]] = Self(th)

\* A reader that is not yet in the table is unknown to all that stop readers.
Registering == {"reg_network", "reg_reader", "reg_insert"}
NotInserted(c) == c \notin registered \/ pc[Client(c)] \in Registering
NewReadersUnknown ==
    \A c \in Conn : NotInserted(c) =>
        /\ c \notin halting
        /\ \A n \in Node : readers[n] # c
        /\ \A th \in Thread : Stopping(th) => victim[th] # c
        /\ IF pc[Client(c)] = "reg_insert"
           THEN port[c] = "open"
           ELSE port[c] = "none" /\ pc[Reader(c)] = "off"

\* A thread that fills in the tables has registered.
RegisteredFirst == \A c \in Conn : pc[Client(c)] \in Registering => c \in registered

\* A connection not yet made has no thread and no registration.
NewIsOff == \A c \in Conn : peer[c] = "new" => pc[Client(c)] = "off" /\ c \notin registered

StopClearsRunning == main # "up" => ~running

GeneralInv ==
    /\ TypeOK /\ JobsValid /\ ReadersOwned /\ VictimsOwned
    /\ NewReadersUnknown /\ RegisteredFirst /\ NewIsOff /\ StopClearsRunning

--------------------------------------------------------------------------------
(* What holds in orderly use.                                                 *)

Active(c) == pc[Client(c)] \notin {"off", "done"}
OneActive ==
    \A c, d \in Conn : Active(c) /\ Active(d) /\ Owner[c] = Owner[d] => c = d

OnlyClientsClean == \A c \in Conn : pc[Reader(c)] \notin CleanLabels

MetadataOwned == \A n \in Node : metadata[n] # None => Owner[metadata[n]] = n

\* A clean-up finds the entries that it has seen.
FindsItsEntries(c) ==
    /\ pc[Client(c)] \in {"clean_stop", "clean_join", "clean_delete"} => readers[Owner[c]] = c
    /\ Stopping(Client(c)) => victim[Client(c)] = c
    /\ pc[Client(c)] = "clean_remove" => Owner[c] \in network
    /\ pc[Client(c)] = "clean_forget" => metadata[Owner[c]] = c
    /\ pc[Client(c)] # "dead"

\* What is in the tables, and a PTY that is open, belongs to a thread that has still to
\* take it out.
InUse == {"recv", "clean", "clean_stop", "clean_join", "clean_delete"} \cup Brokering
TakesOutItsEntries(c) ==
    /\ readers[Owner[c]] = c => pc[Client(c)] \in InUse
    /\ metadata[Owner[c]] = c =>
          c \in registered /\ pc[Client(c)] \notin {"off", "close", "done"}
    /\ port[c] = "open" =>
          \/ pc[Client(c)] = "reg_insert"
          \/ readers[Owner[c]] = c /\ pc[Client(c)] \in InUse \ {"clean_delete"}
    /\ c \in reading =>
          \/ pc[Client(c)] = "reg_insert"
          \/ readers[Owner[c]] = c /\ pc[Client(c)] \in InUse \ {"clean_join", "clean_delete"}

OwnsItsEntries(c) == FindsItsEntries(c) /\ TakesOutItsEntries(c)

OrderlyInv ==
    Orderly =>
        OneActive /\ OnlyClientsClean /\ MetadataOwned /\ \A c \in Conn : OwnsItsEntries(c)

\* A registration that is being taken back because its PTY did not open has made no
\* reader.
TakesBack(c) ==
    /\ c \in registered /\ pc[Client(c)] \in CleanLabels
    /\ setting.ptyFails /\ Mode[c] = "serial" /\ readers[Owner[c]] = None
    /\ running => port[c] = "none"

\* In orderly use a client's entries are there as soon as its registration has come past
\* them, or they have all been taken back.
HasItsEntries(c) ==
    /\ c \in nested => TakesBack(c)
    /\ c \in registered =>
        /\ pc[Client(c)] \in Registering => metadata[Owner[c]] = c
        /\ Mode[c] = "network" => pc[Client(c)] \notin {"reg_reader", "reg_insert"}
        /\ Mode[c] = "serial" => pc[Client(c)] # "reg_network"
        /\ pc[Client(c)] \in {"recv"} \cup Brokering /\ running => Routable(c) \/ Refused(c)

ServedInv == Orderly => \A c \in Conn : HasItsEntries(c)

IInv == GeneralInv /\ NoClosedReaderRouted /\ OrderlyInv /\ ServedInv

--------------------------------------------------------------------------------
(* Threads and their labels.                                                  *)

\* Every thread is the client or the reader thread of one connection.
LEMMA Threads ==
    /\ \A c \in Conn : /\ Client(c) \in Thread /\ Reader(c) \in Thread /\ Owner[c] \in Node
                       /\ Self(Client(c)) = Owner[c] /\ Self(Reader(c)) = Owner[c]
                       /\ Idle(Client(c)) = "recv" /\ Idle(Reader(c)) = "read"
                       /\ Raised(Client(c)) = "clean" /\ Raised(Reader(c)) = "dead"
                       /\ Client(c)[1] = c /\ Reader(c)[1] = c
                       /\ Client(c)[2] = "client" /\ Reader(c)[2] = "reader"
    /\ \A c, d : Client(c) # Reader(d)
    /\ \A c, d : Client(c) = Client(d) => c = d
    /\ \A c, d : Reader(c) = Reader(d) => c = d
    /\ \A th \in Thread : /\ \E c \in Conn : th = Client(c) \/ th = Reader(c)
                          /\ th[1] \in Conn /\ Self(th) \in Node
                          /\ Idle(th) \in {"recv", "read"} /\ Raised(th) \in {"clean", "dead"}
  BY ConstantsAssumption DEF Thread, Client, Reader, Self, Idle, Raised

\* Only the thread that moves is at another label.
LEMMA Moves ==
    ASSUME pc \in [Thread -> Labels], NEW th \in Thread, NEW l \in Labels, Goto(th, l)
    PROVE  /\ pc' \in [Thread -> Labels] /\ pc'[th] = l
           /\ \A u \in Thread : u # th => pc'[u] = pc[u]
  BY DEF Goto

--------------------------------------------------------------------------------
(* Brokering.                                                                 *)

\* A thread that brokers goes on to its next message, ends the command, or is
\* thrown out of its loop.
Brokered(th) ==
    \/ Finish(th) \/ Abort(th)
    \/ \E j : ValidJob(j) /\ Sending(th, j)

\* The next message of a valid job is valid, and every job has a next step.
LEMMA ContinueBrokers ==
    ASSUME TypeOK, NEW th \in Thread, ValidJob(job[th]), Continue(th)
    PROVE  Brokered(th) /\ heard' \subseteq Node
<1>. DEFINE j == job[th]
<1>1. /\ j \in Job /\ j.to \in Node /\ j.todo \subseteq Node /\ Self(th) \in Node
      /\ known \subseteq Node /\ heard \subseteq Node
  BY Threads DEF ValidJob, Job, TypeOK
<1>2. heard' \subseteq Node
  BY <1>1 DEF Continue
<1>. SUFFICES Brokered(th)
  BY <1>2
<1>3. ASSUME NEW todo \in SUBSET Node, RelayNext(th, todo), j.op \in {"broadcast", "test"}
      PROVE  Brokered(th)
  <2>1. CASE Finish(th)
    BY <2>1 DEF Brokered
  <2>2. CASE ~Finish(th)
    <3>1. PICK n \in todo :
            Sending(th, [j EXCEPT !.msg = "relay", !.to = n, !.todo = todo \ {n}])
      BY <1>3, <2>2 DEF RelayNext
    <3>2. ValidJob([j EXCEPT !.msg = "relay", !.to = n, !.todo = todo \ {n}])
      BY <1>1, <1>3, <3>1 DEF ValidJob, Job
    <3>. QED  BY <3>1, <3>2 DEF Brokered
  <2>. QED  BY <2>1, <2>2
<1>4. CASE j.op \in {"status", "quality"} \/ j.msg = "range"
  <2>1. Finish(th)
    BY <1>4 DEF Continue, ValidJob
  <2>. QED  BY <2>1 DEF Brokered
<1>5. CASE j.op = "broadcast"
  <2>1. \/ j.msg = "relay" /\ RelayNext(th, j.todo)
        \/ j.msg = "broadcast" /\ (RelayNext(th, known \ {Self(th)}) \/ Finish(th))
    BY <1>5 DEF Continue, ValidJob
  <2>. QED  BY <1>1, <1>3, <1>5, <2>1 DEF Brokered
<1>6. CASE j.op = "test"
  <2>1. \/ j.msg = "relay" /\ RelayNext(th, j.todo)
        \/ j.msg = "test" /\ RelayNext(th, known \ {j.target})
    BY <1>6 DEF Continue, ValidJob
  <2>. QED  BY <1>1, <1>3, <1>6, <2>1
<1>7. CASE j.op = "ping" /\ j.msg = "ping"
  <2>1. Finish(th) \/ Sending(th, [j EXCEPT !.msg = "range"])
    BY <1>7 DEF Continue
  <2>2. ValidJob([j EXCEPT !.msg = "range"])
    BY <1>1, <1>7 DEF ValidJob, Job
  <2>. QED  BY <2>1, <2>2 DEF Brokered
<1>8. j.op \in {"status", "quality", "broadcast", "test", "ping"} /\ (j.op = "ping" => j.msg \in {"ping", "range"})
  BY DEF ValidJob
<1>. QED  BY <1>4, <1>5, <1>6, <1>7, <1>8

\* What brokering does to a thread's label; the tables it only reads.
BrokerStep(th) ==
    /\ UNCHANGED <<operator, peer, registered, tables, known, placed, pty, victim, nested>>
    /\ heard' \subseteq Node
    /\ pc[th] \in Brokering \/ HasInput(th)
    /\ \/ Brokered(th)
       \/ /\ pc[th] = "send" /\ UNCHANGED job
          /\ \E l \in {"serial_write", "socket_write"} : Goto(th, l)

\* Receiving a command and routing its messages are such steps.
LEMMA BrokeringIs ==
    ASSUME TypeOK, JobsValid, NEW th \in Thread,
           \/ Route(th) \/ SerialWrite(th) \/ SocketWrite(th)
           \/ \E op \in setting.ops, target \in Node : Receive(th, op, target)
    PROVE  BrokerStep(th)
<1>1. pc[th] \in Brokering => ValidJob(job[th])
  BY DEF JobsValid
<1>2. heard \subseteq Node /\ setting.ops \subseteq Commands /\ Self(th) \in Node
  BY ConstantsAssumption, Threads DEF TypeOK
<1>3. CASE Route(th)
  BY <1>1, <1>2, <1>3, ContinueBrokers DEF Route, BrokerStep, Brokering
<1>4. CASE SerialWrite(th)
  BY <1>1, <1>2, <1>4, ContinueBrokers DEF SerialWrite, BrokerStep, Brokering, Brokered
<1>5. CASE SocketWrite(th)
  BY <1>1, <1>2, <1>5, ContinueBrokers DEF SocketWrite, BrokerStep, Brokering, Brokered
<1>6. ASSUME NEW op \in setting.ops, NEW target \in Node, Receive(th, op, target)
      PROVE  BrokerStep(th)
  <2>1. /\ UNCHANGED <<operator, peer, registered, tables, known, placed, pty, victim, nested>>
        /\ heard' \subseteq Node /\ HasInput(th)
    BY <1>2, <1>6 DEF Receive
  <2>2. CASE op = "malformed" \/ (op = "test" /\ target \notin known)
    BY <1>6, <2>1, <2>2 DEF Receive, BrokerStep, Brokered
  <2>3. CASE ~(op = "malformed" \/ (op = "test" /\ target \notin known))
    <3>1. PICK msg \in {op, "quality", "rejected"} :
            /\ op # "quality" => msg = op
            /\ Sending(th, [op |-> op, msg |-> msg, to |-> Self(th), todo |-> {},
                            target |-> IF op \in {"ping", "test"} THEN target ELSE None])
      BY <1>6, <2>3 DEF Receive
    <3>2. ValidJob([op |-> op, msg |-> msg, to |-> Self(th), todo |-> {},
                    target |-> IF op \in {"ping", "test"} THEN target ELSE None])
      BY <1>2, <2>3, <3>1 DEF ValidJob, Job, Commands
    <3>. QED  BY <2>1, <3>1, <3>2 DEF BrokerStep, Brokered
  <2>. QED  BY <2>2, <2>3
<1>. QED  BY <1>3, <1>4, <1>5, <1>6
--------------------------------------------------------------------------------
(* Types.                                                                     *)

\* The types of what the threads do, and of what they share.
ThreadInv ==
    /\ pc \in [Thread -> Labels] /\ job \in [Thread -> Job]
    /\ victim \in [Thread -> MaybeConn]
    /\ JobsValid /\ VictimsOwned

SharedTypes ==
    /\ setting \in Settings /\ running \in BOOLEAN /\ main \in {"up", "readers", "down"}
    /\ halting \subseteq Conn
    /\ peer \in [Conn -> {"new", "open", "gone"}]
    /\ registered \subseteq Conn
    /\ metadata \in [Node -> MaybeConn] /\ readers \in [Node -> MaybeConn]
    /\ network \subseteq Node /\ known \subseteq Node /\ placed \subseteq Node
    /\ heard \subseteq Node
    /\ reading \subseteq Conn /\ port \in [Conn -> {"none", "open", "closed"}]
    /\ nested \subseteq Conn

LEMMA TypeParts == TypeOK /\ JobsValid /\ VictimsOwned <=> ThreadInv /\ SharedTypes
  BY DEF TypeOK, ThreadInv, SharedTypes, JobsValid, VictimsOwned, ValidJob, Stopping

\* A thread that moves to a label where it does not broker.
LEMMA ThreadMoves ==
    ASSUME ThreadInv, NEW th \in Thread, NEW l \in Labels \ Brokering, Goto(th, l),
           UNCHANGED job, victim' \in [Thread -> MaybeConn],
           \A u \in Thread : u # th => victim'[u] = victim[u],
           l \in {"clean_join", "clean_delete"}
              => victim'[th] \in Conn /\ Owner[victim'[th]] = Self(th)
    PROVE  ThreadInv'
<1>1. /\ pc' \in [Thread -> Labels] /\ pc'[th] = l
      /\ \A u \in Thread : u # th => pc'[u] = pc[u]
  BY Moves DEF ThreadInv
<1>2. JobsValid'
  BY <1>1 DEF ThreadInv, JobsValid
<1>3. VictimsOwned'
  BY <1>1 DEF ThreadInv, VictimsOwned, Stopping, Self
<1>. QED  BY <1>1, <1>2, <1>3 DEF ThreadInv

\* A thread that brokers.
LEMMA ThreadBrokers ==
    ASSUME ThreadInv, NEW th \in Thread, BrokerStep(th)
    PROVE  ThreadInv'
<1>1. UNCHANGED victim
  BY DEF BrokerStep
<1>2. NoJob \in Job
  BY DEF NoJob, Job
<1>3. ASSUME NEW j \in Job, NEW l \in Labels, Goto(th, l), job' = [job EXCEPT ![th] = j],
             l \in Brokering => ValidJob(j), l \notin {"clean_join", "clean_delete"}
      PROVE  ThreadInv'
  <2>1. /\ pc' \in [Thread -> Labels] /\ pc'[th] = l
        /\ \A u \in Thread : u # th => pc'[u] = pc[u]
    BY <1>3, Moves DEF ThreadInv
  <2>2. job' \in [Thread -> Job] /\ job'[th] = j /\ \A u \in Thread : u # th => job'[u] = job[u]
    BY <1>3 DEF ThreadInv
  <2>3. JobsValid'
    BY <1>3, <2>1, <2>2 DEF ThreadInv, JobsValid
  <2>4. VictimsOwned'
    BY <1>1, <1>3, <2>1 DEF ThreadInv, VictimsOwned, Stopping, Self
  <2>. QED  BY <1>1, <2>1, <2>2, <2>3, <2>4 DEF ThreadInv
<1>4. CASE Finish(th) \/ Abort(th)
  <2>1. Idle(th) \in Labels \ Brokering /\ Raised(th) \in Labels \ Brokering
        /\ {Idle(th), Raised(th)} \cap {"clean_join", "clean_delete"} = {}
    BY Threads DEF Labels, Brokering
  <2>. QED  BY <1>2, <1>3, <1>4, <2>1 DEF Finish, Abort
<1>5. ASSUME NEW j, ValidJob(j), Sending(th, j)  PROVE ThreadInv'
  <2>1. j \in Job /\ "send" \in Labels
    BY <1>5 DEF ValidJob, Labels
  <2>. QED  BY <1>3, <1>5, <2>1 DEF Sending
<1>6. ASSUME pc[th] = "send", UNCHANGED job,
             NEW l \in {"serial_write", "socket_write"}, Goto(th, l)
      PROVE  ThreadInv'
  <2>1. ValidJob(job[th]) /\ job' = [job EXCEPT ![th] = job[th]] /\ job[th] \in Job
    BY <1>6 DEF ThreadInv, JobsValid, Brokering
  <2>2. l \in Labels /\ l \notin {"clean_join", "clean_delete"}
    BY DEF Labels
  <2>. QED  BY <1>3, <1>6, <2>1, <2>2
<1>. QED  BY <1>4, <1>5, <1>6 DEF BrokerStep, Brokered

LEMMA TypeInit == Init => ThreadInv /\ SharedTypes /\ ReadersOwned
<1> SUFFICES ASSUME Init  PROVE ThreadInv /\ SharedTypes /\ ReadersOwned
  OBVIOUS
<1>1. ThreadInv
  BY DEF Init, ThreadInv, JobsValid, VictimsOwned, Stopping, Brokering, Labels, Job, NoJob,
         MaybeConn
<1>2. SharedTypes
  BY DEF Init, SharedTypes, MaybeConn
<1>3. ReadersOwned
  BY DEF Init, ReadersOwned
<1>. QED  BY <1>1, <1>2, <1>3

\* The steps of the environment and of stop() leave the threads where they are, but
\* for the one that the accept loop starts.
LEMMA TypeEnvironment ==
    ASSUME ThreadInv, SharedTypes, ReadersOwned,
           \/ \E c \in Conn : Accept(c) \/ Disconnect(c) \/ StopReader(c)
           \/ StopBegin \/ StopSockets \/ \E n \in Node : Place(n)
    PROVE  ThreadInv' /\ SharedTypes' /\ ReadersOwned'
<1>. USE DEF operator, tables, world, pty
<1>1. ASSUME UNCHANGED <<pc, job, victim>>  PROVE ThreadInv'
  BY <1>1 DEF ThreadInv, JobsValid, VictimsOwned, Stopping, Self
<1>2. ASSUME UNCHANGED readers  PROVE ReadersOwned'
  BY <1>2 DEF ReadersOwned
<1>3. ASSUME NEW c \in Conn, Accept(c)  PROVE ThreadInv' /\ SharedTypes' /\ ReadersOwned'
  <2>1. ThreadInv'
    <3>1. Client(c) \in Thread /\ "recv" \in Labels \ Brokering
      BY Threads DEF Labels, Brokering
    <3>. QED  BY <1>3, <3>1, ThreadMoves DEF Accept, ThreadInv
  <2>. QED  BY <1>2, <1>3, <2>1 DEF Accept, SharedTypes
<1>4. ASSUME NEW c \in Conn, Disconnect(c)  PROVE ThreadInv' /\ SharedTypes' /\ ReadersOwned'
  BY <1>1, <1>2, <1>4 DEF Disconnect, SharedTypes
<1>5. ASSUME NEW c \in Conn, StopReader(c)  PROVE ThreadInv' /\ SharedTypes' /\ ReadersOwned'
  BY <1>1, <1>2, <1>5 DEF StopReader, SharedTypes, Closed
<1>6. CASE StopBegin
  BY <1>1, <1>2, <1>6 DEF StopBegin, SharedTypes, MaybeConn
<1>7. CASE StopSockets
  BY <1>1, <1>2, <1>7 DEF StopSockets, SharedTypes
<1>8. ASSUME NEW n \in Node, Place(n)  PROVE ThreadInv' /\ SharedTypes' /\ ReadersOwned'
  BY <1>1, <1>2, <1>8 DEF Place, SharedTypes
<1>. QED  BY <1>3, <1>4, <1>5, <1>6, <1>7, <1>8

\* Registration, and the ends of the two threads.
LEMMA TypeConnection ==
    ASSUME ThreadInv, SharedTypes, ReadersOwned, NEW c \in Conn,
           ClientStep(c) \/ EndOfReader(c) \/ ReadFails(c)
    PROVE  ThreadInv' /\ SharedTypes' /\ ReadersOwned'
<1>. USE DEF operator, tables, world, pty
<1>0. /\ Client(c) \in Thread /\ Reader(c) \in Thread /\ Client(c) # Reader(c)
      /\ Owner[c] \in Node
  BY Threads
<1>1. /\ {"recv", "reg_network", "reg_reader", "reg_insert", "clean", "close", "done", "read",
          "dead"} \subseteq Labels \ Brokering
  BY DEF Labels, Brokering
<1>2. ASSUME UNCHANGED <<job, victim>>, NEW th \in {Client(c), Reader(c)},
             NEW l \in {"recv", "reg_network", "reg_reader", "reg_insert", "clean", "close",
                        "done", "read", "dead"},
             Goto(th, l)
      PROVE  ThreadInv'
  BY <1>0, <1>1, <1>2, ThreadMoves DEF ThreadInv
<1>3. ASSUME UNCHANGED readers  PROVE ReadersOwned'
  BY <1>3 DEF ReadersOwned
<1>4. CASE Register(c)
  <2>1. ThreadInv'
    BY <1>2, <1>4 DEF Register
  <2>2. metadata' \in [Node -> MaybeConn]
    BY <1>0, <1>4 DEF Register, SharedTypes, MaybeConn
  <2>. QED  BY <1>0, <1>3, <1>4, <2>1, <2>2 DEF Register, SharedTypes
<1>5. CASE RegisterNetwork(c)
  <2>1. ThreadInv'
    BY <1>2, <1>5 DEF RegisterNetwork
  <2>. QED  BY <1>0, <1>3, <1>5, <2>1 DEF RegisterNetwork, SharedTypes
<1>6. CASE StartReader(c)
  <2>1. ThreadInv'
    <3>1. CASE Goto(Client(c), "recv") \/ Goto(Client(c), "clean")
      BY <1>2, <1>6, <3>1 DEF StartReader
    <3>2. CASE pc' = [pc EXCEPT ![Client(c)] = "reg_insert", ![Reader(c)] = "read"]
      <4>1. pc' \in [Thread -> Labels]
        BY <1>0, <1>1, <3>2 DEF ThreadInv
      <4>2. /\ pc'[Client(c)] = "reg_insert" /\ pc'[Reader(c)] = "read"
            /\ \A u \in Thread : u # Client(c) /\ u # Reader(c) => pc'[u] = pc[u]
        BY <1>0, <3>2 DEF ThreadInv
      <4>3. UNCHANGED <<job, victim>>
        BY <1>6 DEF StartReader
      <4>4. JobsValid'
        BY <4>2, <4>3 DEF ThreadInv, JobsValid, Brokering
      <4>5. VictimsOwned'
        BY <4>2, <4>3 DEF ThreadInv, VictimsOwned, Stopping, Self
      <4>. QED  BY <4>1, <4>3, <4>4, <4>5 DEF ThreadInv
    <3>. QED  BY <1>6, <3>1, <3>2 DEF StartReader
  <2>. QED  BY <1>3, <1>6, <2>1 DEF StartReader, SharedTypes
<1>7. CASE InsertReader(c)
  <2>1. ThreadInv'
    BY <1>2, <1>7 DEF InsertReader
  <2>2. readers' \in [Node -> MaybeConn] /\ ReadersOwned'
    BY <1>0, <1>7 DEF InsertReader, SharedTypes, MaybeConn, ReadersOwned
  <2>. QED  BY <1>7, <2>1, <2>2 DEF InsertReader, SharedTypes
<1>8. CASE EndOfClient(c)
  <2>1. ThreadInv'
    BY <1>2, <1>8 DEF EndOfClient
  <2>. QED  BY <1>3, <1>8, <2>1 DEF EndOfClient, SharedTypes
<1>9. CASE CloseSocket(c)
  <2>1. ThreadInv'
    BY <1>2, <1>9 DEF CloseSocket
  <2>. QED  BY <1>3, <1>9, <2>1 DEF CloseSocket, SharedTypes
<1>10. CASE EndOfReader(c)
  <2>1. ThreadInv'
    BY <1>2, <1>10 DEF EndOfReader
  <2>. QED  BY <1>3, <1>10, <2>1 DEF EndOfReader, SharedTypes
<1>11. CASE ReadFails(c)
  <2>1. ThreadInv'
    BY <1>2, <1>11 DEF ReadFails
  <2>. QED  BY <1>3, <1>11, <2>1 DEF ReadFails, SharedTypes
<1>. QED  BY <1>4, <1>5, <1>6, <1>7, <1>8, <1>9, <1>10, <1>11 DEF ClientStep

\* The labels a clean-up goes through.
LEMMA CleanMoves ==
    ASSUME ThreadInv, NEW th \in Thread, UNCHANGED job,
           victim' = victim \/ victim' = [victim EXCEPT ![th] = None],
           NEW l \in CleanLabels \cup {"recv", "close", "dead"}, Goto(th, l),
           l \in {"clean_join", "clean_delete"} => victim' = victim /\ pc[th] = "clean_join"
    PROVE  ThreadInv'
<1>1. l \in Labels \ Brokering
  BY DEF CleanLabels, Labels, Brokering
<1>2. victim' \in [Thread -> MaybeConn] /\ \A u \in Thread : u # th => victim'[u] = victim[u]
  BY DEF ThreadInv, MaybeConn
<1>. QED  BY <1>1, <1>2, ThreadMoves DEF ThreadInv, VictimsOwned, Stopping

\* A clean-up only takes entries out, and stops the reader of its own node.
LEMMA TypeCleanup ==
    ASSUME ThreadInv, SharedTypes, ReadersOwned, NEW th \in Thread, Cleanup(th)
    PROVE  ThreadInv' /\ SharedTypes' /\ ReadersOwned'
<1>. USE DEF operator, tables, world, pty
<1>0. /\ CleanLabels \subseteq CleanLabels \cup {"recv", "close", "dead"}
      /\ Cleaned(th) \in {"recv", "close", "dead"}
      /\ Self(th) \in Node
  BY Threads DEF Cleaned
<1>1. ASSUME UNCHANGED readers  PROVE ReadersOwned'
  BY <1>1 DEF ReadersOwned
<1>2. CASE CleanReader(th)
  <2>1. ThreadInv'
    BY <1>2, CleanMoves DEF CleanReader, CleanLabels
  <2>. QED  BY <1>1, <1>2, <2>1 DEF CleanReader, SharedTypes
<1>3. CASE CleanStop(th)
  <2>. DEFINE r == readers[Self(th)]
  <2>1. CASE r = None
    <3>1. ThreadInv'
      BY <1>3, <2>1, CleanMoves DEF CleanStop, KeyErrorIn, CleanLabels
    <3>. QED  BY <1>1, <1>3, <2>1, <3>1 DEF CleanStop, KeyErrorIn, SharedTypes
  <2>2. CASE r # None
    <3>1. r \in Conn /\ Owner[r] = Self(th)
      BY <1>0, <2>2 DEF ReadersOwned, SharedTypes, MaybeConn
    <3>2. /\ victim' = [victim EXCEPT ![th] = r] /\ Goto(th, "clean_join")
          /\ UNCHANGED job
      BY <1>3, <2>2 DEF CleanStop
    <3>3. /\ victim' \in [Thread -> MaybeConn] /\ victim'[th] = r
          /\ \A u \in Thread : u # th => victim'[u] = victim[u]
      BY <3>1, <3>2 DEF ThreadInv, MaybeConn
    <3>4. "clean_join" \in Labels \ Brokering
      BY DEF Labels, Brokering
    <3>5. ThreadInv'
      BY <3>1, <3>2, <3>3, <3>4, ThreadMoves
    <3>. QED  BY <1>1, <1>3, <2>2, <3>5 DEF CleanStop, SharedTypes
  <2>. QED  BY <2>1, <2>2
<1>4. CASE CleanJoin(th)
  <2>1. ThreadInv'
    BY <1>4, CleanMoves DEF CleanJoin, CleanLabels
  <2>. QED  BY <1>1, <1>4, <2>1 DEF CleanJoin, SharedTypes, Closed
<1>5. CASE CleanDelete(th)
  <2>1. ThreadInv'
    BY <1>5, CleanMoves DEF CleanDelete, KeyErrorIn, CleanLabels
  <2>2. readers' \in [Node -> MaybeConn] /\ ReadersOwned'
    BY <1>0, <1>5 DEF CleanDelete, Without, SharedTypes, MaybeConn, ReadersOwned
  <2>3. nested' \subseteq Conn
    BY <1>5 DEF CleanDelete, KeyErrorIn, SharedTypes
  <2>. QED  BY <1>5, <2>1, <2>2, <2>3 DEF CleanDelete, SharedTypes
<1>6. CASE CleanNetwork(th)
  <2>1. ThreadInv'
    BY <1>6, CleanMoves DEF CleanNetwork, KeyErrorIn, CleanLabels
  <2>. QED  BY <1>1, <1>6, <2>1 DEF CleanNetwork, KeyErrorIn, SharedTypes
<1>7. CASE CleanMetadata(th)
  <2>1. ThreadInv'
    BY <1>0, <1>7, CleanMoves DEF CleanMetadata, KeyErrorIn, CleanLabels
  <2>2. metadata' \in [Node -> MaybeConn]
    BY <1>0, <1>7 DEF CleanMetadata, Without, SharedTypes, MaybeConn
  <2>. QED  BY <1>1, <1>7, <2>1, <2>2 DEF CleanMetadata, KeyErrorIn, SharedTypes
<1>. QED  BY <1>2, <1>3, <1>4, <1>5, <1>6, <1>7 DEF Cleanup

\* Every step keeps the types; a reader stays under the node that registered it.
LEMMA TypeStep ==
    ThreadInv /\ SharedTypes /\ ReadersOwned /\ [Next]_vars
       => ThreadInv' /\ SharedTypes' /\ ReadersOwned'
<1> SUFFICES ASSUME ThreadInv, SharedTypes, ReadersOwned, [Next]_vars
             PROVE  ThreadInv' /\ SharedTypes' /\ ReadersOwned'
  OBVIOUS
<1>1. ASSUME NEW th \in Thread, BrokerStep(th)
      PROVE  ThreadInv' /\ SharedTypes' /\ ReadersOwned'
  BY <1>1, ThreadBrokers
  DEF BrokerStep, SharedTypes, ReadersOwned, operator, tables, pty
<1>2. CASE UNCHANGED vars
  BY <1>2 DEF vars, operator, tables, world, pty, SharedTypes, ReadersOwned, ThreadInv,
              JobsValid, VictimsOwned, Stopping, Self
<1>3. ASSUME NEW th \in Thread,
             \/ Route(th) \/ SerialWrite(th) \/ SocketWrite(th)
             \/ \E op \in setting.ops, target \in Node : Receive(th, op, target)
      PROVE  BrokerStep(th)
  BY <1>3, BrokeringIs, TypeParts
<1>. QED  BY <1>1, <1>2, <1>3, TypeEnvironment, TypeConnection, TypeCleanup
     DEF Next, Progress

--------------------------------------------------------------------------------
(* What a step does to the labels.                                            *)

\* A client thread moves.
LEMMA ClientMoves ==
    ASSUME TypeOK, NEW c \in Conn, NEW l, Goto(Client(c), l)
    PROVE  /\ pc'[Client(c)] = l
           /\ \A d \in Conn : d # c => pc'[Client(d)] = pc[Client(d)]
           /\ \A d \in Conn : pc'[Reader(d)] = pc[Reader(d)]
           /\ \A th \in Thread : th # Client(c) => pc'[th] = pc[th]
  BY Threads DEF Goto, TypeOK

\* A reader thread moves.
LEMMA ReaderMoves ==
    ASSUME TypeOK, NEW c \in Conn, NEW l, Goto(Reader(c), l)
    PROVE  /\ pc'[Reader(c)] = l
           /\ \A d \in Conn : d # c => pc'[Reader(d)] = pc[Reader(d)]
           /\ \A d \in Conn : pc'[Client(d)] = pc[Client(d)]
           /\ \A th \in Thread : th # Reader(c) => pc'[th] = pc[th]
  BY Threads DEF Goto, TypeOK

\* A step of brokering takes a thread from its loop, or from a message, to its loop, to
\* a message, or out of its loop; all else that the invariants speak of stays.
LEMMA BrokerLabels ==
    ASSUME TypeOK, NEW th \in Thread, BrokerStep(th)
    PROVE  /\ pc[th] \in {Idle(th)} \cup Brokering
           /\ \E l \in {Idle(th), Raised(th)} \cup Brokering : Goto(th, l)
           /\ UNCHANGED <<setting, running, main, halting, peer, registered, metadata, readers,
                          network, reading, port, victim, nested>>
  BY DEF BrokerStep, Brokered, Finish, Abort, Sending, Brokering, HasInput,
         operator, tables, pty

\* So does it for the client threads and for the reader threads.
LEMMA BrokerMoves ==
    ASSUME TypeOK, NEW th \in Thread, BrokerStep(th)
    PROVE  /\ \A c \in Conn :
                 \/ pc'[Client(c)] = pc[Client(c)]
                 \/ /\ pc[Client(c)] \in {"recv"} \cup Brokering
                    /\ pc'[Client(c)] \in {"recv", "clean"} \cup Brokering
           /\ \A c \in Conn :
                 \/ pc'[Reader(c)] = pc[Reader(c)]
                 \/ pc'[Reader(c)] \in {"read", "dead"} \cup Brokering
           /\ \A u \in Thread :
                 \/ pc'[u] = pc[u]
                 \/ /\ pc[u] \in {"recv", "read"} \cup Brokering
                    /\ pc'[u] \in {"recv", "read", "clean", "dead"} \cup Brokering
<1>1. PICK l \in {Idle(th), Raised(th)} \cup Brokering : Goto(th, l)
  BY BrokerLabels
<1>2. pc[th] \in {Idle(th)} \cup Brokering
  BY BrokerLabels
<1>3. PICK c \in Conn : th = Client(c) \/ th = Reader(c)
  BY Threads
<1>4. CASE th = Client(c)
  BY <1>1, <1>2, <1>4, ClientMoves, Threads
<1>5. CASE th = Reader(c)
  BY <1>1, <1>2, <1>5, ReaderMoves, Threads
<1>. QED  BY <1>3, <1>4, <1>5

\* A thread that cleans up is at one of the labels of the clean-up.
LEMMA CleanupLabels ==
    ASSUME NEW th \in Thread, Cleanup(th)
    PROVE  pc[th] \in CleanLabels
  BY DEF Cleanup, CleanReader, CleanStop, CleanJoin, CleanDelete, CleanNetwork, CleanMetadata,
         CleanLabels

--------------------------------------------------------------------------------
(* Readers that are not in the table yet, and readers that are closed.        *)

FreshInv == NewReadersUnknown /\ RegisteredFirst /\ NewIsOff /\ StopClearsRunning

\* Nothing that cleans up or stops knows a reader before it is in the table, so that
\* nobody has closed it when it gets there.
LEMMA FreshConnection ==
    ASSUME GeneralInv, NoClosedReaderRouted, NEW c \in Conn,
           ClientStep(c) \/ EndOfReader(c) \/ ReadFails(c) \/ Accept(c) \/ Disconnect(c)
    PROVE  FreshInv' /\ NoClosedReaderRouted'
<1>. USE DEF operator, tables, world, pty
<1>0. /\ TypeOK /\ NewReadersUnknown /\ RegisteredFirst /\ NewIsOff /\ StopClearsRunning
      /\ Client(c) \in Thread /\ Reader(c) \in Thread /\ Client(c) # Reader(c)
      /\ Owner[c] \in Node /\ None \notin Conn
      /\ \A th \in Thread : Stopping(th) => victim[th] \in Conn
  BY Threads, ConstantsAssumption DEF GeneralInv, VictimsOwned
<1>1. ASSUME NEW l \in Labels, Goto(Client(c), l), l \notin {"clean_join", "clean_delete"},
             pc[Client(c)] \notin CleanLabels, pc[Client(c)] # "off", UNCHANGED <<main, halting, victim, readers, running>>,
             registered' = registered \/ registered' = registered \cup {c},
             l \in Registering => c \in registered' /\ NotInserted(c),
             peer' = peer \/ (peer' = [peer EXCEPT ![c] = "gone"]),
             port' = port, l # "reg_insert", pc[Client(c)] # "reg_insert"
      PROVE  FreshInv' /\ NoClosedReaderRouted'
  <2>1. /\ pc'[Client(c)] = l /\ \A d \in Conn : d # c => pc'[Client(d)] = pc[Client(d)]
        /\ \A d \in Conn : pc'[Reader(d)] = pc[Reader(d)]
        /\ \A th \in Thread : th # Client(c) => pc'[th] = pc[th]
    BY <1>0, <1>1, ClientMoves
  <2>2. \A th \in Thread : /\ Stopping(th)' => Stopping(th)
                           /\ pc[th] = "clean_delete" => pc'[th] = "clean_delete"
    BY <1>1, <2>1 DEF Stopping, CleanLabels
  <2>3. RegisteredFirst'
    BY <1>0, <1>1, <2>1 DEF RegisteredFirst
  <2>4. NewReadersUnknown'
    BY <1>0, <1>1, <2>1, <2>2 DEF NewReadersUnknown, NotInserted, RegisteredFirst, Registering
  <2>5. NewIsOff'
    BY <1>0, <1>1, <2>1 DEF NewIsOff, TypeOK
  <2>6. StopClearsRunning'
    BY <1>0, <1>1 DEF StopClearsRunning
  <2>7. NoClosedReaderRouted'
    BY <1>1, <2>2 DEF NoClosedReaderRouted
  <2>. QED  BY <2>3, <2>4, <2>5, <2>6, <2>7 DEF FreshInv
<1>2. CASE Register(c)
  BY <1>0, <1>1, <1>2 DEF Register, Labels, Registering, NotInserted, CleanLabels
<1>3. CASE RegisterNetwork(c)
  BY <1>0, <1>1, <1>3 DEF RegisterNetwork, Labels, Registering, CleanLabels
<1>4. CASE EndOfClient(c) \/ CloseSocket(c)
  BY <1>0, <1>1, <1>4 DEF EndOfClient, CloseSocket, Labels, Registering, CleanLabels
<1>5. CASE StartReader(c)
  <2>1. CASE (Goto(Client(c), "recv") \/ Goto(Client(c), "clean")) /\ UNCHANGED pty
    BY <1>0, <1>1, <1>5, <2>1 DEF StartReader, Labels, Registering, CleanLabels
  <2>2. CASE /\ readers[Owner[c]] = None
             /\ port' = [port EXCEPT ![c] = "open"]
             /\ pc' = [pc EXCEPT ![Client(c)] = "reg_insert", ![Reader(c)] = "read"]
    <3>1. /\ pc'[Client(c)] = "reg_insert"
          /\ \A d \in Conn : d # c => /\ pc'[Client(d)] = pc[Client(d)]
                                      /\ pc'[Reader(d)] = pc[Reader(d)]
          /\ \A th \in Thread : th \notin {Client(c), Reader(c)} => pc'[th] = pc[th]
          /\ pc'[Reader(c)] = "read"
      BY <1>0, <2>2, Threads DEF TypeOK
    <3>2. /\ pc[Client(c)] = "reg_reader" /\ c \in registered /\ NotInserted(c)
          /\ UNCHANGED <<main, halting, victim, readers, running, registered, peer>>
      BY <1>0, <1>5 DEF StartReader, RegisteredFirst, NotInserted, Registering
    <3>3. pc[Reader(c)] = "off" /\ \A n \in Node : readers[n] # c
      BY <1>0, <3>2 DEF NewReadersUnknown
    <3>4. port'[c] = "open" /\ \A d \in Conn : d # c => port'[d] = port[d]
      BY <1>0, <2>2 DEF TypeOK
    <3>5. \A th \in Thread : /\ Stopping(th)' => Stopping(th)
                             /\ pc[th] = "clean_delete" => pc'[th] = "clean_delete"
      BY <3>1, <3>2, <3>3 DEF Stopping
    <3>6. RegisteredFirst' /\ NewIsOff' /\ StopClearsRunning'
      BY <1>0, <3>1, <3>2 DEF RegisteredFirst, NewIsOff, StopClearsRunning
    <3>7. NewReadersUnknown'
      BY <1>0, <3>1, <3>2, <3>4, <3>5 DEF NewReadersUnknown, NotInserted, Registering
    <3>8. NoClosedReaderRouted'
      BY <1>0, <3>2, <3>3, <3>4, <3>5 DEF NoClosedReaderRouted, TypeOK, MaybeConn
    <3>. QED  BY <3>6, <3>7, <3>8 DEF FreshInv
  <2>. QED  BY <1>5, <2>1, <2>2 DEF StartReader
<1>6. CASE InsertReader(c)
  <2>1. /\ pc'[Client(c)] = "recv" /\ \A d \in Conn : d # c => pc'[Client(d)] = pc[Client(d)]
        /\ \A d \in Conn : pc'[Reader(d)] = pc[Reader(d)]
        /\ \A th \in Thread : th # Client(c) => pc'[th] = pc[th]
    BY <1>0, <1>6, ClientMoves DEF InsertReader
  <2>2. /\ pc[Client(c)] = "reg_insert" /\ c \in registered /\ NotInserted(c)
        /\ UNCHANGED <<main, halting, victim, running, registered, peer, port>>
        /\ readers' = [readers EXCEPT ![Owner[c]] = c]
    BY <1>0, <1>6 DEF InsertReader, RegisteredFirst, NotInserted, Registering
  <2>3. port[c] = "open"
    BY <1>0, <2>2 DEF NewReadersUnknown
  <2>4. \A th \in Thread : /\ Stopping(th)' => Stopping(th)
                           /\ pc[th] = "clean_delete" => pc'[th] = "clean_delete"
    BY <2>1, <2>2 DEF Stopping
  <2>5. RegisteredFirst' /\ NewIsOff' /\ StopClearsRunning'
    BY <1>0, <2>1, <2>2 DEF RegisteredFirst, NewIsOff, StopClearsRunning, Registering
  <2>6. NewReadersUnknown'
    BY <1>0, <2>1, <2>2, <2>4 DEF NewReadersUnknown, NotInserted, Registering, TypeOK
  <2>7. NoClosedReaderRouted'
    BY <1>0, <2>2, <2>3, <2>4 DEF NoClosedReaderRouted, TypeOK
  <2>. QED  BY <2>5, <2>6, <2>7 DEF FreshInv
<1>7. CASE EndOfReader(c) \/ ReadFails(c)
  <2>1. PICK l \in {"dead", "clean"} : Goto(Reader(c), l)
    BY <1>7 DEF EndOfReader, ReadFails
  <2>2. /\ pc[Reader(c)] = "read"
        /\ UNCHANGED <<main, halting, victim, running, registered, peer, port, readers>>
    BY <1>7 DEF EndOfReader, ReadFails
  <2>3. /\ pc'[Reader(c)] = l /\ \A d \in Conn : d # c => pc'[Reader(d)] = pc[Reader(d)]
        /\ \A d \in Conn : pc'[Client(d)] = pc[Client(d)]
        /\ \A th \in Thread : th # Reader(c) => pc'[th] = pc[th]
    BY <1>0, <2>1, ReaderMoves
  <2>4. \A th \in Thread : /\ Stopping(th)' => Stopping(th)
                           /\ pc[th] = "clean_delete" => pc'[th] = "clean_delete"
    BY <2>1, <2>2, <2>3 DEF Stopping
  <2>5. RegisteredFirst' /\ NewIsOff' /\ StopClearsRunning'
    BY <1>0, <2>2, <2>3 DEF RegisteredFirst, NewIsOff, StopClearsRunning
  <2>6. NewReadersUnknown'
    BY <1>0, <2>2, <2>3, <2>4 DEF NewReadersUnknown, NotInserted
  <2>7. NoClosedReaderRouted'
    BY <2>2, <2>4 DEF NoClosedReaderRouted
  <2>. QED  BY <2>5, <2>6, <2>7 DEF FreshInv
<1>8. CASE Accept(c) \/ Disconnect(c)
  <2>1. /\ UNCHANGED <<main, halting, victim, running, registered, port, readers>>
        /\ \A d \in Conn : peer'[d] = "new" => peer[d] = "new" /\ (peer[c] = "new" => d # c)
    BY <1>0, <1>8 DEF Accept, Disconnect, TypeOK
  <2>2. /\ \A th \in Thread : th # Client(c) => pc'[th] = pc[th]
        /\ \/ pc'[Client(c)] = pc[Client(c)]
           \/ peer[c] = "new" /\ pc'[Client(c)] = "recv"
    BY <1>0, <1>8, ClientMoves DEF Accept, Disconnect, TypeOK
  <2>3. /\ \A d \in Conn : d # c => pc'[Client(d)] = pc[Client(d)]
        /\ \A d \in Conn : pc'[Reader(d)] = pc[Reader(d)]
    BY <2>2, Threads
  <2>4. peer[c] = "new" => pc[Client(c)] = "off"
    BY <1>0 DEF NewIsOff
  <2>5. \A th \in Thread : /\ Stopping(th)' => Stopping(th)
                           /\ pc[th] = "clean_delete" => pc'[th] = "clean_delete"
    BY <2>2, <2>4 DEF Stopping
  <2>6. RegisteredFirst' /\ NewIsOff' /\ StopClearsRunning'
    BY <1>0, <2>1, <2>2, <2>3 DEF RegisteredFirst, NewIsOff, StopClearsRunning, Registering
  <2>7. NewReadersUnknown'
    BY <1>0, <2>1, <2>2, <2>3, <2>4, <2>5 DEF NewReadersUnknown, NotInserted, Registering
  <2>8. NoClosedReaderRouted'
    BY <2>1, <2>5 DEF NoClosedReaderRouted
  <2>. QED  BY <2>6, <2>7, <2>8 DEF FreshInv
<1>. QED  BY <1>2, <1>3, <1>4, <1>5, <1>6, <1>7, <1>8 DEF ClientStep

\* stop() tells and closes only readers that it found in the table.
LEMMA FreshOperator ==
    ASSUME GeneralInv, NoClosedReaderRouted,
           \/ StopBegin \/ StopSockets
           \/ \E r \in Conn : StopReader(r)
           \/ \E n \in Node : Place(n)
    PROVE  FreshInv' /\ NoClosedReaderRouted'
<1>. USE DEF operator, tables, world, pty
<1>0. TypeOK /\ NewReadersUnknown /\ RegisteredFirst /\ NewIsOff /\ StopClearsRunning
  BY DEF GeneralInv
<1>1. /\ UNCHANGED <<readers, victim, pc, registered>>
      /\ \A th \in Thread : Stopping(th)' => Stopping(th)
  BY DEF StopBegin, StopSockets, StopReader, Place, Stopping
<1>2. RegisteredFirst'
  BY <1>0, <1>1 DEF RegisteredFirst
<1>3. \A c \in Conn : peer'[c] = "new" => peer[c] = "new"
  BY <1>0 DEF StopBegin, StopSockets, StopReader, Place, TypeOK
<1>4. NewIsOff'
  BY <1>0, <1>1, <1>3 DEF NewIsOff
<1>5. StopClearsRunning'
  BY <1>0 DEF StopClearsRunning, StopBegin, StopSockets, StopReader, Place
<1>6. ASSUME NEW c \in Conn, NotInserted(c)
      PROVE  c \notin halting' /\ port'[c] = port[c]
  <2>1. c \notin halting /\ \A n \in Node : readers[n] # c
    BY <1>0, <1>6 DEF NewReadersUnknown
  <2>. QED  BY <1>0, <2>1 DEF StopBegin, StopSockets, StopReader, Place, Closed, TypeOK
<1>7. NewReadersUnknown'
  BY <1>0, <1>1, <1>6 DEF NewReadersUnknown, NotInserted
<1>8. port' = port \/ main' # "up"
  BY DEF StopBegin, StopSockets, StopReader, Place
<1>9. main' = "up" => main = "up"
  BY DEF StopBegin, StopSockets, StopReader, Place
<1>10. NoClosedReaderRouted'
  BY <1>1, <1>8, <1>9 DEF NoClosedReaderRouted
<1>. QED  BY <1>2, <1>4, <1>5, <1>7, <1>10 DEF FreshInv

\* Brokering closes and routes nothing.
LEMMA FreshBroker ==
    ASSUME GeneralInv, NoClosedReaderRouted, NEW th \in Thread, BrokerStep(th)
    PROVE  FreshInv' /\ NoClosedReaderRouted'
<1>0. TypeOK /\ NewReadersUnknown /\ RegisteredFirst /\ NewIsOff /\ StopClearsRunning
  BY DEF GeneralInv
<1>1. UNCHANGED <<running, main, halting, peer, registered, readers, port, victim>>
  BY <1>0, BrokerLabels
<1>2. /\ \A c \in Conn :
            \/ pc'[Client(c)] = pc[Client(c)]
            \/ /\ pc[Client(c)] \in {"recv"} \cup Brokering
               /\ pc'[Client(c)] \in {"recv", "clean"} \cup Brokering
      /\ \A u \in Thread :
            \/ pc'[u] = pc[u]
            \/ /\ pc[u] \in {"recv", "read"} \cup Brokering
               /\ pc'[u] \in {"recv", "read", "clean", "dead"} \cup Brokering
  BY <1>0, BrokerMoves
<1>3. \A u \in Thread : /\ Stopping(u)' => Stopping(u)
                        /\ pc[u] = "clean_delete" => pc'[u] = "clean_delete"
  BY <1>2 DEF Stopping, Brokering
<1>4. RegisteredFirst' /\ NewIsOff' /\ StopClearsRunning'
  BY <1>0, <1>1, <1>2 DEF RegisteredFirst, NewIsOff, StopClearsRunning, Registering, Brokering
<1>5. \A c \in Conn : pc[Reader(c)] = "off" => pc'[Reader(c)] = "off"
  BY <1>2, Threads DEF Brokering
<1>6. NewReadersUnknown'
  BY <1>0, <1>1, <1>2, <1>3, <1>5
  DEF NewReadersUnknown, NotInserted, Registering, Brokering
<1>7. NoClosedReaderRouted'
  BY <1>1, <1>3 DEF NoClosedReaderRouted
<1>. QED  BY <1>4, <1>6, <1>7 DEF FreshInv

\* A clean-up closes a reader that it found in the table, and takes out what it closed.
LEMMA FreshCleanup ==
    ASSUME GeneralInv, NoClosedReaderRouted, NEW th \in Thread, Cleanup(th)
    PROVE  FreshInv' /\ NoClosedReaderRouted'
<1>. USE DEF operator, tables, world, pty
<1>0. /\ TypeOK /\ NewReadersUnknown /\ RegisteredFirst /\ NewIsOff /\ StopClearsRunning
      /\ Self(th) \in Node /\ None \notin Conn
      /\ \A u \in Thread : Stopping(u) => victim[u] \in Conn /\ Owner[victim[u]] = Self(u)
      /\ \A n \in Node : readers[n] # None => Owner[readers[n]] = n
  BY Threads, ConstantsAssumption DEF GeneralInv, VictimsOwned, ReadersOwned
<1>1. /\ UNCHANGED <<running, main, halting, peer, registered>>
      /\ \E l \in CleanLabels \cup {"recv", "close", "dead"} : Goto(th, l)
  BY DEF Cleanup, CleanReader, CleanStop, CleanJoin, CleanDelete, CleanNetwork, CleanMetadata,
         KeyErrorIn, Cleaned, CleanLabels
<1>2. /\ pc[th] \in CleanLabels
      /\ pc'[th] \in CleanLabels \cup {"recv", "close", "dead"}
      /\ \A u \in Thread : u # th => pc'[u] = pc[u]
  BY <1>0, <1>1, CleanupLabels DEF Goto, TypeOK
<1>3. /\ \A c \in Conn : \/ pc'[Client(c)] = pc[Client(c)]
                         \/ /\ pc[Client(c)] \in CleanLabels
                            /\ pc'[Client(c)] \in CleanLabels \cup {"recv", "close", "dead"}
      /\ \A c \in Conn : pc[Reader(c)] = "off" => pc'[Reader(c)] = "off"
  BY <1>2, Threads DEF CleanLabels
<1>4. RegisteredFirst' /\ NewIsOff' /\ StopClearsRunning'
  BY <1>0, <1>1, <1>3
  DEF RegisteredFirst, NewIsOff, StopClearsRunning, Registering, CleanLabels
<1>5. \A c \in Conn :
         NotInserted(c)' =>
            /\ NotInserted(c)
            /\ pc'[Client(c)] = "reg_insert" <=> pc[Client(c)] = "reg_insert"
  BY <1>0, <1>1, <1>3 DEF NotInserted, Registering, CleanLabels, RegisteredFirst
<1>6. ASSUME UNCHANGED <<readers, port, victim>>, ~Stopping(th), ~Stopping(th)'
      PROVE  FreshInv' /\ NoClosedReaderRouted'
  <2>1. \A u \in Thread : /\ Stopping(u)' => Stopping(u)
                          /\ pc[u] = "clean_delete" => pc'[u] = "clean_delete"
    BY <1>2, <1>6 DEF Stopping
  <2>2. NewReadersUnknown'
    BY <1>0, <1>1, <1>3, <1>5, <1>6, <2>1 DEF NewReadersUnknown
  <2>3. NoClosedReaderRouted'
    BY <1>1, <1>6, <2>1 DEF NoClosedReaderRouted
  <2>. QED  BY <1>4, <2>2, <2>3 DEF FreshInv
<1>7. CASE CleanReader(th)
  BY <1>6, <1>7, <1>0 DEF CleanReader, Stopping, Goto, TypeOK
<1>8. CASE CleanNetwork(th)
  BY <1>6, <1>8, <1>0 DEF CleanNetwork, Stopping, Goto, TypeOK, KeyErrorIn
<1>9. CASE CleanMetadata(th)
  BY <1>6, <1>9, <1>0 DEF CleanMetadata, Stopping, Goto, TypeOK, KeyErrorIn, Cleaned
<1>10. CASE CleanStop(th)
  <2>. DEFINE r == readers[Self(th)]
  <2>1. CASE r = None
    BY <1>6, <1>10, <1>0, <2>1 DEF CleanStop, Stopping, Goto, TypeOK, KeyErrorIn
  <2>2. CASE r # None
    <3>1. /\ UNCHANGED <<readers, port>> /\ victim'[th] = r
          /\ \A u \in Thread : u # th => victim'[u] = victim[u]
          /\ pc[th] = "clean_stop" /\ pc'[th] = "clean_join"
      BY <1>0, <1>10, <2>2 DEF CleanStop, TypeOK, Goto
    <3>2. \A u \in Thread : /\ Stopping(u)' => Stopping(u) \/ u = th
                            /\ pc[u] = "clean_delete" => pc'[u] = "clean_delete" /\ u # th
      BY <1>2, <3>1 DEF Stopping
    <3>3. NewReadersUnknown'
      BY <1>0, <1>1, <1>3, <1>5, <3>1, <3>2 DEF NewReadersUnknown
    <3>4. NoClosedReaderRouted'
      BY <1>1, <3>1, <3>2 DEF NoClosedReaderRouted
    <3>. QED  BY <1>4, <3>3, <3>4 DEF FreshInv
  <2>. QED  BY <2>1, <2>2
<1>11. CASE CleanJoin(th)
  <2>. DEFINE r == victim[th]
  <2>1. /\ Stopping(th) /\ r \in Conn /\ UNCHANGED <<readers, victim>> /\ pc[th] = "clean_join"
        /\ \/ pc'[th] = "dead" /\ port' = port
           \/ pc'[th] = "clean_delete" /\ port' = [port EXCEPT ![r] = "closed"]
    BY <1>0, <1>11 DEF CleanJoin, Stopping, Goto, Closed, TypeOK
  <2>2. \A u \in Thread : /\ Stopping(u)' => Stopping(u)
                          /\ pc[u] = "clean_delete" => pc'[u] = "clean_delete"
    BY <1>2, <2>1 DEF Stopping
  <2>3. \A c \in Conn : NotInserted(c) => port'[c] = port[c]
    BY <1>0, <2>1 DEF NewReadersUnknown, TypeOK
  <2>4. NewReadersUnknown'
    BY <1>0, <1>1, <1>3, <1>5, <2>1, <2>2, <2>3 DEF NewReadersUnknown
  <2>5. NoClosedReaderRouted'
    BY <1>0, <1>1, <2>1, <2>2 DEF NoClosedReaderRouted, TypeOK, MaybeConn
  <2>. QED  BY <1>4, <2>4, <2>5 DEF FreshInv
<1>12. CASE CleanDelete(th)
  <2>1. /\ Stopping(th) /\ port' = port /\ pc[th] = "clean_delete"
        /\ ~Stopping(th)'
        /\ \A u \in Thread : u # th => victim'[u] = victim[u]
    BY <1>0, <1>12 DEF CleanDelete, KeyErrorIn, Stopping, Goto, TypeOK
  <2>2. readers' = [readers EXCEPT ![Self(th)] = None]
    BY <1>0, <1>12 DEF CleanDelete, Without, TypeOK
  <2>3. \A n \in Node : /\ readers'[n] = IF n = Self(th) THEN None ELSE readers[n]
                        /\ n # Self(th) /\ readers[n] # None => readers[n] # victim[th]
    BY <1>0, <2>1, <2>2 DEF TypeOK
  <2>4. \A u \in Thread : /\ Stopping(u)' => Stopping(u) /\ u # th
                          /\ pc[u] = "clean_delete" /\ u # th => pc'[u] = "clean_delete"
    BY <1>2, <2>1 DEF Stopping
  <2>5. NewReadersUnknown'
    BY <1>0, <1>1, <1>3, <1>5, <2>1, <2>3, <2>4 DEF NewReadersUnknown
  <2>6. NoClosedReaderRouted'
    BY <1>0, <1>1, <2>1, <2>3, <2>4 DEF NoClosedReaderRouted
  <2>. QED  BY <1>4, <2>5, <2>6 DEF FreshInv
<1>. QED  BY <1>7, <1>8, <1>9, <1>10, <1>11, <1>12 DEF Cleanup

--------------------------------------------------------------------------------
(* Orderly use: a node's entries are the business of one thread.              *)

\* A step that touches the entries of one node only, that of a connection which is alone.
OnlyOf(c) ==
    /\ UNCHANGED <<setting, running>>
    /\ \A d \in Conn : d # c /\ Owner[d] = Owner[c] => ~Active(d)
    /\ \A d \in Conn \ {c} :
          /\ pc'[Client(d)] = pc[Client(d)] /\ victim'[Client(d)] = victim[Client(d)]
          /\ port'[d] = port[d]
          /\ d \in reading' <=> d \in reading
          /\ d \in registered' <=> d \in registered
    /\ \A d \in Conn : pc'[Reader(d)] = pc[Reader(d)] \/ pc'[Reader(d)] = "read"
    /\ \A n \in Node \ {Owner[c]} :
          /\ readers'[n] = readers[n] /\ metadata'[n] = metadata[n]
          /\ n \in network' <=> n \in network
    /\ readers'[Owner[c]] \in {readers[Owner[c]], None, c}
    /\ metadata'[Owner[c]] \in {metadata[Owner[c]], None, c}

\* Such a step leaves everybody else's entries right.
LEMMA OthersStand ==
    ASSUME TypeOK, ReadersOwned, OneActive, OnlyClientsClean, MetadataOwned,
           \A d \in Conn : OwnsItsEntries(d),
           NEW c \in Conn, OnlyOf(c), OwnsItsEntries(c)'
    PROVE  /\ OneActive' /\ OnlyClientsClean' /\ MetadataOwned'
           /\ \A d \in Conn : OwnsItsEntries(d)'
<1>0. /\ \A d \in Conn : Client(d) \in Thread /\ Owner[d] \in Node
      /\ Owner[c] \in Node /\ None \notin Conn
  BY Threads, ConstantsAssumption
<1>1. OneActive'
  BY DEF OneActive, OnlyOf, Active
<1>2. OnlyClientsClean'
  BY DEF OnlyClientsClean, OnlyOf, CleanLabels
<1>3. MetadataOwned'
  BY <1>0 DEF MetadataOwned, OnlyOf, TypeOK
<1>4. ASSUME NEW d \in Conn, d # c  PROVE OwnsItsEntries(d)'
  <2>1. /\ OwnsItsEntries(d)
        /\ pc'[Client(d)] = pc[Client(d)] /\ victim'[Client(d)] = victim[Client(d)]
        /\ port'[d] = port[d]
        /\ d \in reading' <=> d \in reading
        /\ d \in registered' <=> d \in registered
    BY <1>4 DEF OnlyOf
  <2>2. CASE Owner[d] # Owner[c]
    <3>1. /\ readers'[Owner[d]] = readers[Owner[d]] /\ metadata'[Owner[d]] = metadata[Owner[d]]
          /\ Owner[d] \in network' <=> Owner[d] \in network
      BY <1>0, <2>2 DEF OnlyOf
    <3>. QED  BY <2>1, <3>1
         DEF OwnsItsEntries, FindsItsEntries, TakesOutItsEntries, Stopping
  <2>3. CASE Owner[d] = Owner[c]
    <3>1. pc[Client(d)] \in {"off", "done"}
      BY <1>4, <2>3 DEF OnlyOf, Active
    <3>2. readers[Owner[d]] # d /\ metadata[Owner[d]] # d
      BY <2>1, <3>1 DEF OwnsItsEntries, TakesOutItsEntries, InUse, Brokering
    <3>3. readers'[Owner[d]] # d /\ metadata'[Owner[d]] # d
      BY <1>0, <1>4, <2>3, <3>2 DEF OnlyOf
    <3>. QED  BY <2>1, <3>1, <3>2, <3>3
         DEF OwnsItsEntries, FindsItsEntries, TakesOutItsEntries, Stopping
  <2>. QED  BY <2>2, <2>3
<1>. QED  BY <1>1, <1>2, <1>3, <1>4

\* A thread in its clean-up is one whose connection is being served or cleaned up.
LEMMA TakingBackIsActive ==
    ASSUME NEW c \in Conn, TakesBack(c)
    PROVE  Active(c) /\ pc[Client(c)] \notin Registering \cup {"recv"} \cup Brokering
  BY DEF TakesBack, Active, CleanLabels, Registering, Brokering

\* Nor does it make anybody else's entries go away.
LEMMA OthersServed ==
    ASSUME TypeOK, \A d \in Conn : HasItsEntries(d),
           NEW c \in Conn, OnlyOf(c), HasItsEntries(c)',
           \A d \in Conn \ {c} : d \in nested' <=> d \in nested
    PROVE  \A d \in Conn : HasItsEntries(d)'
<1>. SUFFICES ASSUME NEW d \in Conn, d # c  PROVE HasItsEntries(d)'
  OBVIOUS
<1>1. /\ HasItsEntries(d) /\ pc'[Client(d)] = pc[Client(d)] /\ port'[d] = port[d]
      /\ d \in registered' <=> d \in registered
      /\ d \in nested' <=> d \in nested
      /\ running' = running /\ setting' = setting /\ Owner[d] \in Node
  BY Threads DEF OnlyOf
<1>2. CASE Owner[d] # Owner[c]
  <2>1. /\ readers'[Owner[d]] = readers[Owner[d]] /\ metadata'[Owner[d]] = metadata[Owner[d]]
        /\ Owner[d] \in network' <=> Owner[d] \in network
    BY <1>1, <1>2 DEF OnlyOf
  <2>. QED  BY <1>1, <2>1 DEF HasItsEntries, TakesBack, Routable, Refused
<1>3. CASE Owner[d] = Owner[c]
  <2>1. pc[Client(d)] \in {"off", "done"}
    BY <1>3 DEF OnlyOf, Active
  <2>2. d \notin nested
    BY <1>1, <2>1, TakingBackIsActive DEF HasItsEntries, Active
  <2>. QED  BY <1>1, <2>1, <2>2 DEF HasItsEntries, Registering, Brokering
<1>. QED  BY <1>2, <1>3

\* What a connection that is not alone at its node's entries would have to share.
LEMMA AloneAtItsNode ==
    ASSUME GeneralInv, OneActive, MetadataOwned, \A d \in Conn : OwnsItsEntries(d),
           NEW c \in Conn, Active(c)
    PROVE  /\ \A d \in Conn : d # c /\ Owner[d] = Owner[c] => ~Active(d)
           /\ readers[Owner[c]] \in {None, c} /\ metadata[Owner[c]] \in {None, c}
<1>1. Owner[c] \in Node
  BY Threads
<1>2. \A d \in Conn : d # c /\ Owner[d] = Owner[c] => ~Active(d)
  BY DEF OneActive
<1>3. ASSUME NEW d \in Conn, readers[Owner[c]] = d \/ metadata[Owner[c]] = d, None \notin Conn
      PROVE  d = c
  <2>1. Owner[d] = Owner[c]
    BY <1>1, <1>3 DEF GeneralInv, ReadersOwned, MetadataOwned
  <2>2. Active(d)
    BY <1>3, <2>1 DEF OwnsItsEntries, TakesOutItsEntries, Active, InUse, Brokering
  <2>. QED  BY <1>2, <2>1, <2>2
<1>. QED  BY <1>1, <1>2, <1>3, ConstantsAssumption DEF GeneralInv, TypeOK, MaybeConn

\* A step of one client's thread keeps the invariants of orderly use if it leaves its own
\* entries right.
LEMMA OneClientStep ==
    ASSUME GeneralInv, OrderlyInv, ServedInv, NEW c \in Conn,
           Orderly => OnlyOf(c) /\ OwnsItsEntries(c)' /\ HasItsEntries(c)',
           \A d \in Conn \ {c} : d \in nested' <=> d \in nested,
           UNCHANGED setting
    PROVE  OrderlyInv' /\ ServedInv'
<1>. Orderly' = Orderly
  BY DEF Orderly
<1>1. OrderlyInv'
  BY OthersStand DEF OrderlyInv, GeneralInv
<1>2. ServedInv'
  BY OthersServed DEF ServedInv, GeneralInv
<1>. QED  BY <1>1, <1>2

\* A client thread that moves without touching a table.
LEMMA ClientMovesOnly ==
    ASSUME TypeOK, NEW c \in Conn, NEW l, Goto(Client(c), l),
           \A d \in Conn : d # c /\ Owner[d] = Owner[c] => ~Active(d),
           UNCHANGED <<setting, running, registered, tables, pty, victim>>
    PROVE  OnlyOf(c) /\ pc'[Client(c)] = l
  BY ClientMoves DEF OnlyOf, tables, pty

\* Connecting, registering, leaving: the thread's entries are there when it is done with
\* registering, and it does not leave the loop for the end without a clean-up.
LEMMA OrderlyConnection ==
    ASSUME GeneralInv, OrderlyInv, ServedInv, NEW c \in Conn,
           Accept(c) \/ ClientStep(c)
    PROVE  OrderlyInv' /\ ServedInv'
<1>. USE DEF operator, tables, world, pty
<1>0. /\ TypeOK /\ NewReadersUnknown /\ RegisteredFirst /\ NewIsOff
      /\ Client(c) \in Thread /\ Reader(c) \in Thread /\ Client(c) # Reader(c)
      /\ Owner[c] \in Node /\ None \notin Conn /\ Mode[c] \in {"network", "serial"}
      /\ UNCHANGED setting /\ setting.exclusive \in BOOLEAN /\ setting.ptyFails \in BOOLEAN
  BY Threads, ConstantsAssumption
  DEF GeneralInv, TypeOK, Accept, ClientStep, Register, RegisterNetwork, StartReader,
      InsertReader, EndOfClient, CloseSocket
<1>1. ASSUME Orderly
      PROVE  /\ OneActive /\ OnlyClientsClean /\ MetadataOwned
             /\ \A d \in Conn : OwnsItsEntries(d)
             /\ OwnsItsEntries(c)
             /\ Active(c) => /\ \A d \in Conn : d # c /\ Owner[d] = Owner[c] => ~Active(d)
                             /\ readers[Owner[c]] \in {None, c}
                             /\ metadata[Owner[c]] \in {None, c}
             /\ HasItsEntries(c)
             /\ c \in nested => pc[Client(c)] \in CleanLabels
  BY <1>1, AloneAtItsNode DEF OrderlyInv, ServedInv, HasItsEntries, TakesBack
<1>2. CASE Accept(c)
  <2>1. pc[Client(c)] = "off" /\ c \notin registered /\ UNCHANGED nested
    BY <1>0, <1>2 DEF Accept, NewIsOff
  <2>2. ASSUME Orderly  PROVE OnlyOf(c) /\ pc'[Client(c)] = "recv"
    <3>1. \A d \in Conn : d # c /\ Owner[d] = Owner[c] => ~Active(d)
      BY <1>2, <2>2 DEF Accept, Orderly, Active
    <3>. QED  BY <1>0, <1>2, <3>1, ClientMovesOnly DEF Accept
  <2>3. ASSUME Orderly  PROVE OwnsItsEntries(c)'
    BY <1>0, <1>1, <1>2, <2>1, <2>2, <2>3
    DEF Accept, OwnsItsEntries, FindsItsEntries, TakesOutItsEntries, Stopping, InUse, Brokering
  <2>4. ASSUME Orderly  PROVE HasItsEntries(c)'
    BY <1>1, <1>2, <2>1, <2>4 DEF Accept, HasItsEntries, CleanLabels
  <2>. QED  BY <1>0, <1>1, <2>1, <2>2, <2>3, <2>4, OneClientStep
<1>3. CASE Register(c)
  <2>1. /\ pc[Client(c)] = "recv" /\ c \notin registered /\ UNCHANGED nested
        /\ registered' = registered \cup {c}
        /\ UNCHANGED <<running, readers, network, reading, port, victim>>
        /\ metadata'[Owner[c]] = c /\ \A n \in Node \ {Owner[c]} : metadata'[n] = metadata[n]
        /\ pc'[Client(c)] = IF Mode[c] = "serial" THEN "reg_reader" ELSE "reg_network"
        /\ \A d \in Conn : d # c => pc'[Client(d)] = pc[Client(d)]
        /\ \A d \in Conn : pc'[Reader(d)] = pc[Reader(d)]
    BY <1>0, <1>3, ClientMoves DEF Register, TypeOK
  <2>2. readers[Owner[c]] # c /\ port[c] = "none"
    BY <1>0, <2>1 DEF NewReadersUnknown, NotInserted
  <2>3. ASSUME Orderly  PROVE OnlyOf(c)
    BY <1>0, <1>1, <2>1, <2>3 DEF OnlyOf, Active
  <2>4. ASSUME Orderly  PROVE OwnsItsEntries(c)'
    BY <1>0, <1>1, <2>1, <2>2, <2>4
    DEF OwnsItsEntries, FindsItsEntries, TakesOutItsEntries, Stopping, InUse, Brokering
  <2>5. ASSUME Orderly  PROVE HasItsEntries(c)'
    BY <1>0, <1>1, <2>1, <2>5 DEF HasItsEntries, Brokering, CleanLabels
  <2>. QED  BY <1>0, <1>1, <2>1, <2>3, <2>4, <2>5, OneClientStep
<1>4. CASE RegisterNetwork(c)
  <2>1. /\ pc[Client(c)] = "reg_network" /\ c \in registered /\ UNCHANGED nested
        /\ UNCHANGED <<running, registered, readers, metadata, reading, port, victim>>
        /\ network' = network \cup {Owner[c]}
        /\ pc'[Client(c)] = "recv"
        /\ \A d \in Conn : d # c => pc'[Client(d)] = pc[Client(d)]
        /\ \A d \in Conn : pc'[Reader(d)] = pc[Reader(d)]
    BY <1>0, <1>4, ClientMoves DEF RegisterNetwork, RegisteredFirst, Registering
  <2>2. ASSUME Orderly  PROVE OnlyOf(c)
    BY <1>0, <1>1, <2>1, <2>2 DEF OnlyOf, Active
  <2>3. ASSUME Orderly  PROVE OwnsItsEntries(c)'
    BY <1>0, <1>1, <2>1, <2>3
    DEF OwnsItsEntries, FindsItsEntries, TakesOutItsEntries, Stopping, InUse, Brokering
  <2>4. ASSUME Orderly  PROVE HasItsEntries(c)'
    BY <1>0, <1>1, <2>1, <2>4 DEF HasItsEntries, Registering, Routable, CleanLabels
  <2>. QED  BY <1>0, <1>1, <2>1, <2>2, <2>3, <2>4, OneClientStep
<1>5. CASE StartReader(c)
  <2>1. /\ pc[Client(c)] = "reg_reader" /\ c \in registered /\ NotInserted(c)
        /\ UNCHANGED <<running, registered, readers, metadata, network, victim>>
    BY <1>0, <1>5 DEF StartReader, RegisteredFirst, Registering, NotInserted
  <2>2. readers[Owner[c]] # c /\ port[c] = "none"
    BY <1>0, <2>1 DEF NewReadersUnknown
  <2>3. ASSUME Orderly  PROVE readers[Owner[c]] = None
    BY <1>1, <2>1, <2>2, <2>3 DEF Active
  <2>4. CASE (Goto(Client(c), "recv") \/ Goto(Client(c), "clean")) /\ UNCHANGED pty
    <3>1. ASSUME Orderly  PROVE pc'[Client(c)] = "clean" /\ setting.ptyFails /\ OnlyOf(c)
      <4>1. Goto(Client(c), "clean") /\ setting.ptyFails
        BY <1>0, <1>5, <2>3, <2>4, <3>1, ClientMoves DEF StartReader, TypeOK
      <4>. QED  BY <1>0, <1>1, <2>1, <2>4, <3>1, <4>1, ClientMovesOnly DEF Active
    <3>2. ASSUME Orderly  PROVE OwnsItsEntries(c)'
      BY <1>0, <1>1, <2>1, <2>2, <2>4, <3>1, <3>2
      DEF OwnsItsEntries, FindsItsEntries, TakesOutItsEntries, Stopping, InUse, Brokering
    <3>3. ASSUME Orderly  PROVE Mode[c] = "serial" /\ HasItsEntries(c)'
      <4>1. Mode[c] = "serial"
        BY <1>0, <1>1, <2>1, <3>3 DEF HasItsEntries
      <4>. QED
        BY <1>0, <1>1, <2>1, <2>2, <2>3, <2>4, <3>1, <3>3, <4>1
        DEF HasItsEntries, TakesBack, Registering, Brokering, CleanLabels
    <3>4. \A d \in Conn \ {c} : d \in nested' <=> d \in nested
      BY <1>5 DEF StartReader
    <3>. QED  BY <1>0, <3>1, <3>2, <3>3, <3>4, OneClientStep
  <2>5. CASE /\ port' = [port EXCEPT ![c] = "open"]
             /\ reading' = reading \cup {c} /\ UNCHANGED nested
             /\ pc' = [pc EXCEPT ![Client(c)] = "reg_insert", ![Reader(c)] = "read"]
    <3>1. /\ pc'[Client(c)] = "reg_insert"
          /\ \A d \in Conn : d # c => pc'[Client(d)] = pc[Client(d)]
          /\ \A d \in Conn : pc'[Reader(d)] = pc[Reader(d)] \/ pc'[Reader(d)] = "read"
      BY <1>0, <2>5, Threads DEF TypeOK
    <3>2. ASSUME Orderly  PROVE OnlyOf(c)
      BY <1>0, <1>1, <2>1, <2>5, <3>1, <3>2 DEF OnlyOf, Active, TypeOK
    <3>3. ASSUME Orderly  PROVE OwnsItsEntries(c)'
      BY <1>0, <1>1, <2>1, <3>1, <3>3, <2>3
      DEF OwnsItsEntries, FindsItsEntries, TakesOutItsEntries, Stopping, InUse, Brokering
    <3>4. ASSUME Orderly  PROVE HasItsEntries(c)'
      BY <1>0, <1>1, <2>1, <2>5, <3>1, <3>4
      DEF HasItsEntries, Registering, Brokering, CleanLabels
    <3>. QED  BY <1>0, <1>1, <2>5, <3>2, <3>3, <3>4, OneClientStep
  <2>. QED  BY <1>5, <2>4, <2>5 DEF StartReader
<1>6. CASE InsertReader(c)
  <2>1. /\ pc[Client(c)] = "reg_insert" /\ c \in registered /\ NotInserted(c)
        /\ UNCHANGED <<running, registered, metadata, network, reading, port, victim, nested>>
        /\ readers'[Owner[c]] = c /\ \A n \in Node \ {Owner[c]} : readers'[n] = readers[n]
        /\ pc'[Client(c)] = "recv"
        /\ \A d \in Conn : d # c => pc'[Client(d)] = pc[Client(d)]
        /\ \A d \in Conn : pc'[Reader(d)] = pc[Reader(d)]
    BY <1>0, <1>6, ClientMoves
    DEF InsertReader, TypeOK, RegisteredFirst, Registering, NotInserted
  <2>2. port[c] = "open"
    BY <1>0, <2>1 DEF NewReadersUnknown
  <2>3. ASSUME Orderly  PROVE OnlyOf(c)
    BY <1>0, <1>1, <2>1, <2>3 DEF OnlyOf, Active
  <2>4. ASSUME Orderly  PROVE OwnsItsEntries(c)'
    BY <1>0, <1>1, <2>1, <2>2, <2>4
    DEF OwnsItsEntries, FindsItsEntries, TakesOutItsEntries, Stopping, InUse, Brokering
  <2>5. ASSUME Orderly  PROVE HasItsEntries(c)'
    BY <1>0, <1>1, <2>1, <2>2, <2>5 DEF HasItsEntries, Registering, Routable, CleanLabels
  <2>. QED  BY <1>0, <1>1, <2>1, <2>3, <2>4, <2>5, OneClientStep
<1>7. CASE EndOfClient(c) \/ CloseSocket(c)
  <2>1. /\ \/ pc[Client(c)] = "recv" /\ c \in registered /\ Goto(Client(c), "clean")
           \/ pc[Client(c)] = "recv" /\ c \notin registered /\ Goto(Client(c), "close")
           \/ pc[Client(c)] = "close" /\ Goto(Client(c), "done")
        /\ UNCHANGED <<setting, running, registered, tables, pty, victim, nested>>
    BY <1>7 DEF EndOfClient, CloseSocket
  <2>2. PICK l \in {"clean", "close", "done"} :
           /\ Goto(Client(c), l) /\ pc'[Client(c)] = l
           /\ \/ pc[Client(c)] = "recv" /\ c \in registered /\ l = "clean"
              \/ pc[Client(c)] = "recv" /\ c \notin registered /\ l = "close"
              \/ pc[Client(c)] = "close" /\ l = "done"
    BY <1>0, <2>1, ClientMoves
  <2>3. ASSUME Orderly  PROVE OnlyOf(c)
    BY <1>0, <1>1, <2>1, <2>2, <2>3, ClientMovesOnly DEF Active
  <2>4. c \notin registered => readers[Owner[c]] # c /\ port[c] # "open"
    BY <1>0, <2>2 DEF NewReadersUnknown, NotInserted
  <2>5. ASSUME Orderly  PROVE OwnsItsEntries(c)'
    BY <1>0, <1>1, <2>1, <2>2, <2>4, <2>5
    DEF OwnsItsEntries, FindsItsEntries, TakesOutItsEntries, Stopping, InUse, Brokering
  <2>6. ASSUME Orderly  PROVE HasItsEntries(c)'
    BY <1>0, <1>1, <2>1, <2>2, <2>6 DEF HasItsEntries, Registering, Brokering, CleanLabels
  <2>. QED  BY <1>0, <2>1, <2>3, <2>5, <2>6, OneClientStep
<1>. QED  BY <1>2, <1>3, <1>4, <1>5, <1>6, <1>7 DEF ClientStep

\* Steps that take nothing out of the tables and move no client thread; they may stop
\* readers and close PTYs once the backend has been stopped.
LEMMA OrderlyStands ==
    ASSUME OrderlyInv, ServedInv, TypeOK,
           UNCHANGED <<setting, registered, tables, victim, nested>>,
           Orderly => \A c \in Conn : /\ pc'[Client(c)] = pc[Client(c)]
                                      /\ pc'[Reader(c)] \notin CleanLabels,
           running' => running,
           port' = port \/ ~running',
           \A c \in Conn : port'[c] = "open" => port[c] = "open",
           reading' \subseteq reading
    PROVE  OrderlyInv' /\ ServedInv'
<1>. USE DEF tables
<1>1. Orderly' = Orderly
  BY DEF Orderly
<1>2. ASSUME Orderly, NEW c \in Conn, OwnsItsEntries(c)  PROVE OwnsItsEntries(c)'
  BY <1>2 DEF OwnsItsEntries, FindsItsEntries, TakesOutItsEntries, Stopping
<1>3. ASSUME Orderly, NEW c \in Conn, HasItsEntries(c)  PROVE HasItsEntries(c)'
  BY <1>3 DEF HasItsEntries, TakesBack, Routable, Refused
<1>4. ASSUME Orderly, OneActive  PROVE OneActive'
  BY <1>4 DEF OneActive, Active
<1>5. MetadataOwned => MetadataOwned'
  BY DEF MetadataOwned
<1>6. Orderly => OnlyClientsClean'
  BY DEF OnlyClientsClean
<1>. QED  BY <1>1, <1>2, <1>3, <1>4, <1>5, <1>6 DEF OrderlyInv, ServedInv

\* The environment, stop() and the readers' loops.
LEMMA OrderlyEnvironment ==
    ASSUME GeneralInv, OrderlyInv, ServedInv,
           \/ StopBegin \/ StopSockets
           \/ \E n \in Node : Place(n)
           \/ \E c \in Conn : StopReader(c) \/ Disconnect(c) \/ EndOfReader(c) \/ ReadFails(c)
    PROVE  OrderlyInv' /\ ServedInv'
<1>. USE DEF operator, tables, world, pty
<1>0. TypeOK /\ StopClearsRunning
  BY DEF GeneralInv
<1>1. ASSUME UNCHANGED pc, Orderly  PROVE \A c \in Conn : pc'[Reader(c)] \notin CleanLabels
  BY <1>1 DEF OrderlyInv, OnlyClientsClean
<1>2. CASE StopBegin \/ StopSockets \/ \E n \in Node : Place(n)
  BY <1>0, <1>1, <1>2, OrderlyStands DEF StopBegin, StopSockets, Place
<1>3. ASSUME NEW c \in Conn, Disconnect(c)  PROVE OrderlyInv' /\ ServedInv'
  BY <1>0, <1>1, <1>3, OrderlyStands DEF Disconnect
<1>4. ASSUME NEW r \in Conn, StopReader(r)  PROVE OrderlyInv' /\ ServedInv'
  <2>1. /\ ~running' /\ reading' \subseteq reading
        /\ \A c \in Conn : port'[c] = "open" => port[c] = "open"
    BY <1>0, <1>4 DEF StopReader, StopClearsRunning, Closed, TypeOK
  <2>. QED  BY <1>0, <1>1, <1>4, <2>1, OrderlyStands DEF StopReader
<1>5. ASSUME NEW c \in Conn, EndOfReader(c) \/ ReadFails(c)  PROVE OrderlyInv' /\ ServedInv'
  <2>1. ASSUME Orderly
        PROVE  \A d \in Conn : /\ pc'[Client(d)] = pc[Client(d)]
                               /\ pc'[Reader(d)] \notin CleanLabels
    <3>1. Goto(Reader(c), "dead")
      BY <1>5, <2>1 DEF EndOfReader, ReadFails, Orderly
    <3>2. OnlyClientsClean
      BY <2>1 DEF OrderlyInv
    <3>. QED  BY <1>0, <3>1, <3>2, ReaderMoves DEF OnlyClientsClean, CleanLabels
  <2>. QED  BY <1>0, <1>5, <2>1, OrderlyStands DEF EndOfReader, ReadFails
<1>. QED  BY <1>2, <1>3, <1>4, <1>5

\* Brokering leaves a client thread in its loop, or at the start of its clean-up.
LEMMA OrderlyBroker ==
    ASSUME GeneralInv, OrderlyInv, ServedInv, NEW th \in Thread, BrokerStep(th)
    PROVE  OrderlyInv' /\ ServedInv'
<1>0. TypeOK
  BY DEF GeneralInv
<1>1. UNCHANGED <<setting, running, registered, metadata, readers, network, reading, port, victim,
                  nested>>
  BY <1>0, BrokerLabels
<1>2. /\ \A c \in Conn :
            \/ pc'[Client(c)] = pc[Client(c)]
            \/ /\ pc[Client(c)] \in {"recv"} \cup Brokering
               /\ pc'[Client(c)] \in {"recv", "clean"} \cup Brokering
      /\ \A c \in Conn :
            \/ pc'[Reader(c)] = pc[Reader(c)]
            \/ pc'[Reader(c)] \in {"read", "dead"} \cup Brokering
  BY <1>0, BrokerMoves
<1>3. Orderly' = Orderly
  BY <1>1 DEF Orderly
<1>4. ASSUME NEW c \in Conn, OwnsItsEntries(c)  PROVE OwnsItsEntries(c)'
  BY <1>1, <1>2, <1>4
  DEF OwnsItsEntries, FindsItsEntries, TakesOutItsEntries, Stopping, InUse, Brokering
<1>5. ASSUME NEW c \in Conn, HasItsEntries(c)  PROVE HasItsEntries(c)'
  <2>1. c \in nested => pc'[Client(c)] = pc[Client(c)]
    BY <1>2, <1>5, TakingBackIsActive DEF HasItsEntries
  <2>2. TakesBack(c) /\ pc'[Client(c)] = pc[Client(c)] => TakesBack(c)'
    BY <1>1 DEF TakesBack
  <2>3. Routable(c) \/ Refused(c) => Routable(c)' \/ Refused(c)'
    BY <1>1 DEF Routable, Refused
  <2>. QED  BY <1>1, <1>2, <1>5, <2>1, <2>2, <2>3 DEF HasItsEntries, Brokering, Registering
<1>6. OneActive => OneActive'
  BY <1>2 DEF OneActive, Active, Brokering
<1>7. OnlyClientsClean => OnlyClientsClean'
  BY <1>2 DEF OnlyClientsClean, CleanLabels, Brokering
<1>8. MetadataOwned => MetadataOwned'
  BY <1>1 DEF MetadataOwned
<1>. QED  BY <1>1, <1>3, <1>4, <1>5, <1>6, <1>7, <1>8 DEF OrderlyInv, ServedInv

\* In orderly use a clean-up finds every entry that it tests for, and leaves nothing.
LEMMA OrderlyCleanup ==
    ASSUME GeneralInv, OrderlyInv, ServedInv, NEW th \in Thread, Cleanup(th)
    PROVE  OrderlyInv' /\ ServedInv'
<1>. USE DEF operator, tables, world, pty
<1>0. UNCHANGED setting /\ pc[th] \in CleanLabels /\ TypeOK
  BY CleanupLabels
  DEF GeneralInv, Cleanup, CleanReader, CleanStop, CleanJoin, CleanDelete, CleanNetwork,
      CleanMetadata
<1>1. CASE ~Orderly
  BY <1>0, <1>1 DEF OrderlyInv, ServedInv, Orderly
<1>. SUFFICES ASSUME Orderly  PROVE OrderlyInv' /\ ServedInv'
  BY <1>1
<1>2. PICK c \in Conn : th = Client(c)
  BY <1>0, Threads DEF OrderlyInv, OnlyClientsClean
<1>3. /\ Client(c) \in Thread /\ Owner[c] \in Node /\ None \notin Conn /\ Self(th) = Owner[c]
      /\ th[1] = c /\ th[2] = "client" /\ \A d : th # Reader(d)
      /\ c # None /\ Active(c) /\ OwnsItsEntries(c)
      /\ \A d \in Conn : d # c => Client(d) # Client(c)
  BY <1>0, <1>2, Threads, ConstantsAssumption DEF OrderlyInv, Active, CleanLabels
<1>4. /\ \A d \in Conn : d # c /\ Owner[d] = Owner[c] => ~Active(d)
      /\ readers[Owner[c]] \in {None, c} /\ metadata[Owner[c]] \in {None, c}
  BY <1>3, AloneAtItsNode DEF OrderlyInv
<1>5. HasItsEntries(c) /\ (c \in nested => TakesBack(c))
  BY DEF ServedInv, HasItsEntries
<1>6. ASSUME NEW l \in CleanLabels \cup {"recv", "close"}, Goto(th, l),
             UNCHANGED <<setting, running, registered>>,
             \A d \in Conn \ {c} : /\ victim'[Client(d)] = victim[Client(d)]
                                   /\ port'[d] = port[d]
                                   /\ d \in reading' <=> d \in reading,
             \A n \in Node \ {Owner[c]} :
                 /\ readers'[n] = readers[n] /\ metadata'[n] = metadata[n]
                 /\ n \in network' <=> n \in network,
             readers'[Owner[c]] \in {readers[Owner[c]], None},
             metadata'[Owner[c]] \in {metadata[Owner[c]], None},
             OwnsItsEntries(c)', nested' \in {nested, nested \ {c}},
             c \in nested' => l \in CleanLabels /\ port'[c] = port[c],
             l = "recv" => c \in nested /\ metadata'[Owner[c]] = None /\ port'[c] = port[c]
      PROVE  OrderlyInv' /\ ServedInv'
  <2>1. /\ pc'[Client(c)] = l
        /\ \A d \in Conn : d # c => pc'[Client(d)] = pc[Client(d)]
        /\ \A d \in Conn : pc'[Reader(d)] = pc[Reader(d)]
    BY <1>0, <1>2, <1>6, ClientMoves
  <2>2. OnlyOf(c)
    BY <1>4, <1>6, <2>1 DEF OnlyOf
  <2>3. TakesBack(c) => readers'[Owner[c]] = None
    BY <1>6 DEF TakesBack
  <2>4. c \in nested' => TakesBack(c)'
    BY <1>5, <1>6, <2>1, <2>3 DEF TakesBack
  <2>5. l = "recv" /\ running => Refused(c)'
    BY <1>5, <1>6, <2>3 DEF TakesBack, Refused
  <2>6. HasItsEntries(c)'
    BY <1>6, <2>1, <2>4, <2>5 DEF HasItsEntries, Registering, Brokering, CleanLabels
  <2>. QED  BY <1>6, <2>2, <2>6, OneClientStep
<1>. USE DEF OwnsItsEntries, FindsItsEntries, TakesOutItsEntries, InUse, Brokering
<1>7. CASE CleanReader(th)
  <2>1. PICK l \in {"clean_network", "clean_stop"} :
           /\ Goto(th, l) /\ pc[Client(c)] = "clean" /\ pc'[Client(c)] = l
           /\ l = IF readers[Owner[c]] = None THEN "clean_network" ELSE "clean_stop"
    BY <1>0, <1>2, <1>3, <1>7, ClientMoves DEF CleanReader
  <2>2. UNCHANGED <<running, registered, tables, pty, victim, nested>>
    BY <1>7 DEF CleanReader
  <2>3. OwnsItsEntries(c)'
    BY <1>3, <1>4, <2>1, <2>2 DEF Stopping
  <2>. QED  BY <1>0, <1>6, <2>1, <2>2, <2>3 DEF CleanLabels
<1>8. CASE CleanStop(th)
  <2>1. pc[Client(c)] = "clean_stop" /\ readers[Owner[c]] = c
    BY <1>2, <1>3, <1>8 DEF CleanStop
  <2>2. /\ Goto(th, "clean_join") /\ pc'[Client(c)] = "clean_join"
        /\ reading' = reading \ {c} /\ victim' = [victim EXCEPT ![th] = c]
        /\ UNCHANGED <<running, registered, tables, port, nested>>
    BY <1>0, <1>2, <1>3, <1>8, <2>1, ClientMoves DEF CleanStop
  <2>3. victim'[Client(c)] = c /\ \A d \in Conn \ {c} : victim'[Client(d)] = victim[Client(d)]
    BY <1>0, <1>2, <1>3, <2>2 DEF TypeOK
  <2>4. OwnsItsEntries(c)'
    BY <1>3, <1>4, <2>1, <2>2, <2>3 DEF Stopping
  <2>. QED  BY <1>0, <1>6, <2>2, <2>3, <2>4 DEF CleanLabels
<1>9. CASE CleanJoin(th)
  <2>1. pc[Client(c)] = "clean_join" /\ readers[Owner[c]] = c /\ victim[th] = c
    BY <1>2, <1>3, <1>9 DEF CleanJoin, Stopping
  <2>2. /\ Goto(th, "clean_delete") /\ pc'[Client(c)] = "clean_delete"
        /\ port' = [port EXCEPT ![c] = "closed"]
        /\ UNCHANGED <<running, registered, tables, reading, victim, nested>>
    BY <1>0, <1>2, <1>3, <1>9, <2>1, ClientMoves DEF CleanJoin, Closed
  <2>3. port'[c] = "closed" /\ \A d \in Conn \ {c} : port'[d] = port[d]
    BY <1>0, <2>2 DEF TypeOK
  <2>4. OwnsItsEntries(c)'
    BY <1>2, <1>3, <1>4, <2>1, <2>2, <2>3 DEF Stopping
  <2>5. c \notin nested
    BY <1>3, <1>5, <2>1 DEF TakesBack
  <2>. QED  BY <1>0, <1>6, <2>2, <2>3, <2>4, <2>5 DEF CleanLabels
<1>10. CASE CleanDelete(th)
  <2>1. pc[Client(c)] = "clean_delete" /\ readers[Owner[c]] = c
    BY <1>2, <1>3, <1>10 DEF CleanDelete
  <2>2. /\ Goto(th, "clean_network") /\ pc'[Client(c)] = "clean_network"
        /\ readers' = [readers EXCEPT ![Owner[c]] = None]
        /\ victim' = [victim EXCEPT ![th] = None]
        /\ UNCHANGED <<running, registered, metadata, network, pty, nested>>
    BY <1>0, <1>2, <1>3, <1>10, <2>1, ClientMoves DEF CleanDelete, Without
  <2>3. /\ \A d \in Conn \ {c} : victim'[Client(d)] = victim[Client(d)]
        /\ readers'[Owner[c]] = None /\ \A n \in Node \ {Owner[c]} : readers'[n] = readers[n]
    BY <1>0, <1>2, <1>3, <2>2 DEF TypeOK
  <2>4. OwnsItsEntries(c)'
    BY <1>3, <1>4, <2>1, <2>2, <2>3 DEF Stopping
  <2>. QED  BY <1>0, <1>6, <2>2, <2>3, <2>4 DEF CleanLabels
<1>11. CASE CleanNetwork(th)
  <2>1. UNCHANGED <<running, registered, metadata, readers, pty, victim, nested>>
    BY <1>2, <1>3, <1>11 DEF CleanNetwork
  <2>2. PICK l \in {"clean_remove", "clean_metadata"} :
           /\ Goto(th, l) /\ pc[Client(c)] \in {"clean_network", "clean_remove"}
           /\ pc'[Client(c)] = l
           /\ l = "clean_remove" => Owner[c] \in network /\ network' = network
           /\ network' \in {network, network \ {Owner[c]}}
    BY <1>0, <1>2, <1>3, <1>11, ClientMoves DEF CleanNetwork
  <2>3. OwnsItsEntries(c)'
    BY <1>3, <1>4, <2>1, <2>2 DEF Stopping
  <2>. QED  BY <1>0, <1>6, <2>1, <2>2, <2>3 DEF CleanLabels
<1>12. CASE CleanMetadata(th)
  <2>1. UNCHANGED <<running, registered, network, readers, pty, victim>>
    BY <1>12 DEF CleanMetadata
  <2>2. CASE Goto(th, "clean_forget")
    <3>1. /\ pc[Client(c)] = "clean_metadata" /\ pc'[Client(c)] = "clean_forget"
          /\ metadata[Owner[c]] # None /\ UNCHANGED <<metadata, nested>>
      BY <1>0, <1>2, <1>3, <1>12, <2>2, ClientMoves DEF CleanMetadata, Cleaned, TypeOK
    <3>2. OwnsItsEntries(c)'
      BY <1>3, <1>4, <2>1, <3>1 DEF Stopping
    <3>. QED  BY <1>0, <1>6, <2>1, <2>2, <3>1, <3>2 DEF CleanLabels
  <2>3. CASE ~Goto(th, "clean_forget")
    <3>1. /\ pc[Client(c)] \in {"clean_metadata", "clean_forget"}
          /\ Goto(th, Cleaned(th)) /\ nested' = nested \ {c}
          /\ \/ metadata[Owner[c]] = None /\ UNCHANGED metadata
             \/ metadata' = [metadata EXCEPT ![Owner[c]] = None]
      BY <1>2, <1>3, <1>12, <2>3 DEF CleanMetadata, Without
    <3>2. PICK l \in {"recv", "close"} :
             Goto(th, l) /\ pc'[Client(c)] = l /\ (l = "recv" => c \in nested)
      BY <1>0, <1>2, <1>3, <3>1, ClientMoves DEF Cleaned
    <3>3. /\ metadata'[Owner[c]] = None
          /\ \A n \in Node \ {Owner[c]} : metadata'[n] = metadata[n]
      BY <1>0, <1>3, <3>1 DEF TypeOK
    <3>4. OwnsItsEntries(c)'
      BY <1>3, <1>4, <2>1, <3>1, <3>2, <3>3 DEF Stopping
    <3>. QED  BY <1>0, <1>6, <2>1, <3>1, <3>2, <3>3, <3>4
  <2>. QED  BY <2>2, <2>3
<1>. QED  BY <1>7, <1>8, <1>9, <1>10, <1>11, <1>12 DEF Cleanup

--------------------------------------------------------------------------------
(* The theorems.                                                              *)

\* The invariant holds before anybody connects.
LEMMA IInvInit == Init => IInv
<1> SUFFICES ASSUME Init  PROVE IInv
  OBVIOUS
<1>1. /\ TypeOK /\ JobsValid /\ VictimsOwned /\ ReadersOwned
  BY TypeInit, TypeParts
<1>2. NewReadersUnknown /\ RegisteredFirst /\ NewIsOff /\ StopClearsRunning
  BY ConstantsAssumption, Threads
  DEF Init, NewReadersUnknown, RegisteredFirst, NewIsOff, StopClearsRunning, Stopping,
      Registering, NotInserted
<1>3. NoClosedReaderRouted
  BY DEF Init, NoClosedReaderRouted
<1>4. OrderlyInv
  BY Threads, ConstantsAssumption
  DEF Init, OrderlyInv, OneActive, Active, OnlyClientsClean, CleanLabels, MetadataOwned,
      OwnsItsEntries, FindsItsEntries, TakesOutItsEntries, Stopping
<1>5. ServedInv
  BY DEF Init, ServedInv, HasItsEntries
<1>. QED  BY <1>1, <1>2, <1>3, <1>4, <1>5 DEF IInv, GeneralInv

\* Every step preserves it.
LEMMA IInvStep == IInv /\ [Next]_vars => IInv'
<1> SUFFICES ASSUME IInv, [Next]_vars  PROVE IInv'
  OBVIOUS
<1>1. GeneralInv /\ NoClosedReaderRouted /\ OrderlyInv /\ ServedInv
      /\ TypeOK /\ JobsValid /\ VictimsOwned /\ ReadersOwned
  BY DEF IInv, GeneralInv
<1>2. TypeOK' /\ JobsValid' /\ VictimsOwned' /\ ReadersOwned'
  <2>1. ThreadInv' /\ SharedTypes' /\ ReadersOwned'
    BY <1>1, TypeParts, TypeStep
  <2>. QED  BY <2>1, TypeParts, PTL
<1>3. FreshInv' /\ NoClosedReaderRouted' /\ OrderlyInv' /\ ServedInv'
  <2>1. ASSUME NEW th \in Thread,
               \/ Route(th) \/ SerialWrite(th) \/ SocketWrite(th)
               \/ \E op \in setting.ops, target \in Node : Receive(th, op, target)
        PROVE  FreshInv' /\ NoClosedReaderRouted' /\ OrderlyInv' /\ ServedInv'
    BY <1>1, <2>1, BrokeringIs, FreshBroker, OrderlyBroker
  <2>2. ASSUME NEW th \in Thread, Cleanup(th)
        PROVE  FreshInv' /\ NoClosedReaderRouted' /\ OrderlyInv' /\ ServedInv'
    BY <1>1, <2>2, FreshCleanup, OrderlyCleanup
  <2>3. ASSUME NEW c \in Conn, Accept(c) \/ ClientStep(c)
        PROVE  FreshInv' /\ NoClosedReaderRouted' /\ OrderlyInv' /\ ServedInv'
    BY <1>1, <2>3, FreshConnection, OrderlyConnection
  <2>4. ASSUME NEW c \in Conn, Disconnect(c) \/ EndOfReader(c) \/ ReadFails(c)
        PROVE  FreshInv' /\ NoClosedReaderRouted' /\ OrderlyInv' /\ ServedInv'
    BY <1>1, <2>4, FreshConnection, OrderlyEnvironment
  <2>5. ASSUME \/ StopBegin \/ StopSockets \/ \E r \in Conn : StopReader(r)
               \/ \E n \in Node : Place(n)
        PROVE  FreshInv' /\ NoClosedReaderRouted' /\ OrderlyInv' /\ ServedInv'
    BY <1>1, <2>5, FreshOperator, OrderlyEnvironment
  <2>6. CASE UNCHANGED vars
    <3>. USE DEF vars, operator, tables, world, pty
    <3>1. FreshInv'
      BY <1>1, <2>6
      DEF GeneralInv, FreshInv, NewReadersUnknown, NotInserted, Stopping, RegisteredFirst,
          NewIsOff, StopClearsRunning
    <3>2. NoClosedReaderRouted'
      BY <1>1, <2>6 DEF NoClosedReaderRouted
    <3>3. OrderlyInv'
      BY <1>1, <2>6
      DEF OrderlyInv, Orderly, OneActive, Active, OnlyClientsClean, MetadataOwned,
          OwnsItsEntries, FindsItsEntries, TakesOutItsEntries, Stopping
    <3>4. ServedInv'
      BY <1>1, <2>6 DEF ServedInv, Orderly, HasItsEntries, TakesBack, Routable, Refused
    <3>. QED  BY <3>1, <3>2, <3>3, <3>4
  <2>. QED  BY <2>1, <2>2, <2>3, <2>4, <2>5, <2>6 DEF Next, Progress
<1>. QED  BY <1>2, <1>3 DEF IInv, GeneralInv, FreshInv

\* The inductive invariant: types and jobs; readers that are not in the table yet are
\* unknown to all that close readers, and closed ones are on their way out; in orderly use
\* a node's entries are put in, found and taken out by its one client thread.
THEOREM IInvHolds == Spec => []IInv
  BY IInvInit, IInvStep, PTL DEF Spec

\* Every table maps nodes to connections and every thread is at a known point, whatever
\* the threads and the operator do at once (backends.py:38-503).
THEOREM TypeCorrect == Spec => []TypeOK
  BY IInvHolds, PTL DEF IInv, GeneralInv

\* A reader whose PTY is closed is in the routing table only while a thread is about to
\* take it out, also when connections of a node overlap, reads fail and PTYs do not open
\* (backends.py:86-92, 375-387).
THEOREM ClosedReadersLeave == Spec => []NoClosedReaderRouted
  BY IInvHolds, PTL DEF IInv

\* In orderly use a registration is all or nothing, whether or not PTYs open, and the
\* threads of other nodes never take away what makes a serving node reachable
\* (backends.py:333-387).
THEOREM ServedStayRoutable == Spec => []ServedIsRoutable
<1>1. IInv => ServedIsRoutable
  BY DEF IInv, ServedInv, HasItsEntries, ServedIsRoutable, Serving
<1>. QED  BY <1>1, IInvHolds, PTL

\* In orderly use a client thread that has ended has left nothing of its connection
\* (backends.py:327-331, 375-387).
THEOREM EndedAreReleased == Spec => []EndedIsReleased
<1>1. IInv => EndedIsReleased
  BY DEF IInv, OrderlyInv, OwnsItsEntries, TakesOutItsEntries, EndedIsReleased, InUse,
         Brokering
<1>. QED  BY <1>1, IInvHolds, PTL

\* In orderly use no client thread dies of a KeyError in its clean-up
\* (backends.py:375-385).
THEOREM ClientsSurvive == Spec => []NoClientDies
<1>1. IInv => NoClientDies
  BY DEF IInv, OrderlyInv, OwnsItsEntries, FindsItsEntries, NoClientDies
<1>. QED  BY <1>1, IInvHolds, PTL
================================================================================
