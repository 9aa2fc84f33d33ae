----------------------------- MODULE SerialSession -----------------------------
(***************************************************************************)
(* A one-shot run of the CLI on a serial port.  The main thread checks the *)
(* id of the modem and then executes one command, each time by swapping a  *)
(* callback into its ModemNode, sending a query and waiting for the        *)
(* callback to be called.  The reader thread of SerialWireTransport calls  *)
(* it from whatever lines the modem sends, lines of an earlier run and     *)
(* pieces of lines included.                                               *)
(***************************************************************************)
EXTENDS Integers, Sequences

CONSTANTS
    Id,           \* addresses of modems
    NodeId,       \* the id the CLI was started with
    Target,       \* the id to ping
    NoId          \* no address; no callback

ASSUME ConstantsAssumption ==
    /\ {NodeId, Target} \subseteq Id
    /\ NoId \notin Id \cup {"verify", "command"}

Stage == {"verify", "command"}

\* Lines by the events they are parsed to.  The node of the CLI ignores every
\* event but a status response and a round-trip response.
Status(id) == [kind |-> "status", from |-> id]
RoundTrip(id) == [kind |-> "roundtrip", from |-> id]
Other == [kind |-> "other", from |-> NoId]
Event == [kind : {"status", "roundtrip"}, from : Id] \cup {Other}

VARIABLES
    command,      \* args.command: "status" or "ping"
    pc, stage,    \* main thread: where it is, in which of the two exchanges
    prior,        \* the callback it restores
    result,       \* how each exchange ended
    code,         \* exit code; -1 while undecided
    callback,     \* ModemNode._on_status_response and _on_roundtrip_response
    received,     \* what each exchange's capture received; NoId: done is not set
    asked,        \* ghost: was the query sent, and a fitting event handled since
    running,      \* SerialWireTransport._running
    port,         \* SerialWireTransport._serial
    reader,       \* reader thread: where it is
    event,        \* the event it dispatches
    queries,      \* commands on their way to the modem
    wire,         \* lines on their way from the modem
    modem,        \* the modem's address
    late          \* lines it still owes to an earlier run

main == <<pc, stage, prior, result, code>>
node == <<callback, received, asked>>
transport == <<running, port>>
thread == <<reader, event>>
line == <<queries, wire, late>>
setting == <<command, modem>>
vars == <<main, node, transport, thread, line, setting>>

Kind(s) == IF s = "verify" \/ command = "status" THEN "status" ELSE "roundtrip"

Init ==
    /\ command \in {"status", "ping"}
    /\ modem \in Id
    /\ late \in {<<>>, <<Status(modem)>>} \cup {<<RoundTrip(id)>> : id \in Id}
    /\ pc = "start" /\ stage = "verify" /\ prior = NoId /\ code = -1
    /\ result = [s \in Stage |-> "none"]
    /\ callback = [k \in {"status", "roundtrip"} |-> NoId]
    /\ received = [s \in Stage |-> NoId]
    /\ asked = [s \in Stage |-> "no"]
    /\ running = FALSE /\ port = "open"
    /\ reader = "unstarted" /\ event = Other
    /\ queries = <<>> /\ wire = <<>>

--------------------------------------------------------------------------------
(* The main thread.                                                           *)

\* The order of an exchange.
QueryFirst(p) ==    \* mutant
    [start |-> "query", query |-> "install", install |-> "wait"][p]
Following(p) == [start |-> "install", install |-> "query", query |-> "wait"][p]

Start ==
    /\ pc = "start"
    /\ running' = TRUE
    /\ reader' = "loop"
    /\ pc' = Following("start")
    /\ UNCHANGED <<stage, prior, result, code, node, port, event, line, setting>>

Install ==
    /\ pc = "install"
    /\ prior' = callback[Kind(stage)]
    /\ callback' = [callback EXCEPT ![Kind(stage)] = stage]
    /\ pc' = Following("install")
    /\ UNCHANGED <<stage, result, code, received, asked, transport, thread, line, setting>>

Query ==
    /\ pc = "query"
    /\ queries' = Append(queries, Kind(stage))
    /\ asked' = [asked EXCEPT ![stage] = "yes"]
    /\ pc' = Following("query")
    /\ UNCHANGED <<stage, prior, result, code, callback, received, transport, thread, wire, late,
                   setting>>

\* The exchange is over; its callback is to be restored.
EndUnrestored(r) ==    \* mutant: no finally clause
    /\ result' = [result EXCEPT ![stage] = r]
    /\ pc' = "stop"
    /\ UNCHANGED <<stage, prior, code, node, transport, thread, line, setting>>
End(r) ==
    /\ result' = [result EXCEPT ![stage] = r]
    /\ pc' = "restore"
    /\ UNCHANGED <<stage, prior, code, node, transport, thread, line, setting>>

QueryFails == pc = "query" /\ End("failed")    \* serial.write raises
Answered == pc = "wait" /\ received[stage] # NoId /\ End("answer")
TimeOut == pc = "wait" /\ received[stage] = NoId /\ End("timeout")

\* The finally clause; then the command, if the modem is the right one, or stop().
Verified == result["verify"] = "answer" /\ received["verify"] = NodeId

Restore ==
    /\ pc = "restore"
    /\ callback' = [callback EXCEPT ![Kind(stage)] = prior]
    /\ IF stage = "verify" /\ Verified
       THEN /\ stage' = "command"
            /\ pc' = Following("start")
            /\ UNCHANGED code
       ELSE /\ code' = IF stage = "command" /\ result[stage] = "answer" THEN 0 ELSE 1
            /\ pc' = "stop"
            /\ UNCHANGED stage
    /\ UNCHANGED <<prior, result, received, asked, transport, thread, line, setting>>

Stop ==
    /\ pc = "stop"
    /\ running' = FALSE
    /\ pc' = "join"
    /\ UNCHANGED <<stage, prior, result, code, node, port, thread, line, setting>>

\* join(timeout=2.0) returns, be the reader at its end or not.
CloseNothing ==    \* mutant
    /\ pc = "join"
    /\ pc' = "exit"
    /\ UNCHANGED <<stage, prior, result, code, node, transport, thread, line, setting>>
Close ==
    /\ pc = "join"
    /\ port' = "closed"
    /\ pc' = "exit"
    /\ UNCHANGED <<stage, prior, result, code, node, running, thread, line, setting>>

Main ==
    \/ Start \/ Install \/ Query \/ QueryFails \/ Answered \/ TimeOut \/ Restore \/ Stop \/ Close

--------------------------------------------------------------------------------
(* The reader thread.                                                         *)

Loop ==
    /\ reader = "loop"
    /\ reader' = IF running THEN "reading" ELSE "ended"
    /\ UNCHANGED <<main, node, transport, event, line, setting>>

ReadNothing ==    \* readline times out
    /\ reader = "reading" /\ port = "open"
    /\ reader' = "loop"
    /\ UNCHANGED <<main, node, transport, event, line, setting>>

ReadLine ==
    /\ reader = "reading" /\ port = "open"
    /\ wire # <<>>
    /\ event' = Head(wire)
    /\ wire' = Tail(wire)
    /\ reader' = "dispatch"
    /\ UNCHANGED <<main, node, transport, queries, late, setting>>

\* readline times out in the middle of a line: neither part is parsed to a status
\* or a round-trip response.
ReadPart ==
    /\ reader = "reading" /\ port = "open"
    /\ wire # <<>> /\ Head(wire) # Other
    /\ event' = Other
    /\ wire' = <<Other>> \o Tail(wire)
    /\ reader' = "dispatch"
    /\ UNCHANGED <<main, node, transport, queries, late, setting>>

ReadFails ==    \* SerialException: the port is gone or closed
    /\ reader = "reading"
    /\ reader' = "ended"
    /\ UNCHANGED <<main, node, transport, event, line, setting>>

\* What makes exchange s succeed: done is set.
AnyResponder(s, e) == e.kind = Kind(s)    \* mutant: responder not compared
Fits(s, e) == e.kind = Kind(s) /\ (e.kind = "roundtrip" => e.from = Target)

\* The event has been handled, called back or not.
Handled ==
    /\ asked' = IF asked[stage] = "yes" /\ result[stage] = "none" /\ Fits(stage, event)
                THEN [asked EXCEPT ![stage] = "answered"]
                ELSE asked
    /\ reader' = "loop"

Callback(e) == IF e = Other THEN NoId ELSE callback[e.kind]

\* _handle_event tests the attribute ...
Ignore ==
    /\ reader = "dispatch"
    /\ Callback(event) = NoId
    /\ Handled
    /\ UNCHANGED <<main, callback, received, transport, event, line, setting>>

Choose ==
    /\ reader = "dispatch"
    /\ Callback(event) # NoId
    /\ reader' = "call"
    /\ UNCHANGED <<main, node, transport, event, line, setting>>

\* ... and reads it again to call it.
Capture ==
    LET s == Callback(event) IN
    /\ reader = "call"
    /\ s # NoId
    /\ IF Fits(s, event) /\ received[s] = NoId
       THEN received' = [received EXCEPT ![s] = event.from]
       ELSE UNCHANGED received
    /\ Handled
    /\ UNCHANGED <<main, callback, transport, event, line, setting>>

CallNone ==    \* TypeError, caught and logged by _read_loop
    /\ reader = "call"
    /\ Callback(event) = NoId
    /\ Handled
    /\ UNCHANGED <<main, callback, received, transport, event, line, setting>>

Reader ==
    \/ Loop \/ ReadNothing \/ ReadLine \/ ReadPart \/ ReadFails
    \/ Ignore \/ Choose \/ Capture \/ CallNone

--------------------------------------------------------------------------------
(* The modem.                                                                 *)

Answers(query) ==
    IF query = "status"
    THEN {<<>>, <<Status(modem)>>}
    ELSE {<<>>, <<Other>>, <<Other, Other>>, <<Other, RoundTrip(Target)>>}

Answer ==
    /\ queries # <<>>
    /\ \E lines \in Answers(Head(queries)) : wire' = wire \o lines
    /\ queries' = Tail(queries)
    /\ UNCHANGED <<main, node, transport, thread, late, setting>>

AnswerLate ==
    /\ late # <<>>
    /\ wire' = wire \o late
    /\ late' = <<>>
    /\ UNCHANGED <<main, node, transport, thread, queries, setting>>

Next == (pc # "exit" /\ (Main \/ Reader)) \/ Answer \/ AnswerLate

\* The main thread's waits are bounded.  The reader and the modem may stall.
Spec == Init /\ [][Next]_vars /\ WF_vars(Main)

--------------------------------------------------------------------------------
(* Properties.                                                                *)

\* Types of the state; a callback that is installed belongs to the exchange the
\* main thread is in, and none is left when it exits (startup.py:56,
\* one_shot.py:44).
TypeOK ==
    /\ pc \in {"start", "install", "query", "wait", "restore", "stop", "join", "exit"}
    /\ stage \in Stage /\ prior = NoId /\ code \in -1..1
    /\ result \in [Stage -> {"none", "answer", "timeout", "failed"}]
    /\ callback \in [{"status", "roundtrip"} -> Stage \cup {NoId}]
    /\ \A k \in {"status", "roundtrip"} :
        callback[k] # NoId => /\ callback[k] = stage /\ k = Kind(stage)
                              /\ pc \in {"query", "wait", "restore"}
    /\ received \in [Stage -> Id \cup {NoId}]
    /\ asked \in [Stage -> {"no", "yes", "answered"}]
    /\ running \in BOOLEAN /\ port \in {"open", "closed"}
    /\ reader \in {"unstarted", "loop", "reading", "dispatch", "call", "ended"}
    /\ reader = "call" => event # Other
    /\ event \in Event
    /\ queries \in Seq({"status", "roundtrip"}) /\ {wire, late} \subseteq Seq(Event)
    /\ command \in {"status", "ping"} /\ modem \in Id

\* An answer the reader has handled after the query was sent and before the wait
\* was over is never reported as a timeout: between query and wait, between the
\* reader's test of the callback and its call, no answer is lost
\* (startup.py:41-45, one_shot.py:29-34 and 66-74).
TimelyAnswerCounts == \A s \in Stage : asked[s] = "answered" => result[s] # "timeout"

\* Exit code 0 is given only for the answer asked for, on the modem asked for:
\* the status of the modem the CLI was started for, or a range to the target
\* (startup.py:47, one_shot.py:60).
SuccessIsGenuine ==
    code = 0 =>
        /\ modem = NodeId
        /\ received["command"] = IF command = "status" THEN NodeId ELSE Target

\* The run ends with the port closed and an exit code, whatever the modem, the
\* port and the reader do (__main__.py:75).
SessionEnds == <>(pc = "exit" /\ port = "closed" /\ code # -1)

================================================================================
