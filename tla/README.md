# Formal models of nanomodem-python

TLA+ specifications of the parts of this repository that are hard to test: code in
which callbacks re-enter the caller, threads share tables without a lock, bytes arrive
in pieces and answers arrive late. Every definition is translated from the source;
`PROJECT.json` says from which lines (`map`), which run checks which property (`runs`),
which plausible bug breaks each property (`mutants`), and which theorems are proved.

    tlc  -workers 2 -config InMemoryBus.cfg MCInMemoryBus.tla
    tlapm InMemoryBus_proofs.tla

Paths below are relative to `src/packages/nanomodem/src/nanomodem` (library),
`.../nanomodem_cli` (CLI) or `.../nanomodem_demo` (demo).

## 1. The system

| Component | State it keeps | Operations | Talks to | What is hard |
|---|---|---|---|---|
| In-memory bus, `core/transports/in_memory.py` | `_transports` by id, `_heard_data_packet`; per transport `node_id`, position, callback | `register`, `unregister`, ten command handlers, `deliver` | application callbacks, called inside the handler | re-entrance: a callback may send, re-address, construct, stop or raise between two statements of a handler |
| Serial transport, `core/transports/serial_wire.py` | `_running`, `_serial`, `_lock`, reader thread | `start`, `stop`, `send_command`, `_read_loop` | modem; `ModemNode._handle_event` | reader thread; `readline` timing out inside a line; writers that share an unterminated byte stream |
| Wire driver, `core/driver.py`, `line_parsers.py`, `spec.py` | none | format a command, parse a line | transport | framing |
| Modem node, `core/modem_node.py` | one callback per kind of event | swap a callback, `_handle_event` | transport, application | callback attributes are tested and called in two reads |
| Positioning node, `positioning/positioning_node.py` | `_known_nodes`, own position and depth, capabilities | edits, reports, ranges, `calculate_position` | modem node; UI callbacks | reader thread and UI thread on one dictionary |
| CLI one-shot, `__main__.py`, `startup.py`, `one_shot.py` | the exchange in progress | check the id, then `status` or `ping`; stop | modem node, transport | timeouts racing late answers, clean-up on every path |
| Simulator backend, `simulator/backends.py` | `metadata_clients`, `serial_readers`, `network_acoustic_clients`, `_heard_data_packet`; per reader `running`, PTY, thread | accept, register, broker, clean up, stop | TCP clients, PTYs, `SimulatorState` | one thread per connection and per PTY, no lock, multi-statement clean-up, reconnection, joins |
| Command framing, `scenarios/modem_relay.py` | the reader's buffer | `split_modem_command` | PTY | commands without terminator, cut anywhere |
| Simulator clients, `simulator/protocol.py`, `transports/simulator_json.py`, launched by `scenarios/single_node.py` and `serial_bridge_with_god_view.py` | socket, `_running`, thread, `_buffer` of lines, GPS callback | `start`, `stop`, receive, split into lines, dispatch | backend; `root.after` of the Tk thread | lines cut by a timeout of the sender or mixed by its threads; updates before the main loop runs; a stop that joins a thread waiting for the stopper |
| Controller window, `controller.py` | edit target and type, edit field, debounce timer, selection; what is on the screen | edit, save, cancel, add, delete, range, map click, redraw, close | positioning node: calls it, and its reader thread schedules refreshes | a table that changes between two panels; reports before the main loop runs; timers that outlive their edit |
| Simulator window, `simulator/app.py` | UI queue, edit, selection; what is on the screen | drain the queue, edit, push GPS, redraw, close | backend threads, through the queue and by reading their tables | refreshes asked for by other threads; a loop that ends only when the queue is empty |
| Serial bridge of two nodes, legacy driver modules, mock scenarios | none or the same as the backend | | | not modelled, see 6 |

What makes each correct:

- *Bus*: it files every transport under the address the transport believes it has; acks
  and results reach the object that sent the command; a broadcast reaches everybody else;
  the heard flag follows a modem that changes its address.
- *Serial line*: commands arrive whole, in order, once, and without waiting for a later
  one.
- *Session*: no answer in time is lost, no wrong one is accepted, the run ends and closes
  the port.
- *Backend*: a served node can be reached; a departed one leaves nothing behind; clean-up
  raises nothing that kills a thread; after `stop()` all threads end.
- *Positioning*: what a node reported stands until the user works on that node; an
  inferred position rests on the position, depth and range that came last; every change
  of the table is announced to the controller.
- *Clients*: a message is dispatched exactly if it arrives on a line of its own, whatever
  happened to others; the position only moves on to later updates; none that is dispatched while the main loop runs is lost;
  closing the window ends.
- *Windows*: once nothing is scheduled the window shows what the node or the simulator
  holds, but for changes that are announced to nobody; an edit is of something that exists; the grey marker shows a place entered in
  this edit.

`hazards` in `PROJECT.json` lists what can go wrong, each at its line.

## 2. Modules

    InMemoryBus ------- MCInMemoryBus        InMemoryBus_proofs
    SimulatorBackend -- MCSimulatorBackend   SimulatorBackend_proofs
    CommandStream ----- MCCommandStream      CommandStream_proofs
       ===> CommandChannel (abstract)
    SerialSession --------------------       SerialSession_proofs
    PositioningNode --- MCPositioningNode    PositioningNode_proofs
    ControllerWindow -- MCControllerWindow   ControllerWindow_proofs
    SimulatorClient ------------------       SimulatorClient_proofs
       ===> GpsChannel (abstract)
    SimulatorWindow ------------------       SimulatorWindow_proofs

Each line reads: the module of a component, its instance for TLC (a module without one is
run as it is), its theorems. `===>` is a refinement.

Three modules compose components at a coarser grain than the modules that treat them
alone: `ControllerWindow` contains the changes `PositioningNode` makes to its table and
the launch of the process,
`SimulatorClient` the backend's end of the connection and the controller's launch and
shutdown, `SimulatorWindow` the registrations and clean-ups of `SimulatorBackend`.

**InMemoryBus.** The bus is synchronous, so its concurrency is its call stack. `stack`
has a frame for each handler in progress: the command, ids and sender object it was
called with (`op`, `sid`, `tid`, `caller`, `src`), the last delivery (`event`, `rcpt`)
and the listeners left (`todo`). One step runs a handler from the return of one callback
to its next `deliver` or to its return; between two steps the application in the callback
may do anything: `SendCommand` pushes a frame, `Construct`, `Stop` and `Reposition` change
objects, `CallbackRaises` unwinds a frame. Each handler of `dispatch` is an action with a
disjunct per stretch between deliveries. Distances, timestamps and payloads are left out;
whether both ends have a position (range or timeout) is kept. `stopped`, `detected` and
`undisturbed` are ghosts.

**SimulatorBackend.** One program counter per client thread, reader thread and for
`stop()`. A step is the code between two accesses of a shared table, so test-then-delete,
test-then-index and read-then-iterate are separate steps. A reader is named by the
connection whose registration made it; a table entry therefore tells which connection put
it there. A thread also takes what it has buffered when `stop()` has been called or the peer
has closed. `_cleanup_node` is the chain `CleanReader`, `CleanStop`, `CleanJoin`,
`CleanDelete`, `CleanNetwork`, `CleanMetadata` in whichever thread runs it: a client at
its end, a reader after an `OSError`, a registration whose PTY does not open. Brokering is
`Receive` (acks, relays and range results decided), `Route` (table test),
`SerialWrite`/`SocketWrite` (the indexing and the write), for each recipient in turn.

**CommandChannel, CommandStream.** `CommandChannel` is the promise: a FIFO of messages.
`CommandStream` is the code: `Format` (`format_command`), `SendCommand` and `Write` under
the transport's lock, a PTY that takes and gives any number of bytes, and the inner loop
of `SerialReader._read_loop` (`TakeCommand`, `TakeLine`, `Read`) with `CommandLength` for
`split_modem_command`. Bytes are digits and the few letters framing looks at. The
refinement maps the ghosts `sent` and `delivered` to the channel's variables.

**SerialSession.** `_run_one_shot`: `Start`; twice `Install`, `Query`, `Answered` or
`TimeOut` or `QueryFails`, `Restore`; `Stop`, `Close`; beside it the reader (`Loop`,
`Read...`, `Ignore` or `Choose` and then `Capture` or `CallNone`: the callback attribute
is tested and called in two steps) and a modem that may have any id, answers late or
never, and still owes a line to an earlier run. `ReadPart` is a `readline` that times out
inside a line. Lines are the events they parse to. The exchange's `capture` is installed
where `prior` was; nobody else installs one in the CLI, so `prior` is `None`.

**PositioningNode.** `table` maps an id to a `KnownNode` object, `object` holds the
objects, so that an insertion which replaces an entry is told from an update of it. A
thread's `frame` is the method it executes: the accesses of the table still to come, the
argument, and the local variables of `calculate_position`. One step is one access: the
test and the insertion of `_ensure_known_node`, each assignment to a field (`KeyError` if
the entry is gone), each turn of an iteration (`RuntimeError` if the dictionary has
changed its size), each object that is read again. Every exception ends the method, as
the reader loop and Tk catch it. A value is the number of the report it came with, 0 if
entered by hand, so two values are equal only if they came together. An id that is
deleted and added again during one iteration is visited once, and an insertion never
moves the entries under an iteration (CPython may do that when it resizes a dictionary
that has had deletions). `last` and `dirty` are ghosts: the report and the range that came
last from each node since the UI worked on it, and whether a change is still to be
announced. An edit of a node clears its `last`, except a `request_range` of a node that is
in the table, which changes nothing; what comes while the UI still may change the entry
(`Busy`) is not counted.

**ControllerWindow.** The Tk thread runs one callback at a time; its own statements are
one step, and what it redraws is left in `todo`, a panel per step (`Draw`), because each
panel reads the node's table anew and the reader thread (`StoreReport`, `StoreRange`,
`Announce`) may change it in between. `main` is the constructor, the launch or the main loop:
the transport runs from `StartTransport` on, and until `EnterMainLoop` the reader's call of
`root.after` waits for the main loop (`Announce`) or raises (`AnnounceFails`), after which no
refresh is scheduled for what it stored. `pending` counts `root.after(0, _refresh_ui)`.
Assigning the edit field calls `_on_edit_var_changed` (`Changed`), which arms or cancels
the debounce timer; `SyncSelection` is its expiry, at any later moment. The field's text
is a position, a number, nothing or something else. The screen is what each row shows
(`rows`; `Edited` for a row with its edit field), the combobox, markers and circles, so a
button exists only where it was drawn. `silent` and `entered` are ghosts: the nodes changed
with no refresh scheduled and not drawn since, and what was entered in this edit.

**GpsChannel, SimulatorClient.** `GpsChannel` is the promise: updates may be lost, the
position moves on. `SimulatorClient` has the simulator's end, where any thread calls
`sendall` on the connection and nothing locks it: a message is two pieces, `BeginSend` writes
the first or fails, `EndSend` the second, `GiveUp` is the 0.1 s timeout in between, and the
pieces of other calls may come between the two. Only GPS updates, all sent by the Tk thread,
do not overlap each other. Then the line buffer (`LinesOf`,
`AfterLastLine`), the reader loop of both clients (`Connect`, `LoopTest`, `Timeout`,
`Receive`, `Dispatch`, one line of `lines`, the text of the complete lines, at a time), and the main thread of three setups (`--network`, `--world`, God
View): `Launch`, `SetHandler`, `Verify`, the main loop (`Serve` is Tk executing the call
another thread waits for, `Apply` the callback it scheduled), `CloseWindow` and `Join`.
Before the main loop the hand-over raises (`PostFails`). The effect of acoustic messages
is left out. A message is `Intact` if its pieces stand on a line of their own in `written`, a
ghost that holds all that was ever put on the connection.

**SimulatorWindow.** The threads of the backend register nodes in four steps (`Register`,
`StoreTransport`, `AnnounceText`, `AnnounceRefresh`), clean up, broker and update the
belief of the id in the payload, which registers an id that is not known yet and asks for
no refresh; the Tk thread polls (`BeginPoll`, `TakeItem` per item, `EndPoll`), redraws panel
by panel, edits, and pushes GPS updates, looking the socket up twice as
`send_gps_update` does. `poll = "dead"` is a poll that raised because the window was
destroyed. `unseen` and `clicked` are ghosts: what changed without a refresh being asked
for, and the clicks of this edit.

## 3. Runs

| Run | Bounds | Shows |
|---|---|---|
| `bus` | 3 transports, 3 ids, commands nested 2 deep; two scenarios | *identity*: all orders of constructing, stopping, re-addressing, broadcasting and unicasting, also inside callbacks, which may raise; *traffic*: every other command, data sent and quality asked for from callbacks, address changes: `RegistryConsistent`, `RegisteredIffLive`, `RepliesToCaller`, `BroadcastReachesOthers`, `QualityExact` |
| `backend_tables` | three settings. *Reconnection*: a serial node with 2 successive connections, a network node, broadcasts, `stop()` at any point. *Refusal*: the same without traffic when PTYs may not open. *Overlap*: 2 overlapping connections of one serial node, failing reads and PTYs, the other commands | `ServedIsRoutable`, `EndedIsReleased`, `NoClientDies` in orderly use; `NoClosedReaderRouted` always |
| `backend_release` | a serial and a network node; broadcasts, malformed input, `OSError` | `DepartedIsReleased`, `StopEndsThreads` under fairness |
| `backend_reconnect` | 3 connections, those of one node may overlap | *violated*: see findings |
| `backend_serial_error` | as release, without commands | *violated*: see findings |
| `stream` | 2 threads, 2 commands of 7 kinds and payloads, 1 stray line break, any chunks | `ImplementsChannel` (refinement), `NothingStaysBehind`, `AllArrive` |
| `stream_lines` | 1 broadcast with a line break in its payload | *violated*: see findings |
| `session` | 3 ids, 1 owed line | `TimelyAnswerCounts`, `SuccessIsGenuine`, `SessionEnds` |
| `positioning` | 2 ids, 4 reports or ranges, 2 operations of the UI, 5 of these together, `MinUsable` 1 | `ReportsStand`, `ChangesAnnounced`, `InferenceIsCurrent` |
| `controller` | 2 nodes with one position between them or 1 node with 2 positions, 1 scheduled refresh; in the launch no edit, one node and one position | `SettledIsShown`, `EditedIsKnown`, `SelectionOfThisEdit`, `TypedIsMarked` |
| `client` | 3 messages of 2 pieces, 3 setups | `PositionMovesOn` (refinement of `GpsChannel`), `IntactIsHandled`, `DispatchedIsApplied`, `CloseEnds`, `IntactIsHandledInTheEnd` |
| `simulator_window` | 2 nodes, one of which connects (again and again), 1 position, queue of 1 | `SettledIsShown`, `SelectionOfThisEdit`; `RegisteredIsShown` under fairness |

`TypeOK` of each module is checked in its first run.

Why the bounds are enough to show the hard cases. *Bus*: an error of identity needs a
sender, a target and a third transport that takes or leaves an id; every handler looks the
registry up at most once between two callbacks, so one nested command already puts a
change between any two statements. *Backend*: a clean-up interferes with one registration
of the same node and with one other node's brokering; two connections of one node and one
peer give all pairs of threads. *Stream*: an error of framing shows at the border of two
commands; payloads include an empty one, a blank one and one that reads `$?`. *Session*:
the only id that matters besides the node's and the target's is "another".
*Positioning*: a position and a range of each of two nodes, or an update of one, against
an edit, or three of them against a deletion and a re-insertion or a `request_range`, at any
access (1.8 million states; `FiveCalls` leaves out a sixth call). `MinUsable`, 3 in the code, is 1, so that a calculation can follow an
update within four reports; the properties do not depend on it. *Controller*: an error
takes an edit and another node or another position to confuse it with; states beyond
`TwoNodesOrTwoPositions` are checked and not explored further, nor are edits and second
nodes in the launch (`SmallLaunch`), where the window and its callbacks are those of the main
loop and only the announcement differs (2.4 million states). One
scheduled refresh is enough because a further one only repeats it later. *Client*: two
messages that mix, or a cut one and the one it spoils, and the one that must survive. *Simulator window*: a position
that another one replaces shows as a row or marker that appears, changes to the edit
field or stays blank, so one position is enough; a node that is only placed, or known from a
payload, stands beside the one that connects; a queue of one, which holds a
thread back until the Tk thread has taken the item before, still lets a poll take any
sequence of items (785,000 states; the safety properties are proved for every bound).

Options narrow the environment and are named in the cfg or the MC module. `Disciplined`:
the application constructs only under free ids and stops each transport once (the code
displaces an existing registration otherwise). `Settings` of the backend: which
connections are made and commands sent, which failures occur, whether `stop()` is called,
and `exclusive`: a node connects again only after its former connection was closed and
cleaned up; the run draws one setting and keeps it. `Orderly` in three properties is
`exclusive` without failing reads.

`CHECK_DEADLOCK FALSE`: backend, stream, session, positioning, the client and both windows
come to an end by design (all connections used, all commands or messages sent, the process
gone, the window closed with nothing scheduled, the bounds reached). The bus run checks
deadlock.

**Fairness.** *Backend*: weak fairness for a thread that can run; none for a client, which
may never register, send or leave. Strong fairness for `EndOfReader` and for the steps of a
client thread: either may be busy brokering each time it could notice that it was stopped or
its peer has gone, but what it has buffered is finite and the loops look after each chunk. *Stream*: a write that has begun continues and
the reader runs; nobody has to send. *Session*: only the main thread, whose waits all have
timeouts; reader and modem may stall for ever. *Client*: launching, the reader's own steps,
the Tk main loop and the join's timeout, weakly; `Receive` strongly, since the reader is
between two timeouts at times. Nobody has to send or to close. *Simulator window*: weak
fairness for what a thread or Tk callback can go on with, strong for a `put` into a bounded
queue (the code's queue has no bound), for the 50 ms timer among other callbacks and for
finding the queue empty. `RegisteredIsShown` further assumes `Pauses`, that the queue is
empty again and again: `_process_ui_queue` returns to the main loop only then, and without
pauses the window shows nothing any more.

## 4. Findings

1. `backend_reconnect`: the clean-up of a connection removes by node id
   (`backends.py:329`, `375-387`). If a node reconnects before the backend has noticed the
   end of its old connection, the new one is removed from the tables while it is open,
   although the docstring speaks of "a disconnected node".
2. `backend_serial_error`: after an `OSError` the reader thread reaches
   `SerialReader.stop` through `on_error`; joining itself raises `RuntimeError`
   (`backends.py:90`), so the PTY is never closed and the entry stays.
3. `stream_lines`: a line break in the payload of a partly read broadcast is taken for the
   end of a line (`backends.py:119`); the user guide allows any byte value.

The last does not occur with the position codec, whose payloads are printable.

## 5. Proofs

Every safety property of the passing runs is proved, for all values of the constants: any
numbers of transports, connections, nodes, messages and edits, any nesting of callbacks and
any interleaving. Liveness is model-checked only. Each `X_proofs` module proves an inductive
invariant `IInv` (`SessionIInv` for the session) by one step per action, and the properties
from it. The assumptions are those named `ConstantsAssumption` in the modules, which the runs
evaluate; where a theorem needs a hypothesis on the use of the component it is stated in the
theorem and named below.

**Bus.** `TypeCorrect`, `RegistryStaysConsistent`, without hypothesis. `TypeOK` and
`RegistryConsistent` alone are not inductive: a handler that resumes after a callback
delivers to objects its frame remembers, and `deliver` reads their `node_id`. So the
invariant adds that every transport in a frame is constructed (`FramesRefer`) and every
stopped one too. The handlers change the stack in few ways (push, exchange, return); lemmas
show once that each keeps the invariant, and each handler is shown to make only such moves.
Under `Disciplined`, which is an option of the model: `LiveStayReachable`,
`AnswersReachTheCaller`, `BroadcastsReachTheOthers`. The second adds `CallersFound`: only the
innermost frame can be one whose command is not yet handled, so that nothing has happened
since it was sent, and a sender object once looked up is the caller. `HeardFlagsAreExact`
(`QualityExact`) speaks of a bus that is still `undisturbed`, a ghost: no transport has been
stopped, and no callback that was receiving data has raised, changed its address or asked for
quality, each of which leaves a flag missing or on the wrong id. Its invariant says where an
unset flag is still owed, to the receiver of a data frame on the stack (`Hearing`), and that
nothing is just being delivered to a transport whose `SetAddress` or `QualityQuery` waits to be
handled (`FlagCommandsAreFree`): the handler finds that transport and no other under the
sender's id. The other callbacks may do anything, nested to any depth.

**Backend.** `TypeCorrect`, `ClosedReadersLeave` always; `EndedAreReleased`,
`ClientsSurvive` and `ServedStayRoutable` in orderly use (`Orderly` is in the properties). The
last says that a registration is all or nothing: a node that is served can be reached, or its
own PTY did not open and it is in no table (`Refused`); other nodes' PTYs do not matter. The
invariant is ownership: a node's entries belong to its one active connection (`OneActive`),
whose program counter says which are there (`HasItsEntries`), which it has still to take out
(`TakesOutItsEntries`) and, where its registration has failed, that it takes them all back
(`TakesBack`); so every test-then-delete finds what it tested. Always true is that a reader about to be inserted is
not yet known to any other thread (`NewReadersUnknown`), which keeps closed ones out.

**Stream.** `StreamIsChannel`: if no payload has a line break (`OneLine`), `CommandStream`
implements `CommandChannel`. The invariant regards buffer, PTY and what the holder of the
lock has still to write as one text and says that it consists of the commands not yet
delivered, in the order of the lock, with only line breaks between them (`Whole`: there are
positions at which they end). Writes and reads move borders in that text. `Measured` is what
framing needs: from any beginning of a command `split_modem_command` finds its length or
waits. `OneLine` is exactly what the run `stream_lines` lacks: `LinelessDataPasses` proves,
under it, the property which that run refutes without it. `NoCommandStaysBehind` is the safe half of
`AllArrive`: by `Measured`, a reader that has all there is and still waits has nothing left to
deliver. `TypeCorrect` needs no hypothesis.

**Session.** `SessionTypes`, `NoTimelyAnswerLost`, `SuccessIsEarned`. The invariant adds to
the properties (`Exchange`) that while an exchange waits its own callback is installed, and
that an answer handled after the query is in `received` as long as the exchange is open:
without that, nothing rules out a `TimeOut` after the answer. `Honest` says that status lines
carry the modem's own id and that what an exchange received is what it asked for. The converse of
`SuccessIsEarned` is `FailureHasAReason`, with the safe half of `SessionEnds`: a run that ends
has closed its port and restored the callbacks, and code 1 means another modem, a failed port or
no answer in time.

**Positioning.** `TypeCorrect`, `ReportsAreKept`, `ChangesAreAnnounced`,
`InferenceUsesTheCurrent`. The invariant speaks of what the plan of each method has still to
do: a field that is not as reported is in the reader's plan (`Stored`), what it calculates
with is in the table (`Calculated`), and a change not yet announced has a thread that will
announce it (`WillAnnounce`), also when another thread deletes the entry under it. It rests on
the shape of plans (`GoodPlan`): no word twice, an announcement after every change; and on
where the UI thread is: busy with no node of which a report is counted (`UIElsewhere`), so that
a `request_range` of such a node finds its entry.

**Client.** `TypeCorrect`, `ExactlyIntactIsHandled`, and the refinement
`ImplementsGpsChannel`. Wire, buffer and complete lines are one text here too (`Flow`): it is
the end of `written`, and what precedes it was taken line by line, so it begins a line
(`FlowInv`). Messages begin in the order of their numbers, though threads mix them
(`WrittenInv`). A line that parses is therefore a message that is `Intact`, and an intact
message is a line: `HandledInv` says that the messages dispatched are exactly those whole in
what has been taken. Updates reach the node in the order in which they were begun
(`PendingInv`). `UpdatesAreNotDropped`, an action property, is the safe half of
`DispatchedIsApplied`: an update handed to the running main loop leaves Tk's queues for the node
only.

**Windows.** `TypeCorrect`, `SettledWindowIsRight` and `SelectionBelongs` of both, and
`EditedStaysKnown` and `TypedGetsMarked` of the controller's. A panel shows what the table held
when it was drawn, so `SettledIsShown` is inductive only with what holds in the middle of a
redraw: unless a refresh is due, the panels already drawn are right (`PanelsFresh`), for every
node but those whose change is not yet announced or never could be. That an
edited node stays known depends on the buttons on the screen, hence on the drawn rows
(`RowsAreKnown`). `ConnectedNodesGetRows` is the safe half of `RegisteredIsShown`, without its
assumption `Pauses`: from its registration on a node has a row or a refresh under way.

What a recursive definition computes cannot be proved by induction here. Where a proof needs
it for a text or a sequence of any length it argues by a smallest or largest position with the
property in question, whose existence follows from the well-foundedness of the natural
numbers.

Only model-checked: the liveness properties (`DepartedIsReleased`, `StopEndsThreads`,
`AllArrive`, `SessionEnds`, `DispatchedIsApplied`, `CloseEnds`,
`IntactIsHandledInTheEnd`, `RegisteredIsShown`), which this prover cannot treat, and the three
violated properties. The
safe halves of most are proved, that what is awaited has come or is still on its way:
`EndedAreReleased`, `NoCommandStaysBehind`, `FailureHasAReason`, `UpdatesAreNotDropped`,
`ExactlyIntactIsHandled` and `ConnectedNodesGetRows`. That the steps are then taken rests on the
fairness of section 3 and on the runs. `CloseEnds` has no such half: the join has a timeout.

`ReportsStand` and `InferenceIsCurrent` speak of what came since the UI last worked on the
node, and `InferenceIsCurrent` of the reader's own calculations. That is what the code guarantees: a
first report can be lost when the user adds or pings the same node at that moment
(`positioning_node.py:247`), and a calculation started by the user can read between two
stores of a report (`:215`). `ChangesAnnounced` leaves out the entry `request_range` makes,
which is announced to nobody (`:148`).

In the controller window four behaviours are outside the properties because nothing in the
repository excludes them: a report that arrives between the start of the transport
(`single_node.py:65-66`) and the main loop (`:193`) is stored, but `root.after` raises in the
reader thread after a second (`controller.py:133`), and the window does not show the report
until something else redraws it (`silent`); after cancel or save the debounce timer can put the grey marker
back (`controller.py:316-331`); adding a node that is known already erases its position
(`:397`); `request_range` shows its new entry only at the next refresh. In the simulator
window beliefs, the ids they register, and departures wait for the next refresh too, and a map click fills in no
depth, which makes it 0 (`app.py:202-207`, `231-249`).

## 6. Not modelled

Floating-point numerics (`positioning/calculation.py`), the drawing of maps and widgets,
consoles, logging, text formats of single lines (unit-tested, straight-line). In the backend:
a second `register` message on a connection, and a registration that does not make sense (a
transport type other than the two, a serial one without `pty_path`), which logs
a warning and leaves the node without acoustic transport. In the simulator window: ids that are not numbers, for
which `int(node_id)` ends the poll (hazard `app.py:322`); controllers and codec write three
digits. In the stream: the commands the simulator does
not know (`$U`, `$M`, `$E`, `$V`, `$A`), which block the buffer until a line break (hazard
`modem_relay.py:91`). In the session: `--in-memory`, where everything happens on one thread
inside the bus. In the positioning node: its own position and depth and their callbacks,
single assignments. An announcement that raises in
the launch ends the reader's method there: only `ControllerWindow` has this, and an inference
needs a range, which the UI asks for later. In the controller window: the buttons that only send
a command, and the depth and the range that a row shows beside its position.

`serial_bridge_2_nodes.py`: two relay threads over `socat`, fixed for the life of the
process. Their decisions are those of `HybridBackend._broker_message`, made with the same
functions of `modem_relay.py`; framing is `split_modem_command`; there is no registration,
clean-up or stop to race with. What differs from the backend is that a failing port of the
peer ends the relay of the sender (`serial_bridge_2_nodes.py:198`), and that one break
leaves the other direction running. `drivers/v3_*.py` and the top-level `calculation.py` are
re-exports and an unused earlier version.

## 7. Plan

Done: the models of all components in section 1 but those of section 6, the two refinements,
and the proofs of all safety properties.

What is left, in the order of what it would add:

1. The flags of the bus when a data-receiving callback raises, re-addresses or queries (hazard
   `in_memory.py:109`): one may then be missing, or on another id. `QualityExact` says nothing after such a callback.
2. `StopEndsThreads` for connections of one node that overlap: two of them can each start a
   reader, of which only one stays in the table; the runs of fairness use one connection per
   node.
3. A second `register` message on a connection, and the commands the simulator does not know.
