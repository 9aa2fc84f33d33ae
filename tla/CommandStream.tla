----------------------------- MODULE CommandStream -----------------------------
(***************************************************************************)
(* The byte stream from a host to a simulated modem.  Modem commands have  *)
(* no terminator: NanomodemV3Driver.format_command writes them back to     *)
(* back, several threads of the host through SerialWireTransport._write,   *)
(* and SerialReader._read_loop cuts the stream up again with               *)
(* split_modem_command, wherever the chunks it reads happen to end.        *)
(*                                                                         *)
(* For the commands the simulator understands and payloads without line    *)
(* breaks, the stream implements a CommandChannel, line breaks typed       *)
(* between commands notwithstanding.                                       *)
(***************************************************************************)
EXTENDS Integers, Sequences, SequencesExt

CONSTANTS
    Thread,       \* threads of the host that send commands
    Nobody,       \* the lock is free
    Command,      \* the commands they send
    MaxSent,      \* bound: commands sent in a behaviour
    MaxReturns    \* bound: line breaks typed and not yet read away

\* A byte is a digit 0..9 or one of these.
Dollar == 10     Bee == 11       Pee == 12      Tee == 13     Queue == 14
Question == 15   Blank == 16     LineFeed == 17 Letter == 18

Digit == 0..9
Byte == 0..18
White == {Blank, LineFeed}

\* Of core/wire_types.py, the commands split_modem_command knows.
Kinds == {"StatusQuery", "QualityQuery", "Ping", "TestRequest", "Broadcast"}

ASSUME ConstantsAssumption ==
    /\ Nobody \notin Thread
    /\ \A c \in Command :
        /\ c.kind \in Kinds
        /\ c.kind \in {"Ping", "TestRequest"} => c.target \in [1..3 -> Digit]
        /\ c.kind = "Broadcast" => c.data \in Seq(Byte) /\ Len(c.data) <= 99
    /\ {MaxSent, MaxReturns} \subseteq Nat

VARIABLES
    lock,         \* SerialWireTransport._lock: the thread inside _write
    out,          \* what each thread has still to write
    wire,         \* bytes in the PTY
    buffer,       \* the buffer of _read_loop
    sent,         \* ghost: the commands sent, in the order of the lock
    delivered     \* ghost: the commands handed to on_data

vars == <<lock, out, wire, buffer, sent, delivered>>

--------------------------------------------------------------------------------
(* Formatting (core/driver.py, core/spec.py).                                 *)

\* Two decimal digits.
ByteCountOfCommand(data) == <<(Len(data) + 2) \div 10, (Len(data) + 2) % 10>>  \* mutant
ByteCount(data) == <<Len(data) \div 10, Len(data) % 10>>

Format(c) ==
    CASE c.kind = "StatusQuery"  -> <<Dollar, Question>>
      [] c.kind = "QualityQuery" -> <<Dollar, Queue>>
      [] c.kind = "Ping"         -> <<Dollar, Pee>> \o c.target
      [] c.kind = "TestRequest"  -> <<Dollar, Tee>> \o c.target
      [] c.kind = "Broadcast"    -> <<Dollar, Bee>> \o ByteCount(c.data) \o c.data

--------------------------------------------------------------------------------
(* Splitting (scenarios/modem_relay.py).                                      *)

Strip(buf) ==    \* lstrip
    LET i == SelectInSeq(buf, LAMBDA b : b \notin White)
    IN IF i = 0 THEN <<>> ELSE SubSeq(buf, i, Len(buf))

StartsWith(buf, letter) == Len(buf) >= 2 /\ buf[1] = Dollar /\ buf[2] = letter

\* The length of the command that buf starts with; 0 while it is unknown.
CommandLength(buf) ==
    CASE StartsWith(buf, Bee) ->
            IF Len(buf) >= 4 /\ {buf[3], buf[4]} \subseteq Digit
            THEN 4 + 10 * buf[3] + buf[4]
            ELSE 0
      [] StartsWith(buf, Question) \/ StartsWith(buf, Queue) -> 2
      [] StartsWith(buf, Tee) \/ StartsWith(buf, Pee) -> 5
      [] OTHER -> 0

\* split_modem_command(buffer) is not None.
HasMoreThanCommand(buf) == CommandLength(buf) \in 1..(Len(buf) - 1)    \* mutant
HasCommand(buf) == CommandLength(buf) \in 1..Len(buf)

--------------------------------------------------------------------------------
(* The host.                                                                  *)

Init ==
    /\ lock = Nobody
    /\ out = [t \in Thread |-> <<>>]
    /\ wire = <<>>
    /\ buffer = <<>>
    /\ sent = <<>>
    /\ delivered = <<>>

\* send_command formats outside the lock; the order is that of the lock.
SendWithoutLock(t, c) ==    \* mutant: no "with self._lock"
    /\ out[t] = <<>>
    /\ Len(sent) < MaxSent
    /\ out' = [out EXCEPT ![t] = Format(c)]
    /\ sent' = Append(sent, Format(c))
    /\ UNCHANGED <<lock, wire, buffer, delivered>>
SendCommand(t, c) ==
    /\ lock = Nobody
    /\ Len(sent) < MaxSent
    /\ lock' = t
    /\ out' = [out EXCEPT ![t] = Format(c)]
    /\ sent' = Append(sent, Format(c))
    /\ UNCHANGED <<wire, buffer, delivered>>

\* serial.write: the driver takes n bytes, as room allows; the lock is released
\* after the last.
Write(t, n) ==
    /\ wire' = wire \o SubSeq(out[t], 1, n)
    /\ out' = [out EXCEPT ![t] = SubSeq(@, n + 1, Len(@))]
    /\ lock' = IF n = Len(out[t]) THEN Nobody ELSE lock
    /\ UNCHANGED <<buffer, sent, delivered>>

--------------------------------------------------------------------------------
(* The reader (SerialReader._read_loop).                                      *)

\* The inner loop takes commands off the buffer for as long as it finds one ...
TakeCommand ==
    LET buf == Strip(buffer)
        n == CommandLength(buf)
    IN
    /\ HasCommand(buf)
    /\ delivered' = Append(delivered, SubSeq(buf, 1, n))
    /\ buffer' = SubSeq(buf, n + 1, Len(buf))
    /\ UNCHANGED <<lock, out, wire, sent>>

\* ... or a line, which is handed on unless it is blank ...
TakeLine ==
    LET i == SelectInSeq(buffer, LAMBDA b : b = LineFeed)
        line == SubSeq(buffer, 1, i)
    IN
    /\ ~HasCommand(Strip(buffer))
    /\ i > 0
    /\ delivered' = IF Strip(line) = <<>> THEN delivered ELSE Append(delivered, line)
    /\ buffer' = SubSeq(buffer, i + 1, Len(buffer))
    /\ UNCHANGED <<lock, out, wire, sent>>

\* ... and reads n bytes more when it finds neither.
AwaitsInput == ~HasCommand(Strip(buffer)) /\ ~Contains(buffer, LineFeed)

Read(n) ==
    /\ AwaitsInput
    /\ buffer' = buffer \o SubSeq(wire, 1, n)
    /\ wire' = SubSeq(wire, n + 1, Len(wire))
    /\ UNCHANGED <<lock, out, sent, delivered>>

\* Somebody at a terminal ends a command with Return, as the parsers of
\* modem_relay.py allow.
TypeReturn ==
    /\ lock = Nobody
    /\ Len(SelectSeq(buffer \o wire, LAMBDA b : b = LineFeed)) < MaxReturns
    /\ wire' = Append(wire, LineFeed)
    /\ UNCHANGED <<lock, out, buffer, sent, delivered>>

--------------------------------------------------------------------------------
Writing(t) == \E n \in 1..Len(out[t]) : Write(t, n)
Reading == TakeCommand \/ TakeLine \/ \E n \in 1..Len(wire) : Read(n)

Next == \/ \E t \in Thread, c \in Command : SendCommand(t, c)
        \/ \E t \in Thread : Writing(t)
        \/ Reading
        \/ TypeReturn

\* A write that has begun goes on (the simulator keeps the PTY drained), and the
\* reader's loop has no other wait than the one for input.
Spec == Init /\ [][Next]_vars /\ (\A t \in Thread : WF_vars(Writing(t))) /\ WF_vars(Reading)

--------------------------------------------------------------------------------
(* Properties.                                                                *)

Bytes == Seq(Byte)

\* Types of the state; only the thread that holds the lock has something to
\* write (serial_wire.py:82).
TypeOK ==
    /\ lock \in Thread \cup {Nobody}
    /\ out \in [Thread -> Bytes]
    /\ \A t \in Thread : out[t] # <<>> => lock = t
    /\ {wire, buffer} \subseteq Bytes
    /\ {sent, delivered} \subseteq Seq(Bytes)

\* The threads' locked writes, the PTY and the splitting reader together are a
\* FIFO channel: whatever the chunks, on_data gets the commands that were sent,
\* whole, in the order of the lock, and nothing else (backends.py:100).
Channel == INSTANCE CommandChannel WITH Message <- {Format(c) : c \in Command}
ImplementsChannel == Channel!Spec

\* No command stays behind: when everything sent has been written and the reader
\* has taken all of it out of the PTY and waits for more, on_data has got it all
\* (modem_relay.py:57).
NothingStaysBehind ==
    lock = Nobody /\ wire = <<>> /\ AwaitsInput => delivered = sent

\* Every command sent is handed to on_data in the end, without waiting for a
\* later one to push it through (modem_relay.py:57).
AllArrive == \A n \in 1..MaxSent : Len(sent) >= n ~> Len(delivered) >= n

\* The broadcast rule of the user guide, docs/nanomodem_v3_user_guide.md:124:
\* "Data (d) can be any printable or non-printable byte value."  What reaches
\* on_data is what was sent, whatever the payload.
AnyDataPasses == IsPrefix(delivered, sent)

================================================================================
