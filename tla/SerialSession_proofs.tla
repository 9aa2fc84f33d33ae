------------------------- MODULE SerialSession_proofs --------------------------
(***************************************************************************)
(* The safety properties of SerialSession hold for every set of addresses, *)
(* every modem and every order in which main thread, reader thread and     *)
(* modem take their steps.                                                 *)
(***************************************************************************)
EXTENDS SerialSession, TLAPS

\* While an exchange waits, its own callback is in place; an answer handled after
\* the query is in received before the exchange ends.
Exchange ==
    /\ pc \in {"query", "wait"} => callback[Kind(stage)] = stage
    /\ pc \in {"start", "install", "query", "wait"} => result[stage] = "none"
    /\ pc \in {"start", "install", "query"} => asked[stage] = "no"
    /\ asked[stage] # "no" /\ result[stage] = "none" => pc = "wait"
    /\ stage = "verify" => asked["command"] = "no" /\ result["command"] = "none"
    /\ \A s \in Stage :
        asked[s] = "answered" /\ result[s] = "none" => received[s] # NoId

\* The status lines come from the modem itself, and what was received fits.
Honest ==
    /\ {wire, late} \subseteq Seq({e \in Event : e.kind = "status" => e.from = modem})
    /\ event.kind = "status" => event.from = modem
    /\ \A s \in Stage :
        /\ received[s] # NoId => received[s] = IF Kind(s) = "status" THEN modem ELSE Target
        /\ result[s] = "answer" => received[s] # NoId
    /\ stage = "command" => received["verify"] = NodeId
    /\ code = 0 => stage = "command" /\ result["command"] = "answer"

IInv == TypeOK /\ Exchange /\ TimelyAnswerCounts /\ Honest

\* Sequences of at most two lines of a set.
LEMMA ShortSeq == ASSUME NEW S, NEW a \in S, NEW b \in S
                  PROVE  <<>> \in Seq(S) /\ <<a>> \in Seq(S) /\ <<a, b>> \in Seq(S)
  OBVIOUS

\* What the modem still owes at the start.
LEMMA LateLines == ASSUME NEW S, Status(modem) \in S, \A id \in Id : RoundTrip(id) \in S, Init
                   PROVE  late \in Seq(S)
  <1>1. <<>> \in Seq(S) /\ <<Status(modem)>> \in Seq(S)
    BY ShortSeq
  <1>2. ASSUME NEW id \in Id PROVE <<RoundTrip(id)>> \in Seq(S)
    BY ShortSeq
  <1> QED
    BY <1>1, <1>2 DEF Init

\* An exchange waits for one of two kinds of event.
LEMMA KindType == ASSUME NEW s, command \in {"status", "ping"}
                  PROVE  Kind(s) \in {"status", "roundtrip"}
  BY DEF Kind

\* The initial states satisfy the inductive invariant.
LEMMA InitIInv == Init => IInv
  <1> SUFFICES ASSUME Init PROVE IInv
    OBVIOUS
  <1> USE ConstantsAssumption DEF Init, Stage, Status, RoundTrip, Other, Kind
  <1> DEFINE Lines == {e \in Event : e.kind = "status" => e.from = modem}
  <1>0. /\ Other \in Event
        /\ Status(modem) \in Lines
        /\ \A id \in Id : RoundTrip(id) \in Lines
        /\ Lines \subseteq Event
    BY DEF Event
  <1>1. TypeOK
    <2>1. late \in Seq(Event)
      <3> HIDE DEF Lines, Status, RoundTrip, Init
      <3> QED
        BY <1>0, LateLines
    <2> HIDE DEF Lines
    <2>2. queries \in Seq({"status", "roundtrip"}) /\ wire \in Seq(Event)
      OBVIOUS
    <2>3. /\ callback \in [{"status", "roundtrip"} -> Stage \cup {NoId}]
          /\ \A k \in {"status", "roundtrip"} : callback[k] = NoId
      OBVIOUS
    <2>4. /\ result \in [Stage -> {"none", "answer", "timeout", "failed"}]
          /\ received \in [Stage -> Id \cup {NoId}]
          /\ asked \in [Stage -> {"no", "yes", "answered"}]
      OBVIOUS
    <2>5. /\ stage \in Stage /\ prior = NoId /\ code \in -1..1
          /\ port \in {"open", "closed"}
          /\ command \in {"status", "ping"} /\ modem \in Id
      OBVIOUS
    <2>6. running \in BOOLEAN
      BY Zenon
    <2>7. /\ pc \in {"start", "install", "query", "wait", "restore", "stop", "join", "exit"}
          /\ reader \in {"unstarted", "loop", "reading", "dispatch", "call", "ended"}
          /\ reader # "call"
          /\ event \in Event
      BY <1>0
    <2> HIDE DEF Init, Stage, Other, Kind
    <2> QED
      BY <2>1, <2>2, <2>3, <2>4, <2>5, <2>7, <2>6 DEF TypeOK
  <1>2. Exchange
    BY DEF Exchange
  <1>3. TimelyAnswerCounts
    BY DEF TimelyAnswerCounts
  <1>4. Honest
    <2>1. late \in Seq(Lines)
      <3> HIDE DEF Lines, Status, RoundTrip, Init
      <3> QED
        BY <1>0, LateLines
    <2> QED
      BY <2>1 DEF Honest
  <1> QED
    BY <1>1, <1>2, <1>3, <1>4 DEF IInv

\* Every step keeps the types.
LEMMA TypeStep == IInv /\ [Next]_vars => TypeOK'
  <1> SUFFICES ASSUME IInv, [Next]_vars PROVE TypeOK'
    OBVIOUS
  <1> USE ConstantsAssumption DEF IInv, TypeOK, Stage, Following, main, node, transport, thread,
          line, setting
  <1>k. Kind(stage) \in {"status", "roundtrip"}
    BY KindType
  <1>e. Other \in Event /\ Status(modem) \in Event /\ RoundTrip(Target) \in Event
    BY DEF Other, Status, RoundTrip, Event
  <1>1. CASE Start
    BY <1>1 DEF Start, Kind
  <1>2. CASE Install
    BY <1>2, <1>k DEF Install, Kind
  <1>3. CASE Query
    BY <1>3, <1>k DEF Query, Kind
  <1>4. CASE QueryFails \/ Answered \/ TimeOut
    BY <1>4 DEF QueryFails, Answered, TimeOut, End, Kind
  <1>5. CASE Restore
    BY <1>5, <1>k DEF Restore, Kind
  <1>6. CASE Stop \/ Close
    BY <1>6 DEF Stop, Close, Kind
  <1>7. CASE Loop \/ ReadNothing \/ ReadFails
    BY <1>7 DEF Loop, ReadNothing, ReadFails, Kind
  <1>8. CASE ReadLine \/ ReadPart
    <2>1. Head(wire) \in Event /\ Tail(wire) \in Seq(Event)
      BY <1>8 DEF ReadLine, ReadPart
    <2>2. <<Other>> \o Tail(wire) \in Seq(Event)
      BY <2>1, <1>e
    <2> QED
      BY <1>8, <1>e, <2>1, <2>2 DEF ReadLine, ReadPart, Kind
  <1>9. CASE Ignore \/ Choose \/ Capture \/ CallNone
    BY <1>9 DEF Ignore, Choose, Capture, CallNone, Handled, Callback, Event, Other, Kind
  <1>10. CASE Answer
    <2>1. PICK lines \in Answers(Head(queries)) : wire' = wire \o lines
      BY <1>10 DEF Answer
    <2>2. lines \in Seq(Event)
      <3>1. <<>> \in Seq(Event) /\ <<Status(modem)>> \in Seq(Event)
        BY <1>e, ShortSeq
      <3>2. <<Other>> \in Seq(Event) /\ <<Other, Other>> \in Seq(Event)
        BY <1>e, ShortSeq
      <3>3. <<Other, RoundTrip(Target)>> \in Seq(Event)
        BY <1>e, ShortSeq
      <3> QED
        BY <2>1, <3>1, <3>2, <3>3 DEF Answers
    <2>3. wire' \in Seq(Event)
      BY <2>1, <2>2
    <2>4. queries' \in Seq({"status", "roundtrip"})
      BY <1>10 DEF Answer
    <2> QED
      BY <1>10, <2>3, <2>4 DEF Answer, Kind
  <1>11. CASE AnswerLate
    BY <1>11 DEF AnswerLate, Kind
  <1>12. CASE UNCHANGED vars
    BY <1>12 DEF vars, Kind
  <1> QED
    BY <1>1, <1>2, <1>3, <1>4, <1>5, <1>6, <1>7, <1>8, <1>9, <1>10, <1>11, <1>12
       DEF Next, Main, Reader

\* Every step keeps an exchange and its callback together.
LEMMA ExchangeStep == IInv /\ [Next]_vars => Exchange'
  <1> SUFFICES ASSUME IInv, [Next]_vars PROVE Exchange'
    OBVIOUS
  <1> USE ConstantsAssumption DEF IInv, TypeOK, Exchange, Stage, Following, main, node,
          transport, thread, line, setting
  <1>k. Kind(stage) \in {"status", "roundtrip"}
    BY KindType
  <1>1. CASE Start
    BY <1>1 DEF Start, Kind
  <1>2. CASE Install
    BY <1>2, <1>k DEF Install, Kind
  <1>3. CASE Query
    BY <1>3, <1>k DEF Query, Kind
  <1>4. CASE QueryFails \/ Answered \/ TimeOut
    BY <1>4 DEF QueryFails, Answered, TimeOut, End, Kind
  <1>5. CASE Restore
    BY <1>5, <1>k DEF Restore, Kind, Verified
  <1>6. CASE Stop \/ Close
    BY <1>6 DEF Stop, Close, Kind
  <1>7. CASE Loop \/ ReadNothing \/ ReadFails \/ ReadLine \/ ReadPart
    BY <1>7 DEF Loop, ReadNothing, ReadFails, ReadLine, ReadPart, Kind
  <1>8. CASE Ignore \/ CallNone
    BY <1>8, <1>k DEF Ignore, CallNone, Handled, Callback, Fits, Other, Kind
  <1>9. CASE Choose
    BY <1>9 DEF Choose, Kind
  <1>10. CASE Capture
    BY <1>10, <1>k DEF Capture, Handled, Callback, Event, Other, Fits, Kind
  <1>11. CASE Answer \/ AnswerLate
    BY <1>11 DEF Answer, AnswerLate, Kind
  <1>12. CASE UNCHANGED vars
    BY <1>12 DEF vars, Kind
  <1> QED
    BY <1>1, <1>2, <1>3, <1>4, <1>5, <1>6, <1>7, <1>8, <1>9, <1>10, <1>11, <1>12
       DEF Next, Main, Reader

\* No step turns an exchange with a handled answer into a timeout.
LEMMA TimelyStep == IInv /\ [Next]_vars => TimelyAnswerCounts'
  <1> SUFFICES ASSUME IInv, [Next]_vars PROVE TimelyAnswerCounts'
    OBVIOUS
  <1> USE ConstantsAssumption DEF IInv, TypeOK, Exchange, TimelyAnswerCounts, Stage, main, node,
          transport, thread, line, setting
  <1>1. CASE Start \/ Install \/ Query \/ Restore \/ Stop \/ Close
    BY <1>1 DEF Start, Install, Query, Restore, Stop, Close
  <1>2. CASE QueryFails \/ Answered \/ TimeOut
    BY <1>2 DEF QueryFails, Answered, TimeOut, End
  <1>3. CASE Loop \/ ReadNothing \/ ReadFails \/ ReadLine \/ ReadPart \/ Choose
    BY <1>3 DEF Loop, ReadNothing, ReadFails, ReadLine, ReadPart, Choose
  <1>4. CASE Ignore \/ Capture \/ CallNone
    BY <1>4 DEF Ignore, Capture, CallNone, Handled
  <1>5. CASE Answer \/ AnswerLate \/ UNCHANGED vars
    BY <1>5 DEF Answer, AnswerLate, vars
  <1> QED
    BY <1>1, <1>2, <1>3, <1>4, <1>5 DEF Next, Main, Reader

\* Every step keeps what is known of the lines and of what was received.
LEMMA HonestStep == IInv /\ [Next]_vars => Honest'
  <1> SUFFICES ASSUME IInv, [Next]_vars PROVE Honest'
    OBVIOUS
  <1> USE ConstantsAssumption DEF IInv, TypeOK, Honest, Stage, Following, main, node, transport,
          thread, line, setting
  <1> DEFINE Lines == {e \in Event : e.kind = "status" => e.from = modem}
  <1>k. \A s \in Stage : Kind(s)' = Kind(s) /\ Lines' = Lines
    BY DEF Next, Main, Reader, Start, Install, Query, QueryFails, Answered, TimeOut, End, Restore,
           Stop, Close, Loop, ReadNothing, ReadFails, ReadLine, ReadPart, Ignore, Choose, Capture,
           CallNone, Answer, AnswerLate, vars, Kind
  <1>e. Other \in Lines /\ Status(modem) \in Lines /\ RoundTrip(Target) \in Lines
    BY DEF Other, Status, RoundTrip, Event
  <1>1. CASE Start \/ Install \/ Query \/ Stop \/ Close
    BY <1>1, <1>k DEF Start, Install, Query, Stop, Close
  <1>2. CASE QueryFails \/ Answered \/ TimeOut
    BY <1>2, <1>k DEF QueryFails, Answered, TimeOut, End, Exchange
  <1>3. CASE Restore
    BY <1>3, <1>k DEF Restore, Verified, Exchange
  <1>4. CASE Loop \/ ReadNothing \/ ReadFails \/ Ignore \/ Choose \/ CallNone
    BY <1>4, <1>k DEF Loop, ReadNothing, ReadFails, Ignore, Choose, CallNone, Handled
  <1>5. CASE ReadLine \/ ReadPart
    <2> HIDE DEF Lines
    <2>1. wire \in Seq(Lines) /\ wire # <<>>
      BY <1>5 DEF Lines, ReadLine, ReadPart
    <2>2. Head(wire) \in Lines /\ Tail(wire) \in Seq(Lines)
      BY <2>1
    <2>3. <<Other>> \o Tail(wire) \in Seq(Lines)
      BY <2>2, <1>e
    <2>4. wire' \in Seq(Lines)' /\ event' \in Lines
      BY <1>5, <1>e, <1>k, <2>2, <2>3 DEF ReadLine, ReadPart
    <2> QED
      BY <1>5, <1>k, <2>4 DEF ReadLine, ReadPart, Lines
  <1>6. CASE Capture
    BY <1>6, <1>k DEF Capture, Handled, Callback, Fits, Event, Other
  <1>7. CASE Answer
    <2> HIDE DEF Lines
    <2>1. PICK lines \in Answers(Head(queries)) : wire' = wire \o lines
      BY <1>7 DEF Answer
    <2>2. lines \in Seq(Lines)
      <3>1. <<>> \in Seq(Lines) /\ <<Status(modem)>> \in Seq(Lines)
        BY <1>e, ShortSeq
      <3>2. <<Other>> \in Seq(Lines) /\ <<Other, Other>> \in Seq(Lines)
        BY <1>e, ShortSeq
      <3>3. <<Other, RoundTrip(Target)>> \in Seq(Lines)
        BY <1>e, ShortSeq
      <3> QED
        BY <2>1, <3>1, <3>2, <3>3 DEF Answers
    <2>3. wire \in Seq(Lines)
      BY DEF Lines
    <2>4. wire' \in Seq(Lines)
      BY <2>1, <2>2, <2>3
    <2> QED
      BY <1>7, <1>k, <2>4 DEF Answer, Lines
  <1>8. CASE AnswerLate
    <2> HIDE DEF Lines
    <2>1. wire \in Seq(Lines) /\ late \in Seq(Lines)
      BY DEF Lines
    <2>2. wire' \in Seq(Lines) /\ late' \in Seq(Lines)
      BY <1>8, <2>1 DEF AnswerLate
    <2> QED
      BY <1>8, <1>k, <2>2 DEF AnswerLate, Lines
  <1>9. CASE UNCHANGED vars
    BY <1>9, <1>k DEF vars
  <1> QED
    BY <1>1, <1>2, <1>3, <1>4, <1>5, <1>6, <1>7, <1>8, <1>9 DEF Next, Main, Reader

\* The inductive invariant holds in every reachable state.
THEOREM SessionIInv == Spec => []IInv
  <1>1. IInv /\ [Next]_vars => IInv'
    BY TypeStep, ExchangeStep, TimelyStep, HonestStep DEF IInv
  <1> QED
    BY InitIInv, <1>1, PTL DEF Spec

\* The types hold, and no callback outlives its exchange (startup.py:56).
THEOREM SessionTypes == Spec => []TypeOK
  <1>1. IInv => TypeOK
    BY DEF IInv
  <1> QED
    BY SessionIInv, <1>1, PTL

\* An answer handled in time is never reported as a timeout (one_shot.py:29-34).
THEOREM NoTimelyAnswerLost == Spec => []TimelyAnswerCounts
  <1>1. IInv => TimelyAnswerCounts
    BY DEF IInv
  <1> QED
    BY SessionIInv, <1>1, PTL

\* Exit code 0 stands for the answer asked for, from the modem asked for
\* (startup.py:47, one_shot.py:60).
THEOREM SuccessIsEarned == Spec => []SuccessIsGenuine
  <1>1. IInv => SuccessIsGenuine
    BY ConstantsAssumption
       DEF IInv, TypeOK, Honest, SuccessIsGenuine, Stage, Kind
  <1> QED
    BY SessionIInv, <1>1, PTL

--------------------------------------------------------------------------------
(* How a run ends.                                                            *)

\* An exchange that is over has a result, the port is open until the exit, and a run
\* that fails has met the wrong modem or an exchange without an answer.
Verdict ==
    /\ port = "closed" <=> pc = "exit"
    /\ code # -1 <=> pc \in {"stop", "join", "exit"}
    /\ pc = "restore" => result[stage] # "none"
    /\ code = 1 => modem # NodeId \/ \E s \in Stage : result[s] \in {"timeout", "failed"}

\* Every step keeps it; the callback may still write to an exchange that is over.
LEMMA VerdictStep == IInv /\ Verdict /\ [Next]_vars => Verdict'
  <1> SUFFICES ASSUME IInv, Verdict, [Next]_vars PROVE Verdict'
    OBVIOUS
  <1> USE ConstantsAssumption DEF IInv, TypeOK, Verdict, Stage, Following, main, node, transport,
          thread, line, setting
  <1>1. CASE Start \/ Install \/ Query \/ Stop \/ Close
    BY <1>1 DEF Start, Install, Query, Stop, Close
  <1>2. CASE QueryFails \/ Answered \/ TimeOut
    BY <1>2 DEF QueryFails, Answered, TimeOut, End
  <1>3. CASE Restore
    <2>1. result[stage] = "answer" /\ stage = "verify" /\ ~Verified => modem # NodeId
      BY DEF Honest, Verified, Kind
    <2> QED
      BY <1>3, <2>1 DEF Restore, Verified
  <1>4. CASE Reader \/ Answer \/ AnswerLate \/ UNCHANGED vars
    BY <1>4 DEF Reader, Loop, ReadNothing, ReadLine, ReadPart, ReadFails, Ignore, Choose, Capture,
                CallNone, Handled, Answer, AnswerLate, vars
  <1> QED
    BY <1>1, <1>2, <1>3, <1>4 DEF Next, Main

\* When a run ends its port is closed and no callback of it is left in the node; it ends
\* with 0 or 1, and with 1 only for a reason: the modem has another id, the port failed,
\* or no answer was handled before the time was over (startup.py:41-60,
\* one_shot.py:29-74, __main__.py:61-76).
ExitHasAReason ==
    pc = "exit" =>
        /\ port = "closed" /\ code \in {0, 1}
        /\ \A k \in {"status", "roundtrip"} : callback[k] = NoId
        /\ code = 1 =>
              \/ modem # NodeId
              \/ \E s \in Stage : \/ result[s] = "failed"
                                  \/ result[s] = "timeout" /\ asked[s] # "answered"

\* Whatever modem, port and reader do, a run that ends has closed its port and restored
\* the callbacks, and does not report a failure of which there was none (__main__.py:75).
THEOREM FailureHasAReason == Spec => []ExitHasAReason
  <1>1. Init => Verdict
    BY DEF Init, Verdict
  <1>2. IInv /\ Verdict => ExitHasAReason
    <2> SUFFICES ASSUME IInv, Verdict, pc = "exit" PROVE ExitHasAReason
      BY DEF ExitHasAReason
    <2>1. port = "closed" /\ code \in {0, 1}
      BY DEF IInv, TypeOK, Verdict
    <2>2. \A k \in {"status", "roundtrip"} : callback[k] = NoId
      BY DEF IInv, TypeOK
    <2>3. ASSUME code = 1, NEW s \in Stage, result[s] = "timeout" PROVE asked[s] # "answered"
      BY <2>3 DEF IInv, TimelyAnswerCounts
    <2>4. ASSUME code = 1, modem = NodeId
          PROVE  \E s \in Stage : \/ result[s] = "failed"
                                  \/ result[s] = "timeout" /\ asked[s] # "answered"
      <3>1. PICK s \in Stage : result[s] \in {"timeout", "failed"}
        BY <2>4 DEF Verdict
      <3>2. result[s] = "timeout" => asked[s] # "answered"
        BY <2>3, <2>4
      <3> QED
        BY <3>1, <3>2
    <2> QED
      BY <2>1, <2>2, <2>4 DEF ExitHasAReason
  <1> QED
    BY SessionIInv, VerdictStep, <1>1, <1>2, PTL DEF Spec

================================================================================
