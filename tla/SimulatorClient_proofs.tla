------------------------- MODULE SimulatorClient_proofs -------------------------
(***************************************************************************)
(* Theorems about SimulatorClient, for any number of messages, cut off or  *)
(* mixed up in any way, and received in chunks of any size.                *)
(*                                                                         *)
(* What the simulator has written and the client has not yet dispatched is *)
(* one text, wherever it is: on the wire, in the buffer or among the lines *)
(* to dispatch.  It is the end of all that was ever written, from the      *)
(* beginning of a line on.  Receiving moves a border in it, dispatching    *)
(* takes its first line away, sending appends to it.                       *)
(***************************************************************************)
EXTENDS SimulatorClient, SequenceTheorems, WellFoundedInduction, TLAPS

Flow == (lines \o buffer) \o wire

\* So much of what was written has been dispatched or dropped, line by line.
Taken == Len(written) - Len(Flow)
FlowInv ==
    /\ Len(Flow) <= Len(written)
    /\ \A i \in 1..Len(Flow) : Flow[i] = written[Taken + i]
    /\ Taken # 0 => EndsLine(written[Taken])

\* Messages are numbered as they begin.
WrittenInv ==
    /\ \A i \in 1..Len(written) : written[i].message \in 1..Len(sent)
    /\ \A i, j \in 1..Len(written) :
          i < j /\ ~EndsLine(written[i]) /\ ~EndsLine(written[j])
             => written[i].message < written[j].message

\* The messages that are whole on a line of what has been taken, and the one that waits
\* for Tk, are the ones that were dispatched.
WholeIn(k, done) == \E i \in 1..Len(written) : i + 1 <= done /\ IntactAt(i, k)
Done == IF reader = "posting" THEN Taken + 2 ELSE Taken
HandledInv ==
    /\ Done <= Len(written)
    /\ \A k \in 1..MaxSent : k \in handled <=> WholeIn(k, Done)

\* Updates come to the node in the order in which they were begun.
Came(k) == \E i \in 1..Len(written) : i <= Taken /\ written[i] = Head1(k)
Arrived == {pending[i] : i \in 1..Len(pending)} \cup {current}
PendingInv ==
    /\ \A k \in Arrived \ {0} : Came(k)
    /\ \A i \in 1..Len(pending) : current < pending[i]
    /\ \A i, j \in 1..Len(pending) : i < j => pending[i] < pending[j]

\* Lines are there only while they are dispatched.
LinesInv == reader \notin {"dispatch", "posting"} => lines = <<>>

IInv == TypeOK /\ LinesInv /\ FlowInv /\ WrittenInv /\ HandledInv /\ PendingInv

--------------------------------------------------------------------------------
(* Numbers and texts.                                                         *)

\* A non-empty set of natural numbers has a smallest element.
LEMMA Smallest ==
    ASSUME NEW T, T \subseteq Nat, T # {}
    PROVE  \E x \in T : \A y \in T : x <= y
<1>. DEFINE R == OpToRel(<, Nat)
<1>1. IsWellFoundedOn(R, Nat)
  BY NatLessThanWellFounded
<1>2. PICK x \in T : \A y \in T : ~(<<y, x>> \in R)
  <2>. HIDE DEF R
  <2>. QED  BY <1>1, WFMin
<1>3. \A y \in T : ~(y < x)
  BY <1>2 DEF OpToRel
<1>. QED  BY <1>3

\* A non-empty set of natural numbers up to n has a largest element.
LEMMA Largest ==
    ASSUME NEW n \in Nat, NEW T, T \subseteq 0..n, T # {}
    PROVE  \E x \in T : \A y \in T : y <= x
<1>. DEFINE bounds == {m \in Nat : \A y \in T : y <= m}
<1>1. PICK x \in bounds : \A m \in bounds : x <= m
  <2>1. n \in bounds
    OBVIOUS
  <2>. QED  BY <2>1, Smallest
<1>2. x \in T
  <2>. SUFFICES ASSUME x \notin T  PROVE FALSE
    OBVIOUS
  <2>1. \A y \in T : y \in Nat /\ y <= x /\ y # x
    <3>1. \A y \in T : y <= x
      OBVIOUS
    <3>2. \A y \in T : y \in 0..n
      OBVIOUS
    <3>. QED  BY <3>1, <3>2
  <2>2. \A z \in T : z <= x - 1
    BY <2>1
  <2>3. x - 1 \in Nat
    <3>1. \E y \in T : TRUE
      OBVIOUS
    <3>. QED  BY <2>1, <3>1
  <2>4. x - 1 \in bounds
    BY <2>2, <2>3
  <2>. QED  BY <1>1, <2>4
<1>. QED  BY <1>1, <1>2

\* The newlines of a text.
LEMMA EndsAre ==
    ASSUME NEW text \in Seq(Pieces)
    PROVE  /\ Len(text) \in Nat /\ DOMAIN text = 1..Len(text)
           /\ \A i \in 1..Len(text) : text[i] \in Pieces
           /\ Ends(text) \subseteq 1..Len(text)
           /\ \A i \in 1..Len(text) : i \in Ends(text) <=> EndsLine(text[i])
  BY LenProperties, ElementOfSeq DEF Ends

\* The first newline.
LEMMA FirstEndIs ==
    ASSUME NEW text \in Seq(Pieces), Ends(text) # {}
    PROVE  /\ FirstEnd(text) \in 1..Len(text) /\ EndsLine(text[FirstEnd(text)])
           /\ \A i \in 1..FirstEnd(text)-1 : ~EndsLine(text[i])
<1>1. \E e \in Ends(text) : \A i \in Ends(text) : e <= i
  BY EndsAre, Smallest
<1>2. FirstEnd(text) \in Ends(text) /\ \A i \in Ends(text) : FirstEnd(text) <= i
  BY <1>1 DEF FirstEnd
<1>. QED  BY <1>2, EndsAre

\* The last newline.
LEMMA LastEndIs ==
    ASSUME NEW text \in Seq(Pieces)
    PROVE  /\ LastEnd(text) \in 0..Len(text)
           /\ LastEnd(text) # 0 => EndsLine(text[LastEnd(text)])
           /\ \A i \in LastEnd(text)+1..Len(text) : ~EndsLine(text[i])
<1>1. \E e \in Ends(text) \cup {0} : \A i \in Ends(text) \cup {0} : i <= e
  BY SMTT(30), EndsAre, Largest
<1>2. LastEnd(text) \in Ends(text) \cup {0} /\ \A i \in Ends(text) : i <= LastEnd(text)
  BY <1>1 DEF LastEnd
<1>. QED  BY <1>2, EndsAre

\* A text cut in two.
LEMMA CutIs ==
    ASSUME NEW text \in Seq(Pieces), NEW e \in 0..Len(text)
    PROVE  /\ SubSeq(text, 1, e) \in Seq(Pieces) /\ Len(SubSeq(text, 1, e)) = e
           /\ \A i \in 1..e : SubSeq(text, 1, e)[i] = text[i]
           /\ SubSeq(text, e + 1, Len(text)) \in Seq(Pieces)
           /\ Len(SubSeq(text, e + 1, Len(text))) = Len(text) - e
           /\ \A i \in 1..Len(text)-e : SubSeq(text, e + 1, Len(text))[i] = text[e + i]
           /\ SubSeq(text, 1, e) \o SubSeq(text, e + 1, Len(text)) = text
<1>1. Len(text) \in Nat /\ \A i \in 1..Len(text) : text[i] \in Pieces
  BY EndsAre
<1>2. /\ SubSeq(text, 1, e) \in Seq(Pieces)
      /\ Len(SubSeq(text, 1, e)) = IF 1 <= e THEN e - 1 + 1 ELSE 0
      /\ \A i \in 1..e-1+1 : SubSeq(text, 1, e)[i] = text[1 + i - 1]
  <2>1. \A i \in 1..e : text[i] \in Pieces
    BY <1>1
  <2>. QED  BY <2>1, SubSeqProperties
<1>3. /\ SubSeq(text, e + 1, Len(text)) \in Seq(Pieces)
      /\ Len(SubSeq(text, e + 1, Len(text)))
            = IF e + 1 <= Len(text) THEN Len(text) - (e + 1) + 1 ELSE 0
      /\ \A i \in 1..Len(text)-(e+1)+1 :
            SubSeq(text, e + 1, Len(text))[i] = text[(e + 1) + i - 1]
  <2>1. e + 1 \in Int /\ Len(text) \in Int /\ \A i \in e+1..Len(text) : text[i] \in Pieces
    BY <1>1
  <2>. QED  BY <2>1, SubSeqProperties
<1>4. SubSeq(text, 1, e) \o SubSeq(text, e + 1, Len(text)) = SubSeq(text, 1, Len(text))
  <2>1. 1 \in 1..Len(text)+1 /\ e \in 1-1..Len(text) /\ Len(text) \in e..Len(text)
    BY <1>1
  <2>. QED  BY <2>1, ConcatAdjacentSubSeq
<1>5. SubSeq(text, 1, Len(text)) = text
  BY SubSeqFull
<1>6. Len(SubSeq(text, 1, e)) = e /\ \A i \in 1..e : SubSeq(text, 1, e)[i] = text[i]
  BY <1>1, <1>2
<1>7. /\ Len(SubSeq(text, e + 1, Len(text))) = Len(text) - e
      /\ \A i \in 1..Len(text)-e : SubSeq(text, e + 1, Len(text))[i] = text[e + i]
  BY <1>1, <1>3
<1>. QED  BY <1>2, <1>3, <1>4, <1>5, <1>6, <1>7

\* The first line and the others.
LEMMA FirstLineIs ==
    ASSUME NEW text \in Seq(Pieces), text # <<>>, EndsLine(text[Len(text)])
    PROVE  LET e == FirstEnd(text) IN
           /\ e \in 1..Len(text) /\ EndsLine(text[e]) /\ \A i \in 1..e-1 : ~EndsLine(text[i])
           /\ FirstLine(text) \in Seq(Pieces) /\ Len(FirstLine(text)) = e
           /\ \A i \in 1..e : FirstLine(text)[i] = text[i]
           /\ OtherLines(text) \in Seq(Pieces) /\ Len(OtherLines(text)) = Len(text) - e
           /\ \A i \in 1..Len(text)-e : OtherLines(text)[i] = text[e + i]
           /\ FirstLine(text) \o OtherLines(text) = text
           /\ OtherLines(text) # <<>> => EndsLine(OtherLines(text)[Len(OtherLines(text))])
<1>. DEFINE e == FirstEnd(text)
<1>1. Len(text) \in Nat /\ Len(text) # 0
  BY EndsAre, EmptySeq
<1>2. Ends(text) # {}
  <2>1. Len(text) \in 1..Len(text)
    BY <1>1
  <2>. QED  BY <2>1, EndsAre
<1>3. e \in 1..Len(text) /\ EndsLine(text[e]) /\ \A i \in 1..e-1 : ~EndsLine(text[i])
  BY <1>2, FirstEndIs
<1>. HIDE DEF e
<1>4. /\ SubSeq(text, 1, e) \in Seq(Pieces) /\ Len(SubSeq(text, 1, e)) = e
      /\ \A i \in 1..e : SubSeq(text, 1, e)[i] = text[i]
      /\ SubSeq(text, e + 1, Len(text)) \in Seq(Pieces)
      /\ Len(SubSeq(text, e + 1, Len(text))) = Len(text) - e
      /\ \A i \in 1..Len(text)-e : SubSeq(text, e + 1, Len(text))[i] = text[e + i]
      /\ SubSeq(text, 1, e) \o SubSeq(text, e + 1, Len(text)) = text
  <2>1. e \in 0..Len(text)
    BY <1>1, <1>3
  <2>. QED  BY <2>1, CutIs
<1>5. FirstLine(text) = SubSeq(text, 1, e) /\ OtherLines(text) = SubSeq(text, e + 1, Len(text))
  BY DEF FirstLine, OtherLines, e
<1>6. OtherLines(text) # <<>> => EndsLine(OtherLines(text)[Len(OtherLines(text))])
  <2>. SUFFICES ASSUME OtherLines(text) # <<>>
                PROVE  EndsLine(OtherLines(text)[Len(OtherLines(text))])
    OBVIOUS
  <2>1. Len(text) - e \in 1..Len(text)-e /\ e + (Len(text) - e) = Len(text)
    BY <1>1, <1>3, <1>4, <1>5, EmptySeq
  <2>. QED  BY <1>4, <1>5, <2>1
<1>. QED  BY <1>3, <1>4, <1>5, <1>6 DEF e

\* What has been received, cut after its last newline.
LEMMA FeedIs ==
    ASSUME NEW text \in Seq(Pieces)
    PROVE  /\ LinesOf(text) \in Seq(Pieces) /\ AfterLastLine(text) \in Seq(Pieces)
           /\ LinesOf(text) \o AfterLastLine(text) = text
           /\ LinesOf(text) # <<>> => EndsLine(LinesOf(text)[Len(LinesOf(text))])
           /\ Ends(AfterLastLine(text)) = {}
<1>. DEFINE e == LastEnd(text)
<1>1. /\ Len(text) \in Nat /\ e \in 0..Len(text)
      /\ e # 0 => EndsLine(text[e])
      /\ \A i \in e+1..Len(text) : ~EndsLine(text[i])
  BY EndsAre, LastEndIs
<1>. HIDE DEF e
<1>2. /\ SubSeq(text, 1, e) \in Seq(Pieces) /\ Len(SubSeq(text, 1, e)) = e
      /\ \A i \in 1..e : SubSeq(text, 1, e)[i] = text[i]
      /\ SubSeq(text, e + 1, Len(text)) \in Seq(Pieces)
      /\ Len(SubSeq(text, e + 1, Len(text))) = Len(text) - e
      /\ \A i \in 1..Len(text)-e : SubSeq(text, e + 1, Len(text))[i] = text[e + i]
      /\ SubSeq(text, 1, e) \o SubSeq(text, e + 1, Len(text)) = text
  BY <1>1, CutIs
<1>3. LinesOf(text) = SubSeq(text, 1, e) /\ AfterLastLine(text) = SubSeq(text, e + 1, Len(text))
  BY DEF LinesOf, AfterLastLine, e
<1>4. LinesOf(text) # <<>> => EndsLine(LinesOf(text)[Len(LinesOf(text))])
  <2>1. LinesOf(text) # <<>> => e # 0
    BY <1>2, <1>3, EmptySeq
  <2>2. e # 0 => e \in 1..e
    BY <1>1
  <2>. QED  BY <1>1, <1>2, <1>3, <2>1, <2>2
<1>5. Ends(AfterLastLine(text)) = {}
  <2>1. \A i \in 1..Len(text)-e : ~EndsLine(AfterLastLine(text)[i])
    <3>1. \A i \in 1..Len(text)-e : e + i \in e+1..Len(text)
      BY <1>1
    <3>. QED  BY <1>1, <1>2, <1>3, <3>1
  <2>. QED  BY <1>2, <1>3, <2>1, EndsAre
<1>. QED  BY <1>2, <1>3, <1>4, <1>5

\* One text before another.
LEMMA JoinIs ==
    ASSUME NEW first \in Seq(Pieces), NEW rest \in Seq(Pieces)
    PROVE  /\ first \o rest \in Seq(Pieces)
           /\ Len(first) \in Nat /\ Len(rest) \in Nat
           /\ Len(first \o rest) = Len(first) + Len(rest)
           /\ \A i \in 1..Len(first) : (first \o rest)[i] = first[i]
           /\ \A i \in 1..Len(rest) : (first \o rest)[Len(first) + i] = rest[i]
           /\ \A i \in 1..Len(first \o rest) :
                 i \in 1..Len(first) \/ i - Len(first) \in 1..Len(rest)
<1>1. Len(first) \in Nat /\ Len(rest) \in Nat
  BY EndsAre
<1>2. /\ first \o rest \in Seq(Pieces)
      /\ Len(first \o rest) = Len(first) + Len(rest)
      /\ \A i \in 1..Len(first) + Len(rest) :
            (first \o rest)[i] = IF i <= Len(first) THEN first[i] ELSE rest[i - Len(first)]
  BY ConcatProperties
<1>. QED  BY <1>1, <1>2

\* Three texts, one after the other.
LEMMA JoinsAssociate ==
    ASSUME NEW x \in Seq(Pieces), NEW y \in Seq(Pieces), NEW z \in Seq(Pieces)
    PROVE  (x \o y) \o z = x \o (y \o z)
  BY ConcatAssociative

--------------------------------------------------------------------------------
(* The text of a state.                                                       *)

Messages == [kind : {"gps", "acoustic"}, parts : 0..2, sending : BOOLEAN]
In(k, text) == \E i \in 1..Len(text) : text[i].message = k

\* A line: only its last piece ends in a newline.
IsLine(line) ==
    /\ line # <<>> /\ EndsLine(line[Len(line)])
    /\ \A i \in 1..Len(line)-1 : ~EndsLine(line[i])

\* Where the text is.
LEMMA Texts ==
    ASSUME TypeOK
    PROVE  /\ lines \in Seq(Pieces) /\ buffer \in Seq(Pieces) /\ wire \in Seq(Pieces)
           /\ lines \o buffer \in Seq(Pieces) /\ Flow \in Seq(Pieces)
           /\ written \in Seq(Pieces) /\ Len(written) \in Nat /\ Len(Flow) \in Nat
           /\ sent \in Seq(Messages) /\ Len(sent) \in 0..MaxSent /\ DOMAIN sent = 1..Len(sent)
           /\ \A k : In(k, Flow) => Underway(k)
<1>1. lines \in Seq(Pieces) /\ buffer \in Seq(Pieces) /\ wire \in Seq(Pieces)
  BY DEF TypeOK
<1>2. lines \o buffer \in Seq(Pieces) /\ Flow \in Seq(Pieces)
  BY <1>1, JoinIs DEF Flow
<1>3. written \in Seq(Pieces) /\ Len(written) \in Nat /\ Len(Flow) \in Nat
  BY <1>2, EndsAre DEF TypeOK
<1>4. sent \in Seq(Messages) /\ Len(sent) \in 0..MaxSent /\ DOMAIN sent = 1..Len(sent)
  <2>1. sent \in Seq(Messages) /\ Len(sent) <= MaxSent
    BY DEF TypeOK, Messages
  <2>. QED  BY <2>1, LenProperties, ConstantsAssumption
<1>5. ASSUME NEW k, In(k, Flow)  PROVE Underway(k)
  <2>1. PICK i \in 1..Len(Flow) : Flow[i].message = k
    BY <1>5 DEF In
  <2>2. \/ i \in 1..Len(lines \o buffer) /\ Flow[i] = (lines \o buffer)[i]
        \/ /\ i - Len(lines \o buffer) \in 1..Len(wire)
           /\ Flow[i] = wire[i - Len(lines \o buffer)]
    <3>1. \A j \in 1..Len(wire) :
             j = i - Len(lines \o buffer) => Flow[i] = wire[j]
      BY <1>1, <1>2, <2>1, JoinIs DEF Flow
    <3>. QED  BY <1>1, <1>2, <2>1, <3>1, JoinIs DEF Flow
  <2>3. \A j \in 1..Len(lines \o buffer) :
           \/ j \in 1..Len(lines) /\ (lines \o buffer)[j] = lines[j]
           \/ j - Len(lines) \in 1..Len(buffer) /\ (lines \o buffer)[j] = buffer[j - Len(lines)]
    <3>. SUFFICES ASSUME NEW j \in 1..Len(lines \o buffer)
                  PROVE  \/ j \in 1..Len(lines) /\ (lines \o buffer)[j] = lines[j]
                         \/ /\ j - Len(lines) \in 1..Len(buffer)
                            /\ (lines \o buffer)[j] = buffer[j - Len(lines)]
      OBVIOUS
    <3>1. \A m \in 1..Len(buffer) : m = j - Len(lines) => (lines \o buffer)[j] = buffer[m]
      BY <1>1, JoinIs
    <3>. QED  BY <1>1, <3>1, JoinIs
  <2>4. \E text \in {lines, buffer, wire} : \E j \in 1..Len(text) : text[j].message = k
    BY <2>1, <2>2, <2>3
  <2>5. \A text \in {lines, buffer, wire} : DOMAIN text = 1..Len(text)
    BY <1>1, EndsAre
  <2>. QED  BY <2>4, <2>5 DEF Underway
<1>. QED  BY <1>1, <1>2, <1>3, <1>4, <1>5

\* A step that leaves the text and what was written alone leaves what is known of them.
LEMMA QuietKeeps ==
    ASSUME FlowInv, WrittenInv, PendingInv, Flow' = Flow,
           UNCHANGED <<sent, written, pending, current>>
    PROVE  FlowInv' /\ WrittenInv' /\ PendingInv'
<1>1. Taken' = Taken
  BY DEF Taken
<1>. QED  BY <1>1 DEF FlowInv, WrittenInv, PendingInv, Arrived, Came

LEMMA QuietKeepsHandled ==
    ASSUME HandledInv, Flow' = Flow, UNCHANGED <<written, handled>>,
           reader = "posting" <=> reader' = "posting"
    PROVE  HandledInv'
<1>1. Taken' = Taken /\ Done' = Done
  BY DEF Taken, Done
<1>2. \A k : WholeIn(k, Done)' <=> WholeIn(k, Done)
  BY <1>1 DEF WholeIn, IntactAt
<1>. QED  BY <1>1, <1>2 DEF HandledInv

\* Receiving moves the borders in the text.
LEMMA ReceiveMoves ==
    ASSUME TypeOK, LinesInv, NEW n \in 1..Len(wire), Receive(n)
    PROVE  /\ Flow' = Flow
           /\ lines' \in Seq(Pieces) /\ buffer' \in Seq(Pieces) /\ wire' \in Seq(Pieces)
           /\ Ends(buffer') = {}
           /\ lines' # <<>> => EndsLine(lines'[Len(lines')])
<1>1. lines \in Seq(Pieces) /\ buffer \in Seq(Pieces) /\ wire \in Seq(Pieces)
  BY Texts
<1>2. PICK chunk : chunk = SubSeq(wire, 1, n)
  OBVIOUS
<1>3. PICK later : later = SubSeq(wire, n + 1, Len(wire))
  OBVIOUS
<1>4. chunk \in Seq(Pieces) /\ later \in Seq(Pieces) /\ chunk \o later = wire
  <2>1. n \in 0..Len(wire)
    BY <1>1, EndsAre
  <2>. QED  BY <1>1, <1>2, <1>3, <2>1, CutIs
<1>5. PICK text : text = buffer \o chunk
  OBVIOUS
<1>6. text \in Seq(Pieces)
  BY <1>1, <1>4, <1>5, JoinIs
<1>7. lines' = LinesOf(text) /\ buffer' = AfterLastLine(text) /\ wire' = later
  BY <1>2, <1>3, <1>5 DEF Receive
<1>8. /\ lines' \in Seq(Pieces) /\ buffer' \in Seq(Pieces) /\ wire' \in Seq(Pieces)
      /\ lines' \o buffer' = text
      /\ Ends(buffer') = {}
      /\ lines' # <<>> => EndsLine(lines'[Len(lines')])
  BY <1>4, <1>6, <1>7, FeedIs
<1>9. lines = <<>>
  BY DEF Receive, LinesInv
<1>10. lines \o buffer = buffer
  BY <1>1, <1>9, ConcatEmptySeq
<1>11. (buffer \o chunk) \o later = buffer \o (chunk \o later)
  BY ZenonT(30), <1>1, <1>4, JoinsAssociate
<1>12. Flow' = Flow
  BY <1>4, <1>5, <1>7, <1>8, <1>10, <1>11 DEF Flow
<1>. QED  BY <1>8, <1>12

\* The first line to dispatch is the first line of the text.
LEMMA FirstOfFlow ==
    ASSUME TypeOK, lines # <<>>
    PROVE  LET line == FirstLine(lines)
               rest == (OtherLines(lines) \o buffer) \o wire IN
           /\ line \in Seq(Pieces) /\ rest \in Seq(Pieces) /\ IsLine(line)
           /\ Flow = line \o rest /\ line[1] = lines[1] /\ Head(lines) = lines[1]
           /\ OtherLines(lines) \in Seq(Pieces)
           /\ OtherLines(lines) # <<>> => EndsLine(OtherLines(lines)[Len(OtherLines(lines))])
<1>1. lines \in Seq(Pieces) /\ buffer \in Seq(Pieces) /\ wire \in Seq(Pieces)
  BY Texts
<1>2. EndsLine(lines[Len(lines)])
  BY DEF TypeOK
<1>3. PICK line, others : line = FirstLine(lines) /\ others = OtherLines(lines)
  OBVIOUS
<1>4. PICK e : e = FirstEnd(lines)
  OBVIOUS
<1>5. /\ e \in 1..Len(lines) /\ EndsLine(lines[e]) /\ \A i \in 1..e-1 : ~EndsLine(lines[i])
      /\ line \in Seq(Pieces) /\ Len(line) = e
      /\ \A i \in 1..e : line[i] = lines[i]
      /\ others \in Seq(Pieces)
      /\ line \o others = lines
      /\ others # <<>> => EndsLine(others[Len(others)])
  BY <1>1, <1>2, <1>3, <1>4, FirstLineIs
<1>6. e \in Nat \ {0} /\ Len(lines) \in Nat /\ 1 \in 1..e /\ e \in 1..e
      /\ \A i \in 1..e-1 : i \in 1..e
  BY <1>1, <1>5, EndsAre
<1>7. IsLine(line) /\ line[1] = lines[1]
  <2>1. line # <<>>
    BY <1>5, <1>6, EmptySeq
  <2>. QED  BY <1>5, <1>6, <2>1 DEF IsLine
<1>8. Head(lines) = lines[1]
  BY <1>1
<1>9. PICK rest : rest = (others \o buffer) \o wire
  OBVIOUS
<1>10. others \o buffer \in Seq(Pieces) /\ rest \in Seq(Pieces)
  BY <1>1, <1>5, <1>9, JoinIs
<1>11. Flow = line \o rest
  <2>1. (line \o others) \o buffer = line \o (others \o buffer)
    BY ZenonT(30), <1>1, <1>5, JoinsAssociate
  <2>2. (line \o (others \o buffer)) \o wire = line \o ((others \o buffer) \o wire)
    <3>1. PICK both \in Seq(Pieces) : both = others \o buffer
      BY <1>10
    <3>2. line \in Seq(Pieces) /\ wire \in Seq(Pieces)
      BY <1>1, <1>5
    <3>3. (line \o both) \o wire = line \o (both \o wire)
      BY <3>1, <3>2, JoinsAssociate
    <3>. QED  BY <3>1, <3>3
  <2>. QED  BY <1>5, <1>9, <2>1, <2>2 DEF Flow
<1>. QED  BY <1>3, <1>5, <1>7, <1>8, <1>9, <1>10, <1>11

\* Taking the first line away takes its pieces from the front of the text, and with them
\* at most one message that was whole on a line: the one the line parses as.
LEMMA LineTaken ==
    ASSUME TypeOK, FlowInv, lines # <<>>
    PROVE  LET line == FirstLine(lines)
               e == Len(line)
               rest == (OtherLines(lines) \o buffer) \o wire IN
           /\ e \in Nat \ {0} /\ rest \in Seq(Pieces) /\ Len(rest) = Len(Flow) - e
           /\ \A i \in 1..Len(rest) : rest[i] = written[Taken + e + i]
           /\ Taken \in Nat /\ Taken + e <= Len(written) /\ EndsLine(written[Taken + e])
           /\ Head(lines) = line[1] /\ written[Taken + 1] = line[1]
           /\ Parses(line) => e = 2 /\ IntactAt(Taken + 1, line[1].message)
           /\ \A i \in 1..Len(written) : \A k :
                 Taken < i + 1 /\ i + 1 <= Taken + e /\ IntactAt(i, k)
                    => i = Taken + 1 /\ Parses(line) /\ k = line[1].message
<1>1. PICK line : line = FirstLine(lines)
  OBVIOUS
<1>2. PICK rest : rest = (OtherLines(lines) \o buffer) \o wire
  OBVIOUS
<1>3. PICK e, t, w : e = Len(line) /\ t = Taken /\ w = Len(written)
  OBVIOUS
<1>4. /\ line \in Seq(Pieces) /\ rest \in Seq(Pieces) /\ IsLine(line)
      /\ Flow = line \o rest /\ line[1] = Head(lines)
  BY <1>1, <1>2, FirstOfFlow
<1>5. /\ e \in Nat \ {0} /\ Len(rest) \in Nat /\ Len(Flow) = e + Len(rest)
      /\ \A i \in 1..e : Flow[i] = line[i] /\ line[i] \in Pieces
      /\ \A i \in 1..Len(rest) : Flow[e + i] = rest[i]
      /\ EndsLine(line[e]) /\ \A i \in 1..e-1 : ~EndsLine(line[i])
  <2>1. line # <<>> /\ EndsLine(line[e]) /\ \A i \in 1..e-1 : ~EndsLine(line[i])
    BY <1>3, <1>4 DEF IsLine
  <2>2. e \in Nat \ {0} /\ Len(rest) \in Nat /\ \A i \in 1..e : line[i] \in Pieces
    BY <1>3, <1>4, <2>1, EndsAre, EmptySeq
  <2>3. /\ Len(line \o rest) = e + Len(rest)
        /\ \A i \in 1..e : (line \o rest)[i] = line[i]
        /\ \A i \in 1..Len(rest) : (line \o rest)[e + i] = rest[i]
    BY <1>3, <1>4, JoinIs
  <2>. QED  BY <1>4, <2>1, <2>2, <2>3
<1>6. /\ t \in Nat /\ w \in Nat /\ w = t + e + Len(rest)
      /\ \A i \in 1..Len(Flow) : Flow[i] = written[t + i]
      /\ t # 0 => EndsLine(written[t])
  BY <1>3, <1>5, Texts DEF FlowInv, Taken
<1>7. \A i \in 1..e : written[t + i] = line[i]
  BY <1>5, <1>6
<1>8. \A i \in 1..Len(rest) : rest[i] = written[t + e + i]
  <2>. SUFFICES ASSUME NEW i \in 1..Len(rest)  PROVE rest[i] = written[t + e + i]
    OBVIOUS
  <2>1. e + i \in 1..Len(Flow) /\ t + (e + i) = t + e + i
    BY <1>5, <1>6
  <2>. QED  BY <1>5, <1>6, <2>1
<1>9. written[t + e] = line[e] /\ written[t + 1] = line[1]
  BY <1>5, <1>7
<1>10. \A k : ~EndsLine(Head1(k)) /\ EndsLine(Tail1(k)) /\ Head1(k).message = k /\ Tail1(k).message = k
  BY DEF EndsLine, Head1, Tail1
<1>11. ASSUME Parses(line)  PROVE e = 2 /\ IntactAt(t + 1, line[1].message)
  <2>1. e = 2 /\ line[1] = Head1(line[2].message)
    BY <1>3, <1>11 DEF Parses
  <2>2. line[2] = Tail1(line[2].message) /\ line[1].message = line[2].message
    <3>1. line[2] \in Pieces /\ EndsLine(line[2])
      BY <1>5, <2>1
    <3>. QED  BY <1>10, <2>1, <3>1 DEF Pieces, EndsLine, Tail1
  <2>3. written[t + 1] = line[1] /\ written[t + 1 + 1] = line[2]
    BY <1>6, <1>7, <2>1
  <2>4. t \in Nat /\ (t = 0 \/ EndsLine(written[t]))
    BY <1>6
  <2>5. PICK k : k = line[1].message
    OBVIOUS
  <2>6. written[t + 1] = Head1(k) /\ written[t + 1 + 1] = Tail1(k)
    BY <2>1, <2>2, <2>3, <2>5
  <2>7. IntactAt(t + 1, k)
    <3>1. PICK i : i = t + 1
      OBVIOUS
    <3>2. written[i] = Head1(k) /\ written[i + 1] = Tail1(k)
      BY <2>6, <3>1
    <3>3. i - 1 = t /\ (t = 0 => i = 1)
      BY <2>4, <3>1
    <3>4. IntactAt(i, k)
      BY <2>4, <3>2, <3>3 DEF IntactAt
    <3>. QED  BY <3>1, <3>4
  <2>. QED  BY <2>1, <2>5, <2>7
<1>12. ASSUME NEW i \in 1..w, NEW k, t < i + 1, i + 1 <= t + e, IntactAt(i, k)
       PROVE  i = t + 1 /\ Parses(line) /\ k = line[1].message
  <2>1. /\ ~EndsLine(written[i]) /\ EndsLine(written[i + 1])
        /\ written[i] = Head1(k) /\ written[i + 1] = Tail1(k)
        /\ i = 1 \/ EndsLine(written[i - 1])
    BY <1>10, <1>12 DEF IntactAt
  <2>2. i # t
    BY <1>6, <2>1
  <2>3. \A j \in t+1..t+e-1 : ~EndsLine(written[j])
    <3>. SUFFICES ASSUME NEW j \in t+1..t+e-1  PROVE ~EndsLine(written[j])
      OBVIOUS
    <3>1. j - t \in 1..e-1 /\ j - t \in 1..e /\ t + (j - t) = j
      BY <1>5, <1>6
    <3>. QED  BY <1>5, <1>7, <3>1
  <2>4. i + 1 = t + e
    BY <1>5, <1>6, <1>12, <2>1, <2>2, <2>3
  <2>5. i = t + 1
    <3>. SUFFICES ASSUME i # t + 1  PROVE FALSE
      OBVIOUS
    <3>1. i \in Nat /\ e \in Nat /\ t \in Nat /\ t < i + 1
      BY <1>5, <1>6, <1>12
    <3>2. i - 1 \in t+1..t+e-1 /\ i # 1
      BY <2>2, <2>4, <3>1
    <3>. QED  BY <2>1, <2>3, <3>2
  <2>6. e = 2 /\ written[t + 1] = line[1] /\ written[t + 1 + 1] = line[2]
    BY <1>5, <1>6, <1>7, <2>4, <2>5
  <2>7. line[1] = Head1(k) /\ line[2] = Tail1(k)
    BY <2>1, <2>5, <2>6
  <2>8. Parses(line) /\ k = line[1].message
    BY <1>3, <1>10, <2>6, <2>7 DEF Parses
  <2>. QED  BY <2>5, <2>8
<1>13. t + e <= w /\ Len(rest) = Len(Flow) - e
  BY <1>5, <1>6
<1>14. \A i \in 1..w : \A k :
          t < i + 1 /\ i + 1 <= t + e /\ IntactAt(i, k)
             => i = t + 1 /\ Parses(line) /\ k = line[1].message
  BY <1>12
<1>15. /\ e \in Nat \ {0} /\ rest \in Seq(Pieces) /\ Len(rest) = Len(Flow) - e
       /\ \A i \in 1..Len(rest) : rest[i] = written[t + e + i]
       /\ t \in Nat /\ t + e <= w /\ EndsLine(written[t + e])
       /\ Head(lines) = line[1] /\ written[t + 1] = line[1]
       /\ Parses(line) => e = 2 /\ IntactAt(t + 1, line[1].message)
  BY <1>4, <1>5, <1>6, <1>8, <1>9, <1>11, <1>13
<1>. QED  BY <1>1, <1>2, <1>3, <1>14, <1>15

\* What taking a line away leaves true: the text still is the end of what was written.
LEMMA TakenKeeps ==
    ASSUME TypeOK, FlowInv, WrittenInv, lines # <<>>,
           lines' = OtherLines(lines), UNCHANGED <<buffer, wire, sent, written>>
    PROVE  /\ FlowInv' /\ WrittenInv'
           /\ Taken \in Nat /\ Taken' = Taken + Len(FirstLine(lines))
           /\ Taken' \in Nat /\ Taken < Taken' /\ Taken' <= Len(written)
           /\ \A k : Came(k) => Came(k)'
           /\ lines' \in Seq(Pieces)
           /\ lines' # <<>> => EndsLine(lines'[Len(lines')])
<1>1. PICK e, t : e = Len(FirstLine(lines)) /\ t = Taken
  OBVIOUS
<1>2. PICK rest : rest = (OtherLines(lines) \o buffer) \o wire
  OBVIOUS
<1>3. Flow' = rest
  BY <1>2 DEF Flow
<1>4. /\ e \in Nat \ {0} /\ rest \in Seq(Pieces) /\ Len(rest) = Len(Flow) - e
      /\ \A i \in 1..Len(rest) : rest[i] = written[t + e + i]
      /\ t \in Nat /\ t + e <= Len(written) /\ EndsLine(written[t + e])
  BY <1>1, <1>2, LineTaken
<1>5. t = Len(written) - Len(Flow) /\ Len(written) \in Nat /\ Len(Flow) \in Nat
  BY <1>1, Texts DEF Taken
<1>6. Taken' = t + e /\ Len(rest) <= Len(written)
  BY <1>3, <1>4, <1>5 DEF Taken
<1>7. FlowInv'
  BY <1>3, <1>4, <1>6 DEF FlowInv
<1>8. WrittenInv'
  BY DEF WrittenInv
<1>9. \A k : Came(k) => Came(k)'
  BY <1>1, <1>4, <1>6 DEF Came
<1>10. OtherLines(lines) \in Seq(Pieces)
       /\ (OtherLines(lines) # <<>> => EndsLine(OtherLines(lines)[Len(OtherLines(lines))]))
  BY FirstOfFlow
<1>. QED  BY <1>1, <1>4, <1>6, <1>7, <1>8, <1>9, <1>10

\* Appending to the wire appends to the text.
LEMMA WrittenOn ==
    ASSUME TypeOK, FlowInv, HandledInv, PendingInv, NEW new \in Seq(Pieces),
           wire' = wire \o new, written' = written \o new,
           UNCHANGED <<lines, buffer, handled, reader, pending, current>>
    PROVE  /\ FlowInv' /\ HandledInv' /\ PendingInv'
           /\ wire' \in Seq(Pieces) /\ written' \in Seq(Pieces)
           /\ Len(written') = Len(written) + Len(new) /\ Len(new) \in Nat
           /\ \A i \in 1..Len(written) : written'[i] = written[i]
           /\ \A i \in 1..Len(new) : written'[Len(written) + i] = new[i]
<1>1. PICK w, f, t : w = Len(written) /\ f = Len(Flow) /\ t = Taken
  OBVIOUS
<1>2. /\ lines \o buffer \in Seq(Pieces) /\ wire \in Seq(Pieces) /\ Flow \in Seq(Pieces)
      /\ written \in Seq(Pieces) /\ w \in Nat /\ f \in Nat /\ Len(new) \in Nat
  BY <1>1, Texts, EndsAre
<1>3. Flow' = Flow \o new
  BY <1>2, JoinsAssociate DEF Flow
<1>4. /\ wire' \in Seq(Pieces) /\ written' \in Seq(Pieces) /\ Flow' \in Seq(Pieces)
      /\ Len(written') = w + Len(new) /\ Len(Flow') = f + Len(new)
      /\ \A i \in 1..w : written'[i] = written[i]
      /\ \A i \in 1..Len(new) : written'[w + i] = new[i]
      /\ \A i \in 1..f : Flow'[i] = Flow[i]
      /\ \A i \in 1..Len(new) : Flow'[f + i] = new[i]
  <2>1. /\ wire' \in Seq(Pieces)
        /\ written' \in Seq(Pieces) /\ Len(written') = w + Len(new)
        /\ \A i \in 1..w : written'[i] = written[i]
        /\ \A i \in 1..Len(new) : written'[w + i] = new[i]
    BY <1>1, <1>2, JoinIs
  <2>2. /\ Flow' \in Seq(Pieces) /\ Len(Flow') = f + Len(new)
        /\ \A i \in 1..f : Flow'[i] = Flow[i]
        /\ \A i \in 1..Len(new) : Flow'[f + i] = new[i]
    BY <1>1, <1>2, <1>3, JoinIs
  <2>. QED  BY <2>1, <2>2
<1>5. /\ f <= w /\ t = w - f /\ t \in Nat
      /\ \A i \in 1..f : Flow[i] = written[t + i]
      /\ t # 0 => EndsLine(written[t])
  BY <1>1, <1>2 DEF FlowInv, Taken
<1>6. Taken' = t /\ Done' = Done /\ Done <= w /\ Done \in Nat
  <2>1. Taken' = t
    BY <1>2, <1>4, <1>5 DEF Taken
  <2>. QED  BY <1>1, <1>5, <2>1 DEF Done, HandledInv
<1>7. FlowInv'
  <2>1. ASSUME NEW i \in 1..Len(Flow')  PROVE Flow'[i] = written'[t + i]
    <3>1. CASE i \in 1..f
      <4>1. t + i \in 1..w
        BY <1>2, <1>5, <3>1
      <4>. QED  BY <1>4, <1>5, <3>1, <4>1
    <3>2. CASE i \notin 1..f
      <4>1. PICK j \in 1..Len(new) : i = f + j
        <5>1. i - f \in 1..Len(new) /\ i = f + (i - f)
          BY <1>2, <1>4, <3>2
        <5>. QED  BY <5>1
      <4>2. t + i = w + j
        BY <1>2, <1>5, <4>1
      <4>. QED  BY <1>4, <4>1, <4>2
    <3>. QED  BY <3>1, <3>2
  <2>2. t # 0 => t \in 1..w
    BY <1>2, <1>5
  <2>3. Len(Flow') <= Len(written')
    BY <1>2, <1>4, <1>5
  <2>. QED  BY <1>4, <1>5, <1>6, <2>1, <2>2, <2>3 DEF FlowInv
<1>8. HandledInv'
  <2>1. ASSUME NEW k  PROVE WholeIn(k, Done)' <=> WholeIn(k, Done)
    <3>1. \A i \in 1..w : i + 1 <= Done => (IntactAt(i, k)' <=> IntactAt(i, k))
      <4>. SUFFICES ASSUME NEW i \in 1..w, i + 1 <= Done
                    PROVE  IntactAt(i, k)' <=> IntactAt(i, k)
        OBVIOUS
      <4>1. i \in 1..w /\ i + 1 \in 1..w /\ (i # 1 => i - 1 \in 1..w)
        BY <1>2, <1>6
      <4>. QED  BY <1>4, <4>1 DEF IntactAt
    <3>2. \A i \in 1..w + Len(new) : i + 1 <= Done => i \in 1..w
      BY <1>2, <1>6
    <3>3. \A i \in 1..w : i \in 1..w + Len(new)
      BY <1>2
    <3>4. WholeIn(k, Done)' <=> \E i \in 1..w + Len(new) : i + 1 <= Done /\ IntactAt(i, k)'
      BY <1>4, <1>6 DEF WholeIn
    <3>5. WholeIn(k, Done) <=> \E i \in 1..w : i + 1 <= Done /\ IntactAt(i, k)
      BY <1>1 DEF WholeIn
    <3>. QED  BY <3>1, <3>2, <3>3, <3>4, <3>5
  <2>2. Done' <= Len(written')
    BY <1>2, <1>4, <1>6
  <2>. QED  BY <2>1, <2>2 DEF HandledInv
<1>9. PendingInv'
  <2>1. \A i \in 1..w : i \in 1..Len(written')
    BY <1>2, <1>4
  <2>2. \A k : Came(k) => Came(k)'
    BY <1>1, <1>4, <1>6, <2>1 DEF Came
  <2>3. Arrived' = Arrived
    BY DEF Arrived
  <2>. QED  BY <2>2, <2>3 DEF PendingInv
<1>. QED  BY <1>1, <1>2, <1>4, <1>7, <1>8, <1>9

--------------------------------------------------------------------------------
(* The steps.                                                                 *)

\* One message of a sequence replaced.
LEMMA OneChanged ==
    ASSUME NEW s \in Seq(Messages), NEW k \in 1..Len(s), NEW m \in Messages
    PROVE  /\ [s EXCEPT ![k] = m] \in Seq(Messages)
           /\ Len([s EXCEPT ![k] = m]) = Len(s) /\ DOMAIN [s EXCEPT ![k] = m] = 1..Len(s)
  BY ExceptSeq, LenProperties

\* A call of sendall begins.
LEMMA BeginKeeps ==
    ASSUME IInv, NEW kind \in {"gps", "acoustic"}, NEW parts \in {0, 1}, BeginSend(kind, parts)
    PROVE  IInv' /\ Len(sent') = Len(sent) + 1 /\ current' = current
<1>1. PICK n, w : n = Len(sent) /\ w = Len(written)
  OBVIOUS
<1>2. TypeOK /\ LinesInv /\ FlowInv /\ WrittenInv /\ HandledInv /\ PendingInv
  BY DEF IInv
<1>3. sent \in Seq(Messages) /\ n \in 0..MaxSent /\ n + 1 \in 1..MaxSent /\ w \in Nat
      /\ handled \subseteq 1..n
  <2>1. /\ sent \in Seq(Messages) /\ n \in 0..MaxSent /\ DOMAIN sent = 1..n /\ w \in Nat
        /\ handled \subseteq DOMAIN sent
    BY <1>1, <1>2, Texts DEF TypeOK
  <2>2. n < MaxSent
    BY <1>1 DEF BeginSend
  <2>. QED  BY <2>1, <2>2, ConstantsAssumption
<1>4. PICK new : new = SubSeq(<<Head1(n + 1)>>, 1, parts)
  OBVIOUS
<1>5. new \in Seq(Pieces) /\ Len(new) = parts /\ \A i \in 1..parts : new[i] = Head1(n + 1)
  <2>1. Head1(n + 1) \in Pieces
    BY <1>3 DEF Head1, Pieces
  <2>2. PICK one : one = <<Head1(n + 1)>>
    OBVIOUS
  <2>3. one \in Seq(Pieces) /\ Len(one) = 1 /\ one[1] = Head1(n + 1)
    BY <2>1, <2>2
  <2>4. /\ new \in Seq(Pieces) /\ Len(new) = parts
        /\ \A i \in 1..parts : new[i] = one[i]
    <3>1. parts \in 0..Len(one)
      BY <2>3
    <3>2. new = SubSeq(one, 1, parts)
      BY <1>4, <2>2
    <3>3. /\ SubSeq(one, 1, parts) \in Seq(Pieces) /\ Len(SubSeq(one, 1, parts)) = parts
          /\ \A i \in 1..parts : SubSeq(one, 1, parts)[i] = one[i]
      <4>1. one \in Seq(Pieces)
        BY <2>3
      <4>. HIDE DEF Pieces
      <4>. QED  BY ONLY <3>1, <4>1, CutIs
    <3>. QED  BY ONLY <3>2, <3>3
  <2>5. \A i \in 1..parts : i = 1
    OBVIOUS
  <2>. QED  BY ONLY <2>3, <2>4, <2>5
<1>6. /\ wire' = wire \o new /\ written' = written \o new
      /\ sent' = Append(sent, [kind |-> kind, parts |-> parts, sending |-> parts = 1])
      /\ UNCHANGED <<setup, main, handler, pending, current, reader, buffer, lines, handled,
                     running, closed, gone>>
  BY <1>1, <1>4 DEF BeginSend, mainVars, readerVars
<1>7. /\ FlowInv' /\ HandledInv' /\ PendingInv'
      /\ wire' \in Seq(Pieces) /\ written' \in Seq(Pieces)
      /\ Len(written') = w + parts
      /\ \A i \in 1..w : written'[i] = written[i]
      /\ \A i \in 1..parts : written'[w + i] = Head1(n + 1)
  BY <1>1, <1>2, <1>5, <1>6, WrittenOn
<1>8. sent' \in Seq(Messages) /\ Len(sent') = n + 1 /\ DOMAIN sent' = 1..n+1
  <2>1. [kind |-> kind, parts |-> parts, sending |-> parts = 1] \in Messages
    BY DEF Messages
  <2>. QED  BY <1>1, <1>3, <1>6, <2>1, AppendProperties, LenProperties
<1>9. WrittenInv'
  <2>1. \A i \in 1..Len(written') :
           \/ i \in 1..w /\ written'[i] = written[i]
           \/ i = w + 1 /\ written'[i] = Head1(n + 1)
    <3>. SUFFICES ASSUME NEW i \in 1..Len(written'), i \notin 1..w
                  PROVE  i = w + 1 /\ written'[i] = Head1(n + 1)
      BY <1>7
    <3>1. i = w + 1 /\ 1 \in 1..parts
      BY <1>3, <1>7
    <3>. QED  BY <1>7, <3>1
  <2>2. \A i \in 1..w : written[i].message \in 1..n
    BY <1>1, <1>2 DEF WrittenInv
  <2>3. Head1(n + 1).message = n + 1
    BY DEF Head1
  <2>4. \A i \in 1..Len(written') : written'[i].message \in 1..Len(sent')
    BY <1>3, <1>8, <2>1, <2>2, <2>3
  <2>5. ASSUME NEW i \in 1..Len(written'), NEW j \in 1..Len(written'), i < j,
               ~EndsLine(written'[i]), ~EndsLine(written'[j])
        PROVE  written'[i].message < written'[j].message
    <3>1. i \in 1..w /\ written'[i] = written[i]
      BY <1>3, <1>7, <2>1, <2>5
    <3>2. CASE j \in 1..w /\ written'[j] = written[j]
      BY <1>1, <1>2, <2>5, <3>1, <3>2 DEF WrittenInv
    <3>3. CASE written'[j] = Head1(n + 1)
      BY <1>3, <2>2, <2>3, <3>1, <3>3
    <3>. QED  BY <2>1, <3>2, <3>3
  <2>. QED  BY <2>4, <2>5 DEF WrittenInv
<1>10. LinesInv'
  BY <1>2, <1>6 DEF LinesInv
<1>11. TypeOK'
  <2>1. handled' \subseteq DOMAIN sent' /\ Len(sent') <= MaxSent
    BY <1>3, <1>6, <1>8
  <2>. QED  BY <1>2, <1>6, <1>7, <1>8, <2>1 DEF TypeOK, Messages
<1>. QED  BY <1>1, <1>6, <1>7, <1>8, <1>9, <1>10, <1>11 DEF IInv

\* A call of sendall puts its second piece on the connection.
LEMMA EndKeeps ==
    ASSUME IInv, NEW k \in DOMAIN sent, EndSend(k)
    PROVE  IInv' /\ Len(sent') = Len(sent) /\ current' = current
<1>1. PICK n, w : n = Len(sent) /\ w = Len(written)
  OBVIOUS
<1>2. TypeOK /\ LinesInv /\ FlowInv /\ WrittenInv /\ HandledInv /\ PendingInv
  BY DEF IInv
<1>3. /\ sent \in Seq(Messages) /\ n \in 0..MaxSent /\ DOMAIN sent = 1..n /\ w \in Nat
      /\ wire \in Seq(Pieces) /\ written \in Seq(Pieces) /\ handled \subseteq 1..n
      /\ k \in 1..n /\ k \in 1..MaxSent
  BY <1>1, <1>2, Texts, ConstantsAssumption DEF TypeOK
<1>4. PICK new : new = <<Tail1(k)>>
  OBVIOUS
<1>5. new \in Seq(Pieces) /\ Len(new) = 1 /\ new[1] = Tail1(k)
  <2>1. Tail1(k) \in Pieces
    BY <1>3 DEF Tail1, Pieces
  <2>. QED  BY <1>4, <2>1
<1>6. /\ wire' = wire \o new /\ written' = written \o new
      /\ sent' = [sent EXCEPT ![k] = [kind |-> @.kind, parts |-> 2, sending |-> FALSE]]
      /\ UNCHANGED <<setup, main, handler, pending, current, reader, buffer, lines, handled,
                     running, closed, gone>>
  <2>1. wire' = Append(wire, Tail1(k)) /\ written' = Append(written, Tail1(k))
    BY DEF EndSend
  <2>2. \A text \in Seq(Pieces) : Append(text, Tail1(k)) = text \o <<Tail1(k)>>
    <3>1. Tail1(k) \in Pieces
      BY <1>3 DEF Tail1, Pieces
    <3>. QED  BY <3>1, AppendIsConcat
  <2>. QED  BY <1>3, <1>4, <2>1, <2>2 DEF EndSend, mainVars, readerVars
<1>7. /\ FlowInv' /\ HandledInv' /\ PendingInv'
      /\ wire' \in Seq(Pieces) /\ written' \in Seq(Pieces)
      /\ Len(written') = w + 1
      /\ \A i \in 1..w : written'[i] = written[i]
      /\ written'[w + 1] = Tail1(k)
  <2>1. /\ FlowInv' /\ HandledInv' /\ PendingInv'
        /\ wire' \in Seq(Pieces) /\ written' \in Seq(Pieces)
        /\ Len(written') = w + Len(new)
        /\ \A i \in 1..w : written'[i] = written[i]
        /\ \A i \in 1..Len(new) : written'[w + i] = new[i]
    BY <1>1, <1>2, <1>5, <1>6, WrittenOn
  <2>2. 1 \in 1..Len(new)
    BY <1>5
  <2>. QED  BY <1>5, <2>1, <2>2
<1>8. sent' \in Seq(Messages) /\ Len(sent') = n /\ DOMAIN sent' = 1..n
  <2>1. [kind |-> sent[k].kind, parts |-> 2, sending |-> FALSE] \in Messages
    <3>1. sent[k] \in Messages
      BY <1>1, <1>3, ElementOfSeq
    <3>. QED  BY <3>1 DEF Messages
  <2>. QED  BY <1>1, <1>3, <1>6, <2>1, OneChanged
<1>9. WrittenInv'
  <2>1. \A i \in 1..w + 1 : i \in 1..w \/ i = w + 1
    BY <1>3
  <2>2. Tail1(k).message = k /\ EndsLine(Tail1(k))
    BY DEF Tail1, EndsLine
  <2>3. \A i \in 1..w + 1 : written'[i].message \in 1..n
    BY <1>1, <1>2, <1>3, <1>7, <2>1, <2>2 DEF WrittenInv
  <2>4. \A i \in 1..w + 1 : ~EndsLine(written'[i]) => i \in 1..w /\ written'[i] = written[i]
    BY <1>7, <2>1, <2>2
  <2>5. \A i, j \in 1..w + 1 :
           i < j /\ ~EndsLine(written'[i]) /\ ~EndsLine(written'[j])
              => written'[i].message < written'[j].message
    BY <1>1, <1>2, <2>4 DEF WrittenInv
  <2>. QED  BY <1>7, <1>8, <2>3, <2>5 DEF WrittenInv
<1>10. LinesInv'
  BY <1>2, <1>6 DEF LinesInv
<1>11. TypeOK'
  <2>1. handled' \subseteq DOMAIN sent' /\ Len(sent') <= MaxSent
    BY <1>3, <1>6, <1>8, ConstantsAssumption
  <2>. QED  BY <1>2, <1>6, <1>7, <1>8, <2>1 DEF TypeOK, Messages
<1>. QED  BY <1>1, <1>6, <1>7, <1>8, <1>9, <1>10, <1>11 DEF IInv

\* A call of sendall raises.
LEMMA GiveUpKeeps ==
    ASSUME IInv, NEW k \in DOMAIN sent, GiveUp(k)
    PROVE  IInv' /\ Len(sent') = Len(sent) /\ current' = current
<1>1. TypeOK /\ LinesInv /\ FlowInv /\ WrittenInv /\ HandledInv /\ PendingInv
  BY DEF IInv
<1>2. /\ UNCHANGED <<setup, main, handler, pending, current, reader, buffer, lines, handled,
                     running, closed, wire, gone, written>>
      /\ sent' = [sent EXCEPT ![k].sending = FALSE]
  BY DEF GiveUp, mainVars, readerVars
<1>3. sent \in Seq(Messages)
  BY <1>1, Texts
<1>4. sent' \in Seq(Messages) /\ Len(sent') = Len(sent) /\ DOMAIN sent' = DOMAIN sent
  <2>1. DOMAIN sent = 1..Len(sent)
    BY <1>1, Texts
  <2>2. [sent[k] EXCEPT !.sending = FALSE] \in Messages
    <3>1. sent[k] \in Messages
      BY <1>3, <2>1, ElementOfSeq
    <3>. QED  BY <3>1 DEF Messages
  <2>3. sent' = [sent EXCEPT ![k] = [sent[k] EXCEPT !.sending = FALSE]]
    BY <1>2
  <2>. QED  BY <1>3, <2>1, <2>2, <2>3, OneChanged
<1>5. Flow' = Flow /\ Taken' = Taken
  BY <1>2 DEF Flow, Taken
<1>6. FlowInv' /\ WrittenInv' /\ PendingInv'
  BY <1>1, <1>2, <1>4, <1>5 DEF FlowInv, WrittenInv, PendingInv, Arrived, Came
<1>7. HandledInv'
  BY <1>1, <1>2, <1>5, QuietKeepsHandled
<1>8. LinesInv' /\ TypeOK'
  BY <1>1, <1>2, <1>4 DEF LinesInv, TypeOK, Messages
<1>. QED  BY <1>2, <1>4, <1>6, <1>7, <1>8 DEF IInv

\* The reader thread dispatches a line, or all lines have been dispatched.
LEMMA DispatchKeeps ==
    ASSUME IInv, Dispatch
    PROVE  IInv'
<1>1. TypeOK /\ LinesInv /\ FlowInv /\ WrittenInv /\ HandledInv /\ PendingInv
  BY DEF IInv
<1>2. UNCHANGED <<setup, main, handler, pending, current, running, closed, buffer, wire,
                  gone, sent, written>>
  BY DEF Dispatch, mainVars, simulatorVars
<1>3. reader = "dispatch" /\ Done = Taken
  BY DEF Dispatch, Done
<1>4. CASE lines = <<>>
  <2>1. reader' = "loop" /\ UNCHANGED <<lines, handled>>
    BY <1>4 DEF Dispatch
  <2>2. FlowInv' /\ WrittenInv' /\ PendingInv'
    BY <1>1, <1>2, <2>1, QuietKeeps DEF Flow
  <2>3. HandledInv'
    BY <1>1, <1>2, <1>3, <2>1, QuietKeepsHandled DEF Flow
  <2>4. LinesInv' /\ TypeOK'
    BY <1>1, <1>2, <1>4, <2>1 DEF LinesInv, TypeOK
  <2>. QED  BY <2>2, <2>3, <2>4 DEF IInv
<1>5. CASE lines # <<>>
  <2>1. PICK line, k, e, t, w :
           /\ line = FirstLine(lines) /\ k = Head(lines).message /\ e = Len(line)
           /\ t = Taken /\ w = Len(written)
    OBVIOUS
  <2>2. /\ e \in Nat \ {0} /\ t \in Nat /\ w \in Nat /\ t + e <= w
        /\ k = line[1].message /\ written[t + 1].message = k
        /\ Parses(line) => e = 2 /\ IntactAt(t + 1, k)
        /\ \A i \in 1..w : \A m :
              t < i + 1 /\ i + 1 <= t + e /\ IntactAt(i, m)
                 => i = t + 1 /\ Parses(line) /\ m = k
    <3>1. w \in Nat
      BY <1>1, <2>1, Texts
    <3>. QED  BY <1>1, <1>5, <2>1, <3>1, LineTaken
  <2>3. k \in 1..Len(sent) /\ k \in 1..MaxSent /\ DOMAIN sent = 1..Len(sent)
    <3>1. t + 1 \in 1..w
      BY <2>2
    <3>2. k \in 1..Len(sent)
      BY <1>1, <2>1, <2>2, <3>1 DEF WrittenInv
    <3>3. Len(sent) \in 0..MaxSent /\ DOMAIN sent = 1..Len(sent)
      BY <1>1, Texts
    <3>. QED  BY <3>2, <3>3, ConstantsAssumption
  <2>4. handled' = IF Parses(line) THEN handled \cup {k} ELSE handled
    BY <1>5, <2>1, <2>2 DEF Dispatch
  <2>5. \A m \in 1..MaxSent : m \in handled' <=> WholeIn(m, t + e)
    <3>. SUFFICES ASSUME NEW m \in 1..MaxSent  PROVE m \in handled' <=> WholeIn(m, t + e)
      OBVIOUS
    <3>1. m \in handled <=> WholeIn(m, t)
      BY <1>1, <1>3, <2>1 DEF HandledInv
    <3>2. WholeIn(m, t) => WholeIn(m, t + e)
      BY <2>2 DEF WholeIn
    <3>3. Parses(line) => WholeIn(k, t + e)
      <4>1. Parses(line) => t + 1 \in 1..w /\ t + 1 + 1 <= t + e
        BY <2>2
      <4>. QED  BY <2>1, <2>2, <4>1 DEF WholeIn
    <3>4. WholeIn(m, t + e) => WholeIn(m, t) \/ (Parses(line) /\ m = k)
      <4>. SUFFICES ASSUME NEW i \in 1..w, i + 1 <= t + e, IntactAt(i, m)
                    PROVE  WholeIn(m, t) \/ (Parses(line) /\ m = k)
        BY <2>1 DEF WholeIn
      <4>1. CASE i + 1 <= t
        BY <2>1, <4>1 DEF WholeIn
      <4>2. CASE t < i + 1
        BY <2>2, <4>2
      <4>. QED  BY <2>2, <4>1, <4>2
    <3>. QED  BY <2>4, <3>1, <3>2, <3>3, <3>4
  <2>6. handled' \subseteq DOMAIN sent'
    BY <1>1, <1>2, <2>3, <2>4 DEF TypeOK
  <2>7. CASE Parses(line) /\ Wanted(k)
    <3>1. reader' = "posting" /\ lines' = lines
      BY <1>5, <2>1, <2>2, <2>7 DEF Dispatch
    <3>2. FlowInv' /\ WrittenInv' /\ PendingInv' /\ Flow' = Flow
      BY <1>1, <1>2, <3>1, QuietKeeps DEF Flow
    <3>3. HandledInv'
      <4>1. Done' = t + e
        BY <1>2, <2>1, <2>2, <2>7, <3>1, <3>2 DEF Done, Taken
      <4>2. \A m : WholeIn(m, t + e)' <=> WholeIn(m, t + e)
        BY <1>2 DEF WholeIn, IntactAt
      <4>. QED  BY <1>2, <2>1, <2>2, <2>5, <4>1, <4>2 DEF HandledInv, WholeIn
    <3>4. LinesInv'
      BY <3>1 DEF LinesInv
    <3>5. TypeOK'
      BY <1>1, <1>2, <1>5, <2>1, <2>6, <2>7, <3>1 DEF TypeOK, Wanted
    <3>. QED  BY <3>2, <3>3, <3>4, <3>5 DEF IInv
  <2>8. CASE ~(Parses(line) /\ Wanted(k))
    <3>1. reader' = "dispatch" /\ lines' = OtherLines(lines)
      BY <1>3, <1>5, <2>1, <2>2, <2>8 DEF Dispatch
    <3>2. /\ FlowInv' /\ WrittenInv' /\ Taken' = t + e
          /\ \A m : Came(m) => Came(m)'
          /\ lines' \in Seq(Pieces)
          /\ lines' # <<>> => EndsLine(lines'[Len(lines')])
      BY <1>1, <1>2, <1>5, <2>1, <3>1, TakenKeeps
    <3>3. PendingInv'
      BY <1>1, <1>2, <3>2 DEF PendingInv, Arrived
    <3>4. HandledInv'
      <4>1. Done' = t + e
        BY <3>1, <3>2 DEF Done
      <4>2. \A m : WholeIn(m, t + e)' <=> WholeIn(m, t + e)
        BY <1>2 DEF WholeIn, IntactAt
      <4>. QED  BY <1>2, <2>1, <2>2, <2>5, <4>1, <4>2 DEF HandledInv, WholeIn
    <3>5. LinesInv'
      BY <3>1 DEF LinesInv
    <3>6. TypeOK'
      BY <1>1, <1>2, <2>6, <3>1, <3>2 DEF TypeOK
    <3>. QED  BY <3>2, <3>3, <3>4, <3>5, <3>6 DEF IInv
  <2>. QED  BY <2>7, <2>8
<1>. QED  BY <1>4, <1>5

\* The reader thread's call has been served, or has failed.
LEMMA PostingEnds ==
    ASSUME IInv, PostFails \/ Serve
    PROVE  IInv'
<1>1. TypeOK /\ LinesInv /\ FlowInv /\ WrittenInv /\ HandledInv /\ PendingInv
  BY DEF IInv
<1>2. /\ reader = "posting" /\ reader' = "dispatch" /\ lines' = OtherLines(lines)
      /\ UNCHANGED <<setup, main, handler, current, running, closed, buffer, handled, wire,
                     gone, sent, written>>
  BY DEF PostFails, Serve, mainVars, simulatorVars
<1>3. PICK line, k, t, w :
         /\ line = FirstLine(lines) /\ k = Head(lines).message
         /\ t = Taken /\ w = Len(written)
  OBVIOUS
<1>4. lines # <<>> /\ Parses(line)
  BY <1>1, <1>2, <1>3 DEF TypeOK
<1>5. /\ Len(line) = 2 /\ t \in Nat /\ w \in Nat /\ t + 2 <= w /\ k = line[1].message
      /\ IntactAt(t + 1, k)
  <2>1. w \in Nat
    BY <1>1, <1>3, Texts
  <2>. QED  BY <1>1, <1>3, <1>4, <2>1, LineTaken
<1>6. /\ FlowInv' /\ WrittenInv' /\ Taken' = t + 2
      /\ \A m : Came(m) => Came(m)'
      /\ lines' \in Seq(Pieces)
      /\ lines' # <<>> => EndsLine(lines'[Len(lines')])
  BY <1>1, <1>2, <1>3, <1>4, <1>5, TakenKeeps
<1>7. HandledInv'
  <2>1. Done = t + 2 /\ Done' = t + 2
    BY <1>2, <1>3, <1>6 DEF Done
  <2>2. \A m : WholeIn(m, t + 2)' <=> WholeIn(m, t + 2)
    BY <1>2 DEF WholeIn, IntactAt
  <2>. QED  BY <1>1, <1>2, <2>1, <2>2 DEF HandledInv, WholeIn
<1>8. LinesInv'
  BY <1>2 DEF LinesInv
<1>9. ASSUME pending' \in Seq(1..MaxSent)  PROVE TypeOK'
  BY <1>1, <1>2, <1>6, <1>9 DEF TypeOK
<1>10. written[t + 1] = Head1(k) /\ t + 1 \in 1..w /\ ~EndsLine(Head1(k)) /\ Head1(k).message = k
  BY <1>5 DEF IntactAt, Head1, EndsLine
<1>11. CASE PostFails
  <2>1. pending' = pending
    BY <1>11 DEF PostFails, mainVars
  <2>2. PendingInv'
    BY <1>1, <1>2, <1>6, <2>1 DEF PendingInv, Arrived
  <2>3. TypeOK'
    BY <1>1, <1>9, <2>1 DEF TypeOK
  <2>. QED  BY <1>6, <1>7, <1>8, <2>2, <2>3 DEF IInv
<1>12. CASE Serve
  <2>1. pending' = Append(pending, k)
    BY <1>3, <1>12 DEF Serve
  <2>2. /\ pending \in Seq(1..MaxSent) /\ Len(pending) \in Nat /\ k \in 1..MaxSent
        /\ current \in 0..MaxSent
    <3>1. pending \in Seq(1..MaxSent) /\ Len(sent) \in 0..MaxSent /\ current \in 0..MaxSent
      BY <1>1, Texts DEF TypeOK
    <3>2. k \in 1..Len(sent)
      BY <1>1, <1>3, <1>10 DEF WrittenInv
    <3>. QED  BY <3>1, <3>2, ConstantsAssumption
  <2>3. /\ pending' \in Seq(1..MaxSent) /\ Len(pending') = Len(pending) + 1
        /\ \A i \in 1..Len(pending) : pending'[i] = pending[i]
        /\ pending'[Len(pending) + 1] = k
    BY <2>1, <2>2
  <2>4. \A i \in 1..Len(pending') : i \in 1..Len(pending) \/ i = Len(pending) + 1
    BY <2>2, <2>3
  <2>5. \A m : Came(m) => m < k
    <3>. SUFFICES ASSUME NEW m, NEW i \in 1..w, i <= t, written[i] = Head1(m)
                  PROVE  m < k
      BY <1>3 DEF Came
    <3>1. i < t + 1 /\ ~EndsLine(written[i]) /\ written[i].message = m
      BY <1>5 DEF Head1, EndsLine
    <3>2. \A a, b \in 1..w :
             a < b /\ ~EndsLine(written[a]) /\ ~EndsLine(written[b])
                => written[a].message < written[b].message
      BY <1>1, <1>3 DEF WrittenInv
    <3>. QED  BY <1>10, <3>1, <3>2
  <2>6. Came(k)'
    <3>1. t + 1 \in 1..Len(written') /\ t + 1 <= t + 2
      BY <1>2, <1>3, <1>5, <1>10
    <3>. QED  BY <1>2, <1>6, <1>10, <3>1 DEF Came
  <2>7. /\ \A i \in 1..Len(pending) : pending[i] \in Arrived \ {0} /\ Came(pending[i])
        /\ current # 0 => Came(current)
    BY <1>1, <2>2 DEF PendingInv, Arrived
  <2>8. ASSUME NEW i \in 1..Len(pending'), NEW j \in 1..Len(pending'), i < j
        PROVE  pending'[i] < pending'[j]
    <3>1. i \in 1..Len(pending)
      BY <2>2, <2>3, <2>8
    <3>2. CASE j \in 1..Len(pending)
      BY <1>1, <2>3, <2>8, <3>1, <3>2 DEF PendingInv
    <3>3. CASE j = Len(pending) + 1
      BY <2>3, <2>5, <2>7, <3>1, <3>3
    <3>. QED  BY <2>4, <3>2, <3>3
  <2>9. \A i \in 1..Len(pending') : current < pending'[i]
    <3>1. current < k
      BY <2>2, <2>5, <2>7
    <3>. QED  BY <1>1, <2>3, <2>4, <3>1 DEF PendingInv
  <2>12. \A m \in Arrived' : m = k \/ m \in Arrived
    BY <1>2, <2>3, <2>4 DEF Arrived
  <2>10. PendingInv'
    <3>1. \A m \in Arrived' \ {0} : Came(m)'
      BY <1>1, <1>6, <2>6, <2>12 DEF PendingInv
    <3>. QED  BY <1>2, <2>8, <2>9, <3>1 DEF PendingInv
  <2>11. TypeOK'
    BY <1>9, <2>3
  <2>. QED  BY <1>6, <1>7, <1>8, <2>10, <2>11 DEF IInv
<1>. QED  BY <1>11, <1>12

\* The main thread applies an update: the oldest, which is newer than the current one.
LEMMA ApplyKeeps ==
    ASSUME IInv, Apply
    PROVE  IInv' /\ sent' = sent /\ current' \in current + 1 .. Len(sent)
<1>1. TypeOK /\ LinesInv /\ FlowInv /\ WrittenInv /\ HandledInv /\ PendingInv
  BY DEF IInv
<1>2. /\ pending # <<>> /\ current' = Head(pending) /\ pending' = Tail(pending)
      /\ UNCHANGED <<setup, main, handler, reader, buffer, lines, handled, running, closed,
                     wire, gone, sent, written>>
  BY DEF Apply, readerVars, simulatorVars
<1>3. pending \in Seq(1..MaxSent) /\ current \in 0..MaxSent /\ Len(sent) \in 0..MaxSent
  BY <1>1, Texts DEF TypeOK
<1>4. /\ Len(pending) \in Nat \ {0} /\ Head(pending) = pending[1]
      /\ pending' \in Seq(1..MaxSent) /\ Len(pending') = Len(pending) - 1
      /\ \A i \in 1..Len(pending) : pending[i] \in 1..MaxSent
      /\ \A i \in 1..Len(pending') : pending'[i] = pending[i + 1]
  <2>1. Len(pending) \in Nat \ {0} /\ Head(pending) = pending[1]
    BY <1>2, <1>3, EmptySeq
  <2>2. /\ pending' \in Seq(1..MaxSent) /\ Len(pending') = Len(pending) - 1
        /\ \A i \in 1..Len(pending') : pending'[i] = pending[i + 1]
    BY <1>2, <1>3, HeadTailProperties
  <2>3. \A i \in 1..Len(pending) : pending[i] \in 1..MaxSent
    BY <1>3, ElementOfSeq
  <2>. QED  BY <2>1, <2>2, <2>3
<1>5. Flow' = Flow /\ Taken' = Taken
  BY <1>2 DEF Flow, Taken
<1>6. \A i \in 1..Len(pending') : i \in 1..Len(pending) /\ i + 1 \in 1..Len(pending) /\ 1 < i + 1
  BY <1>4
<1>7. 1 \in 1..Len(pending) /\ current' = pending[1] /\ current' \in 1..MaxSent
  BY <1>2, <1>4
<1>8. current < current' /\ current' <= Len(sent) /\ Came(current')
  <2>1. current < current' /\ Came(current')
    <3>1. current' \in Arrived \ {0}
      BY <1>7 DEF Arrived
    <3>. QED  BY <1>1, <1>7, <3>1 DEF PendingInv
  <2>2. current' \in 1..Len(sent)
    BY <1>1, <2>1 DEF Came, WrittenInv, Head1
  <2>. QED  BY <1>3, <2>1, <2>2
<1>9. \A m : Came(m) => Came(m)'
  BY <1>2, <1>5 DEF Came
<1>10. /\ \A i \in 1..Len(pending') : current' < pending'[i]
       /\ Arrived' \subseteq Arrived
  <2>1. \A i \in 1..Len(pending') : current' < pending'[i]
    BY <1>1, <1>4, <1>6, <1>7 DEF PendingInv
  <2>2. \A i \in 1..Len(pending') : pending'[i] \in Arrived
    BY <1>4, <1>6 DEF Arrived
  <2>3. current' \in Arrived
    BY <1>7 DEF Arrived
  <2>. QED  BY <2>1, <2>2, <2>3 DEF Arrived
<1>11. ASSUME NEW i \in 1..Len(pending'), NEW j \in 1..Len(pending'), i < j
       PROVE  pending'[i] < pending'[j]
  <2>1. i + 1 \in 1..Len(pending) /\ j + 1 \in 1..Len(pending) /\ i + 1 < j + 1
    BY <1>6, <1>11
  <2>. QED  BY <1>1, <1>4, <2>1 DEF PendingInv
<1>13. PendingInv'
  <2>1. \A k \in Arrived' \ {0} : Came(k)'
    BY <1>1, <1>9, <1>10 DEF PendingInv
  <2>. QED  BY <1>10, <1>11, <2>1 DEF PendingInv
<1>14. FlowInv' /\ WrittenInv'
  BY <1>1, <1>2, <1>5 DEF FlowInv, WrittenInv
<1>15. HandledInv'
  BY <1>1, <1>2, <1>5, QuietKeepsHandled
<1>16. current' \in 0..MaxSent
  BY <1>7, ConstantsAssumption
<1>17. LinesInv' /\ TypeOK'
  BY <1>1, <1>2, <1>4, <1>16 DEF LinesInv, TypeOK
<1>18. current' \in current + 1 .. Len(sent)
  BY <1>3, <1>7, <1>8, ConstantsAssumption
<1>. QED  BY <1>2, <1>13, <1>14, <1>15, <1>17, <1>18 DEF IInv

\* The steps that only move a thread on.
Moves ==
    \/ SimulatorCloses \/ Connect \/ LoopTest \/ Timeout \/ NoMore
    \/ Launch \/ SetHandler \/ Verify \/ CloseWindow \/ Join

\* They leave the text, and what is known of it, alone.
LEMMA MovesKeep ==
    ASSUME IInv, Moves
    PROVE  IInv' /\ UNCHANGED <<sent, current>>
<1>1. TypeOK /\ LinesInv /\ FlowInv /\ WrittenInv /\ HandledInv /\ PendingInv
  BY DEF IInv
<1>2. /\ UNCHANGED <<setup, pending, current, buffer, lines, handled, wire, sent, written>>
      /\ reader' # "posting" \/ reader' = reader
      /\ reader \in {"dispatch", "posting"} => reader' = reader
  BY DEF Moves, SimulatorCloses, Connect, LoopTest, Timeout, NoMore, Launch, SetHandler,
         Verify, CloseWindow, Join, mainVars, readerVars, simulatorVars
<1>3. FlowInv' /\ WrittenInv' /\ HandledInv' /\ PendingInv'
  BY <1>1, <1>2, QuietKeeps, QuietKeepsHandled DEF Flow
<1>4. LinesInv'
  BY <1>1, <1>2 DEF LinesInv
<1>5. /\ main' \in {"launch", "verify", "loop", "alone", "joining", "exited"}
      /\ handler' \in BOOLEAN /\ running' \in BOOLEAN /\ closed' \in BOOLEAN /\ gone' \in BOOLEAN
      /\ reader' \in {"off", "connect", "loop", "recv", "dispatch", "posting", "ended"}
      /\ handler => handler'
  <2>1. CASE SimulatorCloses
    BY <1>1, <2>1 DEF TypeOK, SimulatorCloses, mainVars, readerVars
  <2>2. CASE Connect \/ LoopTest \/ Timeout \/ NoMore
    BY <1>1, <2>2 DEF TypeOK, Connect, LoopTest, Timeout, NoMore, mainVars, simulatorVars
  <2>3. CASE Launch
    BY <1>1, <2>3 DEF TypeOK, Launch, mainVars, simulatorVars
  <2>4. CASE SetHandler \/ Verify \/ Join
    BY <1>1, <2>4 DEF TypeOK, SetHandler, Verify, Join, readerVars, simulatorVars
  <2>5. CASE CloseWindow
    BY <1>1, <2>5 DEF TypeOK, CloseWindow, readerVars, simulatorVars
  <2>. QED  BY <2>1, <2>2, <2>3, <2>4, <2>5 DEF Moves
<1>6. TypeOK'
  BY <1>1, <1>2, <1>5 DEF TypeOK
<1>. QED  BY <1>2, <1>3, <1>4, <1>6 DEF IInv

\* Every step.
LEMMA StepKeeps ==
    ASSUME IInv, [Next]_vars
    PROVE  IInv' /\ [Gps!Next]_<<Len(sent), current>>
<1>1. ASSUME NEW kind \in {"gps", "acoustic"}, NEW parts \in {0, 1}, BeginSend(kind, parts)
      PROVE  IInv' /\ Gps!Next
  BY <1>1, BeginKeeps DEF Gps!Next, Gps!Push
<1>9. ASSUME NEW k \in DOMAIN sent, EndSend(k) \/ GiveUp(k)
      PROVE  IInv' /\ UNCHANGED <<Len(sent), current>>
  BY <1>9, EndKeeps, GiveUpKeeps
<1>2. ASSUME NEW n \in 1..Len(wire), Receive(n)
      PROVE  IInv' /\ UNCHANGED <<sent, current>>
  <2>1. TypeOK /\ LinesInv /\ FlowInv /\ WrittenInv /\ HandledInv /\ PendingInv
    BY DEF IInv
  <2>2. /\ UNCHANGED <<mainVars, running, closed, handled, simulatorVars>>
        /\ reader' = "dispatch"
    BY <1>2 DEF Receive
  <2>3. /\ Flow' = Flow
        /\ lines' \in Seq(Pieces) /\ buffer' \in Seq(Pieces) /\ wire' \in Seq(Pieces)
        /\ Ends(buffer') = {}
        /\ lines' # <<>> => EndsLine(lines'[Len(lines')])
    BY <1>2, <2>1, ReceiveMoves
  <2>4. FlowInv' /\ WrittenInv' /\ PendingInv'
    BY <2>1, <2>2, <2>3, QuietKeeps DEF mainVars, simulatorVars
  <2>7. HandledInv'
    BY <1>2, <2>1, <2>2, <2>3, QuietKeepsHandled DEF Receive, simulatorVars
  <2>5. LinesInv'
    BY <2>2 DEF LinesInv
  <2>6. TypeOK'
    BY <2>1, <2>2, <2>3 DEF TypeOK, mainVars, simulatorVars
  <2>. QED  BY <2>2, <2>4, <2>5, <2>6, <2>7 DEF IInv, mainVars, simulatorVars
<1>3. CASE Dispatch
  <2>1. UNCHANGED <<sent, current>>
    BY <1>3 DEF Dispatch, mainVars, simulatorVars
  <2>. QED  BY <1>3, <2>1, DispatchKeeps
<1>4. CASE PostFails \/ Serve
  <2>1. UNCHANGED <<sent, current>>
    BY <1>4 DEF PostFails, Serve, mainVars, simulatorVars
  <2>. QED  BY <1>4, <2>1, PostingEnds
<1>5. CASE Apply
  BY <1>5, ApplyKeeps DEF Gps!Next, Gps!Apply
<1>6. CASE Moves
  BY <1>6, MovesKeep
<1>7. CASE UNCHANGED vars
  <2>1. UNCHANGED <<mainVars, readerVars, running, closed, wire, simulatorVars>>
    BY <1>7 DEF vars
  <2>2. FlowInv' /\ WrittenInv' /\ HandledInv' /\ PendingInv'
    BY <2>1, QuietKeeps, QuietKeepsHandled DEF IInv, Flow, mainVars, readerVars, simulatorVars
  <2>3. TypeOK' /\ LinesInv'
    BY <2>1 DEF IInv, TypeOK, LinesInv, mainVars, readerVars, simulatorVars
  <2>. QED  BY <2>1, <2>2, <2>3 DEF IInv, mainVars, simulatorVars
<1>8. \/ \E kind \in {"gps", "acoustic"}, parts \in {0, 1} : BeginSend(kind, parts)
      \/ \E k \in DOMAIN sent : EndSend(k) \/ GiveUp(k)
      \/ \E n \in 1..Len(wire) : Receive(n)
      \/ Dispatch \/ PostFails \/ Serve \/ Apply \/ Moves \/ UNCHANGED vars
  BY DEF Next, Reader, Main, Moves
<1>. QED  BY <1>1, <1>2, <1>3, <1>4, <1>5, <1>6, <1>7, <1>8, <1>9

\* At the beginning nothing has been sent.
LEMMA InitHolds ==
    ASSUME Init
    PROVE  IInv /\ Gps!Init
<1>1. lines = <<>> /\ buffer = <<>> /\ wire = <<>> /\ sent = <<>> /\ written = <<>>
      /\ pending = <<>>
  BY DEF Init
<1>2. <<>> \in Seq(Pieces) /\ Len(<<>>) = 0
  OBVIOUS
<1>3. Flow = <<>>
  BY <1>1, <1>2, ConcatEmptySeq DEF Flow
<1>4. TypeOK
  <2>1. Ends(<<>>) = {}
    BY DEF Ends
  <2>2. /\ lines \in Seq(Pieces) /\ buffer \in Seq(Pieces) /\ wire \in Seq(Pieces)
        /\ pending \in Seq(1..MaxSent)
        /\ sent \in Seq(Messages) /\ Len(sent) = 0 /\ written \in Seq(Pieces)
    BY <1>1
  <2>3. /\ setup \in Setups /\ main = "launch" /\ handler \in BOOLEAN /\ running \in BOOLEAN
        /\ closed \in BOOLEAN /\ gone \in BOOLEAN /\ current = 0 /\ reader = "off"
        /\ handled = {}
    BY DEF Init
  <2>4. current \in 0..MaxSent /\ Len(sent) <= MaxSent
    BY <2>2, <2>3, ConstantsAssumption
  <2>. QED  BY <1>1, <2>1, <2>2, <2>3, <2>4 DEF TypeOK, Messages
<1>5. FlowInv /\ WrittenInv
  BY <1>1, <1>2, <1>3 DEF FlowInv, WrittenInv, Taken
<1>6. HandledInv /\ PendingInv
  <2>1. Taken = 0 /\ Done = 0 /\ handled = {} /\ current = 0
    BY <1>1, <1>2, <1>3 DEF Taken, Done, Init
  <2>2. Arrived = {0}
    BY <1>1, <1>2, <2>1 DEF Arrived
  <2>3. PendingInv
    BY <1>1, <1>2, <2>2 DEF PendingInv
  <2>. QED  BY <1>1, <1>2, <2>1, <2>3 DEF HandledInv, WholeIn
<1>7. LinesInv
  BY <1>1 DEF Init, LinesInv
<1>8. Gps!Init
  BY <1>1 DEF Init, Gps!Init
<1>. QED  BY <1>4, <1>5, <1>6, <1>7, <1>8 DEF IInv

--------------------------------------------------------------------------------
(* The theorems.                                                              *)

\* The invariant the other theorems rest on, for every simulator and every way of
\* receiving what it sends (protocol.py, simulator_json.py).
THEOREM IInvHolds == Spec => []IInv
<1>1. IInv /\ [Next]_vars => IInv'
  BY StepKeeps
<1>. QED  BY InitHolds, <1>1, PTL DEF Spec

\* Every variable has its type; a reader that waits for Tk has an update in hand.
THEOREM TypeCorrect == Spec => []TypeOK
<1>1. IInv => TypeOK
  BY DEF IInv
<1>. QED  BY IInvHolds, <1>1, PTL

\* Exactly the messages that are whole on a line of their own are dispatched, however the
\* bytes arrive, whatever is cut off and however the calls of several threads mix on the
\* connection (protocol.py:37-48, backends.py:232, 254).
THEOREM ExactlyIntactIsHandled == Spec => []IntactIsHandled
<1>1. IInv => IntactIsHandled
  <2>. SUFFICES ASSUME IInv, NEW k \in DOMAIN sent, ~Underway(k)
                PROVE  k \in handled <=> Intact(k)
    BY DEF IntactIsHandled
  <2>1. /\ Len(written) \in Nat /\ Len(Flow) \in Nat /\ Len(Flow) <= Len(written)
        /\ Done <= Len(written) /\ Taken = Len(written) - Len(Flow)
        /\ \A i \in 1..Len(Flow) : Flow[i] = written[Taken + i]
    BY Texts DEF IInv, FlowInv, HandledInv, Taken
  <2>2. k \in 1..MaxSent /\ ~In(k, Flow)
    <3>1. k \in 1..Len(sent) /\ Len(sent) \in 0..MaxSent /\ ~In(k, Flow)
      BY Texts DEF IInv
    <3>. QED  BY <3>1, ConstantsAssumption
  <2>3. k \in handled <=> WholeIn(k, Done)
    BY <2>2 DEF IInv, HandledInv
  <2>4. Taken \in Nat /\ Taken <= Done /\ Done \in Nat
    BY <2>1 DEF Done
  <2>5. WholeIn(k, Done) => Intact(k)
    BY <2>1, <2>4 DEF WholeIn, Intact
  <2>6. ASSUME NEW i \in 1..Len(written) - 1, IntactAt(i, k)  PROVE i + 1 <= Taken
    <3>. SUFFICES ASSUME i + 1 > Taken  PROVE FALSE
      BY <2>4
    <3>1. PICK j \in 1..Len(Flow) : Taken + j = i + 1
      <4>1. i + 1 - Taken \in 1..Len(Flow) /\ Taken + (i + 1 - Taken) = i + 1
        BY <2>1, <2>4
      <4>. QED  BY <4>1
    <3>2. Flow[j].message = k
      BY <2>1, <2>6, <3>1 DEF IntactAt, Tail1
    <3>. QED  BY <2>2, <3>2 DEF In
  <2>7. Intact(k) => WholeIn(k, Done)
    BY <2>1, <2>4, <2>6 DEF WholeIn, Intact
  <2>. QED  BY <2>3, <2>5, <2>7
<1>. QED  BY IInvHolds, <1>1, PTL

\* The clients implement the abstract channel: the position moves on only, from update
\* to later update (single_node.py:82-90).
THEOREM ImplementsGpsChannel == Spec => PositionMovesOn
<1>1. IInv /\ [Next]_vars => [Gps!Next]_<<Len(sent), current>>
  BY StepKeeps
<1>2. Init => Gps!Init
  BY InitHolds
<1>. QED  BY IInvHolds, <1>1, <1>2, PTL DEF Spec, PositionMovesOn, Gps!Spec
--------------------------------------------------------------------------------
(* No update is dropped on its way to the node.                               *)

\* An update that the reader thread has handed to Tk when the main loop had begun, or that
\* is scheduled.
Posted(k) == main \notin {"launch", "verify"} /\ reader = "posting" /\ Head(lines).message = k
Scheduled(k) == \E i \in 1..Len(pending) : pending[i] = k
OnItsWay(k) == Posted(k) \/ Scheduled(k)

\* Such an update stays there until it is the node's position; no other update, end of the
\* connection or closing window takes its place.
NoUpdateIsDropped == [][\A k : OnItsWay(k) => OnItsWay(k)' \/ current' = k]_vars

\* What Tk is given to call goes behind what is scheduled, and what is called is the first
\* of that.
LEMMA Scheduling ==
    ASSUME TypeOK, NEW k, OnItsWay(k), Serve \/ Apply  PROVE OnItsWay(k)' \/ current' = k
<1>1. pending \in Seq(1..MaxSent) /\ Len(pending) \in Nat
  BY DEF TypeOK
<1>2. CASE Serve
  <2>1. pending' = Append(pending, Head(lines).message)
    BY <1>2 DEF Serve
  <2>2. PICK x : x = Head(lines).message /\ pending' = Append(pending, x)
    BY <2>1
  <2>3. /\ Len(pending') = Len(pending) + 1 /\ pending'[Len(pending) + 1] = x
        /\ \A i \in 1..Len(pending) : pending'[i] = pending[i]
    BY <1>1, <2>2
  <2>4. CASE Posted(k)
    <3>1. x = k /\ Len(pending) + 1 \in 1..Len(pending')
      BY <1>1, <2>2, <2>3, <2>4 DEF Posted
    <3>2. Scheduled(k)'
      BY <2>3, <3>1 DEF Scheduled
    <3>. QED  BY <3>2 DEF OnItsWay
  <2>5. CASE Scheduled(k)
    <3>1. PICK i \in 1..Len(pending) : pending[i] = k
      BY <2>5 DEF Scheduled
    <3>2. i \in 1..Len(pending') /\ pending'[i] = k
      BY <1>1, <2>3, <3>1
    <3>3. Scheduled(k)'
      BY <3>2 DEF Scheduled
    <3>. QED  BY <3>3 DEF OnItsWay
  <2>. QED  BY <2>4, <2>5 DEF OnItsWay
<1>3. CASE Apply
  <2>1. /\ current' = Head(pending) /\ pending' = Tail(pending) /\ pending # <<>>
        /\ UNCHANGED <<main, readerVars>>
    BY <1>3 DEF Apply
  <2>2. /\ Len(pending') = Len(pending) - 1 /\ Head(pending) = pending[1]
        /\ \A i \in 1..Len(pending) - 1 : pending'[i] = pending[i + 1]
    BY <1>1, <2>1
  <2>3. Posted(k) => Posted(k)'
    BY <2>1 DEF Posted, readerVars
  <2>4. ASSUME Scheduled(k), current' # k  PROVE Scheduled(k)'
    <3>1. PICK i \in 1..Len(pending) : pending[i] = k
      BY <2>4 DEF Scheduled
    <3>2. i # 1
      BY <2>1, <2>2, <2>4, <3>1
    <3>3. PICK j : j = i - 1
      OBVIOUS
    <3>4. j \in 1..Len(pending') /\ j \in 1..Len(pending) - 1 /\ j + 1 = i
      BY <1>1, <2>2, <3>1, <3>2, <3>3
    <3>5. pending'[j] = k
      BY <2>2, <3>1, <3>4
    <3>. QED  BY <3>4, <3>5 DEF Scheduled
  <2>. QED  BY <2>3, <2>4 DEF OnItsWay
<1>. QED  BY <1>2, <1>3

\* All other steps leave what is on its way where it is.
LEMMA WaitingStays ==
    ASSUME NEW k, OnItsWay(k), [Next]_vars, ~Serve, ~Apply  PROVE OnItsWay(k)'
<1>1. ASSUME UNCHANGED pending,
             \/ reader # "posting" \/ main \in {"launch", "verify"}
             \/ UNCHANGED <<reader, lines>> /\ main' \notin {"launch", "verify"}
      PROVE  OnItsWay(k)'
  BY <1>1 DEF OnItsWay, Posted, Scheduled
<1>. USE DEF mainVars, readerVars, simulatorVars, vars
<1>2. ASSUME NEW kind, NEW parts, NEW j, BeginSend(kind, parts) \/ EndSend(j) \/ GiveUp(j)
      PROVE  OnItsWay(k)'
  BY <1>1, <1>2 DEF BeginSend, EndSend, GiveUp
<1>3. ASSUME NEW n, Receive(n)  PROVE OnItsWay(k)'
  BY <1>1, <1>3 DEF Receive
<1>4. ASSUME SimulatorCloses \/ UNCHANGED vars  PROVE OnItsWay(k)'
  BY <1>1, <1>4 DEF SimulatorCloses
<1>5. ASSUME Connect \/ LoopTest \/ Timeout \/ NoMore \/ Dispatch \/ PostFails
      PROVE  OnItsWay(k)'
  BY <1>1, <1>5 DEF Connect, LoopTest, Timeout, NoMore, Dispatch, PostFails
<1>6. ASSUME Launch \/ SetHandler \/ Verify \/ CloseWindow \/ Join  PROVE OnItsWay(k)'
  BY <1>1, <1>6 DEF Launch, SetHandler, Verify, CloseWindow, Join
<1>. HIDE DEF mainVars, readerVars, simulatorVars, vars
<1>. QED  BY <1>2, <1>3, <1>4, <1>5, <1>6 DEF Next, Reader, Main

\* An update handed to a running main loop, or scheduled in it, is not lost before it is
\* the node's position: the safe half of "it is applied in the end", for the three set-ups
\* and also while the window closes (single_node.py:82-90, controller.py:155-163).
THEOREM UpdatesAreNotDropped == Spec => NoUpdateIsDropped
<1>1. IInv /\ [Next]_vars => [\A k : OnItsWay(k) => OnItsWay(k)' \/ current' = k]_vars
  <2>. SUFFICES ASSUME IInv, [Next]_vars, NEW k, OnItsWay(k)
                PROVE  OnItsWay(k)' \/ current' = k
    OBVIOUS
  <2>1. TypeOK
    BY DEF IInv
  <2>. QED  BY <2>1, Scheduling, WaitingStays
<1>. QED  BY IInvHolds, <1>1, PTL DEF Spec, NoUpdateIsDropped

================================================================================
