------------------------- MODULE CommandStream_proofs --------------------------
(***************************************************************************)
(* Theorems about CommandStream, for any number of threads, any commands   *)
(* and any way in which the bytes are written and read.                    *)
(*                                                                         *)
(* What is on its way to on_data is one text, wherever it is: in the       *)
(* buffer of the reader, in the PTY, or still to be written by the thread  *)
(* that holds the lock.  It consists of the commands that have not been    *)
(* delivered, in the order of the lock, with nothing but typed line breaks *)
(* between them.  Writing and reading move borders in it; a command goes   *)
(* to its end as a whole, and the reader takes one from its beginning.     *)
(***************************************************************************)
EXTENDS CommandStream, SequenceTheorems, WellFoundedInduction, TLAPS

\* No payload has a line break in it.
OneLine ==
    \A c \in Command :
        c.kind = "Broadcast" => \A i \in 1..Len(c.data) : c.data[i] # LineFeed

Unwritten == IF lock = Nobody THEN <<>> ELSE out[lock]
Text == (buffer \o wire) \o Unwritten

\* buf goes as m goes, as far as both go.
Agrees(buf, m) == \A i \in 1..Len(m) : i <= Len(buf) => buf[i] = m[i]

\* A message has no line break in it, and where it begins is known where it ends.
Unbroken(m) ==
    /\ m \in Bytes /\ Len(m) >= 2 /\ m[1] = Dollar
    /\ \A i \in 1..Len(m) : m[i] # LineFeed
Measured(m) ==
    \A buf \in Bytes : Agrees(buf, m) =>
        CommandLength(buf) = Len(m) \/ (CommandLength(buf) = 0 /\ Len(buf) < Len(m))
IsMessage(m) == Unbroken(m) /\ Measured(m)

\* In a text, message m ends at position to, and after position from there are only
\* line breaks before it.
Stands(text, m, from, to) ==
    /\ from + Len(m) <= to
    /\ \A i \in from+1..to-Len(m) : text[i] = LineFeed
    /\ \A i \in 1..Len(m) : text[(to - Len(m)) + i] = m[i]

\* A text is the messages after the first k of msgs, ending at the positions in ends.
Consists(text, msgs, k, ends) ==
    /\ ends \in [k..Len(msgs) -> 0..Len(text)]
    /\ ends[k] = 0
    /\ \A i, j \in k..Len(msgs) : i <= j => ends[i] <= ends[j]
    /\ \A j \in k+1..Len(msgs) : Stands(text, msgs[j], ends[j - 1], ends[j])
    /\ \A i \in ends[Len(msgs)]+1..Len(text) : text[i] = LineFeed
Whole(text, msgs, k) ==
    \E ends \in [k..Len(msgs) -> 0..Len(text)] : Consists(text, msgs, k, ends)

\* Only commands are sent.
SentInv == \A j \in 1..Len(sent) : IsMessage(sent[j])

\* What has been delivered is what was sent first.
DeliveredInv ==
    /\ Len(delivered) <= Len(sent)
    /\ \A j \in 1..Len(delivered) : delivered[j] = sent[j]

TextInv == Whole(Text, sent, Len(delivered))

IInv == TypeOK /\ SentInv /\ DeliveredInv /\ TextInv

--------------------------------------------------------------------------------
(* Numbers and texts.                                                         *)

\* A non-empty set of natural numbers has a smallest element.
LEMMA Smallest ==
    ASSUME NEW T, T \subseteq Nat, T # {}
    PROVE  \E x \in T : \A y \in T : x <= y
<1>. DEFINE R == OpToRel(<, Nat)
<1>1. IsWellFoundedOn(R, Nat)
  BY NatLessThanWellFounded
<1>2. PICK x \in T : \A y \in T : ~(<<y, x>> \in R)
  <2>. HIDE DEF R
  <2>. QED  BY <1>1, WFMin
<1>3. \A y \in T : ~(y < x)
  BY <1>2 DEF OpToRel
<1>. QED  BY <1>3

\* A text and its bytes.
LEMMA TextIs ==
    ASSUME NEW text \in Bytes
    PROVE  /\ text \in Seq(Byte) /\ Len(text) \in Nat
           /\ \A i \in 1..Len(text) : text[i] \in Byte
           /\ text = <<>> <=> Len(text) = 0
  BY LenProperties, ElementOfSeq, EmptySeq DEF Bytes

\* A part of a text.
LEMMA PartIs ==
    ASSUME NEW text \in Bytes, NEW p \in 0..Len(text), NEW q \in p..Len(text)
    PROVE  /\ SubSeq(text, p + 1, q) \in Bytes
           /\ Len(SubSeq(text, p + 1, q)) = q - p
           /\ \A i \in 1..q-p : SubSeq(text, p + 1, q)[i] = text[p + i]
<1>1. Len(text) \in Nat /\ \A i \in p+1..q : text[i] \in Byte
  BY TextIs
<1>2. p + 1 \in Int /\ q \in Int
  BY <1>1
<1>3. /\ SubSeq(text, p + 1, q) \in Seq(Byte)
      /\ Len(SubSeq(text, p + 1, q)) = IF p + 1 <= q THEN q - (p + 1) + 1 ELSE 0
      /\ \A i \in 1..q-(p+1)+1 : SubSeq(text, p + 1, q)[i] = text[(p + 1) + i - 1]
  BY <1>1, <1>2, SubSeqProperties
<1>. QED  BY <1>1, <1>3 DEF Bytes

\* A text cut in two.
LEMMA CutIs ==
    ASSUME NEW text \in Bytes, NEW e \in 0..Len(text)
    PROVE  /\ SubSeq(text, 1, e) \in Bytes /\ SubSeq(text, e + 1, Len(text)) \in Bytes
           /\ SubSeq(text, 1, e) \o SubSeq(text, e + 1, Len(text)) = text
<1>1. Len(text) \in Nat /\ text \in Seq(Byte)
  BY TextIs
<1>2. SubSeq(text, 1, e) \in Bytes
  <2>1. 0 \in 0..Len(text) /\ e \in 0..Len(text) /\ 0 + 1 = 1
    BY <1>1
  <2>. QED  BY <2>1, PartIs
<1>3. SubSeq(text, e + 1, Len(text)) \in Bytes
  <2>1. Len(text) \in e..Len(text)
    BY <1>1
  <2>. QED  BY <2>1, PartIs
<1>4. SubSeq(text, 1, e) \o SubSeq(text, e + 1, Len(text)) = SubSeq(text, 1, Len(text))
  <2>1. 1 \in 1..Len(text)+1 /\ e \in 1-1..Len(text) /\ Len(text) \in e..Len(text)
    BY <1>1
  <2>. QED  BY <1>1, <2>1, ConcatAdjacentSubSeq
<1>5. SubSeq(text, 1, Len(text)) = text
  BY <1>1, SubSeqFull
<1>. QED  BY <1>2, <1>3, <1>4, <1>5

\* One text before another.
LEMMA JoinIs ==
    ASSUME NEW first \in Bytes, NEW rest \in Bytes
    PROVE  /\ first \o rest \in Bytes
           /\ Len(first) \in Nat /\ Len(rest) \in Nat
           /\ Len(first \o rest) = Len(first) + Len(rest)
           /\ \A i \in 1..Len(first) : (first \o rest)[i] = first[i]
           /\ \A i \in 1..Len(rest) : (first \o rest)[Len(first) + i] = rest[i]
<1>1. Len(first) \in Nat /\ Len(rest) \in Nat
  BY TextIs
<1>2. /\ first \o rest \in Seq(Byte)
      /\ Len(first \o rest) = Len(first) + Len(rest)
      /\ \A i \in 1..Len(first) + Len(rest) :
            (first \o rest)[i] = IF i <= Len(first) THEN first[i] ELSE rest[i - Len(first)]
  BY ConcatProperties DEF Bytes
<1>. QED  BY <1>1, <1>2 DEF Bytes

\* Three texts, one after the other.
LEMMA JoinsAssociate ==
    ASSUME NEW x \in Bytes, NEW y \in Bytes, NEW z \in Bytes
    PROVE  (x \o y) \o z = x \o (y \o z)
  BY ConcatAssociative DEF Bytes

\* The beginning of a text taken off it, with what follows.
LEMMA RestJoins ==
    ASSUME NEW first \in Bytes, NEW rest \in Bytes, NEW e \in 0..Len(first)
    PROVE  SubSeq(first, e + 1, Len(first)) \o rest
              = SubSeq(first \o rest, e + 1, Len(first \o rest))
<1>. DEFINE text == first \o rest
            left == SubSeq(first, e + 1, Len(first)) \o rest
            right == SubSeq(text, e + 1, Len(text))
<1>1. /\ text \in Bytes /\ Len(first) \in Nat /\ Len(rest) \in Nat
      /\ Len(text) = Len(first) + Len(rest)
      /\ \A i \in 1..Len(first) : text[i] = first[i]
      /\ \A i \in 1..Len(rest) : text[Len(first) + i] = rest[i]
  BY JoinIs
<1>2. /\ SubSeq(first, e + 1, Len(first)) \in Bytes
      /\ Len(SubSeq(first, e + 1, Len(first))) = Len(first) - e
      /\ \A i \in 1..Len(first)-e : SubSeq(first, e + 1, Len(first))[i] = first[e + i]
  <2>1. Len(first) \in e..Len(first)
    BY <1>1
  <2>. QED  BY <2>1, PartIs
<1>3. /\ left \in Bytes /\ Len(left) = (Len(first) - e) + Len(rest)
      /\ \A i \in 1..Len(first)-e : left[i] = first[e + i]
      /\ \A i \in 1..Len(rest) : left[(Len(first) - e) + i] = rest[i]
  <2>. DEFINE part == SubSeq(first, e + 1, Len(first))
  <2>. HIDE DEF part
  <2>1. /\ part \o rest \in Bytes /\ Len(part \o rest) = Len(part) + Len(rest)
        /\ \A i \in 1..Len(part) : (part \o rest)[i] = part[i]
        /\ \A i \in 1..Len(rest) : (part \o rest)[Len(part) + i] = rest[i]
    BY <1>2, JoinIs DEF part
  <2>2. left = part \o rest /\ Len(part) = Len(first) - e
    BY <1>2 DEF part
  <2>3. \A i \in 1..Len(first)-e : part[i] = first[e + i]
    BY <1>2 DEF part
  <2>. HIDE DEF left
  <2>. QED  BY <1>1, <2>1, <2>2, <2>3
<1>. HIDE DEF text, left
<1>4. /\ right \in Bytes /\ Len(right) = Len(text) - e
      /\ \A i \in 1..Len(text)-e : right[i] = text[e + i]
  <2>1. e \in 0..Len(text) /\ Len(text) \in e..Len(text)
    BY <1>1
  <2>. QED  BY <1>1, <2>1, PartIs
<1>. HIDE DEF right
<1>5. Len(left) = Len(right)
  BY <1>1, <1>3, <1>4
<1>6. ASSUME NEW i \in 1..Len(left)  PROVE left[i] = right[i]
  <2>1. right[i] = text[e + i]
    BY <1>1, <1>3, <1>4
  <2>2. CASE i <= Len(first) - e
    <3>1. i \in 1..Len(first)-e /\ e + i \in 1..Len(first)
      BY <1>1, <2>2
    <3>. QED  BY <1>1, <1>3, <2>1, <3>1
  <2>3. CASE ~(i <= Len(first) - e)
    <3>1. PICK j \in 1..Len(rest) : i = (Len(first) - e) + j /\ e + i = Len(first) + j
      <4>1. i - (Len(first) - e) \in 1..Len(rest)
        BY <1>1, <1>3, <2>3
      <4>2. /\ i = (Len(first) - e) + (i - (Len(first) - e))
            /\ e + i = Len(first) + (i - (Len(first) - e))
        BY <1>1, <1>3
      <4>. QED  BY <4>1, <4>2
    <3>. QED  BY <1>1, <1>3, <2>1, <3>1
  <2>. QED  BY <2>2, <2>3
<1>7. left = right
  BY <1>3, <1>4, <1>5, <1>6, SeqEqual DEF Bytes
<1>. QED  BY <1>7 DEF left, right, text

--------------------------------------------------------------------------------
(* Commands.                                                                  *)

\* The length of a command, by what it begins with.
LEMMA LengthBy ==
    ASSUME NEW buf \in Bytes
    PROVE  /\ Len(buf) < 2 => CommandLength(buf) = 0
           /\ Len(buf) >= 2 /\ buf[1] = Dollar =>
                 /\ buf[2] = Bee /\ Len(buf) < 4 => CommandLength(buf) = 0
                 /\ buf[2] = Bee /\ Len(buf) >= 4 /\ buf[3] \in Digit /\ buf[4] \in Digit =>
                       CommandLength(buf) = 4 + 10 * buf[3] + buf[4]
                 /\ buf[2] \in {Question, Queue} => CommandLength(buf) = 2
                 /\ buf[2] \in {Tee, Pee} => CommandLength(buf) = 5
<1>1. Len(buf) \in Nat
  BY TextIs
<1>2. /\ Bee \notin {Question, Queue, Tee, Pee}
      /\ Tee \notin {Question, Queue} /\ Pee \notin {Question, Queue}
  BY DEF Bee, Question, Queue, Tee, Pee
<1>3. CASE Len(buf) < 2
  BY <1>1, <1>3 DEF CommandLength, StartsWith
<1>4. CASE Len(buf) >= 2 /\ buf[1] = Dollar
  <2>1. \A letter : StartsWith(buf, letter) <=> buf[2] = letter
    BY <1>4 DEF StartsWith
  <2>2. CASE buf[2] = Bee
    <3>1. CommandLength(buf) = IF Len(buf) >= 4 /\ {buf[3], buf[4]} \subseteq Digit
                               THEN 4 + 10 * buf[3] + buf[4] ELSE 0
      BY <1>2, <2>1, <2>2 DEF CommandLength
    <3>. QED  BY <1>1, <1>2, <1>4, <2>2, <3>1
  <2>3. CASE buf[2] \in {Question, Queue}
    <3>1. CommandLength(buf) = 2
      BY <1>2, <2>1, <2>3 DEF CommandLength
    <3>. QED  BY <1>1, <1>2, <1>4, <2>3, <3>1
  <2>4. CASE buf[2] \in {Tee, Pee}
    <3>1. CommandLength(buf) = 5
      BY <1>2, <2>1, <2>4 DEF CommandLength
    <3>. QED  BY <1>1, <1>2, <1>4, <2>4, <3>1
  <2>. QED  BY <1>1, <1>4, <2>2, <2>3, <2>4
<1>5. CASE Len(buf) >= 2 /\ buf[1] # Dollar
  BY <1>1, <1>5
<1>. QED  BY <1>1, <1>3, <1>4, <1>5

\* What the formats of single commands have in common.
LEMMA FormatIs ==
    ASSUME NEW c \in Command
    PROVE  /\ Format(c) \in Bytes /\ Len(Format(c)) >= 2
           /\ Format(c)[1] = Dollar
           /\ OneLine => IsMessage(Format(c))
<1>. DEFINE m == Format(c)
<1>1. c.kind \in Kinds
  BY ConstantsAssumption
<1>2. /\ Dollar \in Byte /\ Bee \in Byte /\ Pee \in Byte /\ Tee \in Byte /\ Queue \in Byte
      /\ Question \in Byte
      /\ \A d \in Digit : d \in Byte /\ d # LineFeed
      /\ \A b \in {Dollar, Bee, Pee, Tee, Queue, Question} : b # LineFeed
  BY DEF Dollar, Bee, Pee, Tee, Queue, Question, Digit, Byte, LineFeed
<1>3. CASE c.kind = "StatusQuery"
  <2>1. m = <<Dollar, Question>>
    BY <1>3 DEF Format
  <2>2. m \in Bytes /\ Len(m) = 2 /\ m[1] = Dollar /\ m[2] = Question
    BY <1>2, <2>1 DEF Bytes
  <2>3. Unbroken(m)
    BY <1>2, <2>2 DEF Unbroken
  <2>4. Measured(m)
    <3>. SUFFICES ASSUME NEW buf \in Bytes, Agrees(buf, m)
                  PROVE  CommandLength(buf) = 2 \/ (CommandLength(buf) = 0 /\ Len(buf) < 2)
      BY <2>2 DEF Measured
    <3>1. Len(buf) \in Nat
      BY TextIs
    <3>2. CASE Len(buf) >= 2
      <4>1. buf[1] = Dollar /\ buf[2] = Question
        BY <2>2, <3>1, <3>2 DEF Agrees
      <4>. QED  BY <3>2, <4>1, LengthBy
    <3>3. CASE Len(buf) < 2
      BY <3>1, <3>3, LengthBy
    <3>. QED  BY <3>1, <3>2, <3>3
  <2>. QED  BY <2>2, <2>3, <2>4 DEF IsMessage
<1>4. CASE c.kind = "QualityQuery"
  <2>1. m = <<Dollar, Queue>>
    BY <1>4 DEF Format
  <2>2. m \in Bytes /\ Len(m) = 2 /\ m[1] = Dollar /\ m[2] = Queue
    BY <1>2, <2>1 DEF Bytes
  <2>3. Unbroken(m)
    BY <1>2, <2>2 DEF Unbroken
  <2>4. Measured(m)
    <3>. SUFFICES ASSUME NEW buf \in Bytes, Agrees(buf, m)
                  PROVE  CommandLength(buf) = 2 \/ (CommandLength(buf) = 0 /\ Len(buf) < 2)
      BY <2>2 DEF Measured
    <3>1. Len(buf) \in Nat
      BY TextIs
    <3>2. CASE Len(buf) >= 2
      <4>1. buf[1] = Dollar /\ buf[2] = Queue
        BY <2>2, <3>1, <3>2 DEF Agrees
      <4>. QED  BY <3>2, <4>1, LengthBy
    <3>3. CASE Len(buf) < 2
      BY <3>1, <3>3, LengthBy
    <3>. QED  BY <3>1, <3>2, <3>3
  <2>. QED  BY <2>2, <2>3, <2>4 DEF IsMessage
<1>5. CASE c.kind \in {"Ping", "TestRequest"}
  <2>1. PICK letter \in {Pee, Tee} : m = <<Dollar, letter>> \o c.target
    BY <1>5 DEF Format
  <2>2. /\ c.target \in Bytes /\ Len(c.target) = 3
        /\ \A i \in 1..3 : c.target[i] # LineFeed
    <3>1. c.target \in [1..3 -> Digit]
      BY <1>5, ConstantsAssumption
    <3>2. c.target \in [1..3 -> Byte]
      BY <1>2, <3>1
    <3>3. c.target \in Seq(Byte) /\ Len(c.target) = 3
      <4>1. DOMAIN c.target = 1..3 /\ c.target = [i \in 1..3 |-> c.target[i]]
        BY <3>2
      <4>2. [i \in 1..3 |-> c.target[i]] \in Seq(Byte)
        BY <3>2, IsASeq
      <4>3. Len(c.target) = 3
        BY <4>1, <4>2
      <4>. QED  BY <4>1, <4>2, <4>3
    <3>. QED  BY <1>2, <3>1, <3>3 DEF Bytes
  <2>3. /\ <<Dollar, letter>> \in Bytes /\ Len(<<Dollar, letter>>) = 2
        /\ <<Dollar, letter>>[1] = Dollar /\ <<Dollar, letter>>[2] = letter
    BY <1>2 DEF Bytes
  <2>4. /\ m \in Bytes /\ Len(m) = 5 /\ m[1] = Dollar /\ m[2] = letter
        /\ \A i \in 1..3 : m[2 + i] = c.target[i]
    <3>. DEFINE head == <<Dollar, letter>>
    <3>1. head \in Bytes /\ Len(head) = 2 /\ head[1] = Dollar /\ head[2] = letter
      BY <2>3
    <3>2. m = head \o c.target
      BY <2>1
    <3>. HIDE DEF head, m
    <3>3. /\ m \in Bytes /\ Len(m) = Len(head) + Len(c.target)
          /\ \A i \in 1..Len(head) : m[i] = head[i]
          /\ \A i \in 1..Len(c.target) : m[Len(head) + i] = c.target[i]
      BY <2>2, <3>1, <3>2, JoinIs
    <3>4. 1 \in 1..Len(head) /\ 2 \in 1..Len(head)
      BY <3>1
    <3>5. m[1] = Dollar /\ m[2] = letter
      BY <3>1, <3>3, <3>4
    <3>6. Len(m) = 5 /\ \A i \in 1..3 : m[2 + i] = c.target[i]
      BY <2>2, <3>1, <3>3
    <3>. QED  BY <3>3, <3>5, <3>6
  <2>5. Unbroken(m)
    <3>1. \A i \in 1..5 : i = 1 \/ i = 2 \/ \E j \in 1..3 : i = 2 + j
      <4>1. \A i \in 1..5 : i = 1 \/ i = 2 \/ i = 2 + 1 \/ i = 2 + 2 \/ i = 2 + 3
        OBVIOUS
      <4>. QED  BY <4>1
    <3>. QED  BY <1>2, <2>2, <2>4, <3>1 DEF Unbroken
  <2>6. Measured(m)
    <3>. SUFFICES ASSUME NEW buf \in Bytes, Agrees(buf, m)
                  PROVE  CommandLength(buf) = 5 \/ (CommandLength(buf) = 0 /\ Len(buf) < 5)
      BY <2>4 DEF Measured
    <3>1. Len(buf) \in Nat
      BY TextIs
    <3>2. CASE Len(buf) >= 2
      <4>1. buf[1] = Dollar /\ buf[2] = letter
        BY <2>4, <3>1, <3>2 DEF Agrees
      <4>. QED  BY <3>2, <4>1, LengthBy
    <3>3. CASE Len(buf) < 2
      BY <3>1, <3>3, LengthBy
    <3>. QED  BY <3>1, <3>2, <3>3
  <2>. QED  BY <2>4, <2>5, <2>6 DEF IsMessage
<1>6. CASE c.kind = "Broadcast"
  <2>. DEFINE d == c.data
              tens == Len(d) \div 10
              ones == Len(d) % 10
  <2>1. m = (<<Dollar, Bee>> \o <<tens, ones>>) \o d
    BY <1>6 DEF Format, ByteCount
  <2>2. d \in Seq(Byte) /\ d \in Bytes /\ Len(d) <= 99
    BY <1>6, ConstantsAssumption DEF Bytes
  <2>3. /\ tens \in Digit /\ ones \in Digit
        /\ Len(d) \in Nat /\ Len(d) = 10 * tens + ones
    <3>1. PICK n : n = Len(d)
      OBVIOUS
    <3>2. n \in Nat /\ n <= 99
      BY <2>2, <3>1, LenProperties
    <3>3. n \in 0..99
      BY <3>2
    <3>4. n \div 10 \in 0..9 /\ n % 10 \in 0..9 /\ n = (10 * (n \div 10)) + (n % 10)
      BY <3>3
    <3>5. tens = n \div 10 /\ ones = n % 10
      BY <3>1
    <3>. HIDE DEF tens, ones
    <3>. QED  BY <3>1, <3>2, <3>4, <3>5 DEF Digit
  <2>. HIDE DEF d, tens, ones
  <2>4. /\ <<Dollar, Bee>> \o <<tens, ones>> \in Bytes
        /\ Len(<<Dollar, Bee>> \o <<tens, ones>>) = 4
        /\ <<Dollar, Bee>> \o <<tens, ones>> = <<Dollar, Bee, tens, ones>>
    <3>2. Dollar \in Byte /\ Bee \in Byte /\ tens \in Byte /\ ones \in Byte
      BY <1>2, <2>3
    <3>3. <<Dollar, Bee, tens, ones>> \in Seq(Byte) /\ Len(<<Dollar, Bee, tens, ones>>) = 4
      BY <3>2
    <3>4. /\ <<Dollar, Bee>> \in Seq(Byte) /\ Len(<<Dollar, Bee>>) = 2
          /\ <<tens, ones>> \in Seq(Byte) /\ Len(<<tens, ones>>) = 2
      BY <3>2
    <3>5. <<Dollar, Bee>> \o <<tens, ones>> = <<Dollar, Bee, tens, ones>>
      <4>. DEFINE x == <<Dollar, Bee>>
                  y == <<tens, ones>>
                  z == <<Dollar, Bee, tens, ones>>
      <4>1. /\ x \in Seq(Byte) /\ Len(x) = 2 /\ y \in Seq(Byte) /\ Len(y) = 2
            /\ z \in Seq(Byte) /\ Len(z) = 4
            /\ z[1] = x[1] /\ z[2] = x[2] /\ z[3] = y[1] /\ z[4] = y[2]
        BY <3>3, <3>4
      <4>. HIDE DEF x, y, z
      <4>2. /\ x \o y \in Seq(Byte) /\ Len(x \o y) = 4
            /\ \A i \in 1..4 : (x \o y)[i] = IF i <= 2 THEN x[i] ELSE y[i - 2]
        <5>1. /\ x \o y \in Seq(Byte) /\ Len(x \o y) = Len(x) + Len(y)
              /\ \A i \in 1..Len(x) + Len(y) :
                    (x \o y)[i] = IF i <= Len(x) THEN x[i] ELSE y[i - Len(x)]
          BY <4>1, ConcatProperties
        <5>2. Len(x) = 2 /\ Len(y) = 2
          BY <4>1
        <5>. QED  BY <5>1, <5>2
      <4>3. (x \o y)[1] = x[1] /\ (x \o y)[2] = x[2]
        BY <4>2
      <4>4. (x \o y)[3] = y[1] /\ (x \o y)[4] = y[2]
        BY <4>2
      <4>5. \A i \in 1..4 : i = 1 \/ i = 2 \/ i = 3 \/ i = 4
        OBVIOUS
      <4>6. \A i \in 1..4 : (x \o y)[i] = z[i]
        BY <4>1, <4>3, <4>4, <4>5
      <4>7. x \o y = z
        BY <4>1, <4>2, <4>6, SeqEqual
      <4>. QED  BY <4>7 DEF x, y, z
    <3>. QED  BY <3>3, <3>5 DEF Bytes
  <2>5. /\ m \in Bytes /\ Len(m) = 4 + Len(d)
        /\ m[1] = Dollar /\ m[2] = Bee /\ m[3] = tens /\ m[4] = ones
        /\ \A i \in 1..Len(d) : m[4 + i] = d[i]
    <3>. DEFINE head == <<Dollar, Bee>> \o <<tens, ones>>
    <3>1. /\ head \in Bytes /\ Len(head) = 4
          /\ head[1] = Dollar /\ head[2] = Bee /\ head[3] = tens /\ head[4] = ones
      BY <2>4
    <3>2. m = head \o d
      BY <2>1
    <3>. HIDE DEF head, m
    <3>3. /\ m \in Bytes /\ Len(m) = Len(head) + Len(d)
          /\ \A i \in 1..Len(head) : m[i] = head[i]
          /\ \A i \in 1..Len(d) : m[Len(head) + i] = d[i]
      BY <2>2, <3>1, <3>2, JoinIs
    <3>4. /\ 1 \in 1..Len(head) /\ 2 \in 1..Len(head)
          /\ 3 \in 1..Len(head) /\ 4 \in 1..Len(head)
      BY <3>1
    <3>5. m[1] = Dollar /\ m[2] = Bee /\ m[3] = tens /\ m[4] = ones
      BY <3>1, <3>3, <3>4
    <3>6. Len(m) = 4 + Len(d) /\ \A i \in 1..Len(d) : m[4 + i] = d[i]
      BY <3>1, <3>3
    <3>. QED  BY <3>3, <3>5, <3>6
  <2>6. ASSUME OneLine  PROVE Unbroken(m)
    <3>1. \A i \in 1..Len(d) : d[i] # LineFeed
      BY <1>6, <2>6 DEF OneLine, d
    <3>2. ASSUME NEW i \in 1..Len(m)  PROVE m[i] # LineFeed
      <4>1. i \in 1..4 \/ (i - 4 \in 1..Len(d) /\ i = 4 + (i - 4))
        BY <2>2, <2>3, <2>5
      <4>2. CASE i \in 1..4
        <5>1. i = 1 \/ i = 2 \/ i = 3 \/ i = 4
          BY <4>2
        <5>. QED  BY <1>2, <2>3, <2>5, <5>1
      <4>3. CASE i - 4 \in 1..Len(d) /\ i = 4 + (i - 4)
        <5>1. PICK j \in 1..Len(d) : i = 4 + j
          BY <4>3
        <5>. QED  BY <2>5, <3>1, <5>1
      <4>. QED  BY <4>1, <4>2, <4>3
    <3>. QED  BY <2>2, <2>3, <2>5, <3>2 DEF Unbroken
  <2>7. Measured(m)
    <3>. SUFFICES ASSUME NEW buf \in Bytes, Agrees(buf, m)
                  PROVE  \/ CommandLength(buf) = 4 + Len(d)
                         \/ CommandLength(buf) = 0 /\ Len(buf) < 4 + Len(d)
      BY <2>5 DEF Measured
    <3>1. Len(buf) \in Nat /\ Len(m) >= 4 /\ Len(d) \in Nat /\ Len(m) \in Nat
      BY <2>2, <2>3, <2>5, TextIs
    <3>. HIDE DEF m
    <3>2. CASE Len(buf) >= 4
      <4>1. buf[1] = Dollar /\ buf[2] = Bee /\ buf[3] = tens /\ buf[4] = ones
        <5>1. \A i \in 1..4 : i \in 1..Len(m) /\ i <= Len(buf)
          BY <3>1, <3>2
        <5>. QED  BY <2>5, <5>1 DEF Agrees
      <4>2. CommandLength(buf) = 4 + 10 * tens + ones
        BY <2>3, <3>1, <3>2, <4>1, LengthBy
      <4>. QED  BY <2>3, <4>2 DEF Digit
    <3>3. CASE Len(buf) < 4
      <4>1. CommandLength(buf) = 0
        <5>1. CASE Len(buf) < 2
          BY <3>1, <5>1, LengthBy
        <5>2. CASE Len(buf) >= 2
          <6>1. buf[2] = Bee /\ buf[1] = Dollar
            BY <2>5, <3>1, <5>2 DEF Agrees
          <6>. QED  BY <3>1, <3>3, <5>2, <6>1, LengthBy
        <5>. QED  BY <3>1, <5>1, <5>2
      <4>. QED  BY <3>1, <3>3, <4>1
    <3>. QED  BY <3>1, <3>2, <3>3
  <2>8. Len(m) >= 2
    BY <2>3, <2>5
  <2>. QED  BY <2>5, <2>6, <2>7, <2>8 DEF IsMessage
<1>. QED  BY <1>1, <1>3, <1>4, <1>5, <1>6 DEF Kinds

--------------------------------------------------------------------------------
(* Splitting.                                                                 *)

FirstInk(buf) == SelectInSeq(buf, LAMBDA b : b \notin White)
FirstBreak(buf) == SelectInSeq(buf, LAMBDA b : b = LineFeed)

\* The first byte that is not white, and the first line break.
LEMMA FirstsAre ==
    ASSUME NEW buf \in Bytes
    PROVE  /\ \/ FirstInk(buf) = 0 /\ \A i \in 1..Len(buf) : buf[i] \in White
              \/ /\ FirstInk(buf) \in 1..Len(buf) /\ buf[FirstInk(buf)] \notin White
                 /\ \A i \in 1..FirstInk(buf)-1 : buf[i] \in White
           /\ \/ FirstBreak(buf) = 0 /\ \A i \in 1..Len(buf) : buf[i] # LineFeed
              \/ /\ FirstBreak(buf) \in 1..Len(buf) /\ buf[FirstBreak(buf)] = LineFeed
                 /\ \A i \in 1..FirstBreak(buf)-1 : buf[i] # LineFeed
<1>1. Len(buf) \in Nat
  BY TextIs
<1>2. \/ FirstInk(buf) = 0 /\ \A i \in 1..Len(buf) : buf[i] \in White
      \/ /\ FirstInk(buf) \in 1..Len(buf) /\ buf[FirstInk(buf)] \notin White
         /\ \A i \in 1..FirstInk(buf)-1 : buf[i] \in White
  <2>. DEFINE T == {i \in 1..Len(buf) : buf[i] \notin White}
  <2>1. FirstInk(buf) = IF T # {} THEN CHOOSE x \in T : \A y \in T : x <= y ELSE 0
    BY DEF FirstInk, SelectInSeq, Min
  <2>2. CASE T = {}
    BY <2>1, <2>2
  <2>3. CASE T # {}
    <3>1. \E x \in T : \A y \in T : x <= y
      <4>1. T \subseteq Nat
        BY <1>1
      <4>. QED  BY <2>3, <4>1, Smallest
    <3>2. FirstInk(buf) \in T /\ \A y \in T : FirstInk(buf) <= y
      BY <2>1, <2>3, <3>1
    <3>. QED  BY <1>1, <3>2
  <2>. QED  BY <2>2, <2>3
<1>3. \/ FirstBreak(buf) = 0 /\ \A i \in 1..Len(buf) : buf[i] # LineFeed
      \/ /\ FirstBreak(buf) \in 1..Len(buf) /\ buf[FirstBreak(buf)] = LineFeed
         /\ \A i \in 1..FirstBreak(buf)-1 : buf[i] # LineFeed
  <2>. DEFINE T == {i \in 1..Len(buf) : buf[i] = LineFeed}
  <2>1. FirstBreak(buf) = IF T # {} THEN CHOOSE x \in T : \A y \in T : x <= y ELSE 0
    BY DEF FirstBreak, SelectInSeq, Min
  <2>2. CASE T = {}
    BY <2>1, <2>2
  <2>3. CASE T # {}
    <3>1. \E x \in T : \A y \in T : x <= y
      <4>1. T \subseteq Nat
        BY <1>1
      <4>. QED  BY <2>3, <4>1, Smallest
    <3>2. FirstBreak(buf) \in T /\ \A y \in T : FirstBreak(buf) <= y
      BY <2>1, <2>3, <3>1
    <3>. QED  BY <1>1, <3>2
  <2>. QED  BY <2>2, <2>3
<1>. QED  BY <1>2, <1>3

\* Line breaks are stripped, a command is not.
LEMMA StripIs ==
    ASSUME NEW buf \in Bytes, NEW f \in 0..Len(buf),
           \A i \in 1..f : buf[i] = LineFeed,
           f < Len(buf) => buf[f + 1] = Dollar
    PROVE  Strip(buf) = IF f = Len(buf) THEN <<>> ELSE SubSeq(buf, f + 1, Len(buf))
<1>1. Len(buf) \in Nat /\ f \in Nat
  BY TextIs
<1>2. LineFeed \in White /\ Dollar \notin White
  BY DEF LineFeed, Dollar, Blank, White
<1>3. Strip(buf) = IF FirstInk(buf) = 0 THEN <<>> ELSE SubSeq(buf, FirstInk(buf), Len(buf))
  BY DEF FirstInk, Strip
<1>4. CASE f = Len(buf)
  <2>1. FirstInk(buf) = 0
    BY <1>1, <1>2, <1>4, FirstsAre
  <2>. QED  BY <1>3, <1>4, <2>1
<1>5. CASE f < Len(buf)
  <2>1. PICK g : g = f + 1
    OBVIOUS
  <2>2. g \in 1..Len(buf) /\ buf[g] \notin White /\ \A i \in 1..g-1 : buf[i] \in White
    BY <1>1, <1>2, <1>5, <2>1
  <2>3. FirstInk(buf) = g
    <3>1. PICK x : x = FirstInk(buf)
      OBVIOUS
    <3>2. x \in 1..Len(buf) /\ buf[x] \notin White /\ \A i \in 1..x-1 : buf[i] \in White
      BY <2>2, <3>1, FirstsAre
    <3>3. ~(x < g) /\ ~(g < x)
      BY <1>1, <2>2, <3>2
    <3>. QED  BY <1>1, <2>2, <3>1, <3>2, <3>3
  <2>. QED  BY <1>1, <1>3, <1>5, <2>1, <2>3
<1>. QED  BY <1>1, <1>4, <1>5

\* What is on its way, without the first d bytes: they are line breaks, or all there is
\* up to the end of a message.
LEMMA Dropped ==
    ASSUME NEW text \in Bytes, NEW msgs, Len(msgs) \in Nat, NEW k \in 0..Len(msgs),
           NEW ends \in [k..Len(msgs) -> 0..Len(text)], Consists(text, msgs, k, ends),
           \A j \in 1..Len(msgs) : Len(msgs[j]) \in Nat,
           NEW h \in k..Len(msgs), NEW d \in 0..Len(text), ends[h] <= d,
           h < Len(msgs) => d + Len(msgs[h + 1]) <= ends[h + 1]
    PROVE  Whole(SubSeq(text, d + 1, Len(text)), msgs, h)
<1>. DEFINE n == Len(msgs)
            rest == SubSeq(text, d + 1, Len(text))
            new == [j \in h..n |-> IF j = h THEN 0 ELSE ends[j] - d]
<1>1. /\ Len(text) \in Nat /\ d \in Nat /\ n \in Nat /\ h \in Nat /\ k \in Nat
      /\ h \in k..n /\ d <= Len(text)
  BY TextIs
<1>2. /\ Len(rest) = Len(text) - d
      /\ \A i \in 1..Len(text)-d : rest[i] = text[d + i]
  <2>1. Len(text) \in d..Len(text)
    BY <1>1
  <2>. QED  BY <2>1, PartIs
<1>3. /\ \A j \in k..n : ends[j] \in 0..Len(text)
      /\ \A i, j \in k..n : i <= j => ends[i] <= ends[j]
      /\ \A j \in k+1..n : Stands(text, msgs[j], ends[j - 1], ends[j])
      /\ \A i \in ends[n]+1..Len(text) : text[i] = LineFeed
  BY DEF Consists
<1>4. h < n => d <= ends[h + 1]
  <2>. SUFFICES ASSUME h < n  PROVE d <= ends[h + 1]
    OBVIOUS
  <2>1. PICK g \in k..n : g = h + 1 /\ g \in 1..n
    BY <1>1
  <2>2. Len(msgs[g]) \in Nat /\ ends[g] \in Nat /\ d + Len(msgs[g]) <= ends[g]
    BY <1>1, <1>3, <2>1
  <2>. QED  BY <1>1, <2>1, <2>2
<1>. HIDE DEF rest, n
<1>5. \A j \in h+1..n : j \in k..n /\ j \in k+1..n /\ ends[j] \in d..Len(text)
  <2>. SUFFICES ASSUME NEW j \in h+1..n
                PROVE  j \in k..n /\ j \in k+1..n /\ ends[j] \in d..Len(text)
    OBVIOUS
  <2>1. j \in k..n /\ j \in k+1..n /\ h < n
    BY <1>1
  <2>2. PICK g \in k..n : g = h + 1 /\ g <= j
    BY <1>1
  <2>3. ends[g] <= ends[j] /\ ends[g] \in Nat /\ ends[j] \in 0..Len(text)
    BY <1>1, <1>3, <2>1, <2>2
  <2>4. d <= ends[g]
    BY <1>4, <2>1, <2>2
  <2>. QED  BY <1>1, <2>1, <2>3, <2>4
<1>6. /\ new[h] = 0
      /\ \A j \in h+1..n : new[j] = ends[j] - d /\ new[j] \in 0..Len(rest)
  <2>1. h \in h..n /\ \A j \in h+1..n : j \in h..n /\ j # h
    BY <1>1
  <2>. QED  BY SMTT(30), <1>1, <1>2, <1>5, <2>1
<1>7. \A j \in h..n : j = h \/ j \in h+1..n
  BY <1>1
<1>8. new \in [h..n -> 0..Len(rest)]
  <2>1. \A j \in h..n : new[j] \in 0..Len(rest)
    <3>1. 0 \in 0..Len(rest)
      BY <1>1, <1>2
    <3>. QED  BY <1>6, <1>7, <3>1
  <2>2. new = [j \in h..n |-> new[j]]
    OBVIOUS
  <2>. QED  BY <2>1, <2>2
<1>. HIDE DEF new
<1>9. ASSUME NEW i \in h..n, NEW j \in h..n, i <= j  PROVE new[i] <= new[j]
  <2>1. new[i] \in 0..Len(rest) /\ new[j] \in 0..Len(rest) /\ Len(rest) \in Nat
    BY <1>1, <1>2, <1>8
  <2>2. CASE i = h
    BY <1>6, <2>1, <2>2
  <2>3. CASE i \in h+1..n
    <3>1. j \in h+1..n
      BY <1>1, <1>9, <2>3
    <3>2. ends[i] <= ends[j] /\ ends[i] \in Nat /\ ends[j] \in Nat
      BY <1>1, <1>3, <1>5, <1>9, <2>3, <3>1
    <3>. QED  BY <1>1, <1>6, <2>3, <3>1, <3>2
  <2>. QED  BY <1>7, <2>2, <2>3
<1>10. ASSUME NEW j \in h+1..n  PROVE Stands(rest, msgs[j], new[j - 1], new[j])
  <2>1. PICK l : l = Len(msgs[j])
    OBVIOUS
  <2>2. PICK p : p = ends[j - 1]
    OBVIOUS
  <2>3. PICK q : q = ends[j]
    OBVIOUS
  <2>4. j - 1 \in k..n /\ j \in 1..n /\ j - 1 \in h..n
    BY <1>1
  <2>5. l \in Nat /\ p \in 0..Len(text) /\ q \in d..Len(text)
    BY <1>3, <1>5, <2>1, <2>2, <2>3, <2>4 DEF n
  <2>6. /\ p + l <= q
        /\ \A i \in p+1..q-l : text[i] = LineFeed
        /\ \A i \in 1..l : text[(q - l) + i] = msgs[j][i]
    BY <1>3, <1>5, <2>1, <2>2, <2>3 DEF Stands
  <2>7. PICK from : from = new[j - 1]
    OBVIOUS
  <2>8. /\ from \in Nat /\ from + d >= p /\ from + l <= q - d
    <3>1. CASE j - 1 = h
      <4>1. from = 0 /\ p <= d
        BY <1>6, <2>2, <2>7, <3>1
      <4>2. d + l <= q
        <5>1. h < n /\ h + 1 = j
          BY <1>1, <3>1
        <5>. QED  BY <2>1, <2>3, <5>1 DEF n
      <4>. QED  BY <1>1, <2>5, <4>1, <4>2
    <3>2. CASE j - 1 \in h+1..n
      <4>1. from = p - d /\ p \in d..Len(text)
        BY <1>5, <1>6, <2>2, <2>7, <3>2
      <4>. QED  BY <1>1, <2>5, <2>6, <4>1
    <3>. QED  BY <1>7, <2>4, <3>1, <3>2
  <2>9. new[j] = q - d
    BY <1>6, <2>3
  <2>10. ASSUME NEW i \in from+1..(q-d)-l  PROVE rest[i] = LineFeed
    <3>1. PICK x : x = d + i
      OBVIOUS
    <3>2. i \in 1..Len(text)-d /\ x \in p+1..q-l
      BY <1>1, <2>5, <2>8, <3>1
    <3>. QED  BY <1>2, <2>6, <3>1, <3>2
  <2>11. ASSUME NEW i \in 1..l  PROVE rest[((q - d) - l) + i] = msgs[j][i]
    <3>1. PICK x : x = ((q - d) - l) + i
      OBVIOUS
    <3>2. x \in 1..Len(text)-d /\ d + x = (q - l) + i
      BY <1>1, <2>5, <2>8, <3>1
    <3>. QED  BY <1>2, <2>6, <3>1, <3>2
  <2>. QED  BY <2>1, <2>7, <2>8, <2>9, <2>10, <2>11 DEF Stands
<1>11. ASSUME NEW i \in new[n]+1..Len(rest)  PROVE rest[i] = LineFeed
  <2>1. new[n] \in Nat /\ n \in h..n /\ n \in k..n
    BY <1>1, <1>8
  <2>2. PICK x : x = d + i
    OBVIOUS
  <2>3. new[n] + d >= ends[n] /\ ends[n] \in 0..Len(text)
    <3>1. CASE n = h
      BY <1>1, <1>3, <1>6, <2>1, <3>1
    <3>2. CASE n \in h+1..n
      BY SMTT(30), <1>1, <1>3, <1>6, <2>1, <3>2
    <3>. QED  BY <1>7, <2>1, <3>1, <3>2
  <2>4. i \in 1..Len(text)-d /\ x \in ends[n]+1..Len(text)
    BY SMTT(30), <1>1, <1>2, <2>1, <2>2, <2>3
  <2>. QED  BY <1>2, <1>3, <2>2, <2>4
<1>12. Consists(rest, msgs, h, new)
  BY <1>6, <1>8, <1>9, <1>10, <1>11 DEF Consists, n
<1>. QED  BY <1>8, <1>12 DEF Whole, rest, n

\* A part of a part of a text.
LEMMA PartOfPart ==
    ASSUME NEW text \in Bytes, NEW f \in 0..Len(text), NEW l \in 0..Len(text)-f
    PROVE  LET part == SubSeq(text, f + 1, Len(text)) IN
           /\ part \in Bytes /\ Len(part) = Len(text) - f
           /\ SubSeq(part, 1, l) \in Bytes /\ Len(SubSeq(part, 1, l)) = l
           /\ \A i \in 1..l : SubSeq(part, 1, l)[i] = text[f + i]
           /\ SubSeq(part, l + 1, Len(part)) = SubSeq(text, (f + l) + 1, Len(text))
<1>. DEFINE part == SubSeq(text, f + 1, Len(text))
            after == SubSeq(text, (f + l) + 1, Len(text))
<1>1. Len(text) \in Nat /\ f \in Nat /\ l \in Nat /\ f + l <= Len(text)
  BY TextIs
<1>2. /\ part \in Bytes /\ Len(part) = Len(text) - f
      /\ \A i \in 1..Len(text)-f : part[i] = text[f + i]
  <2>1. Len(text) \in f..Len(text)
    BY <1>1
  <2>. QED  BY <2>1, PartIs
<1>3. /\ after \in Bytes /\ Len(after) = Len(text) - (f + l)
      /\ \A i \in 1..Len(text)-(f+l) : after[i] = text[(f + l) + i]
  <2>1. f + l \in 0..Len(text) /\ Len(text) \in (f + l)..Len(text)
    BY <1>1
  <2>. QED  BY <2>1, PartIs
<1>. HIDE DEF part, after
<1>4. /\ SubSeq(part, 1, l) \in Bytes /\ Len(SubSeq(part, 1, l)) = l
      /\ \A i \in 1..l : SubSeq(part, 1, l)[i] = part[i]
  <2>1. 0 \in 0..Len(part) /\ l \in 0..Len(part) /\ 0 + 1 = 1
    BY <1>1, <1>2
  <2>2. /\ SubSeq(part, 0 + 1, l) \in Bytes /\ Len(SubSeq(part, 0 + 1, l)) = l - 0
        /\ \A i \in 1..l-0 : SubSeq(part, 0 + 1, l)[i] = part[0 + i]
    BY <1>2, <2>1, PartIs
  <2>3. \A i \in 1..l : 0 + i = i
    OBVIOUS
  <2>. QED  BY <1>1, <2>1, <2>2, <2>3
<1>5. \A i \in 1..l : SubSeq(part, 1, l)[i] = text[f + i]
  BY <1>1, <1>2, <1>4
<1>6. SubSeq(part, l + 1, Len(part)) = after
  <2>. DEFINE left == SubSeq(part, l + 1, Len(part))
  <2>1. /\ left \in Bytes /\ Len(left) = Len(part) - l
        /\ \A i \in 1..Len(part)-l : left[i] = part[l + i]
    <3>1. l \in 0..Len(part) /\ Len(part) \in l..Len(part)
      BY <1>1, <1>2
    <3>. QED  BY <1>2, <3>1, PartIs
  <2>. HIDE DEF left
  <2>2. Len(left) = Len(after)
    BY <1>1, <1>2, <1>3, <2>1
  <2>3. ASSUME NEW i \in 1..Len(left)  PROVE left[i] = after[i]
    <3>1. PICK x : x = l + i
      OBVIOUS
    <3>2. i \in 1..Len(part)-l /\ i \in 1..Len(text)-(f+l)
      BY <1>1, <1>2, <2>1
    <3>3. x \in 1..Len(text)-f /\ f + x = (f + l) + i
      BY <1>1, <1>2, <2>1, <3>1
    <3>. QED  BY <1>2, <1>3, <2>1, <3>1, <3>2, <3>3
  <2>4. left = after
    BY <1>3, <2>1, <2>2, <2>3, SeqEqual DEF Bytes
  <2>. QED  BY <2>4 DEF left
<1>. QED  BY <1>2, <1>4, <1>5, <1>6 DEF part, after

\* What the reader has, if message m begins after f line breaks.
LEMMA StripFinds ==
    ASSUME NEW buf \in Bytes, NEW rest \in Bytes, NEW m, Unbroken(m), NEW f \in Nat,
           \A i \in 1..f : (buf \o rest)[i] = LineFeed,
           \A i \in 1..Len(m) : (buf \o rest)[f + i] = m[i],
           f + Len(m) <= Len(buf \o rest)
    PROVE  \/ Len(buf) <= f /\ Strip(buf) = <<>>
           \/ /\ f < Len(buf) /\ Strip(buf) = SubSeq(buf, f + 1, Len(buf))
              /\ Agrees(Strip(buf), m)
<1>1. /\ Len(buf) \in Nat /\ Len(rest) \in Nat
      /\ Len(buf \o rest) = Len(buf) + Len(rest)
      /\ \A i \in 1..Len(buf) : (buf \o rest)[i] = buf[i]
  BY JoinIs
<1>2. m \in Bytes /\ Len(m) \in Nat /\ Len(m) >= 2 /\ m[1] = Dollar
  BY TextIs DEF Unbroken
<1>3. CASE Len(buf) <= f
  <2>1. PICK g : g = Len(buf)
    OBVIOUS
  <2>2. /\ g \in 0..Len(buf) /\ \A i \in 1..g : buf[i] = LineFeed
        /\ ~(g < Len(buf))
    BY <1>1, <1>3, <2>1
  <2>3. Strip(buf) = <<>>
    BY <2>1, <2>2, StripIs
  <2>. QED  BY <1>3, <2>3
<1>4. CASE f < Len(buf)
  <2>1. f \in 0..Len(buf) /\ f # Len(buf) /\ \A i \in 1..f : i \in 1..Len(buf)
    BY <1>1, <1>4
  <2>2. \A i \in 1..f : buf[i] = LineFeed
    BY <1>1, <2>1
  <2>3. buf[f + 1] = Dollar
    <3>1. 1 \in 1..Len(m) /\ f + 1 \in 1..Len(buf)
      BY <1>1, <1>2, <1>4
    <3>. QED  BY <1>1, <1>2, <3>1
  <2>4. Strip(buf) = SubSeq(buf, f + 1, Len(buf))
    BY <2>1, <2>2, <2>3, StripIs
  <2>5. /\ Len(SubSeq(buf, f + 1, Len(buf))) = Len(buf) - f
        /\ \A i \in 1..Len(buf)-f : SubSeq(buf, f + 1, Len(buf))[i] = buf[f + i]
    <3>1. Len(buf) \in f..Len(buf)
      BY <1>1, <2>1
    <3>. QED  BY <2>1, <3>1, PartIs
  <2>6. ASSUME NEW i \in 1..Len(m), i <= Len(buf) - f
        PROVE  SubSeq(buf, f + 1, Len(buf))[i] = m[i]
    <3>1. i \in 1..Len(buf)-f /\ f + i \in 1..Len(buf)
      BY <1>1, <1>2, <2>6
    <3>. QED  BY <1>1, <2>5, <3>1
  <2>7. Agrees(SubSeq(buf, f + 1, Len(buf)), m)
    BY <2>5, <2>6 DEF Agrees
  <2>. QED  BY <1>4, <2>4, <2>7
<1>. QED  BY <1>1, <1>3, <1>4

\* A text begins with line breaks, or none, and message m, which ends at position e.
BeginsWith(text, m, e) ==
    /\ Len(m) \in Nat /\ e - Len(m) \in Nat /\ e <= Len(text)
    /\ \A i \in 1..e-Len(m) : text[i] = LineFeed
    /\ \A i \in 1..Len(m) : text[(e - Len(m)) + i] = m[i]

\* What is known of a text that consists of messages: its first message, or that none
\* is left.
LEMMA FirstMessage ==
    ASSUME NEW text \in Bytes, NEW msgs, Len(msgs) \in Nat, NEW k \in 0..Len(msgs),
           \A j \in 1..Len(msgs) : IsMessage(msgs[j]),
           NEW ends \in [k..Len(msgs) -> 0..Len(text)], Consists(text, msgs, k, ends)
    PROVE  /\ k = Len(msgs) => \A i \in 1..Len(text) : text[i] = LineFeed
           /\ k < Len(msgs) => BeginsWith(text, msgs[k + 1], ends[k + 1])
<1>1. Len(text) \in Nat
  BY TextIs
<1>2. CASE k = Len(msgs)
  <2>1. ends[Len(msgs)] = 0 /\ \A i \in ends[Len(msgs)]+1..Len(text) : text[i] = LineFeed
    BY <1>2 DEF Consists
  <2>. QED  BY <1>2, <2>1
<1>3. CASE k < Len(msgs)
  <2>1. PICK g : g = k + 1
    OBVIOUS
  <2>2. g \in k+1..Len(msgs) /\ g \in 1..Len(msgs) /\ g \in k..Len(msgs) /\ g - 1 = k
    BY <1>3, <2>1
  <2>3. PICK m : m = msgs[g]
    OBVIOUS
  <2>4. Len(m) \in Nat
    BY <2>2, <2>3, TextIs DEF IsMessage, Unbroken
  <2>5. PICK e \in 0..Len(text) : e = ends[g]
    BY <2>2
  <2>6. /\ 0 + Len(m) <= e
        /\ \A i \in 0+1..e-Len(m) : text[i] = LineFeed
        /\ \A i \in 1..Len(m) : text[(e - Len(m)) + i] = m[i]
    <3>1. Stands(text, m, 0, e)
      BY <2>2, <2>3, <2>5 DEF Consists
    <3>. QED  BY <3>1 DEF Stands
  <2>7. BeginsWith(text, m, e)
    BY SMTT(30), <1>1, <2>4, <2>5, <2>6 DEF BeginsWith
  <2>. QED  BY <1>3, <2>1, <2>3, <2>5, <2>7
<1>. QED  BY <1>2, <1>3

\* The command that the reader finds is the message that was sent first.
LEMMA CommandTaken ==
    ASSUME NEW buf \in Bytes, NEW rest \in Bytes, NEW msgs, Len(msgs) \in Nat,
           NEW k \in 0..Len(msgs), \A j \in 1..Len(msgs) : IsMessage(msgs[j]),
           Whole(buf \o rest, msgs, k), HasCommand(Strip(buf))
    PROVE  LET l == CommandLength(Strip(buf))
               after == SubSeq(Strip(buf), l + 1, Len(Strip(buf)))
           IN  /\ k < Len(msgs) /\ SubSeq(Strip(buf), 1, l) = msgs[k + 1]
               /\ after \in Bytes /\ Whole(after \o rest, msgs, k + 1)
<1>. DEFINE text == buf \o rest
<1>1. PICK ends \in [k..Len(msgs) -> 0..Len(text)] : Consists(text, msgs, k, ends)
  BY DEF Whole
<1>2. /\ text \in Bytes /\ Len(buf) \in Nat /\ Len(rest) \in Nat
      /\ Len(text) = Len(buf) + Len(rest)
      /\ \A i \in 1..Len(buf) : text[i] = buf[i]
  BY JoinIs
<1>. HIDE DEF text
<1>3. Strip(buf) # <<>>
  <2>1. <<>> \in Bytes /\ Len(<<>>) = 0
    BY DEF Bytes
  <2>2. CommandLength(<<>>) = 0
    BY <2>1, LengthBy
  <2>3. ~HasCommand(<<>>)
    BY <2>1, <2>2 DEF HasCommand
  <2>. QED  BY <2>3
<1>4. k < Len(msgs)
  <2>. SUFFICES ASSUME k = Len(msgs)  PROVE FALSE
    OBVIOUS
  <2>1. \A i \in 1..Len(text) : text[i] = LineFeed
    BY <1>1, <1>2, FirstMessage
  <2>2. \A i \in 1..Len(buf) : buf[i] = LineFeed
    BY <1>2, <2>1
  <2>3. PICK g \in 0..Len(buf) : g = Len(buf)
    BY <1>2
  <2>4. \A i \in 1..g : buf[i] = LineFeed
    BY <2>2, <2>3
  <2>5. Strip(buf) = <<>>
    BY <1>2, <2>3, <2>4, StripIs
  <2>. QED  BY <1>3, <2>5
<1>5. PICK g : g = k + 1
  OBVIOUS
<1>6. g \in 1..Len(msgs) /\ g \in k..Len(msgs)
  BY <1>4, <1>5
<1>7. PICK m : m = msgs[g] /\ IsMessage(m)
  BY <1>6
<1>8. PICK f : f = ends[g] - Len(m)
  OBVIOUS
<1>9. /\ f \in Nat /\ f + Len(m) = ends[g] /\ f + Len(m) <= Len(text)
      /\ Len(m) \in Nat
      /\ \A i \in 1..f : text[i] = LineFeed
      /\ \A i \in 1..Len(m) : text[f + i] = m[i]
  <2>1. BeginsWith(text, msgs[k + 1], ends[k + 1])
    BY <1>1, <1>2, <1>4, FirstMessage
  <2>2. BeginsWith(text, m, ends[g])
    BY <1>5, <1>7, <2>1
  <2>3. PICK e : e = ends[g]
    OBVIOUS
  <2>4. e \in Nat /\ f = e - Len(m) /\ BeginsWith(text, m, e)
    BY SMTT(30), <1>2, <1>6, <1>8, <2>2, <2>3
  <2>5. f \in Nat /\ f + Len(m) = e /\ f + Len(m) <= Len(text) /\ Len(m) \in Nat
    BY <2>4 DEF BeginsWith
  <2>6. /\ \A i \in 1..f : text[i] = LineFeed
        /\ \A i \in 1..Len(m) : text[f + i] = m[i]
    BY <2>4 DEF BeginsWith
  <2>. QED  BY <2>3, <2>5, <2>6
<1>10. /\ f < Len(buf) /\ Strip(buf) = SubSeq(buf, f + 1, Len(buf))
       /\ Agrees(Strip(buf), m)
  <2>1. Unbroken(m)
    BY <1>7 DEF IsMessage
  <2>. QED  BY <1>3, <1>9, <2>1, StripFinds DEF text
<1>11. PICK l : l = CommandLength(Strip(buf))
  OBVIOUS
<1>12. f \in 0..Len(buf) /\ Strip(buf) \in Bytes /\ Len(Strip(buf)) = Len(buf) - f
  <2>1. f \in 0..Len(buf) /\ Len(buf) \in f..Len(buf)
    BY <1>2, <1>9, <1>10
  <2>. QED  BY <1>10, <2>1, PartIs
<1>13. l = Len(m) /\ l \in 0..Len(buf)-f
  <2>1. l = Len(m) \/ l = 0
    BY <1>7, <1>10, <1>11, <1>12 DEF IsMessage, Measured
  <2>2. l \in 1..Len(buf)-f
    BY <1>11, <1>12 DEF HasCommand
  <2>. QED  BY <1>2, <1>9, <2>1, <2>2
<1>14. PICK e \in 0..Len(buf) : e = f + l
  BY <1>2, <1>9, <1>12, <1>13
<1>15. /\ SubSeq(Strip(buf), 1, l) \in Bytes /\ Len(SubSeq(Strip(buf), 1, l)) = l
       /\ \A i \in 1..l : SubSeq(Strip(buf), 1, l)[i] = buf[f + i]
       /\ SubSeq(Strip(buf), l + 1, Len(Strip(buf))) = SubSeq(buf, e + 1, Len(buf))
  <2>. DEFINE part == SubSeq(buf, f + 1, Len(buf))
  <2>1. /\ SubSeq(part, 1, l) \in Bytes /\ Len(SubSeq(part, 1, l)) = l
        /\ \A i \in 1..l : SubSeq(part, 1, l)[i] = buf[f + i]
        /\ SubSeq(part, l + 1, Len(part)) = SubSeq(buf, (f + l) + 1, Len(buf))
    BY <1>12, <1>13, PartOfPart
  <2>2. part = Strip(buf)
    BY <1>10
  <2>. HIDE DEF part
  <2>. QED  BY <1>14, <2>1, <2>2
<1>16. SubSeq(Strip(buf), 1, l) = m
  <2>1. \A i \in 1..l : SubSeq(Strip(buf), 1, l)[i] = m[i]
    <3>. SUFFICES ASSUME NEW i \in 1..l  PROVE SubSeq(Strip(buf), 1, l)[i] = m[i]
      OBVIOUS
    <3>1. f + i \in 1..Len(buf) /\ i \in 1..Len(m)
      BY <1>2, <1>9, <1>12, <1>13
    <3>. QED  BY <1>2, <1>9, <1>15, <3>1
  <2>2. m \in Bytes
    BY <1>7 DEF IsMessage, Unbroken
  <2>. QED  BY <1>13, <1>15, <2>1, <2>2, SeqEqual DEF Bytes
<1>17. SubSeq(buf, e + 1, Len(buf)) \in Bytes
  BY <1>2, CutIs
<1>18. SubSeq(buf, e + 1, Len(buf)) \o rest = SubSeq(text, e + 1, Len(text))
  BY <1>2, RestJoins DEF text
<1>19. Whole(SubSeq(text, e + 1, Len(text)), msgs, g)
  <2>1. e \in 0..Len(text) /\ ends[g] <= e
    BY <1>2, <1>9, <1>13, <1>14
  <2>2. \A j \in 1..Len(msgs) : Len(msgs[j]) \in Nat
    BY TextIs DEF IsMessage, Unbroken
  <2>3. g < Len(msgs) => e + Len(msgs[g + 1]) <= ends[g + 1]
    <3>. SUFFICES ASSUME g < Len(msgs)  PROVE e + Len(msgs[g + 1]) <= ends[g + 1]
      OBVIOUS
    <3>1. PICK j : j = g + 1
      OBVIOUS
    <3>2. j \in k+1..Len(msgs) /\ j - 1 = g
      BY <1>6, <3>1
    <3>3. Stands(text, msgs[j], ends[g], ends[j])
      BY <1>1, <3>2 DEF Consists
    <3>. QED  BY <1>9, <1>13, <1>14, <3>1, <3>3 DEF Stands
  <2>. QED  BY <1>1, <1>2, <1>6, <2>1, <2>2, <2>3, Dropped
<1>. QED  BY <1>4, <1>5, <1>7, <1>11, <1>15, <1>16, <1>17, <1>18, <1>19

\* A reader that has all there is finds a command in it if one is left.
LEMMA CommandFound ==
    ASSUME NEW text \in Bytes, NEW msgs, Len(msgs) \in Nat,
           NEW k \in 0..Len(msgs), k < Len(msgs),
           \A j \in 1..Len(msgs) : IsMessage(msgs[j]), Whole(text, msgs, k)
    PROVE  HasCommand(Strip(text))
<1>1. PICK ends \in [k..Len(msgs) -> 0..Len(text)] : Consists(text, msgs, k, ends)
  BY DEF Whole
<1>2. PICK m : m = msgs[k + 1] /\ IsMessage(m)
  <2>1. PICK g : g = k + 1
    OBVIOUS
  <2>2. g \in 1..Len(msgs)
    BY <2>1
  <2>. QED  BY <2>1, <2>2
<1>3. /\ m \in Bytes /\ Len(m) \in Nat /\ Len(m) >= 2 /\ Unbroken(m) /\ Measured(m)
      /\ Len(text) \in Nat
  BY <1>2, TextIs DEF IsMessage, Unbroken
<1>4. PICK e \in 0..Len(text) : BeginsWith(text, m, e)
  <2>1. PICK g : g = k + 1
    OBVIOUS
  <2>2. g \in k..Len(msgs)
    BY <2>1
  <2>3. BeginsWith(text, m, ends[g])
    BY <1>1, <1>2, <2>1, FirstMessage
  <2>. QED  BY <2>2, <2>3
<1>5. PICK f : f = e - Len(m)
  OBVIOUS
<1>6. /\ f \in Nat /\ f + Len(m) <= Len(text)
      /\ \A i \in 1..f : text[i] = LineFeed
      /\ \A i \in 1..Len(m) : text[f + i] = m[i]
  <2>1. e \in Nat /\ f \in Nat /\ f + Len(m) = e /\ e <= Len(text)
    BY <1>3, <1>4, <1>5 DEF BeginsWith
  <2>2. /\ \A i \in 1..f : text[i] = LineFeed
        /\ \A i \in 1..Len(m) : text[f + i] = m[i]
    BY <1>4, <1>5 DEF BeginsWith
  <2>. QED  BY <2>1, <2>2
<1>7. text \o <<>> = text /\ <<>> \in Bytes
  BY ConcatEmptySeq DEF Bytes
<1>8. f < Len(text) /\ f \in 0..Len(text) /\ ~(Len(text) <= f)
  BY <1>3, <1>6
<1>9. Strip(text) = SubSeq(text, f + 1, Len(text)) /\ Agrees(Strip(text), m)
  <2>1. PICK rest \in Bytes : rest = <<>> /\ text \o rest = text
    BY <1>7
  <2>2. /\ \A i \in 1..f : (text \o rest)[i] = LineFeed
        /\ \A i \in 1..Len(m) : (text \o rest)[f + i] = m[i]
        /\ f + Len(m) <= Len(text \o rest)
    BY <1>6, <2>1
  <2>3. \/ Len(text) <= f
        \/ Strip(text) = SubSeq(text, f + 1, Len(text)) /\ Agrees(Strip(text), m)
    BY <1>3, <1>6, <2>2, StripFinds
  <2>. QED  BY <1>8, <2>3
<1>10. Strip(text) \in Bytes /\ Len(Strip(text)) = Len(text) - f
  <2>1. Len(text) \in f..Len(text)
    BY <1>3, <1>8
  <2>2. /\ SubSeq(text, f + 1, Len(text)) \in Bytes
        /\ Len(SubSeq(text, f + 1, Len(text))) = Len(text) - f
    BY <1>8, <2>1, PartIs
  <2>. QED  BY <1>9, <2>2
<1>11. ~(Len(Strip(text)) < Len(m))
  BY <1>3, <1>6, <1>10
<1>12. CommandLength(Strip(text)) = Len(m)
  BY <1>3, <1>9, <1>10, <1>11 DEF Measured
<1>13. Len(m) \in 1..Len(Strip(text))
  BY <1>3, <1>6, <1>10
<1>. QED  BY <1>12, <1>13 DEF HasCommand

\* The line that the reader finds is one line break that nobody sent.
LEMMA LineTaken ==
    ASSUME NEW buf \in Bytes, NEW rest \in Bytes, NEW msgs, Len(msgs) \in Nat,
           NEW k \in 0..Len(msgs), \A j \in 1..Len(msgs) : IsMessage(msgs[j]),
           Whole(buf \o rest, msgs, k), ~HasCommand(Strip(buf)), FirstBreak(buf) > 0
    PROVE  LET i == FirstBreak(buf)
               after == SubSeq(buf, i + 1, Len(buf))
           IN  /\ Strip(SubSeq(buf, 1, i)) = <<>>
               /\ after \in Bytes /\ Whole(after \o rest, msgs, k)
<1>. DEFINE text == buf \o rest
<1>1. PICK ends \in [k..Len(msgs) -> 0..Len(text)] : Consists(text, msgs, k, ends)
  BY DEF Whole
<1>2. /\ text \in Bytes /\ Len(buf) \in Nat /\ Len(rest) \in Nat /\ Len(text) \in Nat
      /\ Len(text) = Len(buf) + Len(rest)
      /\ \A i \in 1..Len(buf) : text[i] = buf[i]
  BY JoinIs
<1>. HIDE DEF text
<1>3. PICK x : x = FirstBreak(buf)
  OBVIOUS
<1>4. x \in 1..Len(buf) /\ buf[x] = LineFeed /\ \A i \in 1..x-1 : buf[i] # LineFeed
  BY <1>3, FirstsAre
<1>5. /\ buf[1] = LineFeed
      /\ k < Len(msgs) => 1 + Len(msgs[k + 1]) <= ends[k + 1]
  <2>1. 1 \in 1..Len(buf)
    BY <1>2, <1>4
  <2>2. CASE k = Len(msgs)
    <3>1. \A i \in 1..Len(text) : text[i] = LineFeed
      BY <1>1, <1>2, <2>2, FirstMessage
    <3>2. 1 \in 1..Len(text)
      BY <1>2, <2>1
    <3>. QED  BY <1>2, <2>1, <2>2, <3>1, <3>2
  <2>3. CASE k < Len(msgs)
    <3>1. PICK g : g = k + 1
      OBVIOUS
    <3>2. g \in 1..Len(msgs)
      BY <2>3, <3>1
    <3>3. PICK m : m = msgs[g] /\ IsMessage(m)
      BY <3>2
    <3>4. PICK f : f = ends[g] - Len(m)
      OBVIOUS
    <3>5. /\ f \in Nat /\ f + Len(m) = ends[g] /\ f + Len(m) <= Len(text)
          /\ Len(m) \in Nat
          /\ \A i \in 1..f : text[i] = LineFeed
          /\ \A i \in 1..Len(m) : text[f + i] = m[i]
      <4>1. BeginsWith(text, msgs[k + 1], ends[k + 1])
        BY <1>1, <1>2, <2>3, FirstMessage
      <4>2. BeginsWith(text, m, ends[g])
        BY <3>1, <3>3, <4>1
      <4>3. ends[g] \in Nat
        <5>1. g \in k..Len(msgs)
          BY <3>1, <3>2
        <5>. QED  BY <1>2, <5>1
      <4>. QED  BY SMTT(30), <3>4, <4>2, <4>3 DEF BeginsWith
    <3>6. f # 0
      <4>. SUFFICES ASSUME f = 0  PROVE FALSE
        OBVIOUS
      <4>1. Unbroken(m) /\ Measured(m)
        BY <3>3 DEF IsMessage
      <4>2. /\ f < Len(buf) /\ Strip(buf) = SubSeq(buf, f + 1, Len(buf))
            /\ Agrees(Strip(buf), m)
        <5>1. ~(Len(buf) <= f)
          BY <1>2, <2>1
        <5>. QED  BY <3>5, <4>1, <5>1, StripFinds DEF text
      <4>3. Strip(buf) = buf
        BY <4>2, SubSeqFull DEF Bytes
      <4>4. Len(buf) < Len(m)
        <5>1. \/ CommandLength(buf) = Len(m)
              \/ CommandLength(buf) = 0 /\ Len(buf) < Len(m)
          BY <4>1, <4>2, <4>3 DEF Measured
        <5>2. CommandLength(buf) \notin 1..Len(buf)
          BY <4>3 DEF HasCommand
        <5>3. Len(m) >= 2
          BY <4>1 DEF Unbroken
        <5>. QED  BY <1>2, <3>5, <5>1, <5>2, <5>3
      <4>5. x \in 1..Len(m) /\ buf[x] = m[x]
        BY <1>2, <1>4, <3>5, <4>2, <4>3, <4>4 DEF Agrees
      <4>. QED  BY <1>4, <4>1, <4>5 DEF Unbroken
    <3>7. 1 \in 1..f
      BY <3>5, <3>6
    <3>8. buf[1] = LineFeed
      BY <1>2, <2>1, <3>5, <3>7
    <3>9. 1 + Len(m) <= ends[g]
      BY <3>5, <3>7
    <3>. QED  BY <3>1, <3>3, <3>8, <3>9
  <2>. QED  BY <2>2, <2>3
<1>6. x = 1
  <2>1. x # 1 => 1 \in 1..x-1
    BY <1>2, <1>4
  <2>. QED  BY <1>4, <1>5, <2>1
<1>7. Strip(SubSeq(buf, 1, 1)) = <<>>
  <2>1. PICK line : line = SubSeq(buf, 1, 1)
    OBVIOUS
  <2>2. line \in Bytes /\ Len(line) = 1 /\ line[1] = buf[1]
    <3>1. 0 \in 0..Len(buf) /\ 1 \in 0..Len(buf) /\ 0 + 1 = 1 /\ 1 - 0 = 1
      BY <1>2, <1>4
    <3>2. /\ SubSeq(buf, 0 + 1, 1) \in Bytes /\ Len(SubSeq(buf, 0 + 1, 1)) = 1 - 0
          /\ \A i \in 1..1-0 : SubSeq(buf, 0 + 1, 1)[i] = buf[0 + i]
      BY <1>2, <3>1, PartIs
    <3>. QED  BY <2>1, <3>1, <3>2
  <2>3. 1 \in 0..Len(line) /\ ~(1 < Len(line)) /\ \A i \in 1..1 : line[i] = LineFeed
    BY <1>5, <2>2
  <2>4. Strip(line) = <<>>
    BY <2>2, <2>3, StripIs
  <2>. QED  BY <2>1, <2>4
<1>8. 1 \in 0..Len(buf) /\ 1 \in 0..Len(text)
  BY <1>2, <1>4
<1>9. SubSeq(buf, 1 + 1, Len(buf)) \in Bytes
  BY <1>8, CutIs
<1>10. SubSeq(buf, 1 + 1, Len(buf)) \o rest = SubSeq(text, 1 + 1, Len(text))
  BY <1>8, RestJoins DEF text
<1>11. Whole(SubSeq(text, 1 + 1, Len(text)), msgs, k)
  <2>1. \A j \in 1..Len(msgs) : Len(msgs[j]) \in Nat
    BY TextIs DEF IsMessage, Unbroken
  <2>2. k \in k..Len(msgs) /\ ends[k] <= 1
    BY <1>1 DEF Consists
  <2>. QED  BY <1>1, <1>2, <1>5, <1>8, <2>1, <2>2, Dropped
<1>. QED  BY <1>3, <1>6, <1>7, <1>9, <1>10, <1>11

\* What stands in a text stands in a longer one.
LEMMA StandsOn ==
    ASSUME NEW text \in Bytes, NEW more \in Bytes, NEW m, Len(m) \in Nat,
           NEW p \in Nat, NEW q \in 0..Len(text), Stands(text, m, p, q)
    PROVE  Stands(text \o more, m, p, q)
<1>1. Len(text) \in Nat /\ \A i \in 1..Len(text) : (text \o more)[i] = text[i]
  BY JoinIs
<1>2. /\ p + Len(m) <= q
      /\ \A i \in p+1..q-Len(m) : text[i] = LineFeed
      /\ \A i \in 1..Len(m) : text[(q - Len(m)) + i] = m[i]
  BY DEF Stands
<1>3. ASSUME NEW i \in p+1..q-Len(m)  PROVE (text \o more)[i] = LineFeed
  <2>1. i \in 1..Len(text)
    BY <1>1
  <2>. QED  BY <1>1, <1>2, <2>1
<1>4. ASSUME NEW i \in 1..Len(m)  PROVE (text \o more)[(q - Len(m)) + i] = m[i]
  <2>1. PICK x : x = (q - Len(m)) + i
    OBVIOUS
  <2>2. x \in 1..Len(text)
    BY <1>1, <1>2, <2>1
  <2>. QED  BY <1>1, <1>2, <2>1, <2>2
<1>. QED  BY <1>2, <1>3, <1>4 DEF Stands

\* A line break typed after the messages.
LEMMA ReturnAdded ==
    ASSUME NEW text \in Bytes, NEW msgs, Len(msgs) \in Nat, NEW k \in 0..Len(msgs),
           \A j \in 1..Len(msgs) : Len(msgs[j]) \in Nat, Whole(text, msgs, k)
    PROVE  Whole(text \o <<LineFeed>>, msgs, k)
<1>. DEFINE more == <<LineFeed>>
            new == text \o more
<1>1. PICK ends \in [k..Len(msgs) -> 0..Len(text)] : Consists(text, msgs, k, ends)
  BY DEF Whole
<1>2. more \in Bytes /\ Len(more) = 1 /\ more[1] = LineFeed
  <2>1. LineFeed \in Byte
    BY DEF LineFeed, Byte
  <2>. QED  BY <2>1 DEF Bytes
<1>. HIDE DEF more
<1>3. /\ Len(text) \in Nat /\ Len(new) = Len(text) + 1
      /\ \A i \in 1..Len(text) : new[i] = text[i]
      /\ new[Len(text) + 1] = LineFeed
  <2>1. /\ Len(text) \in Nat /\ Len(new) = Len(text) + Len(more)
        /\ \A i \in 1..Len(text) : new[i] = text[i]
        /\ \A i \in 1..Len(more) : new[Len(text) + i] = more[i]
    BY <1>2, JoinIs
  <2>2. 1 \in 1..Len(more)
    BY <1>2
  <2>. QED  BY <1>2, <2>1, <2>2
<1>4. ends \in [k..Len(msgs) -> 0..Len(new)]
  <2>1. 0..Len(text) \subseteq 0..Len(new)
    BY <1>3
  <2>. QED  BY <2>1
<1>5. ASSUME NEW j \in k+1..Len(msgs)  PROVE Stands(new, msgs[j], ends[j - 1], ends[j])
  <2>1. j \in 1..Len(msgs) /\ j \in k..Len(msgs) /\ j - 1 \in k..Len(msgs)
    OBVIOUS
  <2>2. ends[j - 1] \in Nat /\ ends[j] \in 0..Len(text) /\ Len(msgs[j]) \in Nat
    <3>1. \A i \in k..Len(msgs) : ends[i] \in 0..Len(text)
      OBVIOUS
    <3>2. ends[j - 1] \in 0..Len(text) /\ ends[j] \in 0..Len(text)
      BY <2>1, <3>1
    <3>3. Len(msgs[j]) \in Nat
      BY <2>1
    <3>4. 0..Len(text) \subseteq Nat
      BY <1>3
    <3>. QED  BY <3>2, <3>3, <3>4
  <2>3. Stands(text, msgs[j], ends[j - 1], ends[j])
    BY <1>1 DEF Consists
  <2>. QED  BY <1>2, <2>2, <2>3, StandsOn
<1>6. ASSUME NEW i \in ends[Len(msgs)]+1..Len(new)  PROVE new[i] = LineFeed
  <2>1. Len(msgs) \in k..Len(msgs)
    OBVIOUS
  <2>2. ends[Len(msgs)] \in 0..Len(text)
    BY <2>1
  <2>3. (i \in ends[Len(msgs)]+1..Len(text) /\ i \in 1..Len(text)) \/ i = Len(text) + 1
    BY <1>3, <2>2
  <2>4. \A x \in ends[Len(msgs)]+1..Len(text) : text[x] = LineFeed
    BY <1>1 DEF Consists
  <2>. QED  BY <1>3, <2>3, <2>4
<1>7. Consists(new, msgs, k, ends)
  <2>. HIDE DEF new
  <2>1. ends[k] = 0 /\ \A i, j \in k..Len(msgs) : i <= j => ends[i] <= ends[j]
    BY <1>1 DEF Consists
  <2>. QED  BY <1>4, <1>5, <1>6, <2>1 DEF Consists
<1>8. Whole(new, msgs, k)
  <2>. HIDE DEF new
  <2>. QED  BY <1>4, <1>7 DEF Whole
<1>. QED  BY <1>8 DEF new, more

\* A message sent after the others.
LEMMA MessageAdded ==
    ASSUME NEW text \in Bytes, NEW msgs \in Seq(Bytes), NEW k \in 0..Len(msgs),
           NEW m \in Bytes, Whole(text, msgs, k)
    PROVE  Whole(text \o m, Append(msgs, m), k)
<1>. DEFINE new == text \o m
            all == Append(msgs, m)
            n == Len(msgs)
<1>1. PICK ends \in [k..n -> 0..Len(text)] : Consists(text, msgs, k, ends)
  BY DEF Whole
<1>2. /\ Len(text) \in Nat /\ Len(m) \in Nat /\ Len(new) = Len(text) + Len(m)
      /\ \A i \in 1..Len(m) : new[Len(text) + i] = m[i]
  BY JoinIs
<1>3. PICK p : p = n + 1
  OBVIOUS
<1>4. /\ n \in Nat /\ k \in 0..n /\ p \in k+1..p /\ p - 1 = n /\ n \in k..n
      /\ Len(all) = p /\ all[p] = m
      /\ \A j \in 1..n : all[j] = msgs[j]
      /\ \A j \in 1..n : Len(msgs[j]) \in Nat
  <2>1. n \in Nat /\ \A j \in 1..n : msgs[j] \in Bytes
    BY LenProperties, ElementOfSeq
  <2>2. Len(all) = n + 1 /\ all[n + 1] = m /\ \A j \in 1..n : all[j] = msgs[j]
    BY AppendProperties
  <2>. HIDE DEF all, n
  <2>3. \A j \in 1..n : Len(msgs[j]) \in Nat
    BY <2>1, TextIs
  <2>4. k \in 0..n
    BY DEF n
  <2>. QED  BY <1>3, <2>1, <2>2, <2>3, <2>4
<1>. DEFINE to == [j \in k..p |-> IF j = p THEN Len(new) ELSE ends[j]]
<1>. HIDE DEF new, all, n
<1>5. /\ \A j \in k..p : j = p \/ j \in k..n
      /\ \A j \in k..n : j \in k..p /\ j # p /\ j < p
  BY <1>3, <1>4
<1>6. /\ to[p] = Len(new) /\ p \in k..p
      /\ \A j \in k..n : to[j] = ends[j] /\ to[j] \in 0..Len(text) /\ to[j] \in 0..Len(new)
  <2>1. p \in k..p
    BY <1>4
  <2>2. \A j \in k..n : to[j] = ends[j] /\ ends[j] \in 0..Len(text)
    BY <1>5
  <2>3. 0..Len(text) \subseteq 0..Len(new)
    BY <1>2
  <2>. QED  BY <2>1, <2>2, <2>3
<1>7. to \in [k..p -> 0..Len(new)]
  <2>1. Len(new) \in 0..Len(new)
    BY <1>2
  <2>2. \A j \in k..p : to[j] \in 0..Len(new)
    BY <1>5, <1>6, <2>1
  <2>3. to = [j \in k..p |-> to[j]]
    OBVIOUS
  <2>. QED  BY <2>2, <2>3
<1>. HIDE DEF to
<1>8. to[k] = 0
  <2>1. k \in k..n
    BY <1>4
  <2>. QED  BY <1>1, <1>6, <2>1 DEF Consists
<1>9. ASSUME NEW i \in k..p, NEW j \in k..p, i <= j  PROVE to[i] <= to[j]
  <2>1. CASE j = p
    <3>1. to[i] \in 0..Len(new)
      BY <1>7
    <3>. QED  BY <1>2, <1>6, <2>1, <3>1
  <2>2. CASE j \in k..n
    <3>1. i \in k..n
      BY <1>4, <1>9, <2>2
    <3>2. ends[i] <= ends[j]
      BY <1>1, <1>9, <2>2, <3>1 DEF Consists, n
    <3>. QED  BY <1>6, <2>2, <3>1, <3>2
  <2>. QED  BY <1>5, <2>1, <2>2
<1>10. ASSUME NEW j \in k+1..p  PROVE Stands(new, all[j], to[j - 1], to[j])
  <2>1. CASE j = p
    <3>1. PICK e \in 0..Len(text) : e = ends[n] /\ e = to[n]
      BY <1>4, <1>6
    <3>2. \A i \in e+1..Len(text) : text[i] = LineFeed
      BY <1>1, <3>1 DEF Consists, n
    <3>3. \A i \in e+1..Len(text) : new[i] = LineFeed
      <4>1. \A i \in 1..Len(text) : new[i] = text[i]
        BY JoinIs DEF new
      <4>2. \A i \in e+1..Len(text) : i \in 1..Len(text)
        BY <1>2
      <4>. QED  BY <3>2, <4>1, <4>2
    <3>4. Len(new) - Len(m) = Len(text) /\ e + Len(m) <= Len(new)
      BY <1>2, <3>1
    <3>5. Stands(new, m, e, Len(new))
      BY <1>2, <3>3, <3>4 DEF Stands
    <3>6. all[j] = m /\ to[j - 1] = e /\ to[j] = Len(new)
      BY <1>4, <1>6, <2>1, <3>1
    <3>. QED  BY <3>5, <3>6
  <2>2. CASE j \in k+1..n
    <3>1. j \in 1..n /\ j \in k..n /\ j - 1 \in k..n
      BY <1>4, <2>2
    <3>2. Stands(text, msgs[j], ends[j - 1], ends[j])
      BY <1>1, <2>2 DEF Consists, n
    <3>3. PICK a : a = ends[j - 1]
      OBVIOUS
    <3>4. PICK b : b = ends[j]
      OBVIOUS
    <3>5. a \in Nat /\ b \in 0..Len(text) /\ a = to[j - 1] /\ b = to[j]
      BY <1>2, <1>6, <3>1, <3>3, <3>4
    <3>6. Stands(text, msgs[j], a, b) /\ Len(msgs[j]) \in Nat /\ all[j] = msgs[j]
      BY <1>4, <3>1, <3>2, <3>3, <3>4
    <3>7. Stands(new, msgs[j], a, b)
      BY <3>5, <3>6, StandsOn DEF new
    <3>. QED  BY <3>5, <3>6, <3>7
  <2>3. j = p \/ j \in k+1..n
    BY <1>3, <1>4
  <2>. QED  BY <2>1, <2>2, <2>3
<1>11. \A i \in to[p]+1..Len(new) : new[i] = LineFeed
  <2>1. Len(new) \in Nat
    BY <1>2
  <2>. QED  BY <1>6, <2>1
<1>12. Consists(new, all, k, to)
  BY <1>4, <1>7, <1>8, <1>9, <1>10, <1>11 DEF Consists
<1>13. Whole(new, all, k)
  BY <1>4, <1>7, <1>12 DEF Whole
<1>. QED  BY <1>13 DEF new, all

--------------------------------------------------------------------------------
(* Types.                                                                     *)

\* What is left after stripping is a text.
LEMMA StripType ==
    ASSUME NEW buf \in Bytes
    PROVE  Strip(buf) \in Bytes
<1>1. Strip(buf) = IF FirstInk(buf) = 0 THEN <<>> ELSE SubSeq(buf, FirstInk(buf), Len(buf))
  BY DEF FirstInk, Strip
<1>2. <<>> \in Bytes
  BY DEF Bytes
<1>3. ASSUME FirstInk(buf) # 0  PROVE SubSeq(buf, FirstInk(buf), Len(buf)) \in Bytes
  <2>1. PICK x \in 1..Len(buf) : x = FirstInk(buf)
    BY <1>3, FirstsAre
  <2>2. PICK p : p = x - 1
    OBVIOUS
  <2>3. p \in 0..Len(buf) /\ Len(buf) \in p..Len(buf) /\ p + 1 = x
    <3>1. Len(buf) \in Nat
      BY TextIs
    <3>. QED  BY <2>1, <2>2, <3>1
  <2>4. SubSeq(buf, p + 1, Len(buf)) \in Bytes
    BY <2>3, PartIs
  <2>. QED  BY <2>1, <2>3, <2>4
<1>. QED  BY <1>1, <1>2, <1>3

\* A write: the thread that writes holds the lock; the bytes it has left over come after
\* those it has written.
LEMMA WriteDoes ==
    ASSUME TypeOK, NEW t \in Thread, NEW n \in 1..Len(out[t]), Write(t, n)
    PROVE  /\ lock = t /\ t # Nobody /\ n \in 0..Len(out[t])
           /\ SubSeq(out[t], 1, n) \in Bytes /\ SubSeq(out[t], n + 1, Len(out[t])) \in Bytes
           /\ SubSeq(out[t], 1, n) \o SubSeq(out[t], n + 1, Len(out[t])) = out[t]
           /\ wire' = wire \o SubSeq(out[t], 1, n)
           /\ out' = [out EXCEPT ![t] = SubSeq(out[t], n + 1, Len(out[t]))]
           /\ out'[t] = SubSeq(out[t], n + 1, Len(out[t]))
           /\ lock' \in {Nobody, t} /\ (lock' = Nobody => out'[t] = <<>>)
<1>1. out[t] \in Bytes /\ Len(out[t]) \in Nat
  BY TextIs DEF TypeOK
<1>2. n \in 0..Len(out[t]) /\ Len(out[t]) # 0
  BY <1>1
<1>3. out[t] # <<>>
  BY <1>1, <1>2, TextIs
<1>4. lock = t /\ t # Nobody
  BY <1>3, ConstantsAssumption DEF TypeOK
<1>5. PICK flow \in Bytes : flow = out[t]
  BY <1>1
<1>6. /\ SubSeq(flow, 1, n) \in Bytes /\ SubSeq(flow, n + 1, Len(flow)) \in Bytes
      /\ SubSeq(flow, 1, n) \o SubSeq(flow, n + 1, Len(flow)) = flow
  BY <1>2, <1>5, CutIs
<1>7. /\ wire' = wire \o SubSeq(out[t], 1, n)
      /\ out' = [out EXCEPT ![t] = SubSeq(out[t], n + 1, Len(out[t]))]
      /\ lock' = IF n = Len(out[t]) THEN Nobody ELSE lock
  BY DEF Write
<1>8. out'[t] = SubSeq(out[t], n + 1, Len(out[t]))
  BY <1>7 DEF TypeOK
<1>9. lock' \in {Nobody, t}
  BY <1>4, <1>7
<1>10. ASSUME lock' = Nobody  PROVE SubSeq(flow, n + 1, Len(flow)) = <<>>
  <2>1. n = Len(flow)
    BY <1>4, <1>5, <1>7, <1>10
  <2>2. Len(SubSeq(flow, n + 1, Len(flow))) = Len(flow) - n
    <3>1. Len(flow) \in n..Len(flow)
      BY <1>1, <1>2, <1>5
    <3>. QED  BY <1>2, <1>5, <3>1, PartIs
  <2>. QED  BY <1>1, <1>5, <1>6, <2>1, <2>2, TextIs
<1>. QED  BY <1>2, <1>4, <1>5, <1>6, <1>7, <1>8, <1>9, <1>10

\* Every step keeps the types.
LEMMA TypeKept ==
    ASSUME TypeOK, [Next]_vars
    PROVE  TypeOK'
<1>1. /\ lock \in Thread \cup {Nobody} /\ out \in [Thread -> Bytes]
      /\ \A t \in Thread : out[t] # <<>> => lock = t
      /\ wire \in Bytes /\ buffer \in Bytes
      /\ sent \in Seq(Bytes) /\ delivered \in Seq(Bytes)
  BY DEF TypeOK
<1>2. ASSUME NEW t \in Thread, NEW c \in Command, SendCommand(t, c)
      PROVE  TypeOK'
  <2>1. Format(c) \in Bytes
    BY FormatIs
  <2>2. /\ lock = Nobody /\ lock' = t /\ out' = [out EXCEPT ![t] = Format(c)]
        /\ sent' = Append(sent, Format(c))
        /\ wire' = wire /\ buffer' = buffer /\ delivered' = delivered
    BY <1>2 DEF SendCommand
  <2>3. \A x \in Thread : out[x] = <<>>
    BY <1>1, <2>2, ConstantsAssumption
  <2>4. out' \in [Thread -> Bytes] /\ \A x \in Thread : x # t => out'[x] = out[x]
    BY <1>1, <2>1, <2>2
  <2>5. sent' \in Seq(Bytes)
    BY <1>1, <2>1, <2>2, AppendProperties
  <2>. QED  BY <1>1, <2>2, <2>3, <2>4, <2>5 DEF TypeOK
<1>3. ASSUME NEW t \in Thread, NEW n \in 1..Len(out[t]), Write(t, n)
      PROVE  TypeOK'
  <2>1. /\ lock = t /\ SubSeq(out[t], 1, n) \in Bytes
        /\ SubSeq(out[t], n + 1, Len(out[t])) \in Bytes
        /\ wire' = wire \o SubSeq(out[t], 1, n)
        /\ out' = [out EXCEPT ![t] = SubSeq(out[t], n + 1, Len(out[t]))]
        /\ lock' \in {Nobody, t} /\ (lock' = Nobody => out'[t] = <<>>)
    BY <1>3, WriteDoes
  <2>2. buffer' = buffer /\ sent' = sent /\ delivered' = delivered
    BY <1>3 DEF Write
  <2>3. out' \in [Thread -> Bytes] /\ \A x \in Thread : x # t => out'[x] = out[x]
    BY <1>1, <2>1
  <2>4. wire' \in Bytes
    BY <1>1, <2>1, JoinIs
  <2>5. \A x \in Thread : out'[x] # <<>> => lock' = x
    BY <1>1, <2>1, <2>3
  <2>. QED  BY <1>1, <2>1, <2>2, <2>3, <2>4, <2>5 DEF TypeOK
<1>4. CASE TakeCommand
  <2>1. PICK buf : buf = Strip(buffer)
    OBVIOUS
  <2>2. PICK l : l = CommandLength(buf)
    OBVIOUS
  <2>3. /\ l \in 1..Len(buf) /\ delivered' = Append(delivered, SubSeq(buf, 1, l))
        /\ buffer' = SubSeq(buf, l + 1, Len(buf))
        /\ UNCHANGED <<lock, out, wire, sent>>
    BY <1>4, <2>1, <2>2 DEF TakeCommand, HasCommand
  <2>4. buf \in Bytes /\ Len(buf) \in Nat
    BY <1>1, <2>1, StripType, TextIs
  <2>5. SubSeq(buf, 1, l) \in Bytes /\ SubSeq(buf, l + 1, Len(buf)) \in Bytes
    <3>1. l \in 0..Len(buf)
      BY <2>3, <2>4
    <3>. QED  BY <2>4, <3>1, CutIs
  <2>6. delivered' \in Seq(Bytes)
    BY <1>1, <2>3, <2>5, AppendProperties
  <2>. QED  BY <1>1, <2>3, <2>5, <2>6 DEF TypeOK
<1>5. CASE TakeLine
  <2>1. PICK x : x = FirstBreak(buffer)
    OBVIOUS
  <2>2. /\ x > 0
        /\ \/ delivered' = delivered
           \/ delivered' = Append(delivered, SubSeq(buffer, 1, x))
        /\ buffer' = SubSeq(buffer, x + 1, Len(buffer))
        /\ UNCHANGED <<lock, out, wire, sent>>
    BY <1>5, <2>1 DEF TakeLine, FirstBreak
  <2>3. x \in 0..Len(buffer)
    <3>1. Len(buffer) \in Nat
      BY <1>1, TextIs
    <3>. QED  BY <1>1, <2>1, <2>2, <3>1, FirstsAre
  <2>4. SubSeq(buffer, 1, x) \in Bytes /\ SubSeq(buffer, x + 1, Len(buffer)) \in Bytes
    BY <1>1, <2>3, CutIs
  <2>5. delivered' \in Seq(Bytes)
    <3>1. Append(delivered, SubSeq(buffer, 1, x)) \in Seq(Bytes)
      BY <1>1, <2>4, AppendProperties
    <3>. QED  BY <1>1, <2>2, <3>1
  <2>. QED  BY <1>1, <2>2, <2>4, <2>5 DEF TypeOK
<1>6. ASSUME NEW n \in 1..Len(wire), Read(n)
      PROVE  TypeOK'
  <2>1. /\ buffer' = buffer \o SubSeq(wire, 1, n) /\ wire' = SubSeq(wire, n + 1, Len(wire))
        /\ UNCHANGED <<lock, out, sent, delivered>>
    BY <1>6 DEF Read
  <2>2. n \in 0..Len(wire)
    BY <1>1, TextIs
  <2>3. SubSeq(wire, 1, n) \in Bytes /\ SubSeq(wire, n + 1, Len(wire)) \in Bytes
    BY <1>1, <2>2, CutIs
  <2>4. buffer' \in Bytes
    BY <1>1, <2>1, <2>3, JoinIs
  <2>. QED  BY <1>1, <2>1, <2>3, <2>4 DEF TypeOK
<1>7. CASE TypeReturn
  <2>1. wire' = Append(wire, LineFeed) /\ UNCHANGED <<lock, out, buffer, sent, delivered>>
    BY <1>7 DEF TypeReturn
  <2>2. LineFeed \in Byte
    BY DEF LineFeed, Byte
  <2>3. wire' \in Bytes
    BY <1>1, <2>1, <2>2, AppendProperties DEF Bytes
  <2>. QED  BY <1>1, <2>1, <2>3 DEF TypeOK
<1>8. CASE UNCHANGED vars
  BY <1>1, <1>8 DEF TypeOK, vars
<1>. QED  BY <1>2, <1>3, <1>4, <1>5, <1>6, <1>7, <1>8 DEF Next, Writing, Reading

--------------------------------------------------------------------------------
(* Steps.                                                                     *)

\* The parts of the text have their types, and a thread that writes nothing adds nothing.
LEMMA TextParts ==
    ASSUME TypeOK
    PROVE  /\ buffer \in Bytes /\ wire \in Bytes /\ Unwritten \in Bytes
           /\ buffer \o wire \in Bytes /\ Text \in Bytes
           /\ Text = buffer \o (wire \o Unwritten) /\ wire \o Unwritten \in Bytes
<1>1. buffer \in Bytes /\ wire \in Bytes
  BY DEF TypeOK
<1>2. Unwritten \in Bytes
  <2>1. <<>> \in Bytes
    BY DEF Bytes
  <2>. QED  BY <2>1 DEF TypeOK, Unwritten
<1>3. PICK u \in Bytes : u = Unwritten
  BY <1>2
<1>4. buffer \o wire \in Bytes /\ wire \o u \in Bytes
  BY <1>1, JoinIs
<1>5. (buffer \o wire) \o u \in Bytes
  BY <1>4, JoinIs
<1>6. (buffer \o wire) \o u = buffer \o (wire \o u)
  BY <1>1, JoinsAssociate
<1>. QED  BY <1>1, <1>2, <1>3, <1>4, <1>5, <1>6 DEF Text

\* A command that is sent goes to the end of the text.
LEMMA SendAdds ==
    ASSUME TypeOK, NEW t \in Thread, NEW c \in Command, SendCommand(t, c)
    PROVE  Text' = Text \o Format(c)
<1>1. /\ lock = Nobody /\ lock' = t /\ out' = [out EXCEPT ![t] = Format(c)]
      /\ wire' = wire /\ buffer' = buffer
  BY DEF SendCommand
<1>2. Unwritten = <<>>
  BY <1>1 DEF Unwritten
<1>3. Unwritten' = Format(c)
  <2>1. t # Nobody
    BY ConstantsAssumption
  <2>2. out'[t] = Format(c)
    BY <1>1 DEF TypeOK
  <2>. QED  BY <1>1, <2>1, <2>2 DEF Unwritten
<1>4. PICK flow \in Bytes : flow = buffer \o wire
  BY TextParts
<1>5. Text = flow
  BY <1>2, <1>4, ConcatEmptySeq DEF Text, Bytes
<1>. QED  BY <1>1, <1>3, <1>4, <1>5 DEF Text

\* Writing and reading leave the text as it is.
LEMMA WriteMoves ==
    ASSUME TypeOK, NEW t \in Thread, NEW n \in 1..Len(out[t]), Write(t, n)
    PROVE  Text' = Text
<1>1. PICK a \in Bytes : a = SubSeq(out[t], 1, n)
  BY WriteDoes
<1>2. PICK b \in Bytes : b = SubSeq(out[t], n + 1, Len(out[t]))
  BY WriteDoes
<1>3. /\ lock = t /\ t # Nobody /\ a \o b = out[t] /\ wire' = wire \o a /\ out'[t] = b
      /\ lock' \in {Nobody, t} /\ (lock' = Nobody => out'[t] = <<>>)
  BY <1>1, <1>2, WriteDoes
<1>4. Unwritten = a \o b
  BY <1>3 DEF Unwritten
<1>5. Unwritten' = b
  BY <1>3 DEF Unwritten
<1>6. buffer' = buffer
  BY DEF Write
<1>7. buffer \in Bytes /\ wire \in Bytes /\ buffer \o wire \in Bytes
  BY TextParts
<1>8. buffer \o (wire \o a) = (buffer \o wire) \o a
  BY SMTT(30), <1>7, JoinsAssociate
<1>9. ((buffer \o wire) \o a) \o b = (buffer \o wire) \o (a \o b)
  BY ZenonT(30), <1>7, JoinsAssociate
<1>. QED  BY <1>3, <1>4, <1>5, <1>6, <1>8, <1>9 DEF Text

LEMMA ReadMoves ==
    ASSUME TypeOK, NEW n \in 1..Len(wire), Read(n)
    PROVE  Text' = Text
<1>1. buffer \in Bytes /\ wire \in Bytes
  BY TextParts
<1>2. n \in 0..Len(wire)
  BY <1>1, TextIs
<1>3. PICK a \in Bytes : a = SubSeq(wire, 1, n)
  BY <1>1, <1>2, CutIs
<1>4. PICK b \in Bytes : b = SubSeq(wire, n + 1, Len(wire))
  BY <1>1, <1>2, CutIs
<1>5. a \o b = wire
  BY <1>1, <1>2, <1>3, <1>4, CutIs
<1>6. buffer' = buffer \o a /\ wire' = b /\ Unwritten' = Unwritten
  BY <1>3, <1>4 DEF Read, Unwritten
<1>7. (buffer \o a) \o b = buffer \o wire
  BY ZenonT(30), <1>1, <1>5, JoinsAssociate
<1>. QED  BY <1>6, <1>7 DEF Text

\* A line break is typed while nobody writes: it goes to the end of the text.
LEMMA ReturnAdds ==
    ASSUME TypeOK, TypeReturn
    PROVE  Text' = Text \o <<LineFeed>>
<1>1. /\ lock = Nobody /\ wire' = Append(wire, LineFeed)
      /\ lock' = lock /\ out' = out /\ buffer' = buffer
  BY DEF TypeReturn
<1>2. Unwritten = <<>> /\ Unwritten' = <<>>
  BY <1>1 DEF Unwritten
<1>3. buffer \in Bytes /\ wire \in Bytes /\ buffer \o wire \in Bytes
  BY TextParts
<1>4. LineFeed \in Byte /\ <<LineFeed>> \in Bytes
  <2>1. LineFeed \in Byte
    BY DEF LineFeed, Byte
  <2>. QED  BY <2>1 DEF Bytes
<1>5. wire' = wire \o <<LineFeed>>
  BY <1>1, <1>3, <1>4, AppendIsConcat DEF Bytes
<1>6. buffer \o (wire \o <<LineFeed>>) = (buffer \o wire) \o <<LineFeed>>
  BY <1>3, <1>4, JoinsAssociate
<1>7. PICK flow \in Bytes : flow = (buffer \o wire) \o <<LineFeed>>
  BY <1>3, <1>4, JoinIs
<1>8. Text' = flow
  BY <1>1, <1>2, <1>5, <1>6, <1>7, ConcatEmptySeq DEF Text, Bytes
<1>9. Text = buffer \o wire
  BY <1>2, <1>3, ConcatEmptySeq DEF Text, Bytes
<1>. QED  BY <1>7, <1>8, <1>9

\* What is sent and what is delivered, where neither changes.
LEMMA QuietKeeps ==
    ASSUME IInv, TypeOK', UNCHANGED <<sent, delivered>>, Whole(Text', sent, Len(delivered))
    PROVE  IInv' /\ UNCHANGED <<sent, delivered>>
  BY DEF IInv, SentInv, DeliveredInv, TextInv

\* Every step keeps the invariant and is a step of the channel.
LEMMA StepKeeps ==
    ASSUME OneLine, IInv, [Next]_vars
    PROVE  IInv' /\ [Channel!Next]_<<sent, delivered>>
<1>1. TypeOK /\ SentInv /\ DeliveredInv /\ TextInv /\ TypeOK'
  BY TypeKept DEF IInv
<1>2. PICK msgs \in Seq(Bytes) : msgs = sent
  BY <1>1 DEF TypeOK
<1>3. PICK k : k = Len(delivered)
  OBVIOUS
<1>4. PICK flow \in Bytes : flow = Text
  BY <1>1, TextParts
<1>5. /\ Len(msgs) \in Nat /\ k \in 0..Len(msgs) /\ Whole(flow, msgs, k)
      /\ \A j \in 1..Len(msgs) : IsMessage(msgs[j]) /\ Len(msgs[j]) \in Nat
  <2>1. Len(msgs) \in Nat
    BY LenProperties
  <2>2. k \in Nat
    BY <1>1, <1>3, LenProperties DEF TypeOK
  <2>3. k <= Len(msgs)
    BY <1>1, <1>2, <1>3 DEF DeliveredInv
  <2>4. \A j \in 1..Len(msgs) : IsMessage(msgs[j])
    BY <1>1, <1>2 DEF SentInv
  <2>5. \A j \in 1..Len(msgs) : Len(msgs[j]) \in Nat
    BY <2>4, TextIs DEF IsMessage, Unbroken
  <2>6. Whole(flow, msgs, k)
    BY <1>1, <1>2, <1>3, <1>4 DEF TextInv
  <2>. QED  BY <2>1, <2>2, <2>3, <2>4, <2>5, <2>6
<1>6. ASSUME NEW t \in Thread, NEW c \in Command, SendCommand(t, c)
      PROVE  IInv' /\ Channel!Next
  <2>1. PICK m \in Bytes : m = Format(c)
    BY FormatIs
  <2>2. IsMessage(m)
    BY <2>1, FormatIs
  <2>3. sent' = Append(msgs, m) /\ delivered' = delivered /\ Len(msgs) < MaxSent
    BY <1>2, <1>6, <2>1 DEF SendCommand
  <2>4. Text' = flow \o m
    BY <1>1, <1>4, <1>6, <2>1, SendAdds
  <2>5. Whole(flow \o m, Append(msgs, m), k)
    BY <1>5, MessageAdded
  <2>6. TextInv'
    BY <1>3, <2>3, <2>4, <2>5 DEF TextInv
  <2>7. /\ Len(sent') = Len(msgs) + 1 /\ sent'[Len(msgs) + 1] = m
        /\ \A j \in 1..Len(msgs) : sent'[j] = msgs[j]
    BY <2>3, AppendProperties
  <2>8. SentInv'
    <3>1. \A j \in 1..Len(msgs)+1 : j \in 1..Len(msgs) \/ j = Len(msgs) + 1
      BY <1>5
    <3>. QED  BY <1>5, <2>2, <2>7, <3>1 DEF SentInv
  <2>9. DeliveredInv'
    <3>1. \A j \in 1..k : j \in 1..Len(msgs)
      BY <1>5
    <3>2. \A j \in 1..k : delivered[j] = msgs[j]
      BY <1>1, <1>2, <1>3 DEF DeliveredInv
    <3>3. k <= Len(sent')
      BY <1>5, <2>7
    <3>. QED  BY <1>3, <2>3, <2>7, <3>1, <3>2, <3>3 DEF DeliveredInv
  <2>10. Channel!Next
    BY <1>2, <1>6, <2>1, <2>3 DEF Channel!Next, Channel!Send
  <2>. QED  BY <1>1, <2>6, <2>8, <2>9, <2>10 DEF IInv
<1>7. ASSUME NEW t \in Thread, NEW n \in 1..Len(out[t]), Write(t, n)
      PROVE  IInv' /\ UNCHANGED <<sent, delivered>>
  <2>1. Text' = flow
    BY <1>1, <1>4, <1>7, WriteMoves
  <2>2. UNCHANGED <<sent, delivered>>
    BY <1>7 DEF Write
  <2>. QED  BY <1>1, <1>2, <1>3, <1>5, <2>1, <2>2, QuietKeeps
<1>8. ASSUME NEW n \in 1..Len(wire), Read(n)
      PROVE  IInv' /\ UNCHANGED <<sent, delivered>>
  <2>1. Text' = flow
    BY <1>1, <1>4, <1>8, ReadMoves
  <2>2. UNCHANGED <<sent, delivered>>
    BY <1>8 DEF Read
  <2>. QED  BY <1>1, <1>2, <1>3, <1>5, <2>1, <2>2, QuietKeeps
<1>9. CASE TypeReturn
  <2>1. Text' = flow \o <<LineFeed>>
    BY <1>1, <1>4, <1>9, ReturnAdds
  <2>2. UNCHANGED <<sent, delivered>>
    BY <1>9 DEF TypeReturn
  <2>3. Whole(flow \o <<LineFeed>>, msgs, k)
    BY <1>5, ReturnAdded
  <2>. QED  BY <1>1, <1>2, <1>3, <2>1, <2>2, <2>3, QuietKeeps
<1>10. PICK buf \in Bytes : buf = buffer
  BY <1>1, TextParts
<1>11. PICK rest \in Bytes : rest = wire \o Unwritten
  BY <1>1, TextParts
<1>12. flow = buf \o rest /\ Whole(buf \o rest, msgs, k)
  BY <1>1, <1>4, <1>5, <1>10, <1>11, TextParts
<1>13. ASSUME UNCHANGED <<lock, out, wire>>, NEW after \in Bytes, buffer' = after
       PROVE  Text' = after \o rest
  <2>1. wire' = wire /\ Unwritten' = Unwritten
    BY <1>13 DEF Unwritten
  <2>2. wire \in Bytes /\ Unwritten \in Bytes
    BY <1>1, TextParts
  <2>3. (after \o wire) \o Unwritten = after \o (wire \o Unwritten)
    BY <2>2, JoinsAssociate
  <2>. QED  BY <1>11, <1>13, <2>1, <2>3 DEF Text
<1>14. CASE TakeCommand
  <2>1. PICK l : l = CommandLength(Strip(buf))
    OBVIOUS
  <2>2. PICK after : after = SubSeq(Strip(buf), l + 1, Len(Strip(buf)))
    OBVIOUS
  <2>3. /\ HasCommand(Strip(buf))
        /\ delivered' = Append(delivered, SubSeq(Strip(buf), 1, l))
        /\ buffer' = after /\ UNCHANGED <<lock, out, wire, sent>>
    BY <1>10, <1>14, <2>1, <2>2 DEF TakeCommand
  <2>4. /\ k < Len(msgs) /\ SubSeq(Strip(buf), 1, l) = msgs[k + 1]
        /\ after \in Bytes /\ Whole(after \o rest, msgs, k + 1)
    BY <1>5, <1>12, <2>1, <2>2, <2>3, CommandTaken
  <2>5. delivered' = Append(delivered, msgs[k + 1]) /\ sent' = msgs
    BY <1>2, <2>3, <2>4
  <2>6. msgs[k + 1] \in Bytes /\ delivered \in Seq(Bytes)
    <3>1. k + 1 \in 1..Len(msgs)
      BY <1>5, <2>4
    <3>. QED  BY <1>1, <3>1, ElementOfSeq DEF TypeOK
  <2>7. /\ Len(delivered') = k + 1 /\ delivered'[k + 1] = msgs[k + 1]
        /\ \A j \in 1..k : delivered'[j] = delivered[j]
    BY <1>3, <2>5, <2>6, AppendProperties
  <2>8. TextInv'
    <3>1. Text' = after \o rest
      BY <1>13, <2>3, <2>4
    <3>. QED  BY <2>4, <2>5, <2>7, <3>1 DEF TextInv
  <2>9. DeliveredInv'
    <3>1. \A j \in 1..k+1 : j \in 1..k \/ j = k + 1
      BY <1>5
    <3>2. \A j \in 1..k : delivered[j] = msgs[j]
      BY <1>1, <1>2, <1>3 DEF DeliveredInv
    <3>3. k + 1 <= Len(msgs)
      BY <1>5, <2>4
    <3>. QED  BY <2>5, <2>7, <3>1, <3>2, <3>3 DEF DeliveredInv
  <2>10. SentInv'
    BY <1>2, <1>5, <2>5 DEF SentInv
  <2>11. Channel!Next
    BY <1>2, <1>3, <2>4, <2>5 DEF Channel!Next, Channel!DeliverNext
  <2>. QED  BY <1>1, <2>8, <2>9, <2>10, <2>11 DEF IInv
<1>15. CASE TakeLine
  <2>1. PICK i : i = FirstBreak(buf)
    OBVIOUS
  <2>2. PICK after : after = SubSeq(buf, i + 1, Len(buf))
    OBVIOUS
  <2>3. /\ ~HasCommand(Strip(buf)) /\ FirstBreak(buf) > 0
        /\ delivered' = IF Strip(SubSeq(buf, 1, i)) = <<>> THEN delivered
                        ELSE Append(delivered, SubSeq(buf, 1, i))
        /\ buffer' = after /\ UNCHANGED <<lock, out, wire, sent>>
    BY <1>10, <1>15, <2>1, <2>2 DEF TakeLine, FirstBreak
  <2>4. /\ Strip(SubSeq(buf, 1, i)) = <<>>
        /\ after \in Bytes /\ Whole(after \o rest, msgs, k)
    BY <1>5, <1>12, <2>1, <2>2, <2>3, LineTaken
  <2>5. UNCHANGED <<sent, delivered>>
    BY <2>3, <2>4
  <2>6. Text' = after \o rest
    BY <1>13, <2>3, <2>4
  <2>. QED  BY <1>1, <1>2, <1>3, <2>4, <2>5, <2>6, QuietKeeps
<1>16. CASE UNCHANGED vars
  <2>1. UNCHANGED <<lock, out, wire, buffer, sent, delivered>>
    BY <1>16 DEF vars
  <2>2. Text' = flow
    BY <1>4, <2>1 DEF Text, Unwritten
  <2>. QED  BY <1>1, <1>2, <1>3, <1>5, <2>1, <2>2, QuietKeeps
<1>. QED
  BY <1>6, <1>7, <1>8, <1>9, <1>14, <1>15, <1>16 DEF Next, Writing, Reading

\* At the beginning there is nothing.
LEMMA InitHolds ==
    ASSUME Init
    PROVE  IInv /\ Channel!Init
<1>1. /\ lock = Nobody /\ out = [t \in Thread |-> <<>>] /\ wire = <<>> /\ buffer = <<>>
      /\ sent = <<>> /\ delivered = <<>>
  BY DEF Init
<1>2. <<>> \in Bytes /\ <<>> \in Seq(Bytes) /\ Len(<<>>) = 0
  BY DEF Bytes
<1>3. TypeOK
  BY <1>1, <1>2 DEF TypeOK
<1>4. Text = <<>>
  BY <1>1, <1>2, ConcatEmptySeq DEF Text, Unwritten, Bytes
<1>5. TextInv
  <2>. DEFINE ends == [j \in 0..0 |-> 0]
  <2>1. ends \in [0..0 -> 0..0] /\ ends[0] = 0 /\ \A j \in 0..0 : ends[j] = 0
    OBVIOUS
  <2>. HIDE DEF ends
  <2>2. Consists(<<>>, <<>>, 0, ends)
    BY <1>2, <2>1 DEF Consists
  <2>3. Whole(<<>>, <<>>, 0)
    BY <1>2, <2>1, <2>2 DEF Whole
  <2>. QED  BY <1>1, <1>2, <1>4, <2>3 DEF TextInv
<1>6. SentInv /\ DeliveredInv
  BY <1>1, <1>2 DEF SentInv, DeliveredInv
<1>. QED  BY <1>1, <1>3, <1>5, <1>6 DEF IInv, Channel!Init

--------------------------------------------------------------------------------
(* The theorems.                                                              *)

\* Every variable has its type; only the thread that holds the lock has something to
\* write, whatever is sent (serial_wire.py:82).
THEOREM TypeCorrect == Spec => []TypeOK
<1>1. Init => TypeOK
  BY InitHolds DEF IInv
<1>2. TypeOK /\ [Next]_vars => TypeOK'
  BY TypeKept
<1>. QED  BY <1>1, <1>2, PTL DEF Spec

\* The invariant the other theorems rest on: what is on its way consists of the commands
\* that have not been delivered.
THEOREM IInvHolds == OneLine => (Spec => []IInv)
<1>. SUFFICES ASSUME OneLine  PROVE Spec => []IInv
  OBVIOUS
<1>1. IInv /\ [Next]_vars => IInv'
  BY StepKeeps
<1>. QED  BY InitHolds, <1>1, PTL DEF Spec

\* Without line breaks in the payloads, the stream is the abstract channel: whatever the
\* chunks and the line breaks typed, on_data gets the commands that were sent, whole, in
\* the order of the lock, and nothing else (modem_relay.py:57, backends.py:100).
THEOREM StreamIsChannel == OneLine => (Spec => ImplementsChannel)
<1>. SUFFICES ASSUME OneLine  PROVE Spec => ImplementsChannel
  OBVIOUS
<1>1. IInv /\ [Next]_vars => [Channel!Next]_<<sent, delivered>>
  BY StepKeeps
<1>2. Init => Channel!Init
  BY InitHolds
<1>. QED
  BY IInvHolds, <1>1, <1>2, PTL DEF Spec, ImplementsChannel, Channel!Spec, Channel!channel

\* The rule of the user guide, "any printable or non-printable byte value", holds for
\* every payload without line breaks: those alone cost it
\* (docs/nanomodem_v3_user_guide.md:124).
THEOREM LinelessDataPasses == OneLine => (Spec => []AnyDataPasses)
<1>. SUFFICES ASSUME OneLine  PROVE Spec => []AnyDataPasses
  OBVIOUS
<1>1. ASSUME IInv  PROVE AnyDataPasses
  <2>1. PICK k : k = Len(delivered)
    OBVIOUS
  <2>2. /\ sent \in Seq(Bytes) /\ delivered \in Seq(Bytes)
        /\ k \in Nat /\ k <= Len(sent) /\ Len(sent) \in Nat
        /\ \A j \in 1..k : delivered[j] = sent[j]
    <3>1. sent \in Seq(Bytes) /\ delivered \in Seq(Bytes)
      BY <1>1 DEF IInv, TypeOK
    <3>. QED  BY <1>1, <2>1, <3>1, LenProperties DEF IInv, DeliveredInv
  <2>3. /\ SubSeq(sent, 1, k) \in Seq(Bytes) /\ Len(SubSeq(sent, 1, k)) = k
        /\ \A j \in 1..k : SubSeq(sent, 1, k)[j] = sent[j]
    <3>1. \A j \in 1..k : sent[j] \in Bytes
      BY <2>2, ElementOfSeq
    <3>2. /\ SubSeq(sent, 1, k) \in Seq(Bytes)
          /\ Len(SubSeq(sent, 1, k)) = IF 1 <= k THEN k - 1 + 1 ELSE 0
          /\ \A j \in 1..k-1+1 : SubSeq(sent, 1, k)[j] = sent[1 + j - 1]
      BY <2>2, <3>1, SubSeqProperties
    <3>. QED  BY <2>2, <3>2
  <2>4. SubSeq(sent, 1, k) = delivered
    BY <2>1, <2>2, <2>3, SeqEqual
  <2>5. SubSeq(delivered, 1, k) = delivered
    BY <2>1, <2>2, SubSeqFull
  <2>. QED  BY <2>1, <2>2, <2>4, <2>5 DEF AnyDataPasses, IsPrefix
<1>. QED  BY IInvHolds, <1>1, PTL

\* For payloads without line breaks no command stays behind in the reader's buffer: when
\* all has been written and read and the reader waits, it has handed on everything that
\* was sent, so that no command needs a later one to push it through (modem_relay.py:57).
THEOREM NoCommandStaysBehind == OneLine => (Spec => []NothingStaysBehind)
<1>. SUFFICES ASSUME OneLine  PROVE Spec => []NothingStaysBehind
  OBVIOUS
<1>1. ASSUME IInv, lock = Nobody, wire = <<>>, AwaitsInput  PROVE delivered = sent
  <2>1. PICK k : k = Len(delivered)
    OBVIOUS
  <2>2. /\ sent \in Seq(Bytes) /\ delivered \in Seq(Bytes)
        /\ Len(sent) \in Nat /\ k \in 0..Len(sent)
        /\ \A j \in 1..k : delivered[j] = sent[j]
    <3>1. sent \in Seq(Bytes) /\ delivered \in Seq(Bytes)
      BY <1>1 DEF IInv, TypeOK
    <3>. QED  BY <1>1, <2>1, <3>1, LenProperties DEF IInv, DeliveredInv
  <2>3. buffer \in Bytes /\ Text = buffer
    <3>1. buffer \in Bytes
      BY <1>1 DEF IInv, TypeOK
    <3>. QED  BY <1>1, <3>1, ConcatEmptySeq DEF Text, Unwritten, Bytes
  <2>4. Whole(buffer, sent, k) /\ \A j \in 1..Len(sent) : IsMessage(sent[j])
    BY <1>1, <2>1, <2>3 DEF IInv, TextInv, SentInv
  <2>5. ~(k < Len(sent))
    <3>. SUFFICES ASSUME k < Len(sent)  PROVE FALSE
      OBVIOUS
    <3>1. HasCommand(Strip(buffer))
      BY <2>2, <2>3, <2>4, CommandFound
    <3>. QED  BY <1>1, <3>1 DEF AwaitsInput
  <2>6. Len(delivered) = Len(sent)
    BY <2>1, <2>2, <2>5
  <2>. QED  BY <2>1, <2>2, <2>6, SeqEqual
<1>2. IInv => NothingStaysBehind
  BY <1>1 DEF NothingStaysBehind
<1>. QED  BY IInvHolds, <1>2, PTL

================================================================================
