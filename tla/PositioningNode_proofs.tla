------------------------ MODULE PositioningNode_proofs ------------------------
(***************************************************************************)
(* Theorems about PositioningNode, for any numbers of nodes, reports and   *)
(* edits.                                                                  *)
(*                                                                         *)
(* The table has no lock.  What is right about it rests on what the method *)
(* that a thread executes has still to do: fields not yet stored, a change *)
(* not yet announced, and on a method that raises half-way doing so only   *)
(* because another one has work to do for it.                              *)
(***************************************************************************)
EXTENDS PositioningNode, FiniteSetTheorems, SequenceTheorems, TLAPS

Fields == {"position", "depth", "range", "seen"}
Calculating == {"iterate", "collect", "use"}
First == {"ensure", "insert", "delete", "collect", "use"}

\* The words of a plan.
Left(plan, word) == \E i \in 1..Len(plan) : plan[i] = word

\* What every plan has in common: some words only start one, no word comes twice, the
\* calculation comes last, and an announcement after what changes a field.
StartsOnce(plan) == \A i \in 2..Len(plan) : plan[i] \notin First
NoWordTwice(plan) == \A i, j \in 1..Len(plan) : plan[i] = plan[j] => i = j
CalculatesLast(plan) == \A i \in 1..Len(plan) : plan[i] \in Calculating => i = Len(plan)
AnnouncesAfter(plan, i) == \E j \in i+1..Len(plan) : plan[j] = "announce"
Changes == Fields \cup {"delete"}
AnnouncesChanges(plan) == \A i \in 1..Len(plan) : plan[i] \in Changes => AnnouncesAfter(plan, i)
SecondWord(plan) ==
    /\ Len(plan) > 1 /\ plan[1] \in {"ensure", "insert"} => plan[2] \in Fields
    /\ Len(plan) > 1 /\ plan[1] = "delete" => plan[2] = "announce"

GoodPlan(plan) ==
    /\ StartsOnce(plan) /\ NoWordTwice(plan) /\ CalculatesLast(plan)
    /\ AnnouncesChanges(plan) /\ SecondWord(plan)

\* The arguments that a plan needs.
Arguments(f) ==
    /\ f.node = None => \A i \in 1..Len(f.plan) : f.plan[i] \in Calculating
    /\ f.value = None => ~Left(f.plan, "depth") /\ ~Left(f.plan, "range")
    /\ Left(f.plan, "collect") \/ Left(f.plan, "use") \/ f.seen = {}

PlansInv == \A t \in Thread : GoodPlan(frame[t].plan) /\ Arguments(frame[t])

\* The nodes of which a report or a range is known since the UI last worked on them.
Heard == {n \in Id : last[n] # Nothing}

\* The reader thread deletes nothing; the UI thread is busy with no node of these.
ReaderKeepsEntries == ~Left(frame["reader"].plan, "delete")
UIElsewhere == \A n \in Heard : ~Busy(n)

\* What the reader thread has still to store for node n.
Missing(n, word) == frame["reader"].node = n /\ Left(frame["reader"].plan, word)

\* The entry of such a node is as reported, but for what the reader thread has still to
\* store.
Stored(n) ==
    /\ table[n] = None =>
          /\ last[n].report = None \/ (Missing(n, "position") /\ Missing(n, "depth"))
          /\ last[n].range = None \/ Missing(n, "range")
    /\ table[n] # None =>
          /\ last[n].report = None \/ Missing(n, "position")
                \/ object[table[n]].position = last[n].report
          /\ last[n].report = None \/ Missing(n, "depth")
                \/ object[table[n]].depth = last[n].report
          /\ last[n].range = None \/ Missing(n, "range")
                \/ object[table[n]].range = last[n].range
    /\ Missing(n, "position") \/ Missing(n, "depth") => frame["reader"].value = last[n].report
    /\ Missing(n, "range") => frame["reader"].value = last[n].range
    /\ frame["reader"].node = n =>
          /\ At("reader", "insert") => table[n] = None
          /\ (\E field \in Fields : At("reader", field)) => table[n] # None

StoredInv == \A n \in Heard : Stored(n)

\* The reader thread calculates with what is in the table.
Reported(n) == None \notin {last[n].report, last[n].range}
Used(n) == \E entry \in frame["reader"].used : entry[1] = n /\ AsReported(n, entry[2])
Calculated(n) ==
    /\ At("reader", "collect") /\ n \in frame["reader"].seen
          => <<n, table[n]>> \in frame["reader"].usable
    /\ At("reader", "use") => <<n, table[n]>> \in frame["reader"].usable \/ Used(n)

CalculationInv == \A n \in Heard : Reported(n) => Calculated(n)

\* A thread that will announce what has changed: nothing that it has still to do can
\* raise, unless another thread deletes the entry, which will then announce that.
WillAnnounce(t) ==
    /\ Left(frame[t].plan, "announce")
    /\ \/ At(t, "ensure") \/ At(t, "insert") \/ At(t, "announce")
       \/ table[Node(t)] # None

DirtyInv == dirty => \E t \in Thread : WillAnnounce(t)

IInv ==
    /\ TypeOK /\ PlansInv /\ ReaderKeepsEntries /\ UIElsewhere
    /\ StoredInv /\ CalculationInv /\ DirtyInv

--------------------------------------------------------------------------------
(* Plans.                                                                     *)

\* The head of a plan.
LEMMA PlanHead ==
    ASSUME NEW plan \in Seq(Words), plan # <<>>
    PROVE  /\ Len(plan) \in Nat /\ Len(plan) >= 1 /\ 1 \in 1..Len(plan)
           /\ Head(plan) = plan[1] /\ plan[1] \in Words /\ Left(plan, Head(plan))
           /\ Tail(plan) \in Seq(Words) /\ Len(Tail(plan)) = Len(plan) - 1
           /\ \A i \in 1..Len(plan)-1 : Tail(plan)[i] = plan[i + 1]
<1>1. Len(plan) \in Nat /\ Len(plan) # 0
  BY EmptySeq
<1>2. Len(plan) >= 1 /\ 1 \in 1..Len(plan) /\ Head(plan) = plan[1] /\ plan[1] \in Words
  BY <1>1
<1>3. Left(plan, Head(plan))
  BY <1>2 DEF Left
<1>. QED  BY <1>1, <1>2, <1>3

\* Nothing is left of the empty plan.
LEMMA NoPlan == GoodPlan(<<>>) /\ \A word : ~Left(<<>>, word)
  BY DEF GoodPlan, StartsOnce, NoWordTwice, CalculatesLast, AnnouncesChanges, SecondWord,
         Left

\* A plan without its first word.
LEMMA ShiftedPlan ==
    ASSUME NEW plan, NEW after, Len(plan) \in Nat, Len(plan) >= 1, Len(after) = Len(plan) - 1,
           \A i \in 1..Len(plan)-1 : after[i] = plan[i + 1], GoodPlan(plan)
    PROVE  /\ GoodPlan(after)
           /\ \A word : Left(after, word) <=> Left(plan, word) /\ word # plan[1]
<1>1. \A i \in 1..Len(after) : /\ after[i] = plan[i + 1] /\ i + 1 \in 2..Len(plan)
                               /\ i + 1 \in 1..Len(plan) /\ i + 1 # 1
  OBVIOUS
<1>2. 1 \in 1..Len(plan)
  OBVIOUS
<1>3. NoWordTwice(after)
  <2>. SUFFICES ASSUME NEW i \in 1..Len(after), NEW j \in 1..Len(after), after[i] = after[j]
                PROVE  i = j
    BY DEF NoWordTwice
  <2>1. plan[i + 1] = plan[j + 1] /\ i + 1 \in 1..Len(plan) /\ j + 1 \in 1..Len(plan)
    BY <1>1
  <2>2. i + 1 = j + 1
    BY <2>1 DEF GoodPlan, NoWordTwice
  <2>. QED  BY <2>2
<1>4. \A i \in 1..Len(after) : after[i] \notin First
  BY <1>1 DEF GoodPlan, StartsOnce
<1>5. StartsOnce(after)
  BY <1>4 DEF StartsOnce
<1>6. CalculatesLast(after)
  <2>. SUFFICES ASSUME NEW i \in 1..Len(after), after[i] \in Calculating  PROVE i = Len(after)
    BY DEF CalculatesLast
  <2>1. i + 1 = Len(plan)
    BY <1>1 DEF GoodPlan, CalculatesLast
  <2>. QED  BY <2>1
<1>7. AnnouncesChanges(after)
  <2>. SUFFICES ASSUME NEW i \in 1..Len(after), after[i] \in Changes
                PROVE  AnnouncesAfter(after, i)
    BY DEF AnnouncesChanges
  <2>1. AnnouncesAfter(plan, i + 1)
    BY <1>1 DEF GoodPlan, AnnouncesChanges
  <2>2. PICK j \in i+2..Len(plan) : plan[j] = "announce"
    BY <2>1 DEF AnnouncesAfter
  <2>3. j - 1 \in i+1..Len(after) /\ after[j - 1] = plan[(j - 1) + 1] /\ (j - 1) + 1 = j
    BY <1>1
  <2>. QED  BY <2>2, <2>3 DEF AnnouncesAfter
<1>8. SecondWord(after)
  BY <1>4 DEF SecondWord, First
<1>9. ASSUME NEW word, Left(after, word)  PROVE Left(plan, word) /\ word # plan[1]
  <2>1. PICK i \in 1..Len(after) : after[i] = word
    BY <1>9 DEF Left
  <2>2. plan[i + 1] = word /\ i + 1 \in 1..Len(plan) /\ i + 1 # 1
    BY <1>1, <2>1
  <2>3. plan[i + 1] # plan[1]
    BY <1>2, <2>2 DEF GoodPlan, NoWordTwice
  <2>. QED  BY <2>2, <2>3 DEF Left
<1>10. ASSUME NEW word, Left(plan, word), word # plan[1]  PROVE Left(after, word)
  <2>1. PICK i \in 1..Len(plan) : plan[i] = word
    BY <1>10 DEF Left
  <2>2. i - 1 \in 1..Len(after) /\ after[i - 1] = plan[(i - 1) + 1] /\ (i - 1) + 1 = i
    BY <1>1, <1>10, <2>1
  <2>. QED  BY <2>1, <2>2 DEF Left
<1>. QED  BY <1>3, <1>5, <1>6, <1>7, <1>8, <1>9, <1>10 DEF GoodPlan

\* When a word has been done, the others are left.
LEMMA TailPlan ==
    ASSUME NEW plan \in Seq(Words), plan # <<>>, GoodPlan(plan)
    PROVE  /\ GoodPlan(Tail(plan))
           /\ \A word : Left(Tail(plan), word) <=> Left(plan, word) /\ word # Head(plan)
<1>1. PICK after : after = Tail(plan)
  OBVIOUS
<1>2. /\ Len(plan) \in Nat /\ Len(plan) >= 1 /\ Len(after) = Len(plan) - 1
      /\ \A i \in 1..Len(plan)-1 : after[i] = plan[i + 1]
      /\ Head(plan) = plan[1]
  BY <1>1, PlanHead
<1>3. /\ GoodPlan(after)
      /\ \A word : Left(after, word) <=> Left(plan, word) /\ word # plan[1]
  BY <1>2, ShiftedPlan
<1>. QED  BY <1>1, <1>2, <1>3

\* A word replaced by the one that goes on with the same: the insertion after the test,
\* the collection after the iterator is made, and the use of what is collected.
LEMMA NextPlan ==
    ASSUME NEW plan, NEW next, Len(plan) \in Nat, Len(plan) >= 1, Len(next) = Len(plan),
           \A i \in 2..Len(plan) : next[i] = plan[i], GoodPlan(plan),
           \/ plan[1] = "ensure" /\ next[1] = "insert"
           \/ plan[1] = "iterate" /\ next[1] = "collect"
           \/ plan[1] = "collect" /\ next[1] = "use"
    PROVE  /\ GoodPlan(next)
           /\ \A word : Left(next, word) <=>
                           word = next[1] \/ (Left(plan, word) /\ word # plan[1])
<1>1. 1 \in 1..Len(plan) /\ \A i \in 2..Len(plan) : i \in 1..Len(plan) /\ i # 1
  OBVIOUS
<1>2. \A i \in 1..Len(plan) : i = 1 \/ i \in 2..Len(plan)
  OBVIOUS
<1>3. \A i \in 2..Len(plan) : next[i] \notin First /\ next[i] # next[1]
  BY DEF GoodPlan, StartsOnce, First
<1>4. NoWordTwice(next)
  <2>. SUFFICES ASSUME NEW i \in 1..Len(next), NEW j \in 1..Len(next), next[i] = next[j]
                PROVE  i = j
    BY DEF NoWordTwice
  <2>1. CASE i = 1 \/ j = 1
    BY <1>2, <1>3, <2>1
  <2>2. CASE i \in 2..Len(plan) /\ j \in 2..Len(plan)
    <3>1. plan[i] = plan[j]
      BY <2>2
    <3>. QED  BY <1>1, <2>2, <3>1 DEF GoodPlan, NoWordTwice
  <2>. QED  BY <1>2, <2>1, <2>2
<1>5. StartsOnce(next)
  BY <1>3 DEF StartsOnce
<1>6. next[1] \in Calculating => plan[1] \in Calculating
  BY DEF Calculating
<1>7. CalculatesLast(next)
  BY <1>1, <1>2, <1>6 DEF GoodPlan, CalculatesLast
<1>8. AnnouncesChanges(next)
  <2>. SUFFICES ASSUME NEW i \in 1..Len(next), next[i] \in Changes
                PROVE  AnnouncesAfter(next, i)
    BY DEF AnnouncesChanges
  <2>1. i \in 2..Len(plan)
    BY <1>2 DEF Changes, Fields
  <2>2. AnnouncesAfter(plan, i)
    BY <1>1, <2>1 DEF GoodPlan, AnnouncesChanges
  <2>3. PICK j \in i+1..Len(plan) : plan[j] = "announce"
    BY <2>2 DEF AnnouncesAfter
  <2>4. j \in i+1..Len(next) /\ next[j] = "announce"
    BY <2>1, <2>3
  <2>. QED  BY <2>4 DEF AnnouncesAfter
<1>9. SecondWord(next)
  <2>1. Len(plan) > 1 => next[2] = plan[2]
    OBVIOUS
  <2>. QED  BY <2>1 DEF GoodPlan, SecondWord
<1>10. ASSUME NEW word, Left(next, word), word # next[1]
       PROVE  Left(plan, word) /\ word # plan[1]
  <2>1. PICK i \in 2..Len(plan) : plan[i] = word
    BY <1>2, <1>10 DEF Left
  <2>2. plan[i] # plan[1]
    BY <1>1, <2>1 DEF GoodPlan, NoWordTwice
  <2>. QED  BY <1>1, <2>1, <2>2 DEF Left
<1>11. ASSUME NEW word, Left(plan, word), word # plan[1]  PROVE Left(next, word)
  BY <1>1, <1>2, <1>11 DEF Left
<1>12. Left(next, next[1])
  BY <1>1 DEF Left
<1>13. \A word : Left(next, word) <=> word = next[1] \/ (Left(plan, word) /\ word # plan[1])
  BY <1>10, <1>11, <1>12
<1>. QED  BY <1>4, <1>5, <1>7, <1>8, <1>9, <1>13 DEF GoodPlan

\* The plan that goes on after a test, an iterator made, or a collection.
LEMMA ReplacedPlan ==
    ASSUME NEW plan \in Seq(Words), plan # <<>>, GoodPlan(plan), NEW word,
           \/ Head(plan) = "ensure" /\ word = "insert"
           \/ Head(plan) = "iterate" /\ word = "collect"
           \/ Head(plan) = "collect" /\ word = "use"
    PROVE  LET next == <<word>> \o Tail(plan) IN
           /\ next \in Seq(Words) /\ GoodPlan(next) /\ next # <<>> /\ Head(next) = word
           /\ Len(next) = Len(plan)
           /\ \A w : Left(next, w) <=> w = word \/ (Left(plan, w) /\ w # Head(plan))
<1>1. PICK next : next = <<word>> \o Tail(plan)
  OBVIOUS
<1>2. /\ Len(plan) \in Nat /\ Len(plan) >= 1 /\ Head(plan) = plan[1]
      /\ Tail(plan) \in Seq(Words) /\ Len(Tail(plan)) = Len(plan) - 1
      /\ \A i \in 1..Len(plan)-1 : Tail(plan)[i] = plan[i + 1]
  BY PlanHead
<1>3. <<word>> \in Seq(Words) /\ Len(<<word>>) = 1 /\ <<word>>[1] = word
  BY DEF Words
<1>4. /\ next \in Seq(Words) /\ Len(next) = Len(plan) /\ next[1] = word
      /\ \A i \in 2..Len(plan) : next[i] = plan[i]
  <2>1. /\ next \in Seq(Words) /\ Len(next) = Len(<<word>>) + Len(Tail(plan))
        /\ \A i \in 1..Len(<<word>>) + Len(Tail(plan)) :
              next[i] = IF i <= Len(<<word>>) THEN <<word>>[i] ELSE Tail(plan)[i - Len(<<word>>)]
    BY <1>1, <1>2, <1>3, ConcatProperties
  <2>2. Len(next) = Len(plan)
    BY <1>2, <1>3, <2>1
  <2>3. next[1] = word
    BY <1>2, <1>3, <2>1
  <2>4. ASSUME NEW i \in 2..Len(plan)  PROVE next[i] = plan[i]
    <3>1. next[i] = Tail(plan)[i - 1] /\ i - 1 \in 1..Len(plan)-1 /\ (i - 1) + 1 = i
      BY <1>2, <1>3, <2>1
    <3>. QED  BY <1>2, <3>1
  <2>. QED  BY <2>1, <2>2, <2>3, <2>4
<1>5. next # <<>> /\ Head(next) = word
  BY <1>2, <1>4, EmptySeq
<1>6. /\ GoodPlan(next)
      /\ \A w : Left(next, w) <=> w = next[1] \/ (Left(plan, w) /\ w # plan[1])
  BY <1>2, <1>4, NextPlan
<1>. QED  BY <1>1, <1>2, <1>4, <1>5, <1>6

--------------------------------------------------------------------------------
(* Frames.                                                                    *)

\* A frame of a program in which k objects have been created.
FrameOf(k) ==
    [plan : Seq(Words), node : Id \cup {None}, value : Value \cup {None}, size : Nat,
     seen : SUBSET Id, usable : SUBSET (Id \X (1..k)), used : SUBSET (Id \X Known)]

\* The frames in the type invariant.
LEMMA FrameIs == Frame = FrameOf(Len(object))
  BY DEF Frame, FrameOf

\* The frame of no method.
LEMMA IdleIs ==
    /\ \A k \in Nat : Idle \in FrameOf(k)
    /\ GoodPlan(Idle.plan) /\ Arguments(Idle) /\ Idle.plan = <<>> /\ Idle.node = None
    /\ Idle.seen = {}
  BY NoPlan, EmptySeq DEF Idle, FrameOf, Arguments

\* What is known of the frames.
GoodFrame(f) == GoodPlan(f.plan) /\ Arguments(f)
FramesInv == frame \in [Thread -> Frame] /\ PlansInv

\* Frames of the steps: the head of the plan is what the thread does.
LEMMA AtHead ==
    ASSUME FramesInv, NEW t \in Thread, NEW word, At(t, word)
    PROVE  LET f == frame[t] IN
           /\ f.plan \in Seq(Words) /\ f.plan # <<>> /\ Head(f.plan) = word /\ word \in Words
           /\ Len(f.plan) \in Nat /\ Len(f.plan) >= 1 /\ f.plan[1] = word
           /\ Left(f.plan, word) /\ GoodPlan(f.plan) /\ Arguments(f)
           /\ f.node \in Id \cup {None} /\ f.value \in Value \cup {None}
           /\ word \notin Calculating => f.node \in Id
           /\ word \in {"depth", "range"} => f.value \in Value
           /\ word \in Calculating => Len(f.plan) = 1
           /\ word \in Changes => Left(f.plan, "announce")
<1>1. /\ frame[t].plan \in Seq(Words) /\ frame[t].plan # <<>> /\ Head(frame[t].plan) = word
      /\ frame[t].node \in Id \cup {None} /\ frame[t].value \in Value \cup {None}
      /\ GoodPlan(frame[t].plan) /\ Arguments(frame[t])
  BY DEF FramesInv, PlansInv, At, Frame
<1>2. /\ Len(frame[t].plan) \in Nat /\ Len(frame[t].plan) >= 1 /\ frame[t].plan[1] = word
      /\ word \in Words /\ Left(frame[t].plan, word) /\ 1 \in 1..Len(frame[t].plan)
  BY <1>1, PlanHead
<1>3. word \notin Calculating => frame[t].node \in Id
  BY <1>1, <1>2 DEF Arguments
<1>4. word \in {"depth", "range"} => frame[t].value \in Value
  BY <1>1, <1>2 DEF Arguments
<1>5. word \in Calculating => Len(frame[t].plan) = 1
  BY <1>1, <1>2 DEF GoodPlan, CalculatesLast
<1>6. word \in Changes => Left(frame[t].plan, "announce")
  <2>1. word \in Changes => AnnouncesAfter(frame[t].plan, 1)
    BY <1>1, <1>2 DEF GoodPlan, AnnouncesChanges
  <2>. QED  BY <1>2, <2>1 DEF AnnouncesAfter, Left
<1>. QED  BY <1>1, <1>2, <1>3, <1>4, <1>5, <1>6

\* One thread goes on; the others find at least the objects that were there.
LEMMA OneFrame ==
    ASSUME FramesInv, NEW t \in Thread, NEW g \in Frame, GoodFrame(g),
           frame' = [frame EXCEPT ![t] = g],
           Len(object) \in Nat, Len(object') \in Nat, Len(object) <= Len(object')
    PROVE  FramesInv' /\ frame'[t] = g /\ \A u \in Thread : u # t => frame'[u] = frame[u]
<1>1. Frame \subseteq Frame'
  BY DEF Frame
<1>2. /\ frame' \in [Thread -> Frame] /\ frame'[t] = g
      /\ \A u \in Thread : u # t => frame'[u] = frame[u]
  BY DEF FramesInv
<1>3. frame' \in [Thread -> Frame']
  BY <1>1, <1>2
<1>4. PlansInv'
  BY <1>2 DEF FramesInv, PlansInv, GoodFrame
<1>. QED  BY <1>2, <1>3, <1>4 DEF FramesInv

\* The method goes on: what it has done is not left.
GoneOn(f, g) ==
    /\ \A word : Left(g.plan, word) <=> Left(f.plan, word) /\ word # Head(f.plan)
    /\ g = Idle \/ g = [f EXCEPT !.plan = Tail(f.plan)]

\* Continue drops the word that has been done, and returns after the last one.
LEMMA ContinueIs ==
    ASSUME FramesInv, NEW t \in Thread, frame[t].plan # <<>>, Continue(t), Len(object) \in Nat
    PROVE  \E g \in Frame : /\ GoodFrame(g) /\ frame' = [frame EXCEPT ![t] = g]
                            /\ GoneOn(frame[t], g)
<1>. DEFINE f == frame[t]
<1>1. /\ f \in Frame /\ f.plan \in Seq(Words) /\ GoodPlan(f.plan) /\ Arguments(f)
  BY DEF FramesInv, PlansInv, Frame
<1>2. /\ Len(f.plan) \in Nat /\ Len(f.plan) >= 1 /\ 1 \in 1..Len(f.plan)
      /\ Tail(f.plan) \in Seq(Words) /\ Len(Tail(f.plan)) = Len(f.plan) - 1
      /\ GoodPlan(Tail(f.plan))
      /\ \A word : Left(Tail(f.plan), word) <=> Left(f.plan, word) /\ word # Head(f.plan)
  BY <1>1, PlanHead, TailPlan
<1>3. CASE Len(f.plan) = 1
  <2>1. \A word : ~Left(Tail(f.plan), word)
    BY <1>2, <1>3 DEF Left
  <2>2. \A word : ~Left(Idle.plan, word)
    BY IdleIs, NoPlan
  <2>3. GoneOn(f, Idle)
    BY <1>2, <2>1, <2>2 DEF GoneOn
  <2>. QED  BY <1>3, <2>3, IdleIs, FrameIs DEF Continue, Return, GoodFrame
<1>4. CASE Len(f.plan) # 1
  <2>. DEFINE g == [f EXCEPT !.plan = Tail(f.plan)]
  <2>1. frame' = [frame EXCEPT ![t] = g]
    BY <1>4 DEF Continue, Goto
  <2>2. g \in Frame /\ g.plan = Tail(f.plan) /\ g.node = f.node /\ g.value = f.value /\ g.seen = f.seen
    BY <1>1, <1>2 DEF Frame
  <2>3. \A i \in 1..Len(g.plan) : Left(f.plan, g.plan[i])
    BY <1>2, <2>2 DEF Left
  <2>4. f.node = None => \A i \in 1..Len(g.plan) : g.plan[i] \in Calculating
    BY <1>1, <2>3 DEF Arguments, Left
  <2>5. f.plan[1] \notin {"collect", "use"}
    BY <1>1, <1>2, <1>4 DEF GoodPlan, CalculatesLast, Calculating
  <2>6. Arguments(g)
    <3>1. Head(f.plan) = f.plan[1]
      BY <1>1, <1>2, PlanHead
    <3>. QED  BY <1>1, <1>2, <2>2, <2>4, <2>5, <3>1 DEF Arguments
  <2>. QED  BY <1>2, <2>1, <2>2, <2>6 DEF GoneOn, GoodFrame
<1>. QED  BY <1>3, <1>4

--------------------------------------------------------------------------------
(* Types, plans, and which nodes the UI thread works on.                      *)

SharedTypes ==
    /\ table \in [Id -> 1..Len(object) \cup {None}]
    /\ \A m, n \in Entries : table[m] = table[n] => m = n
    /\ object \in Seq(Known)
    /\ inferring \in BOOLEAN
    /\ reports \in 0..MaxReports /\ edits \in 0..MaxEdits
    /\ last \in [Id -> [report : Value \cup {None}, range : Value \cup {None}]]
    /\ dirty \in BOOLEAN

\* The type invariant, frames apart.
LEMMA TypeParts == TypeOK /\ PlansInv <=> SharedTypes /\ FramesInv
  BY DEF TypeOK, SharedTypes, FramesInv

\* None is not an object, and not a number.
LEMMA NoneIsNone ==
    /\ None \notin Id /\ None \notin Nat /\ None \notin Value
    /\ MaxReports \in Nat /\ MaxEdits \in Nat /\ MinUsable \in Nat
    /\ \A k \in Nat : None \notin 1..k
  BY ConstantsAssumption DEF Value

\* The plans that the methods start with.
LEMMA MethodIs ==
    /\ Report \in Seq(Words) /\ GoodPlan(Report) /\ Report # <<>>
    /\ \A w : Left(Report, w) <=> w \in {"ensure", "position", "depth", "seen", "announce"}
    /\ Head(Report) = "ensure"
    /\ Response \in Seq(Words) /\ GoodPlan(Response) /\ Response # <<>>
    /\ \A w : /\ w \in {"ensure", "range", "seen", "announce"} => Left(Response, w)
              /\ Left(Response, w) => w \in {"ensure", "range", "seen", "announce", "iterate"}
    /\ Head(Response) = "ensure"
    /\ \A op \in Ops : /\ Method(op) \in Seq(Words) /\ GoodPlan(Method(op)) /\ Method(op) # <<>>
                       /\ op # "set_depth" => ~Left(Method(op), "depth")
                       /\ ~Left(Method(op), "range")
                       /\ ~Left(Method(op), "collect") /\ ~Left(Method(op), "use")
                       /\ op = "calculate" => Method(op) = <<"iterate">>
<1>. USE DEF GoodPlan, StartsOnce, NoWordTwice, CalculatesLast, AnnouncesChanges, AnnouncesAfter,
            SecondWord, Left, First, Calculating, Changes, Fields, Words
<1>1. /\ Report \in Seq(Words) /\ GoodPlan(Report) /\ Report # <<>>
      /\ Head(Report) = "ensure"
  BY DEF Report
<1>2. \A w : Left(Report, w) <=> w \in {"ensure", "position", "depth", "seen", "announce"}
  BY DEF Report
<1>3. /\ Response \in Seq(Words) /\ Response[1] = "ensure" /\ Response[2] = "range"
      /\ Response[3] = "seen" /\ Response[4] = "announce"
      /\ Len(Response) = 4 \/ (Len(Response) = 5 /\ Response[5] = "iterate")
  <2>1. PICK s1, s2 : s1 = <<"ensure", "range", "seen", "announce">> /\ s2 = Infer
    OBVIOUS
  <2>2. /\ s1 \in Seq(Words) /\ Len(s1) = 4 /\ s1[1] = "ensure" /\ s1[2] = "range"
        /\ s1[3] = "seen" /\ s1[4] = "announce"
    BY <2>1
  <2>3. s2 = <<>> \/ s2 = <<"iterate">>
    BY <2>1, Zenon DEF Infer
  <2>4. s2 \in Seq(Words) /\ (Len(s2) = 0 \/ (Len(s2) = 1 /\ s2[1] = "iterate"))
    <3>1. CASE s2 = <<>>
      BY <3>1, EmptySeq
    <3>2. CASE s2 = <<"iterate">>
      <4>1. <<"iterate">> \in Seq(Words) /\ Len(<<"iterate">>) = 1 /\ <<"iterate">>[1] = "iterate"
        OBVIOUS
      <4>. QED  BY <3>2, <4>1
    <3>. QED  BY <2>3, <3>1, <3>2
  <2>5. /\ s1 \o s2 \in Seq(Words) /\ Len(s1 \o s2) = Len(s1) + Len(s2)
        /\ \A i \in 1..Len(s1) + Len(s2) :
              (s1 \o s2)[i] = IF i <= Len(s1) THEN s1[i] ELSE s2[i - Len(s1)]
    BY <2>2, <2>4, ConcatProperties
  <2>6. Response = s1 \o s2
    BY <2>1 DEF Response
  <2>. QED  BY SMTT(30), <2>2, <2>4, <2>5, <2>6
<1>4. PICK p : p = Response
  OBVIOUS
<1>5. /\ Response # <<>> /\ Head(Response) = "ensure"
  BY <1>3, EmptySeq
<1>7. /\ GoodPlan(p)
      /\ \A w : /\ w \in {"ensure", "range", "seen", "announce"} => Left(p, w)
                /\ Left(p, w) => w \in {"ensure", "range", "seen", "announce", "iterate"}
  <2>1. CASE Len(p) = 5
    <3>1. \A i : i \in 1..Len(p) <=> i \in {1, 2, 3, 4, 5}
      BY <2>1
    <3>. QED  BY <1>3, <1>4, <2>1, <3>1
  <2>2. CASE Len(p) = 4
    <3>1. \A i : i \in 1..Len(p) <=> i \in {1, 2, 3, 4}
      BY <2>2
    <3>. QED  BY <1>3, <1>4, <2>2, <3>1
  <2>. QED  BY <1>3, <1>4, <2>1, <2>2
<1>6. ASSUME NEW op \in Ops
      PROVE  /\ Method(op) \in Seq(Words) /\ GoodPlan(Method(op)) /\ Method(op) # <<>>
             /\ op # "set_depth" => ~Left(Method(op), "depth")
             /\ ~Left(Method(op), "range")
             /\ ~Left(Method(op), "collect") /\ ~Left(Method(op), "use")
             /\ op = "calculate" => Method(op) = <<"iterate">>
  <2>1. CASE op = "set_position"
    BY <2>1 DEF Method
  <2>2. CASE op = "set_depth"
    BY <2>2 DEF Method
  <2>3. CASE op = "delete"
    BY <2>3 DEF Method
  <2>4. CASE op = "request_range"
    BY <2>4 DEF Method
  <2>5. CASE op = "calculate"
    BY <2>5 DEF Method
  <2>. QED  BY <2>1, <2>2, <2>3, <2>4, <2>5 DEF Ops
<1>. QED  BY <1>1, <1>2, <1>3, <1>4, <1>5, <1>6, <1>7

\* The frame of a method just called.
Begun(plan, n, v) == [Idle EXCEPT !.plan = plan, !.node = n, !.value = v]

\* A method is called: a good plan with its arguments.
LEMMA CallIs ==
    ASSUME FramesInv, NEW t \in Thread, NEW plan \in Seq(Words), GoodPlan(plan),
           NEW n \in Id \cup {None}, NEW v \in Value \cup {None}, Call(t, plan, n, v),
           ~Left(plan, "collect"), ~Left(plan, "use"),
           n = None => plan = <<"iterate">>,
           v = None => ~Left(plan, "depth") /\ ~Left(plan, "range"),
           Len(object) \in Nat
    PROVE  \E g \in Frame :
              /\ GoodFrame(g) /\ frame' = [frame EXCEPT ![t] = g]
              /\ g = Begun(plan, n, v)
<1>. USE DEF Begun
<1>. DEFINE g == Begun(plan, n, v)
<1>1. frame[t] = Idle /\ frame \in [Thread -> Frame]
  BY DEF Call, FramesInv
<1>2. frame' = [frame EXCEPT ![t] = g]
  <2>1. frame' = [frame EXCEPT ![t].plan = plan, ![t].node = n, ![t].value = v]
    BY DEF Call
  <2>2. frame' = [frame EXCEPT ![t] = [frame[t] EXCEPT !.plan = plan, !.node = n, !.value = v]]
    BY <1>1, <2>1
  <2>. QED  BY <1>1, <2>2
<1>3. g \in Frame /\ g.plan = plan /\ g.node = n /\ g.value = v /\ g.seen = {}
  BY IdleIs, FrameIs DEF Idle, Frame
<1>4. Arguments(g)
  <2>1. Len(<<"iterate">>) = 1 /\ <<"iterate">>[1] = "iterate"
    OBVIOUS
  <2>. QED  BY <1>3, <2>1 DEF Arguments, Calculating
<1>. QED  BY <1>2, <1>3, <1>4 DEF GoodFrame

\* The thread has still a word more, or another one, to do.
Replaced(f, g, word) ==
    /\ g.plan # <<>> /\ Head(g.plan) = word
    /\ \A w : Left(g.plan, w) <=> w = word \/ (Left(f.plan, w) /\ w # Head(f.plan))
    /\ g.node = f.node /\ g.value = f.value
    /\ g.seen = f.seen /\ g.usable = f.usable /\ g.used = f.used

\* The frame with another word at the head of its plan.
LEMMA ReplaceIs ==
    ASSUME FramesInv, NEW t \in Thread, NEW word, frame[t].plan # <<>>,
           \/ Head(frame[t].plan) = "ensure" /\ word = "insert"
           \/ Head(frame[t].plan) = "iterate" /\ word = "collect"
           \/ Head(frame[t].plan) = "collect" /\ word = "use",
           NEW size \in Nat, Len(object) \in Nat
    PROVE  LET g == [frame[t] EXCEPT !.plan = <<word>> \o Tail(frame[t].plan), !.size = size] IN
           g \in Frame /\ GoodFrame(g) /\ Replaced(frame[t], g, word)
<1>. DEFINE f == frame[t]
            g == [f EXCEPT !.plan = <<word>> \o Tail(f.plan), !.size = size]
<1>1. f \in Frame /\ f.plan \in Seq(Words) /\ GoodPlan(f.plan) /\ Arguments(f)
  BY DEF FramesInv, PlansInv, Frame
<1>2. PICK next : next = <<word>> \o Tail(f.plan)
  OBVIOUS
<1>3. /\ next \in Seq(Words) /\ GoodPlan(next) /\ next # <<>> /\ Head(next) = word
      /\ Len(next) = Len(f.plan)
      /\ \A w : Left(next, w) <=> w = word \/ (Left(f.plan, w) /\ w # Head(f.plan))
  BY <1>1, <1>2, ReplacedPlan
<1>4. /\ g \in Frame /\ g.plan = next /\ g.node = f.node /\ g.value = f.value
      /\ g.seen = f.seen /\ g.usable = f.usable /\ g.used = f.used
  BY <1>1, <1>2, <1>3 DEF Frame
<1>5. /\ 1 \in 1..Len(f.plan) /\ Head(f.plan) = f.plan[1] /\ Len(f.plan) \in Nat
      /\ Left(f.plan, Head(f.plan))
  BY <1>1, PlanHead
<1>6. \A i \in 1..Len(next) : Left(next, next[i])
  BY DEF Left
<1>7. f.node = None => Head(f.plan) \in Calculating
  BY <1>1, <1>5 DEF Arguments
<1>8. f.node = None => \A i \in 1..Len(next) : next[i] \in Calculating
  BY <1>1, <1>3, <1>6, <1>7 DEF Arguments, Left, Calculating
<1>9. Left(next, "collect") \/ Left(next, "use") \/ f.seen = {}
  BY <1>1, <1>3, <1>5 DEF Arguments
<1>10. Arguments(g)
  BY <1>1, <1>3, <1>4, <1>8, <1>9 DEF Arguments
<1>. QED  BY <1>3, <1>4, <1>10 DEF GoodFrame, Replaced

\* The method stays where it is.
Gathers(f, g) == g.plan = f.plan /\ g.node = f.node /\ g.value = f.value

\* The frame after a step, by the action that took it: raised or done (Idle), gone on, or
\* with another word at its head; Collect and Use gather entries and stay where they are.
LEMMA StepFrame ==
    ASSUME TypeOK, PlansInv, NEW t \in Thread, Step(t)
    PROVE  \E g \in Frame :
              LET f == frame[t] IN
              /\ GoodFrame(g) /\ frame' = [frame EXCEPT ![t] = g]
              /\ f.plan # <<>>
              /\ \/ g = Idle
                 \/ GoneOn(f, g)
                 \/ Replaced(f, g, "insert") /\ Ensure(t) /\ table[Node(t)] = None
                 \/ Replaced(f, g, "collect") /\ Iterate(t)
                 \/ Replaced(f, g, "use") /\ Collected(t)
                 \/ Gathers(f, g) /\ (Collect(t) \/ Use(t))
              /\ Insert(t) \/ Announce(t) => GoneOn(f, g)
              /\ Ensure(t) /\ table[Node(t)] # None => GoneOn(f, g)
              /\ Ensure(t) /\ table[Node(t)] = None => Replaced(f, g, "insert")
              /\ Store(t) \/ Delete(t) =>
                    IF table[Node(t)] = None THEN g = Idle ELSE GoneOn(f, g)
<1>. DEFINE f == frame[t]
<1>0. FramesInv /\ Len(object) \in Nat /\ object \in Seq(Known) /\ f \in Frame
  BY TypeParts DEF TypeOK, FramesInv
<1>1. f.plan # <<>>
  BY DEF Step, Ensure, Insert, Store, Delete, Announce, Iterate, Collect, Collected, Use, Assign,
         At
<1>2. Idle \in Frame /\ GoodFrame(Idle)
  BY <1>0, IdleIs, FrameIs DEF GoodFrame
<1>3. Continue(t) => \E g \in Frame : /\ GoodFrame(g) /\ frame' = [frame EXCEPT ![t] = g]
                                      /\ GoneOn(f, g)
  BY <1>0, <1>1, ContinueIs
<1>4. Return(t) => frame' = [frame EXCEPT ![t] = Idle]
  BY DEF Return
<1>5. \A w1, w2 : At(t, w1) /\ At(t, w2) => w1 = w2
  BY DEF At
<1>. USE DEF At
<1>6. CASE Ensure(t)
  <2>0. /\ ~Insert(t) /\ ~Announce(t) /\ ~Store(t) /\ ~Delete(t)
        /\ Head(f.plan) = "ensure"
    BY <1>6, <1>5 DEF Ensure, Insert, Announce, Store, Delete
  <2>1. CASE table[Node(t)] = None
    <3>. DEFINE g == [f EXCEPT !.plan = <<"insert">> \o Tail(f.plan), !.size = f.size]
    <3>1. f.size \in Nat
      BY <1>0 DEF Frame
    <3>2. g \in Frame /\ GoodFrame(g) /\ Replaced(f, g, "insert")
      BY <1>0, <1>1, <2>0, <3>1, ReplaceIs
    <3>3. frame' = [frame EXCEPT ![t].plan = <<"insert">> \o Tail(f.plan)]
      BY <1>6, <2>1 DEF Ensure, Goto
    <3>4. [f EXCEPT !.plan = <<"insert">> \o Tail(f.plan)] = g
      BY <1>0 DEF Frame
    <3>5. frame' = [frame EXCEPT ![t] = g]
      BY <3>3, <3>4
    <3>. HIDE DEF g
    <3>. QED  BY <1>1, <1>6, <2>0, <2>1, <3>2, <3>5
  <2>2. CASE table[Node(t)] # None
    <3>1. Continue(t)
      BY <1>6, <2>2 DEF Ensure
    <3>. QED  BY <1>1, <1>3, <2>0, <2>2, <3>1
  <2>. QED  BY <2>1, <2>2
<1>7. CASE Insert(t) \/ Announce(t)
  <2>1. Continue(t) /\ ~Ensure(t) /\ ~Store(t) /\ ~Delete(t)
    BY <1>5, <1>7 DEF Ensure, Insert, Announce, Store, Delete
  <2>. QED  BY <1>1, <1>3, <2>1
<1>8. CASE Store(t) \/ Delete(t)
  <2>1. ~Ensure(t) /\ ~Insert(t) /\ ~Announce(t)
    BY <1>5, <1>8 DEF Ensure, Insert, Announce, Store, Delete
  <2>2. IF table[Node(t)] = None THEN Return(t) ELSE Continue(t)
    BY <1>8 DEF Store, Delete
  <2>. QED  BY <1>1, <1>2, <1>3, <1>4, <2>1, <2>2
<1>9. CASE Iterate(t)
  <2>0. /\ ~Ensure(t) /\ ~Insert(t) /\ ~Announce(t) /\ ~Store(t) /\ ~Delete(t)
        /\ Head(f.plan) = "iterate"
    BY <1>9, <1>5 DEF Ensure, Insert, Announce, Store, Delete, Iterate
  <2>1. Cardinality(Entries) \in Nat
    BY ConstantsAssumption, FS_Subset, FS_CardinalityType DEF Entries
  <2>. DEFINE size == Cardinality(Entries)
              g == [f EXCEPT !.plan = <<"collect">> \o Tail(f.plan), !.size = size]
  <2>2. g \in Frame /\ GoodFrame(g) /\ Replaced(f, g, "collect")
    BY <1>0, <1>1, <2>0, <2>1, ReplaceIs
  <2>3. frame' = [frame EXCEPT ![t].plan = <<"collect">> \o Tail(@), ![t].size = Cardinality(Entries)]
    BY <1>9 DEF Iterate
  <2>4. frame' = [frame EXCEPT ![t] = g]
    BY <1>0, <2>3 DEF FramesInv, Frame
  <2>. HIDE DEF g
  <2>. QED  BY <1>1, <1>9, <2>0, <2>2, <2>4
<1>10. CASE Collect(t)
  <2>0. /\ ~Ensure(t) /\ ~Insert(t) /\ ~Announce(t) /\ ~Store(t) /\ ~Delete(t)
        /\ Head(f.plan) = "collect"
    BY <1>10, <1>5 DEF Ensure, Insert, Announce, Store, Delete, Collect
  <2>1. CASE Return(t)
    BY <1>1, <1>2, <1>4, <2>0, <2>1
  <2>2. CASE ~Return(t)
    <3>1. PICK n \in Entries \ f.seen :
             frame' = [frame EXCEPT
               ![t].seen = @ \cup {n},
               ![t].usable = IF Usable(object[table[n]]) THEN @ \cup {<<n, table[n]>>} ELSE @]
      BY <1>10, <2>2 DEF Collect
    <3>2. n \in Id /\ table[n] \in 1..Len(object)
      BY DEF Entries, TypeOK
    <3>3. PICK more \in {{}, {<<n, table[n]>>}} :
             frame' = [frame EXCEPT ![t].seen = @ \cup {n}, ![t].usable = @ \cup more]
      BY <3>1, Zenon
    <3>. DEFINE g == [f EXCEPT !.seen = @ \cup {n}, !.usable = @ \cup more]
    <3>4. frame' = [frame EXCEPT ![t] = g]
      BY <1>0, <3>3 DEF FramesInv, Frame
    <3>5. g \in Frame /\ g.plan = f.plan /\ g.node = f.node /\ g.value = f.value
      <4>1. f.seen \cup {n} \in SUBSET Id
        BY <1>0, <3>2 DEF Frame
      <4>2. f.usable \cup more \in SUBSET (Id \X (1..Len(object)))
        <5>1. <<n, table[n]>> \in Id \X (1..Len(object))
          BY <3>2
        <5>2. more \subseteq Id \X (1..Len(object))
          BY <5>1
        <5>. QED  BY <1>0, <5>2 DEF Frame
      <4>. QED  BY <1>0, <4>1, <4>2 DEF Frame
    <3>6. Left(f.plan, "collect")
      BY <1>0, <1>1, <2>0, PlanHead DEF Frame
    <3>7. GoodFrame(g)
      BY <1>0, <3>5, <3>6 DEF GoodFrame, Arguments, FramesInv, PlansInv
    <3>. HIDE DEF g
    <3>. QED  BY <1>1, <1>10, <2>0, <3>4, <3>5, <3>7 DEF Gathers
  <2>. QED  BY <2>1, <2>2
<1>11. CASE Collected(t)
  <2>0. /\ ~Ensure(t) /\ ~Insert(t) /\ ~Announce(t) /\ ~Store(t) /\ ~Delete(t)
        /\ Head(f.plan) = "collect"
    BY <1>11, <1>5 DEF Ensure, Insert, Announce, Store, Delete, Collected
  <2>1. CASE Continue(t)
    BY <1>1, <1>3, <2>0, <2>1
  <2>2. CASE Goto(t, <<"use">> \o Tail(f.plan))
    <3>. DEFINE g == [f EXCEPT !.plan = <<"use">> \o Tail(f.plan), !.size = f.size]
    <3>1. f.size \in Nat
      BY <1>0 DEF Frame
    <3>2. g \in Frame /\ GoodFrame(g) /\ Replaced(f, g, "use")
      BY <1>0, <1>1, <2>0, <3>1, ReplaceIs
    <3>3. [f EXCEPT !.plan = <<"use">> \o Tail(f.plan)] = g
      BY <1>0 DEF Frame
    <3>4. frame' = [frame EXCEPT ![t] = g]
      BY <2>2, <3>3 DEF Goto
    <3>. HIDE DEF g
    <3>. QED  BY <1>1, <1>11, <2>0, <3>2, <3>4
  <2>. QED  BY <1>11, <2>1, <2>2 DEF Collected
<1>12. CASE Use(t)
  <2>0. /\ ~Ensure(t) /\ ~Insert(t) /\ ~Announce(t) /\ ~Store(t) /\ ~Delete(t)
        /\ Head(f.plan) = "use"
    BY <1>12, <1>5 DEF Ensure, Insert, Announce, Store, Delete, Use
  <2>1. CASE Return(t)
    BY <1>1, <1>2, <1>4, <2>0, <2>1
  <2>2. CASE ~Return(t)
    <3>1. PICK entry \in f.usable :
             frame' = [frame EXCEPT ![t].usable = @ \ {entry},
                                    ![t].used = @ \cup {<<entry[1], object[entry[2]]>>}]
      BY <1>12, <2>2 DEF Use
    <3>2. <<entry[1], object[entry[2]]>> \in Id \X Known
      BY <1>0 DEF Frame
    <3>. DEFINE g == [f EXCEPT !.usable = @ \ {entry},
                               !.used = @ \cup {<<entry[1], object[entry[2]]>>}]
    <3>3. frame' = [frame EXCEPT ![t] = g]
      BY <1>0, <3>1 DEF FramesInv, Frame
    <3>4. /\ g \in Frame /\ g.plan = f.plan /\ g.node = f.node /\ g.value = f.value
          /\ g.seen = f.seen
      BY <1>0, <3>2 DEF Frame
    <3>5. GoodFrame(g)
      BY <1>0, <3>4 DEF GoodFrame, Arguments, FramesInv, PlansInv
    <3>. HIDE DEF g
    <3>. QED  BY <1>1, <1>12, <2>0, <3>3, <3>4, <3>5 DEF Gathers
  <2>. QED  BY <2>1, <2>2
<1>13. CASE Assign(t)
  <2>0. /\ ~Ensure(t) /\ ~Insert(t) /\ ~Announce(t) /\ ~Store(t) /\ ~Delete(t)
        /\ Continue(t)
    BY <1>13, <1>5 DEF Ensure, Insert, Announce, Store, Delete, Assign
  <2>. QED  BY <1>1, <1>3, <2>0
<1>. QED  BY <1>6, <1>7, <1>8, <1>9, <1>10, <1>11, <1>12, <1>13 DEF Step

\* A step leaves the entries of other nodes than the one that the thread works on.
LEMMA StepTables ==
    ASSUME TypeOK, PlansInv, NEW t \in Thread, Step(t)
    PROVE  /\ SharedTypes' /\ Len(object') \in Nat /\ Len(object) <= Len(object')
           /\ UNCHANGED <<inferring, reports, edits, last>>
           /\ \A n \in Id : n # Node(t) =>
                 /\ table'[n] = table[n]
                 /\ table[n] # None => object'[table[n]] = object[table[n]]
<1>0. /\ SharedTypes /\ FramesInv /\ Len(object) \in Nat /\ None \notin 1..Len(object)
      /\ None \notin 1..Len(object)+1
      /\ object \in Seq(Known) /\ \A i \in 1..Len(object) : object[i] \in Known
  BY TypeParts, NoneIsNone DEF TypeOK
<1>1. CASE UNCHANGED <<table, object, rest>> /\ dirty' \in BOOLEAN
  BY <1>0, <1>1 DEF SharedTypes, rest, Entries
<1>2. CASE Ensure(t) \/ Iterate(t) \/ Collect(t) \/ Collected(t) \/ Use(t) \/ Assign(t) \/ Announce(t)
  <2>1. UNCHANGED <<table, object, rest>> /\ (dirty' = dirty \/ dirty' = FALSE)
    BY <1>2 DEF Ensure, Iterate, Collect, Collected, Use, Assign, Announce
  <2>. QED  BY <1>0, <1>1, <2>1 DEF SharedTypes
<1>3. CASE Insert(t)
  <2>1. Node(t) \in Id /\ Len(frame[t].plan) \in Nat
    BY <1>0, <1>3, AtHead DEF Insert, Node, Calculating
  <2>2. /\ object' = Append(object, New) /\ table' = [table EXCEPT ![Node(t)] = Len(object')]
        /\ dirty' = (dirty \/ Len(frame[t].plan) > 1) /\ UNCHANGED rest
    BY <1>3 DEF Insert
  <2>3. New \in Known
    BY NoneIsNone DEF New, Known, Value
  <2>4. /\ object' \in Seq(Known) /\ Len(object') = Len(object) + 1
        /\ \A i \in 1..Len(object) : object'[i] = object[i]
    BY <1>0, <2>2, <2>3
  <2>5. \A n \in Id : table'[n] = IF n = Node(t) THEN Len(object) + 1 ELSE table[n]
    BY <1>0, <2>2, <2>4 DEF SharedTypes
  <2>6. table' \in [Id -> 1..Len(object') \cup {None}]
    BY <1>0, <2>1, <2>2, <2>4 DEF SharedTypes
  <2>7. \A m, n \in Entries' : table'[m] = table'[n] => m = n
    BY <1>0, <2>1, <2>5 DEF SharedTypes, Entries
  <2>8. dirty' \in BOOLEAN
    BY <2>2, Zenon
  <2>. QED  BY <1>0, <2>2, <2>4, <2>5, <2>6, <2>7, <2>8 DEF SharedTypes, rest
<1>4. CASE Store(t)
  <2>1. PICK field \in Fields :
           /\ At(t, field)
           /\ IF table[Node(t)] = None
              THEN Return(t) /\ UNCHANGED <<object, dirty>>
              ELSE /\ object' = IF field = "seen" THEN object
                             ELSE [object EXCEPT ![table[Node(t)]][field] = frame[t].value]
                   /\ dirty' = TRUE
                   /\ Continue(t)
           /\ UNCHANGED <<table, rest>>
    BY <1>4 DEF Store, Fields
  <2>2. Node(t) \in Id /\ frame[t].value \in Value \cup {None}
        /\ (field \in {"depth", "range"} => frame[t].value \in Value)
    BY <1>0, <2>1, AtHead DEF Node, Calculating, Fields
  <2>3. CASE table[Node(t)] = None \/ field = "seen"
    BY <1>0, <1>1, <2>1, <2>3 DEF SharedTypes
  <2>4. CASE table[Node(t)] # None /\ field # "seen"
    <3>1. PICK i \in 1..Len(object) : i = table[Node(t)]
      BY <1>0, <2>2, <2>4 DEF SharedTypes
    <3>2. PICK known : known = [object[i] EXCEPT ![field] = frame[t].value]
      OBVIOUS
    <3>3. object' = [object EXCEPT ![i] = known]
      BY <2>1, <2>4, <3>1, <3>2
    <3>4. object[i] \in Known
      BY <1>0
    <3>5. known \in Known
      <4>1. CASE field = "position"
        BY <2>2, <3>2, <3>4, <4>1 DEF Known
      <4>2. CASE field = "depth"
        BY <2>2, <3>2, <3>4, <4>2 DEF Known
      <4>3. CASE field = "range"
        BY <2>2, <3>2, <3>4, <4>3 DEF Known
      <4>. QED  BY <2>4, <4>1, <4>2, <4>3 DEF Fields
    <3>6. /\ object' \in Seq(Known) /\ Len(object') = Len(object)
          /\ \A k \in 1..Len(object) : object'[k] = IF k = i THEN known ELSE object[k]
      BY <1>0, <3>3, <3>5, ExceptSeq
    <3>7. ASSUME NEW n \in Id, n # Node(t), table[n] # None
          PROVE  object'[table[n]] = object[table[n]]
      <4>1. table[n] # i /\ table[n] \in 1..Len(object)
        BY <1>0, <2>2, <2>4, <3>1, <3>7 DEF SharedTypes, Entries
      <4>. QED  BY <3>6, <4>1
    <3>. QED  BY <1>0, <2>1, <2>4, <3>6, <3>7 DEF SharedTypes, rest, Entries
  <2>. QED  BY <2>3, <2>4
<1>5. CASE Delete(t)
  <2>1. /\ table' = [table EXCEPT ![Node(t)] = None] /\ UNCHANGED <<object, rest>>
        /\ dirty' = dirty \/ dirty' = TRUE
    BY <1>5 DEF Delete
  <2>2. table' \in [Id -> 1..Len(object) \cup {None}]
    BY <1>0, <2>1 DEF SharedTypes
  <2>3. \A n \in Id : table'[n] = IF n = Node(t) THEN None ELSE table[n]
    BY <1>0, <2>1 DEF SharedTypes
  <2>4. \A m, n \in Entries' : table'[m] = table'[n] => m = n
    BY <1>0, <2>3 DEF SharedTypes, Entries
  <2>5. dirty' \in BOOLEAN
    BY <1>0, <2>1, Zenon DEF SharedTypes
  <2>6. SharedTypes'
    BY <1>0, <2>1, <2>2, <2>4, <2>5 DEF SharedTypes, rest
  <2>. QED  BY <1>0, <2>1, <2>3, <2>6 DEF rest
<1>. QED  BY <1>2, <1>3, <1>4, <1>5 DEF Step

\* Words that only start a plan are not left when a method has gone on, and no change of
\* a field follows an announcement.
LEMMA NothingFirst ==
    ASSUME NEW plan \in Seq(Words), GoodPlan(plan), plan # <<>>,
           NEW word, Left(plan, word), word # Head(plan)
    PROVE  word \notin First /\ (word \in Changes => Head(plan) # "announce")
<1>1. Len(plan) \in Nat /\ Len(plan) >= 1 /\ 1 \in 1..Len(plan) /\ Head(plan) = plan[1]
  BY PlanHead
<1>2. PICK i \in 1..Len(plan) : plan[i] = word
  BY DEF Left
<1>3. i \in 2..Len(plan)
  BY <1>1, <1>2
<1>4. word \notin First
  BY <1>2, <1>3 DEF GoodPlan, StartsOnce
<1>5. ASSUME word \in Changes, plan[1] = "announce"  PROVE FALSE
  <2>1. PICK j \in i+1..Len(plan) : plan[j] = "announce"
    BY <1>2, <1>5 DEF GoodPlan, AnnouncesChanges, AnnouncesAfter
  <2>2. j \in 1..Len(plan) /\ j # 1
    BY <1>3, <2>1
  <2>. QED  BY <1>1, <1>5, <2>1, <2>2 DEF GoodPlan, NoWordTwice
<1>. QED  BY <1>1, <1>4, <1>5

\* A frame that has gone on: its node and its value, and what is at its head.
LEMMA GoneOnIs ==
    ASSUME NEW f \in Frame, NEW g \in Frame, GoodPlan(f.plan), f.plan # <<>>, GoneOn(f, g)
    PROVE  /\ g = Idle \/ (g.node = f.node /\ g.value = f.value)
           /\ g.node # None => g.node = f.node
           /\ g.plan # <<>> => /\ g.node = f.node /\ g.value = f.value
                               /\ Left(g.plan, Head(g.plan)) /\ Head(g.plan) \notin First
                               /\ Head(g.plan) \in Changes => Head(f.plan) # "announce"
           /\ \A word : Left(g.plan, word) => g.plan # <<>>
<1>1. g = Idle \/ (g.node = f.node /\ g.value = f.value)
  BY DEF GoneOn, Frame
<1>2. g.plan \in Seq(Words) /\ f.plan \in Seq(Words)
  BY DEF Frame
<1>3. ASSUME g.plan # <<>>
      PROVE  /\ Left(g.plan, Head(g.plan)) /\ Head(g.plan) \notin First
             /\ Head(g.plan) \in Changes => Head(f.plan) # "announce"
  <2>1. Left(g.plan, Head(g.plan))
    BY <1>2, <1>3, PlanHead
  <2>2. Left(f.plan, Head(g.plan)) /\ Head(g.plan) # Head(f.plan)
    BY <2>1 DEF GoneOn
  <2>. QED  BY <1>2, <2>1, <2>2, NothingFirst
<1>4. \A word : Left(g.plan, word) => g.plan # <<>>
  BY NoPlan
<1>. QED  BY <1>1, <1>3, <1>4, IdleIs

\* A step: the frames after it, the types, and the plans.
LEMMA StepIs ==
    ASSUME TypeOK, PlansInv, NEW t \in Thread, Step(t)
    PROVE  /\ TypeOK' /\ PlansInv'
           /\ UNCHANGED <<inferring, reports, edits, last>>
           /\ \A n \in Id : n # Node(t) =>
                 /\ table'[n] = table[n]
                 /\ table[n] # None => object'[table[n]] = object[table[n]]
           /\ \A u \in Thread : u # t => frame'[u] = frame[u]
           /\ frame'[t].node # None => frame'[t].node = Node(t)
           /\ \A word : Left(frame'[t].plan, word) =>
                           Left(frame[t].plan, word) \/ word \in {"insert", "collect", "use"}
<1>1. PICK g \in Frame :
         /\ GoodFrame(g) /\ frame' = [frame EXCEPT ![t] = g]
         /\ frame[t].plan # <<>>
         /\ \/ g = Idle \/ GoneOn(frame[t], g) \/ Replaced(frame[t], g, "insert")
            \/ Replaced(frame[t], g, "collect") \/ Replaced(frame[t], g, "use")
            \/ Gathers(frame[t], g)
  BY StepFrame
<1>2. /\ SharedTypes' /\ Len(object') \in Nat /\ Len(object) <= Len(object')
      /\ UNCHANGED <<inferring, reports, edits, last>>
      /\ \A n \in Id : n # Node(t) =>
            /\ table'[n] = table[n]
            /\ table[n] # None => object'[table[n]] = object[table[n]]
  BY StepTables
<1>3. FramesInv /\ Len(object) \in Nat
  BY TypeParts DEF TypeOK
<1>4. FramesInv' /\ frame'[t] = g /\ \A u \in Thread : u # t => frame'[u] = frame[u]
  BY <1>1, <1>2, <1>3, OneFrame
<1>5. TypeOK' /\ PlansInv'
  BY <1>2, <1>4 DEF TypeOK, SharedTypes, FramesInv
<1>6. frame[t] \in Frame /\ GoodPlan(frame[t].plan)
  BY DEF TypeOK, PlansInv
<1>7. g.node # None => g.node = frame[t].node
  BY <1>1, <1>6, GoneOnIs, IdleIs DEF Replaced, Gathers
<1>8. \A word : Left(g.plan, word) =>
                   Left(frame[t].plan, word) \/ word \in {"insert", "collect", "use"}
  BY <1>1, IdleIs, NoPlan DEF GoneOn, Replaced, Gathers
<1>. QED  BY <1>2, <1>4, <1>5, <1>7, <1>8 DEF Node

Handled(n) == HandlePositionBroadcast(n) \/ HandleRoundtripResponse(n)

\* A report or a range has come: what the reader thread has to store.
LEMMA HandledIs ==
    ASSUME TypeOK, PlansInv, NEW n \in Id, Handled(n)
    PROVE  /\ TypeOK' /\ PlansInv'
           /\ UNCHANGED <<table, object, inferring, dirty>>
           /\ frame["reader"] = Idle /\ frame'["ui"] = frame["ui"]
           /\ frame'["reader"].node = n /\ frame'["reader"].value = reports'
           /\ Head(frame'["reader"].plan) = "ensure"
           /\ ~Left(frame'["reader"].plan, "delete")
           /\ \A m \in Id : m # n => last'[m] = last[m]
           /\ Busy(n) => last' = last
           /\ ~Busy(n) =>
                 \/ /\ last'[n] = [last[n] EXCEPT !.report = reports']
                    /\ Left(frame'["reader"].plan, "position") /\ Left(frame'["reader"].plan, "depth")
                    /\ ~Left(frame'["reader"].plan, "range")
                 \/ /\ last'[n] = [last[n] EXCEPT !.range = reports']
                    /\ Left(frame'["reader"].plan, "range")
                    /\ ~Left(frame'["reader"].plan, "position")
                    /\ ~Left(frame'["reader"].plan, "depth")
<1>1. FramesInv /\ Len(object) \in Nat /\ SharedTypes /\ "reader" \in Thread /\ "ui" \in Thread
  BY TypeParts DEF TypeOK, Thread
<1>2. PICK plan \in {Report, Response} :
         /\ Call("reader", plan, n, reports')
         /\ plan = Report =>
               last' = IF Busy(n) THEN last ELSE [last EXCEPT ![n].report = reports']
         /\ plan = Response =>
               last' = IF Busy(n) THEN last ELSE [last EXCEPT ![n].range = reports']
         /\ reports < MaxReports /\ reports' = reports + 1 /\ UNCHANGED edits
  <2>1. Report # Response
    BY MethodIs
  <2>2. CASE HandlePositionBroadcast(n)
    BY <2>1, <2>2 DEF HandlePositionBroadcast
  <2>3. CASE HandleRoundtripResponse(n)
    BY <2>1, <2>3 DEF HandleRoundtripResponse
  <2>. QED  BY <2>2, <2>3 DEF Handled
<1>3. /\ plan \in Seq(Words) /\ GoodPlan(plan) /\ Head(plan) = "ensure"
      /\ ~Left(plan, "collect") /\ ~Left(plan, "use") /\ ~Left(plan, "delete")
      /\ plan = Report => Left(plan, "position") /\ Left(plan, "depth") /\ ~Left(plan, "range")
      /\ plan = Response => Left(plan, "range") /\ ~Left(plan, "position") /\ ~Left(plan, "depth")
  BY <1>2, MethodIs
<1>4. reports' \in Value /\ reports' \in 0..MaxReports
  BY <1>1, <1>2, NoneIsNone DEF SharedTypes, Value
<1>5. PICK g \in Frame : /\ GoodFrame(g) /\ frame' = [frame EXCEPT !["reader"] = g]
                         /\ g = Begun(plan, n, reports')
  <2>1. PICK v \in Value : v = reports'
    BY <1>4
  <2>2. n # None /\ v # None /\ n \in Id \cup {None} /\ v \in Value \cup {None}
    BY <2>1, NoneIsNone
  <2>3. Call("reader", plan, n, v)
    BY <1>2, <2>1
  <2>. QED  BY <1>1, <1>3, <2>1, <2>2, <2>3, CallIs
<1>6. UNCHANGED <<table, object, inferring, dirty>> /\ frame["reader"] = Idle
  BY <1>2 DEF Call
<1>7. FramesInv' /\ frame'["reader"] = g /\ frame'["ui"] = frame["ui"]
  <2>1. Len(object') \in Nat /\ Len(object) <= Len(object')
    BY <1>1, <1>6
  <2>2. FramesInv' /\ frame'["reader"] = g /\ \A u \in Thread : u # "reader" => frame'[u] = frame[u]
    BY <1>1, <1>5, <2>1, OneFrame
  <2>. QED  BY <1>1, <2>2
<1>8. last' \in [Id -> [report : Value \cup {None}, range : Value \cup {None}]]
  BY SMTT(30), <1>1, <1>2, <1>4 DEF SharedTypes
<1>9. TypeOK' /\ PlansInv'
  BY <1>1, <1>2, <1>4, <1>6, <1>7, <1>8 DEF TypeOK, SharedTypes, FramesInv, Entries
<1>10. g.plan = plan /\ g.node = n /\ g.value = reports'
  BY <1>5 DEF Idle, Begun
<1>11. /\ \A m \in Id : m # n => last'[m] = last[m]
       /\ Busy(n) => last' = last
       /\ ~Busy(n) =>
             \/ plan = Report /\ last'[n] = [last[n] EXCEPT !.report = reports']
             \/ plan = Response /\ last'[n] = [last[n] EXCEPT !.range = reports']
  BY <1>1, <1>2 DEF SharedTypes
<1>. QED  BY <1>2, <1>3, <1>6, <1>7, <1>9, <1>10, <1>11

\* An operation of the user begins: nothing is known of the node it may change.
LEMMA EditIs ==
    ASSUME TypeOK, PlansInv, NEW op \in Ops, NEW n \in Id, NEW v \in {0, None}, Edit(op, n, v)
    PROVE  /\ TypeOK' /\ PlansInv'
           /\ UNCHANGED <<table, object, inferring, dirty>>
           /\ frame["ui"] = Idle /\ frame'["reader"] = frame["reader"]
           /\ \A k \in Id : last'[k] = last[k] \/ last'[k] = Nothing
           /\ \A k \in Id : last'[k] # Nothing => ~Busy(k)'
<1>1. FramesInv /\ Len(object) \in Nat /\ SharedTypes /\ "reader" \in Thread /\ "ui" \in Thread
  BY TypeParts DEF TypeOK, Thread
<1>2. PICK m \in {n, None} :
         /\ Call("ui", Method(op), m, v)
         /\ m = None => op = "calculate" /\ UNCHANGED last
         /\ m = n => last' = IF op = "request_range" /\ table[n] # None THEN last
                             ELSE [last EXCEPT ![n] = Nothing]
         /\ edits < MaxEdits /\ edits' = edits + 1 /\ UNCHANGED reports
         /\ v = None => op = "set_position"
  <2>1. n # None
    BY NoneIsNone
  <2>2. CASE op = "calculate"
    BY <2>1, <2>2 DEF Edit
  <2>3. CASE op # "calculate"
    BY <2>1, <2>3 DEF Edit
  <2>. QED  BY <2>2, <2>3
<1>3. /\ Method(op) \in Seq(Words) /\ GoodPlan(Method(op))
      /\ ~Left(Method(op), "collect") /\ ~Left(Method(op), "use")
      /\ m = None => Method(op) = <<"iterate">>
      /\ v = None => ~Left(Method(op), "depth") /\ ~Left(Method(op), "range")
  BY <1>2, MethodIs
<1>4. v \in Value \cup {None} /\ m \in Id \cup {None}
  BY NoneIsNone DEF Value
<1>5. PICK g \in Frame : /\ GoodFrame(g) /\ frame' = [frame EXCEPT !["ui"] = g]
                         /\ g = Begun(Method(op), m, v)
  <2>1. PICK plan : plan = Method(op)
    OBVIOUS
  <2>2. /\ Call("ui", plan, m, v) /\ plan \in Seq(Words) /\ GoodPlan(plan)
        /\ ~Left(plan, "collect") /\ ~Left(plan, "use")
        /\ m = None => plan = <<"iterate">>
        /\ v = None => ~Left(plan, "depth") /\ ~Left(plan, "range")
    BY <1>2, <1>3, <2>1
  <2>3. \E g \in Frame : /\ GoodFrame(g) /\ frame' = [frame EXCEPT !["ui"] = g]
                         /\ g = Begun(plan, m, v)
    BY SMTT(30), <1>1, <1>4, <2>2, CallIs
  <2>. QED  BY <2>1, <2>3
<1>6. UNCHANGED <<table, object, inferring, dirty>> /\ frame["ui"] = Idle
  BY <1>2 DEF Call
<1>7. FramesInv' /\ frame'["ui"] = g /\ frame'["reader"] = frame["reader"]
  <2>1. Len(object') \in Nat /\ Len(object) <= Len(object')
    BY <1>1, <1>6
  <2>2. FramesInv' /\ frame'["ui"] = g /\ \A u \in Thread : u # "ui" => frame'[u] = frame[u]
    BY <1>1, <1>5, <2>1, OneFrame
  <2>. QED  BY <1>1, <2>2
<1>8. /\ last' \in [Id -> [report : Value \cup {None}, range : Value \cup {None}]]
      /\ \A k \in Id : last'[k] = last[k] \/ last'[k] = Nothing
  BY <1>1, <1>2 DEF SharedTypes, Nothing
<1>9. edits' \in 0..MaxEdits
  BY <1>1, <1>2, NoneIsNone DEF SharedTypes
<1>10. TypeOK' /\ PlansInv'
  BY <1>1, <1>2, <1>6, <1>7, <1>8, <1>9 DEF TypeOK, SharedTypes, FramesInv, Entries
<1>11. g.node = m /\ g.plan = Method(op)
  BY <1>5 DEF Idle, Begun
<1>12. ASSUME NEW k \in Id, last'[k] # Nothing, Busy(k)'  PROVE FALSE
  <2>1. m = k /\ m = n /\ g.plan # <<"announce">> /\ ~(g.plan = <<"ensure">> /\ table[n] # None)
    BY <1>6, <1>7, <1>11, <1>12, NoneIsNone DEF Busy
  <2>2. op = "request_range" /\ table[n] # None
    BY <1>1, <1>2, <1>12, <2>1 DEF SharedTypes
  <2>3. Method(op) = <<"ensure">>
    BY <2>2 DEF Method
  <2>. QED  BY <1>11, <2>1, <2>2, <2>3
<1>. QED  BY <1>6, <1>7, <1>8, <1>10, <1>12

--------------------------------------------------------------------------------
(* The entries of the nodes that have been heard.                             *)

Owners == ReaderKeepsEntries /\ UIElsewhere
Base == TypeOK /\ PlansInv /\ Owners

\* The reader thread takes no entry away.
LEMMA ReaderKeeps ==
    ASSUME Base, Step("reader"), NEW n \in Id, table[n] # None
    PROVE  table'[n] # None
<1>1. /\ "reader" \in Thread /\ FramesInv /\ SharedTypes /\ None \notin 1..Len(object)+1
      /\ Len(object) \in Nat
  BY TypeParts, NoneIsNone DEF Base, Thread, TypeOK
<1>2. ~Delete("reader")
  BY <1>1, AtHead DEF Base, Owners, ReaderKeepsEntries, Delete
<1>3. CASE Insert("reader")
  BY <1>1, <1>3 DEF Insert, SharedTypes
<1>4. ~Insert("reader") => table' = table
  BY <1>2 DEF Step, Ensure, Store, Announce, Iterate, Collect, Collected, Use, Assign
<1>. QED  BY <1>3, <1>4

\* A UI thread that is not busy with the node it works on changes nothing and is done.
LEMMA IdlyDone ==
    ASSUME Base, Step("ui"), NEW n \in Id, n = Node("ui"), ~Busy(n)
    PROVE  UNCHANGED <<table, object>> /\ frame'["ui"] = Idle
<1>1. "ui" \in Thread /\ FramesInv /\ frame["ui"].plan \in {<<"announce">>, <<"ensure">>}
  BY TypeParts DEF Base, Thread, Busy, Node
<1>2. Len(frame["ui"].plan) = 1 /\ Head(frame["ui"].plan) \in {"announce", "ensure"}
  BY <1>1
<1>3. Continue("ui") => frame'["ui"] = Idle
  BY <1>1, <1>2 DEF Continue, Return, FramesInv
<1>4. CASE Ensure("ui")
  <2>1. Head(frame["ui"].plan) = "ensure"
    BY <1>4 DEF Ensure, At
  <2>2. frame["ui"].plan = <<"ensure">>
    BY <1>1, <2>1
  <2>3. table[Node("ui")] # None
    BY <2>2 DEF Busy, Node
  <2>. QED  BY <1>3, <1>4, <2>3 DEF Ensure
<1>5. CASE Announce("ui")
  BY <1>3, <1>5 DEF Announce
<1>6. Ensure("ui") \/ Announce("ui")
  BY <1>2 DEF Step, At, Insert, Store, Delete, Iterate, Collect, Collected, Use, Assign
<1>. QED  BY <1>4, <1>5, <1>6

\* The reader thread deletes nothing, and the UI thread is busy with nodes nothing has
\* been heard of since it began.
LEMMA OwnersStep == Base /\ [Next]_vars => Base'
<1>. SUFFICES ASSUME Base, [Next]_vars  PROVE Base'
  OBVIOUS
<1>. USE DEF Base, Owners
<1>1. ASSUME NEW n \in Id, Handled(n)  PROVE Base'
  <2>1. TypeOK /\ PlansInv
    OBVIOUS
  <2>2. /\ TypeOK' /\ PlansInv' /\ table' = table /\ frame'["ui"] = frame["ui"]
        /\ ~Left(frame'["reader"].plan, "delete")
        /\ \A m \in Id : m # n => last'[m] = last[m]
        /\ Busy(n) => last' = last
    BY <1>1, <2>1, HandledIs
  <2>3. \A m \in Id : Busy(m)' <=> Busy(m)
    BY <2>2 DEF Busy
  <2>. QED  BY <2>2, <2>3 DEF ReaderKeepsEntries, UIElsewhere, Heard
<1>2. ASSUME NEW op \in Ops, NEW n \in Id, NEW v \in {0, None}, Edit(op, n, v)  PROVE Base'
  BY <1>2, EditIs DEF ReaderKeepsEntries, UIElsewhere, Heard
<1>3. CASE Step("reader")
  <2>1. /\ TypeOK' /\ PlansInv' /\ last' = last /\ frame'["ui"] = frame["ui"]
        /\ ReaderKeepsEntries'
    BY <1>3, StepIs DEF ReaderKeepsEntries, Thread
  <2>2. \A m \in Id : Busy(m)' => Busy(m)
    BY <1>3, <2>1, ReaderKeeps DEF Busy
  <2>. QED  BY <2>1, <2>2 DEF UIElsewhere, Heard
<1>4. CASE Step("ui")
  <2>1. /\ TypeOK' /\ PlansInv' /\ last' = last /\ frame'["reader"] = frame["reader"]
        /\ frame'["ui"].node # None => frame'["ui"].node = Node("ui")
    BY <1>4, StepIs DEF Thread
  <2>2. ASSUME NEW m \in Heard, Busy(m)'  PROVE FALSE
    <3>1. m \in Id /\ m # None /\ ~Busy(m) /\ frame'["ui"].node = m
      BY <2>2, NoneIsNone DEF Heard, UIElsewhere, Busy
    <3>2. m = Node("ui")
      BY <2>1, <3>1
    <3>3. frame'["ui"] = Idle
      BY <1>4, <3>1, <3>2, IdlyDone
    <3>. QED  BY <3>1, <3>3, IdleIs
  <2>. QED  BY <2>1, <2>2 DEF ReaderKeepsEntries, UIElsewhere, Heard
<1>5. CASE UNCHANGED vars
  <2>1. TypeOK'
    BY <1>5 DEF vars, ghosts, TypeOK, Entries, Frame
  <2>2. PlansInv' /\ ReaderKeepsEntries' /\ UIElsewhere'
    BY <1>5 DEF vars, ghosts, PlansInv, ReaderKeepsEntries, UIElsewhere, Heard, Busy
  <2>. QED  BY <2>1, <2>2
<1>. QED  BY <1>1, <1>2, <1>3, <1>4, <1>5 DEF Next, Handled, Thread

\* A node that only the UI thread, or nobody, works on.
LEMMA StoredElsewhere ==
    ASSUME Base, NEW t \in Thread, Step(t), NEW n \in Id, Stored(n), n # Node(t)
    PROVE  Stored(n)' /\ table'[n] = table[n]
           /\ (table[n] # None => object'[table[n]] = object[table[n]])
<1>1. /\ table'[n] = table[n] /\ last' = last
      /\ table[n] # None => object'[table[n]] = object[table[n]]
      /\ \A u \in Thread : u # t => frame'[u] = frame[u]
      /\ frame'[t].node # None => frame'[t].node = Node(t)
  BY StepIs DEF Base
<1>2. CASE t = "reader"
  <2>1. frame["reader"].node # n /\ frame'["reader"].node # n
    BY <1>1, <1>2, NoneIsNone DEF Node
  <2>. QED  BY <1>1, <2>1 DEF Stored, Missing
<1>3. CASE t # "reader"
  <2>1. frame'["reader"] = frame["reader"]
    BY <1>1, <1>3 DEF Thread
  <2>. QED  BY <1>1, <2>1 DEF Stored, Missing, At
<1>. QED  BY <1>1, <1>2, <1>3

\* The node that the reader thread works on: each field it was to store is stored when
\* the word is done.
LEMMA StoredHere ==
    ASSUME Base, Step("reader"), NEW n \in Id, Stored(n), n = Node("reader")
    PROVE  Stored(n)'
<1>. DEFINE f == frame["reader"]
<1>0. /\ "reader" \in Thread /\ FramesInv /\ TypeOK /\ PlansInv /\ ~Left(f.plan, "delete")
      /\ SharedTypes /\ Len(object) \in Nat /\ None \notin 1..Len(object)+1 /\ n # None
      /\ f \in Frame /\ GoodPlan(f.plan) /\ n = f.node
  BY TypeParts, NoneIsNone DEF Base, Owners, ReaderKeepsEntries, Thread, Node, TypeOK, FramesInv,
     PlansInv
<1>1. PICK g \in Frame :
         /\ GoodFrame(g) /\ frame' = [frame EXCEPT !["reader"] = g] /\ f.plan # <<>>
         /\ \/ g = Idle
            \/ GoneOn(f, g)
            \/ Replaced(f, g, "insert") /\ Ensure("reader") /\ table[Node("reader")] = None
            \/ Replaced(f, g, "collect") /\ Iterate("reader")
            \/ Replaced(f, g, "use") /\ Collected("reader")
            \/ Gathers(f, g) /\ (Collect("reader") \/ Use("reader"))
         /\ Insert("reader") \/ Announce("reader") => GoneOn(f, g)
         /\ Ensure("reader") /\ table[Node("reader")] # None => GoneOn(f, g)
         /\ Ensure("reader") /\ table[Node("reader")] = None => Replaced(f, g, "insert")
         /\ Store("reader") \/ Delete("reader") =>
               IF table[Node("reader")] = None THEN g = Idle ELSE GoneOn(f, g)
  BY <1>0, StepFrame
<1>2. frame'["reader"] = g /\ last' = last
  BY <1>0, <1>1, StepIs DEF FramesInv
<1>3. GoneOn(f, g) =>
         /\ g.plan # <<>> => /\ g.node = n /\ g.value = f.value /\ Left(g.plan, Head(g.plan))
                             /\ Head(g.plan) \notin First
                             /\ Head(g.plan) \in Changes => Head(f.plan) # "announce"
         /\ \A word : Left(g.plan, word) => g.plan # <<>>
         /\ \A word : Left(g.plan, word) <=> Left(f.plan, word) /\ word # Head(f.plan)
  BY <1>0, <1>1, GoneOnIs DEF GoneOn
<1>4. /\ \A word : Missing(n, word) <=> Left(f.plan, word)
      /\ \A word : Missing(n, word)' <=> g.node = n /\ Left(g.plan, word)
      /\ \A word : At("reader", word) <=> f.plan # <<>> /\ Head(f.plan) = word
      /\ \A word : At("reader", word)' <=> g.plan # <<>> /\ Head(g.plan) = word
      /\ frame'["reader"].value = g.value
  BY <1>0, <1>2 DEF Missing, At
<1>. HIDE DEF f
\* The words that change neither the table nor an object.
<1>5. ASSUME UNCHANGED <<table, object>>, GoneOn(f, g),
             Head(f.plan) \notin {"position", "depth", "range"},
             Head(f.plan) = "announce" \/ table[n] # None
                \/ \A word \in Fields : ~Left(f.plan, word)
      PROVE  Stored(n)'
  <2>1. \A word \in {"position", "depth", "range"} : Missing(n, word)' <=> Missing(n, word)
    BY <1>3, <1>4, <1>5
  <2>2. ~At("reader", "insert")'
    BY <1>3, <1>4, <1>5 DEF First
  <2>3. (\E field \in Fields : At("reader", field)') => table[n] # None
    BY <1>3, <1>4, <1>5 DEF Changes
  <2>4. Missing(n, "position")' \/ Missing(n, "depth")' \/ Missing(n, "range")' => g.value = f.value
    BY <1>3, <1>4, <1>5
  <2>5. frame["reader"].value = f.value
    BY DEF f
  <2>. QED  BY <1>2, <1>4, <1>5, <2>1, <2>2, <2>3, <2>4, <2>5 DEF Stored
<1>6. CASE Ensure("reader")
  <2>1. UNCHANGED <<table, object>> /\ Head(f.plan) = "ensure"
    BY <1>6 DEF Ensure, At, f
  <2>2. CASE table[n] # None
    BY <1>1, <1>5, <1>6, <2>1, <2>2
  <2>3. CASE table[n] = None
    <3>1. /\ g.plan # <<>> /\ Head(g.plan) = "insert" /\ g.node = n /\ g.value = f.value
          /\ \A w : Left(g.plan, w) <=> w = "insert" \/ (Left(f.plan, w) /\ w # "ensure")
      BY <1>0, <1>1, <1>6, <2>1, <2>3 DEF Replaced, f
    <3>2. \A word \in {"position", "depth", "range"} : Missing(n, word)' <=> Missing(n, word)
      BY <1>4, <3>1
    <3>3. \A field \in Fields : ~At("reader", field)'
      BY <1>4, <3>1 DEF Fields
    <3>4. frame["reader"].value = f.value
      BY DEF f
    <3>. QED  BY <1>2, <1>4, <2>1, <2>3, <3>1, <3>2, <3>3, <3>4 DEF Stored
  <2>. QED  BY <2>2, <2>3
<1>7. CASE Insert("reader")
  <2>1. /\ Head(f.plan) = "insert" /\ At("reader", "insert")
        /\ object' = Append(object, New) /\ table' = [table EXCEPT ![n] = Len(object')]
    BY <1>7 DEF Insert, At, f, Node
  <2>2. /\ Len(object') = Len(object) + 1 /\ object'[Len(object) + 1] = New
        /\ table'[n] = Len(object) + 1
    BY <1>0, <2>1 DEF SharedTypes
  <2>3. table'[n] # None /\ object'[table'[n]] = New
    BY <1>0, <2>2
  <2>4. table[n] = None
    BY <1>0, <2>1 DEF Stored, f
  <2>5. \A word \in {"position", "depth", "range"} : Missing(n, word)' <=> Missing(n, word)
    BY <1>1, <1>3, <1>4, <1>7, <2>1
  <2>6. ~At("reader", "insert")'
    BY <1>1, <1>3, <1>4, <1>7 DEF First
  <2>7. Missing(n, "position")' \/ Missing(n, "depth")' \/ Missing(n, "range")' => g.value = f.value
    BY <1>1, <1>3, <1>4, <1>7
  <2>8. frame["reader"].value = f.value
    BY DEF f
  <2>. QED  BY <1>2, <1>4, <2>3, <2>4, <2>5, <2>6, <2>7, <2>8 DEF Stored, New
<1>8. CASE Store("reader")
  <2>1. PICK field \in Fields :
           /\ At("reader", field)
           /\ table[n] # None =>
                 object' = IF field = "seen" THEN object
                           ELSE [object EXCEPT ![table[n]][field] = frame["reader"].value]
           /\ UNCHANGED table
    BY <1>8 DEF Store, Fields, Node
  <2>2. table[n] # None /\ Head(f.plan) = field
    BY <1>0, <1>4, <2>1 DEF Stored, f
  <2>3. GoneOn(f, g)
    BY <1>1, <1>8, <2>2
  <2>4. CASE field = "seen"
    BY <1>5, <2>1, <2>2, <2>3, <2>4
  <2>5. CASE field # "seen"
    <3>1. PICK i \in 1..Len(object) : i = table[n]
      BY <1>0, <2>2 DEF SharedTypes
    <3>2. object[i] \in Known /\ object' = [object EXCEPT ![i][field] = f.value]
      <4>1. object[i] \in Known
        BY <1>0, <3>1 DEF SharedTypes
      <4>2. object' = [object EXCEPT ![table[n]][field] = frame["reader"].value]
        BY <2>1, <2>2, <2>5
      <4>. QED  BY <3>1, <4>1, <4>2 DEF f
    <3>3. object'[i] = [object[i] EXCEPT ![field] = f.value]
      BY <1>0, <3>1, <3>2 DEF SharedTypes
    <3>4. /\ field \in {"position", "depth", "range"} /\ object'[i][field] = f.value
          /\ \A word \in {"position", "depth", "range"} :
                word # field => object'[i][word] = object[i][word]
      BY <2>1, <2>5, <3>2, <3>3 DEF Fields, Known
    <3>5. /\ field = "position" => object'[i].position = f.value
          /\ field # "position" => object'[i].position = object[i].position
          /\ field = "depth" => object'[i].depth = f.value
          /\ field # "depth" => object'[i].depth = object[i].depth
          /\ field = "range" => object'[i].range = f.value
          /\ field # "range" => object'[i].range = object[i].range
      BY <3>2, <3>3, <3>4 DEF Known
    <3>6. \A word \in {"position", "depth", "range"} :
             Missing(n, word)' <=> Missing(n, word) /\ word # field
      BY <1>3, <1>4, <2>2, <2>3
    <3>7. Missing(n, field)
      BY <1>0, <1>1, <1>4, <2>2, PlanHead DEF FramesInv, Frame, f
    <3>8. ~At("reader", "insert")' /\ table'[n] # None /\ table'[n] = i
      BY <1>3, <1>4, <2>1, <2>2, <2>3, <3>1 DEF First
    <3>9. /\ Missing(n, "position")' \/ Missing(n, "depth")' \/ Missing(n, "range")' => g.value = f.value
          /\ frame["reader"].value = f.value
      BY <1>3, <1>4, <2>3 DEF f
    <3>10. /\ field = "position" \/ field = "depth" => last[n].report = f.value
           /\ field = "range" => last[n].range = f.value
      BY <3>7, <3>9 DEF Stored
    <3>11. /\ last[n].report = None \/ Missing(n, "position")' \/ object'[i].position = last[n].report
           /\ last[n].report = None \/ Missing(n, "depth")' \/ object'[i].depth = last[n].report
           /\ last[n].range = None \/ Missing(n, "range")' \/ object'[i].range = last[n].range
      BY <2>2, <3>1, <3>4, <3>5, <3>6, <3>10 DEF Stored
    <3>12. /\ Missing(n, "position")' \/ Missing(n, "depth")' => g.value = last[n].report
           /\ Missing(n, "range")' => g.value = last[n].range
      BY <3>6, <3>9 DEF Stored
    <3>. QED  BY <1>2, <1>4, <3>8, <3>11, <3>12 DEF Stored
  <2>. QED  BY <2>4, <2>5
<1>9. CASE Delete("reader")
  BY <1>0, <1>9, AtHead DEF Delete, f
<1>10. CASE Announce("reader")
  <2>1. UNCHANGED <<table, object>> /\ Head(f.plan) = "announce"
    BY <1>10 DEF Announce, At, f
  <2>. QED  BY <1>1, <1>5, <1>10, <2>1
<1>11. CASE \/ Iterate("reader") \/ Collect("reader") \/ Collected("reader") \/ Use("reader")
            \/ Assign("reader")
  <2>1. UNCHANGED <<table, object>>
    BY <1>11 DEF Iterate, Collect, Collected, Use, Assign
  <2>2. PICK word \in Calculating : At("reader", word)
    BY <1>11 DEF Iterate, Collect, Collected, Use, Assign, Calculating
  <2>3. Len(f.plan) = 1 /\ f.plan[1] = word
    BY <1>0, <2>2, AtHead DEF f
  <2>4. \A w : Left(f.plan, w) => w = word
    BY <2>3 DEF Left
  <2>5. \A w : Left(g.plan, w) => w \in Calculating \cup {"insert"}
    BY <1>1, <2>4, IdleIs, NoPlan DEF GoneOn, Replaced, Gathers, Calculating
  <2>6. ~Ensure("reader")
    BY <1>4, <2>2 DEF Ensure, Calculating
  <2>7. \A w : Left(g.plan, w) => w \in Calculating
    BY <1>1, <2>4, <2>6, IdleIs, NoPlan DEF GoneOn, Replaced, Gathers, Calculating
  <2>8. \A w \in Fields \cup {"insert"} : ~Missing(n, w)' /\ ~Missing(n, w) /\ ~At("reader", w)'
    <3>1. g.plan # <<>> => Left(g.plan, Head(g.plan))
      BY PlanHead DEF Frame
    <3>. QED  BY <1>4, <2>4, <2>7, <3>1 DEF Fields, Calculating
  <2>. QED  BY <1>2, <2>1, <2>8 DEF Stored, Fields
<1>. QED  BY <1>6, <1>7, <1>8, <1>9, <1>10, <1>11 DEF Step

\* What the reader thread has not stored yet it will store, and nobody undoes it.
LEMMA StoredStep == Base /\ StoredInv /\ [Next]_vars => StoredInv'
<1>. SUFFICES ASSUME Base, StoredInv, [Next]_vars, NEW n \in Id, last'[n] # Nothing
              PROVE  Stored(n)'
  BY DEF StoredInv, Heard
<1>0. TypeOK /\ PlansInv /\ FramesInv /\ n # None
  BY TypeParts, NoneIsNone DEF Base
<1>1. ASSUME NEW m \in Id, Handled(m)  PROVE Stored(n)'
  <2>. DEFINE g == frame'["reader"]
  <2>1. /\ UNCHANGED <<table, object, inferring, dirty>>
        /\ frame["reader"] = Idle
        /\ g.node = m /\ g.value = reports' /\ Head(g.plan) = "ensure"
        /\ \A k \in Id : k # m => last'[k] = last[k]
        /\ Busy(m) => last' = last
        /\ ~Busy(m) =>
                 \/ /\ last'[m] = [last[m] EXCEPT !.report = reports']
                    /\ Left(g.plan, "position") /\ Left(g.plan, "depth") /\ ~Left(g.plan, "range")
                 \/ /\ last'[m] = [last[m] EXCEPT !.range = reports']
                    /\ Left(g.plan, "range") /\ ~Left(g.plan, "position") /\ ~Left(g.plan, "depth")
    BY <1>0, <1>1, HandledIs
  <2>2. last[n] # Nothing => Stored(n)
    BY DEF StoredInv, Heard
  <2>3. \A word : ~Missing(n, word) /\ ~At("reader", word)
    BY <2>1, IdleIs, NoPlan DEF Missing, At
  <2>4. \A word : word \in Fields \cup {"insert"} => ~At("reader", word)'
    BY <2>1 DEF At, Fields
  <2>5. CASE n # m
    <3>1. last'[n] = last[n] /\ Stored(n) /\ \A word : ~Missing(n, word)'
      BY <2>1, <2>2, <2>5 DEF Missing
    <3>. QED  BY <2>1, <2>2, <2>3, <2>4, <2>5, <3>1 DEF Stored, Fields
  <2>6. CASE n = m
    <3>1. \A word : Missing(n, word)' <=> Left(g.plan, word)
      BY <2>1, <2>6 DEF Missing
    <3>2. last[n] \in [report : Value \cup {None}, range : Value \cup {None}]
      BY <1>0 DEF TypeOK
    <3>3. CASE /\ last'[n] = [last[n] EXCEPT !.report = reports']
               /\ Left(g.plan, "position") /\ Left(g.plan, "depth") /\ ~Left(g.plan, "range")
      <4>1. last'[n].report = reports' /\ last'[n].range = last[n].range
        BY <3>2, <3>3
      <4>. QED  BY <2>1, <2>2, <2>3, <2>4, <3>1, <3>2, <3>3, <4>1 DEF Stored, Fields, Nothing
    <3>4. CASE /\ last'[n] = [last[n] EXCEPT !.range = reports']
               /\ Left(g.plan, "range") /\ ~Left(g.plan, "position") /\ ~Left(g.plan, "depth")
      <4>1. last'[n].range = reports' /\ last'[n].report = last[n].report
        BY <3>2, <3>4
      <4>. QED  BY <2>1, <2>2, <2>3, <2>4, <3>1, <3>2, <3>4, <4>1 DEF Stored, Fields, Nothing
    <3>5. ~Busy(m)
      <4>. SUFFICES ASSUME Busy(m)  PROVE FALSE
        OBVIOUS
      <4>1. last[n] # Nothing
        BY <2>1, <2>6
      <4>. QED  BY <2>6, <4>1 DEF Base, Owners, UIElsewhere, Heard
    <3>. QED  BY <2>1, <2>6, <3>3, <3>4, <3>5
  <2>. QED  BY <2>5, <2>6
<1>2. ASSUME NEW op \in Ops, NEW m \in Id, NEW v \in {0, None}, Edit(op, m, v)  PROVE Stored(n)'
  <2>1. /\ UNCHANGED <<table, object>> /\ frame'["reader"] = frame["reader"]
        /\ last'[n] = last[n]
    BY <1>0, <1>2, EditIs
  <2>2. Stored(n)
    BY <2>1 DEF StoredInv, Heard
  <2>. QED  BY <2>1, <2>2 DEF Stored, Missing, At
<1>3. ASSUME NEW t \in Thread, Step(t)  PROVE Stored(n)'
  <2>1. last' = last
    BY <1>0, <1>3, StepIs
  <2>2. Stored(n) /\ ~Busy(n)
    BY <2>1 DEF StoredInv, Heard, Base, Owners, UIElsewhere
  <2>3. CASE n # Node(t)
    BY <1>3, <2>2, <2>3, StoredElsewhere
  <2>4. CASE n = Node(t) /\ t = "reader"
    BY <1>3, <2>2, <2>4, StoredHere
  <2>5. CASE n = Node(t) /\ t = "ui"
    <3>1. UNCHANGED <<table, object>>
      BY <1>3, <2>2, <2>5, IdlyDone
    <3>2. frame'["reader"] = frame["reader"]
      BY <1>0, <1>3, <2>5, StepIs DEF Thread
    <3>. QED  BY <2>1, <2>2, <3>1, <3>2 DEF Stored, Missing, At
  <2>. QED  BY <2>3, <2>4, <2>5 DEF Thread
<1>4. CASE UNCHANGED vars
  <2>1. Stored(n) /\ UNCHANGED <<table, object, frame, last>>
    BY <1>4 DEF vars, ghosts, StoredInv, Heard
  <2>. QED  BY <2>1 DEF Stored, Missing, At
<1>. QED  BY <1>1, <1>2, <1>3, <1>4 DEF Next, Handled

--------------------------------------------------------------------------------
(* What the reader thread calculates with.                                    *)

\* Before it calculates, the reader thread has stored all that was reported.
LEMMA CalculatesStored ==
    ASSUME Base, NEW word \in Calculating, At("reader", word), NEW n \in Id, Stored(n),
           Reported(n)
    PROVE  /\ table[n] # None /\ AsReported(n, object[table[n]])
           /\ Usable(object[table[n]])
<1>1. FramesInv /\ "reader" \in Thread
  BY TypeParts DEF Base, Thread
<1>2. Len(frame["reader"].plan) = 1 /\ frame["reader"].plan[1] = word
  BY <1>1, AtHead
<1>3. \A w \in {"position", "depth", "range"} : ~Missing(n, w)
  BY <1>2 DEF Missing, Left, Calculating
<1>4. last[n].report # None /\ last[n].range # None
  BY DEF Reported
<1>5. /\ table[n] # None /\ object[table[n]].position = last[n].report
      /\ object[table[n]].depth = last[n].report /\ object[table[n]].range = last[n].range
  BY <1>3, <1>4 DEF Stored
<1>. QED  BY <1>4, <1>5 DEF AsReported, Usable

\* Position and range are something.
LEMMA ReportedIsHeard == \A n \in Id : Reported(n) => n \in Heard
  BY DEF Reported, Heard, Nothing

\* Every entry of a node that has reported is collected, and read as it is in the table.
LEMMA CalculationStep ==
    Base /\ StoredInv /\ CalculationInv /\ [Next]_vars => CalculationInv'
<1>. SUFFICES ASSUME Base, StoredInv, CalculationInv, [Next]_vars,
                     NEW n \in Id, Reported(n)'
              PROVE  Calculated(n)'
  BY DEF CalculationInv, Heard
<1>. DEFINE f == frame["reader"]
            g == frame'["reader"]
<1>0. TypeOK /\ PlansInv /\ FramesInv /\ "reader" \in Thread /\ f \in Frame
  BY TypeParts DEF Base, Thread, FramesInv
<1>1. ASSUME ~At("reader", "collect")', ~At("reader", "use")'  PROVE Calculated(n)'
  BY <1>1 DEF Calculated
<1>2. ASSUME NEW m \in Id, Handled(m)  PROVE Calculated(n)'
  <2>1. Head(g.plan) = "ensure"
    BY <1>0, <1>2, HandledIs
  <2>. QED  BY <1>1, <2>1 DEF At
<1>3. ASSUME table'[n] = table[n], last'[n] = last[n],
             frame'["reader"] = frame["reader"]
      PROVE  Calculated(n)'
  <2>1. Reported(n)
    BY <1>3 DEF Reported
  <2>2. Calculated(n)
    BY <1>3, <2>1, ReportedIsHeard DEF CalculationInv
  <2>3. Used(n) => Used(n)'
    BY <1>3 DEF Used, AsReported
  <2>. QED  BY <1>3, <2>2, <2>3 DEF Calculated, At
<1>4. ASSUME NEW op \in Ops, NEW m \in Id, NEW v \in {0, None}, Edit(op, m, v)
      PROVE  Calculated(n)'
  <2>1. /\ UNCHANGED table /\ frame'["reader"] = frame["reader"]
        /\ last'[n] = last[n]
    BY <1>0, <1>4, EditIs DEF Reported, Nothing
  <2>. QED  BY <1>3, <2>1
<1>5. CASE Step("ui")
  <2>1. /\ "ui" \in Thread /\ last' = last /\ frame'["reader"] = frame["reader"]
        /\ \A m \in Id : m # Node("ui") => table'[m] = table[m]
    BY <1>0, <1>5, StepIs DEF Thread
  <2>2. ~Busy(n)
    BY <2>1, ReportedIsHeard DEF Reported, Base, Owners, UIElsewhere
  <2>3. table'[n] = table[n]
    BY <1>5, <2>1, <2>2, IdlyDone
  <2>. QED  BY <1>3, <2>1, <2>3
<1>6. CASE Step("reader")
  <2>0. last' = last /\ Reported(n) /\ n \in Heard
    BY <1>0, <1>6, StepIs, ReportedIsHeard DEF Reported
  <2>1. Stored(n) /\ Calculated(n)
    BY <2>0 DEF StoredInv, CalculationInv
  <2>2. PICK h \in Frame :
           /\ GoodFrame(h) /\ frame' = [frame EXCEPT !["reader"] = h] /\ f.plan # <<>>
           /\ \/ h = Idle
              \/ GoneOn(f, h)
              \/ Replaced(f, h, "insert") /\ Ensure("reader") /\ table[Node("reader")] = None
              \/ Replaced(f, h, "collect") /\ Iterate("reader")
              \/ Replaced(f, h, "use") /\ Collected("reader")
              \/ Gathers(f, h) /\ (Collect("reader") \/ Use("reader"))
    BY <1>0, <1>6, StepFrame
  <2>3. g = h
    BY <1>0, <2>2 DEF FramesInv
  <2>4. CASE h = Idle \/ GoneOn(f, h)
    <3>1. GoodPlan(f.plan) /\ f.plan # <<>>
      BY <1>0, <2>2 DEF PlansInv
    <3>2. GoneOn(f, h) /\ h.plan # <<>> => Head(h.plan) \notin First
      BY <1>0, <2>2, <3>1, GoneOnIs
    <3>3. h.plan # <<>> => Head(h.plan) \notin First
      BY <2>4, <3>2, IdleIs
    <3>. QED  BY <1>1, <2>3, <3>3 DEF At, First
  <2>5. CASE Replaced(f, h, "insert")
    BY <1>1, <2>3, <2>5 DEF At, Replaced
  <2>6. CASE Replaced(f, h, "collect") /\ Iterate("reader")
    <3>1. At("reader", "iterate")
      BY <2>6 DEF Iterate
    <3>2. Len(f.plan) = 1 /\ f.plan[1] = "iterate" /\ Arguments(f)
      BY <1>0, <3>1, AtHead DEF Calculating
    <3>3. f.seen = {} /\ h.seen = {}
      BY <2>6, <3>2 DEF Arguments, Left, Replaced
    <3>. QED  BY <2>3, <2>6, <3>3 DEF Calculated, At, Replaced
  <2>7. CASE Replaced(f, h, "use") /\ Collected("reader")
    <3>1. /\ At("reader", "collect") /\ Entries \subseteq f.seen /\ UNCHANGED table
      BY <2>7 DEF Collected
    <3>2. table[n] # None
      BY <2>0, <2>1, <3>1, CalculatesStored DEF Calculating
    <3>3. n \in f.seen
      BY <2>0, <3>1, <3>2 DEF Entries
    <3>4. <<n, table[n]>> \in f.usable
      BY <2>1, <3>1, <3>3 DEF Calculated
    <3>5. h.usable = f.usable
      BY <2>7 DEF Replaced
    <3>. QED  BY <2>3, <2>7, <3>1, <3>4, <3>5 DEF Calculated, At, Replaced
  <2>8. CASE Gathers(f, h) /\ Collect("reader") /\ h # Idle
    <3>1. At("reader", "collect") /\ ~Return("reader") /\ UNCHANGED <<table, object>>
      <4>1. Return("reader") => frame' = [frame EXCEPT !["reader"] = Idle]
        BY DEF Return
      <4>2. Return("reader") => h = Idle
        BY <1>0, <2>3, <4>1 DEF FramesInv
      <4>. QED  BY <2>8, <4>2 DEF Collect
    <3>2. PICK m \in Entries \ f.seen :
             frame' = [frame EXCEPT
               !["reader"].seen = @ \cup {m},
               !["reader"].usable =
                   IF Usable(object[table[m]]) THEN @ \cup {<<m, table[m]>>} ELSE @]
      BY <2>8, <3>1 DEF Collect
    <3>3. /\ h.seen = f.seen \cup {m}
          /\ f.usable \subseteq h.usable
          /\ Usable(object[table[m]]) => <<m, table[m]>> \in h.usable
      <4>1. h.seen = f.seen \cup {m}
        BY <1>0, <2>3, <3>2 DEF FramesInv, Frame
      <4>2. h.usable = IF Usable(object[table[m]]) THEN f.usable \cup {<<m, table[m]>>} ELSE f.usable
        BY <1>0, <2>3, <3>2 DEF FramesInv, Frame
      <4>. QED  BY <4>1, <4>2
    <3>4. Usable(object[table[n]])
      BY <2>0, <2>1, <3>1, CalculatesStored DEF Calculating
    <3>5. ~At("reader", "use")'
      BY <2>3, <2>8, <3>1 DEF At, Gathers
    <3>6. n \in h.seen => <<n, table[n]>> \in h.usable
      BY <2>1, <3>1, <3>3, <3>4 DEF Calculated
    <3>. QED  BY <2>3, <3>1, <3>5, <3>6 DEF Calculated
  <2>9. CASE Gathers(f, h) /\ Use("reader") /\ h # Idle
    <3>1. At("reader", "use") /\ UNCHANGED <<table, object>>
      BY <2>9 DEF Use
    <3>2. PICK entry \in f.usable :
             frame' = [frame EXCEPT !["reader"].usable = @ \ {entry},
                                    !["reader"].used = @ \cup {<<entry[1], object[entry[2]]>>}]
      <4>1. ~Return("reader")
        <5>1. Return("reader") => frame' = [frame EXCEPT !["reader"] = Idle]
          BY DEF Return
        <5>. QED  BY <1>0, <2>3, <2>9, <5>1 DEF FramesInv
      <4>. QED  BY <2>9, <4>1 DEF Use
    <3>3. h.usable = f.usable \ {entry} /\ h.used = f.used \cup {<<entry[1], object[entry[2]]>>}
      BY <1>0, <2>3, <3>2 DEF FramesInv, Frame
    <3>4. AsReported(n, object[table[n]])
      BY <2>0, <2>1, <3>1, CalculatesStored DEF Calculating
    <3>5. <<n, table[n]>> \in f.usable \/ Used(n)
      BY <2>1, <3>1 DEF Calculated
    <3>6. CASE <<n, table[n]>> = entry
      <4>1. entry[1] = n /\ entry[2] = table[n]
        BY <3>6
      <4>2. <<n, object[table[n]]>> \in h.used
        BY <3>3, <4>1
      <4>3. \E e \in h.used : e[1] = n /\ AsReported(n, e[2])'
        BY <2>0, <3>4, <4>2 DEF AsReported
      <4>4. Used(n)'
        BY <2>3, <4>3 DEF Used
      <4>. QED  BY <3>5, <4>4, <2>9, <2>3, <3>1 DEF Calculated, At, Gathers
    <3>7. CASE <<n, table[n]>> # entry
      <4>1. <<n, table[n]>> \in h.usable \/ Used(n)
        BY <3>3, <3>5, <3>7
      <4>2. Used(n) => Used(n)'
        BY <2>0, <2>3, <3>3 DEF Used, AsReported
      <4>. QED  BY <2>3, <2>9, <3>1, <4>1, <4>2 DEF Calculated, At, Gathers
    <3>. QED  BY <3>6, <3>7
  <2>. QED  BY <2>2, <2>4, <2>5, <2>6, <2>7, <2>8, <2>9
<1>7. CASE UNCHANGED vars
  BY <1>3, <1>7 DEF vars, ghosts
<1>. QED  BY <1>2, <1>4, <1>5, <1>6, <1>7 DEF Next, Handled, Thread

--------------------------------------------------------------------------------
(* What has changed is announced.                                             *)

\* A thread that will announce works on a node and is not at the end of its method.
LEMMA AnnouncerIs ==
    ASSUME Base, NEW u \in Thread, WillAnnounce(u)
    PROVE  frame[u].node \in Id /\ frame[u] # Idle
<1>1. frame[u].node \in Id \cup {None} /\ Arguments(frame[u])
  BY DEF Base, TypeOK, PlansInv, Frame
<1>2. Left(frame[u].plan, "announce")
  BY DEF WillAnnounce
<1>3. PICK i \in 1..Len(frame[u].plan) : frame[u].plan[i] = "announce"
  BY <1>2 DEF Left
<1>4. "announce" \notin Calculating
  BY DEF Calculating
<1>5. frame[u].node # None
  BY <1>1, <1>3, <1>4 DEF Arguments
<1>. QED  BY <1>1, <1>2, <1>5, IdleIs, NoPlan

\* A thread that will announce still will when another one, that does not delete, steps.
LEMMA OthersAnnounce ==
    ASSUME Base, NEW u \in Thread, WillAnnounce(u), frame'[u] = frame[u],
           table[Node(u)] # None => table'[Node(u)] # None
    PROVE  WillAnnounce(u)'
  BY DEF WillAnnounce, At, Node

\* A change is announced by the thread that makes it, or by the one that has deleted the
\* entry under it.
LEMMA DirtyStep == Base /\ DirtyInv /\ [Next]_vars => DirtyInv'
<1>. SUFFICES ASSUME Base, DirtyInv, [Next]_vars, dirty'
              PROVE  \E t \in Thread : WillAnnounce(t)'
  BY DEF DirtyInv
<1>0. TypeOK /\ PlansInv /\ FramesInv /\ SharedTypes /\ Thread = {"reader", "ui"}
      /\ Len(object) \in Nat
  BY TypeParts DEF Base, Thread, TypeOK
<1>1. ASSUME NEW t \in Thread, frame[t] = Idle, UNCHANGED <<table, dirty>>,
             \A u \in Thread : u # t => frame'[u] = frame[u]
      PROVE  \E u \in Thread : WillAnnounce(u)'
  <2>1. PICK u \in Thread : WillAnnounce(u)
    BY <1>1 DEF DirtyInv
  <2>2. u # t
    BY <1>1, <2>1, AnnouncerIs
  <2>3. WillAnnounce(u)'
    BY <1>1, <2>1, <2>2, OthersAnnounce
  <2>. QED  BY <2>3
<1>2. ASSUME NEW n \in Id, Handled(n)  PROVE \E t \in Thread : WillAnnounce(t)'
  <2>1. /\ UNCHANGED <<table, dirty>> /\ frame["reader"] = Idle /\ frame'["ui"] = frame["ui"]
    BY <1>0, <1>2, HandledIs
  <2>2. \A u \in Thread : u # "reader" => frame'[u] = frame[u]
    BY <1>0, <2>1
  <2>. QED  BY <1>0, <1>1, <2>1, <2>2
<1>3. ASSUME NEW op \in Ops, NEW n \in Id, NEW v \in {0, None}, Edit(op, n, v)
      PROVE  \E t \in Thread : WillAnnounce(t)'
  <2>1. /\ UNCHANGED <<table, dirty>> /\ frame["ui"] = Idle /\ frame'["reader"] = frame["reader"]
    BY <1>0, <1>3, EditIs
  <2>2. \A u \in Thread : u # "ui" => frame'[u] = frame[u]
    BY <1>0, <2>1
  <2>. QED  BY <1>0, <1>1, <2>1, <2>2
<1>4. ASSUME NEW t \in Thread, Step(t)  PROVE \E u \in Thread : WillAnnounce(u)'
  <2>. DEFINE f == frame[t]
  <2>1. PICK g \in Frame :
           /\ GoodFrame(g) /\ frame' = [frame EXCEPT ![t] = g] /\ f.plan # <<>>
           /\ \/ g = Idle
              \/ GoneOn(f, g)
              \/ Replaced(f, g, "insert") /\ Ensure(t) /\ table[Node(t)] = None
              \/ Replaced(f, g, "collect") /\ Iterate(t)
              \/ Replaced(f, g, "use") /\ Collected(t)
              \/ Gathers(f, g) /\ (Collect(t) \/ Use(t))
           /\ Insert(t) \/ Announce(t) => GoneOn(f, g)
           /\ Ensure(t) /\ table[Node(t)] # None => GoneOn(f, g)
           /\ Ensure(t) /\ table[Node(t)] = None => Replaced(f, g, "insert")
           /\ Store(t) \/ Delete(t) =>
                 IF table[Node(t)] = None THEN g = Idle ELSE GoneOn(f, g)
    BY <1>0, <1>4, StepFrame
  <2>2. /\ f \in Frame /\ GoodPlan(f.plan) /\ f.plan \in Seq(Words) /\ frame'[t] = g
        /\ \A u \in Thread : u # t => frame'[u] = frame[u]
        /\ \A n \in Id : n # Node(t) => table'[n] = table[n]
    BY <1>0, <1>4, <2>1, StepIs DEF FramesInv, PlansInv, Frame
  <2>3. ASSUME NEW u \in Thread, u # t, WillAnnounce(u),
               table[Node(t)] # None => table'[Node(t)] # None
        PROVE  \E w \in Thread : WillAnnounce(w)'
    <3>1. frame[u].node \in Id /\ frame'[u] = frame[u]
      BY <2>2, <2>3, AnnouncerIs
    <3>2. table[Node(u)] # None => table'[Node(u)] # None
      BY <2>2, <2>3, <3>1 DEF Node
    <3>3. WillAnnounce(u)'
      BY <2>3, <3>1, <3>2, OthersAnnounce
    <3>. QED  BY <3>3
  <2>4. ASSUME GoneOn(f, g), Left(f.plan, "announce"), Head(f.plan) # "announce",
               table'[Node(t)] # None \/ Head(g.plan) = "announce"
        PROVE  \E w \in Thread : WillAnnounce(w)'
    <3>1. Left(g.plan, "announce") /\ g.plan # <<>>
      BY <2>4, NoPlan DEF GoneOn
    <3>2. g.node = f.node
      BY <2>1, <2>2, <2>4, <3>1, GoneOnIs
    <3>3. WillAnnounce(t)'
      BY <2>2, <2>4, <3>1, <3>2 DEF WillAnnounce, At, Node
    <3>. QED  BY <3>3
  <2>. HIDE DEF f
  <2>5. CASE Ensure(t)
    <3>1. dirty' = dirty /\ table' = table /\ Head(f.plan) = "ensure"
      BY <2>5 DEF Ensure, At, f
    <3>2. PICK u \in Thread : WillAnnounce(u)
      BY <3>1 DEF DirtyInv
    <3>3. CASE u # t
      BY <2>3, <3>1, <3>2, <3>3
    <3>4. CASE u = t
      <4>1. Left(f.plan, "announce")
        BY <3>2, <3>4 DEF WillAnnounce, f
      <4>2. CASE table[Node(t)] # None
        BY <2>1, <2>4, <2>5, <3>1, <4>1, <4>2
      <4>3. CASE table[Node(t)] = None
        <5>1. g.plan # <<>> /\ Head(g.plan) = "insert" /\ Left(g.plan, "announce")
          BY <2>1, <2>5, <3>1, <4>1, <4>3 DEF Replaced
        <5>2. WillAnnounce(t)'
          BY <2>2, <5>1 DEF WillAnnounce, At
        <5>. QED  BY <5>2
      <4>. QED  BY <4>2, <4>3
    <3>. QED  BY <3>3, <3>4
  <2>6. CASE Insert(t)
    <3>1. /\ Head(f.plan) = "insert" /\ table' = [table EXCEPT ![Node(t)] = Len(object')]
          /\ dirty' = (dirty \/ Len(f.plan) > 1) /\ object' = Append(object, New)
      BY <2>6 DEF Insert, At, f
    <3>2. Node(t) \in Id /\ Len(f.plan) \in Nat /\ Len(f.plan) >= 1 /\ f.plan[1] = "insert"
          /\ 1 \in 1..Len(f.plan)
      BY <1>0, <2>6, AtHead DEF Insert, Node, f, Calculating
    <3>3. table'[Node(t)] # None
      <4>1. Len(object') = Len(object) + 1
        BY <1>0, <3>1 DEF SharedTypes
      <4>2. table'[Node(t)] = Len(object) + 1
        BY <1>0, <3>1, <3>2, <4>1 DEF SharedTypes
      <4>. QED  BY <1>0, <4>2, NoneIsNone
    <3>4. CASE Len(f.plan) > 1
      <4>1. f.plan[2] \in Changes /\ 2 \in 1..Len(f.plan)
        BY <2>2, <3>2, <3>4 DEF GoodPlan, SecondWord, Changes
      <4>2. PICK j \in 3..Len(f.plan) : f.plan[j] = "announce"
        BY <2>2, <4>1 DEF GoodPlan, AnnouncesChanges, AnnouncesAfter
      <4>3. Left(f.plan, "announce")
        BY <3>2, <4>2 DEF Left
      <4>. QED  BY <2>1, <2>4, <2>6, <3>1, <3>3, <4>3
    <3>5. CASE ~(Len(f.plan) > 1)
      <4>1. dirty
        BY <3>1, <3>5
      <4>2. PICK u \in Thread : WillAnnounce(u)
        BY <4>1 DEF DirtyInv
      <4>3. u # t
        <5>1. ~Left(f.plan, "announce")
          BY <3>2, <3>5 DEF Left
        <5>. QED  BY <4>2, <5>1 DEF WillAnnounce, f
      <4>. QED  BY <2>3, <3>3, <4>2, <4>3
    <3>. QED  BY <3>4, <3>5
  <2>7. CASE Store(t)
    <3>1. PICK field \in Fields : At(t, field)
      BY <2>7 DEF Store, Fields
    <3>2. table' = table /\ (table[Node(t)] = None => dirty' = dirty)
      BY <2>7 DEF Store
    <3>3. Head(f.plan) = field /\ Left(f.plan, "announce") /\ field # "announce"
      BY <1>0, <3>1, AtHead DEF Changes, Fields, f
    <3>4. CASE table[Node(t)] # None
      BY <2>1, <2>4, <2>7, <3>2, <3>3, <3>4
    <3>5. CASE table[Node(t)] = None
      <4>1. PICK u \in Thread : WillAnnounce(u)
        BY <3>2, <3>5 DEF DirtyInv
      <4>2. u # t
        BY <3>1, <3>5, <4>1 DEF WillAnnounce, At, Fields
      <4>. QED  BY <2>3, <3>2, <4>1, <4>2
    <3>. QED  BY <3>4, <3>5
  <2>8. CASE Delete(t)
    <3>1. At(t, "delete") /\ (table[Node(t)] = None => dirty' = dirty)
          /\ table' = [table EXCEPT ![Node(t)] = None]
      BY <2>8 DEF Delete
    <3>2. /\ Head(f.plan) = "delete" /\ Left(f.plan, "announce") /\ f.plan[1] = "delete"
          /\ Len(f.plan) \in Nat /\ Len(f.plan) >= 1 /\ Node(t) \in Id
      BY <1>0, <3>1, AtHead DEF Changes, f, Node, Calculating
    <3>3. CASE table[Node(t)] # None
      <4>1. GoneOn(f, g) /\ Left(g.plan, "announce")
        BY <2>1, <2>8, <3>2, <3>3 DEF GoneOn
      <4>2. g.plan = Tail(f.plan) /\ g.plan # <<>>
        BY <2>2, <4>1, IdleIs, NoPlan DEF GoneOn, Frame
      <4>3. Len(f.plan) > 1 /\ g.plan \in Seq(Words) /\ Head(g.plan) = f.plan[2]
        <5>1. Len(g.plan) = Len(f.plan) - 1 /\ g.plan \in Seq(Words)
          BY <2>1, <2>2, <4>2, PlanHead
        <5>2. Len(g.plan) >= 1 /\ Head(g.plan) = g.plan[1]
          BY <4>2, <5>1, PlanHead
        <5>3. 1 \in 1..Len(f.plan)-1
          BY <3>2, <5>1, <5>2
        <5>4. Tail(f.plan)[1] = f.plan[2]
          BY <2>1, <2>2, <5>3, PlanHead
        <5>. QED  BY <3>2, <4>2, <5>1, <5>2, <5>4
      <4>4. Head(g.plan) = "announce"
        BY <2>2, <3>2, <4>3 DEF GoodPlan, SecondWord
      <4>. QED  BY <2>4, <3>2, <4>1, <4>4
    <3>4. CASE table[Node(t)] = None
      <4>1. PICK u \in Thread : WillAnnounce(u)
        BY <3>1, <3>4 DEF DirtyInv
      <4>2. u # t
        BY <3>1, <3>4, <4>1 DEF WillAnnounce, At
      <4>. QED  BY <2>3, <3>4, <4>1, <4>2
    <3>. QED  BY <3>3, <3>4
  <2>9. CASE Announce(t)
    BY <2>9 DEF Announce
  <2>10. CASE Iterate(t) \/ Collect(t) \/ Collected(t) \/ Use(t) \/ Assign(t)
    <3>1. dirty' = dirty /\ table' = table
      BY <2>10 DEF Iterate, Collect, Collected, Use, Assign
    <3>2. PICK word \in Calculating : At(t, word)
      BY <2>10 DEF Iterate, Collect, Collected, Use, Assign, Calculating
    <3>3. ~Left(f.plan, "announce")
      BY <1>0, <3>2, AtHead DEF Left, Calculating, f
    <3>4. PICK u \in Thread : WillAnnounce(u)
      BY <3>1 DEF DirtyInv
    <3>5. u # t
      BY <3>3, <3>4 DEF WillAnnounce, f
    <3>. QED  BY <2>3, <3>1, <3>4, <3>5
  <2>. QED  BY <1>4, <2>5, <2>6, <2>7, <2>8, <2>9, <2>10 DEF Step
<1>5. CASE UNCHANGED vars
  <2>1. UNCHANGED <<table, dirty, frame>>
    BY <1>5 DEF vars, ghosts
  <2>2. PICK u \in Thread : WillAnnounce(u)
    BY <2>1 DEF DirtyInv
  <2>. QED  BY <2>1, <2>2, OthersAnnounce
<1>. QED  BY <1>2, <1>3, <1>4, <1>5 DEF Next, Handled

--------------------------------------------------------------------------------
(* The theorems.                                                              *)

\* The inductive invariant holds before anything has been heard.
LEMMA IInvInit == Init => IInv
<1>. SUFFICES ASSUME Init  PROVE IInv
  OBVIOUS
<1>1. <<>> \in Seq(Known) /\ Len(<<>>) = 0
  OBVIOUS
<1>2. Len(object) \in Nat /\ object \in Seq(Known)
  BY <1>1 DEF Init
<1>3. Idle \in Frame
  BY <1>2, IdleIs, FrameIs
<1>4. \A t \in Thread : frame[t] = Idle
  BY DEF Init
<1>5. SharedTypes /\ frame \in [Thread -> Frame]
  <2>1. Entries = {}
    BY DEF Init, Entries
  <2>2. frame \in [Thread -> Frame]
    BY <1>3 DEF Init
  <2>3. last \in [Id -> [report : Value \cup {None}, range : Value \cup {None}]]
    BY DEF Init, Nothing
  <2>4. /\ table \in [Id -> 1..Len(object) \cup {None}] /\ inferring \in BOOLEAN
    BY DEF Init
  <2>5. dirty \in BOOLEAN
    BY DEF Init
  <2>6. reports \in 0..MaxReports /\ edits \in 0..MaxEdits
    BY NoneIsNone DEF Init
  <2>. QED  BY <1>2, <2>1, <2>2, <2>3, <2>4, <2>5, <2>6 DEF SharedTypes
<1>6. TypeOK
  BY <1>5 DEF TypeOK, SharedTypes
<1>7. PlansInv /\ ReaderKeepsEntries /\ UIElsewhere
  BY <1>4, IdleIs, NoPlan DEF Init, PlansInv, ReaderKeepsEntries, UIElsewhere, Heard, Thread
<1>8. StoredInv /\ CalculationInv /\ DirtyInv
  BY <1>4, IdleIs, NoPlan
     DEF Init, StoredInv, Heard, Stored, CalculationInv, Calculated, DirtyInv, Missing, At, Nothing,
         Thread, Fields
<1>. QED  BY <1>6, <1>7, <1>8 DEF IInv

\* Every step preserves the inductive invariant.
LEMMA IInvStep == IInv /\ [Next]_vars => IInv'
  BY OwnersStep, StoredStep, CalculationStep, DirtyStep DEF IInv, Base, Owners

\* The inductive invariant is an invariant.
THEOREM IInvHolds == Spec => []IInv
  BY IInvInit, IInvStep, PTL DEF Spec

\* The state has its types, and no two ids share an object.
THEOREM TypeCorrect == Spec => []TypeOK
<1>1. IInv => TypeOK
  BY DEF IInv
<1>. QED  BY <1>1, IInvHolds, PTL

\* What a node has reported since the UI last worked on it is in the table once it is
\* handled, whatever the UI thread does to the other entries between any two accesses.
THEOREM ReportsAreKept == Spec => []ReportsStand
<1>1. IInv => ReportsStand
  <2>. SUFFICES ASSUME IInv, frame["reader"] = Idle, NEW n \in Id, last[n] # Nothing
                PROVE  table[n] # None /\ AsReported(n, object[table[n]])
    BY DEF ReportsStand
  <2>1. Stored(n) /\ \A word : ~Missing(n, word)
    BY IdleIs, NoPlan DEF IInv, StoredInv, Heard, Missing
  <2>2. last[n] \in [report : Value \cup {None}, range : Value \cup {None}]
    BY DEF IInv, TypeOK
  <2>3. last[n].report # None \/ last[n].range # None
    BY <2>2 DEF Nothing
  <2>. QED  BY <2>1, <2>3 DEF Stored, AsReported
<1>. QED  BY <1>1, IInvHolds, PTL

\* When no thread is in a method, every change has been announced, also when a method
\* has raised half-way because the other thread deleted its entry.
THEOREM ChangesAreAnnounced == Spec => []ChangesAnnounced
<1>1. IInv => ChangesAnnounced
  <2>. SUFFICES ASSUME IInv, frame = [t \in Thread |-> Idle], dirty  PROVE FALSE
    BY DEF ChangesAnnounced
  <2>1. PICK t \in Thread : WillAnnounce(t)
    BY DEF IInv, DirtyInv
  <2>. QED  BY <2>1, IdleIs, NoPlan DEF WillAnnounce
<1>. QED  BY <1>1, IInvHolds, PTL

\* A position that the reader thread infers rests on every node that has reported
\* position and range since the UI last worked on it, with the values last reported.
THEOREM InferenceUsesTheCurrent == Spec => InferenceIsCurrent
<1>1. IInv /\ Assign("reader") =>
         \A n \in Id :
            None \notin {last[n].report, last[n].range} =>
               \E entry \in frame["reader"].used : entry[1] = n /\ AsReported(n, entry[2])
  <2>. SUFFICES ASSUME IInv, Assign("reader"), NEW n \in Id,
                       None \notin {last[n].report, last[n].range}
                PROVE  Used(n)
    BY DEF Used
  <2>1. At("reader", "use") /\ frame["reader"].usable = {}
    BY DEF Assign
  <2>2. Calculated(n)
    BY ReportedIsHeard DEF IInv, CalculationInv, Reported
  <2>. QED  BY <2>1, <2>2 DEF Calculated
<1>. QED  BY <1>1, IInvHolds, PTL DEF InferenceIsCurrent
================================================================================
