--------------------------- MODULE TextPathProofs ---------------------------
(***************************************************************************)
(* Theorems about TextPath, for texts, buffers, numbers of words and of    *)
(* chunks of any size.                                                     *)
(*                                                                         *)
(* What nw_split and FromIso return is defined by recursion over the text; *)
(* RecursionFacts has the induction.  The first part is about the          *)
(* transcoder, the second about the splitter's loop, the last about the    *)
(* steps of the specification.                                             *)
(***************************************************************************)
EXTENDS TextPath, RecursionFacts

USE TextAssumption

Text == Seq(ByteClass)

-----------------------------------------------------------------------------
(* nw_transcode_to_utf8.                                                   *)

LEMMA EmptyIsUtf8 == is_valid_utf8(<<>>)
BY DEF is_valid_utf8

\* Two texts in UTF-8 are one behind the other.
LEMMA Utf8Concat ==
    ASSUME NEW a \in Text, NEW b \in Text, is_valid_utf8(a), is_valid_utf8(b)
    PROVE  is_valid_utf8(a \o b)
<1> DEFINE c == a \o b
<1>1. /\ c \in Text /\ Len(c) = Len(a) + Len(b) /\ Len(a) \in Nat /\ Len(b) \in Nat
      /\ \A i \in 1..Len(a) : c[i] = a[i]
      /\ \A i \in 1..Len(b) : c[Len(a) + i] = b[i]
  BY DEF Text
<1> HIDE DEF c
<1>2. ASSUME NEW i \in 1..Len(c), c[i] = Lead
      PROVE  i + 1 \in 1..Len(c) /\ c[i + 1] = Trail
  <2>1. CASE i <= Len(a)
    <3>1. i \in 1..Len(a)
      BY <1>1, <2>1
    <3>2. i + 1 \in 1..Len(a) /\ a[i + 1] = Trail
      BY <1>1, <1>2, <3>1 DEF is_valid_utf8
    <3> QED
      BY <1>1, <3>2
  <2>2. CASE ~(i <= Len(a))
    <3>1. i - Len(a) \in 1..Len(b) /\ Len(a) + (i - Len(a)) = i
      BY <1>1, <2>2
    <3>2. b[i - Len(a)] = Lead
      BY <1>1, <1>2, <3>1
    <3>3. (i - Len(a)) + 1 \in 1..Len(b) /\ b[(i - Len(a)) + 1] = Trail
      BY <3>1, <3>2 DEF is_valid_utf8
    <3>4. Len(a) + ((i - Len(a)) + 1) = i + 1
      BY <1>1
    <3>5. c[Len(a) + ((i - Len(a)) + 1)] = b[(i - Len(a)) + 1]
      BY <1>1, <3>3
    <3>6. c[i + 1] = Trail
      BY <3>3, <3>4, <3>5
    <3> QED
      BY <1>1, <3>3, <3>6
  <2> QED
    BY <2>1, <2>2
<1>3. ASSUME NEW i \in 1..Len(c), c[i] = Trail
      PROVE  i > 1 /\ c[i - 1] = Lead
  <2>1. CASE i <= Len(a)
    <3>1. i \in 1..Len(a)
      BY <1>1, <2>1
    <3>2. i > 1 /\ a[i - 1] = Lead
      BY <1>1, <1>3, <3>1 DEF is_valid_utf8
    <3>3. i - 1 \in 1..Len(a)
      BY <1>1, <3>1, <3>2
    <3> QED
      BY <1>1, <3>2, <3>3
  <2>2. CASE ~(i <= Len(a))
    <3>1. i - Len(a) \in 1..Len(b) /\ Len(a) + (i - Len(a)) = i
      BY <1>1, <2>2
    <3>2. b[i - Len(a)] = Trail
      BY <1>1, <1>3, <3>1
    <3>3. i - Len(a) > 1 /\ b[(i - Len(a)) - 1] = Lead
      BY <3>1, <3>2 DEF is_valid_utf8
    <3>4. Len(a) + ((i - Len(a)) - 1) = i - 1 /\ (i - Len(a)) - 1 \in 1..Len(b)
      BY <1>1, <3>1, <3>3
    <3>5. c[i - 1] = Lead
      BY <1>1, <3>3, <3>4
    <3> QED
      BY <1>1, <3>3, <3>5
  <2> QED
    BY <2>1, <2>2
<1> QED
  BY <1>2, <1>3 DEF is_valid_utf8, c

\* What codesets.library makes of a text is UTF-8, and not empty unless the
\* text is.
LEMMA FromIsoIsUtf8 ==
    ASSUME NEW t \in Text
    PROVE  FromIso(t) \in Text /\ is_valid_utf8(FromIso(t)) /\ (t # <<>> => FromIso(t) # <<>>)
<1> DEFINE ss == [i \in 1..Len(t) |-> IF t[i] \in {Lead, Trail} THEN <<Lead, Trail>> ELSE <<t[i]>>]
           S == {a \in Text : is_valid_utf8(a)}
<1>1. Len(t) \in Nat /\ \A i \in 1..Len(t) : t[i] \in ByteClass
  BY DEF Text
<1>2. Lead \in ByteClass /\ Trail \in ByteClass /\ Lead # Trail
  BY DEF ByteClass, Lead, Trail
<1>3. ASSUME NEW i \in 1..Len(t)
      PROVE  ss[i] \in Text /\ is_valid_utf8(ss[i]) /\ Len(ss[i]) > 0
  <2>1. CASE t[i] \in {Lead, Trail}
    <3>1. ss[i] = <<Lead, Trail>>
      BY <2>1
    <3> QED
      BY <1>2, <3>1 DEF is_valid_utf8, Text
  <2>2. CASE t[i] \notin {Lead, Trail}
    <3>1. ss[i] = <<t[i]>>
      BY <2>2
    <3> QED
      BY <1>1, <2>2, <3>1 DEF is_valid_utf8, Text
  <2> QED
    BY <2>1, <2>2
<1>4. ss \in Seq(Text) /\ Len(ss) = Len(t)
  BY <1>1, <1>3, IsASeq
<1> HIDE DEF ss
<1>5. <<>> \in S
  BY EmptyIsUtf8 DEF Text
<1>6. ASSUME NEW k \in 1..Len(ss), NEW a \in S \cap Text PROVE a \o ss[k] \in S
  <2>1. ss[k] \in Text /\ is_valid_utf8(ss[k])
    BY <1>3, <1>4
  <2>2. a \o ss[k] \in Text
    BY <2>1 DEF Text
  <2> QED
    BY <2>1, <2>2, Utf8Concat
<1> HIDE DEF S
<1>7. FlattenSeq(ss) \in S /\ FlattenSeq(ss) \in Text
  BY <1>4, <1>5, <1>6, FlattenIn DEF Text
<1>8. ASSUME t # <<>> PROVE FlattenSeq(ss) # <<>>
  <2>1. PICK f \in [0..Len(ss) -> Text] :
          /\ f[0] = <<>> /\ \A k \in 1..Len(ss) : f[k] = f[k - 1] \o ss[k]
          /\ FlattenSeq(ss) = f[Len(ss)]
    BY <1>4, FlattenRounds DEF Text
  <2>2. Len(ss) \in 1..Len(ss) /\ Len(ss) - 1 \in 0..Len(ss)
    BY <1>1, <1>4, <1>8 DEF Text
  <2>3. ss[Len(ss)] \in Text /\ Len(ss[Len(ss)]) > 0 /\ f[Len(ss) - 1] \in Text
    BY <1>3, <1>4, <2>2
  <2>4. Len(f[Len(ss)]) > 0
    <3>1. f[Len(ss)] = f[Len(ss) - 1] \o ss[Len(ss)]
      BY <2>1, <2>2
    <3>2. Len(f[Len(ss) - 1] \o ss[Len(ss)]) = Len(f[Len(ss) - 1]) + Len(ss[Len(ss)])
      BY <2>3, ConcatProperties DEF Text
    <3>3. Len(f[Len(ss) - 1]) \in Nat /\ Len(ss[Len(ss)]) \in Nat
      BY <2>3 DEF Text
    <3> QED
      <4>1. \A m, n \in Nat : n > 0 => m + n > 0
        OBVIOUS
      <4> QED
        BY <2>3, <3>1, <3>2, <3>3, <4>1
  <2> QED
    BY <2>1, <2>4
<1>9. FromIso(t) = FlattenSeq(ss)
  BY DEF FromIso, ss
<1> QED
  BY <1>7, <1>8, <1>9 DEF S

\* What is handed to nw_split: UTF-8 if the text is or codesets.library converts
\* it, the text itself if it is or nothing converts it.
LEMMA Transcoded ==
    ASSUME NEW t \in Text, NEW converts \in BOOLEAN
    PROVE  /\ nw_transcode_to_utf8(t, converts) \in Text
           /\ t # <<>> => nw_transcode_to_utf8(t, converts) # <<>>
           /\ is_valid_utf8(t) \/ converts => is_valid_utf8(nw_transcode_to_utf8(t, converts))
           /\ is_valid_utf8(t) \/ ~converts => nw_transcode_to_utf8(t, converts) = t
BY FromIsoIsUtf8 DEF nw_transcode_to_utf8

-----------------------------------------------------------------------------
(* nw_split.                                                               *)

Bounds(t) == Seq((1..Len(t) + 1) \X (0..Len(t)))

\* The pieces of t between the positions in bounds.
Pieces(t, bounds) == [k \in 1..Len(bounds) |-> SubSeq(t, bounds[k][1], bounds[k][2])]

\* The piece from a to b is not empty and begins and ends where words do.
Whole(t, a, b) ==
    /\ a \in 1..b /\ b \in 1..Len(t)
    /\ a = 1 \/ EndsWord(t, a - 1)
    /\ b = Len(t) \/ EndsWord(t, b)

\* The splitter may end a piece at b.
Breaks(t, a, b) == EndsWord(t, b) /\ LastOf(t, a, b) \in Stops \cup Pauses

\* The pieces follow each other, from the start of t up to the byte before next.
Partition(t, bounds, next) ==
    /\ bounds \in Bounds(t) /\ next \in 1..Len(t) + 1
    /\ \A k \in 1..Len(bounds) : Whole(t, bounds[k][1], bounds[k][2])
    /\ \A k \in 1..Len(bounds) :
          bounds[k][2] + 1 = IF k = Len(bounds) THEN next ELSE bounds[k + 1][1]
    /\ bounds = <<>> => next = 1
    /\ FlattenSeq(Pieces(t, bounds)) = SubSeq(t, 1, next - 1)

LEMMA PieceType ==
    ASSUME NEW t \in Text, NEW a \in 1..Len(t) + 1, NEW b \in 0..Len(t)
    PROVE  SubSeq(t, a, b) \in Text
<1>1. CASE a <= b
  <2>1. \A i \in a..b : t[i] \in ByteClass
    BY <1>1 DEF Text
  <2> QED
    BY <1>1, <2>1, SubSeqProperties DEF Text
<1>2. CASE ~(a <= b)
  BY <1>2, SubSeqEmpty DEF Text
<1> QED
  BY <1>1, <1>2

LEMMA PiecesType ==
    ASSUME NEW t \in Text, NEW bounds \in Bounds(t)
    PROVE  Pieces(t, bounds) \in Seq(Text) /\ Len(Pieces(t, bounds)) = Len(bounds)
<1>1. \A k \in 1..Len(bounds) : bounds[k] \in (1..Len(t) + 1) \X (0..Len(t))
  BY DEF Bounds
<1>2. ASSUME NEW k \in 1..Len(bounds)
      PROVE  SubSeq(t, bounds[k][1], bounds[k][2]) \in Text
  <2>1. bounds[k][1] \in 1..Len(t) + 1 /\ bounds[k][2] \in 0..Len(t)
    BY <1>1
  <2> QED
    BY <2>1, PieceType
<1>3. Len(bounds) \in Nat
  BY DEF Bounds
<1> QED
  BY <1>2, <1>3, IsASeq DEF Pieces

\* One more piece.
LEMMA PiecesAppend ==
    ASSUME NEW t \in Text, NEW bounds \in Bounds(t),
           NEW a \in 1..Len(t) + 1, NEW b \in 0..Len(t)
    PROVE  Pieces(t, Append(bounds, <<a, b>>)) = Append(Pieces(t, bounds), SubSeq(t, a, b))
<1> DEFINE more == Append(bounds, <<a, b>>)
           n == Len(bounds)
<1>1. more \in Bounds(t) /\ Len(more) = n + 1 /\ more[n + 1] = <<a, b>> /\ n \in Nat
      /\ \A k \in 1..n : more[k] = bounds[k]
  BY AppendProperties DEF Bounds
<1>2. Pieces(t, bounds) \in Seq(Text) /\ Len(Pieces(t, bounds)) = n /\ SubSeq(t, a, b) \in Text
  BY PiecesType, PieceType DEF n
<1>3. /\ Append(Pieces(t, bounds), SubSeq(t, a, b)) \in Seq(Text)
      /\ Len(Append(Pieces(t, bounds), SubSeq(t, a, b))) = n + 1
      /\ Append(Pieces(t, bounds), SubSeq(t, a, b))[n + 1] = SubSeq(t, a, b)
      /\ \A k \in 1..n : Append(Pieces(t, bounds), SubSeq(t, a, b))[k] = Pieces(t, bounds)[k]
  BY <1>2, AppendProperties
<1> HIDE DEF more, n
<1>4. Pieces(t, more) \in Seq(Text) /\ Len(Pieces(t, more)) = n + 1
  BY <1>1, PiecesType
<1>5. ASSUME NEW k \in 1..n + 1
      PROVE  Pieces(t, more)[k] = Append(Pieces(t, bounds), SubSeq(t, a, b))[k]
  <2>1. Pieces(t, more)[k] = SubSeq(t, more[k][1], more[k][2])
    BY <1>1 DEF Pieces
  <2>2. CASE k = n + 1
    <3>1. more[k][1] = a /\ more[k][2] = b
      BY <1>1, <2>2
    <3> QED
      BY <1>3, <2>1, <2>2, <3>1
  <2>3. CASE k # n + 1
    <3>1. k \in 1..n
      BY <1>1, <2>3
    <3>2. more[k] = bounds[k] /\ Pieces(t, bounds)[k] = SubSeq(t, bounds[k][1], bounds[k][2])
      BY <1>1, <3>1 DEF Pieces, n
    <3> QED
      BY <1>3, <2>1, <3>1, <3>2
  <2> QED
    BY <2>2, <2>3
<1>6. Pieces(t, more) = Append(Pieces(t, bounds), SubSeq(t, a, b))
  BY <1>3, <1>4, <1>5, SeqEqual
<1> QED
  BY <1>6 DEF more

\* A piece that begins at next extends the partition.
LEMMA PartitionAppend ==
    ASSUME NEW t \in Text, NEW bounds, NEW next, Partition(t, bounds, next),
           NEW b, Whole(t, next, b)
    PROVE  Partition(t, Append(bounds, <<next, b>>), b + 1)
<1> DEFINE more == Append(bounds, <<next, b>>)
           n == Len(bounds)
<1>1. bounds \in Bounds(t) /\ next \in 1..b /\ b \in 1..Len(t) /\ Len(t) \in Nat
  BY DEF Partition, Whole, Text
<1>2. more \in Bounds(t) /\ Len(more) = n + 1 /\ more[n + 1] = <<next, b>> /\ n \in Nat
      /\ \A k \in 1..n : more[k] = bounds[k]
  BY <1>1, AppendProperties DEF Bounds
<1> HIDE DEF more, n
<1>3. \A k \in 1..n + 1 : Whole(t, more[k][1], more[k][2])
  <2>1. ASSUME NEW k \in 1..n + 1 PROVE Whole(t, more[k][1], more[k][2])
    <3>1. CASE k = n + 1
      BY <1>2, <3>1
    <3>2. CASE k # n + 1
      <4>1. k \in 1..n
        BY <1>2, <3>2
      <4> QED
        BY <1>2, <4>1 DEF Partition, n
    <3> QED
      BY <3>1, <3>2
  <2> QED
    BY <2>1
<1>4. ASSUME NEW k \in 1..n + 1
      PROVE  more[k][2] + 1 = IF k = n + 1 THEN b + 1 ELSE more[k + 1][1]
  <2>1. CASE k = n + 1
    BY <1>2, <2>1
  <2>2. CASE k = n
    <3>1. k \in 1..n /\ k # n + 1
      BY <1>2, <2>2
    <3>2. bounds[k][2] + 1 = next
      BY <2>2, <3>1 DEF Partition, n
    <3> QED
      BY <1>2, <2>2, <3>1, <3>2
  <2>3. CASE k # n /\ k # n + 1
    <3>1. k \in 1..n /\ k + 1 \in 1..n
      BY <1>2, <2>3
    <3>2. bounds[k][2] + 1 = bounds[k + 1][1]
      BY <2>3, <3>1 DEF Partition, n
    <3> QED
      BY <1>2, <2>3, <3>1, <3>2
  <2> QED
    BY <2>1, <2>2, <2>3
<1>5. FlattenSeq(Pieces(t, more)) = SubSeq(t, 1, b)
  <2>1. Pieces(t, more) = Append(Pieces(t, bounds), SubSeq(t, next, b))
    <3>1. next \in 1..Len(t) + 1 /\ b \in 0..Len(t)
      BY <1>1
    <3> QED
      BY <1>1, <3>1, PiecesAppend DEF more
  <2>2. Pieces(t, bounds) \in Seq(Text) /\ SubSeq(t, next, b) \in Text
    <3>1. next \in 1..Len(t) + 1 /\ b \in 0..Len(t)
      BY <1>1
    <3> QED
      BY <1>1, <3>1, PiecesType, PieceType
  <2>3. FlattenSeq(Pieces(t, more)) = SubSeq(t, 1, next - 1) \o SubSeq(t, next, b)
    BY <2>1, <2>2, FlattenAppend DEF Partition, Text
  <2>4. SubSeq(t, 1, next - 1) \o SubSeq(t, (next - 1) + 1, b) = SubSeq(t, 1, b)
    <3>1. 1 \in 1..(next - 1) + 1 /\ next - 1 \in (1 - 1)..b /\ b \in (next - 1)..Len(t)
      BY <1>1
    <3> QED
      BY <1>1, <3>1, ConcatAdjacentSubSeq DEF Text
  <2>5. (next - 1) + 1 = next
    BY <1>1
  <2> QED
    BY <2>3, <2>4, <2>5
<1>6. more # <<>> /\ b + 1 \in 1..Len(t) + 1 /\ (b + 1) - 1 = b
  BY <1>1, <1>2
<1> QED
  BY <1>2, <1>3, <1>4, <1>5, <1>6 DEF Partition, more

\* The states of the splitter's loop, and what holds of them behind byte i.
Loop(t) == [chunks : Bounds(t), start : 1..Len(t) + 1, words : Nat]
LoopStart == [chunks |-> <<>>, start |-> 1, words |-> 0]
LoopStep(t, acc, i) == IF EndsWord(t, i) THEN SplitWord(t, acc, i) ELSE acc

LoopInv(t, acc, i) ==
    /\ acc \in Loop(t) /\ acc.start \in 1..i + 1
    /\ acc.start = 1 \/ EndsWord(t, acc.start - 1)
    /\ Partition(t, acc.chunks, acc.start)
    /\ Len(acc.chunks) <= MaxSeg - 1
    /\ \A k \in 1..Len(acc.chunks) : Breaks(t, acc.chunks[k][1], acc.chunks[k][2])

LEMMA LoopStepType ==
    ASSUME NEW t \in Text, NEW i \in 1..Len(t), NEW acc \in Loop(t)
    PROVE  LoopStep(t, acc, i) \in Loop(t)
<1> DEFINE more == Append(acc.chunks, <<acc.start, i>>)
<1>1. Len(t) \in Nat /\ acc.chunks \in Bounds(t) /\ acc.start \in 1..Len(t) + 1 /\ acc.words \in Nat
  BY DEF Text, Loop
<1>2. more \in Bounds(t)
  BY <1>1, AppendProperties DEF Bounds
<1>3. NextStart(i) \in 1..Len(t) + 1
  BY <1>1 DEF NextStart
<1> HIDE DEF more
<1>4. [chunks |-> more, start |-> NextStart(i), words |-> 0] \in Loop(t)
  BY <1>1, <1>2, <1>3 DEF Loop
<1>5. [acc EXCEPT !.words = acc.words + 1] \in Loop(t)
  BY <1>1 DEF Loop
<1>6. SplitWord(t, acc, i) \in {[chunks |-> more, start |-> NextStart(i), words |-> 0],
                               [acc EXCEPT !.words = acc.words + 1]}
  BY DEF SplitWord, more
<1> QED
  BY <1>4, <1>5, <1>6 DEF LoopStep

LEMMA LoopStartInv ==
    ASSUME NEW t \in Text, MaxSeg > 1
    PROVE  LoopInv(t, LoopStart, 0) /\ LoopStart \in Loop(t)
<1>1. <<>> \in Bounds(t) /\ 1 \in 1..Len(t) + 1 /\ Len(t) \in Nat
  BY DEF Bounds, Text
<1>2. LoopStart \in Loop(t) /\ LoopStart.chunks = <<>> /\ LoopStart.start = 1
  BY <1>1 DEF Loop, LoopStart
<1>3. Pieces(t, <<>>) = <<>>
  BY DEF Pieces
<1>4. SubSeq(t, 1, 1 - 1) = <<>>
  BY SubSeqEmpty
<1>5. Partition(t, <<>>, 1)
  <2>1. \A k \in 1..Len(<<>>) : FALSE
    OBVIOUS
  <2>2. FlattenSeq(Pieces(t, <<>>)) = SubSeq(t, 1, 1 - 1)
    BY <1>3, <1>4, FlattenEmpty
  <2> QED
    BY <1>1, <2>1, <2>2 DEF Partition
<1>6. Len(<<>>) = 0 /\ 0 <= MaxSeg - 1
  OBVIOUS
<1> QED
  BY <1>2, <1>5, <1>6 DEF LoopInv

LEMMA LoopStepInv ==
    ASSUME NEW t \in Text, NEW i \in 1..Len(t), NEW acc, LoopInv(t, acc, i - 1)
    PROVE  LoopInv(t, LoopStep(t, acc, i), i)
<1> DEFINE more == Append(acc.chunks, <<acc.start, i>>)
           new == [chunks |-> more, start |-> i + 1, words |-> 0]
           n == Len(acc.chunks)
<1>1. /\ acc \in Loop(t) /\ acc.chunks \in Bounds(t) /\ acc.start \in 1..i /\ acc.words \in Nat
      /\ i + 1 \in 1..i + 1 /\ Len(t) \in Nat /\ n \in Nat
  BY DEF LoopInv, Loop, Text, Bounds
<1>2. LoopStep(t, acc, i) \in Loop(t)
  BY <1>1, LoopStepType
<1>3. CASE ~EndsWord(t, i)
  <2>1. LoopStep(t, acc, i) = acc
    BY <1>3 DEF LoopStep
  <2>2. acc.start \in 1..i + 1
    BY <1>1
  <2> QED
    BY <2>1, <2>2 DEF LoopInv
<1>4. CASE EndsWord(t, i) /\ ~(BreaksAt(LastOf(t, acc.start, i), acc.words + 1) /\ RoomFor(acc.chunks))
  <2>1. LoopStep(t, acc, i) = [acc EXCEPT !.words = acc.words + 1]
    BY <1>4 DEF LoopStep, SplitWord
  <2>2. /\ LoopStep(t, acc, i).chunks = acc.chunks /\ LoopStep(t, acc, i).start = acc.start
    BY <1>1, <2>1 DEF Loop
  <2>3. acc.start \in 1..i + 1
    BY <1>1
  <2> QED
    BY <1>2, <2>2, <2>3 DEF LoopInv
<1>5. CASE EndsWord(t, i) /\ BreaksAt(LastOf(t, acc.start, i), acc.words + 1) /\ RoomFor(acc.chunks)
  <2>1. LoopStep(t, acc, i) = new
    BY <1>5 DEF LoopStep, SplitWord, NextStart
  <2>2. new.chunks = more /\ new.start = i + 1
    OBVIOUS
  <2>3. /\ more \in Bounds(t) /\ Len(more) = n + 1 /\ more[n + 1] = <<acc.start, i>>
        /\ \A k \in 1..n : more[k] = acc.chunks[k]
    <3>1. <<acc.start, i>> \in (1..Len(t) + 1) \X (0..Len(t))
      BY <1>1
    <3> QED
      BY <1>1, <3>1, AppendProperties DEF Bounds
  <2>4. Whole(t, acc.start, i)
    BY <1>1, <1>5 DEF Whole, LoopInv
  <2>5. Partition(t, more, i + 1)
    BY <2>4, PartitionAppend DEF LoopInv
  <2>6. Breaks(t, acc.start, i)
    BY <1>5 DEF Breaks, BreaksAt
  <2>7. \A k \in 1..n : Breaks(t, acc.chunks[k][1], acc.chunks[k][2])
    BY DEF LoopInv
  <2> HIDE DEF more, n
  <2>8. \A k \in 1..n + 1 : Breaks(t, more[k][1], more[k][2])
    <3>1. ASSUME NEW k \in 1..n + 1 PROVE Breaks(t, more[k][1], more[k][2])
      <4>1. CASE k = n + 1
        BY <2>3, <2>6, <4>1
      <4>2. CASE k # n + 1
        <5>1. k \in 1..n
          BY <1>1, <4>2
        <5> QED
          BY <2>3, <2>7, <5>1
      <4> QED
        BY <4>1, <4>2
    <3> QED
      BY <3>1
  <2>9. n + 1 <= MaxSeg - 1
    BY <1>1, <1>5 DEF RoomFor, n
  <2>10. (i + 1) - 1 = i
    OBVIOUS
  <2> HIDE DEF new
  <2> QED
    BY <1>1, <1>2, <1>5, <2>1, <2>2, <2>3, <2>5, <2>8, <2>9, <2>10 DEF LoopInv
<1> QED
  BY <1>3, <1>4, <1>5

\* What nw_split is made of: a loop behind whose last byte LoopInv holds.
LEMMA SplitLoop ==
    ASSUME NEW t \in Text, MaxWords > 0, MaxSeg > 1
    PROVE  \E acc : /\ LoopInv(t, acc, Len(t))
                    /\ nw_split(t) =
                         LET all == IF acc.start <= Len(t)
                                    THEN Append(acc.chunks, <<acc.start, Len(t)>>)
                                    ELSE acc.chunks
                         IN  IF all = <<>> THEN << <<1, Len(t)>> >> ELSE all
<1> DEFINE n == Len(t)
           Body(h, i) == IF i = 0 THEN LoopStart
                         ELSE IF EndsWord(t, i) THEN SplitWord(t, h[i - 1], i) ELSE h[i - 1]
           S == Loop(t)
           step == [k \in 1..n |-> [a \in S |-> LoopStep(t, a, k)]]
           c == CHOOSE h : h = [i \in 0..n |-> Body(h, i)]
<1>1. n \in Nat
  BY DEF Text
<1>2. LoopStart \in S /\ LoopInv(t, LoopStart, 0)
  BY LoopStartInv
<1>3. \A k \in 1..n, a \in S : step[k][a] = LoopStep(t, a, k) /\ LoopStep(t, a, k) \in S
  BY LoopStepType
<1> HIDE DEF S, step
<1>4. StaysIn(step, n, S)
  BY <1>3 DEF StaysIn
<1> HIDE DEF n
<1>5. PICK f : IsHistory(f, step, n, S, LoopStart)
  BY <1>1, <1>2, <1>4, Rounds
<1>6. ASSUME NEW i \in 0..n PROVE f[i] = Body(f, i)
  <2>1. CASE i = 0
    BY <1>5, <2>1 DEF IsHistory
  <2>2. CASE i # 0
    <3>1. i \in 1..n /\ i - 1 \in 0..n
      BY <1>1, <2>2
    <3>2. f[i] = step[i][f[i - 1]] /\ f[i - 1] \in S
      BY <1>5, <3>1 DEF IsHistory
    <3>3. f[i] = LoopStep(t, f[i - 1], i)
      BY <1>3, <3>1, <3>2
    <3> QED
      BY <2>2, <3>3 DEF LoopStep
  <2> QED
    BY <2>1, <2>2
<1>7. f = [i \in 0..n |-> Body(f, i)]
  <2>1. f = [i \in 0..n |-> f[i]]
    BY <1>5 DEF IsHistory
  <2> HIDE DEF Body
  <2> QED
    BY <1>6, <2>1
<1>8. c = [i \in 0..n |-> Body(c, i)]
  BY <1>7
<1> HIDE DEF c
<1>9. \A i \in 0..n : c[i] = Body(c, i)
  BY <1>8
<1> DEFINE T == {i \in 0..n : LoopInv(t, c[i], i)}
<1>10. 0 \in T
  <2>1. 0 \in 0..n
    BY <1>1
  <2>2. c[0] = LoopStart
    BY <1>9, <2>1
  <2> QED
    BY <1>2, <2>1, <2>2
<1>11. ASSUME NEW i \in 1..n, i - 1 \in T PROVE i \in T
  <2>1. i \in 0..n /\ i # 0
    BY <1>1
  <2>2. LoopInv(t, c[i - 1], i - 1)
    BY <1>11
  <2>3. c[i] = LoopStep(t, c[i - 1], i)
    BY <1>9, <2>1 DEF LoopStep
  <2>4. LoopInv(t, LoopStep(t, c[i - 1], i), i)
    BY <2>2, LoopStepInv DEF n
  <2> QED
    BY <2>1, <2>3, <2>4
<1> HIDE DEF T
<1>12. \A i \in 0..n : i \in T
  BY <1>1, <1>10, <1>11, UpTo
<1>13. LoopInv(t, c[n], n)
  BY <1>1, <1>12 DEF T
<1>14. nw_split(t) = LET all == IF c[n].start <= n THEN Append(c[n].chunks, <<c[n].start, n>>)
                                ELSE c[n].chunks
                     IN  IF all = <<>> THEN << <<1, n>> >> ELSE all
  <2>1. ~(MaxWords <= 0) /\ ~(MaxSeg <= 1)
    OBVIOUS
  <2> HIDE TextAssumption
  <2> QED
    BY <2>1, Zenon DEF nw_split, c, n, LoopStart
<1> QED
  BY <1>13, <1>14 DEF n

\* The bounds nw_split returns cut a text that is not empty into at most MaxSeg
\* pieces, and but for the end of the text only at pauses.
LEMMA SplitIsPartition ==
    ASSUME NEW t \in Text, t # <<>>
    PROVE  /\ Partition(t, nw_split(t), Len(t) + 1)
           /\ Len(nw_split(t)) <= MaxSeg
           /\ \A k \in 1..Len(nw_split(t)) - 1 :
                 Breaks(t, nw_split(t)[k][1], nw_split(t)[k][2])
<1> DEFINE n == Len(t)
<1>1. n \in Nat /\ n > 0
  BY DEF Text
<1>2. CASE MaxWords <= 0 \/ MaxSeg <= 1
  <2>1. nw_split(t) = << <<1, n>> >>
    BY <1>2 DEF nw_split
  <2>2. Partition(t, <<>>, 1)
    <3>1. \A k \in 1..Len(<<>>) : FALSE
      OBVIOUS
    <3>2. Pieces(t, <<>>) = <<>> /\ SubSeq(t, 1, 1 - 1) = <<>> /\ 1 \in 1..n + 1
      BY <1>1, SubSeqEmpty DEF Pieces
    <3>3. FlattenSeq(Pieces(t, <<>>)) = SubSeq(t, 1, 1 - 1)
      BY <3>2, FlattenEmpty
    <3> QED
      BY <1>1, <3>1, <3>2, <3>3 DEF Partition, Bounds
  <2>3. Whole(t, 1, n)
    BY <1>1 DEF Whole
  <2>4. Partition(t, Append(<<>>, <<1, n>>), n + 1)
    BY <2>2, <2>3, PartitionAppend
  <2>5. Append(<<>>, <<1, n>>) = << <<1, n>> >> /\ Len(<< <<1, n>> >>) = 1
    OBVIOUS
  <2>6. \A k \in 1..1 - 1 : FALSE
    OBVIOUS
  <2> QED
    BY <2>1, <2>4, <2>5, <2>6
<1>3. CASE MaxWords > 0 /\ MaxSeg > 1
  <2>1. PICK acc : /\ LoopInv(t, acc, n)
                   /\ nw_split(t) = LET all == IF acc.start <= n THEN Append(acc.chunks, <<acc.start, n>>)
                                               ELSE acc.chunks
                                    IN  IF all = <<>> THEN << <<1, n>> >> ELSE all
    BY <1>3, SplitLoop
  <2> DEFINE m == Len(acc.chunks)
  <2>2. /\ acc.chunks \in Bounds(t) /\ acc.start \in 1..n + 1 /\ m \in Nat /\ m <= MaxSeg - 1
        /\ Partition(t, acc.chunks, acc.start)
        /\ \A k \in 1..m : Breaks(t, acc.chunks[k][1], acc.chunks[k][2])
    BY <2>1 DEF LoopInv, Loop, Bounds
  <2>3. CASE acc.start <= n
    <3> DEFINE all == Append(acc.chunks, <<acc.start, n>>)
    <3>1. <<acc.start, n>> \in (1..n + 1) \X (0..n)
      BY <1>1, <2>2
    <3>2. all # <<>> /\ Len(all) = m + 1 /\ \A k \in 1..m : all[k] = acc.chunks[k]
      <4> DEFINE S == (1..n + 1) \X (0..n)
      <4>1. acc.chunks \in Seq(S) /\ <<acc.start, n>> \in S
        BY <2>2, <3>1 DEF Bounds
      <4> HIDE DEF S
      <4> QED
        BY <4>1, AppendProperties
    <3>3. nw_split(t) = all
      BY <2>1, <2>3, <3>2
    <3>4. Whole(t, acc.start, n)
      BY <1>1, <2>1, <2>2, <2>3 DEF Whole, LoopInv
    <3>5. Partition(t, all, n + 1)
      BY <2>2, <3>4, PartitionAppend
    <3> HIDE DEF all
    <3>6. \A k \in 1..(m + 1) - 1 : Breaks(t, all[k][1], all[k][2])
      <4>1. ASSUME NEW k \in 1..(m + 1) - 1 PROVE Breaks(t, all[k][1], all[k][2])
        <5>1. k \in 1..m
          BY <2>2
        <5> QED
          BY <2>2, <3>2, <5>1
      <4> QED
        BY <4>1
    <3>7. m + 1 <= MaxSeg
      BY <2>2
    <3> QED
      BY <3>2, <3>3, <3>5, <3>6, <3>7
  <2>4. CASE ~(acc.start <= n)
    <3>1. acc.start = n + 1 /\ acc.start # 1
      BY <1>1, <2>2, <2>4
    <3>2. acc.chunks # <<>>
      BY <2>2, <3>1 DEF Partition
    <3>3. nw_split(t) = acc.chunks
      BY <2>1, <2>4, <3>2
    <3>4. m <= MaxSeg /\ \A k \in 1..m - 1 : k \in 1..m
      BY <2>2
    <3> QED
      BY <2>2, <3>1, <3>3, <3>4
  <2> QED
    BY <2>3, <2>4
<1> QED
  BY <1>2, <1>3

\* A piece that begins and ends where words do keeps its characters whole.
LEMMA WholeIsUtf8 ==
    ASSUME NEW t \in Text, is_valid_utf8(t), NEW a, NEW b, Whole(t, a, b)
    PROVE  is_valid_utf8(SubSeq(t, a, b))
<1> DEFINE c == SubSeq(t, a, b)
<1>1. a \in 1..b /\ b \in 1..Len(t) /\ Len(t) \in Nat /\ a \in Int /\ b \in Int
  BY DEF Whole, Text
<1>2. Len(c) = b - a + 1 /\ \A i \in 1..b - a + 1 : c[i] = t[a + i - 1]
  <2>1. \A i \in a..b : t[i] \in ByteClass
    BY <1>1 DEF Text
  <2> QED
    BY <1>1, <2>1, SubSeqProperties
<1>3. Blank # Lead /\ Blank # Trail /\ Lead # Trail
  BY DEF Blank, Lead, Trail
<1> HIDE DEF c
<1>4. ASSUME NEW i \in 1..Len(c), c[i] = Lead
      PROVE  i + 1 \in 1..Len(c) /\ c[i + 1] = Trail
  <2>1. a + i - 1 \in 1..Len(t) /\ t[a + i - 1] = Lead
    BY <1>1, <1>2, <1>4
  <2>2. (a + i - 1) + 1 \in 1..Len(t) /\ t[(a + i - 1) + 1] = Trail
    BY <2>1 DEF is_valid_utf8
  <2>3. a + i - 1 # b
    <3> SUFFICES ASSUME a + i - 1 = b PROVE FALSE
      OBVIOUS
    <3>1. b # Len(t) /\ b < Len(t) /\ t[b + 1] = Trail
      BY <1>1, <2>2
    <3>2. EndsWord(t, b)
      BY <3>1 DEF Whole
    <3> QED
      BY <1>3, <3>1, <3>2 DEF EndsWord
  <2>4. i + 1 \in 1..b - a + 1 /\ a + (i + 1) - 1 = (a + i - 1) + 1
    BY <1>1, <1>2, <2>3
  <2>5. c[i + 1] = t[(a + i - 1) + 1]
    BY <1>2, <2>4
  <2> QED
    BY <1>2, <2>2, <2>4, <2>5
<1>5. ASSUME NEW i \in 1..Len(c), c[i] = Trail
      PROVE  i > 1 /\ c[i - 1] = Lead
  <2>1. a + i - 1 \in 1..Len(t) /\ t[a + i - 1] = Trail
    BY <1>1, <1>2, <1>5
  <2>2. a + i - 1 > 1 /\ t[(a + i - 1) - 1] = Lead
    BY <2>1 DEF is_valid_utf8
  <2>3. i # 1
    <3> SUFFICES ASSUME i = 1 PROVE FALSE
      OBVIOUS
    <3>1. a + i - 1 = a /\ a # 1 /\ a - 1 < Len(t) /\ (a - 1) + 1 = a
      BY <1>1, <2>2
    <3>2. EndsWord(t, a - 1)
      BY <3>1 DEF Whole
    <3>3. t[a] = Blank
      BY <3>1, <3>2 DEF EndsWord
    <3> QED
      BY <1>3, <2>1, <3>1, <3>3
  <2>4. i > 1 /\ i - 1 \in 1..b - a + 1 /\ a + (i - 1) - 1 = (a + i - 1) - 1
    BY <1>1, <1>2, <2>3
  <2>5. c[i - 1] = t[(a + i - 1) - 1]
    BY <1>2, <2>4
  <2> QED
    BY <2>2, <2>4, <2>5
<1> QED
  BY <1>4, <1>5 DEF is_valid_utf8, c

\* Where the splitter breaks, the piece ends with punctuation and closing
\* brackets behind it.
LEMMA BreakIsPause ==
    ASSUME NEW t \in Text, NEW a, NEW b, Whole(t, a, b), Breaks(t, a, b)
    PROVE  \E i \in 1..Len(SubSeq(t, a, b)) :
              /\ SubSeq(t, a, b)[i] \in Stops \cup Pauses
              /\ \A j \in i + 1..Len(SubSeq(t, a, b)) : SubSeq(t, a, b)[j] \in Closers
<1> DEFINE c == SubSeq(t, a, b)
           M == {a} \cup {i \in a..b : t[i] \notin Closers}
<1>1. a \in 1..b /\ b \in 1..Len(t) /\ Len(t) \in Nat /\ a \in Int /\ b \in Int
  BY DEF Whole, Text
<1>2. Len(c) = b - a + 1 /\ \A i \in 1..b - a + 1 : c[i] = t[a + i - 1]
  <2>1. \A i \in a..b : t[i] \in ByteClass
    BY <1>1 DEF Text
  <2> QED
    BY <1>1, <2>1, SubSeqProperties
<1> HIDE DEF c
<1>3. M \subseteq a..b /\ M # {}
  BY <1>1
<1>4. Max(M) \in M /\ \A k \in M : Max(M) >= k
  <2> HIDE DEF M
  <2> QED
    BY <1>1, <1>3, MaxIs
<1>5. t[Max(M)] \in Stops \cup Pauses
  BY DEF Breaks, LastOf
<1> DEFINE i == Max(M) - a + 1
<1>6. Max(M) \in a..b
  BY <1>3, <1>4
<1>7. i \in 1..b - a + 1 /\ a + i - 1 = Max(M)
  <2> HIDE DEF M
  <2> QED
    BY <1>1, <1>6
<1>8. c[i] \in Stops \cup Pauses
  BY <1>2, <1>5, <1>7
<1>9. ASSUME NEW j \in i + 1..b - a + 1 PROVE c[j] \in Closers
  <2>1. j \in 1..b - a + 1 /\ a + j - 1 \in a..b /\ ~(Max(M) >= a + j - 1)
    <3> HIDE DEF M
    <3> QED
      BY <1>1, <1>6
  <2>2. a + j - 1 \notin M
    BY <1>4, <2>1
  <2>3. t[a + j - 1] \in Closers
    BY <2>1, <2>2
  <2> QED
    BY <1>2, <2>1, <2>3
<1> HIDE DEF i
<1> QED
  BY <1>2, <1>7, <1>8, <1>9 DEF c

\* What the chunks of a text are, together and each by itself.
LEMMA ChunksOfText ==
    ASSUME NEW t \in Text, t # <<>>
    PROVE  /\ Chunks(t) \in Seq(Text) /\ FlattenSeq(Chunks(t)) = t
           /\ <<>> \notin Range(Chunks(t)) /\ Len(Chunks(t)) <= MaxSeg
           /\ is_valid_utf8(t) => \A c \in 1..Len(Chunks(t)) : is_valid_utf8(Chunks(t)[c])
           /\ \A c \in 1..Len(Chunks(t)) - 1 :
                 LET chunk == Chunks(t)[c]
                 IN  /\ Head(Chunks(t)[c + 1]) = Blank
                     /\ \E i \in 1..Len(chunk) :
                           /\ chunk[i] \in Stops \cup Pauses
                           /\ \A j \in i + 1..Len(chunk) : chunk[j] \in Closers
<1> DEFINE s == nw_split(t)
           m == Len(s)
           n == Len(t)
<1>1. /\ Partition(t, s, n + 1) /\ m <= MaxSeg
      /\ \A k \in 1..m - 1 : Breaks(t, s[k][1], s[k][2])
  BY SplitIsPartition
<1>2. n \in Nat /\ s \in Bounds(t) /\ m \in Nat
  BY <1>1 DEF Partition, Bounds, Text
<1>3. Chunks(t) = Pieces(t, s)
  BY DEF Chunks, Pieces
<1>4. Pieces(t, s) \in Seq(Text) /\ Len(Pieces(t, s)) = m
  BY <1>2, PiecesType
<1>5. \A c \in 1..m : Pieces(t, s)[c] = SubSeq(t, s[c][1], s[c][2]) /\ Whole(t, s[c][1], s[c][2])
  BY <1>1 DEF Partition, Pieces
<1> HIDE DEF s, m
<1>6. FlattenSeq(Pieces(t, s)) = t
  <2>1. FlattenSeq(Pieces(t, s)) = SubSeq(t, 1, (n + 1) - 1)
    BY <1>1 DEF Partition
  <2>2. (n + 1) - 1 = n
    BY <1>2
  <2>3. SubSeq(t, 1, n) = t
    BY SubSeqFull DEF Text
  <2> QED
    BY <2>1, <2>2, <2>3
<1>7. ASSUME NEW c \in 1..m
      PROVE  /\ Len(Pieces(t, s)[c]) > 0 /\ Head(Pieces(t, s)[c]) = t[s[c][1]]
             /\ Pieces(t, s)[c] # <<>>
  <2> DEFINE a == s[c][1]
             b == s[c][2]
  <2>1. a \in 1..b /\ b \in 1..n /\ a \in Int /\ b \in Int
    BY <1>2, <1>5 DEF Whole
  <2>2. \A i \in a..b : t[i] \in ByteClass
    BY <1>2, <2>1 DEF Text
  <2>3. /\ Len(SubSeq(t, a, b)) = b - a + 1
        /\ \A i \in 1..b - a + 1 : SubSeq(t, a, b)[i] = t[a + i - 1]
    <3> HIDE DEF a, b
    <3> QED
      BY <2>1, <2>2, SubSeqProperties
  <2>4. Len(SubSeq(t, a, b)) > 0 /\ SubSeq(t, a, b)[1] = t[a]
    <3> HIDE DEF a, b
    <3>1. 1 \in 1..b - a + 1 /\ a + 1 - 1 = a /\ b - a + 1 > 0
      BY <2>1
    <3>2. SubSeq(t, a, b)[1] = t[a + 1 - 1]
      BY <2>3, <3>1
    <3> QED
      BY <2>3, <3>1, <3>2
  <2>5. Pieces(t, s)[c] = SubSeq(t, a, b)
    BY <1>5
  <2>6. SubSeq(t, a, b) \in Text
    <3> HIDE DEF a, b
    <3> QED
      BY <2>1, <2>2, SubSeqProperties DEF Text
  <2>7. \A u \in Text : Len(u) > 0 => u # <<>> /\ Head(u) = u[1]
    BY DEF Text
  <2> QED
    BY <2>4, <2>5, <2>6, <2>7
<1>8. <<>> \notin Range(Pieces(t, s))
  <2>1. DOMAIN Pieces(t, s) = 1..m
    BY <1>4
  <2> QED
    BY <1>7, <2>1 DEF Range
<1>9. is_valid_utf8(t) => \A c \in 1..m : is_valid_utf8(Pieces(t, s)[c])
  <2>1. ASSUME is_valid_utf8(t), NEW c \in 1..m PROVE is_valid_utf8(Pieces(t, s)[c])
    <3>1. Whole(t, s[c][1], s[c][2]) /\ Pieces(t, s)[c] = SubSeq(t, s[c][1], s[c][2])
      BY <1>5
    <3>2. is_valid_utf8(SubSeq(t, s[c][1], s[c][2]))
      BY <2>1, <3>1, WholeIsUtf8
    <3> QED
      BY <3>1, <3>2
  <2> QED
    BY <2>1
<1>10. ASSUME NEW c \in 1..m - 1
       PROVE  LET chunk == Pieces(t, s)[c]
              IN  /\ Head(Pieces(t, s)[c + 1]) = Blank
                  /\ \E i \in 1..Len(chunk) :
                        /\ chunk[i] \in Stops \cup Pauses
                        /\ \A j \in i + 1..Len(chunk) : chunk[j] \in Closers
  <2>1. c \in 1..m /\ c + 1 \in 1..m /\ c # m
    BY <1>2
  <2>2. Whole(t, s[c][1], s[c][2]) /\ Breaks(t, s[c][1], s[c][2])
    BY <1>1, <1>5, <2>1
  <2>3. Pieces(t, s)[c] = SubSeq(t, s[c][1], s[c][2])
    BY <1>5, <2>1
  <2>4. s[c][2] + 1 = s[c + 1][1]
    BY <1>1, <2>1 DEF Partition, m
  <2>5. s[c + 1][1] \in 1..n /\ s[c][2] \in 1..n
    <3>1. Whole(t, s[c + 1][1], s[c + 1][2])
      BY <1>5, <2>1
    <3> QED
      BY <1>2, <2>2, <3>1 DEF Whole
  <2>6. t[s[c + 1][1]] = Blank
    <3>1. s[c][2] < n /\ EndsWord(t, s[c][2])
      BY <1>2, <2>2, <2>4, <2>5 DEF Breaks
    <3> QED
      BY <2>4, <3>1 DEF EndsWord
  <2>7. Head(Pieces(t, s)[c + 1]) = Blank
    BY <1>7, <2>1, <2>6
  <2> QED
    BY <2>2, <2>3, <2>7, BreakIsPause
<1> QED
  BY <1>1, <1>3, <1>4, <1>6, <1>8, <1>9, <1>10
-----------------------------------------------------------------------------
(* The steps of application and device task.                               *)

\* The chunks of a write.
RequestOf(t, converts) ==
    IF t = <<>> THEN <<>> ELSE Chunks(nw_transcode_to_utf8(t, converts))

\* What has been written of the text, and what was made of each write.
TextInv ==
    /\ text \in Text /\ capacity \in BufferLens /\ pos \in 0..Len(text)
    /\ stage \in {"translate", "write", "done"}
    /\ writes \in Seq(Text)
    /\ Len(requests) = IF stage = "write" THEN Len(writes) - 1 ELSE Len(writes)
    /\ requests \in Seq(Seq(Text))
    /\ stage = "write" => writes # <<>>
    /\ codesets \in Seq(BOOLEAN) /\ Len(codesets) = Len(requests)
    /\ \A k \in 1..Len(requests) : requests[k] = RequestOf(writes[k], codesets[k])

\* A buffer of one byte holds no text, and its result cannot say so.
RoomToResume == \A n \in BufferLens : n > 1

\* The writes are what the application was told was translated.
WrittenInv ==
    /\ FlattenSeq(writes) = SubSeq(text, 1, pos)
    /\ stage = "done" => pos = Len(text)

\* What Translate does with a text that is left.
LEMMA TranslateFacts ==
    ASSUME NEW t \in Text, NEW size \in Int
    PROVE  /\ Translate(t, size).buffer \in Text
           /\ Translate(t, size).rtn \in Int /\ -Translate(t, size).rtn \in 0..Len(t)
           /\ size > 1 =>
                /\ Translate(t, size).rtn < 0 =>
                      Translate(t, size).buffer = SubSeq(t, 1, -Translate(t, size).rtn)
                /\ ~(Translate(t, size).rtn < 0) => Translate(t, size).buffer = t
<1> DEFINE n == Len(t)
           i == IF n < size - 1 THEN n ELSE size - 1
<1>1. n \in Nat /\ i \in Int /\ i <= n
  BY DEF Text
<1>2. CASE size <= 0
  <2>1. Translate(t, size) = [buffer |-> <<>>, rtn |-> 0]
    BY <1>2 DEF Translate
  <2>2. <<>> \in Text /\ -0 \in 0..n /\ ~(size > 1)
    BY <1>1, <1>2 DEF Text
  <2> QED
    BY <2>1, <2>2
<1>3. CASE size > 0
  <2>1. Translate(t, size) = [buffer |-> SubSeq(t, 1, i), rtn |-> IF i < n THEN -i ELSE 0]
    BY <1>3 DEF Translate
  <2>2. i \in 0..n /\ (size > 1 /\ i < n => i > 0)
    BY <1>1, <1>3
  <2>3. 1 \in 1..Len(t) + 1
    BY <1>1
  <2>4. SubSeq(t, 1, i) \in Text
    BY <2>2, <2>3, PieceType
  <2>5. ~(i < n) => SubSeq(t, 1, i) = t
    <3>1. SubSeq(t, 1, n) = t
      BY SubSeqFull DEF Text
    <3>2. ~(i < n) => i = n
      BY <1>1
    <3> HIDE DEF i
    <3> QED
      BY <3>1, <3>2
  <2>6. /\ Translate(t, size).buffer = SubSeq(t, 1, i)
        /\ Translate(t, size).rtn = IF i < n THEN -i ELSE 0
    BY <2>1
  <2> HIDE DEF i
  <2>7. -(-i) = i /\ -0 \in 0..n /\ 0 \in Int /\ -i \in Int /\ ~(0 < 0)
    BY <1>1, <2>2
  <2>8. CASE i < n
    <3>1. Translate(t, size).rtn = -i
      BY <2>6, <2>8
    <3>2. size > 1 => -i < 0
      BY <2>2, <2>8
    <3> HIDE DEF n
    <3> QED
      BY <2>2, <2>4, <2>6, <2>7, <3>1, <3>2 DEF n
  <2>9. CASE ~(i < n)
    <3>1. Translate(t, size).rtn = 0
      BY <2>6, <2>9
    <3> QED
      BY <2>4, <2>5, <2>6, <2>7, <2>9, <3>1
  <2> QED
    BY <2>8, <2>9
<1> QED
  BY <1>2, <1>3

LEMMA InitInv == Init => TextInv /\ WrittenInv
<1> SUFFICES ASSUME Init PROVE TextInv /\ WrittenInv
  OBVIOUS
<1>1. text \in Text /\ Len(text) \in Nat
  BY DEF Init, Text
<1>2. FlattenSeq(<<>>) = SubSeq(text, 1, 0)
  <2>1. SubSeq(text, 1, 0) = <<>>
    BY SubSeqEmpty
  <2> QED
    BY <2>1, FlattenEmpty
<1> QED
  BY <1>1, <1>2 DEF Init, TextInv, WrittenInv

LEMMA TranslateNextInv == TextInv /\ TranslateNext => TextInv'
<1> SUFFICES ASSUME TextInv, TranslateNext PROVE TextInv'
  OBVIOUS
<1> DEFINE n == Len(text)
           t == SubSeq(text, pos + 1, n)
           r == Translate(t, capacity)
<1>1. n \in Nat /\ pos \in 0..n /\ text \in Text /\ capacity \in Int /\ writes \in Seq(Text)
  BY DEF TextInv, Text
<1>2. t \in Text
  <2>1. pos + 1 \in 1..n + 1 /\ n \in 0..n
    BY <1>1
  <2> QED
    BY <1>1, <2>1, PieceType
<1>3. Len(t) = n - pos
  <2>1. \A i \in pos + 1..n : text[i] \in ByteClass
    BY <1>1 DEF Text
  <2>2. Len(t) = IF pos + 1 <= n THEN n - (pos + 1) + 1 ELSE 0
    <3>1. pos + 1 \in Int /\ n \in Int
      BY <1>1
    <3> HIDE DEF n
    <3> QED
      BY <2>1, <3>1, SubSeqProperties
  <2> HIDE DEF t, n
  <2> QED
    BY <1>1, <2>2
<1> HIDE DEF t
<1>4. r.buffer \in Text /\ r.rtn \in Int /\ -r.rtn \in 0..n - pos
  BY <1>1, <1>2, <1>3, TranslateFacts
<1>5. /\ stage = "translate" /\ stage' = "write" /\ writes' = Append(writes, r.buffer)
      /\ pos' = IF r.rtn < 0 THEN pos - r.rtn ELSE n
      /\ text' = text /\ capacity' = capacity /\ requests' = requests /\ codesets' = codesets
  BY DEF TranslateNext, t
<1> HIDE DEF r
<1>6. /\ writes' \in Seq(Text) /\ Len(writes') = Len(writes) + 1 /\ writes' # <<>>
      /\ \A k \in 1..Len(writes) : writes'[k] = writes[k]
  BY <1>1, <1>4, <1>5, AppendProperties
<1>7. pos' \in 0..n
  <2> HIDE DEF n
  <2> QED
    BY <1>1, <1>4, <1>5
<1>8. Len(requests) = Len(writes) /\ Len(writes) \in Nat /\ Len(requests') = Len(writes') - 1
  BY <1>1, <1>5, <1>6 DEF TextInv
<1>9. \A k \in 1..Len(requests') : requests'[k] = RequestOf(writes'[k], codesets'[k])
  BY <1>5, <1>6, <1>8 DEF TextInv
<1> QED
  BY <1>5, <1>6, <1>7, <1>8, <1>9 DEF TextInv

LEMMA WriteInv == TextInv /\ Write => TextInv'
<1> SUFFICES ASSUME TextInv, Write PROVE TextInv'
  OBVIOUS
<1> DEFINE m == Len(writes)
           t == writes[m]
<1>1. writes \in Seq(Text) /\ writes # <<>> /\ stage = "write" /\ Len(requests) = m - 1
  BY DEF TextInv, Write
<1>2. m \in Nat /\ m > 0 /\ t \in Text
  BY <1>1
<1>3. PICK converts \in BOOLEAN :
        /\ requests' = Append(requests, RequestOf(t, converts))
        /\ codesets' = Append(codesets, converts)
  BY DEF Write, Last, RequestOf
<1> DEFINE new == RequestOf(t, converts)
<1>4. /\ stage' \in {"translate", "done"}
      /\ text' = text /\ capacity' = capacity /\ pos' = pos /\ writes' = writes
  BY DEF Write
<1>5. new \in Seq(Text)
  BY <1>2, Transcoded, ChunksOfText DEF RequestOf
<1> HIDE DEF new
<1>6. /\ requests' \in Seq(Seq(Text)) /\ Len(requests') = m /\ requests'[m] = new
      /\ \A k \in 1..m - 1 : requests'[k] = requests[k]
  <2>1. requests \in Seq(Seq(Text)) /\ requests' = Append(requests, new)
    BY <1>3 DEF TextInv, new
  <2>2. /\ Append(requests, new) \in Seq(Seq(Text))
        /\ Len(Append(requests, new)) = Len(requests) + 1
        /\ Append(requests, new)[Len(requests) + 1] = new
        /\ \A k \in 1..Len(requests) : Append(requests, new)[k] = requests[k]
    BY <1>5, <2>1, AppendProperties
  <2>3. (m - 1) + 1 = m
    BY <1>2
  <2> HIDE DEF m
  <2> QED
    BY <1>1, <2>1, <2>2, <2>3
<1>7. /\ codesets' \in Seq(BOOLEAN) /\ Len(codesets') = m /\ codesets'[m] = converts
      /\ \A k \in 1..m - 1 : codesets'[k] = codesets[k]
  <2>1. codesets \in Seq(BOOLEAN) /\ Len(codesets) = m - 1
    BY <1>1 DEF TextInv
  <2>2. (m - 1) + 1 = m
    BY <1>2
  <2>3. /\ Append(codesets, converts) \in Seq(BOOLEAN)
        /\ Len(Append(codesets, converts)) = Len(codesets) + 1
        /\ Append(codesets, converts)[Len(codesets) + 1] = converts
        /\ \A k \in 1..Len(codesets) : Append(codesets, converts)[k] = codesets[k]
    BY <2>1, AppendProperties
  <2> HIDE DEF m
  <2> QED
    BY <1>3, <2>1, <2>2, <2>3
<1>8. \A k \in 1..m : requests'[k] = RequestOf(writes[k], codesets'[k])
  <2>1. ASSUME NEW k \in 1..m
        PROVE  requests'[k] = RequestOf(writes[k], codesets'[k])
    <3>1. CASE k = m
      BY <1>6, <1>7, <3>1 DEF new
    <3>2. CASE k # m
      <4>1. k \in 1..m - 1
        BY <1>2, <3>2
      <4> QED
        BY <1>1, <1>6, <1>7, <4>1 DEF TextInv
    <3> QED
      BY <3>1, <3>2
  <2> QED
    BY <2>1
<1> QED
  BY <1>4, <1>6, <1>7, <1>8 DEF TextInv

LEMMA StutterInv ==
    /\ TextInv /\ UNCHANGED vars => TextInv'
    /\ WrittenInv /\ UNCHANGED vars => WrittenInv'
BY DEF TextInv, WrittenInv, vars

\* Every text is cut into the chunks of its writes, whatever its size.
LEMMA Written == Spec => []TextInv
<1>1. TextInv /\ [Next]_vars => TextInv'
  BY TranslateNextInv, WriteInv, StutterInv DEF Next
<1> QED
  BY <1>1, InitInv, PTL DEF Spec

\* The piece Translate is given continues the text that is written.
LEMMA WrittenStep ==
    ASSUME RoomToResume, TextInv, WrittenInv, Next
    PROVE  WrittenInv'
<1> DEFINE n == Len(text)
           t == SubSeq(text, pos + 1, n)
           r == Translate(t, capacity)
<1>1. n \in Nat /\ pos \in 0..n /\ text \in Text /\ capacity \in Int /\ writes \in Seq(Text)
      /\ capacity > 1
  BY DEF TextInv, Text, RoomToResume
<1>2. CASE Write
  <2>1. /\ text' = text /\ pos' = pos /\ writes' = writes
        /\ stage' = "done" => ~(pos < n)
    BY <1>2 DEF Write
  <2> HIDE DEF n
  <2> QED
    BY <1>1, <2>1 DEF WrittenInv, n
<1>3. CASE TranslateNext
  <2>1. t \in Text
    <3>1. pos + 1 \in 1..n + 1 /\ n \in 0..n
      BY <1>1
    <3> QED
      BY <1>1, <3>1, PieceType
  <2>2. Len(t) = n - pos
    <3>1. \A i \in pos + 1..n : text[i] \in ByteClass
      BY <1>1 DEF Text
    <3>2. Len(t) = IF pos + 1 <= n THEN n - (pos + 1) + 1 ELSE 0
      <4>1. pos + 1 \in Int /\ n \in Int
        BY <1>1
      <4> HIDE DEF n
      <4> QED
        BY <3>1, <4>1, SubSeqProperties
    <3> HIDE DEF t, n
    <3> QED
      BY <1>1, <3>2
  <2>3. /\ stage' = "write" /\ writes' = Append(writes, r.buffer) /\ text' = text
        /\ pos' = IF r.rtn < 0 THEN pos - r.rtn ELSE n
    BY <1>3 DEF TranslateNext
  <2> HIDE DEF t
  <2>4. /\ r.buffer \in Text /\ r.rtn \in Int /\ -r.rtn \in 0..n - pos
        /\ r.rtn < 0 => r.buffer = SubSeq(t, 1, -r.rtn)
        /\ ~(r.rtn < 0) => r.buffer = t
    BY <1>1, <2>1, <2>2, TranslateFacts
  <2>5. FlattenSeq(writes') = SubSeq(text, 1, pos) \o r.buffer
    BY <1>1, <2>3, <2>4, FlattenAppend DEF WrittenInv, Text
  <2> HIDE DEF r
  <2>6. r.buffer = SubSeq(text, pos + 1, pos')
    <3>1. CASE r.rtn < 0
      <4> DEFINE i == -r.rtn
      <4>1. i \in 1..n - pos /\ pos' = pos + i
        <5> HIDE DEF n
        <5>1. pos' = pos - r.rtn /\ r.rtn \in Int /\ -r.rtn \in 0..n - pos
          BY <2>3, <2>4, <3>1
        <5> QED
          BY <1>1, <3>1, <5>1
      <4>2. /\ pos + 1 \in 1..n /\ n \in 1..n /\ 1 \in 1..n - (pos + 1) + 1
            /\ i \in 1..n - (pos + 1) + 1 /\ (pos + 1) + 1 - 1 = pos + 1 /\ (pos + 1) + i - 1 = pos + i
        BY <1>1, <4>1
      <4>3. r.buffer = SubSeq(t, 1, i)
        BY <2>4, <3>1
      <4> HIDE DEF i
      <4>4. SubSeq(SubSeq(text, pos + 1, n), 1, i)
              = SubSeq(text, (pos + 1) + 1 - 1, (pos + 1) + i - 1)
        BY <1>1, <4>2, SubSeqOfSubSeq DEF Text
      <4> QED
        BY <4>1, <4>2, <4>3, <4>4 DEF t
    <3>2. CASE ~(r.rtn < 0)
      BY <2>3, <2>4, <3>2 DEF t
    <3> QED
      BY <3>1, <3>2
  <2>7. pos' \in pos..n
    <3> HIDE DEF n
    <3> QED
      BY <1>1, <2>3, <2>4
  <2>8. SubSeq(text, 1, pos) \o SubSeq(text, pos + 1, pos') = SubSeq(text, 1, pos')
    <3>1. 1 \in 1..n + 1 /\ pos \in 1 - 1..n /\ pos' \in pos..n
      BY <1>1, <2>7
    <3> QED
      BY <1>1, <3>1, ConcatAdjacentSubSeq DEF Text
  <2> QED
    BY <2>3, <2>5, <2>6, <2>8 DEF WrittenInv
<1> QED
  BY <1>2, <1>3 DEF Next

-----------------------------------------------------------------------------
(* The theorems.                                                           *)

\* A request that has a chunk was made of what was written.
LEMMA RequestIs ==
    ASSUME TextInv, NEW k \in 1..Len(requests), NEW c \in 1..Len(requests[k])
    PROVE  /\ writes[k] \in Text /\ writes[k] # <<>> /\ codesets[k] \in BOOLEAN
           /\ requests[k] = Chunks(nw_transcode_to_utf8(writes[k], codesets[k]))
<1>1. requests[k] = RequestOf(writes[k], codesets[k])
  BY DEF TextInv
<1>2. requests[k] # <<>>
  OBVIOUS
<1>3. writes[k] \in Text /\ codesets[k] \in BOOLEAN
  BY DEF TextInv
<1> QED
  BY <1>1, <1>2, <1>3 DEF RequestOf

\* The chunks of a request are its text, converted or passed through.
LEMMA RequestFlat ==
    ASSUME TextInv, NEW k \in 1..Len(requests)
    PROVE  /\ FlattenSeq(requests[k]) = nw_transcode_to_utf8(writes[k], codesets[k])
           /\ <<>> \notin Range(requests[k]) /\ Len(requests[k]) <= MaxSeg
           /\ writes[k] \in Text /\ codesets[k] \in BOOLEAN
<1>1. writes[k] \in Text /\ codesets[k] \in BOOLEAN
  BY DEF TextInv
<1>2. requests[k] = RequestOf(writes[k], codesets[k])
  BY DEF TextInv
<1>3. CASE writes[k] = <<>>
  <2>1. requests[k] = <<>> /\ nw_transcode_to_utf8(writes[k], codesets[k]) = <<>>
    BY <1>2, <1>3, EmptyIsUtf8 DEF RequestOf, nw_transcode_to_utf8
  <2>2. Range(<<>>) = {} /\ Len(<<>>) = 0
    BY DEF Range
  <2> QED
    BY <1>1, <2>1, <2>2, FlattenEmpty
<1>4. CASE writes[k] # <<>>
  <2>1. requests[k] = Chunks(nw_transcode_to_utf8(writes[k], codesets[k]))
    BY <1>2, <1>4 DEF RequestOf
  <2> QED
    BY <1>1, <1>4, <2>1, Transcoded, ChunksOfText
<1> QED
  BY <1>3, <1>4

\* The chunks of every write are its text, converted or passed through, none is
\* empty, and they fit the arrays of session_send_recv, for texts of any length
\* (nw_split).
THEOREM ChunksAreTheText == Spec => []ChunksPartitionText
<1>1. TextInv => ChunksPartitionText
  BY RequestFlat DEF ChunksPartitionText
<1> QED
  BY <1>1, Written, PTL

\* A write that is UTF-8 is sent as it is; one that is not is sent in requests
\* that are UTF-8 each if codesets.library is there and converts it, and as it
\* is otherwise (nw_transcode_to_utf8, nw_split), for any text, wherever
\* Translate cut it.
THEOREM EncodedOnce == Spec => []Utf8OrAsWritten
<1>1. TextInv => Utf8OrAsWritten
  <2> SUFFICES ASSUME TextInv, NEW k \in 1..Len(requests)
               PROVE  /\ is_valid_utf8(writes[k]) \/ codesets[k] =>
                            \A c \in 1..Len(requests[k]) : is_valid_utf8(requests[k][c])
                      /\ is_valid_utf8(writes[k]) \/ ~codesets[k] =>
                            FlattenSeq(requests[k]) = writes[k]
    BY DEF Utf8OrAsWritten
  <2>1. ASSUME is_valid_utf8(writes[k]) \/ codesets[k], NEW c \in 1..Len(requests[k])
        PROVE  is_valid_utf8(requests[k][c])
    <3> DEFINE t == nw_transcode_to_utf8(writes[k], codesets[k])
    <3>1. /\ writes[k] \in Text /\ writes[k] # <<>> /\ codesets[k] \in BOOLEAN
          /\ requests[k] = Chunks(t)
      BY RequestIs
    <3>2. t \in Text /\ t # <<>> /\ is_valid_utf8(t)
      BY <2>1, <3>1, Transcoded
    <3> HIDE DEF t
    <3> QED
      BY <3>1, <3>2, ChunksOfText
  <2>2. is_valid_utf8(writes[k]) \/ ~codesets[k] => FlattenSeq(requests[k]) = writes[k]
    BY RequestFlat, Transcoded
  <2> QED
    BY <2>1, <2>2
<1> QED
  BY <1>1, Written, PTL

\* nw_split breaks a text behind punctuation and the brackets that close on
\* it, and at the blank that follows, and nowhere else.
THEOREM PausesOnly == Spec => []BreaksInPauses
<1>1. TextInv => BreaksInPauses
  <2> SUFFICES ASSUME TextInv, NEW k \in 1..Len(requests), NEW c \in 1..Len(requests[k]) - 1
               PROVE  LET chunk == requests[k][c]
                      IN  /\ Head(requests[k][c + 1]) = Blank
                          /\ \E i \in 1..Len(chunk) :
                                /\ chunk[i] \in Stops \cup Pauses
                                /\ \A j \in i + 1..Len(chunk) : chunk[j] \in Closers
    BY DEF BreaksInPauses
  <2> DEFINE t == nw_transcode_to_utf8(writes[k], codesets[k])
  <2>1. /\ writes[k] \in Text /\ writes[k] # <<>> /\ codesets[k] \in BOOLEAN
        /\ requests[k] = Chunks(t)
    <3>1. requests[k] \in Seq(Text)
      BY DEF TextInv
    <3>2. Len(requests[k]) \in Nat
      BY <3>1
    <3>3. c \in 1..Len(requests[k])
      BY <3>2
    <3> QED
      BY <3>3, RequestIs
  <2>2. t \in Text /\ t # <<>>
    BY <2>1, Transcoded
  <2> HIDE DEF t
  <2> QED
    BY <2>1, <2>2, ChunksOfText
<1> QED
  BY <1>1, Written, PTL

\* With a buffer of at least two bytes the writes are the text, nothing twice
\* and nothing left out (Translate, resumed at the position it returns).
THEOREM NothingLost == RoomToResume => (Spec => []WholeTextWritten)
<1> SUFFICES ASSUME RoomToResume PROVE Spec => []WholeTextWritten
  OBVIOUS
<1>1. TextInv /\ WrittenInv /\ [Next]_vars => WrittenInv'
  BY WrittenStep, StutterInv
<1>2. TextInv /\ WrittenInv => WholeTextWritten
  <2> SUFFICES ASSUME TextInv, WrittenInv, stage = "done" PROVE FlattenSeq(writes) = text
    BY DEF WholeTextWritten
  <2>1. FlattenSeq(writes) = SubSeq(text, 1, Len(text))
    BY DEF WrittenInv
  <2> QED
    BY <2>1, SubSeqFull DEF TextInv, Text
<1> QED
  BY <1>1, <1>2, InitInv, Written, PTL DEF Spec
=============================================================================
