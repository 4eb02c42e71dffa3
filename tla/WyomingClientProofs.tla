------------------------- MODULE WyomingClientProofs -------------------------
(***************************************************************************)
(* Theorems about WyomingClient, for any number of runs, payloads and      *)
(* buffers of any size.                                                    *)
(*                                                                         *)
(* The first part is the types, the second what is acquired.  The third    *)
(* places the reader on the wire: what it has consumed ends at a certain   *)
(* place of the answer, and what it still has to read is the wire from     *)
(* there on, unless the connection is dry.                                 *)
(***************************************************************************)
EXTENDS WyomingClient, FiniteSetTheorems, RecursionFacts

-----------------------------------------------------------------------------
(* Types.                                                                  *)

Kinds == {"start", "chunk", "info", "note", "stop"}
Units == [part : {"head", "newline", "data", "pcm", "junk"}, kind : Kinds, run : Nat, n : Nat]

LEMMA ScriptIs ==
    /\ DOMAIN Script = 1..7 /\ ToSet(Script) = Kinds
    /\ \A i \in 1..7 : Script[i] \in Kinds
    /\ Script[1] = "start" /\ Script[2] = "chunk" /\ Script[3] = "info"
    /\ Script[4] = "chunk" /\ Script[5] = "note" /\ Script[6] = "stop"
<1>1. /\ DOMAIN Script = 1..7
      /\ Script[1] = "start" /\ Script[2] = "chunk" /\ Script[3] = "info"
      /\ Script[4] = "chunk" /\ Script[5] = "note" /\ Script[6] = "stop" /\ Script[7] = "note"
  BY DEF Script
<1>2. \A i \in 1..7 : i \in {1, 2, 3, 4, 5, 6, 7}
  OBVIOUS
<1>3. \A i \in 1..7 : Script[i] \in Kinds
  BY <1>1, <1>2 DEF Kinds
<1>4. ToSet(Script) = {Script[i] : i \in 1..7}
  BY <1>1 DEF ToSet
<1>5. Kinds \subseteq {Script[i] : i \in 1..7}
  <2>1. {1, 2, 3, 4, 5, 6, 7} \subseteq 1..7
    OBVIOUS
  <2> QED
    BY <1>1, <2>1 DEF Kinds
<1> QED
  BY <1>1, <1>3, <1>4, <1>5

LEMMA ConstantsAre ==
    /\ Runs \in Nat /\ Runs >= 1 /\ Payload \in Nat /\ Payload >= 1 /\ Piece \in Nat /\ Piece >= 1
    /\ RbufRoom \in Nat /\ RbufRoom >= 1 /\ SinkRoom \in Nat /\ SinkRoom >= 1
BY ClientAssumption

LEMMA PayloadType ==
    ASSUME NEW kind
    PROVE  PayloadOf(kind) \in 0..Payload + Piece
BY ConstantsAre DEF PayloadOf

\* Of a sequence, its first part and the rest.
LEMMA Cut ==
    ASSUME NEW X, NEW s \in Seq(X), NEW n \in 0..Len(s)
    PROVE  /\ SubSeq(s, 1, n) \in Seq(X) /\ SubSeq(s, n + 1, Len(s)) \in Seq(X)
           /\ Len(SubSeq(s, 1, n)) = n /\ Len(SubSeq(s, n + 1, Len(s))) = Len(s) - n
           /\ \A j \in 1..n : SubSeq(s, 1, n)[j] = s[j]
           /\ \A j \in 1..Len(s) - n : SubSeq(s, n + 1, Len(s))[j] = s[n + j]
<1>1. Len(s) \in Nat /\ n \in Nat /\ n <= Len(s)
  OBVIOUS
<1>2. \A i \in 1..Len(s) : s[i] \in X
  OBVIOUS
<1>3. /\ SubSeq(s, 1, n) \in Seq(X) /\ Len(SubSeq(s, 1, n)) = n
      /\ \A j \in 1..n : SubSeq(s, 1, n)[j] = s[j]
  <2>1. \A i \in 1..n : s[i] \in X
    BY <1>1, <1>2
  <2>2. /\ SubSeq(s, 1, n) \in Seq(X)
        /\ Len(SubSeq(s, 1, n)) = (IF 1 <= n THEN n - 1 + 1 ELSE 0)
        /\ \A i \in 1..n - 1 + 1 : SubSeq(s, 1, n)[i] = s[1 + i - 1]
    BY <1>1, <2>1, SubSeqProperties
  <2>3. (IF 1 <= n THEN n - 1 + 1 ELSE 0) = n /\ n - 1 + 1 = n /\ \A i \in 1..n : 1 + i - 1 = i
    BY <1>1
  <2> QED
    BY <2>2, <2>3
<1>4. /\ SubSeq(s, n + 1, Len(s)) \in Seq(X) /\ Len(SubSeq(s, n + 1, Len(s))) = Len(s) - n
      /\ \A j \in 1..Len(s) - n : SubSeq(s, n + 1, Len(s))[j] = s[n + j]
  <2> DEFINE l == Len(s)
  <2>1. \A i \in n + 1..l : s[i] \in X
    BY <1>1, <1>2
  <2>2. l \in Nat /\ n + 1 \in Nat
    BY <1>1
  <2> HIDE DEF l
  <2>3. /\ SubSeq(s, n + 1, l) \in Seq(X)
        /\ Len(SubSeq(s, n + 1, l)) = (IF n + 1 <= l THEN l - (n + 1) + 1 ELSE 0)
        /\ \A i \in 1..l - (n + 1) + 1 : SubSeq(s, n + 1, l)[i] = s[n + 1 + i - 1]
    BY <2>1, <2>2, SubSeqProperties
  <2>4. (IF n + 1 <= l THEN l - (n + 1) + 1 ELSE 0) = l - n /\ l - (n + 1) + 1 = l - n
    BY <1>1 DEF l
  <2>5. \A i \in 1..l - n : n + 1 + i - 1 = n + i
    BY <1>1, <2>2
  <2> QED
    BY <2>3, <2>4, <2>5 DEF l
<1> QED
  BY <1>3, <1>4

\* The sequences are of units, a run is not begun too often, and a payload that
\* is being read is not complete yet.
TypeInv ==
    /\ TypeOK /\ left \in Nat
    /\ stream \in Seq(Units) /\ rbuf \in Seq(Units) /\ piece \in Seq(Units)
    /\ got \in Seq(Units) /\ sink \in Seq(Units)
    /\ pc \in {"net_init", "outfile"} => run = 0
    /\ pc = "connect" => run < Runs
    /\ pc = "buf" /\ prog = "say" => run = 0
    /\ pc \in {"open", "payload"} => left >= 1 /\ Len(piece) < Min({left, Piece})

\* The events of an answer.
LEMMA WireEventType ==
    ASSUME NEW r \in Nat, NEW i \in 1..7
    PROVE  WireEvent(r, i) \in Seq(Units)
<1> DEFINE kind == Script[i]
           before == Payload * Cardinality({j \in 1..(i - 1) : Script[j] = "chunk"})
           h == Unit("head", kind, r, 0)
           l == Unit("newline", kind, r, 0)
           d == Unit("data", kind, r, 0)
           p == [n \in 1..PayloadOf(kind) |->
                   Unit(IF kind = "chunk" THEN "pcm" ELSE "junk", kind, r, before + n)]
<1>1. before \in Nat
  <2>1. IsFiniteSet({j \in 1..(i - 1) : Script[j] = "chunk"})
    <3>1. IsFiniteSet(1..(i - 1))
      BY FS_Interval
    <3> QED
      BY <3>1, FS_Subset
  <2>2. Cardinality({j \in 1..(i - 1) : Script[j] = "chunk"}) \in Nat
    BY <2>1, FS_CardinalityType
  <2> QED
    BY <2>2, ConstantsAre
<1> HIDE DEF before
<1>2. kind \in Kinds
  BY ScriptIs
<1> HIDE DEF kind
<1>3. h \in Units /\ l \in Units /\ d \in Units
  BY <1>2 DEF Unit, Units
<1>4. p \in Seq(Units)
  <2>1. PayloadOf(kind) \in Nat
    BY PayloadType, ConstantsAre
  <2>2. \A n \in 1..PayloadOf(kind) :
          Unit(IF kind = "chunk" THEN "pcm" ELSE "junk", kind, r, before + n) \in Units
    BY <1>1, <1>2 DEF Unit, Units
  <2> QED
    BY <2>1, <2>2, IsASeq
<1>5. WireEvent(r, i) = <<h, l>> \o (IF HasData(kind) THEN <<d>> ELSE <<>>) \o p
  BY DEF WireEvent, kind, before
<1> HIDE DEF h, l, d, p
<1> QED
  BY <1>3, <1>4, <1>5

Answer(r) == [i \in DOMAIN Script |-> WireEvent(r, i)]

LEMMA AnswerType ==
    ASSUME NEW r \in Nat
    PROVE  /\ Answer(r) \in Seq(Seq(Units)) /\ Len(Answer(r)) = 7
           /\ Wire(r) = FlattenSeq(Answer(r)) /\ Wire(r) \in Seq(Units)
           /\ \A i \in 1..7 : Answer(r)[i] = WireEvent(r, i)
<1>1. Answer(r) = [i \in 1..7 |-> WireEvent(r, i)]
  BY ScriptIs DEF Answer
<1>2. \A i \in 1..7 : WireEvent(r, i) \in Seq(Units)
  BY WireEventType
<1>3. Answer(r) \in Seq(Seq(Units)) /\ Len(Answer(r)) = 7
  <2>1. 7 \in Nat
    OBVIOUS
  <2> QED
    BY <1>1, <1>2, <2>1, IsASeq
<1>4. Wire(r) = FlattenSeq(Answer(r))
  BY DEF Wire, Answer
<1> QED
  BY <1>1, <1>3, <1>4, FlattenType

Tags == {"none", "garbage"} \cup Kinds
PCs  == {"net_init", "outfile", "connect", "buf", "send", "event", "data", "open",
         "payload", "skip", "finish", "exit", "done"}
All  == NetParts \cup SinkParts \cup {"file", "buf", "sock"}

\* The types in groups: what the program is and does, what it holds, what it
\* has read, and what it has put out.
ControlType ==
    /\ prog \in {"probe", "say"} /\ amiga \in BOOLEAN /\ pc \in PCs /\ run \in 0..Runs
    /\ ending \in {"none", "fin", "reset", "hung"}
    /\ opened \in {"not", "ok", "failed"} /\ status \in {"none", "ok", "failed"}
    /\ rc \in 0..1 /\ mishap \in {"none", "cut", "other"}
    /\ pc \in {"net_init", "outfile"} => run = 0
    /\ pc = "connect" => run < Runs
    /\ pc = "buf" /\ prog = "say" => run = 0

ReadType ==
    /\ stream \in Seq(Units) /\ rbuf \in Seq(Units) /\ Len(rbuf) <= RbufRoom
    /\ hdr \in Tags /\ line \in Tags /\ event \in Tags
    /\ left \in 0..Payload + Piece
    /\ piece \in Seq(Units) /\ Len(piece) < Piece
    /\ pc \in {"open", "payload"} => left >= 1 /\ Len(piece) < Min({left, Piece})

OutType ==
    /\ got \in Seq(Units) /\ sink \in Seq(Units)
    /\ amiga /\ prog = "say" => Len(sink) <= SinkRoom

LEMMA TypeInvIs ==
    TypeInv <=> ControlType /\ held \subseteq All /\ ReadType /\ OutType
<1>1. {hdr, line, event} \subseteq Tags <=> hdr \in Tags /\ line \in Tags /\ event \in Tags
  OBVIOUS
<1>2. left \in Nat /\ left <= Payload + Piece <=> left \in 0..Payload + Piece
  BY ConstantsAre
<1>3. {"none", "garbage"} \cup ToSet(Script) = Tags
  BY ScriptIs DEF Tags
<1> HIDE DEF Tags
<1> QED
  BY <1>1, <1>2, <1>3 DEF TypeInv, TypeOK, ControlType, ReadType, OutType, PCs, All

LEMMA TypeInvNext ==
    TypeInv' <=> ControlType' /\ held' \subseteq All /\ ReadType' /\ OutType'
<1>1. (TypeInv <=> ControlType /\ held \subseteq All /\ ReadType /\ OutType)'
  BY TypeInvIs, PTL
<1>2. All' = All
  BY DEF All, NetParts, SinkParts, TimerParts, AhiParts
<1> QED
  BY <1>1, <1>2

\* Prefixes of a sequence hold nothing else.
LEMMA PrefixParts ==
    ASSUME NEW X, NEW s \in Seq(X), NEW t \in Prefixes(s)
    PROVE  ToSet(t) \subseteq ToSet(s)
<1>1. PICK l \in 0..Len(s) : t = SubSeq(s, 1, l)
  BY DEF Prefixes
<1>2. t \in Seq(X) /\ Len(t) = l /\ \A j \in 1..l : t[j] = s[j]
  BY <1>1, Cut
<1>3. DOMAIN t = 1..l /\ DOMAIN s = 1..Len(s) /\ Len(s) \in Nat
  BY <1>2
<1>4. \A j \in 1..l : j \in 1..Len(s)
  BY <1>3
<1> QED
  BY <1>2, <1>3, <1>4 DEF ToSet

LEMMA PartsAre ==
    /\ \A t \in Prefixes(TimerParts) : {"bsdsocket"} \cup ToSet(t) \subseteq NetParts
    /\ \A t \in Prefixes(AhiParts) : ToSet(t) \subseteq ToSet(AhiParts)
    /\ ToSet(TimerParts) = {"timer_port", "timer_req", "timer_device"}
    /\ ToSet(AhiParts) = {"port", "req", "device", "ctrl", "buffer", "sound"}
<1>1. TimerParts \in Seq({"timer_port", "timer_req", "timer_device"})
  BY DEF TimerParts
<1>2. AhiParts \in Seq({"port", "req", "device", "ctrl", "buffer", "sound"})
  BY DEF AhiParts
<1>3. \A t \in Prefixes(TimerParts) : {"bsdsocket"} \cup ToSet(t) \subseteq NetParts
  <2>1. \A t \in Prefixes(TimerParts) : ToSet(t) \subseteq ToSet(TimerParts)
    BY <1>1, PrefixParts
  <2> QED
    BY <2>1 DEF NetParts
<1>4. \A t \in Prefixes(AhiParts) : ToSet(t) \subseteq ToSet(AhiParts)
  BY <1>2, PrefixParts
<1>5. ToSet(TimerParts) = {TimerParts[i] : i \in 1..3}
  BY DEF ToSet, TimerParts
<1>6. \A i \in 1..3 : i = 1 \/ i = 2 \/ i = 3
  OBVIOUS
<1>7. ToSet(TimerParts) = {"timer_port", "timer_req", "timer_device"}
  BY <1>5, <1>6 DEF TimerParts
<1>8. ToSet(AhiParts) = {AhiParts[i] : i \in 1..6}
  BY DEF ToSet, AhiParts
<1>9. \A i \in 1..6 : i = 1 \/ i = 2 \/ i = 3 \/ i = 4 \/ i = 5 \/ i = 6
  OBVIOUS
<1>10. ToSet(AhiParts) = {"port", "req", "device", "ctrl", "buffer", "sound"}
  BY <1>8, <1>9 DEF AhiParts
<1> QED
  BY <1>3, <1>4, <1>7, <1>10

LEMMA TypeStart == Init => TypeInv
<1> SUFFICES ASSUME Init PROVE TypeInv
  OBVIOUS
<1>1. ControlType
  BY ConstantsAre DEF Init, ControlType, PCs
<1>2. held \subseteq All /\ ReadType /\ OutType
  BY ConstantsAre DEF Init, ReadType, OutType, Tags
<1> QED
  BY <1>1, <1>2, TypeInvIs

\* What the handling of an event leaves.
LEMMA HandleType ==
    ASSUME TypeInv, NEW kind \in Tags, Handle(kind)
    PROVE  /\ event' = kind /\ left' = PayloadOf(kind) /\ left' \in 0..Payload + Piece /\ piece' = <<>>
           /\ pc' \in {"open", "payload", "finish", "skip", "event"}
           /\ pc' \in {"open", "payload"} => kind = "chunk" /\ left' = Payload
           /\ prog' = prog /\ amiga' = amiga
<1>1. event' = kind /\ left' = PayloadOf(kind) /\ piece' = <<>> /\ prog' = prog /\ amiga' = amiga
  BY DEF Handle, Goto
<1>2. /\ pc' \in {"open", "payload", "finish", "skip", "event"}
      /\ pc' \in {"open", "payload"} => kind = "chunk"
  <2>1. pc' = CASE kind = "chunk" -> IF prog = "say" /\ opened = "not" THEN "open" ELSE "payload"
                [] kind = "stop"  -> "finish"
                [] kind = "info"  -> "skip"
                [] OTHER          -> "event"
    BY DEF Handle, Goto
  <2> QED
    BY <2>1
<1>3. kind = "chunk" => PayloadOf(kind) = Payload
  BY DEF PayloadOf
<1> QED
  BY <1>1, <1>2, <1>3, PayloadType

\* Where a payload is not being read, the reader's types do not depend on pc.
LEMMA ReadKept ==
    ASSUME ReadType, UNCHANGED readVars, UNCHANGED stream, UNCHANGED rbuf,
           pc' \in {"open", "payload"} => pc \in {"open", "payload"}
    PROVE  ReadType'
BY DEF ReadType, readVars

LEMMA OutKept ==
    ASSUME OutType, UNCHANGED outVars, UNCHANGED <<prog, amiga>>
    PROVE  OutType'
BY DEF OutType, outVars

LEMMA SetupTypes ==
    ASSUME TypeInv, NetInit \/ OpenOutFile
    PROVE  TypeInv'
<1> USE TypeInvIs
<1>1. CASE NetInit
  <2>1. ControlType'
    BY <1>1, ConstantsAre DEF NetInit, Goto, Quiet, netVars, readVars, outVars, ControlType, PCs
  <2>2. (held \subseteq All)'
    BY <1>1, PartsAre DEF NetInit, All
  <2>3. ReadType' /\ OutType'
    <3>1. UNCHANGED <<readVars, stream, rbuf, outVars, prog, amiga>>
      BY <1>1 DEF NetInit, Quiet, netVars, Goto
    <3>2. pc' \notin {"open", "payload"}
      BY <1>1 DEF NetInit, Goto
    <3> QED
      BY <3>1, <3>2, ReadKept, OutKept
  <2> QED
    BY <2>1, <2>2, <2>3, TypeInvNext
<1>2. CASE OpenOutFile
  <2>1. ControlType'
    BY <1>2, ConstantsAre DEF OpenOutFile, Goto, Quiet, netVars, readVars, outVars, ControlType, PCs
  <2>2. (held \subseteq All)'
    BY <1>2 DEF OpenOutFile, All, Cleanup
  <2>3. ReadType' /\ OutType'
    <3>1. UNCHANGED <<readVars, stream, rbuf, outVars, prog, amiga>>
      BY <1>2 DEF OpenOutFile, Quiet, netVars, Goto
    <3>2. pc' \notin {"open", "payload"}
      BY <1>2 DEF OpenOutFile, Goto
    <3> QED
      BY <3>1, <3>2, ReadKept, OutKept
  <2> QED
    BY <2>1, <2>2, <2>3, TypeInvNext
<1> QED
  BY <1>1, <1>2

LEMMA GiveUpTypes ==
    ASSUME TypeInv, NEW from \in {"connect", "buf", "send"}, NEW h, NEW r \in 0..Runs,
           GiveUp(from, h, r)
    PROVE  TypeInv'
<1> USE TypeInvIs
<1>1. pc' = (IF prog = "probe" THEN (IF r < Runs THEN "connect" ELSE "exit") ELSE "done")
  BY DEF GiveUp, Goto, AfterRun
<1>2. ControlType'
  <2>1. /\ pc' \in PCs /\ run' = r /\ pc' \notin {"net_init", "outfile", "buf"}
        /\ pc' = "connect" => run' < Runs
    BY <1>1 DEF GiveUp, PCs
  <2> QED
    BY <2>1 DEF GiveUp, Goto, netVars, ControlType
<1>3. held' \subseteq All
  BY DEF GiveUp, All, Cleanup
<1>4. ReadType'
  <2>1. pc' \notin {"open", "payload"}
    BY <1>1
  <2> QED
    BY <2>1 DEF GiveUp, netVars, ReadType
<1>5. OutType'
  BY DEF GiveUp, Goto, OutType
<1> QED
  BY <1>2, <1>3, <1>4, <1>5, TypeInvNext

LEMMA BeginTypes ==
    ASSUME TypeInv, GetBuf \/ Connect \/ Send
    PROVE  TypeInv'
<1> USE TypeInvIs
<1>1. CASE GetBuf
  <2>1. CASE GiveUp("buf", {"sock"}, run)
    <3>1. run \in 0..Runs
      BY DEF ControlType
    <3> QED
      BY <2>1, <3>1, GiveUpTypes
  <2>2. CASE ~GiveUp("buf", {"sock"}, run)
    <3>1. /\ Goto("buf", IF prog = "probe" THEN "send" ELSE "connect")
          /\ held' = held \cup {"buf"}
          /\ Quiet /\ UNCHANGED <<run, status, rc>>
      BY <1>1, <2>2 DEF GetBuf
    <3>2. ControlType'
      BY <3>1, ConstantsAre DEF Goto, Quiet, netVars, readVars, outVars, ControlType, PCs
    <3>3. ReadType' /\ OutType'
      <4>1. UNCHANGED <<readVars, stream, rbuf, outVars, prog, amiga>>
        BY <3>1 DEF Quiet, netVars, Goto
      <4>2. pc' \notin {"open", "payload"}
        BY <3>1 DEF Goto
      <4> QED
        BY <4>1, <4>2, ReadKept, OutKept
    <3> QED
      BY <3>1, <3>2, <3>3, TypeInvNext DEF All
  <2> QED
    BY <2>1, <2>2
<1>2. CASE Connect
  <2>1. pc = "connect" /\ run \in 0..Runs /\ run < Runs
    BY <1>2 DEF Connect, GiveUp, Goto, ControlType
  <2>2. run + 1 \in 0..Runs
    BY <2>1, ConstantsAre
  <2>3. CASE GiveUp("connect", {"buf"}, run + 1)
    BY <2>2, <2>3, GiveUpTypes
  <2>4. CASE ~GiveUp("connect", {"buf"}, run + 1)
    <3>1. /\ Goto("connect", IF prog = "probe" THEN "buf" ELSE "send")
          /\ held' = held \cup {"sock"} /\ run' = run + 1
          /\ stream' = Wire(run + 1) /\ ending' = "none"
          /\ event' = "none" /\ got' = <<>> /\ mishap' = "none"
          /\ UNCHANGED <<rbuf, hdr, line, left, piece, sink, opened, status, rc>>
      BY <1>2, <2>4 DEF Connect
    <3>2. ControlType'
      <4>1. pc' \in {"buf", "send"} /\ prog' = prog /\ (prog' = "say" => pc' = "send")
        BY <3>1 DEF Goto
      <4> QED
        BY <2>2, <3>1, <4>1 DEF Goto, ControlType, PCs
    <3>3. ReadType'
      <4>1. Wire(run + 1) \in Seq(Units)
        <5>1. run + 1 \in Nat
          BY <2>2
        <5> QED
          BY <5>1, AnswerType
      <4>2. pc' \notin {"open", "payload"}
        BY <3>1 DEF Goto
      <4> QED
        BY <3>1, <4>1, <4>2 DEF ReadType, Tags
    <3>4. OutType'
      BY <3>1 DEF Goto, OutType
    <3> QED
      BY <3>1, <3>2, <3>3, <3>4, TypeInvNext DEF All
  <2> QED
    BY <2>3, <2>4
<1>3. CASE Send
  <2>1. CASE GiveUp("send", SendFailureFrees, run)
    <3>1. run \in 0..Runs
      BY DEF ControlType
    <3> QED
      BY <2>1, <3>1, GiveUpTypes
  <2>2. CASE ~GiveUp("send", SendFailureFrees, run)
    <3>1. /\ Goto("send", "event") /\ rbuf' = <<>>
          /\ UNCHANGED <<run, held, stream, ending, readVars, outVars, status, rc>>
      BY <1>3, <2>2 DEF Send, wyo_reset
    <3>2. ControlType'
      BY <3>1 DEF Goto, readVars, outVars, ControlType, PCs
    <3>3. ReadType'
      <4>1. pc' \notin {"open", "payload"} /\ Len(rbuf') = 0
        BY <3>1 DEF Goto
      <4> QED
        BY <3>1, <4>1, ConstantsAre DEF ReadType, readVars
    <3>4. OutType'
      BY <3>1, OutKept DEF Goto
    <3> QED
      BY <3>1, <3>2, <3>3, <3>4, TypeInvNext
  <2> QED
    BY <2>1, <2>2
<1> QED
  BY <1>1, <1>2, <1>3

\* recv() and the server.
LEMMA NetTypes ==
    ASSUME TypeInv, Recv \/ ServerEnds
    PROVE  TypeInv'
<1> USE TypeInvIs
<1>1. CASE Recv
  <2>1. PICK n \in 1..Min({RbufRoom, Len(stream)}) :
          /\ rbuf' = SubSeq(stream, 1, n)
          /\ stream' = SubSeq(stream, n + 1, Len(stream))
    BY <1>1 DEF Recv
  <2>2. stream \in Seq(Units) /\ n \in 0..Len(stream) /\ n <= RbufRoom
    <3>1. stream \in Seq(Units) /\ Len(stream) \in Nat
      BY DEF ReadType
    <3>2. Min({RbufRoom, Len(stream)}) = IF RbufRoom <= Len(stream) THEN RbufRoom ELSE Len(stream)
      BY <3>1, ConstantsAre, MinOfTwo
    <3> QED
      BY <3>1, <3>2, ConstantsAre
  <2>3. rbuf' \in Seq(Units) /\ stream' \in Seq(Units) /\ Len(rbuf') = n
    BY <2>1, <2>2, Cut
  <2>4. UNCHANGED <<prog, amiga, pc, run, held, ending, readVars, outVars, status, rc>>
    BY <1>1 DEF Recv
  <2>5. ControlType'
    BY <2>4 DEF readVars, outVars, ControlType
  <2>6. ReadType'
    BY <2>2, <2>3, <2>4 DEF ReadType, readVars
  <2>7. OutType'
    BY <2>4, OutKept
  <2> QED
    BY <2>4, <2>5, <2>6, <2>7, TypeInvNext
<1>2. CASE ServerEnds
  <2>1. /\ ending' \in {"fin", "reset", "hung"} /\ stream' = <<>> /\ mishap' = "other"
        /\ UNCHANGED <<prog, amiga, pc, run, held, rbuf, hdr, line, event, left, piece, outVars,
                       status, rc>>
    BY <1>2 DEF ServerEnds
  <2>2. ControlType'
    BY <2>1 DEF ControlType, outVars
  <2>3. ReadType'
    BY <2>1 DEF ReadType
  <2>4. OutType'
    BY <2>1, OutKept
  <2> QED
    BY <2>1, <2>2, <2>3, <2>4, TypeInvNext
<1> QED
  BY <1>1, <1>2

\* What is left in the buffers is of the same type.
BuffersKept == stream' \in Seq(Units) /\ rbuf' \in Seq(Units) /\ Len(rbuf') <= RbufRoom

LEMMA HandleReads ==
    ASSUME TypeInv, NEW kind \in Tags, Handle(kind), BuffersKept, hdr' \in Tags, line' \in Tags
    PROVE  ReadType'
<1>1. /\ event' = kind /\ left' \in 0..Payload + Piece /\ piece' = <<>>
      /\ pc' \in {"open", "payload"} => left' = Payload
  BY HandleType
<1>2. Len(piece') = 0
  BY <1>1
<1>3. pc' \in {"open", "payload"} => left' >= 1 /\ Len(piece') < Min({left', Piece})
  <2> SUFFICES ASSUME pc' \in {"open", "payload"}
               PROVE  left' >= 1 /\ Len(piece') < Min({left', Piece})
    OBVIOUS
  <2>1. Min({Payload, Piece}) >= 1
    <3>1. Min({Payload, Piece}) = IF Payload <= Piece THEN Payload ELSE Piece
      BY ConstantsAre, MinOfTwo
    <3> QED
      BY <3>1, ConstantsAre
  <2>2. left' = Payload
    BY <1>1
  <2>3. Min({left', Piece}) >= 1
    BY <2>1, <2>2
  <2>4. Min({left', Piece}) \in Int
    BY <2>2, ConstantsAre, MinOfTwo
  <2> QED
    BY <1>2, <2>2, <2>3, <2>4, ConstantsAre
<1> QED
  BY <1>1, <1>2, <1>3, ConstantsAre DEF ReadType, BuffersKept

ReadingPCs == {"open", "payload", "finish", "skip", "event", "data"}

LEMMA HeaderReads ==
    ASSUME TypeInv, NEW kind \in Tags, Header(kind), BuffersKept, hdr' \in Tags
    PROVE  ReadType' /\ pc' \in ReadingPCs /\ prog' = prog /\ amiga' = amiga
<1>1. line' = "none" /\ line' \in Tags
  BY DEF Header, Tags
<1>2. CASE HasData(kind)
  <2>1. pc' = "data" /\ event' = kind /\ UNCHANGED <<left, piece, prog, amiga>>
    BY <1>2 DEF Header, Goto
  <2> QED
    BY <1>1, <2>1, TypeInvIs DEF ReadType, BuffersKept, ReadingPCs
<1>3. CASE ~HasData(kind)
  <2>1. Handle(kind)
    BY <1>3 DEF Header
  <2>2. pc' \in ReadingPCs /\ prog' = prog /\ amiga' = amiga
    BY <2>1, HandleType DEF ReadingPCs
  <2> QED
    BY <1>1, <2>1, <2>2, HandleReads
<1> QED
  BY <1>2, <1>3

\* The frame of the reader.
LEMMA ReadFrameTypes ==
    ASSUME TypeInv, ReadFrame, prog' = prog, amiga' = amiga, pc' \in ReadingPCs,
           mishap' \in {"none", "cut", "other"}, ReadType'
    PROVE  TypeInv'
<1>1. UNCHANGED <<run, held, stream, ending, outVars, status, rc>>
  BY DEF ReadFrame
<1>2. ControlType'
  BY <1>1, TypeInvIs DEF ControlType, outVars, ReadingPCs, PCs
<1>3. OutType' /\ held' \subseteq All
  BY <1>1, OutKept, TypeInvIs
<1> QED
  BY <1>2, <1>3, TypeInvNext

\* One symbol is taken from the buffer.
LEMMA TailType ==
    ASSUME NEW s \in Seq(Units), s # <<>>
    PROVE  /\ Head(s) \in Units /\ Head(s) = s[1] /\ Len(s) \in Nat /\ Len(s) >= 1
           /\ Tail(s) \in Seq(Units) /\ Len(Tail(s)) = Len(s) - 1
           /\ \A j \in 1..Len(s) - 1 : Tail(s)[j] = s[1 + j]
<1>1. Len(s) \in Nat /\ Len(s) >= 1
  BY EmptySeq
<1>2. Head(s) = s[1] /\ Head(s) \in Units
  BY <1>1
<1>3. Tail(s) \in Seq(Units) /\ Len(Tail(s)) = Len(s) - 1
  BY <1>1
<1>4. \A j \in 1..Len(s) - 1 : Tail(s)[j] = s[1 + j]
  <2>1. \A j \in 1..Len(s) - 1 : Tail(s)[j] = s[j + 1]
    BY <1>1
  <2>2. \A j \in 1..Len(s) - 1 : j + 1 = 1 + j
    OBVIOUS
  <2> QED
    BY <2>1, <2>2
<1> QED
  BY <1>1, <1>2, <1>3, <1>4

LEMMA ParseTypes ==
    ASSUME TypeInv, Parse
    PROVE  TypeInv'
<1>0. ControlType /\ held \subseteq All /\ ReadType /\ OutType
  BY TypeInvIs
<1>a. /\ stream \in Seq(Units) /\ rbuf \in Seq(Units) /\ Len(rbuf) <= RbufRoom
      /\ hdr \in Tags /\ line \in Tags /\ event \in Tags
      /\ mishap \in {"none", "cut", "other"}
  BY <1>0 DEF ReadType, ControlType
<1>b. "none" \in Tags /\ "garbage" \in Tags /\ Kinds \subseteq Tags
  BY DEF Tags
<1>c. ASSUME rbuf # <<>>, rbuf' = Tail(rbuf), stream' = stream
      PROVE  BuffersKept /\ Head(rbuf).kind \in Kinds
  <2>1. /\ Head(rbuf) \in Units /\ Tail(rbuf) \in Seq(Units) /\ Len(Tail(rbuf)) = Len(rbuf) - 1
        /\ Len(rbuf) \in Nat
    BY <1>a, <1>c, TailType
  <2>2. Head(rbuf).kind \in Kinds
    BY <2>1 DEF Units
  <2>3. Len(rbuf') <= RbufRoom
    BY <1>a, <1>c, <2>1, ConstantsAre
  <2> QED
    BY <1>a, <1>c, <2>1, <2>2, <2>3 DEF BuffersKept
<1>d. ASSUME rbuf' = rbuf, stream' = stream PROVE BuffersKept
  BY <1>a, <1>d DEF BuffersKept
<1>1. CASE LineText
  <2>1. /\ rbuf # <<>> /\ rbuf' = Tail(rbuf) /\ ReadFrame /\ stream' = stream
        /\ pc' = "event" /\ prog' = prog /\ amiga' = amiga
        /\ UNCHANGED <<hdr, event, left, piece, mishap>>
        /\ line' = IF line = "none" /\ Head(rbuf).part = "head" THEN Head(rbuf).kind
                   ELSE "garbage"
    BY <1>1 DEF LineText, Has, Goto, ReadFrame
  <2>2. BuffersKept /\ line' \in Tags
    BY <1>b, <1>c, <2>1
  <2>3. ReadType'
    BY <1>0, <2>1, <2>2 DEF ReadType, BuffersKept
  <2> QED
    BY <1>a, <2>1, <2>3, ReadFrameTypes DEF ReadingPCs
<1>2. CASE LineEnds
  <2>1. rbuf # <<>> /\ rbuf' = Tail(rbuf) /\ ReadFrame /\ stream' = stream /\ mishap' = mishap
    BY <1>2 DEF LineEnds, Has, ReadFrame
  <2>2. BuffersKept
    BY <1>c, <2>1
  <2>3. CASE line = "none"
    <3>1. line' = "none" /\ event' = "none" /\ pc' = "finish" /\ UNCHANGED <<left, piece, prog, amiga, hdr>>
      BY <1>2, <2>3 DEF LineEnds, EndOfEvents, Goto
    <3>2. ReadType'
      BY <1>0, <1>b, <2>2, <3>1 DEF ReadType, BuffersKept
    <3> QED
      BY <1>a, <2>1, <3>1, <3>2, ReadFrameTypes DEF ReadingPCs
  <2>4. CASE line # "none"
    <3>1. Header(line) /\ hdr' = line
      BY <1>2, <2>4 DEF LineEnds
    <3>2. ReadType' /\ pc' \in ReadingPCs /\ prog' = prog /\ amiga' = amiga
      BY <1>a, <2>2, <3>1, HeaderReads
    <3> QED
      BY <1>a, <2>1, <3>2, ReadFrameTypes
  <2> QED
    BY <2>3, <2>4
<1>3. CASE LineCut
  <2>1. /\ mishap' = "cut" /\ ReadFrame /\ rbuf' = rbuf /\ hdr' = hdr /\ stream' = stream
        /\ \E kind \in {"none", line, hdr} : Header(kind)
    BY <1>3 DEF LineCut, ReadFrame
  <2>2. PICK kind \in Tags : Header(kind)
    BY <1>a, <1>b, <2>1
  <2>3. ReadType' /\ pc' \in ReadingPCs /\ prog' = prog /\ amiga' = amiga
    BY <1>a, <1>d, <2>1, <2>2, HeaderReads
  <2> QED
    BY <2>1, <2>3, ReadFrameTypes
<1>4. CASE EventEnds
  <2>1. /\ line' = "none" /\ event' = "none" /\ pc' = "finish" /\ ReadFrame /\ stream' = stream
        /\ UNCHANGED <<left, piece, prog, amiga, rbuf, hdr, mishap>>
    BY <1>4 DEF EventEnds, EndOfEvents, Goto, ReadFrame
  <2>2. ReadType'
    BY <1>0, <1>b, <2>1 DEF ReadType
  <2> QED
    BY <1>a, <2>1, <2>2, ReadFrameTypes DEF ReadingPCs
<1>5. CASE ReadData
  <2>1. CASE Has("data") /\ rbuf' = Tail(rbuf) /\ Handle(event)
             /\ ReadFrame /\ UNCHANGED <<hdr, line, mishap>>
    <3>1. BuffersKept
      BY <1>c, <2>1 DEF Has, ReadFrame
    <3>2. ReadType'
      BY <1>a, <2>1, <3>1, HandleReads
    <3>3. pc' \in ReadingPCs /\ prog' = prog /\ amiga' = amiga
      BY <1>a, <2>1, HandleType DEF ReadingPCs
    <3> QED
      BY <1>a, <2>1, <3>2, <3>3, ReadFrameTypes
  <2>2. CASE /\ event' = "none" /\ Goto("data", "finish")
             /\ mishap' = IF mishap = "none" THEN "other" ELSE mishap
             /\ ReadFrame /\ UNCHANGED <<rbuf, hdr, line, left, piece>>
    <3>1. pc' = "finish" /\ prog' = prog /\ amiga' = amiga /\ stream' = stream
      BY <2>2 DEF Goto, ReadFrame
    <3>2. ReadType'
      BY <1>0, <1>b, <2>2, <3>1 DEF ReadType
    <3> QED
      BY <1>a, <2>2, <3>1, <3>2, ReadFrameTypes DEF ReadingPCs
  <2> QED
    BY <1>5, <2>1, <2>2 DEF ReadData
<1> QED
  BY <1>1, <1>2, <1>3, <1>4, <1>5 DEF Parse

\* The piece that is being read.
LEMMA WantIs ==
    ASSUME left \in 0..Payload + Piece
    PROVE  /\ Want \in 0..Piece /\ Want <= left /\ Want \in Int
           /\ Want = left \/ Want = Piece
<1>1. left \in Int /\ left >= 0
  BY ConstantsAre
<1>2. Want = IF left <= Piece THEN left ELSE Piece
  BY <1>1, ConstantsAre, MinOfTwo DEF Want
<1> QED
  BY <1>1, <1>2, ConstantsAre

\* What is written of a piece.
LEMMA WrittenType ==
    ASSUME NEW s \in Seq(Units), NEW p \in Seq(Units),
           amiga /\ prog = "say" => Len(s) <= SinkRoom, prog \in {"probe", "say"}
    PROVE  /\ Written(s, p) \in Seq(Units)
           /\ amiga /\ prog = "say" => Len(Written(s, p)) <= SinkRoom
<1>1. s \o p \in Seq(Units) /\ Len(s) \in Nat /\ Len(p) \in Nat
  BY ConcatProperties
<1>2. CASE prog = "say" /\ amiga
  <2> DEFINE n == Min({Len(p), SinkRoom - Len(s)})
  <2>1. SinkRoom - Len(s) \in Int /\ SinkRoom - Len(s) >= 0
    BY <1>1, <1>2, ConstantsAre
  <2>2. n = IF Len(p) <= SinkRoom - Len(s) THEN Len(p) ELSE SinkRoom - Len(s)
    BY <1>1, <2>1, MinOfTwo
  <2> HIDE DEF n
  <2>3. n \in 0..Len(p) /\ n <= SinkRoom - Len(s)
    BY <1>1, <2>1, <2>2
  <2>4. SubSeq(p, 1, n) \in Seq(Units) /\ Len(SubSeq(p, 1, n)) = n
    BY <2>3, Cut
  <2>5. s \o SubSeq(p, 1, n) \in Seq(Units) /\ Len(s \o SubSeq(p, 1, n)) = Len(s) + n
    BY <2>4, ConcatProperties
  <2>6. Written(s, p) = s \o SubSeq(p, 1, n)
    BY <1>2 DEF Written, n
  <2>7. Len(s) + n <= SinkRoom
    BY <1>1, <2>3, ConstantsAre
  <2> QED
    BY <2>5, <2>6, <2>7
<1>3. CASE ~(prog = "say" /\ amiga)
  BY <1>1, <1>3 DEF Written
<1> QED
  BY <1>2, <1>3

\* What wyo_read_payload takes of the buffer.
LEMMA TakeIs ==
    ASSUME TypeInv, Has("payload"), left > 0
    PROVE  LET n == Min({Len(rbuf), Want - Len(piece)})
               p == piece \o SubSeq(rbuf, 1, n)
           IN  /\ n \in 1..Len(rbuf) /\ n \in 0..Len(rbuf) /\ n <= Want - Len(piece)
               /\ p \in Seq(Units) /\ Len(p) = Len(piece) + n /\ Len(p) <= Want
               /\ Want \in 1..Piece /\ Want <= left /\ Len(piece) \in Nat /\ Len(rbuf) \in Nat
<1> DEFINE n == Min({Len(rbuf), Want - Len(piece)})
<1>1. /\ rbuf \in Seq(Units) /\ rbuf # <<>> /\ piece \in Seq(Units) /\ left \in 0..Payload + Piece
      /\ Len(piece) < Want
  BY TypeInvIs DEF Has, ReadType, Want
<1>2. /\ Len(rbuf) \in Nat /\ Len(rbuf) >= 1 /\ Len(piece) \in Nat
  BY <1>1, EmptySeq
<1>3. Want \in 0..Piece /\ Want <= left /\ Want \in Int
  BY <1>1, WantIs
<1>4. n = IF Len(rbuf) <= Want - Len(piece) THEN Len(rbuf) ELSE Want - Len(piece)
  BY <1>2, <1>3, MinOfTwo
<1> HIDE DEF n
<1>5. n \in 1..Len(rbuf) /\ n \in 0..Len(rbuf) /\ n <= Want - Len(piece)
  BY <1>1, <1>2, <1>3, <1>4
<1>6. SubSeq(rbuf, 1, n) \in Seq(Units) /\ Len(SubSeq(rbuf, 1, n)) = n
  BY <1>1, <1>5, Cut
<1>7. /\ piece \o SubSeq(rbuf, 1, n) \in Seq(Units)
      /\ Len(piece \o SubSeq(rbuf, 1, n)) = Len(piece) + n
  BY <1>1, <1>6, ConcatProperties
<1>8. Len(piece) + n <= Want
  BY <1>2, <1>3, <1>5
<1>9. Want \in 1..Piece
  BY <1>1, <1>2, <1>3, ConstantsAre
<1> QED
  BY <1>2, <1>3, <1>5, <1>7, <1>8, <1>9 DEF n

LEMMA TakeTypes ==
    ASSUME TypeInv, TakePayload
    PROVE  TypeInv'
<1> DEFINE n == Min({Len(rbuf), Want - Len(piece)})
           p == piece \o SubSeq(rbuf, 1, n)
<1>1. ControlType /\ held \subseteq All /\ ReadType /\ OutType
  BY TypeInvIs
<1>2. Has("payload") /\ left > 0
  BY DEF TakePayload
<1>3. /\ n \in 0..Len(rbuf) /\ n <= Want - Len(piece)
      /\ p \in Seq(Units) /\ Len(p) = Len(piece) + n /\ Len(p) <= Want
      /\ Want \in 1..Piece /\ Want <= left /\ Len(piece) \in Nat /\ Len(rbuf) \in Nat
  BY <1>2, TakeIs
<1>4. /\ rbuf' = SubSeq(rbuf, n + 1, Len(rbuf))
      /\ IF Len(p) < Want THEN piece' = p /\ UNCHANGED <<left, got, sink>>
         ELSE /\ piece' = <<>> /\ left' = left - Want
              /\ got' = got \o p /\ sink' = Written(sink, p)
      /\ Goto("payload", IF left' = 0 THEN "event" ELSE "payload")
      /\ UNCHANGED <<run, held, stream, ending, hdr, line, event, mishap, opened, status, rc>>
  BY DEF TakePayload
<1> HIDE DEF n, p
<1>5. pc' \in {"event", "payload"} /\ prog' = prog /\ amiga' = amiga /\ (pc' = "payload" <=> left' # 0)
  BY <1>4 DEF Goto
<1>6. ControlType'
  BY <1>1, <1>4, <1>5 DEF ControlType, PCs
<1>7. rbuf \in Seq(Units) /\ piece \in Seq(Units) /\ left \in 0..Payload + Piece /\ Len(piece) < Piece
  BY <1>1 DEF ReadType
<1>8. BuffersKept
  <2>1. rbuf' \in Seq(Units) /\ Len(rbuf') = Len(rbuf) - n
    BY <1>3, <1>4, <1>7, Cut
  <2>2. Len(rbuf') <= RbufRoom
    <3>1. Len(rbuf) <= RbufRoom
      BY <1>1 DEF ReadType
    <3> QED
      BY <1>3, <2>1, <3>1, ConstantsAre
  <2> QED
    BY <1>1, <1>4, <2>1, <2>2 DEF ReadType, BuffersKept
<1>9. CASE Len(p) < Want
  <2>1. piece' = p /\ UNCHANGED <<left, got, sink>>
    BY <1>4, <1>9
  <2>2. Len(p) < Piece
    BY <1>3, <1>9, ConstantsAre
  <2>3. left >= 1 /\ Len(p) < Min({left, Piece})
    BY <1>2, <1>7, <1>9, ConstantsAre DEF Want
  <2>4. ReadType'
    <3>1. hdr' \in Tags /\ line' \in Tags /\ event' \in Tags
      BY <1>1, <1>4 DEF ReadType
    <3>2. piece' \in Seq(Units) /\ Len(piece') < Piece /\ left' \in 0..Payload + Piece
      BY <1>3, <1>7, <2>1, <2>2
    <3>3. left' >= 1 /\ Len(piece') < Min({left', Piece})
      BY <2>1, <2>3
    <3> QED
      BY <1>8, <3>1, <3>2, <3>3 DEF ReadType, BuffersKept
  <2>5. OutType'
    BY <1>1, <1>5, <2>1 DEF OutType
  <2> QED
    BY <1>1, <1>4, <1>6, <2>4, <2>5, TypeInvNext
<1>10. CASE ~(Len(p) < Want)
  <2>1. piece' = <<>> /\ left' = left - Want /\ got' = got \o p /\ sink' = Written(sink, p)
    BY <1>4, <1>10
  <2>2. left' \in 0..Payload + Piece
    BY <1>3, <1>7, <2>1, ConstantsAre
  <2>3. pc' = "payload" => left' >= 1 /\ Len(piece') < Min({left', Piece})
    <3>1. Min({left', Piece}) = IF left' <= Piece THEN left' ELSE Piece
      BY <2>2, ConstantsAre, MinOfTwo
    <3>2. pc' = "payload" => left' >= 1
      BY <1>5, <2>2, ConstantsAre
    <3>3. Len(piece') = 0
      BY <2>1
    <3> HIDE <2>1, <1>4
    <3>4. pc' = "payload" => Min({left', Piece}) >= 1
      BY <3>1, <3>2, ConstantsAre
    <3>5. Min({left', Piece}) \in Int
      BY <2>2, <3>1, ConstantsAre
    <3> QED
      BY <3>2, <3>3, <3>4, <3>5
  <2>4. ReadType'
    <3>1. Len(piece') < Piece /\ piece' \in Seq(Units)
      BY <2>1, ConstantsAre
    <3> QED
      BY <1>1, <1>4, <1>5, <1>8, <2>2, <2>3, <3>1 DEF ReadType, BuffersKept
  <2>5. OutType'
    <3>1. got' \in Seq(Units)
      BY <1>1, <1>3, <2>1, ConcatProperties DEF OutType
    <3>2. /\ Written(sink, p) \in Seq(Units)
          /\ amiga /\ prog = "say" => Len(Written(sink, p)) <= SinkRoom
      BY <1>1, <1>3, WrittenType DEF OutType, ControlType
    <3> QED
      BY <1>5, <2>1, <3>1, <3>2 DEF OutType
  <2> QED
    BY <1>1, <1>4, <1>6, <2>4, <2>5, TypeInvNext
<1> QED
  BY <1>9, <1>10

LEMMA PlayTypes ==
    ASSUME TypeInv, Play
    PROVE  TypeInv'
<1>0. ControlType /\ held \subseteq All /\ ReadType /\ OutType
  BY TypeInvIs
<1>1. CASE AudioOpen
  <2>1. /\ pc = "open" /\ pc' \in {"payload", "finish"} /\ opened' \in {"ok", "failed"}
        /\ rc' \in 0..1 /\ UNCHANGED <<prog, amiga, run, netVars, readVars, got, sink, status>>
    BY <1>0, <1>1 DEF AudioOpen, Goto, ControlType
  <2>2. ControlType'
    BY <1>0, <2>1 DEF ControlType, netVars, readVars, PCs
  <2>3. ReadType'
    BY <1>0, <2>1, ReadKept DEF netVars
  <2>4. OutType'
    BY <1>0, <2>1 DEF OutType
  <2>5. held' \subseteq All
    <3>1. ToSet(AhiParts) \subseteq All /\ "wav" \in All
      BY DEF All, SinkParts
    <3>2. \A part \in Prefixes(AhiParts) : ToSet(part) \subseteq All
      BY <3>1, PartsAre
    <3>3. ToSet(<<>>) = {}
      BY DEF ToSet
    <3>4. held' \subseteq held \cup All
      <4>1. CASE held' = held \cup (IF amiga THEN ToSet(AhiParts) ELSE {"wav"})
        BY <3>1, <4>1
      <4>2. CASE \E part \in IF amiga THEN Prefixes(AhiParts) \ {AhiParts} ELSE {<<>>} :
                   held' = held \cup ToSet(part)
        BY <3>2, <3>3, <4>2
      <4> QED
        BY <1>1, <4>1, <4>2 DEF AudioOpen
    <3> QED
      BY <1>0, <3>4
  <2> QED
    BY <2>2, <2>3, <2>4, <2>5, TypeInvNext
<1>2. CASE TakePayload
  BY <1>2, TakeTypes
<1>3. CASE ShortRead
  <2>1. /\ event' = "none" /\ pc' = "finish" /\ rc' \in 0..1
        /\ UNCHANGED <<prog, amiga, run, held, netVars, hdr, line, left, piece, mishap, outVars, status>>
    BY <1>0, <1>3 DEF ShortRead, Goto, ControlType
  <2>2. ControlType'
    BY <1>0, <2>1 DEF ControlType, netVars, outVars, PCs
  <2>3. ReadType'
    BY <1>0, <2>1 DEF ReadType, netVars, Tags
  <2>4. OutType'
    BY <1>0, <2>1, OutKept
  <2> QED
    BY <1>0, <2>1, <2>2, <2>3, <2>4, TypeInvNext
<1>4. CASE Skip
  <2>1. /\ ReadFrame /\ UNCHANGED <<hdr, line, event, piece, mishap>>
        /\ prog' = prog /\ amiga' = amiga /\ pc' \in {"event", "skip"} /\ stream' = stream
    BY <1>4 DEF Skip, Goto, SkipBreaks, ReadFrame
  <2>2. /\ rbuf \in Seq(Units) /\ Len(rbuf) \in Nat /\ Len(rbuf) <= RbufRoom
        /\ left \in 0..Payload + Piece
    BY <1>0 DEF ReadType
  <2>3. BuffersKept /\ left' \in 0..Payload + Piece
    <3>1. CASE Has("skip") /\ rbuf' = SubSeq(rbuf, Min({Len(rbuf), left}) + 1, Len(rbuf))
               /\ left' = left - Min({Len(rbuf), left})
      <4> DEFINE n == Min({Len(rbuf), left})
      <4>1. n = IF Len(rbuf) <= left THEN Len(rbuf) ELSE left
        <5>1. left \in Int /\ Len(rbuf) \in Int
          BY <2>2
        <5> QED
          BY <5>1, MinOfTwo
      <4>2. rbuf' = SubSeq(rbuf, n + 1, Len(rbuf)) /\ left' = left - n
        BY <3>1
      <4> HIDE DEF n
      <4>3. n \in 0..Len(rbuf) /\ n <= left /\ n \in Nat
        BY <2>2, <4>1
      <4>4. rbuf' \in Seq(Units) /\ Len(rbuf') = Len(rbuf) - n
        BY <2>2, <4>2, <4>3, Cut
      <4>5. Len(rbuf') <= RbufRoom
        BY <2>2, <4>3, <4>4, ConstantsAre
      <4>6. left' \in 0..Payload + Piece
        BY <2>2, <4>2, <4>3, ConstantsAre
      <4> QED
        BY <1>0, <2>1, <4>4, <4>5, <4>6 DEF BuffersKept, ReadType
    <3>2. CASE UNCHANGED <<rbuf, left>>
      BY <1>0, <2>1, <2>2, <3>2 DEF BuffersKept, ReadType
    <3> QED
      BY <1>4, <3>1, <3>2 DEF Skip
  <2>4. ReadType'
    BY <1>0, <2>1, <2>3 DEF ReadType, BuffersKept
  <2>5. pc' \in ReadingPCs /\ mishap' \in {"none", "cut", "other"}
    BY <1>0, <2>1 DEF ReadingPCs, ControlType
  <2> QED
    BY <2>1, <2>4, <2>5, ReadFrameTypes
<1> QED
  BY <1>1, <1>2, <1>3, <1>4 DEF Play

LEMMA FinishTypes ==
    ASSUME TypeInv, Finish
    PROVE  TypeInv'
<1>0. ControlType /\ held \subseteq All /\ ReadType /\ OutType
  BY TypeInvIs
<1>1. /\ Quiet /\ run' = run /\ prog' = prog /\ amiga' = amiga
      /\ held' \subseteq held /\ rc' \in 0..1 /\ status' \in {"none", "ok", "failed"}
      /\ pc' \in {"connect", "exit", "done"} /\ (pc' = "connect" => run < Runs)
  <2>1. CASE FinishRun
    BY <1>0, <2>1 DEF FinishRun, Goto, AfterRun, ControlType
  <2>2. CASE ExitProbe
    BY <1>0, <2>2 DEF ExitProbe, Goto, ControlType, Cleanup
  <2>3. CASE FinishSay
    <3>1. held' \subseteq held
      BY <2>3 DEF FinishSay, Cleanup, AudioClose
    <3>2. pc' = "done" /\ status' \in {"ok", "failed"}
      BY <2>3 DEF FinishSay, Goto
    <3> QED
      BY <1>0, <2>3, <3>1, <3>2 DEF FinishSay, Goto, ControlType
  <2> QED
    BY <2>1, <2>2, <2>3 DEF Finish
<1>2. ControlType'
  BY <1>0, <1>1 DEF ControlType, Quiet, netVars, readVars, outVars, PCs
<1>3. ReadType'
  BY <1>0, <1>1, ReadKept DEF Quiet, netVars
<1>4. OutType'
  BY <1>0, <1>1, OutKept DEF Quiet
<1> QED
  BY <1>0, <1>1, <1>2, <1>3, <1>4, TypeInvNext

LEMMA TypeStep == TypeInv /\ [Next]_vars => TypeInv'
<1> SUFFICES ASSUME TypeInv, [Next]_vars PROVE TypeInv'
  OBVIOUS
<1>1. CASE Next
  BY <1>1, SetupTypes, BeginTypes, NetTypes, ParseTypes, PlayTypes, FinishTypes
     DEF Next, Client, Setup
<1>2. CASE UNCHANGED vars
  <2>1. ControlType' /\ ReadType' /\ OutType' /\ held' \subseteq All
    BY <1>2, TypeInvIs DEF vars, netVars, readVars, outVars, ControlType, ReadType, OutType
  <2> QED
    BY <2>1, TypeInvNext
<1> QED
  BY <1>1, <1>2

LEMMA TypesHold == Spec => []TypeInv
BY TypeStart, TypeStep, PTL DEF Spec

\* Every variable keeps to its values, rbuf and the sample buffer of AHI to
\* their room, and a payload to what is left of it.
THEOREM ClientTypes == Spec => []TypeOK
<1>1. TypeInv => TypeOK
  BY DEF TypeInv
<1> QED
  BY TypesHold, <1>1, PTL

-----------------------------------------------------------------------------
(* What is held.                                                           *)

WorkPCs == {"send"} \cup ReadingPCs
BufPCs  == WorkPCs \cup (IF prog = "say" THEN {"connect"} ELSE {})
SockPCs == WorkPCs \cup (IF prog = "probe" THEN {"buf"} ELSE {})
TimerSet == {"timer_port", "timer_req", "timer_device"}
AhiSet  == {"port", "req", "device", "ctrl", "buffer", "sound"}

\* The buffer and the socket are held only where they are used, the file by the
\* probe, and parts of the sink from the time saytest opens it; what a failed
\* audio_open leaves are parts of AHI.
HeldInv ==
    /\ held \subseteq {"bsdsocket", "wav", "file", "buf", "sock"} \cup TimerSet \cup AhiSet
    /\ pc = "net_init" => held = {}
    /\ pc = "done" => held \subseteq IF opened = "failed" THEN AhiSet ELSE {}
    /\ pc \notin BufPCs => "buf" \notin held
    /\ pc \notin SockPCs => "sock" \notin held
    /\ "file" \in held => prog = "probe" /\ pc # "outfile"
    /\ opened = "not" => held \cap ({"wav"} \cup AhiSet) = {}
    /\ opened = "failed" => held \cap ({"wav"} \cup AhiSet) \subseteq AhiSet
    /\ opened # "not" => prog = "say" /\ pc \in ReadingPCs \cup {"done"}
    /\ opened = "failed" => pc \in {"finish", "done"}
    /\ pc = "open" => prog = "say" /\ opened = "not"
    /\ pc \in {"outfile", "exit"} => prog = "probe"

LEMMA PartSets ==
    /\ NetParts = {"bsdsocket"} \cup TimerSet /\ SinkParts = {"wav"} \cup AhiSet
    /\ ToSet(AhiParts) = AhiSet
    /\ \A t \in Prefixes(TimerParts) : ToSet(t) \subseteq TimerSet
    /\ \A t \in Prefixes(AhiParts) : ToSet(t) \subseteq AhiSet
<1>1. TimerParts \in Seq(TimerSet)
  BY DEF TimerParts, TimerSet
<1>2. \A t \in Prefixes(TimerParts) : ToSet(t) \subseteq ToSet(TimerParts)
  BY <1>1, PrefixParts
<1> QED
  BY <1>2, PartsAre DEF NetParts, SinkParts, TimerSet, AhiSet

LEMMA HeldStart == Init => HeldInv
BY DEF Init, HeldInv, ReadingPCs

\* A step of the reader from one place to another keeps what is held.
LEMMA ReadingKeeps ==
    ASSUME HeldInv, UNCHANGED <<held, opened, prog>>,
           pc \in ReadingPCs \ {"finish"}, pc' \in ReadingPCs,
           pc' = "open" => prog = "say" /\ opened = "not"
    PROVE  HeldInv'
BY DEF HeldInv, BufPCs, SockPCs, WorkPCs, ReadingPCs

LEMMA HeldSetup ==
    ASSUME HeldInv, NetInit \/ OpenOutFile
    PROVE  HeldInv'
<1>1. opened = "not" /\ opened' = "not" /\ prog' = prog /\ pc' \notin {"open", "exit", "net_init"}
  BY DEF NetInit, OpenOutFile, Goto, Quiet, outVars, HeldInv, ReadingPCs
<1>2. CASE NetInit
  <2>1. pc = "net_init" /\ held = {}
    BY <1>2 DEF NetInit, Goto, HeldInv
  <2>2. /\ pc' = "outfile" => prog = "probe"
        /\ held' \subseteq {"bsdsocket"} \cup TimerSet
        /\ pc' = "done" => held' = {}
    BY <1>2, <2>1, PartSets DEF NetInit, Goto
  <2> QED
    BY <1>1, <2>2 DEF HeldInv, TimerSet, AhiSet
<1>3. CASE OpenOutFile
  <2>1. pc = "outfile" /\ prog = "probe"
    BY <1>3 DEF OpenOutFile, Goto, HeldInv
  <2>2. held \subseteq {"bsdsocket"} \cup TimerSet
    BY <1>1, <2>1 DEF HeldInv, BufPCs, SockPCs, WorkPCs, ReadingPCs
  <2>3. CASE pc' = "connect" /\ held' \in {held, held \cup {"file"}}
    BY <1>1, <2>1, <2>2, <2>3 DEF HeldInv, TimerSet, AhiSet
  <2>4. CASE pc' = "done" /\ held' = Cleanup(held)
    <3>1. held' = {}
      BY <2>2, <2>4, PartSets DEF Cleanup
    <3> QED
      BY <1>1, <2>4, <3>1 DEF HeldInv
  <2> QED
    BY <1>3, <2>3, <2>4 DEF OpenOutFile, Goto
<1> QED
  BY <1>2, <1>3

\* A run that fails early gives back what it has got so far.
LEMMA HeldGiveUp ==
    ASSUME HeldInv, NEW from \in {"connect", "buf", "send"}, NEW h, NEW r, GiveUp(from, h, r),
           prog \in {"probe", "say"},
           h \subseteq {"buf", "sock"}, "buf" \in held => "buf" \in h, "sock" \in held => "sock" \in h
    PROVE  HeldInv'
<1>1. /\ pc = from /\ prog' = prog /\ opened' = opened
      /\ pc' = (IF prog = "probe" THEN AfterRun(r) ELSE "done")
      /\ held' = IF prog = "probe" THEN held \ h ELSE Cleanup(held \ h)
  BY DEF GiveUp, Goto
<1>2. opened = "not"
  BY <1>1 DEF HeldInv, ReadingPCs
<1>3. CASE prog = "probe"
  <2>1. pc' \in {"connect", "exit"} /\ held' = held \ h
    BY <1>1, <1>3 DEF AfterRun
  <2>2. "buf" \notin held' /\ "sock" \notin held' /\ held' \subseteq held
    BY <2>1
  <2> QED
    BY <1>1, <1>2, <1>3, <2>1, <2>2 DEF HeldInv
<1>4. CASE prog = "say"
  <2>1. pc' = "done" /\ held' = (held \ h) \ NetParts
    BY <1>1, <1>4 DEF Cleanup
  <2>2. held \subseteq NetParts \cup {"buf", "sock"}
    BY <1>2, <1>4, PartSets DEF HeldInv
  <2>3. held' = {}
    BY <2>1, <2>2
  <2> QED
    BY <1>1, <1>2, <1>4, <2>1, <2>3 DEF HeldInv
<1> QED
  BY <1>3, <1>4

LEMMA HeldBegin ==
    ASSUME TypeInv, HeldInv, GetBuf \/ Connect \/ Send
    PROVE  HeldInv'
<1>0. prog \in {"probe", "say"}
  BY TypeInvIs DEF ControlType
<1>1. CASE GetBuf
  <2>1. CASE GiveUp("buf", {"sock"}, run)
    <3>1. "buf" \notin held
      BY <2>1 DEF GiveUp, Goto, HeldInv, BufPCs, WorkPCs, ReadingPCs
    <3> QED
      BY <1>0, <2>1, <3>1, HeldGiveUp
  <2>2. CASE /\ Goto("buf", IF prog = "probe" THEN "send" ELSE "connect")
             /\ held' = held \cup {"buf"} /\ Quiet
    <3>1. /\ pc = "buf" /\ prog' = prog /\ opened' = opened /\ held' = held \cup {"buf"}
          /\ pc' = (IF prog = "probe" THEN "send" ELSE "connect")
      BY <2>2 DEF Goto, Quiet, outVars
    <3>2. opened = "not"
      BY <3>1 DEF HeldInv, ReadingPCs
    <3>3. prog = "say" => "sock" \notin held
      BY <3>1 DEF HeldInv, SockPCs, WorkPCs, ReadingPCs
    <3> QED
      BY <1>0, <3>1, <3>2, <3>3
         DEF HeldInv, BufPCs, SockPCs, WorkPCs, TimerSet, AhiSet
  <2> QED
    BY <1>1, <2>1, <2>2 DEF GetBuf
<1>2. CASE Connect
  <2>1. CASE GiveUp("connect", {"buf"}, run + 1)
    <3>1. "sock" \notin held
      BY <2>1 DEF GiveUp, Goto, HeldInv, SockPCs, WorkPCs, ReadingPCs
    <3> QED
      BY <1>0, <2>1, <3>1, HeldGiveUp
  <2>2. CASE /\ Goto("connect", IF prog = "probe" THEN "buf" ELSE "send")
             /\ held' = held \cup {"sock"} /\ opened' = opened
    <3>1. /\ pc = "connect" /\ prog' = prog /\ opened' = opened /\ held' = held \cup {"sock"}
          /\ pc' = (IF prog = "probe" THEN "buf" ELSE "send")
      BY <2>2 DEF Goto
    <3>2. opened = "not"
      BY <3>1 DEF HeldInv, ReadingPCs
    <3>3. prog = "probe" => "buf" \notin held
      BY <3>1 DEF HeldInv, BufPCs, WorkPCs, ReadingPCs
    <3> QED
      BY <1>0, <3>1, <3>2, <3>3
         DEF HeldInv, BufPCs, SockPCs, WorkPCs, TimerSet, AhiSet
  <2> QED
    BY <1>2, <2>1, <2>2 DEF Connect
<1>3. CASE Send
  <2>1. CASE GiveUp("send", SendFailureFrees, run)
    BY <1>0, <2>1, HeldGiveUp DEF SendFailureFrees
  <2>2. CASE Goto("send", "event") /\ UNCHANGED <<held, outVars>>
    <3>1. pc = "send" /\ pc' = "event" /\ UNCHANGED <<prog, opened, held>>
      BY <2>2 DEF Goto, outVars
    <3> QED
      BY <3>1 DEF HeldInv, BufPCs, SockPCs, WorkPCs, ReadingPCs
  <2> QED
    BY <1>3, <2>1, <2>2 DEF Send
<1> QED
  BY <1>1, <1>2, <1>3

\* Where the handling of an event leads.
LEMMA HandleGoes ==
    ASSUME NEW kind, Handle(kind)
    PROVE  pc' \in ReadingPCs /\ (pc' = "open" => prog = "say" /\ opened = "not") /\ prog' = prog
<1>1. pc' = CASE kind = "chunk" -> IF prog = "say" /\ opened = "not" THEN "open" ELSE "payload"
              [] kind = "stop"  -> "finish"
              [] kind = "info"  -> "skip"
              [] OTHER          -> "event"
  BY DEF Handle, Goto
<1>2. prog' = prog
  BY DEF Handle, Goto
<1> QED
  BY <1>1, <1>2 DEF ReadingPCs

LEMMA ParseGoes ==
    ASSUME Parse
    PROVE  /\ pc \in {"event", "data"} /\ pc' \in ReadingPCs
           /\ pc' = "open" => prog = "say" /\ opened = "not"
           /\ UNCHANGED <<held, opened, prog>>
<1>1. ASSUME NEW kind, Header(kind)
      PROVE  pc' \in ReadingPCs /\ (pc' = "open" => prog = "say" /\ opened = "not") /\ prog' = prog
  BY <1>1, HandleGoes DEF Header, Goto, ReadingPCs
<1>2. CASE LineText
  BY <1>2 DEF LineText, Has, Goto, ReadFrame, outVars, ReadingPCs
<1>3. CASE LineEnds
  <2>1. CASE EndOfEvents
    BY <1>3, <2>1 DEF LineEnds, EndOfEvents, Has, Goto, ReadFrame, outVars, ReadingPCs
  <2>2. CASE Header(line)
    BY <1>1, <1>3, <2>2 DEF LineEnds, Has, ReadFrame, outVars
  <2> QED
    BY <1>3, <2>1, <2>2 DEF LineEnds
<1>4. CASE LineCut
  <2>1. PICK kind : Header(kind)
    BY <1>4 DEF LineCut
  <2> QED
    BY <1>1, <1>4, <2>1 DEF LineCut, ReadFrame, outVars
<1>5. CASE EventEnds
  BY <1>5 DEF EventEnds, EndOfEvents, Goto, ReadFrame, outVars, ReadingPCs
<1>6. CASE ReadData
  <2>1. pc = "data" /\ ReadFrame /\ (Handle(event) \/ Goto("data", "finish"))
    BY <1>6 DEF ReadData, Has
  <2> QED
    BY <2>1, HandleGoes DEF Goto, ReadFrame, outVars, ReadingPCs
<1> QED
  BY <1>2, <1>3, <1>4, <1>5, <1>6 DEF Parse

LEMMA HeldReading ==
    ASSUME HeldInv, Recv \/ ServerEnds \/ Parse \/ Play
    PROVE  HeldInv'
<1>1. CASE Recv \/ ServerEnds
  <2>1. UNCHANGED <<held, opened, prog, pc>>
    BY <1>1 DEF Recv, ServerEnds, outVars
  <2> QED
    BY <2>1 DEF HeldInv, BufPCs, SockPCs
<1>2. CASE Parse
  BY <1>2, ParseGoes, ReadingKeeps DEF ReadingPCs
<1>3. CASE TakePayload \/ ShortRead \/ Skip
  <2>1. /\ pc \in {"payload", "skip"} /\ pc' \in {"payload", "skip", "event", "finish"}
        /\ UNCHANGED <<held, opened, prog>>
    BY <1>3 DEF TakePayload, ShortRead, Skip, SkipBreaks, Has, Goto, ReadFrame, outVars
  <2> QED
    BY <2>1, ReadingKeeps DEF ReadingPCs
<1>4. CASE AudioOpen
  <2>1. pc = "open" /\ prog' = prog /\ opened = "not" /\ prog = "say"
    BY <1>4 DEF AudioOpen, Goto, HeldInv
  <2>2. CASE /\ Goto("open", "payload") /\ opened' = "ok"
             /\ held' = held \cup (IF amiga THEN ToSet(AhiParts) ELSE {"wav"})
    <3>1. pc' = "payload" /\ (held' = held \cup AhiSet \/ held' = held \cup {"wav"})
      BY <2>2, PartSets DEF Goto
    <3> QED
      BY <2>1, <2>2, <3>1
         DEF HeldInv, BufPCs, SockPCs, WorkPCs, ReadingPCs, AhiSet
  <2>3. CASE /\ Goto("open", "finish") /\ opened' = "failed"
             /\ \E part \in IF amiga THEN Prefixes(AhiParts) \ {AhiParts} ELSE {<<>>} :
                   held' = held \cup ToSet(part)
    <3>1. ToSet(<<>>) = {}
      BY DEF ToSet
    <3>2. PICK more : more \subseteq AhiSet /\ held' = held \cup more
      BY <2>3, <3>1, PartSets
    <3>3. pc' = "finish"
      BY <2>3 DEF Goto
    <3> QED
      BY <2>1, <2>3, <3>2, <3>3
         DEF HeldInv, BufPCs, SockPCs, WorkPCs, ReadingPCs, AhiSet
  <2> QED
    BY <1>4, <2>2, <2>3 DEF AudioOpen
<1> QED
  BY <1>1, <1>2, <1>3, <1>4 DEF Play

LEMMA HeldFinish ==
    ASSUME TypeInv, HeldInv, Finish
    PROVE  HeldInv'
<1>0. prog' = prog /\ opened' = opened /\ opened \in {"not", "ok", "failed"}
  BY TypeInvIs DEF ControlType, Finish, FinishRun, ExitProbe, FinishSay, Goto, Quiet, outVars
<1>1. CASE FinishRun
  <2>1. pc' \in {"connect", "exit"} /\ held' = held \ {"buf", "sock"} /\ prog = "probe"
    BY <1>1 DEF FinishRun, Goto, AfterRun
  <2>2. opened = "not"
    BY <2>1 DEF HeldInv
  <2> QED
    BY <1>0, <2>1, <2>2 DEF HeldInv
<1>2. CASE ExitProbe
  <2>1. pc = "exit" /\ pc' = "done" /\ held' = (held \ {"file"}) \ NetParts
    BY <1>2 DEF ExitProbe, Goto, Cleanup
  <2>2. opened = "not" /\ "buf" \notin held /\ "sock" \notin held
    BY <2>1 DEF HeldInv, BufPCs, SockPCs, WorkPCs, ReadingPCs
  <2>3. held' = {}
    BY <2>1, <2>2, PartSets DEF HeldInv
  <2> QED
    BY <1>0, <2>1, <2>2, <2>3 DEF HeldInv
<1>3. CASE FinishSay
  <2>1. /\ pc' = "done" /\ prog = "say"
        /\ held' = ((IF opened = "ok" THEN held \ SinkParts ELSE held) \ {"buf", "sock"}) \ NetParts
    BY <1>3 DEF FinishSay, Goto, Cleanup, AudioClose
  <2>2. held' \subseteq IF opened = "failed" THEN AhiSet ELSE {}
    <3>1. CASE opened = "ok"
      BY <2>1, <3>1, PartSets DEF HeldInv
    <3>2. CASE opened = "not"
      BY <2>1, <3>2, PartSets DEF HeldInv
    <3>3. CASE opened = "failed"
      BY <2>1, <3>3, PartSets DEF HeldInv
    <3> QED
      BY <1>0, <3>1, <3>2, <3>3
  <2> QED
    BY <1>0, <2>1, <2>2 DEF HeldInv, AhiSet
<1> QED
  BY <1>1, <1>2, <1>3 DEF Finish

LEMMA HeldStep == TypeInv /\ HeldInv /\ [Next]_vars => HeldInv'
<1>1. ASSUME TypeInv, HeldInv, Next PROVE HeldInv'
  BY <1>1, HeldSetup, HeldBegin, HeldReading, HeldFinish DEF Next, Client, Setup
<1>2. ASSUME HeldInv, UNCHANGED vars PROVE HeldInv'
  BY <1>2 DEF vars, outVars, HeldInv, BufPCs, SockPCs
<1> QED
  BY <1>1, <1>2

LEMMA HeldHolds == Spec => []HeldInv
BY TypesHold, HeldStart, HeldStep, PTL DEF Spec

\* Wherever the programs end, they have given back what they acquired, but for
\* the parts of AHI a failed audio_open of saytest had got.
THEOREM AllReleased == Spec => []NothingLeft
<1>1. HeldInv => NothingLeft
  BY PartSets DEF HeldInv, NothingLeft
<1> QED
  BY HeldHolds, <1>1, PTL

-----------------------------------------------------------------------------
(* The answer on the wire.                                                 *)

Total     == Payload * Cardinality({i \in DOMAIN Script : Script[i] = "chunk"})
Before(i) == Payload * Cardinality({j \in 1..(i - 1) : Script[j] = "chunk"})

\* The first g units of the audio of run r; the units of p follow them.
Heard(r, g)  == [n \in 1..g |-> Unit("pcm", "chunk", r, n)]
Pcm(p, r, g) == \A j \in 1..Len(p) : p[j] = Unit("pcm", "chunk", r, g + j)

\* How much audio comes before an event.
LEMMA BeforeIs ==
    /\ Before(1) = 0 /\ Before(2) = 0 /\ Before(3) = Payload /\ Before(4) = Payload
    /\ Before(5) = Before(4) + Payload /\ Before(6) = Before(5) /\ Total = Before(6)
    /\ \A i \in 1..6 : Before(i) \in Nat /\ Before(i) <= Total
<1> DEFINE C(i) == {j \in 1..i : Script[j] = "chunk"}
<1>1. \A i \in 1..6 : Before(i) = Payload * Cardinality(C(i - 1))
  BY DEF Before
<1>2. /\ \A j \in 1..0 : FALSE
      /\ \A j \in 1..1 : j = 1
      /\ \A j \in 1..2 : j = 1 \/ j = 2
      /\ \A j \in 1..3 : j = 1 \/ j = 2 \/ j = 3
      /\ \A j \in 1..4 : j = 1 \/ j = 2 \/ j = 3 \/ j = 4
      /\ \A j \in 1..5 : j = 1 \/ j = 2 \/ j = 3 \/ j = 4 \/ j = 5
      /\ \A j \in 1..7 : j = 1 \/ j = 2 \/ j = 3 \/ j = 4 \/ j = 5 \/ j = 6 \/ j = 7
  OBVIOUS
<1>3. Script[7] = "note"
  BY DEF Script
<1>4. C(0) = {} /\ C(1) = {} /\ C(2) = {2} /\ C(3) = {2}
  BY <1>2, ScriptIs
<1>5. C(4) = {2, 4} /\ C(5) = {2, 4}
  BY <1>2, ScriptIs
<1>6. {i \in DOMAIN Script : Script[i] = "chunk"} = {2, 4}
  BY <1>2, <1>3, ScriptIs
<1>7. Cardinality({}) = 0 /\ Cardinality({2}) = 1 /\ Cardinality({2, 4}) = 2
  <2>1. Cardinality({}) = 0 /\ IsFiniteSet({})
    BY FS_EmptySet
  <2>2. Cardinality({2}) = 1 /\ IsFiniteSet({2})
    BY FS_Singleton
  <2>3. Cardinality({2} \cup {4}) = 2
    BY <2>2, FS_AddElement
  <2>4. {2} \cup {4} = {2, 4}
    OBVIOUS
  <2> QED
    BY <2>1, <2>2, <2>3, <2>4
<1> HIDE DEF C
<1>8. /\ Cardinality(C(0)) = 0 /\ Cardinality(C(1)) = 0 /\ Cardinality(C(2)) = 1
      /\ Cardinality(C(3)) = 1 /\ Cardinality(C(4)) = 2 /\ Cardinality(C(5)) = 2
  BY <1>4, <1>5, <1>7
<1>9. /\ Before(1) = Payload * 0 /\ Before(2) = Payload * 0 /\ Before(3) = Payload * 1
      /\ Before(4) = Payload * 1 /\ Before(5) = Payload * 2 /\ Before(6) = Payload * 2
  <2>1. 1 \in 1..6 /\ 2 \in 1..6 /\ 3 \in 1..6 /\ 4 \in 1..6 /\ 5 \in 1..6 /\ 6 \in 1..6
    OBVIOUS
  <2>2. /\ Before(1) = Payload * Cardinality(C(0)) /\ Before(2) = Payload * Cardinality(C(1))
        /\ Before(3) = Payload * Cardinality(C(2)) /\ Before(4) = Payload * Cardinality(C(3))
        /\ Before(5) = Payload * Cardinality(C(4)) /\ Before(6) = Payload * Cardinality(C(5))
    BY <1>1, <2>1
  <2> QED
    BY <1>8, <2>2
<1>10. Total = Payload * 2
  BY <1>6, <1>7 DEF Total
<1>11. \A i \in 1..6 : i = 1 \/ i = 2 \/ i = 3 \/ i = 4 \/ i = 5 \/ i = 6
  OBVIOUS
<1> QED
  BY <1>9, <1>10, <1>11, ConstantsAre

\* Before the next event there is also the audio of this one.
LEMMA BeforeNext ==
    ASSUME NEW i \in 1..6
    PROVE  /\ Before(i) \in Nat /\ Before(i) <= Total /\ Total \in Nat
           /\ Script[i] \in Kinds
           /\ Script[i] = "chunk" => i + 1 \in 1..6 /\ Before(i + 1) = Before(i) + Payload
           /\ Script[i] \in {"start", "info", "note"} =>
                 i + 1 \in 1..6 /\ Before(i + 1) = Before(i)
           /\ Script[i] = "stop" => Before(i) = Total
<1>1. i = 1 \/ i = 2 \/ i = 3 \/ i = 4 \/ i = 5 \/ i = 6
  OBVIOUS
<1>2. 2 \in 1..6 /\ 3 \in 1..6 /\ 4 \in 1..6 /\ 5 \in 1..6 /\ 6 \in 1..6
  OBVIOUS
<1>3. 1 + 1 = 2 /\ 2 + 1 = 3 /\ 3 + 1 = 4 /\ 4 + 1 = 5 /\ 5 + 1 = 6
  OBVIOUS
<1>4. /\ Script[i] \in Kinds
      /\ Script[i] = "chunk" => i = 2 \/ i = 4
      /\ Script[i] = "stop" => i = 6
      /\ Script[i] \in {"start", "info", "note"} => i = 1 \/ i = 3 \/ i = 5
  BY <1>1, ScriptIs
<1>5. Before(3) = Before(2) + Payload /\ Before(5) = Before(4) + Payload
  BY BeforeIs, ConstantsAre
<1> QED
  BY <1>2, <1>3, <1>4, <1>5, BeforeIs

\* The units of an event.
EventUnits(e, kind, r, b) ==
    /\ Len(e) = 2 + (IF kind = "chunk" THEN 1 ELSE 0) + PayloadOf(kind)
    /\ e[1] = Unit("head", kind, r, 0) /\ e[2] = Unit("newline", kind, r, 0)
    /\ kind = "chunk" => /\ e[3] = Unit("data", kind, r, 0)
                         /\ \A n \in 1..Payload : e[3 + n] = Unit("pcm", "chunk", r, b + n)

\* The first of two sequences stands where it stood.
LEMMA OneInFront ==
    ASSUME NEW X, NEW s \in Seq(X), NEW t \in Seq(X)
    PROVE  \A k \in 1..Len(s) : (s \o t)[k] = s[k]
<1>1. Len(s) \in Nat /\ Len(t) \in Nat
  OBVIOUS
<1>2. \A n \in 1..Len(s) + Len(t) : (s \o t)[n] = IF n <= Len(s) THEN s[n] ELSE t[n - Len(s)]
  BY ConcatProperties
<1> QED
  BY <1>1, <1>2

\* The second of two sequences stands behind the first.
LEMMA OneBehind ==
    ASSUME NEW X, NEW s \in Seq(X), NEW t \in Seq(X)
    PROVE  \A k \in 1..Len(t) : (s \o t)[Len(s) + k] = t[k]
<1>1. Len(s) \in Nat /\ Len(t) \in Nat
  OBVIOUS
<1>2. ASSUME NEW k \in 1..Len(t)
      PROVE  /\ Len(s) + k \in 1..Len(s) + Len(t) /\ ~(Len(s) + k <= Len(s))
             /\ Len(s) + k - Len(s) = k
  BY <1>1
<1>3. \A n \in 1..Len(s) + Len(t) : (s \o t)[n] = IF n <= Len(s) THEN s[n] ELSE t[n - Len(s)]
  BY ConcatProperties
<1> QED
  BY <1>2, <1>3

LEMMA EventIs ==
    ASSUME NEW r \in Nat, NEW i \in 1..7
    PROVE  EventUnits(WireEvent(r, i), Script[i], r, Before(i))
<1> DEFINE kind == Script[i]
           l == PayloadOf(kind)
           a == <<Unit("head", kind, r, 0), Unit("newline", kind, r, 0)>>
           d == IF HasData(kind) THEN <<Unit("data", kind, r, 0)>> ELSE <<>>
           p == [n \in 1..l |->
                   Unit(IF kind = "chunk" THEN "pcm" ELSE "junk", kind, r, Before(i) + n)]
           e == WireEvent(r, i)
           S == {Unit("head", kind, r, 0), Unit("newline", kind, r, 0), Unit("data", kind, r, 0)}
                \cup {p[n] : n \in 1..l}
<1>1. e = (a \o d) \o p
  BY DEF WireEvent, Before
<1>2. l \in Nat
  BY PayloadType, ConstantsAre
<1>3. /\ a \in Seq(S) /\ Len(a) = 2
      /\ a[1] = Unit("head", kind, r, 0) /\ a[2] = Unit("newline", kind, r, 0)
  OBVIOUS
<1>4. /\ d \in Seq(S) /\ Len(d) = (IF kind = "chunk" THEN 1 ELSE 0)
      /\ kind = "chunk" => d[1] = Unit("data", kind, r, 0)
  <2>1. CASE kind = "chunk"
    <3>1. d = <<Unit("data", kind, r, 0)>>
      BY <2>1 DEF HasData
    <3> HIDE DEF d
    <3> QED
      BY <2>1, <3>1
  <2>2. CASE kind # "chunk"
    <3>1. d = <<>>
      BY <2>2 DEF HasData
    <3> HIDE DEF d
    <3> QED
      BY <2>2, <3>1
  <2> QED
    BY <2>1, <2>2
<1>5. p \in Seq(S) /\ Len(p) = l
  BY <1>2, IsASeq
<1>6. kind = "chunk" => l = Payload /\ \A n \in 1..Payload : p[n] = Unit("pcm", "chunk", r, Before(i) + n)
  BY DEF PayloadOf
<1> HIDE DEF a, d, p, e, S, l, kind
<1>7. /\ a \o d \in Seq(S) /\ Len(a \o d) = 2 + Len(d)
      /\ (a \o d)[1] = a[1] /\ (a \o d)[2] = a[2]
      /\ kind = "chunk" => (a \o d)[3] = d[1]
  <2>0. a \in Seq(S) /\ d \in Seq(S) /\ Len(a) = 2 /\ 1 \in 1..Len(a) /\ 2 \in 1..Len(a)
    BY <1>3, <1>4
  <2>1. a \o d \in Seq(S) /\ Len(a \o d) = 2 + Len(d)
    <3>1. a \o d \in Seq(S) /\ Len(a \o d) = Len(a) + Len(d)
      BY <2>0, ConcatProperties
    <3> QED
      BY <2>0, <3>1
  <2>2. (a \o d)[1] = a[1] /\ (a \o d)[2] = a[2]
    <3>1. a \in Seq(S) /\ d \in Seq(S)
      BY <2>0
    <3>2. \A k \in 1..Len(a) : (a \o d)[k] = a[k]
      BY <3>1, OneInFront
    <3> QED
      BY <2>0, <3>2
  <2>3. ASSUME kind = "chunk" PROVE (a \o d)[3] = d[1]
    <3>1. Len(d) = 1
      BY <1>4, <2>3
    <3>2. 3 = Len(a) + 1 /\ 1 \in 1..Len(d)
      BY <1>3, <3>1
    <3>3. a \in Seq(S) /\ d \in Seq(S)
      BY <2>0
    <3>4. \A k \in 1..Len(d) : (a \o d)[Len(a) + k] = d[k]
      BY <3>3, OneBehind
    <3> QED
      BY <3>2, <3>4
  <2> QED
    BY <2>1, <2>2, <2>3
<1>8. Len(d) \in {0, 1}
  BY <1>4
<1>9. /\ Len(e) = 2 + Len(d) + l
      /\ \A j \in 1..2 + Len(d) : e[j] = (a \o d)[j]
      /\ \A n \in 1..l : e[2 + Len(d) + n] = p[n]
  <2> DEFINE ad == a \o d
  <2>1. ad \in Seq(S) /\ p \in Seq(S) /\ e = ad \o p
    BY <1>1, <1>5, <1>7
  <2> HIDE DEF ad
  <2>2. Len(e) = Len(ad) + Len(p)
    BY <2>1, ConcatProperties
  <2>3. \A j \in 1..Len(ad) : e[j] = ad[j]
    BY <2>1, OneInFront
  <2>4. \A n \in 1..Len(p) : e[Len(ad) + n] = p[n]
    BY <2>1, OneBehind
  <2>5. Len(ad) = 2 + Len(d) /\ Len(p) = l
    BY <1>5, <1>7 DEF ad
  <2> QED
    BY <2>2, <2>3, <2>4, <2>5 DEF ad
<1>10. /\ e[1] = a[1] /\ e[2] = a[2]
       /\ kind = "chunk" => e[3] = d[1]
  BY <1>4, <1>7, <1>8, <1>9
<1>11. kind = "chunk" => \A n \in 1..Payload : e[3 + n] = Unit("pcm", "chunk", r, Before(i) + n)
  <2>1. kind = "chunk" => 2 + Len(d) = 3
    BY <1>4
  <2> QED
    BY <1>6, <1>9, <2>1
<1> QED
  BY <1>3, <1>4, <1>9, <1>10, <1>11 DEF EventUnits, e, kind, l

\* Where each event begins in the answer to run r.
Places(off, r) ==
    /\ off \in [0..7 -> Nat] /\ off[0] = 0
    /\ \A k \in 1..7 : off[k] = off[k - 1] + Len(WireEvent(r, k))
    /\ \A k \in 1..7 : \A j \in 1..Len(WireEvent(r, k)) :
          Wire(r)[off[k - 1] + j] = WireEvent(r, k)[j]
Off(r) == CHOOSE off : Places(off, r)

LEMMA PlacesAre ==
    ASSUME NEW r \in Nat
    PROVE  Places(Off(r), r)
<1>1. /\ Answer(r) \in Seq(Seq(Units)) /\ Len(Answer(r)) = 7
      /\ Wire(r) = FlattenSeq(Answer(r))
      /\ \A i \in 1..7 : Answer(r)[i] = WireEvent(r, i)
  BY AnswerType
<1> DEFINE ss == Answer(r)
<1> HIDE DEF ss
<1>2. ss \in Seq(Seq(Units)) /\ Len(ss) = 7 /\ Wire(r) = FlattenSeq(ss)
      /\ \A i \in 1..7 : ss[i] = WireEvent(r, i)
  BY <1>1 DEF ss
<1>3. PICK off : AreOffsets(off, ss)
  BY <1>2, FlattenAt
<1>4. /\ off \in [0..7 -> Nat] /\ off[0] = 0
      /\ \A k \in 1..7 : off[k] = off[k - 1] + Len(ss[k])
      /\ \A k \in 1..7 : \A j \in 1..Len(ss[k]) : Wire(r)[off[k - 1] + j] = ss[k][j]
  BY <1>2, <1>3 DEF AreOffsets
<1>5. /\ \A k \in 1..7 : off[k] = off[k - 1] + Len(WireEvent(r, k))
      /\ \A k \in 1..7 : \A j \in 1..Len(WireEvent(r, k)) :
            Wire(r)[off[k - 1] + j] = WireEvent(r, k)[j]
  <2> SUFFICES ASSUME NEW k \in 1..7
               PROVE  /\ off[k] = off[k - 1] + Len(WireEvent(r, k))
                      /\ \A j \in 1..Len(WireEvent(r, k)) :
                            Wire(r)[off[k - 1] + j] = WireEvent(r, k)[j]
    OBVIOUS
  <2>1. ss[k] = WireEvent(r, k)
    BY <1>2
  <2>2. /\ off[k] = off[k - 1] + Len(ss[k])
        /\ \A j \in 1..Len(ss[k]) : Wire(r)[off[k - 1] + j] = ss[k][j]
    BY <1>4
  <2> QED
    BY <2>1, <2>2
<1>6. Places(off, r)
  BY <1>4, <1>5 DEF Places
<1> QED
  BY <1>6 DEF Off

\* The wire from the beginning of an event on: w is the wire, k the place.
EventOn(w, k, next, kind, r, b) ==
    /\ k \in Nat /\ next \in Nat
    /\ next = k + 2 + (IF kind = "chunk" THEN 1 ELSE 0) + PayloadOf(kind)
    /\ w[k + 1] = Unit("head", kind, r, 0) /\ w[k + 2] = Unit("newline", kind, r, 0)
    /\ kind = "chunk" => \A n \in 1..Payload : w[k + 3 + n] = Unit("pcm", "chunk", r, b + n)

LEMMA WireAt ==
    ASSUME NEW r \in Nat, NEW i \in 1..6
    PROVE  EventOn(Wire(r), Off(r)[i - 1], Off(r)[i], Script[i], r, Before(i))
<1> DEFINE k == Off(r)[i - 1]
           next == Off(r)[i]
           e == WireEvent(r, i)
           kind == Script[i]
           w == Wire(r)
<1>1. i \in 1..7 /\ i - 1 \in 0..7 /\ i \in 0..7
  OBVIOUS
<1>2. /\ k \in Nat /\ next \in Nat /\ next = k + Len(e)
      /\ \A j \in 1..Len(e) : w[k + j] = e[j]
  BY <1>1, PlacesAre DEF Places
<1>3. EventUnits(e, kind, r, Before(i))
  BY <1>1, EventIs
<1>4. PayloadOf(kind) \in Nat /\ (kind = "chunk" => PayloadOf(kind) = Payload)
  BY PayloadType, ConstantsAre DEF PayloadOf
<1> HIDE DEF k, next, e, kind, w
<1>5. Len(e) = 2 + (IF kind = "chunk" THEN 1 ELSE 0) + PayloadOf(kind) /\ Len(e) \in Nat
  BY <1>3, <1>4 DEF EventUnits
<1>6. 1 \in 1..Len(e) /\ 2 \in 1..Len(e)
  BY <1>4, <1>5
<1>7. w[k + 1] = Unit("head", kind, r, 0) /\ w[k + 2] = Unit("newline", kind, r, 0)
  BY <1>2, <1>3, <1>6 DEF EventUnits
<1>8. ASSUME kind = "chunk", NEW n \in 1..Payload
      PROVE  w[k + 3 + n] = Unit("pcm", "chunk", r, Before(i) + n)
  <2>1. 3 + n \in 1..Len(e) /\ k + (3 + n) = k + 3 + n
    BY <1>2, <1>4, <1>5, <1>8, ConstantsAre
  <2>2. w[k + (3 + n)] = e[3 + n]
    BY <1>2, <2>1
  <2>3. e[3 + n] = Unit("pcm", "chunk", r, Before(i) + n)
    BY <1>3, <1>8 DEF EventUnits
  <2> QED
    BY <2>1, <2>2, <2>3
<1>9. next = k + 2 + (IF kind = "chunk" THEN 1 ELSE 0) + PayloadOf(kind)
  <2>1. CASE kind = "chunk"
    BY <1>2, <1>4, <1>5, <2>1
  <2>2. CASE kind # "chunk"
    BY <1>2, <1>4, <1>5, <2>2
  <2> QED
    BY <2>1, <2>2
<1>10. EventOn(w, k, next, kind, r, Before(i))
  BY <1>2, <1>7, <1>8, <1>9 DEF EventOn
<1> QED
  BY <1>10 DEF k, next, kind, w

-----------------------------------------------------------------------------
(* Buffers that hold the wire w from place k on: b is what was received, s *)
(* what is still to come.                                                  *)

On(b, s, w, k) ==
    /\ \A j \in 1..Len(b) : b[j] = w[k + j]
    /\ \A j \in 1..Len(s) : s[j] = w[k + Len(b) + j]

LEMMA OnStart ==
    ASSUME NEW w
    PROVE  On(<<>>, w, w, 0)
BY DEF On

LEMMA OnRecv ==
    ASSUME NEW b, b = <<>>, NEW s \in Seq(Units), NEW w, NEW k \in Nat, On(b, s, w, k),
           NEW n \in 0..Len(s)
    PROVE  On(SubSeq(s, 1, n), SubSeq(s, n + 1, Len(s)), w, k)
<1> DEFINE x == SubSeq(s, 1, n)
           y == SubSeq(s, n + 1, Len(s))
           l == Len(s)
<1>1. /\ Len(x) = n /\ Len(y) = l - n
      /\ \A j \in 1..n : x[j] = s[j]
      /\ \A j \in 1..l - n : y[j] = s[n + j]
  BY Cut
<1>2. l \in Nat /\ n \in Nat /\ n <= l
  OBVIOUS
<1>3. \A j \in 1..l : s[j] = w[k + j]
  <2>1. Len(b) = 0 /\ k + 0 = k
    OBVIOUS
  <2> QED
    BY <2>1 DEF On
<1> HIDE DEF x, y, l
<1>4. ASSUME NEW j \in 1..n PROVE x[j] = w[k + j]
  <2>1. j \in 1..l
    BY <1>2
  <2> QED
    BY <1>1, <1>3, <2>1
<1>5. ASSUME NEW j \in 1..l - n PROVE y[j] = w[k + n + j]
  <2>1. n + j \in 1..l /\ k + (n + j) = k + n + j
    BY <1>2
  <2> QED
    BY <1>1, <1>3, <2>1
<1>6. On(x, y, w, k)
  BY <1>1, <1>4, <1>5 DEF On
<1> QED
  BY <1>6 DEF x, y, l

LEMMA OnTake ==
    ASSUME NEW b \in Seq(Units), NEW s, NEW w, NEW k \in Nat, On(b, s, w, k),
           NEW n \in 0..Len(b)
    PROVE  /\ On(SubSeq(b, n + 1, Len(b)), s, w, k + n)
           /\ \A j \in 1..n : b[j] = w[k + j]
<1> DEFINE y == SubSeq(b, n + 1, Len(b))
           l == Len(b)
<1>1. Len(y) = l - n /\ \A j \in 1..l - n : y[j] = b[n + j]
  BY Cut
<1>2. l \in Nat /\ n \in Nat /\ n <= l
  OBVIOUS
<1>3. /\ \A j \in 1..l : b[j] = w[k + j]
      /\ \A j \in 1..Len(s) : s[j] = w[k + l + j]
  BY DEF On
<1> HIDE DEF y, l
<1>4. ASSUME NEW j \in 1..l - n PROVE y[j] = w[k + n + j]
  <2>1. n + j \in 1..l /\ k + (n + j) = k + n + j
    BY <1>2
  <2> QED
    BY <1>1, <1>3, <2>1
<1>5. k + n + (l - n) = k + l
  BY <1>2
<1>6. On(y, s, w, k + n)
  BY <1>1, <1>3, <1>4, <1>5 DEF On
<1>7. \A j \in 1..n : j \in 1..l
  BY <1>2
<1> QED
  BY <1>3, <1>6, <1>7 DEF y, l

LEMMA OnTail ==
    ASSUME NEW b \in Seq(Units), b # <<>>, NEW s, NEW w, NEW k \in Nat, On(b, s, w, k)
    PROVE  On(Tail(b), s, w, k + 1) /\ Head(b) = w[k + 1]
<1>1. /\ Head(b) = b[1] /\ Len(b) \in Nat /\ Len(b) >= 1
      /\ Tail(b) \in Seq(Units) /\ Len(Tail(b)) = Len(b) - 1
      /\ \A j \in 1..Len(b) - 1 : Tail(b)[j] = b[1 + j]
  BY TailType
<1> DEFINE y == Tail(b)
           l == Len(b)
<1>2. /\ \A j \in 1..l : b[j] = w[k + j]
      /\ \A j \in 1..Len(s) : s[j] = w[k + l + j]
  BY DEF On
<1>3. l \in Nat /\ l >= 1 /\ Len(y) = l - 1 /\ \A j \in 1..l - 1 : y[j] = b[1 + j]
  BY <1>1
<1> HIDE DEF y, l
<1>4. ASSUME NEW j \in 1..l - 1 PROVE y[j] = w[k + 1 + j]
  <2>1. 1 + j \in 1..l /\ k + (1 + j) = k + 1 + j
    BY <1>3
  <2> QED
    BY <1>2, <1>3, <2>1
<1>5. k + 1 + (l - 1) = k + l
  BY <1>3
<1>6. On(y, s, w, k + 1)
  BY <1>2, <1>3, <1>4, <1>5 DEF On
<1>7. 1 \in 1..l
  BY <1>3
<1> QED
  BY <1>1, <1>2, <1>6, <1>7 DEF y

\* The server sends nothing more.
LEMMA OnCut ==
    ASSUME NEW b, NEW s, NEW w, NEW k, On(b, s, w, k), NEW t, t = <<>>
    PROVE  On(b, t, w, k)
BY DEF On

-----------------------------------------------------------------------------
(* Audio.                                                                  *)

LEMMA HeardIs ==
    ASSUME NEW r \in Nat, NEW g \in Nat
    PROVE  /\ Heard(r, g) \in Seq(Units) /\ Len(Heard(r, g)) = g
           /\ \A n \in 1..g : Heard(r, g)[n] = Unit("pcm", "chunk", r, n)
<1>1. \A n \in 1..g : Unit("pcm", "chunk", r, n) \in Units
  BY DEF Unit, Units, Kinds
<1>2. Heard(r, g) \in Seq(Units) /\ Len(Heard(r, g)) = g
  BY <1>1, IsASeq DEF Heard
<1> QED
  BY <1>2 DEF Heard

LEMMA NoneHeard ==
    ASSUME NEW r
    PROVE  Heard(r, 0) = <<>>
BY DEF Heard

LEMMA HeardMore ==
    ASSUME NEW r \in Nat, NEW g \in Nat, NEW p \in Seq(Units), Pcm(p, r, g)
    PROVE  Heard(r, g) \o p = Heard(r, g + Len(p))
<1> DEFINE h == Heard(r, g)
           m == Heard(r, g + Len(p))
           c == h \o p
<1>0. Len(p) \in Nat /\ g + Len(p) \in Nat
  OBVIOUS
<1>1. h \in Seq(Units) /\ Len(h) = g /\ \A n \in 1..g : h[n] = Unit("pcm", "chunk", r, n)
  BY HeardIs
<1>2. /\ m \in Seq(Units) /\ Len(m) = g + Len(p)
      /\ \A n \in 1..g + Len(p) : m[n] = Unit("pcm", "chunk", r, n)
  BY <1>0, HeardIs
<1> HIDE DEF h, m
<1>3. /\ c \in Seq(Units) /\ Len(c) = g + Len(p)
      /\ \A i \in 1..g + Len(p) : c[i] = IF i <= g THEN h[i] ELSE p[i - g]
  BY <1>1, ConcatProperties
<1> HIDE DEF c
<1>4. ASSUME NEW i \in 1..g + Len(p) PROVE c[i] = m[i]
  <2>1. CASE i <= g
    BY <1>0, <1>1, <1>2, <1>3, <2>1
  <2>2. CASE ~(i <= g)
    <3>1. i - g \in 1..Len(p) /\ g + (i - g) = i
      BY <1>0, <2>2
    <3>2. p[i - g] = Unit("pcm", "chunk", r, i)
      <4>1. p[i - g] = Unit("pcm", "chunk", r, g + (i - g))
        BY <3>1 DEF Pcm
      <4> QED
        BY <3>1, <4>1
    <3> QED
      BY <1>2, <1>3, <2>2, <3>2
  <2> QED
    BY <2>1, <2>2
<1>5. c = m
  BY <1>2, <1>3, <1>4, SeqEqual
<1> QED
  BY <1>5 DEF c, h, m

LEMMA HeardPart ==
    ASSUME NEW r \in Nat, NEW g \in Nat, NEW n \in 0..g
    PROVE  SubSeq(Heard(r, g), 1, n) = Heard(r, n)
<1>1. n \in Nat /\ n \in 0..Len(Heard(r, g)) /\ Heard(r, g) \in Seq(Units)
  BY HeardIs
<1>2. /\ SubSeq(Heard(r, g), 1, n) \in Seq(Units) /\ Len(SubSeq(Heard(r, g), 1, n)) = n
      /\ \A j \in 1..n : SubSeq(Heard(r, g), 1, n)[j] = Heard(r, g)[j]
  BY <1>1, Cut
<1>3. /\ Heard(r, n) \in Seq(Units) /\ Len(Heard(r, n)) = n
      /\ \A j \in 1..n : Heard(r, n)[j] = Unit("pcm", "chunk", r, j)
  BY <1>1, HeardIs
<1>4. \A j \in 1..n : Heard(r, g)[j] = Unit("pcm", "chunk", r, j)
  <2>1. \A j \in 1..n : j \in 1..g
    OBVIOUS
  <2> QED
    BY <2>1, HeardIs
<1> DEFINE a == SubSeq(Heard(r, g), 1, n)
           b == Heard(r, n)
<1>5. a \in Seq(Units) /\ b \in Seq(Units) /\ Len(a) = Len(b) /\ \A j \in 1..Len(a) : a[j] = b[j]
  BY <1>2, <1>3, <1>4
<1> HIDE DEF a, b
<1>6. a = b
  BY <1>5, SeqEqual
<1> QED
  BY <1>6 DEF a, b

\* All that is heard of a run is what it speaks.
LEMMA SpeechIs ==
    ASSUME NEW r
    PROVE  Speech(r) = Heard(r, Total)
BY DEF Speech, Heard, Total

-----------------------------------------------------------------------------
(* The reader on the wire.                                                 *)

LoopPCs == {"event", "data", "open", "payload", "skip"}

\* The reader has consumed the first k units of the answer, and is in its i-th
\* event: before it, after its header, before its data block, in its audio, or
\* in the payload that is skipped.
At(i, k) ==
    \/ /\ pc = "event" /\ line = "none"
       /\ k = Off(run)[i - 1] /\ got = Heard(run, Before(i))
    \/ /\ pc = "event" /\ line = Script[i]
       /\ k = Off(run)[i - 1] + 1 /\ got = Heard(run, Before(i))
    \/ /\ pc = "data" /\ event = "chunk" /\ Script[i] = "chunk"
       /\ k = Off(run)[i - 1] + 2 /\ got = Heard(run, Before(i))
    \/ /\ pc \in {"open", "payload"} /\ event = "chunk" /\ Script[i] = "chunk"
       /\ left <= Payload
       /\ k = Off(run)[i - 1] + 3 + (Payload - left) + Len(piece)
       /\ got = Heard(run, Before(i) + (Payload - left))
       /\ Pcm(piece, run, Before(i) + (Payload - left))
    \/ /\ pc = "skip" /\ Script[i] = "info"
       /\ left <= Piece + 1
       /\ k = Off(run)[i - 1] + 2 + (Piece + 1 - left) /\ got = Heard(run, Before(i))

OnTrack == \E i \in 1..6, k \in Nat : On(rbuf, stream, Wire(run), k) /\ At(i, k)

\* The connection has ended and there is nothing left to read.
Dry == rbuf = <<>> /\ stream = <<>> /\ ending \in {"fin", "reset"}

TrackInv == pc \in LoopPCs => OnTrack \/ (Dry /\ pc \notin {"open", "payload"})

\* What is known before and outside of the events.
LinkInv ==
    /\ ending # "none" => mishap # "none" /\ stream = <<>>
    /\ mishap = "cut" => ending # "none"
    /\ pc # "event" => line = "none"
    /\ pc \in {"net_init", "outfile", "buf", "send"} => got = <<>>
    /\ pc = "connect" /\ prog = "say" => got = <<>>
    /\ (pc = "send" \/ (pc = "buf" /\ prog = "probe")) => On(<<>>, stream, Wire(run), 0)

\* What an event that ends the loop, and the result, say of the run.
Tells(good, bad) ==
    /\ good => mishap = "cut" \/ got = Speech(run)
    /\ bad => mishap # "none" \/ opened = "failed"

ResultInv ==
    /\ pc = "finish" => Tells(event = "stop", event # "stop")
    /\ pc \in {"connect", "exit", "done"} => Tells(status = "ok", status = "failed")
    /\ pc \in {"net_init", "outfile"} \/ (pc = "buf" /\ prog = "say") => status = "none"

\* The audio counted, and where it went.
HeardInv == got = Heard(run, Len(got)) /\ Len(got) <= Total

SinkLen(g) == IF amiga /\ g > SinkRoom THEN SinkRoom ELSE g

SinkInv ==
    /\ prog = "probe" => Len(sink) <= Total /\ sink = Heard(1, Len(sink))
    /\ prog = "probe" /\ run = 0 => sink = <<>>
    /\ prog = "probe" /\ run = 1 /\ "file" \in held => sink = got
    /\ prog = "say" => sink = Heard(run, SinkLen(Len(got)))

ReaderInv == LinkInv /\ TrackInv /\ ResultInv /\ HeardInv /\ SinkInv
ClientInv == TypeInv /\ HeldInv /\ ReaderInv

LEMMA ReaderStart == Init => ReaderInv
<1> SUFFICES ASSUME Init PROVE ReaderInv
  OBVIOUS
<1>1. LinkInv /\ TrackInv /\ ResultInv
  BY DEF Init, LinkInv, TrackInv, LoopPCs, ResultInv
<1>2. got = <<>> /\ sink = <<>> /\ run = 0 /\ held = {} /\ Len(got) = 0 /\ Len(sink) = 0
  BY DEF Init
<1>3. Heard(run, 0) = <<>> /\ Heard(1, 0) = <<>>
  BY NoneHeard
<1>4. 0 <= Total /\ SinkLen(0) = 0
  <2>1. 1 \in 1..6
    OBVIOUS
  <2>2. Total \in Nat
    BY <2>1, BeforeNext
  <2> QED
    BY <2>2, ConstantsAre DEF SinkLen
<1>5. HeardInv /\ SinkInv
  BY <1>2, <1>3, <1>4 DEF HeardInv, SinkInv
<1> QED
  BY <1>1, <1>5 DEF ReaderInv

\* The audio of a step that hears nothing.
LEMMA AudioKept ==
    ASSUME ReaderInv, UNCHANGED <<run, got, sink, prog, amiga>>,
           "file" \in held' => "file" \in held \/ run = 0
    PROVE  HeardInv' /\ SinkInv'
BY DEF ReaderInv, HeardInv, SinkInv, SinkLen

\* The audio when a run begins, or fails before it began.
LEMMA AudioBegins ==
    ASSUME ReaderInv, run \in Nat, UNCHANGED <<sink, prog, amiga>>, prog \in {"probe", "say"}, got' = <<>>,
           (run' = run /\ got = <<>>) \/ (run' = run + 1 /\ (prog = "say" => got = <<>>)),
           "file" \in held' => "file" \in held
    PROVE  HeardInv' /\ SinkInv'
<1>1. Total \in Nat /\ SinkRoom \in Nat
  <2>1. 1 \in 1..6
    OBVIOUS
  <2> QED
    BY <2>1, BeforeNext, ConstantsAre
<1>2. Len(got') = 0 /\ Heard(run', 0) = <<>>
  BY NoneHeard
<1>3. HeardInv'
  BY <1>1, <1>2 DEF HeardInv
<1>4. CASE prog = "probe"
  <2>1. (run' = 0 => run = 0) /\ (run' = 1 /\ run # 0 => run = 1 /\ got = <<>>)
    OBVIOUS
  <2>2. /\ Len(sink) <= Total /\ sink = Heard(1, Len(sink))
        /\ run = 0 => sink = <<>>
        /\ run = 1 /\ "file" \in held => sink = got
    BY <1>4 DEF ReaderInv, SinkInv
  <2>3. run' = 0 => sink' = <<>>
    BY <2>1, <2>2
  <2>4. run' = 1 /\ "file" \in held' => sink' = got'
    BY <2>1, <2>2
  <2>5. Len(sink') <= Total /\ sink' = Heard(1, Len(sink'))
    BY <2>2
  <2>6. prog' # "say"
    BY <1>4
  <2> QED
    BY <1>3, <2>3, <2>4, <2>5, <2>6 DEF SinkInv
<1>5. CASE prog = "say"
  <2>1. got = <<>>
    BY <1>5
  <2>2. Len(got) = 0 /\ SinkLen(0) = 0 /\ SinkLen(0)' = 0
    BY <1>1, <2>1 DEF SinkLen
  <2>3. sink = <<>>
    BY <1>5, <2>2, NoneHeard DEF ReaderInv, SinkInv
  <2>4. SinkLen(Len(got))' = 0
    BY <1>1, <1>2 DEF SinkLen
  <2>5. sink' = Heard(run', SinkLen(Len(got))')
    BY <1>2, <2>3, <2>4
  <2>6. prog' # "probe"
    BY <1>5
  <2> QED
    BY <1>3, <2>5, <2>6 DEF SinkInv
<1> QED
  BY <1>3, <1>4, <1>5

LEMMA ReaderSetup ==
    ASSUME ClientInv, NetInit \/ OpenOutFile
    PROVE  ReaderInv'
<1>0. pc \in {"net_init", "outfile"} /\ run = 0
  BY TypeInvIs DEF ClientInv, ControlType, NetInit, OpenOutFile, Goto
<1>1. /\ UNCHANGED <<run, stream, ending, rbuf, line, event, mishap, got, sink, opened, status, prog, amiga>>
      /\ pc' \in {"outfile", "buf", "connect", "done"}
      /\ pc' = "buf" => prog # "probe"
  BY DEF NetInit, OpenOutFile, Goto, Quiet, netVars, readVars, outVars
<1>2. got = <<>> /\ line = "none" /\ status = "none"
  BY <1>0 DEF ClientInv, ReaderInv, LinkInv, ResultInv
<1>3. LinkInv'
  BY <1>1, <1>2 DEF ClientInv, ReaderInv, LinkInv
<1>4. TrackInv' /\ ResultInv'
  BY <1>1, <1>2 DEF TrackInv, LoopPCs, ResultInv, Tells
<1>5. HeardInv' /\ SinkInv'
  BY <1>0, <1>1, AudioKept DEF ClientInv
<1> QED
  BY <1>3, <1>4, <1>5 DEF ReaderInv

LEMMA ReaderGivesUp ==
    ASSUME ClientInv, NEW from \in {"connect", "buf", "send"}, NEW h, NEW r, GiveUp(from, h, r),
           r = run \/ (r = run + 1 /\ from = "connect"), from = "connect" => r = run + 1
    PROVE  ReaderInv'
<1>1. /\ pc = from /\ prog' = prog /\ amiga' = amiga /\ run' = r /\ got' = <<>>
      /\ pc' \in {"connect", "exit", "done"} /\ held' \subseteq held
      /\ status' = "failed" /\ mishap' = "other"
      /\ UNCHANGED <<ending, stream, line, sink>>
  BY DEF GiveUp, Goto, AfterRun, netVars, Cleanup
<1>2. run \in Nat /\ prog \in {"probe", "say"}
  BY TypeInvIs, ConstantsAre DEF ClientInv, ControlType
<1>3. /\ line = "none"
      /\ pc \in {"buf", "send"} => got = <<>>
      /\ pc = "connect" /\ prog = "say" => got = <<>>
  BY <1>1 DEF ClientInv, ReaderInv, LinkInv
<1>4. LinkInv'
  BY <1>1, <1>3 DEF ClientInv, ReaderInv, LinkInv
<1>5. TrackInv' /\ ResultInv'
  BY <1>1 DEF TrackInv, LoopPCs, ResultInv, Tells
<1>6. HeardInv' /\ SinkInv'
  BY <1>1, <1>2, <1>3, AudioBegins DEF ClientInv
<1> QED
  BY <1>4, <1>5, <1>6 DEF ReaderInv

LEMMA ReaderBegins ==
    ASSUME ClientInv, GetBuf \/ Connect \/ Send
    PROVE  ReaderInv'
<1>0. run \in Nat /\ prog \in {"probe", "say"}
  BY TypeInvIs, ConstantsAre DEF ClientInv, ControlType
<1>1. CASE GetBuf
  <2>1. CASE GiveUp("buf", {"sock"}, run)
    BY <2>1, ReaderGivesUp
  <2>2. CASE /\ Goto("buf", IF prog = "probe" THEN "send" ELSE "connect")
             /\ held' = held \cup {"buf"}
             /\ Quiet /\ UNCHANGED <<run, status, rc>>
    <3>1. /\ pc = "buf" /\ held' = held \cup {"buf"}
          /\ pc' = (IF prog = "probe" THEN "send" ELSE "connect")
          /\ UNCHANGED <<prog, amiga, run, status, stream, ending, rbuf, line, event, mishap,
                         got, sink, opened>>
      BY <2>2 DEF Goto, Quiet, netVars, readVars, outVars
    <3>2. LinkInv'
      BY <1>0, <3>1 DEF ClientInv, ReaderInv, LinkInv
    <3>3. TrackInv' /\ ResultInv'
      BY <1>0, <3>1 DEF ClientInv, ReaderInv, TrackInv, LoopPCs, ResultInv, Tells
    <3>4. HeardInv' /\ SinkInv'
      BY <3>1, AudioKept DEF ClientInv
    <3> QED
      BY <3>2, <3>3, <3>4 DEF ReaderInv
  <2> QED
    BY <1>1, <2>1, <2>2 DEF GetBuf
<1>2. CASE Connect
  <2>1. CASE GiveUp("connect", {"buf"}, run + 1)
    BY <2>1, ReaderGivesUp
  <2>2. CASE /\ Goto("connect", IF prog = "probe" THEN "buf" ELSE "send")
             /\ held' = held \cup {"sock"} /\ run' = run + 1
             /\ stream' = Wire(run + 1) /\ ending' = "none"
             /\ event' = "none" /\ got' = <<>> /\ mishap' = "none"
             /\ UNCHANGED <<rbuf, hdr, line, left, piece, sink, opened, status, rc>>
    <3>1. /\ pc = "connect" /\ prog' = prog /\ amiga' = amiga
          /\ pc' = (IF prog = "probe" THEN "buf" ELSE "send")
      BY <2>2 DEF Goto
    <3>2. line = "none" /\ (prog = "say" => got = <<>>)
      BY <3>1 DEF ClientInv, ReaderInv, LinkInv
    <3>3. On(<<>>, stream', Wire(run'), 0)
      BY <2>2, OnStart
    <3>4. LinkInv'
      BY <1>0, <2>2, <3>1, <3>2, <3>3 DEF LinkInv
    <3>5. TrackInv' /\ ResultInv'
      BY <1>0, <3>1 DEF TrackInv, LoopPCs, ResultInv
    <3>6. HeardInv' /\ SinkInv'
      BY <1>0, <2>2, <3>1, <3>2, AudioBegins DEF ClientInv
    <3> QED
      BY <3>4, <3>5, <3>6 DEF ReaderInv
  <2> QED
    BY <1>2, <2>1, <2>2 DEF Connect
<1>3. CASE Send
  <2>1. CASE GiveUp("send", SendFailureFrees, run)
    BY <2>1, ReaderGivesUp
  <2>2. CASE /\ Goto("send", "event") /\ rbuf' = <<>>
             /\ UNCHANGED <<run, held, stream, ending, readVars, outVars, status, rc>>
    <3>1. /\ pc = "send" /\ pc' = "event" /\ rbuf' = <<>>
          /\ UNCHANGED <<prog, amiga, run, held, status, stream, ending, line, event, mishap,
                         got, sink, opened>>
      BY <2>2 DEF Goto, readVars, outVars
    <3>2. /\ line = "none" /\ got = <<>> /\ On(<<>>, stream, Wire(run), 0)
      BY <3>1 DEF ClientInv, ReaderInv, LinkInv
    <3>3. LinkInv'
      BY <3>1, <3>2 DEF ClientInv, ReaderInv, LinkInv
    <3>4. TrackInv'
      <4>1. 1 \in 1..6 /\ 0 \in Nat
        OBVIOUS
      <4>2. Off(run)[0] = 0 /\ Before(1) = 0
        BY <1>0, PlacesAre, BeforeIs DEF Places
      <4>3. At(1, 0)'
        <5>1. Off(run)[1 - 1] = 0
          BY <4>2
        <5>2. Heard(run, Before(1)) = <<>>
          BY <4>2, NoneHeard
        <5> QED
          BY <3>1, <3>2, <5>1, <5>2 DEF At
      <4>4. On(rbuf', stream', Wire(run'), 0)
        BY <3>1, <3>2
      <4>5. OnTrack'
        BY <4>1, <4>3, <4>4 DEF OnTrack
      <4> QED
        BY <4>5 DEF TrackInv
    <3>5. ResultInv'
      BY <3>1 DEF ResultInv
    <3>6. HeardInv' /\ SinkInv'
      BY <3>1, AudioKept DEF ClientInv
    <3> QED
      BY <3>3, <3>4, <3>5, <3>6 DEF ReaderInv
  <2> QED
    BY <1>3, <2>1, <2>2 DEF Send, wyo_reset
<1> QED
  BY <1>1, <1>2, <1>3

\* The types of what the reader works on.
LEMMA ReaderTypes ==
    ASSUME ClientInv
    PROVE  /\ stream \in Seq(Units) /\ rbuf \in Seq(Units) /\ piece \in Seq(Units)
           /\ Len(piece) \in Nat /\ left \in Nat /\ run \in Nat /\ Payload \in Nat /\ Piece \in Nat
           /\ ending \in {"none", "fin", "reset", "hung"} /\ opened \in {"not", "ok", "failed"}
           /\ prog \in {"probe", "say"}
BY TypeInvIs, ConstantsAre DEF ClientInv, ControlType, ReadType

\* recv() and the server.
LEMMA ReaderNet ==
    ASSUME ClientInv, Recv \/ ServerEnds
    PROVE  ReaderInv'
<1>0. stream \in Seq(Units)
  BY ReaderTypes
<1>1. CASE Recv
  <2>1. /\ pc \in {"event", "data", "payload", "skip"} /\ rbuf = <<>>
        /\ UNCHANGED <<prog, amiga, pc, run, held, ending, status, line, event, left, piece, mishap,
                       got, sink, opened>>
    BY <1>1 DEF Recv, Reading, readVars, outVars
  <2>2. PICK n \in 1..Min({RbufRoom, Len(stream)}) :
          /\ rbuf' = SubSeq(stream, 1, n)
          /\ stream' = SubSeq(stream, n + 1, Len(stream))
    BY <1>1 DEF Recv
  <2>3. n \in 0..Len(stream) /\ n >= 1
    <3>1. Len(stream) \in Nat
      BY <1>0
    <3>2. Min({RbufRoom, Len(stream)}) = IF RbufRoom <= Len(stream) THEN RbufRoom ELSE Len(stream)
      BY <3>1, ConstantsAre, MinOfTwo
    <3> QED
      BY <3>1, <3>2, ConstantsAre
  <2>4. stream # <<>>
    BY <2>3
  <2>5. OnTrack
    BY <2>1, <2>4 DEF ClientInv, ReaderInv, TrackInv, LoopPCs, Dry
  <2>6. PICK i \in 1..6, k \in Nat : On(rbuf, stream, Wire(run), k) /\ At(i, k)
    BY <2>5 DEF OnTrack
  <2>7. On(rbuf', stream', Wire(run'), k)
    BY <1>0, <2>1, <2>2, <2>3, <2>6, OnRecv
  <2>8. At(i, k)'
    BY <2>1, <2>6 DEF At
  <2>9. TrackInv'
    BY <2>7, <2>8 DEF TrackInv, OnTrack
  <2>10. LinkInv' /\ ResultInv'
    BY <2>1, <2>4 DEF ClientInv, ReaderInv, LinkInv, ResultInv
  <2>11. HeardInv' /\ SinkInv'
    BY <2>1, AudioKept DEF ClientInv
  <2> QED
    BY <2>9, <2>10, <2>11 DEF ReaderInv
<1>2. CASE ServerEnds
  <2>1. /\ "sock" \in held /\ ending = "none" /\ ending' # "none" /\ stream' = <<>> /\ mishap' = "other"
        /\ UNCHANGED <<prog, amiga, pc, run, held, rbuf, status, line, event, left, piece,
                       got, sink, opened>>
    BY <1>2 DEF ServerEnds, outVars
  <2>2. pc \in SockPCs /\ pc \notin {"connect", "exit", "done", "net_init", "outfile"}
    BY <2>1 DEF ClientInv, HeldInv, SockPCs, WorkPCs, ReadingPCs
  <2>3. mishap # "cut"
    BY <2>1 DEF ClientInv, ReaderInv, LinkInv
  <2>4. LinkInv'
    <3>1. \A w, k : On(<<>>, stream, w, k) => On(<<>>, stream', w, k)
      BY <2>1, OnCut
    <3> QED
      BY <2>1, <3>1 DEF ClientInv, ReaderInv, LinkInv
  <2>5. TrackInv'
    <3> SUFFICES ASSUME pc \in LoopPCs PROVE OnTrack'
      BY <2>1 DEF TrackInv
    <3>1. OnTrack
      BY <2>1 DEF ClientInv, ReaderInv, TrackInv, Dry
    <3>2. PICK i \in 1..6, k \in Nat : On(rbuf, stream, Wire(run), k) /\ At(i, k)
      BY <3>1 DEF OnTrack
    <3>3. On(rbuf', stream', Wire(run'), k)
      BY <2>1, <3>2, OnCut
    <3>4. At(i, k)'
      BY <2>1, <3>2 DEF At
    <3> QED
      BY <3>3, <3>4 DEF OnTrack
  <2>6. ResultInv'
    <3>1. pc = "finish" => Tells(event = "stop", event # "stop")'
      BY <2>1, <2>3 DEF ClientInv, ReaderInv, ResultInv, Tells
    <3> QED
      BY <2>1, <2>2, <3>1 DEF ClientInv, ReaderInv, ResultInv
  <2>7. HeardInv' /\ SinkInv'
    BY <2>1, AudioKept DEF ClientInv
  <2> QED
    BY <2>4, <2>5, <2>6, <2>7 DEF ReaderInv
<1> QED
  BY <1>1, <1>2

\* Where the handling of each event leads.
LEMMA HandleIs ==
    ASSUME NEW kind, Handle(kind)
    PROVE  /\ event' = kind /\ left' = PayloadOf(kind) /\ piece' = <<>>
           /\ prog' = prog /\ amiga' = amiga
           /\ kind = "chunk" => pc' \in {"open", "payload"}
           /\ kind = "stop" => pc' = "finish"
           /\ kind = "info" => pc' = "skip"
           /\ kind \notin {"chunk", "stop", "info"} => pc' = "event"
<1>1. pc' = CASE kind = "chunk" -> IF prog = "say" /\ opened = "not" THEN "open" ELSE "payload"
              [] kind = "stop"  -> "finish"
              [] kind = "info"  -> "skip"
              [] OTHER          -> "event"
  BY DEF Handle, Goto
<1>2. /\ event' = kind /\ left' = PayloadOf(kind) /\ piece' = <<>>
      /\ prog' = prog /\ amiga' = amiga
  BY DEF Handle, Goto
<1> QED
  BY <1>1, <1>2

LEMMA HeaderIs ==
    ASSUME NEW kind, Header(kind)
    PROVE  /\ line' = "none" /\ prog' = prog /\ amiga' = amiga
           /\ kind = "chunk" => pc' = "data" /\ event' = kind /\ UNCHANGED <<left, piece>>
           /\ kind # "chunk" => Handle(kind)
BY HandleIs DEF Header, HasData, Goto

\* A step of the parser keeps the audio and the connection.
LEMMA ParseKeeps ==
    ASSUME ClientInv, Parse
    PROVE  /\ UNCHANGED <<run, held, stream, ending, got, sink, opened, status, prog, amiga>>
           /\ HeardInv' /\ SinkInv'
<1>1. ReadFrame
  BY DEF Parse, LineText, LineEnds, LineCut, EventEnds, ReadData
<1>2. prog' = prog /\ amiga' = amiga
  <2>1. \A kind : Header(kind) => prog' = prog /\ amiga' = amiga
    BY HeaderIs
  <2>2. \A kind : Handle(kind) => prog' = prog /\ amiga' = amiga
    BY HandleIs
  <2>3. EndOfEvents => prog' = prog /\ amiga' = amiga
    BY DEF EndOfEvents, Goto
  <2> QED
    BY <2>1, <2>2, <2>3 DEF Parse, LineText, LineEnds, LineCut, EventEnds, ReadData, Goto
<1>3. UNCHANGED <<run, held, stream, ending, got, sink, opened, status>>
  BY <1>1 DEF ReadFrame, outVars
<1>4. HeardInv' /\ SinkInv'
  BY <1>2, <1>3, AudioKept DEF ClientInv
<1> QED
  BY <1>2, <1>3, <1>4

\* What a step inside the events must show for the rest of the invariant.
LEMMA ReaderGoesOn ==
    ASSUME ClientInv, pc \in ReadingPCs, pc' \in ReadingPCs,
           UNCHANGED <<stream, ending, run, prog, got>>,
           pc' # "event" => line' = "none",
           mishap' = mishap \/ (mishap' = "cut" /\ ending # "none") \/ mishap' = "other",
           ending # "none" => mishap # "none"
    PROVE  LinkInv'
BY DEF ClientInv, ReaderInv, LinkInv, ReadingPCs

LEMMA LineTextReads ==
    ASSUME ClientInv, LineText
    PROVE  ReaderInv'
<1>1. /\ pc = "event" /\ rbuf # <<>> /\ Head(rbuf).part # "newline"
      /\ line' = (IF line = "none" /\ Head(rbuf).part = "head" THEN Head(rbuf).kind ELSE "garbage")
      /\ rbuf' = Tail(rbuf) /\ pc' = "event"
      /\ UNCHANGED <<hdr, event, left, piece, mishap>>
  BY DEF LineText, Has, Goto
<1>2. /\ UNCHANGED <<run, held, stream, ending, got, sink, opened, status, prog, amiga>>
      /\ HeardInv' /\ SinkInv'
  BY ParseKeeps DEF Parse
<1>3. PICK i \in 1..6, k \in Nat : On(rbuf, stream, Wire(run), k) /\ At(i, k)
  BY <1>1 DEF ClientInv, ReaderInv, TrackInv, LoopPCs, Dry, OnTrack
<1>4. rbuf \in Seq(Units) /\ run \in Nat
  BY ReaderTypes
<1>5. On(rbuf', stream', Wire(run'), k + 1) /\ Head(rbuf) = Wire(run)[k + 1]
  BY <1>1, <1>2, <1>3, <1>4, OnTail
<1>6. EventOn(Wire(run), Off(run)[i - 1], Off(run)[i], Script[i], run, Before(i))
  BY <1>4, WireAt
<1>7. got = Heard(run, Before(i)) /\ line = "none" /\ k = Off(run)[i - 1]
  <2>1. CASE line = Script[i] /\ k = Off(run)[i - 1] + 1
    <3>1. Head(rbuf) = Wire(run)[Off(run)[i - 1] + 2]
      <4>1. Off(run)[i - 1] \in Nat
        BY <1>6 DEF EventOn
      <4>2. k + 1 = Off(run)[i - 1] + 2
        BY <2>1, <4>1
      <4> QED
        BY <1>5, <4>2
    <3>2. Head(rbuf).part = "newline"
      BY <1>6, <3>1 DEF EventOn, Unit
    <3> QED
      BY <1>1, <3>2
  <2>2. CASE ~(line = Script[i] /\ k = Off(run)[i - 1] + 1)
    BY <1>1, <1>3, <2>2 DEF At
  <2> QED
    BY <2>1, <2>2
<1>8. line' = Script[i]
  <2>1. Head(rbuf) = Unit("head", Script[i], run, 0)
    BY <1>5, <1>6, <1>7 DEF EventOn
  <2> QED
    BY <1>1, <1>7, <2>1 DEF Unit
<1>9. At(i, k + 1)'
  BY <1>1, <1>2, <1>7, <1>8 DEF At
<1>10. TrackInv'
  <2>1. k + 1 \in Nat
    OBVIOUS
  <2> QED
    BY <1>5, <1>9, <2>1 DEF TrackInv, OnTrack
<1>11. LinkInv'
  BY <1>1, <1>2, ReaderGoesOn DEF ReadingPCs, ClientInv, ReaderInv, LinkInv
<1>12. ResultInv'
  BY <1>1 DEF ResultInv
<1> QED
  BY <1>2, <1>10, <1>11, <1>12 DEF ReaderInv

LEMMA LineEndsReads ==
    ASSUME ClientInv, LineEnds
    PROVE  ReaderInv'
<1>1. /\ pc = "event" /\ rbuf # <<>> /\ Head(rbuf).part = "newline"
      /\ rbuf' = Tail(rbuf) /\ mishap' = mishap
      /\ IF line = "none" THEN EndOfEvents ELSE Header(line)
  BY DEF LineEnds, Has
<1>2. /\ UNCHANGED <<run, held, stream, ending, got, sink, opened, status, prog, amiga>>
      /\ HeardInv' /\ SinkInv'
  BY ParseKeeps DEF Parse
<1>3. PICK i \in 1..6, k \in Nat : On(rbuf, stream, Wire(run), k) /\ At(i, k)
  BY <1>1 DEF ClientInv, ReaderInv, TrackInv, LoopPCs, Dry, OnTrack
<1>4. rbuf \in Seq(Units) /\ run \in Nat /\ Piece \in Nat /\ Payload \in Nat
  BY ReaderTypes
<1>5. On(rbuf', stream', Wire(run'), k + 1) /\ Head(rbuf) = Wire(run)[k + 1]
  BY <1>1, <1>2, <1>3, <1>4, OnTail
<1> DEFINE o == Off(run)[i - 1]
           kind == Script[i]
<1>6. EventOn(Wire(run), o, Off(run)[i], kind, run, Before(i))
  BY <1>4, WireAt
<1>7. got = Heard(run, Before(i)) /\ line = kind /\ k = o + 1
  <2>1. CASE line = "none" /\ k = o
    <3>1. Head(rbuf) = Unit("head", kind, run, 0)
      BY <1>5, <1>6, <2>1 DEF EventOn
    <3>2. Head(rbuf).part = "head"
      BY <3>1 DEF Unit
    <3> QED
      BY <1>1, <3>2
  <2>2. CASE ~(line = "none" /\ k = o)
    BY <1>1, <1>3, <2>2 DEF At
  <2> QED
    BY <2>1, <2>2
<1>8. kind \in Kinds /\ kind # "none"
  <2>1. kind \in Kinds
    BY BeforeNext
  <2> QED
    BY <2>1 DEF Kinds
<1>9. Header(kind)
  BY <1>1, <1>7, <1>8
<1>10. o \in Nat /\ k + 1 = o + 2 /\ k + 1 \in Nat
  BY <1>6, <1>7 DEF EventOn
<1>11. /\ line' = "none"
       /\ kind = "chunk" => pc' = "data" /\ event' = "chunk"
       /\ kind # "chunk" => Handle(kind)
  BY <1>9, HeaderIs
<1>12. CASE kind = "chunk"
  <2>1. pc' = "data" /\ event' = "chunk"
    BY <1>11, <1>12
  <2>2. At(i, k + 1)'
    BY <1>2, <1>7, <1>10, <1>12, <2>1 DEF At
  <2>3. TrackInv'
    BY <1>5, <1>10, <2>2 DEF TrackInv, OnTrack
  <2>4. LinkInv'
    BY <1>1, <1>2, <1>11, <2>1, ReaderGoesOn DEF ReadingPCs, ClientInv, ReaderInv, LinkInv
  <2>5. ResultInv'
    BY <2>1 DEF ResultInv
  <2> QED
    BY <1>2, <2>3, <2>4, <2>5 DEF ReaderInv
<1>13. CASE kind # "chunk"
  <2>1. Handle(kind)
    BY <1>11, <1>13
  <2>2. /\ event' = kind /\ left' = PayloadOf(kind)
        /\ kind = "stop" => pc' = "finish"
        /\ kind = "info" => pc' = "skip"
        /\ kind \notin {"stop", "info"} => pc' = "event"
    BY <1>13, <2>1, HandleIs
  <2>3. pc' \in {"finish", "skip", "event"}
    BY <2>2
  <2>4. LinkInv'
    BY <1>1, <1>2, <1>11, <2>3, ReaderGoesOn DEF ReadingPCs, ClientInv, ReaderInv, LinkInv
  <2>5. CASE kind = "stop"
    <3>1. got' = Speech(run')
      <4>1. Before(i) = Total
        BY <2>5, BeforeNext
      <4> QED
        BY <1>2, <1>7, <4>1, SpeechIs
    <3>2. pc' = "finish" /\ event' = "stop"
      BY <2>2, <2>5
    <3>3. TrackInv' /\ ResultInv'
      BY <3>1, <3>2 DEF TrackInv, LoopPCs, ResultInv, Tells
    <3> QED
      BY <1>2, <2>4, <3>3 DEF ReaderInv
  <2>6. CASE kind = "info"
    <3>1. pc' = "skip" /\ left' = Piece + 1
      BY <2>2, <2>6 DEF PayloadOf
    <3>2. left' <= Piece + 1 /\ k + 1 = o + 2 + (Piece + 1 - left')
      BY <1>4, <1>10, <3>1
    <3>3. At(i, k + 1)'
      BY <1>2, <1>7, <2>6, <3>1, <3>2 DEF At
    <3>4. TrackInv'
      BY <1>5, <1>10, <3>3 DEF TrackInv, OnTrack
    <3>5. ResultInv'
      BY <3>1 DEF ResultInv
    <3> QED
      BY <1>2, <2>4, <3>4, <3>5 DEF ReaderInv
  <2>7. CASE kind \in {"start", "note"}
    <3>1. pc' = "event" /\ PayloadOf(kind) = 0
      BY <2>2, <2>7 DEF PayloadOf
    <3>2. i + 1 \in 1..6 /\ Before(i + 1) = Before(i)
      BY <2>7, BeforeNext
    <3>3. Off(run)[i] = k + 1
      <4>1. Off(run)[i] = o + 2 + 0 + PayloadOf(kind)
        BY <1>6, <1>13 DEF EventOn
      <4> QED
        BY <1>10, <3>1, <4>1
    <3>4. (i + 1) - 1 = i
      OBVIOUS
    <3>5. At(i + 1, k + 1)'
      BY <1>2, <1>7, <1>11, <3>1, <3>2, <3>3, <3>4 DEF At
    <3>6. TrackInv'
      BY <1>5, <1>10, <3>2, <3>5 DEF TrackInv, OnTrack
    <3>7. ResultInv'
      BY <3>1 DEF ResultInv
    <3> QED
      BY <1>2, <2>4, <3>6, <3>7 DEF ReaderInv
  <2> QED
    BY <1>8, <1>13, <2>5, <2>6, <2>7 DEF Kinds
<1> QED
  BY <1>12, <1>13

\* The end of the connection.
LEMMA NoMoreIs ==
    ASSUME ClientInv, NoMore, pc \in LoopPCs
    PROVE  Dry /\ mishap # "none" /\ ending # "none"
<1>1. rbuf = <<>> /\ ending \in {"fin", "reset"}
  BY DEF NoMore, AtEnd, AtError, Reading
<1>2. mishap # "none"
  BY <1>1 DEF ClientInv, ReaderInv, LinkInv
<1>3. stream = <<>>
  BY <1>1 DEF NoMore, AtEnd, AtError, ClientInv, ReaderInv, LinkInv
<1> QED
  BY <1>1, <1>2, <1>3 DEF Dry

LEMMA LineCutReads ==
    ASSUME ClientInv, LineCut
    PROVE  ReaderInv'
<1>1. /\ pc = "event" /\ AtEnd /\ mishap' = "cut" /\ rbuf' = rbuf
      /\ \E kind \in {"none", line, hdr} : Header(kind)
  BY DEF LineCut
<1>2. /\ UNCHANGED <<run, held, stream, ending, got, sink, opened, status, prog, amiga>>
      /\ HeardInv' /\ SinkInv'
  BY ParseKeeps DEF Parse
<1>3. Dry /\ ending # "none"
  BY <1>1, NoMoreIs DEF NoMore, LoopPCs
<1>4. PICK kind : Header(kind)
  BY <1>1
<1>5. line' = "none" /\ pc' \in {"data", "finish", "skip", "event"}
  BY <1>4, HeaderIs, HandleIs
<1>6. TrackInv'
  BY <1>1, <1>2, <1>3, <1>5 DEF TrackInv, Dry
<1>7. LinkInv'
  BY <1>1, <1>2, <1>3, <1>5 DEF ClientInv, ReaderInv, LinkInv
<1>8. ResultInv'
  BY <1>1, <1>5 DEF ResultInv, Tells
<1> QED
  BY <1>2, <1>6, <1>7, <1>8 DEF ReaderInv

LEMMA EventEndsReads ==
    ASSUME ClientInv, EventEnds
    PROVE  ReaderInv'
<1>1. /\ pc = "event" /\ NoMore /\ mishap' = mishap
      /\ line' = "none" /\ event' = "none" /\ pc' = "finish"
  BY DEF EventEnds, NoMore, EndOfEvents, Goto
<1>2. /\ UNCHANGED <<run, held, stream, ending, got, sink, opened, status, prog, amiga>>
      /\ HeardInv' /\ SinkInv'
  BY ParseKeeps DEF Parse
<1>3. mishap # "none"
  BY <1>1, NoMoreIs DEF LoopPCs
<1>4. LinkInv' /\ TrackInv' /\ ResultInv'
  BY <1>1, <1>2, <1>3 DEF ClientInv, ReaderInv, LinkInv, TrackInv, LoopPCs, ResultInv, Tells
<1> QED
  BY <1>2, <1>4 DEF ReaderInv

LEMMA ReadDataReads ==
    ASSUME ClientInv, ReadData
    PROVE  ReaderInv'
<1>2. /\ UNCHANGED <<run, held, stream, ending, got, sink, opened, status, prog, amiga>>
      /\ HeardInv' /\ SinkInv'
  BY ParseKeeps DEF Parse
<1>3. pc = "data" /\ line = "none"
  BY DEF ReadData, Has, ClientInv, ReaderInv, LinkInv
<1>4. CASE Has("data") /\ rbuf' = Tail(rbuf) /\ Handle(event) /\ UNCHANGED <<hdr, line, mishap>>
  <2>1. rbuf # <<>>
    BY <1>4 DEF Has
  <2>2. PICK i \in 1..6, k \in Nat : On(rbuf, stream, Wire(run), k) /\ At(i, k)
    BY <1>3, <2>1 DEF ClientInv, ReaderInv, TrackInv, LoopPCs, Dry, OnTrack
  <2>3. rbuf \in Seq(Units) /\ run \in Nat /\ Payload \in Nat
    BY ReaderTypes
  <2>4. On(rbuf', stream', Wire(run'), k + 1)
    BY <1>2, <1>4, <2>1, <2>2, <2>3, OnTail
  <2>5. event = "chunk" /\ Script[i] = "chunk" /\ k = Off(run)[i - 1] + 2 /\ got = Heard(run, Before(i))
    BY <1>3, <2>2 DEF At
  <2>6. pc' \in {"open", "payload"} /\ event' = "chunk" /\ left' = Payload /\ piece' = <<>>
    BY <1>4, <2>5, HandleIs DEF PayloadOf
  <2>7. Off(run)[i - 1] \in Nat /\ Before(i) \in Nat
    BY <2>3, WireAt, BeforeNext DEF EventOn
  <2>8. /\ left' <= Payload /\ Before(i) + (Payload - left') = Before(i)
        /\ k + 1 = Off(run)[i - 1] + 3 + (Payload - left') + Len(piece') /\ k + 1 \in Nat
    <3>1. Len(piece') = 0
      BY <2>6
    <3>2. left' = Payload /\ Payload - left' = 0
      BY <2>3, <2>6
    <3>3. left' <= Payload /\ Before(i) + (Payload - left') = Before(i)
      BY <2>3, <2>7, <3>2
    <3>4. k = Off(run)[i - 1] + 2
      BY <2>5
    <3> QED
      BY <2>7, <3>1, <3>2, <3>3, <3>4
  <2>9. Pcm(piece', run', Before(i) + (Payload - left'))
    BY <2>6 DEF Pcm
  <2>10. At(i, k + 1)'
    BY <1>2, <2>5, <2>6, <2>8, <2>9 DEF At
  <2>11. TrackInv'
    BY <2>4, <2>8, <2>10 DEF TrackInv, OnTrack
  <2>12. LinkInv'
    BY <1>2, <1>3, <1>4, <2>6, ReaderGoesOn DEF ReadingPCs, ClientInv, ReaderInv, LinkInv
  <2>13. ResultInv'
    BY <2>6 DEF ResultInv
  <2> QED
    BY <1>2, <2>11, <2>12, <2>13 DEF ReaderInv
<1>5. CASE /\ event' = "none" /\ Goto("data", "finish")
           /\ mishap' = (IF mishap = "none" THEN "other" ELSE mishap)
           /\ UNCHANGED <<rbuf, hdr, line, left, piece>>
  <2>1. pc' = "finish" /\ event' = "none" /\ line' = "none" /\ mishap' # "none"
    BY <1>3, <1>5 DEF Goto
  <2>2. LinkInv'
    BY <1>2, <1>3, <1>5, <2>1 DEF ClientInv, ReaderInv, LinkInv
  <2>3. TrackInv' /\ ResultInv'
    BY <2>1 DEF TrackInv, LoopPCs, ResultInv, Tells
  <2> QED
    BY <1>2, <2>2, <2>3 DEF ReaderInv
<1> QED
  BY <1>4, <1>5 DEF ReadData

LEMMA ReaderParses ==
    ASSUME ClientInv, Parse
    PROVE  ReaderInv'
BY LineTextReads, LineEndsReads, LineCutReads, EventEndsReads, ReadDataReads DEF Parse

-----------------------------------------------------------------------------
(* The payloads.                                                           *)

LEMMA AudioOpenReads ==
    ASSUME ClientInv, AudioOpen
    PROVE  ReaderInv'
<1>1. /\ pc = "open" /\ UNCHANGED <<prog, amiga, run, stream, ending, rbuf, line, event, left,
                                    piece, mishap, got, sink, status>>
      /\ \/ pc' = "payload" /\ opened' = "ok"
         \/ pc' = "finish" /\ opened' = "failed"
  BY DEF AudioOpen, Goto, netVars, readVars
<1>2. line = "none" /\ event = "chunk"
  BY <1>1 DEF ClientInv, ReaderInv, LinkInv, TrackInv, LoopPCs, OnTrack, At
<1>3. LinkInv'
  BY <1>1, <1>2 DEF ClientInv, ReaderInv, LinkInv
<1>4. ResultInv'
  BY <1>1, <1>2 DEF ResultInv, Tells
<1>5. TrackInv'
  <2> SUFFICES ASSUME pc' = "payload" PROVE OnTrack'
    BY <1>1 DEF TrackInv, LoopPCs
  <2>1. PICK i \in 1..6, k \in Nat : On(rbuf, stream, Wire(run), k) /\ At(i, k)
    BY <1>1 DEF ClientInv, ReaderInv, TrackInv, LoopPCs, OnTrack
  <2>2. At(i, k)'
    BY <1>1, <2>1 DEF At
  <2>3. On(rbuf', stream', Wire(run'), k)
    BY <1>1, <2>1
  <2> QED
    BY <2>2, <2>3 DEF OnTrack
<1>6. HeardInv' /\ SinkInv'
  <2>1. "file" \notin held'
    <3>1. "file" \notin held
      BY <1>1 DEF ClientInv, HeldInv
    <3>2. \A t \in Prefixes(AhiParts) : "file" \notin ToSet(t)
      BY PartSets DEF AhiSet
    <3>3. "file" \notin ToSet(AhiParts) /\ "file" \notin ToSet(<<>>)
      BY PartSets DEF AhiSet, ToSet
    <3> QED
      BY <3>1, <3>2, <3>3 DEF AudioOpen
  <2> QED
    BY <1>1, <2>1, AudioKept DEF ClientInv
<1> QED
  BY <1>3, <1>4, <1>5, <1>6 DEF ReaderInv

LEMMA ShortReadReads ==
    ASSUME ClientInv, ShortRead
    PROVE  ReaderInv'
<1>1. /\ pc = "payload" /\ NoMore /\ event' = "none" /\ pc' = "finish"
      /\ UNCHANGED <<prog, amiga, run, held, stream, ending, rbuf, line, left, piece, mishap,
                     got, sink, opened, status>>
  BY DEF ShortRead, Goto, netVars, outVars
<1>2. mishap # "none" /\ line = "none"
  BY <1>1, NoMoreIs DEF LoopPCs, ClientInv, ReaderInv, LinkInv
<1>3. LinkInv' /\ TrackInv' /\ ResultInv'
  BY <1>1, <1>2 DEF ClientInv, ReaderInv, LinkInv, TrackInv, LoopPCs, ResultInv, Tells
<1>4. HeardInv' /\ SinkInv'
  BY <1>1, AudioKept DEF ClientInv
<1> QED
  BY <1>3, <1>4 DEF ReaderInv

LEMMA SkipReads ==
    ASSUME ClientInv, Skip
    PROVE  ReaderInv'
<1>1. /\ UNCHANGED <<prog, amiga, run, held, stream, ending, hdr, line, event, piece, mishap,
                     got, sink, opened, status>>
      /\ pc = "skip" /\ pc' \in {"event", "skip"}
  BY DEF Skip, SkipBreaks, Has, Goto, ReadFrame, outVars
<1>2. line = "none"
  BY <1>1 DEF ClientInv, ReaderInv, LinkInv
<1>3. LinkInv' /\ ResultInv'
  BY <1>1, <1>2 DEF ClientInv, ReaderInv, LinkInv, ResultInv
<1>4. HeardInv' /\ SinkInv'
  BY <1>1, AudioKept DEF ClientInv
<1>5. TrackInv'
  <2>1. CASE NoMore /\ UNCHANGED <<rbuf, left>> /\ SkipBreaks
    <3>1. Dry'
      BY <1>1, <2>1, NoMoreIs DEF LoopPCs, Dry
    <3> QED
      BY <1>1, <3>1 DEF TrackInv
  <2>2. CASE /\ Has("skip")
             /\ LET n == Min({Len(rbuf), left})
                IN  /\ rbuf' = SubSeq(rbuf, n + 1, Len(rbuf)) /\ left' = left - n
                    /\ Goto("skip", IF left' = 0 THEN "event" ELSE "skip")
    <3> DEFINE n == Min({Len(rbuf), left})
    <3>1. /\ rbuf # <<>> /\ rbuf' = SubSeq(rbuf, n + 1, Len(rbuf)) /\ left' = left - n
          /\ pc' = (IF left' = 0 THEN "event" ELSE "skip")
      BY <2>2 DEF Has, Goto
    <3>2. rbuf \in Seq(Units) /\ Len(rbuf) \in Nat /\ left \in Nat /\ run \in Nat /\ Piece \in Nat
      BY ReaderTypes
    <3>3. n = IF Len(rbuf) <= left THEN Len(rbuf) ELSE left
      BY <3>2, MinOfTwo
    <3> HIDE DEF n
    <3>4. n \in 0..Len(rbuf) /\ n \in Nat /\ n <= left
      BY <3>2, <3>3
    <3>a. PICK m \in Nat : m = n
      BY <3>4
    <3>5. PICK i \in 1..6, k \in Nat : On(rbuf, stream, Wire(run), k) /\ At(i, k)
      BY <1>1, <3>1 DEF ClientInv, ReaderInv, TrackInv, LoopPCs, Dry, OnTrack
    <3>6. On(rbuf', stream', Wire(run'), k + m)
      BY <1>1, <3>1, <3>2, <3>4, <3>a, <3>5, OnTake
    <3> DEFINE o == Off(run)[i - 1]
    <3>7. /\ Script[i] = "info" /\ left <= Piece + 1
          /\ k = o + 2 + (Piece + 1 - left) /\ got = Heard(run, Before(i))
      BY <1>1, <3>5 DEF At
    <3>8. o \in Nat /\ Off(run)[i] = o + 2 + 0 + (Piece + 1)
      <4>1. EventOn(Wire(run), Off(run)[i - 1], Off(run)[i], Script[i], run, Before(i))
        BY <3>2, WireAt
      <4>2. PayloadOf("info") = Piece + 1
        BY DEF PayloadOf
      <4> QED
        BY <3>7, <4>1, <4>2 DEF EventOn
    <3> HIDE DEF o
    <3>9. CASE left' = 0
      <4>1. k + m = Off(run)[i]
        BY <3>1, <3>2, <3>4, <3>a, <3>7, <3>8, <3>9
      <4>2. i + 1 \in 1..6 /\ Before(i + 1) = Before(i) /\ (i + 1) - 1 = i
        BY <3>7, BeforeNext
      <4>3. At(i + 1, k + m)'
        BY <1>1, <1>2, <3>1, <3>7, <3>9, <4>1, <4>2 DEF At
      <4>4. k + m \in Nat
        BY <3>a
      <4> QED
        BY <3>6, <4>2, <4>3, <4>4 DEF TrackInv, OnTrack
    <3>10. CASE left' # 0
      <4>1. left' <= Piece + 1 /\ k + m = o + 2 + (Piece + 1 - left')
        BY <3>1, <3>2, <3>4, <3>a, <3>7, <3>8
      <4>2. At(i, k + m)'
        BY <1>1, <3>1, <3>7, <3>10, <4>1 DEF At, o
      <4>3. k + m \in Nat
        BY <3>a
      <4> QED
        BY <3>6, <4>2, <4>3 DEF TrackInv, OnTrack
    <3> QED
      BY <3>9, <3>10
  <2> QED
    BY <2>1, <2>2 DEF Skip
<1> QED
  BY <1>3, <1>4, <1>5 DEF ReaderInv

\* What saytest has written of the audio, after one more piece of it.
LEMMA SayWrites ==
    ASSUME ClientInv, prog = "say", NEW g \in Nat, got = Heard(run, g),
           NEW p \in Seq(Units), Pcm(p, run, g)
    PROVE  Written(sink, p) = Heard(run, SinkLen(g + Len(p)))
<1>1. run \in Nat /\ Len(p) \in Nat /\ SinkRoom \in Nat /\ amiga \in BOOLEAN
  BY ReaderTypes, ConstantsAre, TypeInvIs DEF ClientInv, ControlType
<1>2. Len(got) = g
  BY <1>1, HeardIs
<1>3. sink = Heard(run, SinkLen(g))
  BY <1>2 DEF ClientInv, ReaderInv, SinkInv
<1>4. CASE ~amiga
  <2>1. Written(sink, p) = sink \o p
    BY <1>4 DEF Written
  <2>2. SinkLen(g) = g /\ SinkLen(g + Len(p)) = g + Len(p)
    BY <1>4 DEF SinkLen
  <2>3. Heard(run, g) \o p = Heard(run, g + Len(p))
    BY <1>1, HeardMore
  <2> QED
    BY <1>3, <2>1, <2>2, <2>3
<1>5. CASE amiga
  <2>1. PICK s \in Nat : s = SinkLen(g)
    BY <1>1 DEF SinkLen
  <2>2. s = IF g > SinkRoom THEN SinkRoom ELSE g
    BY <1>5, <2>1 DEF SinkLen
  <2>3. Len(sink) = s
    BY <1>1, <1>3, <2>1, HeardIs
  <2> DEFINE m == Min({Len(p), SinkRoom - s})
  <2>4. SinkRoom - s \in Int /\ SinkRoom - s >= 0
    BY <1>1, <2>2
  <2>5. m = IF Len(p) <= SinkRoom - s THEN Len(p) ELSE SinkRoom - s
    BY <1>1, <2>4, MinOfTwo
  <2>6. Written(sink, p) = sink \o SubSeq(p, 1, m)
    BY <1>5, <2>3 DEF Written
  <2> HIDE DEF m
  <2>7. m \in 0..Len(p)
    BY <1>1, <2>4, <2>5
  <2> DEFINE x == SubSeq(p, 1, m)
  <2>8. x \in Seq(Units) /\ Len(x) = m /\ \A j \in 1..m : x[j] = p[j]
    BY <2>7, Cut
  <2> HIDE DEF x
  <2>9. Pcm(x, run, s)
    <3>1. CASE s = g
      <4>1. \A j \in 1..m : j \in 1..Len(p)
        BY <1>1, <2>7
      <4> QED
        BY <2>8, <3>1, <4>1 DEF Pcm
    <3>2. CASE s # g
      <4>1. s = SinkRoom
        BY <2>2, <3>2
      <4>2. m = 0
        BY <1>1, <2>5, <4>1
      <4> QED
        BY <2>8, <4>2 DEF Pcm
    <3> QED
      BY <3>1, <3>2
  <2>10. Heard(run, s) \o x = Heard(run, s + m)
    BY <1>1, <2>8, <2>9, HeardMore
  <2>11. s + m = IF g + Len(p) > SinkRoom THEN SinkRoom ELSE g + Len(p)
    <3>1. CASE g > SinkRoom
      <4>1. s = SinkRoom /\ m = 0 /\ g + Len(p) > SinkRoom
        BY <1>1, <2>2, <2>5, <3>1
      <4> QED
        BY <1>1, <4>1
    <3>2. CASE ~(g > SinkRoom)
      <4>1. s = g
        BY <2>2, <3>2
      <4> QED
        BY <1>1, <2>5, <3>2, <4>1
    <3> QED
      BY <3>1, <3>2
  <2>12. s + m = SinkLen(g + Len(p))
    BY <1>5, <2>11 DEF SinkLen
  <2> QED
    BY <1>3, <2>1, <2>6, <2>10, <2>12 DEF x
<1> QED
  BY <1>1, <1>4, <1>5

\* The audio after one more piece of it.
LEMMA AudioGrows ==
    ASSUME ClientInv, NEW g \in Nat, got = Heard(run, g),
           NEW p \in Seq(Units), Pcm(p, run, g), g + Len(p) <= Total,
           got' = got \o p, sink' = Written(sink, p),
           UNCHANGED <<run, prog, amiga, held>>
    PROVE  HeardInv' /\ SinkInv'
<1>1. run \in Nat /\ Len(p) \in Nat /\ prog \in {"probe", "say"}
  BY ReaderTypes
<1>2. PICK h \in Nat : h = g + Len(p)
  BY <1>1
<1>3. got' = Heard(run, h) /\ Len(got') = h
  <2>1. got' = Heard(run, h)
    BY <1>1, <1>2, HeardMore
  <2> QED
    BY <1>1, <1>2, <2>1, HeardIs
<1>4. HeardInv'
  BY <1>2, <1>3 DEF HeardInv
<1>5. CASE prog = "say"
  <2>1. sink' = Heard(run, SinkLen(h))
    BY <1>2, <1>5, SayWrites
  <2>2. SinkLen(h)' = SinkLen(h)
    BY DEF SinkLen
  <2>3. sink' = Heard(run', SinkLen(Len(got))')
    <3>1. SinkLen(Len(got))' = SinkLen(h)
      BY <1>3 DEF SinkLen
    <3> QED
      BY <2>1, <3>1
  <2>4. prog' # "probe"
    BY <1>5
  <2> QED
    BY <1>4, <2>3, <2>4 DEF SinkInv
<1>6. CASE prog = "probe"
  <2>1. /\ Len(sink) <= Total /\ sink = Heard(1, Len(sink))
        /\ run = 0 => sink = <<>>
        /\ run = 1 /\ "file" \in held => sink = got
    BY <1>6 DEF ClientInv, ReaderInv, SinkInv
  <2>2. prog' # "say"
    BY <1>6
  <2>3. CASE "file" \in held /\ run = 1
    <3>1. sink' = got'
      BY <1>6, <2>1, <2>3 DEF Written
    <3>2. Len(sink') <= Total /\ sink' = Heard(1, Len(sink'))
      BY <1>2, <1>3, <2>3, <3>1
    <3>3. run' # 0
      BY <2>3
    <3> QED
      BY <1>4, <2>2, <3>1, <3>2, <3>3 DEF SinkInv
  <2>4. CASE ~("file" \in held /\ run = 1)
    <3>1. sink' = sink
      BY <1>6, <2>4 DEF Written
    <3>2. Len(sink') <= Total /\ sink' = Heard(1, Len(sink')) /\ (run' = 0 => sink' = <<>>)
      BY <2>1, <3>1
    <3>3. ~(run' = 1 /\ "file" \in held')
      BY <2>4
    <3> QED
      BY <1>4, <2>2, <3>2, <3>3 DEF SinkInv
  <2> QED
    BY <2>3, <2>4
<1> QED
  BY <1>1, <1>5, <1>6

LEMMA TakeReads ==
    ASSUME ClientInv, TakePayload
    PROVE  ReaderInv'
<1> DEFINE n == Min({Len(rbuf), Want - Len(piece)})
           p == piece \o SubSeq(rbuf, 1, n)
<1>1. /\ pc = "payload" /\ rbuf # <<>> /\ left > 0 /\ Has("payload")
      /\ rbuf' = SubSeq(rbuf, n + 1, Len(rbuf))
      /\ IF Len(p) < Want THEN piece' = p /\ UNCHANGED <<left, got, sink>>
         ELSE /\ piece' = <<>> /\ left' = left - Want
              /\ got' = got \o p /\ sink' = Written(sink, p)
      /\ Goto("payload", IF left' = 0 THEN "event" ELSE "payload")
      /\ UNCHANGED <<run, held, stream, ending, hdr, line, event, mishap, opened, status, rc>>
  BY DEF TakePayload, Has
<1>2. /\ n \in 0..Len(rbuf) /\ n \in 1..Len(rbuf)
      /\ p \in Seq(Units) /\ Len(p) = Len(piece) + n /\ Len(p) <= Want
      /\ Want \in 1..Piece /\ Want <= left /\ Len(piece) \in Nat /\ Len(rbuf) \in Nat
  BY <1>1, TakeIs DEF ClientInv
<1>3. /\ rbuf \in Seq(Units) /\ piece \in Seq(Units) /\ left \in Nat /\ run \in Nat
      /\ Payload \in Nat /\ Piece \in Nat
  BY ReaderTypes
<1>4. line = "none"
  BY <1>1 DEF ClientInv, ReaderInv, LinkInv
<1>5. PICK i \in 1..6, k \in Nat : On(rbuf, stream, Wire(run), k) /\ At(i, k)
  BY <1>1 DEF ClientInv, ReaderInv, TrackInv, LoopPCs, Dry, OnTrack
<1>6. PICK m \in Nat : m = n
  BY <1>2
<1>7. PICK o \in Nat : o = Off(run)[i - 1] /\ Off(run)[i] = o + 3 + Payload
                       /\ Script[i] = "chunk" /\ EventOn(Wire(run), o, Off(run)[i], "chunk", run, Before(i))
  <2>1. Script[i] = "chunk"
    BY <1>1, <1>5 DEF At
  <2>2. EventOn(Wire(run), Off(run)[i - 1], Off(run)[i], Script[i], run, Before(i))
    BY <1>3, WireAt
  <2>3. Off(run)[i] = Off(run)[i - 1] + 2 + 1 + Payload /\ Off(run)[i - 1] \in Nat
    BY <2>1, <2>2 DEF EventOn, PayloadOf
  <2> QED
    BY <1>3, <2>1, <2>2, <2>3
<1>8. PICK d \in Nat : d = Payload - left /\ left <= Payload
  BY <1>1, <1>3, <1>5 DEF At
<1>9. PICK b \in Nat : b = Before(i)
  BY BeforeNext
<1>10. /\ k = o + 3 + d + Len(piece) /\ event = "chunk"
       /\ got = Heard(run, b + d) /\ Pcm(piece, run, b + d)
  BY <1>1, <1>5, <1>7, <1>8, <1>9 DEF At
<1> HIDE DEF n
<1>11. /\ On(SubSeq(rbuf, n + 1, Len(rbuf)), stream, Wire(run), k + n)
       /\ \A j \in 1..n : rbuf[j] = Wire(run)[k + j]
  BY <1>2, <1>3, <1>5, OnTake
<1>12. SubSeq(rbuf, 1, n) \in Seq(Units) /\ Len(SubSeq(rbuf, 1, n)) = n
       /\ \A j \in 1..n : SubSeq(rbuf, 1, n)[j] = rbuf[j]
  BY <1>2, <1>3, Cut
<1>13. On(rbuf', stream', Wire(run'), k + m)
  BY <1>1, <1>6, <1>11
<1>14. Pcm(p, run, b + d)
  <2> SUFFICES ASSUME NEW j \in 1..Len(p) PROVE p[j] = Unit("pcm", "chunk", run, b + d + j)
    BY DEF Pcm
  <2>1. p[j] = IF j <= Len(piece) THEN piece[j] ELSE SubSeq(rbuf, 1, n)[j - Len(piece)]
    <3>1. j \in 1..Len(piece) + Len(SubSeq(rbuf, 1, n))
      BY <1>2, <1>12
    <3> QED
      BY <1>3, <1>12, <3>1, ConcatProperties
  <2>2. CASE j <= Len(piece)
    <3>1. j \in 1..Len(piece)
      BY <1>2, <2>2
    <3> QED
      BY <1>10, <2>1, <2>2, <3>1 DEF Pcm
  <2>3. CASE ~(j <= Len(piece))
    <3>1. j - Len(piece) \in 1..n
      BY <1>2, <2>3
    <3>2. p[j] = Wire(run)[k + (j - Len(piece))]
      BY <1>11, <1>12, <2>1, <2>3, <3>1
    <3>3. k + (j - Len(piece)) = o + 3 + (d + j) /\ d + j \in 1..Payload
      <4>1. j \in Nat /\ j >= 1 /\ j <= left
        BY <1>2, <1>3
      <4> QED
        BY <1>2, <1>3, <1>8, <1>10, <4>1
    <3>4. Wire(run)[o + 3 + (d + j)] = Unit("pcm", "chunk", run, b + (d + j))
      BY <1>7, <1>9, <3>3 DEF EventOn
    <3>5. b + (d + j) = b + d + j
      OBVIOUS
    <3> QED
      BY <3>2, <3>3, <3>4, <3>5
  <2> QED
    BY <2>2, <2>3
<1>15. k + m = o + 3 + d + Len(p) /\ k + m \in Nat
  BY <1>2, <1>6, <1>10
<1> HIDE DEF p
<1>16. pc' = (IF left' = 0 THEN "event" ELSE "payload") /\ prog' = prog /\ amiga' = amiga
  BY <1>1 DEF Goto
<1>17. LinkInv' /\ ResultInv'
  BY <1>1, <1>4, <1>16 DEF ClientInv, ReaderInv, LinkInv, ResultInv
<1>18. CASE Len(p) < Want
  <2>1. piece' = p /\ UNCHANGED <<left, got, sink>> /\ pc' = "payload"
    BY <1>1, <1>16, <1>18
  <2>2. At(i, k + m)'
    BY <1>1, <1>7, <1>8, <1>9, <1>10, <1>14, <1>15, <2>1 DEF At
  <2>3. TrackInv'
    BY <1>13, <1>15, <2>2 DEF TrackInv, OnTrack
  <2>4. HeardInv' /\ SinkInv'
    BY <1>1, <1>16, <2>1, AudioKept DEF ClientInv
  <2> QED
    BY <1>17, <2>3, <2>4 DEF ReaderInv
<1>19. CASE ~(Len(p) < Want)
  <2>1. piece' = <<>> /\ left' = left - Want /\ got' = got \o p /\ sink' = Written(sink, p)
    BY <1>1, <1>19
  <2>2. Len(p) = Want /\ Len(p) \in Nat /\ Len(piece') = 0
    <3>1. Len(p) \in Nat /\ Want \in Nat
      BY <1>2, <1>3
    <3>2. Len(p) = Want
      BY <1>2, <1>19, <3>1
    <3> QED
      BY <2>1, <3>1, <3>2
  <2>3. b + d \in Nat /\ (b + d) + Len(p) = b + (d + Len(p)) /\ d + Len(p) <= Payload
    BY <1>2, <1>3, <1>8, <2>2
  <2>4. i + 1 \in 1..6 /\ Before(i + 1) = b + Payload /\ b + Payload <= Total /\ Total \in Nat
    <3>1. i + 1 \in 1..6 /\ Before(i + 1) = b + Payload
      BY <1>7, <1>9, BeforeNext
    <3> QED
      BY <3>1, BeforeNext
  <2>5. (b + d) + Len(p) <= Total
    BY <1>3, <2>2, <2>3, <2>4
  <2>6. HeardInv' /\ SinkInv'
    <3>1. PICK g \in Nat : g = b + d
      BY <2>3
    <3> QED
      BY <1>1, <1>2, <1>10, <1>14, <1>16, <2>1, <2>5, <3>1, AudioGrows
  <2>7. got' = Heard(run, b + (d + Len(p)))
    <3>1. PICK g \in Nat : g = b + d
      BY <2>3
    <3>2. Heard(run, g) \o p = Heard(run, g + Len(p))
      <4>1. p \in Seq(Units) /\ Pcm(p, run, g) /\ run \in Nat
        BY <1>2, <1>3, <1>14, <3>1
      <4> QED
        BY <4>1, HeardMore
    <3> QED
      BY <1>10, <2>1, <2>3, <3>1, <3>2
  <2>8. Payload - left' = d + Len(p) /\ left' <= Payload /\ left' \in Nat
    <3>1. left' = left - Len(p) /\ Len(p) <= left
      BY <1>2, <2>1, <2>2
    <3> QED
      BY <1>3, <1>8, <2>2, <3>1
  <2>9. CASE left' = 0
    <3>1. d + Len(p) = Payload
      BY <1>3, <2>2, <2>8, <2>9
    <3>2. k + m = Off(run)[i] /\ (i + 1) - 1 = i
      BY <1>3, <1>7, <1>15, <2>2, <3>1
    <3>3. got' = Heard(run, Before(i + 1))
      BY <2>4, <2>7, <3>1
    <3>4. pc' = "event" /\ line' = "none"
      BY <1>1, <1>4, <1>16, <2>9
    <3>5. At(i + 1, k + m)'
      BY <1>1, <3>2, <3>3, <3>4 DEF At
    <3>6. TrackInv'
      BY <1>13, <1>15, <2>4, <3>5 DEF TrackInv, OnTrack
    <3> QED
      BY <1>17, <2>6, <3>6 DEF ReaderInv
  <2>10. CASE left' # 0
    <3>1. pc' = "payload" /\ event' = "chunk"
      BY <1>1, <1>10, <1>16, <2>10
    <3>2. k + m = o + 3 + (Payload - left') + Len(piece')
      BY <1>15, <2>2, <2>8
    <3>3. got' = Heard(run, b + (Payload - left')) /\ Pcm(piece', run, b + (Payload - left'))
      BY <2>1, <2>7, <2>8 DEF Pcm
    <3>4. At(i, k + m)'
      BY <1>1, <1>7, <1>9, <2>8, <3>1, <3>2, <3>3 DEF At
    <3>5. TrackInv'
      BY <1>13, <1>15, <3>4 DEF TrackInv, OnTrack
    <3> QED
      BY <1>17, <2>6, <3>5 DEF ReaderInv
  <2> QED
    BY <2>9, <2>10
<1> QED
  BY <1>18, <1>19

-----------------------------------------------------------------------------
(* The results.                                                            *)

LEMMA ReaderFinishes ==
    ASSUME ClientInv, Finish
    PROVE  ReaderInv'
<1>1. /\ pc \in {"finish", "exit"} /\ pc' \in {"connect", "exit", "done"}
      /\ prog = "say" => pc' = "done"
      /\ UNCHANGED <<prog, amiga, run, stream, ending, rbuf, line, event, mishap, got, sink, opened>>
      /\ held' \subseteq held
  <2>1. Quiet /\ run' = run /\ prog' = prog /\ amiga' = amiga
    BY DEF Finish, FinishRun, ExitProbe, FinishSay, Goto
  <2>2. /\ pc \in {"finish", "exit"} /\ pc' \in {"connect", "exit", "done"}
        /\ prog = "say" => pc' = "done"
    BY DEF Finish, FinishRun, ExitProbe, FinishSay, Goto, AfterRun
  <2>3. held' \subseteq held
    BY DEF Finish, FinishRun, ExitProbe, FinishSay, Cleanup, AudioClose
  <2> QED
    BY <2>1, <2>2, <2>3 DEF Quiet, netVars, readVars, outVars
<1>2. line = "none"
  BY <1>1 DEF ClientInv, ReaderInv, LinkInv
<1>3. LinkInv' /\ TrackInv'
  BY <1>1, <1>2 DEF ClientInv, ReaderInv, LinkInv, TrackInv, LoopPCs
<1>4. HeardInv' /\ SinkInv'
  BY <1>1, AudioKept DEF ClientInv
<1>5. ResultInv'
  <2>1. Tells(status = "ok", status = "failed")'
    <3>1. CASE pc = "finish"
      <4>1. status' = IF event = "stop" THEN "ok" ELSE "failed"
        BY <3>1 DEF Finish, FinishRun, ExitProbe, FinishSay, Goto, Stopped
      <4>2. Tells(event = "stop", event # "stop")
        BY <3>1 DEF ClientInv, ReaderInv, ResultInv
      <4> QED
        BY <1>1, <4>1, <4>2 DEF Tells
    <3>2. CASE pc = "exit"
      <4>1. status' = status
        BY <3>2 DEF Finish, FinishRun, ExitProbe, FinishSay, Goto
      <4>2. Tells(status = "ok", status = "failed")
        BY <3>2 DEF ClientInv, ReaderInv, ResultInv
      <4> QED
        BY <1>1, <4>1, <4>2 DEF Tells
    <3> QED
      BY <1>1, <3>1, <3>2
  <2> QED
    BY <1>1, <2>1 DEF ResultInv
<1> QED
  BY <1>3, <1>4, <1>5 DEF ReaderInv

LEMMA ReaderStep == ClientInv /\ [Next]_vars => ReaderInv'
<1>1. ASSUME ClientInv, Next PROVE ReaderInv'
  <2>1. CASE Setup
    BY <1>1, <2>1, ReaderSetup, ReaderBegins DEF Setup
  <2>2. CASE Recv \/ ServerEnds
    BY <1>1, <2>2, ReaderNet
  <2>3. CASE Parse
    BY <1>1, <2>3, ReaderParses
  <2>4. CASE Play
    BY <1>1, <2>4, AudioOpenReads, TakeReads, ShortReadReads, SkipReads DEF Play
  <2>5. CASE Finish
    BY <1>1, <2>5, ReaderFinishes
  <2> QED
    BY <1>1, <2>1, <2>2, <2>3, <2>4, <2>5 DEF Next, Client
<1>2. ASSUME ClientInv, UNCHANGED vars PROVE ReaderInv'
  <2>1. /\ UNCHANGED <<prog, amiga, pc, run, held, stream, ending, rbuf, line, event, left, piece,
                       mishap, got, sink, opened, status>>
    BY <1>2 DEF vars, netVars, readVars, outVars
  <2>2. TrackInv'
    BY <1>2, <2>1 DEF ClientInv, ReaderInv, TrackInv, OnTrack, At, Dry
  <2>3. LinkInv' /\ ResultInv'
    BY <1>2, <2>1 DEF ClientInv, ReaderInv, LinkInv, ResultInv, Tells
  <2>4. HeardInv' /\ SinkInv'
    BY <1>2, <2>1, AudioKept DEF ClientInv
  <2> QED
    BY <2>2, <2>3, <2>4 DEF ReaderInv
<1> QED
  BY <1>1, <1>2

LEMMA ClientHolds == Spec => []ClientInv
<1>1. Init => ReaderInv
  BY ReaderStart
<1>2. TypeInv /\ HeldInv /\ ReaderInv /\ [Next]_vars => ReaderInv'
  BY ReaderStep DEF ClientInv
<1>3. ClientInv <=> TypeInv /\ HeldInv /\ ReaderInv
  BY DEF ClientInv
<1> QED
  BY <1>1, <1>2, <1>3, TypesHold, HeldHolds, PTL DEF Spec

\* What a run counts is its own audio from the start on, and nothing else is
\* written, however recv() cuts the stream and wherever it ends.
THEOREM AudioAsSent == Spec => []PcmAsSent
<1>1. ASSUME ClientInv PROVE PcmAsSent
  <2>1. run \in Nat /\ prog \in {"probe", "say"} /\ SinkRoom \in Nat /\ amiga \in BOOLEAN
    BY <1>1, ReaderTypes, ConstantsAre, TypeInvIs DEF ClientInv, ControlType
  <2>2. got \in Seq(Units) /\ sink \in Seq(Units)
    BY <1>1, TypeInvIs DEF ClientInv, OutType
  <2>3. got = Heard(run, Len(got)) /\ Len(got) <= Total /\ Len(got) \in Nat /\ Total \in Nat
    <3>1. 1 \in 1..6
      OBVIOUS
    <3> QED
      BY <1>1, <2>2, <3>1, BeforeNext DEF ClientInv, ReaderInv, HeardInv
  <2>4. IsPrefix(got, Speech(run))
    <3>1. \A n \in 1..Total : Speech(run)[n] = Unit("pcm", "chunk", run, n)
      BY <2>1, <2>3, SpeechIs, HeardIs
    <3>2. \A n \in 1..Len(got) : got[n] = Unit("pcm", "chunk", run, n)
      <4>1. \A n \in 1..Len(got) : Heard(run, Len(got))[n] = Unit("pcm", "chunk", run, n)
        BY <2>1, <2>3, HeardIs
      <4> QED
        BY <2>3, <4>1
    <3>3. Len(Speech(run)) = Total /\ Speech(run) \in Seq(Units)
      BY <2>1, <2>3, SpeechIs, HeardIs
    <3>4. \A n \in 1..Len(got) : n \in 1..Total /\ got[n] = Speech(run)[n]
      BY <2>3, <3>1, <3>2
    <3> QED
      BY <2>2, <2>3, <3>3, <3>4 DEF IsPrefix
  <2>5. ASSUME prog = "probe"
        PROVE  sink \in {<<>>} \cup {SubSeq(Speech(1), 1, n) : n \in DOMAIN Speech(1)}
    <3>1. Len(sink) <= Total /\ sink = Heard(1, Len(sink)) /\ Len(sink) \in Nat
      BY <1>1, <2>2, <2>5 DEF ClientInv, ReaderInv, SinkInv
    <3>2. CASE Len(sink) = 0
      BY <3>1, <3>2, NoneHeard
    <3>3. CASE Len(sink) # 0
      <4>1. Len(sink) \in 1..Total /\ Len(sink) \in 0..Total
        BY <2>3, <3>1, <3>3
      <4>2. DOMAIN Speech(1) = 1..Total
        BY SpeechIs DEF Heard
      <4>3. sink = SubSeq(Speech(1), 1, Len(sink))
        BY <2>3, <3>1, <4>1, SpeechIs, HeardPart
      <4> QED
        BY <4>1, <4>2, <4>3
    <3> QED
      BY <3>2, <3>3
  <2>6. prog = "probe" /\ run = 1 /\ "file" \in held => sink = got
    BY <1>1 DEF ClientInv, ReaderInv, SinkInv
  <2>7. ASSUME prog = "say"
        PROVE  sink = IF amiga THEN SubSeq(got, 1, Min({Len(got), SinkRoom})) ELSE got
    <3>1. sink = Heard(run, SinkLen(Len(got)))
      BY <1>1, <2>7 DEF ClientInv, ReaderInv, SinkInv
    <3>2. CASE amiga
      <4> DEFINE m == Min({Len(got), SinkRoom})
      <4>1. m = IF Len(got) <= SinkRoom THEN Len(got) ELSE SinkRoom
        BY <2>1, <2>3, MinOfTwo
      <4> HIDE DEF m
      <4>2. SinkLen(Len(got)) = m /\ m \in 0..Len(got)
        BY <2>1, <2>3, <3>2, <4>1 DEF SinkLen
      <4>3. SubSeq(Heard(run, Len(got)), 1, m) = Heard(run, m)
        BY <2>1, <2>3, <4>2, HeardPart
      <4> QED
        BY <2>3, <3>1, <3>2, <4>2, <4>3 DEF m
    <3>3. CASE ~amiga
      BY <2>3, <3>1, <3>3 DEF SinkLen
    <3> QED
      BY <3>2, <3>3
  <2> QED
    BY <2>4, <2>5, <2>6, <2>7 DEF PcmAsSent
<1> QED
  BY ClientHolds, <1>1, PTL

\* A run succeeds only with all of its audio, but for a connection cut inside a
\* header, and fails only when something went wrong in it.
THEOREM ResultIsTrue == Spec => []ResultTellsRun
<1>1. ClientInv => ResultTellsRun
  BY DEF ClientInv, ReaderInv, ResultInv, Tells, ResultTellsRun
<1> QED
  BY ClientHolds, <1>1, PTL
=============================================================================
