------------------------ MODULE WyomingSessionProofs ------------------------
(***************************************************************************)
(* Theorems about WyomingSession for any number of chunks, any socket      *)
(* buffers and any faults: the session plays its own audio, leaves nothing *)
(* on the held connection and implements SpeechService.                    *)
(***************************************************************************)
EXTENDS WyomingSession, SequenceTheorems, TLAPS

-----------------------------------------------------------------------------
(* The inductive invariant.                                                *)
(*                                                                         *)
(* The answers to the chunks of an utterance are numbered through: the     *)
(* audio of chunk k is event 2k - 1, its audio-stop event 2k.  What is in  *)
(* rbuf, on the way to the device, still to be sent by the server and      *)
(* still to be answered are, in this order, the events that follow those   *)
(* already taken, without a gap.                                           *)

Live == link \in {"up", "hung", "dripping"}

\* The event numbered j, and what a connection that ends leaves behind.
IsEvent(e, j) ==
    /\ e.own = TRUE
    /\ \/ e.kind = "audio" /\ 2 * e.chunk - 1 = j
       \/ e.kind = "stop" /\ 2 * e.chunk = j

Broken(e) == e.kind \in {"torn", "cut"}

\* The events that follow number j; only the last one may be broken.
Chain(s, j, ends) ==
    \A i \in 1..Len(s) :
        IsEvent(s[i], j + i) \/ (Broken(s[i]) /\ i = Len(s) /\ ends)

\* The requests whose answers follow number j.
Line(s, j) == \A i \in 1..Len(s) : s[i].own = TRUE /\ 2 * s[i].chunk = j + 2 * i

\* The number of the last event taken, received, sent and to be sent.
Taken    == IF pc = "receive" THEN stops + Len(played) ELSE 0
Received == Taken + Len(rbuf)
OnTheWay == Received + Len(responses)
Due      == OnTheWay + Len(serving)

\* The places of the control and its counters.
CountInv ==
    /\ pc # "idle" => nseg \in Chunks /\ outcome = "none" /\ attempt \in 1..2
    /\ pc \in {"send", "receive"} => sock
    /\ pc \in {"connect", "send"} => played = <<>>
    /\ pc = "send" => sent < nseg /\ rbuf = <<>>
    /\ pc = "receive" => sent = nseg /\ stops < nseg

\* What a connection that is down has lost.
LinkInv ==
    /\ ~Live => requests = <<>> /\ serving = <<>>
    /\ link \in {"none", "reset"} => responses = <<>>
    /\ link = "none" => rbuf = <<>>

\* Only a connection that ends inside a header leaves a cut event behind.
Uncut(s) == \A i \in 1..Len(s) : s[i].kind # "cut"
CutInv == Terminated => Uncut(rbuf) /\ Uncut(responses) /\ Uncut(serving)

ControlInv == TypeOK /\ CountInv /\ LinkInv

\* Between utterances, and before a connection is used, nothing is under way.
Quiet == requests = <<>> /\ serving = <<>> /\ responses = <<>> /\ rbuf = <<>>
QuietInv == pc \in {"idle", "connect"} => Quiet

\* The connection is down and all that came of it was taken.
Exhausted == ~Live /\ responses = <<>> /\ rbuf = <<>>

\* The device, the link and the server are in step.
InStep ==
    /\ pc = "receive" => Len(played) \in {stops, stops + 1}
    /\ Chain(rbuf, Taken, responses = <<>> /\ ~Live)
    /\ Chain(responses, Received, ~Live)
    /\ Chain(serving, OnTheWay, FALSE)
    /\ Line(requests, Due)
    /\ Due + 2 * Len(requests) \leq 2 * sent
    /\ Live => Due + 2 * Len(requests) = 2 * sent

StepInv == pc \in {"send", "receive"} => Exhausted \/ InStep

SyncInv == QuietInv /\ StepInv /\ OwnAudio /\ (Terminated => SpokenWhole)

IInv == ControlInv /\ CutInv /\ (Pipelined => SyncInv)

-----------------------------------------------------------------------------
(* What reading, sending and receiving do to a sequence of messages.       *)

LEMMA TailFacts ==
    ASSUME NEW S, NEW s \in Seq(S), s # <<>>
    PROVE  /\ Tail(s) \in Seq(S) /\ Head(s) \in S /\ Head(s) = s[1]
           /\ Len(s) \in Nat \ {0} /\ Len(Tail(s)) = Len(s) - 1
           /\ \A i \in 1..(Len(s) - 1) : Tail(s)[i] = s[i + 1]
BY HeadTailProperties, EmptySeq, LenProperties

\* recv() takes the first n events.
LEMMA SplitFacts ==
    ASSUME NEW S, NEW s \in Seq(S), NEW n \in 1..Len(s)
    PROVE  LET a == SubSeq(s, 1, n)
               b == SubSeq(s, n + 1, Len(s))
           IN  /\ a \in Seq(S) /\ Len(a) = n
               /\ \A i \in 1..n : a[i] = s[i]
               /\ b \in Seq(S) /\ Len(b) = Len(s) - n
               /\ \A i \in 1..(Len(s) - n) : b[i] = s[n + i]
<1> DEFINE a == SubSeq(s, 1, n)
           b == SubSeq(s, n + 1, Len(s))
<1>1. Len(s) \in Nat /\ n \in Nat /\ 1 <= n /\ n <= Len(s)
    BY LenProperties
<1>2. a \in Seq(S) /\ Len(a) = n /\ \A i \in 1..n : a[i] = s[i]
    <2>1. \A i \in 1..n : s[i] \in S
        BY <1>1, ElementOfSeq
    <2>2. /\ a \in Seq(S)
          /\ Len(a) = IF 1 <= n THEN n - 1 + 1 ELSE 0
          /\ \A i \in 1..(n - 1 + 1) : a[i] = s[1 + i - 1]
        BY <1>1, <2>1, SubSeqProperties
    <2> HIDE DEF a
    <2> QED BY <1>1, <2>2
<1>3. b \in Seq(S) /\ Len(b) = Len(s) - n /\ \A i \in 1..(Len(s) - n) : b[i] = s[n + i]
    <2>1. \A i \in (n + 1)..Len(s) : s[i] \in S
        BY <1>1, ElementOfSeq
    <2>2. n + 1 \in Int /\ Len(s) \in Int
        BY <1>1
    <2>3. /\ b \in Seq(S)
          /\ Len(b) = IF n + 1 <= Len(s) THEN Len(s) - (n + 1) + 1 ELSE 0
          /\ \A i \in 1..(Len(s) - (n + 1) + 1) : b[i] = s[(n + 1) + i - 1]
        BY <2>1, <2>2, SubSeqProperties
    <2> HIDE DEF b
    <2>4. Len(b) = Len(s) - n
        <3>1. Len(b) = IF n + 1 <= Len(s) THEN Len(s) - (n + 1) + 1 ELSE 0
            BY <2>3
        <3>2. CASE n = Len(s)
            BY <1>1, <3>1, <3>2
        <3>3. CASE n < Len(s)
            BY <1>1, <3>1, <3>3
        <3> QED BY <1>1, <3>2, <3>3
    <2>5. ASSUME NEW i \in 1..(Len(s) - n) PROVE b[i] = s[n + i]
        <3>1. i \in 1..(Len(s) - (n + 1) + 1) /\ (n + 1) + i - 1 = n + i
            BY <1>1
        <3> QED BY <2>3, <3>1
    <2> QED BY <2>3, <2>4, <2>5
<1> QED BY <1>2, <1>3

\* The first event of a chain is the next one, or the broken end of it.
LEMMA ChainHead ==
    ASSUME NEW S, NEW s \in Seq(S), s # <<>>, NEW j \in Nat, NEW ends,
           Chain(s, j, ends)
    PROVE  IsEvent(Head(s), j + 1) \/ (Broken(Head(s)) /\ Len(s) = 1 /\ ends)
<1>1. 1 \in 1..Len(s) /\ Head(s) = s[1]
    BY TailFacts
<1> QED BY <1>1 DEF Chain

LEMMA ChainTail ==
    ASSUME NEW S, NEW s \in Seq(S), s # <<>>, NEW j \in Nat, NEW ends,
           Chain(s, j, ends)
    PROVE  Chain(Tail(s), j + 1, ends)
<1> DEFINE t == Tail(s)
<1>1. /\ Len(s) \in Nat \ {0} /\ Len(t) = Len(s) - 1
      /\ \A i \in 1..(Len(s) - 1) : t[i] = s[i + 1]
    BY TailFacts
<1> HIDE DEF t
<1>2. ASSUME NEW i \in 1..Len(t)
      PROVE  IsEvent(t[i], (j + 1) + i) \/ (Broken(t[i]) /\ i = Len(t) /\ ends)
    <2>1. /\ i + 1 \in 1..Len(s) /\ t[i] = s[i + 1] /\ (j + 1) + i = j + (i + 1)
          /\ i + 1 = Len(s) => i = Len(t)
        BY <1>1
    <2>2. IsEvent(s[i + 1], j + (i + 1)) \/ (Broken(s[i + 1]) /\ i + 1 = Len(s) /\ ends)
        BY <2>1 DEF Chain
    <2> QED BY <2>1, <2>2
<1> QED BY <1>2 DEF Chain, t

LEMMA ChainAppend ==
    ASSUME NEW S, NEW s \in Seq(S), NEW e \in S, NEW j \in Nat, NEW ends,
           Chain(s, j, FALSE),
           IsEvent(e, j + Len(s) + 1) \/ (Broken(e) /\ ends)
    PROVE  Chain(Append(s, e), j, ends)
<1> DEFINE t == Append(s, e)
<1>1. /\ Len(s) \in Nat /\ Len(t) = Len(s) + 1
      /\ t[Len(s) + 1] = e /\ \A i \in 1..Len(s) : t[i] = s[i]
    BY AppendProperties, LenProperties
<1> HIDE DEF t
<1>2. ASSUME NEW i \in 1..Len(t)
      PROVE  IsEvent(t[i], j + i) \/ (Broken(t[i]) /\ i = Len(t) /\ ends)
    <2>1. CASE i = Len(s) + 1
        BY <1>1, <2>1
    <2>2. CASE i # Len(s) + 1
        <3>1. i \in 1..Len(s)
            BY <1>1, <2>2
        <3> QED BY <1>1, <3>1 DEF Chain
    <2> QED BY <2>1, <2>2
<1> QED BY <1>2 DEF Chain, t

LEMMA ChainSplit ==
    ASSUME NEW S, NEW s \in Seq(S), NEW n \in 1..Len(s), NEW j \in Nat, NEW ends,
           Chain(s, j, ends)
    PROVE  LET a == SubSeq(s, 1, n)
               b == SubSeq(s, n + 1, Len(s))
           IN  Chain(a, j, b = <<>> /\ ends) /\ Chain(b, j + n, ends)
<1> DEFINE a == SubSeq(s, 1, n)
           b == SubSeq(s, n + 1, Len(s))
<1>1. /\ a \in Seq(S) /\ Len(a) = n /\ \A i \in 1..n : a[i] = s[i]
      /\ b \in Seq(S) /\ Len(b) = Len(s) - n
      /\ \A i \in 1..(Len(s) - n) : b[i] = s[n + i]
    BY SplitFacts
<1>2. Len(s) \in Nat /\ n \in Nat
    BY LenProperties
<1>3. b = <<>> <=> n = Len(s)
    <2> HIDE DEF b
    <2>1. b = <<>> <=> Len(b) = 0
        BY <1>1, EmptySeq
    <2> QED BY <1>1, <1>2, <2>1
<1> HIDE DEF a, b
<1>4. ASSUME NEW i \in 1..Len(a)
      PROVE  IsEvent(a[i], j + i) \/ (Broken(a[i]) /\ i = Len(a) /\ b = <<>> /\ ends)
    <2>1. i \in 1..Len(s) /\ a[i] = s[i] /\ (i = Len(s) => n = Len(s) /\ i = Len(a))
        BY <1>1, <1>2
    <2>2. IsEvent(s[i], j + i) \/ (Broken(s[i]) /\ i = Len(s) /\ ends)
        BY <2>1 DEF Chain
    <2> QED BY <1>3, <2>1, <2>2
<1>5. ASSUME NEW i \in 1..Len(b)
      PROVE  IsEvent(b[i], (j + n) + i) \/ (Broken(b[i]) /\ i = Len(b) /\ ends)
    <2>1. /\ n + i \in 1..Len(s) /\ b[i] = s[n + i] /\ j + (n + i) = (j + n) + i
          /\ n + i = Len(s) => i = Len(b)
        BY <1>1, <1>2
    <2>2. IsEvent(s[n + i], j + (n + i)) \/ (Broken(s[n + i]) /\ n + i = Len(s) /\ ends)
        BY <2>1 DEF Chain
    <2> QED BY <2>1, <2>2
<1> QED BY <1>4, <1>5 DEF Chain, a, b

LEMMA LineTail ==
    ASSUME NEW S, NEW s \in Seq(S), s # <<>>, NEW j \in Nat, Line(s, j)
    PROVE  /\ Head(s).own = TRUE /\ 2 * Head(s).chunk = j + 2
           /\ Line(Tail(s), j + 2)
<1>1. /\ Len(s) \in Nat \ {0} /\ Len(Tail(s)) = Len(s) - 1 /\ Head(s) = s[1]
      /\ \A i \in 1..(Len(s) - 1) : Tail(s)[i] = s[i + 1]
    BY TailFacts
<1>2. Head(s).own = TRUE /\ 2 * Head(s).chunk = j + 2
    <2>1. 1 \in 1..Len(s)
        BY <1>1
    <2>2. s[1].own = TRUE /\ 2 * s[1].chunk = j + 2 * 1
        BY <2>1 DEF Line
    <2> QED BY <1>1, <2>2
<1>3. ASSUME NEW i \in 1..Len(Tail(s))
      PROVE  Tail(s)[i].own = TRUE /\ 2 * Tail(s)[i].chunk = (j + 2) + 2 * i
    <2>1. i + 1 \in 1..Len(s) /\ Tail(s)[i] = s[i + 1]
        BY <1>1
    <2>2. s[i + 1].own = TRUE /\ 2 * s[i + 1].chunk = j + 2 * (i + 1)
        BY <2>1 DEF Line
    <2>3. j + 2 * (i + 1) = (j + 2) + 2 * i
        BY <1>1
    <2> QED BY <2>1, <2>2, <2>3
<1> QED BY <1>2, <1>3 DEF Line

LEMMA LineAppend ==
    ASSUME NEW S, NEW s \in Seq(S), NEW e \in S, NEW j \in Nat, Line(s, j),
           e.own = TRUE, 2 * e.chunk = j + 2 * (Len(s) + 1)
    PROVE  Line(Append(s, e), j)
<1> DEFINE t == Append(s, e)
<1>1. /\ Len(s) \in Nat /\ Len(t) = Len(s) + 1
      /\ t[Len(s) + 1] = e /\ \A i \in 1..Len(s) : t[i] = s[i]
    BY AppendProperties, LenProperties
<1> HIDE DEF t
<1>2. ASSUME NEW i \in 1..Len(t)
      PROVE  t[i].own = TRUE /\ 2 * t[i].chunk = j + 2 * i
    <2>1. CASE i = Len(s) + 1
        BY <1>1, <2>1
    <2>2. CASE i # Len(s) + 1
        <3>1. i \in 1..Len(s)
            BY <1>1, <2>2
        <3> QED BY <1>1, <3>1 DEF Line
    <2> QED BY <2>1, <2>2
<1> QED BY <1>2 DEF Line, t

LEMMA EmptyFacts ==
    ASSUME NEW j, NEW ends
    PROVE  Chain(<<>>, j, ends) /\ Line(<<>>, j) /\ Len(<<>>) = 0 /\ Aged(<<>>) = <<>>
<1>1. Len(<<>>) = 0 /\ 1..Len(<<>>) = {}
    BY EmptySeq
<1>2. Aged(<<>>) = <<>>
    BY DEF Aged
<1> QED BY <1>1, <1>2 DEF Chain, Line

\* A finished utterance changes whose its messages are, and nothing else.
LEMMA AgedFacts ==
    ASSUME NEW K, NEW s \in Seq([kind : K, own : BOOLEAN, chunk : Chunks])
    PROVE  /\ Aged(s) \in Seq([kind : K, own : BOOLEAN, chunk : Chunks])
           /\ Len(Aged(s)) = Len(s)
           /\ \A i \in 1..Len(s) : Aged(s)[i].kind = s[i].kind
<1> DEFINE E == [kind : K, own : BOOLEAN, chunk : Chunks]
           t == Aged(s)
<1>1. Len(s) \in Nat /\ DOMAIN s = 1..Len(s) /\ \A i \in 1..Len(s) : s[i] \in E
    BY LenProperties, ElementOfSeq
<1>2. \A i \in 1..Len(s) : [s[i] EXCEPT !.own = FALSE] \in E
    BY <1>1
<1>3. t = [i \in 1..Len(s) |-> [s[i] EXCEPT !.own = FALSE]]
    BY <1>1 DEF Aged
<1> HIDE DEF E, t
<1>4. t \in [1..Len(s) -> E]
    BY <1>2, <1>3
<1>5. t \in Seq(E)
    BY <1>1, <1>4, SeqDef
<1>6. Len(t) = Len(s)
    <2>1. DOMAIN t = 1..Len(s) /\ DOMAIN t = 1..Len(t) /\ Len(t) \in Nat
        BY <1>4, <1>5, LenProperties
    <2> QED BY <1>1, <2>1
<1>7. ASSUME NEW i \in 1..Len(s) PROVE t[i].kind = s[i].kind
    BY <1>1, <1>3 DEF E
<1> QED BY <1>5, <1>6, <1>7 DEF E, t

LEMMA AgedRequests ==
    ASSUME NEW s \in Seq([own : BOOLEAN, chunk : Chunks])
    PROVE  Aged(s) \in Seq([own : BOOLEAN, chunk : Chunks])
<1> DEFINE E == [own : BOOLEAN, chunk : Chunks]
           t == Aged(s)
<1>1. Len(s) \in Nat /\ DOMAIN s = 1..Len(s) /\ \A i \in 1..Len(s) : s[i] \in E
    BY LenProperties, ElementOfSeq
<1>2. \A i \in 1..Len(s) : [s[i] EXCEPT !.own = FALSE] \in E
    BY <1>1
<1>3. t = [i \in 1..Len(s) |-> [s[i] EXCEPT !.own = FALSE]]
    BY <1>1 DEF Aged
<1> HIDE DEF E, t
<1>4. t \in [1..Len(s) -> E]
    BY <1>2, <1>3
<1> QED BY <1>1, <1>4, SeqDef DEF E, t

-----------------------------------------------------------------------------
(* Type correctness, and what holds whatever goes wrong.                   *)

USE SessionAssumption DEF Chunks

LEMMA ControlInit == Init => ControlInv
<1> SUFFICES ASSUME Init PROVE ControlInv
    OBVIOUS
<1>1. /\ requests \in Seq([own : BOOLEAN, chunk : 1..MaxChunks]) /\ serving \in Seq(Event)
      /\ responses \in Seq(Event) /\ rbuf \in Seq(Event) /\ played \in Seq(Event)
    BY EmptySeq DEF Init
<1>2. TypeOK
    <2>1. faults \in 0..MaxFaults /\ struck \subseteq Faults
        BY DEF Init
    <2>3. hurt \in BOOLEAN /\ sock \in BOOLEAN /\ (sock <=> link # "none")
        BY Zenon DEF Init
    <2>2. /\ pc = "idle" /\ nseg = 0 /\ sent = 0 /\ attempt = 0 
          /\ link = "none"
          /\ hdr \in {"none", "audio", "stop"} /\ stops = 0 /\ outcome = "none"
        BY DEF Init
    <2> QED BY <1>1, <2>1, <2>2, <2>3 DEF TypeOK
<1>3. CountInv /\ LinkInv
    BY DEF Init, CountInv, LinkInv
<1> QED BY <1>2, <1>3 DEF ControlInv

LEMMA FaultFacts ==
    ASSUME TypeOK, NEW f, Fault(f)
    PROVE  faults' \in 0..MaxFaults /\ struck' \subseteq Faults /\ hurt' \in BOOLEAN
<1>1. faults' \in 0..MaxFaults
    BY DEF TypeOK, Fault
<1>2. struck' \subseteq Faults /\ hurt' \in BOOLEAN
    BY DEF TypeOK, Fault
<1> QED BY <1>1, <1>2

LEMMA ControlStep == ControlInv /\ [Next]_vars => ControlInv'
<1> SUFFICES ASSUME ControlInv, [Next]_vars PROVE ControlInv'
    OBVIOUS
<1> DEFINE Requested == [own : BOOLEAN, chunk : 1..MaxChunks]
<1> USE DEF ControlInv, TypeOK, CountInv, LinkInv, Live, sessionVars, linkVars, faultVars,
            Fault, Disconnect, End
<1>e. /\ <<>> \in Seq(Requested) /\ <<>> \in Seq(Event)
      /\ requests \in Seq(Requested)
    BY EmptySeq
<1> HIDE DEF Requested
<1>r. requests' \in Seq(Requested) => requests' \in Seq([own : BOOLEAN, chunk : 1..MaxChunks])
    BY DEF Requested
<1>1. CASE Reuse
    BY <1>1, <1>e DEF Reuse
<1>2. CASE Connect
    BY <1>2, <1>e DEF Connect
<1>3. CASE ConnectFails
    BY <1>3 DEF ConnectFails
<1>4. CASE SendToServer
    <2>1. Request(sent + 1) \in Requested
        BY <1>4 DEF SendToServer, Request, Requested
    <2>2. requests' \in Seq(Requested)
        BY <1>4, <1>e, <2>1, AppendProperties DEF SendToServer
    <2> QED BY <1>4, <1>r, <2>2 DEF SendToServer, AfterSend
<1>5. CASE SendIntoVoid
    BY <1>5 DEF SendIntoVoid, AfterSend
<1>6. CASE SendFails
    <2>1. CASE attempt = 1
        <3>1. /\ pc' = "connect" /\ attempt' = 2 /\ sock' = FALSE /\ link' = "none"
              /\ UNCHANGED <<nseg, sent, hdr, stops, played, outcome, faultVars>>
              /\ pc = "send"
              /\ requests' = <<>> /\ serving' = <<>> /\ responses' = <<>> /\ rbuf' = <<>>
            BY <1>6, <2>1 DEF SendFails
        <3>2. TypeOK'
            <4>1. sock' \in BOOLEAN /\ (sock' <=> link' # "none")
                BY <3>1
            <4>2. /\ nseg' \in 0..MaxChunks /\ sent' \in 0..MaxChunks /\ attempt' \in 0..2
                  /\ stops' \in 0..MaxChunks
                  /\ faults' \in 0..MaxFaults /\ struck' \subseteq Faults /\ hurt' \in BOOLEAN
                BY <3>1
            <4> QED BY <1>e, <1>r, <3>1, <4>1, <4>2
        <3>3. CountInv' /\ LinkInv'
            BY <3>1
        <3> QED BY <3>2, <3>3
    <2>2. CASE attempt # 1
        BY <1>6, <1>e, <1>r, <2>2 DEF SendFails
    <2> QED BY <2>1, <2>2
<1>7. CASE SendNoMemory
    BY <1>7 DEF SendNoMemory
<1>8. CASE Fill
    <2>1. rbuf' \in Seq(Event) /\ responses' \in Seq(Event)
        <3>1. PICK n \in 1..Len(responses) :
                 /\ rbuf' = SubSeq(responses, 1, n)
                 /\ responses' = SubSeq(responses, n + 1, Len(responses))
            BY <1>8 DEF Fill
        <3> QED BY <3>1, SplitFacts
    <2>2. link = "none" => ~Fill
        BY DEF Fill
    <2> QED BY <1>8, <2>1, <2>2 DEF Fill
<1>9. CASE TakeAudio
    <2>1. rbuf' \in Seq(Event) /\ Head(rbuf) \in Event
        BY <1>9, TailFacts DEF TakeAudio, Parsing
    <2>2. played' \in Seq(Event)
        BY <1>9, <2>1, AppendProperties DEF TakeAudio
    <2> QED BY <1>9, <2>1, <2>2 DEF TakeAudio, Parsing
<1>10. CASE TakeStop
    <2>1. rbuf' \in Seq(Event)
        BY <1>10, TailFacts DEF TakeStop, Parsing
    <2> QED BY <1>10, <2>1 DEF TakeStop, CountStop, Parsing
<1>11. CASE TakeTorn
    BY <1>11, <1>e, <1>r DEF TakeTorn, RecvFails
<1>12. CASE TakeCut
    <2>1. rbuf # <<>> /\ Tail(rbuf) \in Seq(Event)
        BY <1>12, TailFacts DEF TakeCut, Parsing
    <2>2. CASE CountStop /\ rbuf' = Tail(rbuf) /\ UNCHANGED <<sock, link, requests, serving, responses>>
        BY <1>12, <2>1, <2>2 DEF TakeCut, CountStop, Parsing
    <2>3. CASE RecvFails /\ UNCHANGED stops
        BY <1>12, <1>e, <1>r, <2>3 DEF TakeCut, RecvFails, Parsing
    <2>4. CASE rbuf' = Tail(rbuf) /\ UNCHANGED <<stops, pc, outcome, sock, link, requests, serving, responses>>
        BY <1>12, <2>1, <2>4 DEF TakeCut, Parsing
    <2> QED BY <1>12, <2>2, <2>3, <2>4 DEF TakeCut
<1>13. CASE PeerClosed
    BY <1>13 DEF PeerClosed
<1>14. CASE RecvReset
    BY <1>14, <1>e, <1>r DEF RecvReset, RecvFails
<1>15. CASE RecvTimeout
    <2>1. CASE UNCHANGED faultVars
        BY <1>15, <1>e, <1>r, <2>1 DEF RecvTimeout, RecvFails
    <2>2. CASE Fault("timeout")
        <3> HIDE DEF Fault
        <3> QED BY <1>15, <1>e, <1>r, <2>2, FaultFacts DEF RecvTimeout, RecvFails
    <2> QED BY <1>15, <2>1, <2>2 DEF RecvTimeout
<1>16. CASE RecvDrip
    BY <1>16 DEF RecvDrip, vars
<1>17. CASE ServerReads
    <2>1. requests' \in Seq(Requested) /\ Head(requests) \in Requested
        BY <1>17, <1>e, TailFacts DEF ServerReads
    <2>2. serving' \in Seq(Event)
        <3> DEFINE q == Head(requests)
        <3>1. Audio(q.own, q.chunk) \in Event /\ Stop(q.own, q.chunk) \in Event
            BY <2>1 DEF Audio, Stop, Event, Requested
        <3>2. serving' = <<Audio(q.own, q.chunk), Stop(q.own, q.chunk)>>
            BY <1>17 DEF ServerReads
        <3> QED BY <3>1, <3>2
    <2> QED BY <1>17, <1>r, <2>1, <2>2 DEF ServerReads
<1>18. CASE ServerSends
    <2>1. serving' \in Seq(Event) /\ Head(serving) \in Event
        BY <1>18, TailFacts DEF ServerSends
    <2>2. responses' \in Seq(Event)
        BY <1>18, <2>1, AppendProperties DEF ServerSends
    <2> QED BY <1>18, <2>1, <2>2 DEF ServerSends
<1>19. CASE ServerCloses
    BY <1>19, <1>e, <1>r DEF ServerCloses
<1>20. CASE ServerCut
    <2>1. Partial("torn") \in Event /\ Partial("cut") \in Event
        BY DEF Partial, Event
    <2>2. responses' \in Seq(Event)
        <3>1. Append(responses, Partial("torn")) \in Seq(Event)
              /\ Append(responses, Partial("cut")) \in Seq(Event)
            BY <2>1, AppendProperties
        <3> QED BY <1>20, <3>1 DEF ServerCut
    <2>3. faults' \in 0..MaxFaults /\ struck' \subseteq Faults /\ hurt' \in BOOLEAN
        <3> HIDE DEF Fault
        <3>1. Fault("torn") \/ Fault("cut")
            BY <1>20 DEF ServerCut
        <3> QED BY <3>1, FaultFacts
    <2> QED BY <1>20, <1>e, <1>r, <2>2, <2>3 DEF ServerCut
<1>21. CASE ServerHangs
    <2>1. CASE Fault("hang") /\ link' = "hung"
        BY <1>21, <2>1 DEF ServerHangs
    <2>2. CASE Fault("drip") /\ link' = "dripping"
        BY <1>21, <2>2 DEF ServerHangs
    <2> QED BY <1>21, <2>1, <2>2 DEF ServerHangs
<1>22. CASE LinkReset
    BY <1>22, <1>e, <1>r DEF LinkReset
<1>23. CASE ResetArrives
    BY <1>23, <1>e DEF ResetArrives
<1>24. ASSUME NEW n \in 1..MaxChunks, Say(n) PROVE ControlInv'
    <2>1. /\ requests' \in Seq(Requested) /\ serving' \in Seq(Event)
          /\ responses' \in Seq(Event) /\ rbuf' \in Seq(Event)
        BY <1>24, AgedRequests, AgedFacts DEF Say, Event, Requested
    <2>2. /\ requests = <<>> => requests' = <<>>
          /\ serving = <<>> => serving' = <<>>
          /\ responses = <<>> => responses' = <<>>
          /\ rbuf = <<>> => rbuf' = <<>>
        BY <1>24, EmptyFacts DEF Say
    <2>3. TypeOK'
        <3>1. played' = <<>> /\ <<>> \in Seq(Event) /\ nseg' \in 0..MaxChunks
            BY <1>24, <1>e DEF Say
        <3>2. hurt' \in BOOLEAN
            BY <1>24 DEF Say
        <3>3. faults' \in 0..MaxFaults /\ struck' \subseteq Faults
            BY <1>24 DEF Say
        <3>4. sock' \in BOOLEAN /\ (sock' <=> link' # "none") /\ attempt' \in 0..2
            BY <1>24 DEF Say
        <3> QED BY <1>24, <1>e, <1>r, <2>1, <3>1, <3>2, <3>3, <3>4 DEF Say
    <2>4. CountInv' /\ LinkInv'
        BY <1>24, <2>2 DEF Say
    <2> QED BY <2>3, <2>4
<1>25. CASE UNCHANGED vars
    BY <1>25 DEF vars
<1> QED BY <1>1, <1>2, <1>3, <1>4, <1>5, <1>6, <1>7, <1>8, <1>9, <1>10, <1>11, <1>12,
       <1>13, <1>14, <1>15, <1>16, <1>17, <1>18, <1>19, <1>20, <1>21, <1>22, <1>23,
       <1>24, <1>25 DEF Next, Device, Receive, Server, Trouble

\* Every variable keeps its type, whatever the callers, the server and the link do.
THEOREM TypeCorrect == Spec => []TypeOK
<1>1. Init => ControlInv
    BY ControlInit
<1>2. ControlInv /\ [Next]_vars => ControlInv'
    BY ControlStep
<1>3. ControlInv => TypeOK
    BY DEF ControlInv
<1> QED BY <1>1, <1>2, <1>3, PTL DEF Spec

-----------------------------------------------------------------------------
(* Cut events.                                                             *)

LEMMA UncutFacts ==
    /\ Uncut(<<>>)
    /\ \A s \in Seq(Event) :
          /\ s # <<>> /\ Uncut(s) => Uncut(Tail(s)) /\ Head(s).kind # "cut"
          /\ \A e \in Event : Uncut(s) /\ e.kind # "cut" => Uncut(Append(s, e))
          /\ \A n \in 1..Len(s) : Uncut(s) =>
                 Uncut(SubSeq(s, 1, n)) /\ Uncut(SubSeq(s, n + 1, Len(s)))
          /\ Uncut(s) => Uncut(Aged(s))
<1>1. Uncut(<<>>)
    BY EmptySeq DEF Uncut
<1>2. ASSUME NEW s \in Seq(Event), s # <<>>, Uncut(s)
      PROVE  Uncut(Tail(s)) /\ Head(s).kind # "cut"
    <2>1. /\ Len(s) \in Nat \ {0} /\ Len(Tail(s)) = Len(s) - 1 /\ Head(s) = s[1]
          /\ \A i \in 1..(Len(s) - 1) : Tail(s)[i] = s[i + 1]
        BY <1>2, TailFacts
    <2> QED BY <1>2, <2>1 DEF Uncut
<1>3. ASSUME NEW s \in Seq(Event), NEW e \in Event, Uncut(s), e.kind # "cut"
      PROVE  Uncut(Append(s, e))
    <2> DEFINE t == Append(s, e)
    <2>1. /\ Len(s) \in Nat /\ Len(t) = Len(s) + 1
          /\ t[Len(s) + 1] = e /\ \A i \in 1..Len(s) : t[i] = s[i]
        BY AppendProperties, LenProperties
    <2> HIDE DEF t
    <2>2. Uncut(t)
        BY <1>3, <2>1 DEF Uncut
    <2> QED BY <2>2 DEF t
<1>4. ASSUME NEW s \in Seq(Event), NEW n \in 1..Len(s), Uncut(s)
      PROVE  Uncut(SubSeq(s, 1, n)) /\ Uncut(SubSeq(s, n + 1, Len(s)))
    <2> DEFINE a == SubSeq(s, 1, n)
               b == SubSeq(s, n + 1, Len(s))
    <2>1. /\ Len(a) = n /\ \A i \in 1..n : a[i] = s[i]
          /\ Len(b) = Len(s) - n /\ \A i \in 1..(Len(s) - n) : b[i] = s[n + i]
          /\ Len(s) \in Nat
        BY SplitFacts, LenProperties
    <2> HIDE DEF a, b
    <2>2. Uncut(a)
        BY <1>4, <2>1 DEF Uncut
    <2>3. ASSUME NEW i \in 1..Len(b) PROVE b[i].kind # "cut"
        <3>1. n + i \in 1..Len(s) /\ b[i] = s[n + i]
            BY <2>1
        <3> QED BY <1>4, <3>1 DEF Uncut
    <2> QED BY <2>2, <2>3 DEF a, b, Uncut
<1>5. ASSUME NEW s \in Seq(Event), Uncut(s) PROVE Uncut(Aged(s))
    <2>1. Len(Aged(s)) = Len(s) /\ \A i \in 1..Len(s) : Aged(s)[i].kind = s[i].kind
        BY AgedFacts DEF Event
    <2> QED BY <1>5, <2>1 DEF Uncut
<1> QED BY <1>1, <1>2, <1>3, <1>4, <1>5

LEMMA CutInit == Init => CutInv
BY UncutFacts DEF Init, CutInv, Uncut

\* What has happened is not forgotten.
LEMMA StruckGrows == [Next]_vars => struck \subseteq struck'
BY DEF vars, sessionVars, linkVars, faultVars, Fault, Next, Device, Receive, Server, Trouble,
       Reuse, Connect, ConnectFails, SendToServer, SendIntoVoid, SendFails, SendNoMemory,
       Fill, TakeAudio, TakeStop, TakeTorn, TakeCut, PeerClosed, RecvReset, RecvTimeout,
       RecvDrip, ServerReads, ServerSends, ServerCloses, ServerCut, ServerHangs, LinkReset,
       ResetArrives, Say

LEMMA CutStep == ControlInv /\ CutInv /\ [Next]_vars => CutInv'
<1> SUFFICES ASSUME ControlInv, CutInv, [Next]_vars, Terminated'
             PROVE  Uncut(rbuf') /\ Uncut(responses') /\ Uncut(serving')
    BY DEF CutInv, Uncut
<1> USE DEF sessionVars, linkVars, faultVars, Fault, Disconnect
<1>a. responses \in Seq(Event) /\ rbuf \in Seq(Event) /\ serving \in Seq(Event)
    BY DEF ControlInv, TypeOK
<1>b. Uncut(rbuf) /\ Uncut(responses) /\ Uncut(serving) /\ Uncut(<<>>)
    BY StruckGrows, UncutFacts DEF CutInv, Terminated
<1>1. CASE /\ rbuf' \in {<<>>, rbuf}
           /\ responses' \in {<<>>, responses}
           /\ serving' \in {<<>>, serving}
    BY <1>b, <1>1
<1>2. CASE Fill
    BY <1>2, <1>a, <1>b, UncutFacts DEF Fill
<1>3. CASE rbuf # <<>> /\ rbuf' = Tail(rbuf) /\ UNCHANGED <<responses, serving>>
    BY <1>3, <1>a, <1>b, UncutFacts
<1>4. CASE ServerReads
    <2> DEFINE q == Head(requests)
    <2>1. serving' = <<Audio(q.own, q.chunk), Stop(q.own, q.chunk)>>
        BY <1>4 DEF ServerReads
    <2>2. Uncut(serving')
        BY <2>1 DEF Uncut, Audio, Stop
    <2> QED BY <1>4, <1>b, <2>2 DEF ServerReads
<1>5. CASE ServerSends
    <2>1. Head(serving) \in Event /\ serving # <<>>
        BY <1>5, <1>a, TailFacts DEF ServerSends
    <2> QED BY <1>5, <1>a, <1>b, <2>1, UncutFacts DEF ServerSends
<1>6. CASE ServerCut
    <2>1. Fault("torn") /\ responses' = Append(responses, Partial("torn"))
        BY <1>6 DEF ServerCut, Terminated
    <2>2. Partial("torn") \in Event /\ Partial("torn").kind # "cut"
        BY DEF Partial, Event
    <2> QED BY <1>6, <1>a, <1>b, <2>1, <2>2, UncutFacts DEF ServerCut
<1>7. ASSUME NEW n \in 1..MaxChunks, Say(n)
      PROVE  Uncut(rbuf') /\ Uncut(responses') /\ Uncut(serving')
    BY <1>7, <1>a, <1>b, UncutFacts DEF Say
<1>8. CASE \/ Reuse \/ Connect \/ SendToServer \/ SendIntoVoid \/ SendFails \/ SendNoMemory
           \/ TakeTorn \/ PeerClosed \/ RecvReset \/ RecvTimeout \/ RecvDrip
           \/ ConnectFails \/ ServerCloses \/ ServerHangs \/ LinkReset \/ ResetArrives
           \/ UNCHANGED vars
    BY <1>1, <1>8
       DEF vars, Reuse, Connect, ConnectFails, SendToServer, SendIntoVoid, SendFails,
           SendNoMemory, TakeTorn, PeerClosed, RecvReset, RecvTimeout, RecvFails, RecvDrip,
           ServerCloses, ServerHangs, LinkReset, ResetArrives
<1>9. CASE TakeAudio \/ TakeStop \/ TakeCut
    BY <1>1, <1>3, <1>9 DEF TakeAudio, TakeStop, TakeCut, Parsing, RecvFails
<1> QED BY <1>2, <1>4, <1>5, <1>6, <1>7, <1>8, <1>9 DEF Next, Device, Receive, Server, Trouble

-----------------------------------------------------------------------------
(* The device and the server stay in step.                                 *)

LEMMA Lengths ==
    ASSUME ControlInv
    PROVE  /\ requests \in Seq([own : BOOLEAN, chunk : 1..MaxChunks])
           /\ serving \in Seq(Event) /\ responses \in Seq(Event)
           /\ rbuf \in Seq(Event) /\ played \in Seq(Event)
           /\ Len(requests) \in Nat /\ Len(serving) \in Nat /\ Len(responses) \in Nat
           /\ Len(rbuf) \in Nat /\ Len(played) \in Nat
           /\ nseg \in Nat /\ sent \in Nat /\ stops \in Nat
           /\ Taken \in Nat /\ Received \in Nat /\ OnTheWay \in Nat /\ Due \in Nat
           /\ 0 < MaxChunks /\ MaxChunks \in Nat
<1>1. /\ requests \in Seq([own : BOOLEAN, chunk : 1..MaxChunks])
      /\ serving \in Seq(Event) /\ responses \in Seq(Event)
      /\ rbuf \in Seq(Event) /\ played \in Seq(Event)
      /\ nseg \in Nat /\ sent \in Nat /\ stops \in Nat
    BY DEF ControlInv, TypeOK
<1>2. /\ Len(requests) \in Nat /\ Len(serving) \in Nat /\ Len(responses) \in Nat
      /\ Len(rbuf) \in Nat /\ Len(played) \in Nat
    BY <1>1, LenProperties
<1>3. Taken \in Nat
    BY <1>1, <1>2 DEF Taken
<1> HIDE DEF Taken
<1>4. Received \in Nat /\ OnTheWay \in Nat /\ Due \in Nat
    BY <1>2, <1>3 DEF Received, OnTheWay, Due
<1> QED BY <1>1, <1>2, <1>3, <1>4

\* The next state is in step.
LEMMA InStepPrimed ==
    ASSUME pc' = "receive" => Len(played') \in {stops', stops' + 1},
           Chain(rbuf', Taken', responses' = <<>> /\ ~Live'),
           Chain(responses', Received', ~Live'),
           Chain(serving', OnTheWay', FALSE),
           Line(requests', Due'),
           Due' + 2 * Len(requests') <= 2 * sent',
           Live' => Due' + 2 * Len(requests') = 2 * sent'
    PROVE  InStep'
BY DEF InStep

\* What is in rbuf while answers are read.
LEMMA NextEvent ==
    ASSUME ControlInv, SyncInv, pc = "receive", rbuf # <<>>
    PROVE  /\ InStep /\ Taken = stops + Len(played)
           /\ \/ IsEvent(Head(rbuf), Taken + 1)
              \/ Broken(Head(rbuf)) /\ Len(rbuf) = 1 /\ responses = <<>> /\ ~Live
           /\ Chain(Tail(rbuf), Taken + 1, responses = <<>> /\ ~Live)
           /\ Head(rbuf) \in Event /\ Tail(rbuf) \in Seq(Event)
           /\ Len(Tail(rbuf)) = Len(rbuf) - 1 /\ Len(rbuf) >= 1
<1>1. InStep
    BY DEF SyncInv, StepInv, Exhausted
<1>2. Taken = stops + Len(played)
    BY DEF Taken
<1>3. Chain(rbuf, Taken, responses = <<>> /\ ~Live)
    BY <1>1 DEF InStep
<1>4. rbuf \in Seq(Event) /\ Taken \in Nat
    BY Lengths
<1>5. /\ Head(rbuf) \in Event /\ Tail(rbuf) \in Seq(Event)
      /\ Len(Tail(rbuf)) = Len(rbuf) - 1 /\ Len(rbuf) >= 1
    BY <1>4, TailFacts
<1>6. \/ IsEvent(Head(rbuf), Taken + 1)
      \/ Broken(Head(rbuf)) /\ Len(rbuf) = 1 /\ responses = <<>> /\ ~Live
    BY <1>3, <1>4, ChainHead
<1>7. Chain(Tail(rbuf), Taken + 1, responses = <<>> /\ ~Live)
    BY <1>3, <1>4, ChainTail
<1> QED BY <1>1, <1>2, <1>5, <1>6, <1>7

\* The audio the device reads next is that of the next chunk.
LEMMA NextAudio ==
    ASSUME ControlInv, SyncInv, TakeAudio
    PROVE  /\ Head(rbuf) = Audio(TRUE, Len(played) + 1)
           /\ Len(played) = stops /\ Len(played) < nseg
<1>1. pc = "receive" /\ rbuf # <<>> /\ Head(rbuf).kind = "audio"
    BY DEF TakeAudio, Parsing
<1>2. InStep /\ Taken = stops + Len(played) /\ Head(rbuf) \in Event
    BY <1>1, NextEvent
<1>3. IsEvent(Head(rbuf), Taken + 1)
    BY <1>1, NextEvent DEF Broken
<1>4. Head(rbuf).own = TRUE /\ 2 * Head(rbuf).chunk - 1 = stops + Len(played) + 1
    BY <1>1, <1>2, <1>3 DEF IsEvent
<1>5. Len(played) \in {stops, stops + 1} /\ stops < nseg
    BY <1>1, <1>2 DEF InStep, ControlInv, CountInv
<1>6. Head(rbuf).chunk \in Nat
    BY <1>2 DEF Event
<1>7. Len(played) = stops /\ Head(rbuf).chunk = Len(played) + 1
    <2>1. Len(played) \in Nat /\ stops \in Nat
        BY Lengths
    <2>2. CASE Len(played) = stops
        BY <1>4, <1>6, <2>1, <2>2
    <2>3. CASE Len(played) = stops + 1
        BY <1>4, <1>6, <2>1, <2>3
    <2> QED BY <1>5, <2>2, <2>3
<1>8. Head(rbuf) = [kind |-> Head(rbuf).kind, own |-> Head(rbuf).own, chunk |-> Head(rbuf).chunk]
    BY <1>2 DEF Event
<1>9. Head(rbuf) = Audio(TRUE, Len(played) + 1)
    BY <1>1, <1>4, <1>7, <1>8 DEF Audio
<1> QED BY <1>5, <1>7, <1>9

\* The audio-stop the device reads next is that of the chunk it played last;
\* after the last one nothing is left.
LEMMA NextStop ==
    ASSUME ControlInv, SyncInv, TakeStop
    PROVE  /\ Len(played) = stops + 1
           /\ stops + 1 >= nseg =>
                 /\ stops + 1 = nseg
                 /\ requests = <<>> /\ serving = <<>> /\ responses = <<>> /\ Tail(rbuf) = <<>>
<1>1. pc = "receive" /\ rbuf # <<>> /\ Head(rbuf).kind = "stop"
    BY DEF TakeStop, Parsing
<1>2. /\ InStep /\ Taken = stops + Len(played) /\ Head(rbuf) \in Event
      /\ Tail(rbuf) \in Seq(Event) /\ Len(Tail(rbuf)) = Len(rbuf) - 1 /\ Len(rbuf) >= 1
    BY <1>1, NextEvent
<1>3. IsEvent(Head(rbuf), Taken + 1)
    BY <1>1, NextEvent DEF Broken
<1>4. 2 * Head(rbuf).chunk = stops + Len(played) + 1
    BY <1>1, <1>2, <1>3 DEF IsEvent
<1>5. Len(played) \in {stops, stops + 1} /\ stops < nseg /\ sent = nseg
    BY <1>1, <1>2 DEF InStep, ControlInv, CountInv
<1>6. Head(rbuf).chunk \in Nat
    BY <1>2 DEF Event
<1>7. Len(played) = stops + 1
    <2>1. Head(rbuf).chunk \in Int /\ stops \in Int
        BY <1>6, Lengths
    <2>2. ASSUME Len(played) = stops PROVE FALSE
        <3>1. 2 * Head(rbuf).chunk = 2 * stops + 1
            BY <1>4, <2>1, <2>2
        <3> QED BY <2>1, <3>1
    <2> QED BY <1>5, <2>2
<1>8. ASSUME stops + 1 >= nseg
      PROVE  /\ stops + 1 = nseg
             /\ requests = <<>> /\ serving = <<>> /\ responses = <<>> /\ Tail(rbuf) = <<>>
    <2>1. stops + 1 = nseg
        BY <1>5, <1>8, Lengths
    <2>2. Taken + Len(rbuf) + Len(responses) + Len(serving) + 2 * Len(requests) <= 2 * sent
        BY <1>2 DEF InStep, Due, OnTheWay, Received
    <2>3. /\ Len(requests) = 0 /\ Len(serving) = 0 /\ Len(responses) = 0
          /\ Len(rbuf) = 1
        <3>1. /\ Len(requests) \in Nat /\ Len(serving) \in Nat /\ Len(responses) \in Nat
              /\ Len(rbuf) \in Nat /\ stops \in Nat
            BY Lengths
        <3>2. 2 * (stops + 1) + Len(rbuf) + Len(responses) + Len(serving)
                 + 2 * Len(requests) <= 2 * (stops + 1) + 1
            BY <1>2, <1>5, <1>7, <2>1, <2>2, <3>1
        <3> QED BY <1>2, <3>1, <3>2
    <2>4. Len(Tail(rbuf)) = 0
        BY <1>2, <2>3
    <2>5. requests = <<>> /\ serving = <<>> /\ responses = <<>>
        BY <2>3, Lengths, EmptySeq
    <2>6. Tail(rbuf) = <<>>
        BY <1>2, <2>4, EmptySeq
    <2> QED BY <2>1, <2>5, <2>6
<1> QED BY <1>7, <1>8

\* A broken event is the last one of a connection that is down.
LEMMA NextBroken ==
    ASSUME ControlInv, SyncInv, TakeTorn \/ TakeCut
    PROVE  Tail(rbuf) = <<>> /\ responses = <<>> /\ ~Live
<1>1. pc = "receive" /\ rbuf # <<>> /\ Broken(Head(rbuf))
    BY DEF TakeTorn, TakeCut, Parsing, Broken
<1>2. ~IsEvent(Head(rbuf), Taken + 1)
    BY <1>1 DEF IsEvent, Broken
<1>3. Len(rbuf) = 1 /\ responses = <<>> /\ ~Live
    BY <1>1, <1>2, NextEvent
<1>4. Tail(rbuf) \in Seq(Event) /\ Len(Tail(rbuf)) = 0
    BY <1>1, <1>3, NextEvent
<1> QED BY <1>3, <1>4, EmptySeq

\* Steps that leave the audio and the result alone.
Silent ==
    \/ Reuse \/ Connect \/ SendToServer \/ SendIntoVoid \/ Fill \/ RecvDrip
    \/ ServerReads \/ ServerSends \/ ServerCloses \/ ServerCut \/ ServerHangs
    \/ LinkReset \/ ResetArrives \/ UNCHANGED vars

Failing ==
    \/ SendFails \/ SendNoMemory \/ ConnectFails \/ TakeTorn \/ PeerClosed \/ RecvReset
    \/ RecvTimeout

LEMMA SilentFacts == Silent => UNCHANGED <<nseg, played, outcome>>
BY DEF Silent, vars, sessionVars, linkVars, faultVars, Reuse, Connect, SendToServer,
       SendIntoVoid, AfterSend, Fill, RecvDrip, ServerReads, ServerSends, ServerCloses,
       ServerCut, ServerHangs, LinkReset, ResetArrives

LEMMA FailingFacts ==
    ControlInv /\ Failing => UNCHANGED <<nseg, played>> /\ outcome' # "ok"
BY DEF ControlInv, CountInv, Failing, sessionVars, SendFails, SendNoMemory, ConnectFails,
       TakeTorn, PeerClosed, RecvReset, RecvTimeout, RecvFails, End

LEMMA Kinds ==
    [Next]_vars <=> \/ Silent \/ Failing \/ TakeAudio \/ TakeStop \/ TakeCut
                    \/ \E n \in 1..MaxChunks : Say(n)
BY DEF Silent, Failing, Next, Device, Receive, Server, Trouble

LEMMA OwnAudioStep ==
    ASSUME ControlInv, SyncInv, [Next]_vars
    PROVE  OwnAudio'
<1>1. OwnAudio
    BY DEF SyncInv
<1>2. CASE UNCHANGED played
    BY <1>1, <1>2 DEF OwnAudio
<1>3. CASE TakeAudio
    <2>1. played' = Append(played, Audio(TRUE, Len(played) + 1)) /\ Head(rbuf) \in Event
        BY <1>3, NextAudio, NextEvent DEF TakeAudio, Parsing
    <2>2. Audio(TRUE, Len(played) + 1) \in Event
        BY <1>3, <2>1, NextAudio
    <2>3. /\ Len(played') = Len(played) + 1 /\ Len(played) \in Nat
          /\ \A i \in 1..Len(played) : played'[i] = played[i]
          /\ played'[Len(played) + 1] = Audio(TRUE, Len(played) + 1)
        <3>1. played \in Seq(Event) /\ Len(played) \in Nat
            BY Lengths
        <3> DEFINE e == Audio(TRUE, Len(played) + 1)
        <3>2. e \in Event /\ played' = Append(played, e)
            BY <2>1, <2>2
        <3> HIDE DEF e
        <3>3. /\ Len(played') = Len(played) + 1
              /\ \A i \in 1..Len(played) : played'[i] = played[i]
              /\ played'[Len(played) + 1] = e
            BY <3>1, <3>2, AppendProperties
        <3> QED BY <3>1, <3>3 DEF e
    <2>4. ASSUME NEW i \in 1..Len(played') PROVE played'[i] = Audio(TRUE, i)
        <3>1. CASE i = Len(played) + 1
            BY <2>3, <3>1
        <3>2. CASE i # Len(played) + 1
            <4>1. i \in 1..Len(played)
                BY <2>3, <3>2
            <4> QED BY <1>1, <2>3, <4>1 DEF OwnAudio
        <3> QED BY <3>1, <3>2
    <2> QED BY <2>4 DEF OwnAudio
<1>4. CASE played' = <<>>
    BY <1>4, EmptySeq DEF OwnAudio
<1>5. CASE TakeStop \/ TakeCut
    BY <1>2, <1>5 DEF TakeStop, TakeCut
<1>6. CASE \E n \in 1..MaxChunks : Say(n)
    BY <1>4, <1>6 DEF Say
<1> QED BY <1>2, <1>3, <1>5, <1>6, SilentFacts, FailingFacts, Kinds

LEMMA SpokenStep ==
    ASSUME ControlInv, CutInv, SyncInv, [Next]_vars
    PROVE  (Terminated => SpokenWhole)'
<1> SUFFICES ASSUME Terminated' PROVE SpokenWhole'
    OBVIOUS
<1>1. Terminated /\ SpokenWhole
    BY StruckGrows DEF Terminated, SyncInv
<1>2. CASE UNCHANGED <<nseg, played, outcome>>
    BY <1>1, <1>2 DEF SpokenWhole
<1>3. CASE outcome' # "ok"
    BY <1>3 DEF SpokenWhole
<1>4. CASE TakeAudio
    BY <1>3, <1>4 DEF TakeAudio, Parsing, ControlInv, CountInv
<1>5. CASE TakeStop
    <2>1. CASE stops + 1 >= nseg
        BY <1>5, <2>1, NextStop DEF TakeStop, SpokenWhole
    <2>2. CASE ~(stops + 1 >= nseg)
        BY <1>3, <1>5, <2>2 DEF TakeStop, CountStop, Parsing, ControlInv, CountInv
    <2> QED BY <2>1, <2>2
<1>6. ~TakeCut
    <2> SUFFICES ASSUME TakeCut PROVE FALSE
        OBVIOUS
    <2>1. rbuf \in Seq(Event) /\ rbuf # <<>> /\ Head(rbuf).kind = "cut"
        BY Lengths DEF TakeCut, Parsing
    <2> QED BY <1>1, <2>1, UncutFacts DEF CutInv
<1>7. CASE \E n \in 1..MaxChunks : Say(n)
    BY <1>3, <1>7 DEF Say
<1> QED BY <1>2, <1>3, <1>4, <1>5, <1>6, <1>7, SilentFacts, FailingFacts, Kinds

LEMMA QuietStep ==
    ASSUME ControlInv, SyncInv, [Next]_vars, Pipelined'
    PROVE  QuietInv'
<1> USE DEF sessionVars, linkVars, faultVars, End
<1>q. pc \in {"idle", "connect"} => Quiet
    BY DEF SyncInv, QuietInv
<1>l. ~Live => requests = <<>> /\ serving = <<>>
    BY DEF ControlInv, LinkInv
<1>1. CASE Quiet'
    BY <1>1 DEF QuietInv
<1>2. CASE pc' \notin {"idle", "connect"}
    BY <1>2 DEF QuietInv
<1>3. CASE Reuse \/ Connect \/ Fill \/ RecvDrip \/ TakeAudio
    BY <1>2, <1>3, <1>q DEF Reuse, Connect, Fill, RecvDrip, TakeAudio, Parsing, Nothing, vars
<1>4. CASE SendToServer \/ SendIntoVoid
    BY <1>2, <1>4 DEF SendToServer, SendIntoVoid, AfterSend
<1>5. CASE ServerReads \/ ServerSends \/ ServerCut
    BY <1>2, <1>5, <1>q DEF ServerReads, ServerSends, ServerCut, Quiet, ControlInv, TypeOK
<1>6. CASE ServerCloses \/ ServerHangs \/ LinkReset \/ ResetArrives \/ UNCHANGED vars
    BY <1>6, <1>q DEF ServerCloses, ServerHangs, LinkReset, ResetArrives, vars, Quiet, QuietInv
<1>7. CASE SendFails \/ TakeTorn \/ RecvReset \/ RecvTimeout
    BY <1>1, <1>7 DEF SendFails, TakeTorn, RecvReset, RecvTimeout, RecvFails, Disconnect, Quiet
<1>8. CASE ConnectFails
    BY <1>1, <1>8, <1>q DEF ConnectFails, Quiet
<1>9. ~SendNoMemory
    BY DEF SendNoMemory, Fault, Pipelined
<1>10. CASE PeerClosed
    BY <1>1, <1>10, <1>l DEF PeerClosed, Nothing, Quiet, Live
<1>11. CASE TakeStop
    <2>1. CASE stops + 1 >= nseg
        BY <1>1, <1>11, <2>1, NextStop DEF TakeStop, Quiet
    <2>2. CASE ~(stops + 1 >= nseg)
        BY <1>2, <1>11, <2>2 DEF TakeStop, CountStop, Parsing
    <2> QED BY <2>1, <2>2
<1>12. CASE TakeCut
    <2>1. Tail(rbuf) = <<>> /\ responses = <<>> /\ requests = <<>> /\ serving = <<>>
        BY <1>12, <1>l, NextBroken
    <2> QED BY <1>1, <1>12, <2>1 DEF TakeCut, RecvFails, Disconnect, Quiet
<1>13. CASE \E n \in 1..MaxChunks : Say(n)
    BY <1>1, <1>13, <1>q, EmptyFacts DEF Say, Quiet
<1> QED BY <1>3, <1>4, <1>5, <1>6, <1>7, <1>8, <1>9, <1>10, <1>11, <1>12, <1>13, Kinds
       DEF Silent, Failing

\* A connection that is up has no broken event on it.
LEMMA LiveChains ==
    ASSUME InStep, Live
    PROVE  Chain(rbuf, Taken, FALSE) /\ Chain(responses, Received, FALSE)
BY DEF InStep, Chain

LEMMA StepStep ==
    ASSUME ControlInv, SyncInv, [Next]_vars, Pipelined'
    PROVE  StepInv'
<1> USE DEF sessionVars, linkVars, faultVars, End
<1>q. pc \in {"idle", "connect"} => Quiet
    BY DEF SyncInv, QuietInv
<1>l. ~Live => requests = <<>> /\ serving = <<>>
    BY DEF ControlInv, LinkInv
<1>s. pc \in {"send", "receive"} => Exhausted \/ InStep
    BY DEF SyncInv, StepInv
<1>n. /\ Len(requests) \in Nat /\ Len(serving) \in Nat /\ Len(responses) \in Nat
      /\ Len(rbuf) \in Nat /\ Len(played) \in Nat
      /\ nseg \in Nat /\ sent \in Nat /\ stops \in Nat
    BY Lengths
<1>1. CASE Exhausted'
    BY <1>1 DEF StepInv
<1>2. CASE InStep'
    BY <1>2 DEF StepInv
<1>3. CASE pc' \notin {"send", "receive"}
    BY <1>3 DEF StepInv
<1>4. CASE Reuse \/ Connect
    <2>1. Quiet /\ Len(<<>>) = 0
        BY <1>4, <1>q, EmptySeq DEF Reuse, Connect
    <2>2. /\ rbuf' = <<>> /\ responses' = <<>> /\ serving' = <<>> /\ requests' = <<>>
          /\ sent' = 0 /\ pc' = "send"
        BY <1>4, <2>1 DEF Reuse, Connect, Quiet
    <2>3. Taken' = 0 /\ Received' = 0 /\ OnTheWay' = 0 /\ Due' = 0
        BY <2>1, <2>2 DEF Taken, Received, OnTheWay, Due
    <2>4. Chain(rbuf', Taken', responses' = <<>> /\ ~Live')
        BY <2>1, <2>2 DEF Chain
    <2>5. Chain(responses', Received', ~Live')
        BY <2>1, <2>2 DEF Chain
    <2>6. Chain(serving', OnTheWay', FALSE) /\ Line(requests', Due')
        BY <2>1, <2>2 DEF Chain, Line
    <2>7. Due' + 2 * Len(requests') = 2 * sent'
        BY <2>1, <2>2, <2>3
    <2>8. InStep'
        BY <2>2, <2>3, <2>4, <2>5, <2>6, <2>7, InStepPrimed
    <2> QED BY <1>2, <2>8
<1>5. CASE SendToServer
    <2>1. /\ pc = "send" /\ Live /\ Live' /\ InStep /\ played = <<>> /\ rbuf = <<>>
          /\ UNCHANGED <<serving, responses, rbuf, played>> /\ sent' = sent + 1
          /\ requests' = Append(requests, Request(sent + 1)) /\ stops' = 0
          /\ sent < nseg /\ nseg \in 1..MaxChunks
        BY <1>5, <1>s
           DEF SendToServer, AfterSend, Live, Exhausted, ControlInv, CountInv
    <2>2. Taken = 0 /\ Taken' = 0 /\ Len(played') = 0
        BY <2>1, EmptySeq DEF Taken
    <2>3. Received' = Received /\ OnTheWay' = OnTheWay /\ Due' = Due
        BY <2>1, <2>2 DEF Received, OnTheWay, Due
    <2>4. Chain(rbuf', Taken', FALSE) /\ Chain(responses', Received', FALSE)
        BY <2>1, <2>2, <2>3, LiveChains
    <2>5. Chain(serving', OnTheWay', FALSE) /\ Line(requests, Due)
          /\ Due + 2 * Len(requests) = 2 * sent
        BY <2>1, <2>3 DEF InStep
    <2>6. Line(requests', Due') /\ Len(requests') = Len(requests) + 1
        <3> DEFINE e == Request(sent + 1)
                   R == [own : BOOLEAN, chunk : 1..MaxChunks]
        <3>1. e \in R /\ e.own = TRUE /\ e.chunk = sent + 1
            BY <1>n, <2>1 DEF Request
        <3>2. requests \in Seq(R) /\ Due \in Nat
            BY Lengths
        <3> HIDE DEF e, R
        <3>3. 2 * e.chunk = Due + 2 * (Len(requests) + 1)
            BY <1>n, <2>5, <3>1, <3>2
        <3>4. Line(Append(requests, e), Due)
            BY <2>5, <3>1, <3>2, <3>3, LineAppend
        <3>5. Len(Append(requests, e)) = Len(requests) + 1
            BY <3>1, <3>2, AppendProperties
        <3> QED BY <2>1, <2>3, <3>4, <3>5 DEF e
    <2>7. Due' + 2 * Len(requests') = 2 * sent'
        <3>1. Due \in Nat
            BY Lengths
        <3> QED BY <1>n, <2>1, <2>3, <2>5, <2>6, <3>1
    <2>8. InStep'
        BY <2>1, <2>2, <2>3, <2>4, <2>5, <2>6, <2>7 DEF InStep, Chain, Line
    <2> QED BY <1>2, <2>8
<1>6. CASE SendIntoVoid
    <2>1. /\ pc = "send" /\ ~Live /\ ~Live' /\ played = <<>>
          /\ UNCHANGED <<requests, serving, responses, rbuf, played>> /\ sent' = sent + 1
          /\ stops' = 0
        BY <1>6 DEF SendIntoVoid, AfterSend, Live, ControlInv, CountInv
    <2>2. CASE Exhausted
        BY <1>1, <2>1, <2>2 DEF Exhausted
    <2>3. CASE InStep
        <3>1. Taken = 0 /\ Taken' = 0 /\ Len(played') = 0
            BY <2>1, EmptySeq DEF Taken
        <3>2. Received' = Received /\ OnTheWay' = OnTheWay /\ Due' = Due
            BY <2>1, <3>1 DEF Received, OnTheWay, Due
        <3>3. Due + 2 * Len(requests) <= 2 * sent /\ Due \in Nat
            BY <2>3, Lengths DEF InStep
        <3>4. Due' + 2 * Len(requests') <= 2 * sent'
            BY <1>n, <2>1, <3>2, <3>3
        <3>5. InStep'
            BY <2>1, <2>3, <3>1, <3>2, <3>4 DEF InStep
        <3> QED BY <1>2, <3>5
    <2> QED BY <1>s, <2>1, <2>2, <2>3
<1>7. CASE Fill
    <2>1. PICK n \in 1..Len(responses) :
             /\ rbuf' = SubSeq(responses, 1, n)
             /\ responses' = SubSeq(responses, n + 1, Len(responses))
        BY <1>7 DEF Fill
    <2>2. /\ pc = "receive" /\ rbuf = <<>> /\ Len(rbuf) = 0
          /\ UNCHANGED <<pc, link, requests, serving, played, stops, sent>>
        BY <1>7, EmptySeq DEF Fill
    <2>3. InStep
        BY <1>n, <1>s, <2>1, <2>2, EmptySeq DEF Exhausted
    <2>4. n \in Nat /\ Len(rbuf') = n /\ Len(responses') = Len(responses) - n
        BY <1>n, <2>1, Lengths, SplitFacts
    <2>5. Taken' = Taken /\ Taken \in Nat
        BY <2>2, Lengths DEF Taken
    <2>6. Received = Taken /\ Received' = Taken + n /\ OnTheWay' = OnTheWay /\ Due' = Due
        BY <1>n, <2>2, <2>4, <2>5 DEF Received, OnTheWay, Due
    <2>7. Chain(rbuf', Taken, responses' = <<>> /\ ~Live) /\ Chain(responses', Taken + n, ~Live)
        <3>1. Chain(responses, Taken, ~Live)
            BY <2>3, <2>6 DEF InStep
        <3>2. responses \in Seq(Event)
            BY Lengths
        <3> QED BY <2>1, <2>5, <3>1, <3>2, ChainSplit
    <2>8. InStep'
        BY <2>2, <2>3, <2>5, <2>6, <2>7 DEF InStep, Live
    <2> QED BY <1>2, <2>8
<1>8. CASE TakeAudio
    <2>1. /\ pc = "receive" /\ rbuf # <<>> /\ rbuf' = Tail(rbuf)
          /\ UNCHANGED <<pc, link, requests, serving, responses, stops, sent>>
          /\ played' = Append(played, Head(rbuf))
        BY <1>8 DEF TakeAudio, Parsing
    <2>2. /\ InStep /\ Taken = stops + Len(played) /\ Head(rbuf) \in Event
          /\ Chain(rbuf', Taken + 1, responses = <<>> /\ ~Live)
          /\ Len(rbuf') = Len(rbuf) - 1
        BY <2>1, NextEvent
    <2>3. Len(played') = Len(played) + 1 /\ Len(played) = stops
        BY <1>8, <2>1, <2>2, NextAudio, Lengths, AppendProperties
    <2>4. Taken' = Taken + 1
        <3>1. Taken' = stops + Len(played')
            BY <2>1 DEF Taken
        <3>2. stops \in Nat /\ Len(played) \in Nat
            BY Lengths
        <3>3. Taken = stops + Len(played)
            BY <2>2
        <3> QED BY <2>3, <3>1, <3>2, <3>3
    <2>5. Received' = Received /\ OnTheWay' = OnTheWay /\ Due' = Due
        <3>1. Taken \in Nat
            BY Lengths
        <3> QED BY <1>n, <2>1, <2>2, <2>4, <3>1 DEF Received, OnTheWay, Due
    <2>6. InStep'
        BY <1>n, <2>1, <2>2, <2>3, <2>4, <2>5 DEF InStep, Live
    <2> QED BY <1>2, <2>6
<1>9. CASE TakeStop
    <2>1. CASE stops + 1 >= nseg
        BY <1>3, <1>9, <2>1 DEF TakeStop, CountStop
    <2>2. CASE ~(stops + 1 >= nseg)
        <3>1. /\ pc = "receive" /\ rbuf # <<>> /\ rbuf' = Tail(rbuf)
              /\ UNCHANGED <<pc, link, requests, serving, responses, played, sent>>
              /\ stops' = stops + 1
            BY <1>9, <2>2 DEF TakeStop, CountStop, Parsing
        <3>2. /\ InStep /\ Taken = stops + Len(played)
              /\ Chain(rbuf', Taken + 1, responses = <<>> /\ ~Live)
              /\ Len(rbuf') = Len(rbuf) - 1
            BY <3>1, NextEvent
        <3>3. Len(played) = stops + 1
            BY <1>9, NextStop
        <3>4. Taken' = Taken + 1
            BY <1>n, <3>1, <3>2 DEF Taken
        <3>5. Received' = Received /\ OnTheWay' = OnTheWay /\ Due' = Due
            <4>1. Taken \in Nat
                BY Lengths
            <4> QED BY <1>n, <3>1, <3>2, <3>4, <4>1 DEF Received, OnTheWay, Due
        <3>6. InStep'
            BY <1>n, <3>1, <3>2, <3>3, <3>4, <3>5 DEF InStep, Live
        <3> QED BY <1>2, <3>6
    <2> QED BY <2>1, <2>2
<1>10. CASE TakeCut
    <2>1. Tail(rbuf) = <<>> /\ responses = <<>> /\ ~Live
        BY <1>10, NextBroken
    <2>2. rbuf' = <<>> /\ responses' = <<>> /\ (link' = link \/ link' = "none")
        BY <1>10, <2>1 DEF TakeCut, RecvFails, Disconnect
    <2> QED BY <1>1, <2>1, <2>2 DEF Exhausted, Live
<1>11. CASE ServerReads
    <2>1. /\ link = "up" /\ serving = <<>> /\ Len(serving) = 0 /\ requests # <<>>
          /\ requests' = Tail(requests)
          /\ UNCHANGED <<pc, link, responses, rbuf, stops, played, sent>>
        BY <1>11, EmptySeq DEF ServerReads
    <2>2. InStep /\ Live /\ Live'
        BY <1>q, <1>s, <2>1 DEF Quiet, Exhausted, Live, ControlInv, TypeOK
    <2> DEFINE c == Head(requests).chunk
    <2>3. /\ Head(requests).own = TRUE /\ 2 * c = Due + 2
          /\ Line(Tail(requests), Due + 2)
          /\ Due \in Nat /\ Len(Tail(requests)) = Len(requests) - 1
          /\ c \in Nat
        <3>1. Line(requests, Due)
            BY <2>2 DEF InStep
        <3>2. requests \in Seq([own : BOOLEAN, chunk : 1..MaxChunks]) /\ Due \in Nat
            BY Lengths
        <3>3. /\ Head(requests).own = TRUE /\ 2 * Head(requests).chunk = Due + 2
              /\ Line(Tail(requests), Due + 2)
            BY <2>1, <3>1, <3>2, LineTail
        <3>4. /\ Head(requests) \in [own : BOOLEAN, chunk : 1..MaxChunks]
              /\ Len(Tail(requests)) = Len(requests) - 1
            BY <2>1, <3>2, TailFacts
        <3>5. Head(requests).chunk \in Nat
            BY <3>4
        <3> QED BY <3>2, <3>3, <3>4, <3>5
    <2>4. serving' = <<Audio(TRUE, c), Stop(TRUE, c)>>
        BY <1>11, <2>3 DEF ServerReads
    <2> HIDE DEF c
    <2>5. /\ Taken' = Taken /\ Received' = Received /\ OnTheWay' = OnTheWay
          /\ OnTheWay = Due /\ Due' = Due + 2
        <3>1. Taken' = Taken
            BY <2>1 DEF Taken
        <3>2. Len(serving') = 2 /\ OnTheWay \in Nat
            BY <2>4, Lengths
        <3> QED BY <2>1, <3>1, <3>2 DEF Received, OnTheWay, Due
    <2>6. Chain(serving', OnTheWay', FALSE)
        <3>1. /\ Len(serving') = 2
              /\ serving'[1] = Audio(TRUE, c) /\ serving'[2] = Stop(TRUE, c)
            BY <2>4
        <3>2. IsEvent(serving'[1], OnTheWay' + 1) /\ IsEvent(serving'[2], OnTheWay' + 2)
            BY <2>3, <2>5, <3>1 DEF IsEvent, Audio, Stop
        <3>3. ASSUME NEW i \in 1..Len(serving') PROVE IsEvent(serving'[i], OnTheWay' + i)
            <4>1. i = 1 \/ i = 2
                BY <3>1
            <4> QED BY <3>2, <4>1
        <3> QED BY <3>3 DEF Chain
    <2>7. Due' + 2 * Len(requests') = 2 * sent'
        <3>1. Due + 2 * Len(requests) = 2 * sent
            BY <2>2 DEF InStep
        <3> QED BY <1>n, <2>1, <2>3, <2>5, <3>1
    <2>8. InStep'
        BY <1>n, <2>1, <2>2, <2>3, <2>5, <2>6, <2>7 DEF InStep
    <2> QED BY <1>2, <2>8
<1>12. CASE ServerSends
    <2>1. /\ link = "up" /\ serving # <<>> /\ serving' = Tail(serving)
          /\ responses' = Append(responses, Head(serving))
          /\ UNCHANGED <<pc, link, requests, rbuf, stops, played, sent>>
        BY <1>12 DEF ServerSends
    <2>2. InStep /\ Live /\ Live'
        BY <1>q, <1>s, <2>1 DEF Quiet, Exhausted, Live, ControlInv, TypeOK
    <2>3. /\ Head(serving) \in Event /\ Len(serving) >= 1 /\ Len(serving') = Len(serving) - 1
          /\ Len(responses') = Len(responses) + 1
        BY <1>n, <2>1, Lengths, TailFacts, AppendProperties
    <2>4. /\ Taken' = Taken /\ Received' = Received /\ Received \in Nat
          /\ OnTheWay = Received + Len(responses) /\ OnTheWay' = OnTheWay + 1 /\ Due' = Due
        <3>1. Taken' = Taken /\ Taken \in Nat
            BY <2>1, Lengths DEF Taken
        <3> QED BY <1>n, <2>1, <2>3, <3>1 DEF Received, OnTheWay, Due
    <2>5. IsEvent(Head(serving), OnTheWay + 1) /\ Chain(serving', OnTheWay + 1, FALSE)
        <3>1. Chain(serving, OnTheWay, FALSE) /\ serving \in Seq(Event) /\ OnTheWay \in Nat
            BY <2>2, Lengths DEF InStep
        <3> QED BY <2>1, <3>1, ChainHead, ChainTail
    <2>6. Chain(responses', Received, FALSE)
        <3>1. Chain(responses, Received, FALSE) /\ responses \in Seq(Event)
            BY <2>2, LiveChains, Lengths
        <3> QED BY <2>1, <2>3, <2>4, <2>5, <3>1, ChainAppend
    <2>7. Chain(rbuf', Taken', FALSE)
        BY <2>1, <2>2, <2>4, LiveChains
    <2>8. InStep'
        BY <2>1, <2>2, <2>4, <2>5, <2>6, <2>7 DEF InStep, Chain
    <2> QED BY <1>2, <2>8
<1>13. CASE ServerCloses
    <2>1. /\ link = "up" /\ link' = "fin" /\ serving' = <<>> /\ requests' = <<>>
          /\ UNCHANGED <<pc, responses, rbuf, stops, played, sent>>
        BY <1>13 DEF ServerCloses
    <2>2. CASE pc \in {"send", "receive"}
        <3>1. InStep /\ Live /\ ~Live'
            BY <1>s, <2>1, <2>2 DEF Exhausted, Live
        <3>2. Taken' = Taken /\ Received' = Received /\ OnTheWay' = OnTheWay
            BY <2>1 DEF Taken, Received, OnTheWay
        <3>3. Len(serving') = 0 /\ Len(requests') = 0
            BY <2>1, EmptySeq
        <3>4. Due' + 2 * Len(requests') <= 2 * sent'
            <4>1. Due + 2 * Len(requests) <= 2 * sent /\ OnTheWay \in Nat
                BY <3>1, Lengths DEF InStep
            <4> QED BY <1>n, <2>1, <3>2, <3>3, <4>1 DEF Due
        <3>5. Chain(rbuf', Taken', FALSE) /\ Chain(responses', Received', FALSE)
            BY <2>1, <3>1, <3>2, LiveChains
        <3>6. InStep'
            BY <2>1, <3>1, <3>3, <3>4, <3>5 DEF InStep, Chain, Line
        <3> QED BY <1>2, <3>6
    <2> QED BY <1>3, <2>1, <2>2
<1>14. CASE ServerCut
    <2>1. /\ link = "up" /\ link' = "fin" /\ serving # <<>> /\ serving' = <<>> /\ requests' = <<>>
          /\ UNCHANGED <<pc, rbuf, stops, played, sent>>
          /\ \E k \in {"torn", "cut"} : responses' = Append(responses, Partial(k))
        BY <1>14 DEF ServerCut
    <2>2. InStep /\ Live /\ ~Live'
        BY <1>q, <1>s, <2>1 DEF Quiet, Exhausted, Live, ControlInv, TypeOK
    <2>3. PICK k \in {"torn", "cut"} : responses' = Append(responses, Partial(k))
        BY <2>1
    <2>4. Partial(k) \in Event /\ Broken(Partial(k))
        BY <2>3 DEF Partial, Event, Broken
    <2>5. /\ Len(responses') = Len(responses) + 1 /\ Len(serving) >= 1
          /\ Len(serving') = 0 /\ Len(requests') = 0
        <3>1. Len(responses') = Len(responses) + 1
            BY <2>3, <2>4, Lengths, AppendProperties
        <3>2. Len(serving) >= 1
            BY <2>1, Lengths, TailFacts
        <3> QED BY <2>1, <3>1, <3>2, EmptySeq
    <2>6. Taken' = Taken /\ Received' = Received /\ OnTheWay' = OnTheWay + 1
        <3>1. Taken' = Taken /\ Received' = Received
            BY <2>1 DEF Taken, Received
        <3> QED BY <1>n, <2>5, <3>1, Lengths DEF OnTheWay
    <2>7. Due' + 2 * Len(requests') <= 2 * sent'
        <3>1. Due + 2 * Len(requests) <= 2 * sent /\ OnTheWay \in Nat
            BY <2>2, Lengths DEF InStep
        <3> QED BY <1>n, <2>1, <2>5, <2>6, <3>1 DEF Due
    <2>8. Chain(responses', Received, TRUE)
        <3>1. Chain(responses, Received, FALSE) /\ responses \in Seq(Event) /\ Received \in Nat
            BY <2>2, LiveChains, Lengths
        <3> QED BY <2>3, <2>4, <3>1, ChainAppend
    <2>9. Chain(rbuf', Taken', FALSE)
        BY <2>1, <2>2, <2>6, LiveChains
    <2>10. InStep'
        BY <2>1, <2>2, <2>5, <2>6, <2>7, <2>8, <2>9 DEF InStep, Chain, Line
    <2> QED BY <1>2, <2>10
<1>15. CASE ServerHangs
    <2>1. /\ Live /\ Live'
          /\ UNCHANGED <<pc, requests, serving, responses, rbuf, stops, played, sent>>
        BY <1>15 DEF ServerHangs, Live
    <2>2. CASE pc \in {"send", "receive"}
        <3>1. InStep
            BY <1>s, <2>1, <2>2 DEF Exhausted
        <3>2. Taken' = Taken /\ Received' = Received /\ OnTheWay' = OnTheWay /\ Due' = Due
            BY <2>1 DEF Taken, Received, OnTheWay, Due
        <3>3. InStep'
            BY <2>1, <3>1, <3>2 DEF InStep
        <3> QED BY <1>2, <3>3
    <2> QED BY <1>3, <2>1, <2>2
<1>16. CASE LinkReset \/ ResetArrives
    <2>1. /\ ~Live' /\ responses' = <<>>
          /\ serving' \in {<<>>, serving} /\ requests' \in {<<>>, requests}
          /\ UNCHANGED <<pc, rbuf, stops, played, sent>>
        BY <1>16 DEF LinkReset, ResetArrives, Live
    <2>2. serving' = <<>> /\ requests' = <<>>
        BY <1>16, <1>l DEF LinkReset, ResetArrives, Live
    <2>3. CASE pc \in {"send", "receive"} /\ InStep
        <3>1. Taken' = Taken /\ Received' = Received
            BY <2>1 DEF Taken, Received
        <3>2. Len(serving') = 0 /\ Len(requests') = 0 /\ Len(responses') = 0
            BY <2>1, <2>2, EmptySeq
        <3>3. Due' + 2 * Len(requests') <= 2 * sent'
            <4>1. Due + 2 * Len(requests) <= 2 * sent /\ Received \in Nat
                BY <2>3, Lengths DEF InStep
            <4> QED BY <1>n, <2>1, <3>1, <3>2, <4>1 DEF OnTheWay, Due
        <3>4. Chain(rbuf', Taken', TRUE)
            BY <2>1, <2>3, <3>1 DEF InStep, Chain
        <3>5. InStep'
            BY <2>1, <2>2, <2>3, <3>2, <3>3, <3>4 DEF InStep, Chain, Line
        <3> QED BY <1>2, <3>5
    <2>4. CASE Exhausted
        BY <1>1, <2>1, <2>4 DEF Exhausted
    <2> QED BY <1>3, <1>s, <2>1, <2>3, <2>4
<1>17. CASE UNCHANGED vars
    BY <1>17, <1>s
       DEF vars, StepInv, Exhausted, InStep, Taken, Received, OnTheWay, Due, Live
<1>18. CASE RecvDrip
    BY <1>17, <1>18 DEF RecvDrip
<1>19. CASE Failing
    BY <1>3, <1>19
       DEF Failing, SendFails, SendNoMemory, ConnectFails, TakeTorn, PeerClosed, RecvReset,
           RecvTimeout, RecvFails
<1>20. CASE \E n \in 1..MaxChunks : Say(n)
    BY <1>3, <1>20 DEF Say
<1> QED BY <1>4, <1>5, <1>6, <1>7, <1>8, <1>9, <1>10, <1>11, <1>12, <1>13, <1>14, <1>15,
       <1>16, <1>17, <1>18, <1>19, <1>20, Kinds DEF Silent

LEMMA Init_IInv == Init => IInv
<1> SUFFICES ASSUME Init PROVE IInv
    OBVIOUS
<1>1. Quiet /\ pc = "idle" /\ played = <<>> /\ outcome = "none"
    BY DEF Init, Quiet
<1>2. OwnAudio
    BY <1>1, EmptySeq DEF OwnAudio
<1> QED BY <1>1, <1>2, ControlInit, CutInit
       DEF IInv, SyncInv, QuietInv, StepInv, SpokenWhole

LEMMA Next_IInv == IInv /\ [Next]_vars => IInv'
<1> SUFFICES ASSUME IInv, [Next]_vars PROVE IInv'
    OBVIOUS
<1>1. ControlInv' /\ CutInv'
    BY ControlStep, CutStep DEF IInv
<1>2. ASSUME Pipelined' PROVE SyncInv'
    <2>1. Pipelined
        BY <1>2, StruckGrows DEF Pipelined
    <2>2. ControlInv /\ CutInv /\ SyncInv
        BY <2>1 DEF IInv
    <2> QED BY <1>2, <2>2, QuietStep, StepStep, OwnAudioStep, SpokenStep DEF SyncInv
<1> QED BY <1>1, <1>2 DEF IInv

-----------------------------------------------------------------------------
(* The theorems.                                                           *)

\* Nothing that the server, the link or the retry does breaks the numbering of
\* requests and answers.
THEOREM InductiveInvariant == Spec => []IInv
BY Init_IInv, Next_IInv, PTL DEF Spec

\* An utterance plays its own audio, chunk by chunk and in order, and never
\* what an earlier one left on the held connection.
THEOREM OwnAudioOnly == Spec => []PlaysOwnAudio
<1>1. IInv => PlaysOwnAudio
    BY DEF IInv, SyncInv, PlaysOwnAudio
<1> QED BY <1>1, InductiveInvariant, PTL

\* nw_session_say reports success only if every chunk was played.
THEOREM SuccessIsComplete == Spec => []SuccessMeansComplete
<1>1. IInv => SuccessMeansComplete
    BY DEF IInv, SyncInv, SuccessMeansComplete
<1> QED BY <1>1, InductiveInvariant, PTL

\* Between utterances a usable held connection has nothing under way on it.
THEOREM HeldLinkQuiet == Spec => []HeldLinkIsQuiet
<1>1. IInv => HeldLinkIsQuiet
    BY DEF IInv, SyncInv, QuietInv, Quiet, HeldLinkIsQuiet
<1> QED BY <1>1, InductiveInvariant, PTL

-----------------------------------------------------------------------------
(* nw_session_say implements SpeechService.                                *)

Sound == Pipelined /\ Terminated

\* What SpeechService sees of the session.
Said == [i \in DOMAIN played |-> IF played[i].own THEN played[i].chunk ELSE 0]
Result == IF pc # "idle" THEN "pending"
          ELSE IF outcome \in {"none", "ok"} THEN outcome ELSE "failed"

\* The chunks of the first n answers, in order.
Counted(n) == [i \in 1..n |-> i]

LEMMA CountedFacts ==
    ASSUME NEW n \in Nat
    PROVE  /\ Counted(n) \in Seq(Nat) /\ Len(Counted(n)) = n
           /\ Counted(n + 1) = Append(Counted(n), n + 1)
<1>1. ASSUME NEW m \in Nat
      PROVE  Counted(m) \in Seq(Nat) /\ Len(Counted(m)) = m
    <2>1. Counted(m) \in [1..m -> Nat]
        BY DEF Counted
    <2>2. Counted(m) \in Seq(Nat)
        BY <2>1, SeqDef
    <2>3. DOMAIN Counted(m) = 1..Len(Counted(m)) /\ Len(Counted(m)) \in Nat
        BY <2>2, LenProperties
    <2>4. DOMAIN Counted(m) = 1..m
        BY <2>1
    <2> DEFINE k == Len(Counted(m))
    <2> HIDE DEF k
    <2>5. 1..k = 1..m /\ k \in Nat
        BY <2>3, <2>4 DEF k
    <2>6. k = m
        BY <2>5
    <2> QED BY <2>2, <2>6 DEF k
<1> DEFINE s == Counted(n + 1)
           t == Append(Counted(n), n + 1)
<1>2. s \in Seq(Nat) /\ Len(s) = n + 1
    BY <1>1
<1>3. /\ t \in Seq(Nat) /\ Len(t) = n + 1 /\ t[n + 1] = n + 1
      /\ \A i \in 1..n : t[i] = Counted(n)[i]
    <2>1. Counted(n) \in Seq(Nat) /\ Len(Counted(n)) = n /\ n + 1 \in Nat
        BY <1>1
    <2> QED BY <2>1, AppendProperties
<1>4. ASSUME NEW i \in 1..(n + 1) PROVE s[i] = t[i]
    <2>1. s[i] = i
        BY DEF Counted
    <2>2. CASE i = n + 1
        BY <1>3, <2>1, <2>2
    <2>3. CASE i # n + 1
        <3>1. i \in 1..n
            BY <2>3
        <3>2. Counted(n)[i] = i
            BY <3>1 DEF Counted
        <3> HIDE DEF s, t
        <3> QED BY <1>3, <2>1, <3>1, <3>2
    <2> QED BY <2>2, <2>3
<1> HIDE DEF s, t
<1>5. s = t
    BY <1>2, <1>3, <1>4, SeqEqual
<1> QED BY <1>1, <1>5 DEF s, t

LEMMA SaidFacts ==
    ASSUME NEW s \in Seq(Event), \A i \in 1..Len(s) : s[i] = Audio(TRUE, i)
    PROVE  [i \in DOMAIN s |-> IF s[i].own THEN s[i].chunk ELSE 0] = Counted(Len(s))
<1>1. DOMAIN s = 1..Len(s)
    BY LenProperties
<1>2. ASSUME NEW i \in 1..Len(s) PROVE (IF s[i].own THEN s[i].chunk ELSE 0) = i
    <2>1. s[i] = Audio(TRUE, i)
        OBVIOUS
    <2>2. s[i].own = TRUE /\ s[i].chunk = i
        BY <2>1 DEF Audio
    <2> QED BY <2>2
<1> QED BY <1>1, <1>2 DEF Counted

LEMMA SpeechStep ==
    ASSUME IInv, IInv', [Next]_vars
    PROVE  [Speech!Next]_(Speech!vars)
<1>0. CASE ~Sound'
    BY <1>0 DEF Speech!Next, Speech!Lost, Sound
<1> SUFFICES ASSUME Sound' PROVE [Speech!Next]_(Speech!vars)
    BY <1>0
<1>i. ControlInv /\ CutInv /\ SyncInv /\ ControlInv' /\ SyncInv' /\ Sound /\ Terminated /\ Pipelined
    BY StruckGrows DEF IInv, Sound, Pipelined, Terminated
<1>p. /\ [Speech!Next]_(Speech!vars) <=>
           \/ /\ \/ /\ Result = "pending" /\ Len(Said) < nseg
                    /\ Said' = Append(Said, Len(Said) + 1) /\ UNCHANGED <<nseg, Result>>
                 \/ /\ Result = "pending" /\ Len(Said) = nseg
                    /\ Result' = "ok" /\ UNCHANGED <<nseg, Said>>
                 \/ Result = "pending" /\ Result' = "failed" /\ UNCHANGED <<nseg, Said>>
                 \/ \E n \in 1..MaxChunks :
                       /\ Result # "pending"
                       /\ nseg' = n /\ Said' = <<>> /\ Result' = "pending"
              /\ UNCHANGED Sound
           \/ Sound' = FALSE
           \/ UNCHANGED <<nseg, Said, Result, Sound>>
    BY DEF Speech!Next, Speech!Promised, Speech!Say, Speech!Succeed, Speech!Fail, Speech!Ask,
           Speech!Lost, Speech!vars, Said, Result, Sound
<1>s. /\ Said = Counted(Len(played)) /\ Said' = Counted(Len(played'))
      /\ Len(played) \in Nat /\ Len(Said) = Len(played)
    <2>1. played \in Seq(Event) /\ played' \in Seq(Event)
        BY <1>i DEF ControlInv, TypeOK
    <2>2. /\ \A i \in 1..Len(played) : played[i] = Audio(TRUE, i)
          /\ \A i \in 1..Len(played') : played'[i] = Audio(TRUE, i)
        BY <1>i DEF SyncInv, OwnAudio
    <2>3. Said = Counted(Len(played)) /\ Said' = Counted(Len(played'))
        BY <2>1, <2>2, SaidFacts DEF Said
    <2> QED BY <2>1, <2>3, LenProperties, CountedFacts
<1>1. CASE Silent
    <2>1. UNCHANGED <<nseg, played, outcome>>
        BY <1>1, SilentFacts
    <2>2. pc = "idle" <=> pc' = "idle"
        BY <1>1, <1>i
           DEF Silent, vars, sessionVars, linkVars, faultVars, Reuse, Connect, SendToServer,
               SendIntoVoid, AfterSend, Fill, RecvDrip, Nothing, ServerReads, ServerSends,
               ServerCloses, ServerCut, ServerHangs, LinkReset, ResetArrives
    <2> QED BY <1>i, <1>p, <2>1, <2>2 DEF Said, Result
<1>2. CASE Failing
    <2>1. UNCHANGED <<nseg, played>>
        BY <1>2, <1>i, FailingFacts
    <2>2. pc # "idle" /\ (\/ pc' = "idle" /\ outcome' \notin {"none", "ok"}
                         \/ pc' = "connect")
        BY <1>2
           DEF Failing, SendFails, SendNoMemory, ConnectFails, TakeTorn, PeerClosed, RecvReset,
               RecvTimeout, RecvFails, End, Parsing, Nothing
    <2>3. Result = "pending" /\ Result' \in {"pending", "failed"}
        BY <2>2 DEF Result
    <2>4. Said' = Said /\ nseg' = nseg /\ Sound' = Sound
        BY <1>i, <2>1 DEF Said
    <2> QED BY <1>p, <2>3, <2>4
<1>3. CASE TakeAudio
    <2>1. /\ Result = "pending" /\ Result' = "pending" /\ nseg' = nseg
          /\ played' = Append(played, Head(rbuf)) /\ Head(rbuf) \in Event
        BY <1>3, <1>i, NextEvent DEF TakeAudio, Parsing, Result
    <2>2. Len(played) < nseg /\ Len(played') = Len(played) + 1 /\ Len(played) \in Nat
        BY <1>3, <1>i, <2>1, NextAudio, Lengths, AppendProperties
    <2>3. Said' = Append(Said, Len(Said) + 1)
        BY <1>s, <2>2, CountedFacts
    <2> QED BY <1>i, <1>p, <1>s, <2>1, <2>2, <2>3
<1>4. CASE TakeStop
    <2>1. /\ Result = "pending" /\ nseg' = nseg /\ played' = played /\ Said' = Said
          /\ \/ stops + 1 >= nseg /\ Result' = "ok"
             \/ Result' = "pending"
        BY <1>4 DEF TakeStop, CountStop, Parsing, Result, Said, End
    <2>2. CASE stops + 1 >= nseg /\ Result' = "ok"
        <3>1. Len(Said) = nseg
            BY <1>4, <1>i, <1>s, <2>2, NextStop
        <3> QED BY <1>i, <1>p, <2>1, <2>2, <3>1
    <2>3. CASE Result' = "pending"
        BY <1>i, <1>p, <2>1, <2>3
    <2> QED BY <2>1, <2>2, <2>3
<1>5. ~TakeCut
    <2> SUFFICES ASSUME TakeCut PROVE FALSE
        OBVIOUS
    <2>1. rbuf \in Seq(Event) /\ rbuf # <<>> /\ Head(rbuf).kind = "cut"
        BY <1>i, Lengths DEF TakeCut, Parsing
    <2> QED BY <1>i, <2>1, UncutFacts DEF CutInv
<1>6. ASSUME NEW n \in 1..MaxChunks, Say(n) PROVE [Speech!Next]_(Speech!vars)
    <2>1. Result # "pending" /\ nseg' = n /\ Result' = "pending" /\ played' = <<>>
        BY <1>6 DEF Say, Result
    <2>2. Said' = <<>>
        BY <2>1 DEF Said
    <2> QED BY <1>i, <1>p, <2>1, <2>2
<1> QED BY <1>1, <1>2, <1>3, <1>4, <1>5, <1>6, Kinds

\* The session implements SpeechService: it says the chunks of an utterance in
\* order and reports a success only when all of them were said, whatever the
\* server, the link and the retry do.
THEOREM SpeechIsImplemented == Spec => ImplementsSpeech
<1>1. Init => Speech!Init
    BY DEF Init, Speech!Init, Pipelined, Terminated
<1>2. IInv /\ IInv' /\ [Next]_vars => [Speech!Next]_(Speech!vars)
    BY SpeechStep
<1> QED BY <1>1, <1>2, InductiveInvariant, PTL DEF Spec, ImplementsSpeech, Speech!Spec
=============================================================================
