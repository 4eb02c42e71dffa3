------------------------- MODULE AhiPlaybackProofs -------------------------
(***************************************************************************)
(* Theorems about AhiPlayback for a buffer of any size, payloads of any    *)
(* length and any interleaving of the device task with AHI: what the       *)
(* buffer holds, what is heard, what the capture file gets, and that no    *)
(* step of ahi_open that fails leaves anything behind.                     *)
(***************************************************************************)
EXTENDS AhiPlayback, SequenceTheorems, TLAPS

-----------------------------------------------------------------------------
(* The inductive invariant.                                                *)

\* What AHI holds at each place of the code.
HeldInv ==
    /\ pc = "open" => held = 0
    /\ pc \in {"preroll", "delay", "close"} => held = Len(Resources)
    /\ pc \in {"idle", "header", "payload"} => held \in {0, Len(Resources)}
    /\ prerolled => held = Len(Resources)

\* When an utterance is in the buffer.
RollInv ==
    /\ pc = "delay" => prerolled
    /\ pc = "payload" /\ ahiOpened => prerolled
    /\ pc \in {"idle", "open", "unwind", "close"} => ~prerolled
    /\ ~prerolled => ahiLen = 0 /\ written = <<>> /\ ~ahiPlayStarted

\* ahiLen counts the pre-roll, the bytes stored and, while ahi_drain delays,
\* the silence after them.
LenInv ==
    prerolled => /\ PreRoll + Len(written) <= ahiLen
                 /\ pc # "delay" => ahiLen = PreRoll + Len(written)

\* What is left of the payload still belongs to the utterance.
LeftInv ==
    /\ taken + left <= MaxBytes
    /\ pc = "idle" \/ (pc = "delay" /\ after = "idle") => left = 0

ControlInv == TypeOK /\ HeldInv /\ RollInv /\ LenInv /\ LeftInv /\ RightFormat

\* The capture file is open from its first byte to the end of the utterance.
CaptureInv ==
    /\ pc # "idle" /\ captured # <<>> => captureFh
    /\ CaptureFollowsBuffer

\* recv() cut between samples, so the buffer holds whole ones.
EvenInv == ahiLen % 2 = 0 /\ Len(written) % 2 = 0 /\ taken % 2 = 0

\* The bytes stored are those of the utterance in order, a low one at each odd
\* place and its high one after it.
Samples ==
    /\ \A k \in 1..Len(written) : written[k] <= taken /\ written[k] % 2 = k % 2
    /\ \A k \in 1..Len(written) : k % 2 = 0 => written[k] = written[k - 1] + 1
    /\ \A i, k \in 1..Len(written) : i < k => written[i] < written[k]

\* Where the byte is stored that belongs at place i of the utterance.
Swapped(i) == IF i % 2 = 1 THEN i + 1 ELSE i - 1

HoldsBytes ==
    \A k \in 1..Cap :
        IF k - PreRoll \in 1..Len(written) THEN ahiBuf[k] = written[Swapped(k - PreRoll)]
        ELSE ahiBuf[k] = 0

BufferInv == EvenInv /\ Samples /\ HoldsBytes

\* The sample that ends with the k-th byte stored is still to be played.
Ahead(k) == ~ahiPlayStarted \/ PreRoll + k > 2 * head

\* What was heard came before all that is still to be played.
HeardInv ==
    /\ HeardInOrder
    /\ \A i \in 1..Len(heard) : 2 * heard[i] <= taken
    /\ \A i \in 1..Len(heard), k \in 1..Len(written) :
          k % 2 = 0 /\ Ahead(k) => 2 * heard[i] < written[k]

\* All samples AHI has passed were heard, and ahi_drain waits for the others.
PlayedInv ==
    /\ ahiPlayStarted /\ ~late =>
          \A k \in 1..Len(written) : k % 2 = 0 /\ PreRoll + k <= 2 * head =>
              \E m \in 1..Len(heard) : 2 * heard[m] = written[k]
    /\ pc = "delay" /\ ahiPlayStarted => ahiLen <= 2 * head + 2 * wait

SoundInv == BufferInv /\ HeardInv /\ PlayedInv

-----------------------------------------------------------------------------
(* The operators the handlers are built from.                              *)

LEMMA ResourcesFacts ==
    /\ Len(Resources) = 7 /\ (ahiLoaded <=> held = 7)
    /\ (ahiOpened <=> held >= 4) /\ (ahiAlloced <=> held >= 6)
BY DEF Resources, ahiLoaded, ahiOpened, ahiAlloced

\* What is written never goes past the end of the buffer.
LEMMA FitsFacts ==
    ASSUME ahiLen \in 0..Cap, NEW n \in Nat
    PROVE  /\ Fits(n) \in 0..n /\ ahiLen + Fits(n) \in 0..Cap
           /\ ahiLen = 0 /\ n <= Cap => Fits(n) = n
           /\ ahiLen % 2 = 0 /\ n % 2 = 0 => Fits(n) % 2 = 0
BY PlaybackAssumption DEF Fits

LEMMA HalfFacts ==
    ASSUME NEW m \in Nat
    PROVE  /\ m \div 2 \in Nat /\ 2 * (m \div 2) <= m /\ m <= 2 * (m \div 2) + 1
           /\ m % 2 \in {0, 1} /\ (m % 2 = 0 => m = 2 * (m \div 2))
OBVIOUS

LEMMA PlayTimeFacts ==
    ASSUME NEW len \in 0..Cap
    PROVE  PlayTime(len) \in 0..Cap /\ (len % 2 = 0 => 2 * PlayTime(len) = len)
<1>1. /\ PlayTime(len) \in Nat /\ 2 * PlayTime(len) <= len
      /\ len % 2 = 0 => len = 2 * PlayTime(len)
    BY PlaybackAssumption, HalfFacts DEF PlayTime
<1> QED BY <1>1, PlaybackAssumption

LEMMA BytesFacts ==
    ASSUME taken \in Nat, NEW n \in Nat, taken + n <= MaxBytes
    PROVE  /\ Bytes(n) \in Seq(1..MaxBytes) /\ Len(Bytes(n)) = n
           /\ \A i \in 1..n : Bytes(n)[i] = taken + i
<1>1. Bytes(n) = [i \in 1..n |-> taken + i]
    BY DEF Bytes
<1>2. \A i \in 1..n : taken + i \in 1..MaxBytes
    BY PlaybackAssumption
<1>3. Bytes(n) \in [1..n -> 1..MaxBytes]
    BY <1>1, <1>2
<1>4. Bytes(n) \in Seq(1..MaxBytes)
    BY <1>3, SeqDef
<1>5. Len(Bytes(n)) = n
    <2>1. DOMAIN Bytes(n) = 1..n /\ DOMAIN Bytes(n) = 1..Len(Bytes(n))
        BY <1>3, <1>4, LenProperties
    <2>2. Len(Bytes(n)) \in Nat
        BY <1>4, LenProperties
    <2> QED BY <2>1, <2>2
<1> QED BY <1>1, <1>4, <1>5

\* ahi_start_play sets AHI's position back only when AHI was not playing.
Kick ==
    \/ ahiPlayStarted' = ahiPlayStarted /\ head' = head
    \/ ~ahiPlayStarted /\ ahiPlayStarted' = TRUE /\ head' = 0 /\ held = Len(Resources)

LEMMA KickFacts ==
    ASSUME NEW len
    PROVE  (StartAt(len) => Kick) /\ (ForcePlay => Kick)
BY DEF StartAt, ForcePlay, Kick, ahi_start_play, ahiLoaded

LEMMA KickTyped ==
    ASSUME TypeOK, Kick
    PROVE  ahiPlayStarted' \in BOOLEAN /\ head' \in 0..Cap
<1>1. CASE ahiPlayStarted' = ahiPlayStarted /\ head' = head
    BY <1>1 DEF TypeOK
<1>2. CASE ahiPlayStarted' = TRUE /\ head' = 0
    <2>1. ahiPlayStarted' \in BOOLEAN
        BY <1>2
    <2>2. head' \in 0..Cap
        BY <1>2, PlaybackAssumption
    <2> QED BY <2>1, <2>2
<1> QED BY <1>1, <1>2 DEF Kick

\* ahi_drain either finds nothing to play, or it plays what there is, followed
\* by silence, and waits.
LEMMA DrainFacts ==
    ASSUME ControlInv, pc \in {"header", "payload"}, NEW to, Drain(to)
    PROVE  \/ /\ ~prerolled /\ ahiLen = 0 /\ pc' = to /\ prerolled' = FALSE
              /\ UNCHANGED <<after, wait, ahiPlayStarted, head, ahiLen>>
           \/ /\ prerolled /\ held = Len(Resources) /\ pc' = "delay" /\ after' = to
              /\ prerolled' = prerolled /\ ahiLen' = ahiLen + Fits(PreRoll) /\ Kick
              /\ wait' = IF ahiPlayStarted' THEN PlayTime(ahiLen') ELSE 0
<1>1. held \in {0, Len(Resources)} /\ (~prerolled => ahiLen = 0)
    BY DEF ControlInv, HeldInv, RollInv
<1>2. prerolled => held = Len(Resources) /\ ahiAlloced /\ ahiLen # 0
    <2>1. ASSUME prerolled PROVE ahiLen >= PreRoll + Len(written) /\ Len(written) \in Nat
        BY <2>1, LenProperties DEF ControlInv, LenInv, TypeOK
    <2>2. prerolled => ahiLen # 0
        BY <2>1, PlaybackAssumption DEF ControlInv, TypeOK
    <2> QED BY <2>2, ResourcesFacts DEF ControlInv, HeldInv
<1>3. CASE ~ahiAlloced \/ ahiLen = 0
    BY <1>1, <1>2, <1>3 DEF Drain, ControlInv, TypeOK
<1>4. CASE ~(~ahiAlloced \/ ahiLen = 0)
    <2>1. prerolled
        BY <1>1, <1>4
    <2>2. ForcePlay => Kick
        BY KickFacts
    <2> QED BY <1>2, <1>4, <2>1, <2>2 DEF Drain
<1> QED BY <1>3, <1>4

LEMMA CopyTyped ==
    ASSUME TypeOK, NEW n \in Nat, taken + n <= MaxBytes
    PROVE  copy_swap16(ahiLen, taken, n) \in [1..Cap -> 0..Stale]
<1> SUFFICES ASSUME NEW k \in 1..Cap
             PROVE  LET i == k - ahiLen
                    IN  (IF i \notin 1..2 * (n \div 2) THEN ahiBuf[k]
                         ELSE IF i % 2 = 1 THEN taken + i + 1 ELSE taken + i - 1) \in 0..Stale
    BY DEF copy_swap16
<1> DEFINE i == k - ahiLen
<1>1. /\ Cap \in Nat /\ MaxBytes \in Nat /\ taken \in Nat /\ ahiLen \in Nat /\ i \in Int
      /\ ahiBuf[k] \in 0..Stale /\ Stale = MaxBytes + 1
    BY PlaybackAssumption DEF TypeOK, Stale
<1> HIDE DEF i
<1>2. CASE i \notin 1..2 * (n \div 2)
    <2>1. ahiBuf[k] \in 0..Stale
        BY <1>1
    <2> QED BY <1>2, <2>1 DEF i
<1>3. CASE i \in 1..2 * (n \div 2) /\ i % 2 = 1
    <2>1. taken + i + 1 \in 0..Stale
        BY <1>1, <1>3
    <2> QED BY <1>3, <2>1 DEF i
<1>4. CASE i \in 1..2 * (n \div 2) /\ i % 2 # 1
    <2>1. taken + i - 1 \in 0..Stale
        BY <1>1, <1>4
    <2> QED BY <1>4, <2>1 DEF i
<1> QED BY <1>2, <1>3, <1>4

\* AHI plays a sample that was stored whole, and nothing for silence.
LEMMA SoundsFacts ==
    ASSUME NEW a \in Nat, NEW b \in Nat
    PROVE  /\ a = 0 /\ b = 0 => Sounds(<<a, b>>) = <<>>
           /\ a = b + 1 /\ a % 2 = 0 /\ b > 0 => Sounds(<<a, b>>) = <<a \div 2>>
           /\ ~(a = 0 /\ b = 0) /\ ~(a = b + 1 /\ a % 2 = 0 /\ b > 0) =>
                 Sounds(<<a, b>>) = <<0>>
<1>1. <<a, b>>[1] = a /\ <<a, b>>[2] = b /\ (<<a, b>> = <<0, 0>> <=> a = 0 /\ b = 0)
    OBVIOUS
<1> DEFINE w == <<a, b>>
<1>2. Sounds(w) = CASE w = <<0, 0>> -> <<>>
                    [] w[1] = w[2] + 1 /\ w[1] % 2 = 0 /\ w[2] > 0 -> <<w[1] \div 2>>
                    [] OTHER -> <<0>>
    BY DEF Sounds
<1>3. w[1] = a /\ w[2] = b /\ (w = <<0, 0>> <=> a = 0 /\ b = 0)
    BY <1>1
<1> HIDE DEF w
<1>4. ASSUME a = 0, b = 0 PROVE Sounds(w) = <<>>
    BY <1>2, <1>3, <1>4
<1>5. ASSUME a = b + 1, a % 2 = 0, b > 0 PROVE Sounds(w) = <<a \div 2>>
    BY <1>2, <1>3, <1>5
<1>6. ASSUME ~(a = 0 /\ b = 0), ~(a = b + 1 /\ a % 2 = 0 /\ b > 0) PROVE Sounds(w) = <<0>>
    BY <1>2, <1>3, <1>6
<1> QED BY <1>4, <1>5, <1>6 DEF w

LEMMA PlaceFacts ==
    ASSUME head \in Nat, 2 * head < Cap
    PROVE  2 * head + 1 \in 1..Cap /\ 2 * head + 2 \in 1..Cap
<1>1. Cap \div 2 \in Nat /\ Cap = 2 * (Cap \div 2) /\ Cap \in Nat
    BY PlaybackAssumption, HalfFacts
<1> QED BY <1>1

-----------------------------------------------------------------------------
(* Type correctness, and the control of the receive loop.                  *)

LEMMA ControlInit == Init => ControlInv
<1> SUFFICES ASSUME Init PROVE ControlInv
    OBVIOUS
<1>1. /\ Cap \in Nat /\ MaxPayload \in Nat /\ MaxBytes \in Nat
      /\ Stale = MaxBytes + 1 /\ Len(Resources) = 7
    BY PlaybackAssumption, ResourcesFacts DEF Stale
<1>2. TypeOK
    <2>1. ahiBuf \in [1..Cap -> 0..Stale]
        BY <1>1 DEF Init, Silence
    <2>2. written \in Seq(1..MaxBytes) /\ heard \in Seq(0..MaxBytes) /\ captured \in Seq(1..MaxBytes)
        BY EmptySeq DEF Init
    <2>3. ahiPlayStarted \in BOOLEAN /\ prerolled \in BOOLEAN /\ late \in BOOLEAN /\ captureFh \in BOOLEAN
        BY DEF Init
    <2>4. /\ left \in 0..MaxPayload /\ taken \in 0..MaxBytes /\ held \in 0..Len(Resources)
          /\ ahiLen \in 0..Cap /\ wait \in 0..Cap /\ head \in 0..Cap
        BY <1>1 DEF Init
    <2>5. /\ pc \in {"idle", "header", "open", "unwind", "close", "preroll", "payload", "delay"}
          /\ after \in {"idle", "close"} /\ fmt \in Formats \cup {Unknown}
          /\ ahiFmt \in Formats \cup {Unknown}
        BY DEF Init
    <2> QED BY <2>1, <2>2, <2>3, <2>4, <2>5 DEF TypeOK
<1>3. HeldInv /\ RollInv /\ RightFormat
    BY ResourcesFacts DEF Init, HeldInv, RollInv, RightFormat
<1>4. LenInv
    BY DEF Init, LenInv
<1>5. LeftInv
    BY <1>1 DEF Init, LeftInv
<1> QED BY <1>2, <1>3, <1>4, <1>5 DEF ControlInv

\* What an ahi_write of n bytes does, whether AHI is open or not.
LEMMA TakeFacts ==
    ASSUME ControlInv, NEW n \in 1..MaxPayload, Take(n), ahiOpened
    PROVE  /\ Fits(n) \in 0..n /\ ahiLen + Fits(n) \in 0..Cap /\ taken + n <= MaxBytes
           /\ ahiBuf' = copy_swap16(ahiLen, taken, Fits(n)) /\ ahiLen' = ahiLen + Fits(n)
           /\ Bytes(Fits(n)) \in Seq(1..MaxBytes) /\ Len(Bytes(Fits(n))) = Fits(n)
           /\ \A i \in 1..Fits(n) : Bytes(Fits(n))[i] = taken + i
           /\ written' = written \o Bytes(Fits(n))
           /\ late' = (late \/ (Fits(n) > 0 /\ ahiPlayStarted /\ 2 * head > ahiLen))
           /\ IF Fits(n) > 0 THEN Capture(n) ELSE UNCHANGED captureVars
           /\ Kick
<1>1. n \in Nat /\ taken \in Nat /\ left \in Nat /\ ahiLen \in 0..Cap /\ taken + n <= MaxBytes
    BY PlaybackAssumption DEF ControlInv, TypeOK, LeftInv, Take
<1>2. Fits(n) \in 0..n /\ ahiLen + Fits(n) \in 0..Cap
    BY <1>1, FitsFacts
<1>3. Fits(n) \in Nat /\ taken + Fits(n) <= MaxBytes
    BY <1>1, <1>2, PlaybackAssumption
<1>4. /\ Bytes(Fits(n)) \in Seq(1..MaxBytes) /\ Len(Bytes(Fits(n))) = Fits(n)
      /\ \A i \in 1..Fits(n) : Bytes(Fits(n))[i] = taken + i
    BY <1>1, <1>3, BytesFacts
<1>5. StartAt(ahiLen + Fits(n)) => Kick
    BY KickFacts
<1>6. ahi_write(n)
    BY DEF Take
<1> QED BY <1>1, <1>2, <1>4, <1>5, <1>6 DEF ahi_write

LEMMA ControlTake ==
    ASSUME ControlInv, NEW n \in 1..MaxPayload, Take(n)
    PROVE  ControlInv'
<1>0. /\ Cap \in Nat /\ MaxPayload \in Nat /\ MaxBytes \in Nat /\ n \in Nat
      /\ taken \in Nat /\ left \in Nat /\ taken + left <= MaxBytes /\ left <= MaxPayload
    BY PlaybackAssumption DEF ControlInv, TypeOK, LeftInv
<1>1. /\ pc = "payload" /\ n <= left /\ taken' = taken + n /\ left' = left - n
      /\ pc' \in {"header", "payload"}
      /\ UNCHANGED <<after, fmt, held, ahiFmt, prerolled, wait, heard>>
    BY DEF Take
<1>2. left' \in 0..MaxPayload /\ taken' \in 0..MaxBytes
    BY <1>0, <1>1
<1>3. LeftInv'
    BY <1>0, <1>1 DEF LeftInv
<1>4. HeldInv'
    BY <1>1 DEF ControlInv, HeldInv
<1>5. RightFormat'
    BY <1>1, ResourcesFacts DEF ControlInv, RightFormat, ahiOpened
<1>6. CASE ahiOpened
    <2>1. /\ Fits(n) \in 0..n /\ ahiLen + Fits(n) \in 0..Cap /\ taken + n <= MaxBytes
          /\ ahiBuf' = copy_swap16(ahiLen, taken, Fits(n)) /\ ahiLen' = ahiLen + Fits(n)
          /\ Bytes(Fits(n)) \in Seq(1..MaxBytes) /\ Len(Bytes(Fits(n))) = Fits(n)
          /\ written' = written \o Bytes(Fits(n))
          /\ late' = (late \/ (Fits(n) > 0 /\ ahiPlayStarted /\ 2 * head > ahiLen))
          /\ IF Fits(n) > 0 THEN Capture(n) ELSE UNCHANGED captureVars
          /\ Kick
        BY <1>6, TakeFacts
    <2>2. prerolled
        BY <1>1, <1>6 DEF ControlInv, RollInv
    <2>3. written' \in Seq(1..MaxBytes) /\ Len(written') = Len(written) + Fits(n)
        BY <2>1, ConcatProperties DEF ControlInv, TypeOK
    <2>4. ahiBuf' \in [1..Cap -> 0..Stale]
        <3>1. Fits(n) \in Nat /\ taken + Fits(n) <= MaxBytes
            BY <1>0, <2>1
        <3> QED BY <2>1, <3>1, CopyTyped DEF ControlInv
    <2>5. late' \in BOOLEAN
        BY <2>1
    <2>6. captureFh' \in BOOLEAN /\ captured' \in Seq(1..MaxBytes)
        <3>1. captured \o Bytes(Fits(n)) \in Seq(1..MaxBytes)
            BY <2>1, ConcatProperties DEF ControlInv, TypeOK
        <3>2. CASE Fits(n) > 0
            <4>1. captureFh' \in {captureFh, TRUE} /\ captured' \in {captured, captured \o Bytes(Fits(n))}
                BY <2>1, <3>2 DEF Capture, CapturedOf
            <4> QED BY <3>1, <4>1 DEF ControlInv, TypeOK
        <3>3. CASE ~(Fits(n) > 0)
            BY <2>1, <3>3 DEF captureVars, ControlInv, TypeOK
        <3> QED BY <3>2, <3>3
    <2>7. ahiPlayStarted' \in BOOLEAN /\ head' \in 0..Cap
        BY <2>1, KickTyped DEF ControlInv
    <2>8. TypeOK'
        <3>1. ahiLen' \in 0..Cap
            BY <2>1
        <3> QED BY <1>1, <1>2, <2>3, <2>4, <2>5, <2>6, <2>7, <3>1 DEF ControlInv, TypeOK
    <2>9. RollInv'
        BY <1>1, <2>2 DEF RollInv
    <2>10. LenInv'
        <3>1. ahiLen = PreRoll + Len(written) /\ Len(written) \in Nat /\ PreRoll \in Nat
            BY <1>1, <2>2, LenProperties, PlaybackAssumption DEF ControlInv, LenInv, TypeOK
        <3>2. ahiLen' = PreRoll + Len(written')
            <4>1. ahiLen' = ahiLen + Fits(n) /\ Len(written') = Len(written) + Fits(n)
                BY <2>1, <2>3
            <4>2. Fits(n) \in Int
                BY <2>1
            <4> QED BY <3>1, <4>1, <4>2
        <3>3. PreRoll + Len(written') <= ahiLen'
            BY <1>0, <2>1, <2>3, <3>1, <3>2
        <3> QED BY <3>2, <3>3 DEF LenInv
    <2> QED BY <1>3, <1>4, <1>5, <2>8, <2>9, <2>10 DEF ControlInv
<1>7. CASE ~ahiOpened
    <2>1. UNCHANGED <<ahiBuf, ahiLen, written, late, ahiPlayStarted, head, captureFh, captured>>
        BY <1>7 DEF Take, bufVars, captureVars
    <2>2. TypeOK'
        BY <1>1, <1>2, <2>1 DEF ControlInv, TypeOK
    <2>3. RollInv'
        BY <1>1, <1>7, <2>1 DEF ControlInv, RollInv, ahiOpened
    <2>4. LenInv'
        BY <1>1, <2>1 DEF ControlInv, LenInv
    <2> QED BY <1>3, <1>4, <1>5, <2>2, <2>3, <2>4 DEF ControlInv
<1> QED BY <1>6, <1>7

LEMMA ControlDrain ==
    ASSUME ControlInv, pc \in {"header", "payload"}, NEW to \in {"idle", "close"}, Drain(to),
           UNCHANGED <<taken, held, ahiFmt, ahiBuf, written, late, heard, captureVars>>,
           fmt' \in Formats \cup {Unknown}, left' \in 0..MaxPayload,
           taken + left' <= MaxBytes, to = "idle" => left' = 0,
           to = "close" => held = Len(Resources)
    PROVE  ControlInv'
<1>0. /\ Cap \in Nat /\ PreRoll \in Nat \ {0} /\ taken \in Nat /\ Len(Resources) = 7
      /\ ahiLen \in 0..Cap /\ held \in {0, Len(Resources)}
    BY PlaybackAssumption, ResourcesFacts DEF ControlInv, TypeOK, HeldInv
<1>1. CASE /\ ~prerolled /\ ahiLen = 0 /\ pc' = to /\ prerolled' = FALSE
           /\ UNCHANGED <<after, wait, ahiPlayStarted, head, ahiLen>>
    <2>1. TypeOK'
        BY <1>1 DEF ControlInv, TypeOK, captureVars
    <2>2. HeldInv' /\ RollInv' /\ RightFormat'
        BY <1>0, <1>1 DEF ControlInv, HeldInv, RollInv, RightFormat
    <2>3. LenInv'
        BY <1>1 DEF LenInv
    <2>4. LeftInv'
        BY <1>0, <1>1 DEF LeftInv
    <2> QED BY <2>1, <2>2, <2>3, <2>4 DEF ControlInv
<1>2. CASE /\ prerolled /\ held = Len(Resources) /\ pc' = "delay" /\ after' = to
           /\ prerolled' = prerolled /\ ahiLen' = ahiLen + Fits(PreRoll) /\ Kick
           /\ wait' = IF ahiPlayStarted' THEN PlayTime(ahiLen') ELSE 0
    <2>1. ahiLen' \in 0..Cap /\ ahiLen <= ahiLen'
        <3>1. Fits(PreRoll) \in 0..PreRoll /\ ahiLen + Fits(PreRoll) \in 0..Cap
            BY <1>0, FitsFacts
        <3> QED BY <1>0, <1>2, <3>1
    <2>2. wait' \in 0..Cap
        <3>1. PlayTime(ahiLen') \in 0..Cap
            BY <2>1, PlayTimeFacts
        <3> QED BY <1>0, <1>2, <3>1
    <2>3. ahiPlayStarted' \in BOOLEAN /\ head' \in 0..Cap
        BY <1>2, KickTyped DEF ControlInv
    <2>4. TypeOK'
        BY <1>2, <2>1, <2>2, <2>3 DEF ControlInv, TypeOK, captureVars
    <2>5. HeldInv' /\ RollInv' /\ RightFormat'
        BY <1>0, <1>2 DEF ControlInv, HeldInv, RollInv, RightFormat
    <2>6. LenInv'
        <3>1. Len(written) \in Nat /\ PreRoll + Len(written) <= ahiLen
            BY <1>2, LenProperties DEF ControlInv, LenInv, TypeOK
        <3> QED BY <1>0, <1>2, <2>1, <3>1 DEF LenInv
    <2>7. LeftInv'
        BY <1>0, <1>2 DEF LeftInv
    <2> QED BY <2>4, <2>5, <2>6, <2>7 DEF ControlInv
<1> QED BY <1>1, <1>2, DrainFacts

LEMMA ControlHeader ==
    ASSUME ControlInv, NEW f \in Formats \cup {Unknown}, NEW n \in Payloads, Header(f, n)
    PROVE  ControlInv'
<1>0. /\ Len(Resources) = 7 /\ (ahiOpened <=> held >= 4) /\ held \in {0, 7}
      /\ PreRoll \in Nat \ {0} /\ ahiLen \in Nat /\ taken \in Nat /\ n \in 0..MaxPayload
    BY PlaybackAssumption, ResourcesFacts DEF ControlInv, TypeOK, HeldInv, Header, Payloads
<1>1. /\ pc = "header" /\ taken + n <= MaxBytes /\ fmt' = f /\ left' = n
      /\ UNCHANGED <<taken, held, ahiFmt, ahiBuf, written, late, heard, captureVars>>
    BY DEF Header
<1>2. CASE ahiOpened /\ MustReopen(f) /\ ahiLen > 0
    BY <1>0, <1>1, <1>2, ControlDrain DEF Header
<1>3. CASE ~(ahiOpened /\ MustReopen(f) /\ ahiLen > 0)
    <2>1. UNCHANGED <<after, wait, ahiPlayStarted, head, ahiLen, prerolled>>
        BY <1>3 DEF Header
    <2>2. \/ ahiOpened /\ MustReopen(f) /\ ~(ahiLen > 0) /\ pc' = "close"
          \/ ahiOpened /\ ahiFmt = f /\ pc' = "preroll"
          \/ ~ahiOpened /\ pc' \in {"payload", "open"}
        BY <1>3 DEF Header, MustReopen
    <2>3. TypeOK'
        BY <1>0, <1>1, <2>1, <2>2 DEF ControlInv, TypeOK, captureVars
    <2>4. HeldInv'
        BY <1>0, <1>1, <2>1, <2>2 DEF ControlInv, HeldInv
    <2>5. prerolled => held = 7 /\ ahiLen > 0
        <3>1. ASSUME prerolled PROVE ahiLen >= PreRoll + Len(written) /\ Len(written) \in Nat
            BY <3>1, LenProperties DEF ControlInv, LenInv, TypeOK
        <3> QED BY <1>0, <3>1 DEF ControlInv, HeldInv
    <2>6. RollInv'
        <3>1. pc' = "payload" /\ ahiOpened' => prerolled'
            BY <1>0, <1>1, <2>2 DEF ahiOpened
        <3>2. pc' \in {"idle", "open", "unwind", "close"} => ~prerolled'
            BY <1>0, <2>1, <2>2, <2>5
        <3>3. pc' # "delay" /\ (~prerolled' => ahiLen' = 0 /\ written' = <<>> /\ ~ahiPlayStarted')
            BY <1>1, <2>1, <2>2 DEF ControlInv, RollInv
        <3> QED BY <3>1, <3>2, <3>3 DEF RollInv
    <2>7. LenInv'
        BY <1>1, <2>1 DEF ControlInv, LenInv
    <2>8. LeftInv'
        BY <1>0, <1>1, <2>2 DEF LeftInv
    <2>9. RightFormat'
        BY <1>0, <1>1, <2>2 DEF RightFormat, ahiOpened
    <2> QED BY <2>3, <2>4, <2>6, <2>7, <2>8, <2>9 DEF ControlInv
<1> QED BY <1>2, <1>3

LEMMA ControlPreRoll ==
    ASSUME ControlInv, PreRolls
    PROVE  ControlInv'
<1>0. /\ Len(Resources) = 7 /\ Cap \in Nat /\ PreRoll \in Nat /\ PreRoll <= Cap
      /\ ahiLen \in 0..Cap
    BY PlaybackAssumption, ResourcesFacts DEF ControlInv, TypeOK
<1>1. /\ pc = "preroll" /\ pc' = "payload" /\ prerolled' = TRUE
      /\ UNCHANGED <<after, fmt, left, taken, held, ahiFmt, ahiBuf, written, late, wait,
                     heard, captureVars>>
    BY DEF PreRolls
<1>2. Kick
    BY KickFacts DEF PreRolls, Kick
<1>3. ahiPlayStarted' \in BOOLEAN /\ head' \in 0..Cap
    BY <1>2, KickTyped DEF ControlInv
<1>4. ahiLen' \in 0..Cap /\ Len(written) \in Nat /\ ahiLen' = PreRoll + Len(written)
    <2>1. CASE prerolled
        BY <1>0, <1>1, <2>1, LenProperties DEF PreRolls, ControlInv, LenInv, TypeOK
    <2>2. CASE ~prerolled
        <3>1. ahiLen = 0 /\ written = <<>> /\ Len(written) = 0
            BY <2>2, EmptySeq DEF ControlInv, RollInv
        <3>2. Fits(PreRoll) = PreRoll
            BY <1>0, <3>1, FitsFacts
        <3> QED BY <1>0, <2>2, <3>1, <3>2 DEF PreRolls
    <2> QED BY <2>1, <2>2
<1>5. prerolled' \in BOOLEAN
    BY <1>1
<1>6. TypeOK'
    BY <1>1, <1>3, <1>4, <1>5 DEF ControlInv, TypeOK, captureVars
<1>7. HeldInv' /\ RollInv'
    BY <1>0, <1>1 DEF ControlInv, HeldInv, RollInv
<1>8. LenInv'
    BY <1>0, <1>1, <1>4 DEF LenInv
<1>9. LeftInv'
    BY <1>1 DEF ControlInv, LeftInv
<1>10. RightFormat'
    BY <1>1 DEF ControlInv, RightFormat, ahiOpened
<1> QED BY <1>6, <1>7, <1>8, <1>9, <1>10 DEF ControlInv

\* Utterance, StreamEnds, Open, Unwind, Close, DelayEnds, SessionClose and the
\* two steps of AHI.
LEMMA ControlStep ==
    ASSUME ControlInv, [Next]_vars
    PROVE  ControlInv'
<1>0. /\ Cap \in Nat /\ MaxPayload \in Nat /\ MaxBytes \in Nat /\ Stale = MaxBytes + 1
      /\ Len(Resources) = 7 /\ (ahiOpened <=> held >= 4)
      /\ taken \in 0..MaxBytes /\ left \in Nat
    BY PlaybackAssumption, ResourcesFacts DEF ControlInv, TypeOK, Stale
<1>1. CASE Utterance
    <2>1. ahiBuf' \in [1..Cap -> 0..Stale]
        BY <1>0, <1>1 DEF Utterance
    <2>2. heard' \in Seq(0..MaxBytes) /\ captured' \in Seq(1..MaxBytes)
        BY <1>1, EmptySeq DEF Utterance
    <2>3. TypeOK'
        BY <1>0, <1>1, <2>1, <2>2 DEF Utterance, ControlInv, TypeOK
    <2>4. HeldInv' /\ RollInv' /\ RightFormat'
        BY <1>1 DEF Utterance, ControlInv, HeldInv, RollInv, RightFormat
    <2>5. LenInv' /\ LeftInv'
        BY <1>0, <1>1 DEF Utterance, ControlInv, LenInv, LeftInv, RollInv
    <2> QED BY <2>3, <2>4, <2>5 DEF ControlInv
<1>2. CASE StreamEnds
    <2>1. UNCHANGED <<taken, held, ahiFmt, ahiBuf, written, late, heard, captureVars>>
        BY <1>2 DEF StreamEnds
    <2>2. pc \in {"header", "payload"} /\ Drain("idle") /\ left' = 0 /\ fmt' = fmt
        BY <1>2 DEF StreamEnds
    <2>3. fmt' \in Formats \cup {Unknown} /\ left' \in 0..MaxPayload /\ taken + left' <= MaxBytes
        BY <1>0, <2>2 DEF ControlInv, TypeOK
    <2>4. "idle" \in {"idle", "close"} /\ ~("idle" = "close")
        OBVIOUS
    <2> QED BY <2>1, <2>2, <2>3, <2>4, ControlDrain
<1>3. CASE Open
    <2>1. \E k \in 0..Len(Resources) :
             /\ held' = k
             /\ pc' = IF k = Len(Resources) THEN "preroll" ELSE "unwind"
        BY <1>3 DEF Open
    <2>2. held' \in 0..Len(Resources) /\ pc' \in {"preroll", "unwind"}
          /\ (pc' = "preroll" => held' = Len(Resources))
        BY <1>0, <2>1
    <2>3. /\ pc = "open" /\ ahiFmt' = fmt /\ ahiLen' = 0 /\ prerolled' = FALSE
          /\ ahiPlayStarted' = FALSE /\ ahiBuf' = Silence /\ written' = <<>> /\ late' = FALSE
          /\ UNCHANGED <<after, fmt, left, taken, wait, head, heard, captureFh, captured>>
        BY <1>3 DEF Open, captureVars
    <2>4. ahiBuf' \in [1..Cap -> 0..Stale]
        BY <1>0, <2>3 DEF Silence
    <2>5. written' \in Seq(1..MaxBytes)
        BY <2>3, EmptySeq
    <2>6. prerolled' \in BOOLEAN /\ ahiPlayStarted' \in BOOLEAN /\ late' \in BOOLEAN
        BY <2>3
    <2>7. TypeOK'
        BY <1>0, <2>2, <2>3, <2>4, <2>5, <2>6 DEF ControlInv, TypeOK
    <2>8. HeldInv' /\ RollInv' /\ RightFormat' /\ LenInv'
        BY <2>2, <2>3 DEF HeldInv, RollInv, RightFormat, LenInv
    <2>9. LeftInv'
        BY <2>2, <2>3 DEF ControlInv, LeftInv
    <2> QED BY <2>7, <2>8, <2>9 DEF ControlInv
<1>4. CASE Unwind
    <2>1. TypeOK'
        BY <1>0, <1>4 DEF Unwind, ControlInv, TypeOK, bufVars, playVars, captureVars
    <2>2. HeldInv' /\ RollInv' /\ RightFormat'
        BY <1>0, <1>4 DEF Unwind, ControlInv, HeldInv, RollInv, RightFormat, ahiOpened, bufVars,
                          playVars
    <2>3. LenInv' /\ LeftInv'
        BY <1>4 DEF Unwind, ControlInv, RollInv, LenInv, LeftInv, bufVars
    <2> QED BY <2>1, <2>2, <2>3 DEF ControlInv
<1>5. CASE Close
    <2>1. TypeOK'
        BY <1>0, <1>5 DEF Close, ControlInv, TypeOK, bufVars, playVars, captureVars
    <2>2. HeldInv' /\ RollInv' /\ RightFormat'
        BY <1>0, <1>5 DEF Close, ControlInv, HeldInv, RollInv, RightFormat, ahiOpened, bufVars,
                          playVars
    <2>3. LenInv' /\ LeftInv'
        BY <1>5 DEF Close, ControlInv, RollInv, LenInv, LeftInv, bufVars
    <2> QED BY <2>1, <2>2, <2>3 DEF ControlInv
<1>6. CASE DelayEnds
    <2>1. /\ pc = "delay" /\ ahiBuf' = Wipe /\ written' = <<>> /\ late' = FALSE
          /\ ahiLen' = 0 /\ prerolled' = FALSE /\ ahiPlayStarted' = FALSE /\ pc' = after
          /\ UNCHANGED <<after, fmt, left, taken, held, ahiFmt, wait, head, heard, captureFh,
                         captured>>
        BY <1>6 DEF DelayEnds, captureVars
    <2>2. ahiBuf' \in [1..Cap -> 0..Stale]
        BY <1>0, <2>1 DEF Wipe, ControlInv, TypeOK
    <2>3. written' \in Seq(1..MaxBytes)
        BY <2>1, EmptySeq
    <2>4. prerolled' \in BOOLEAN /\ ahiPlayStarted' \in BOOLEAN /\ late' \in BOOLEAN
        BY <2>1
    <2>5. TypeOK'
        BY <1>0, <2>1, <2>2, <2>3, <2>4 DEF ControlInv, TypeOK
    <2>6. HeldInv' /\ RollInv' /\ RightFormat'
        BY <2>1 DEF ControlInv, TypeOK, HeldInv, RollInv, RightFormat
    <2>7. LenInv' /\ LeftInv'
        BY <2>1 DEF ControlInv, TypeOK, LenInv, LeftInv
    <2> QED BY <2>5, <2>6, <2>7 DEF ControlInv
<1>7. CASE PreRolls
    BY <1>7, ControlPreRoll
<1>8. CASE SessionClose
    <2>1. captureFh' \in BOOLEAN
        BY <1>8 DEF SessionClose
    <2>2. TypeOK'
        BY <1>0, <1>8, <2>1 DEF SessionClose, ControlInv, TypeOK, streamVars, bufVars, playVars
    <2>3. HeldInv' /\ RollInv' /\ RightFormat'
        BY <1>8 DEF SessionClose, ControlInv, HeldInv, RollInv, RightFormat, streamVars, bufVars,
                    playVars
    <2>4. LenInv' /\ LeftInv'
        BY <1>8 DEF SessionClose, ControlInv, RollInv, LenInv, LeftInv, streamVars, bufVars
    <2> QED BY <2>2, <2>3, <2>4 DEF ControlInv
<1>9. CASE Mix
    <2>1. /\ ahiPlayStarted /\ 2 * head < Cap /\ head' = head + 1
          /\ heard' = heard \o Sounds(Word) /\ wait' = IF wait > 0 THEN wait - 1 ELSE 0
          /\ UNCHANGED <<streamVars, held, ahiFmt, prerolled, bufVars, ahiPlayStarted,
                         captureVars>>
        BY <1>9 DEF Mix
    <2>2. head' \in 0..Cap /\ wait' \in 0..Cap
        BY <1>0, <2>1 DEF ControlInv, TypeOK
    <2>3. Sounds(Word) \in Seq(0..MaxBytes)
        <3>1. 2 * head + 1 \in 1..Cap /\ 2 * head + 2 \in 1..Cap
            BY <2>1, PlaceFacts DEF ControlInv, TypeOK
        <3>2. PICK a, b \in 0..Stale : Word = <<a, b>>
            BY <3>1 DEF Word, ControlInv, TypeOK
        <3>3. a \in Nat /\ b \in Nat
            BY <1>0
        <3>4. CASE a = 0 /\ b = 0
            <4>1. Sounds(Word) = <<>>
                BY <3>2, <3>3, <3>4, SoundsFacts
            <4> QED BY <4>1, EmptySeq
        <3>5. CASE a = b + 1 /\ a % 2 = 0 /\ b > 0
            <4>1. a \div 2 \in 0..MaxBytes
                BY <1>0, <3>3, <3>5
            <4>2. Sounds(Word) = <<a \div 2>>
                BY <3>2, <3>3, <3>5, SoundsFacts
            <4> QED BY <4>1, <4>2
        <3>6. CASE ~(a = 0 /\ b = 0) /\ ~(a = b + 1 /\ a % 2 = 0 /\ b > 0)
            <4>1. Sounds(Word) = <<0>>
                BY <3>2, <3>3, <3>6, SoundsFacts
            <4> QED BY <1>0, <4>1
        <3> QED BY <3>4, <3>5, <3>6
    <2>4. heard' \in Seq(0..MaxBytes)
        BY <2>1, <2>3, ConcatProperties DEF ControlInv, TypeOK
    <2>5. TypeOK'
        BY <2>1, <2>2, <2>4 DEF ControlInv, TypeOK, streamVars, bufVars, captureVars
    <2>6. HeldInv' /\ RollInv' /\ RightFormat'
        BY <2>1 DEF ControlInv, HeldInv, RollInv, RightFormat, ahiOpened, streamVars, bufVars
    <2>7. LenInv' /\ LeftInv'
        BY <2>1 DEF ControlInv, LenInv, LeftInv, streamVars, bufVars
    <2> QED BY <2>5, <2>6, <2>7 DEF ControlInv
<1>10. CASE MixSilence
    <2>1. TypeOK'
        BY <1>0, <1>10 DEF MixSilence, ControlInv, TypeOK, streamVars, bufVars, captureVars
    <2>2. HeldInv' /\ RollInv' /\ RightFormat'
        BY <1>10 DEF MixSilence, ControlInv, HeldInv, RollInv, RightFormat, ahiOpened, streamVars,
                     bufVars
    <2>3. LenInv' /\ LeftInv'
        BY <1>10 DEF MixSilence, ControlInv, LenInv, LeftInv, streamVars, bufVars
    <2> QED BY <2>1, <2>2, <2>3 DEF ControlInv
<1>11. CASE \E f \in Formats \cup {Unknown}, n \in Payloads : Header(f, n)
    BY <1>11, ControlHeader
<1>12. CASE \E n \in 1..MaxPayload : Take(n)
    BY <1>12, ControlTake
<1>13. CASE UNCHANGED vars
    BY <1>13 DEF vars, streamVars, bufVars, playVars, captureVars, ControlInv, TypeOK, HeldInv,
                 RollInv, LenInv, LeftInv, RightFormat, ahiOpened
<1> QED BY <1>1, <1>2, <1>3, <1>4, <1>5, <1>6, <1>7, <1>8, <1>9, <1>10, <1>11, <1>12, <1>13
        DEF Next

LEMMA ControlCorrect == Spec => []ControlInv
<1>1. ControlInv /\ [Next]_vars => ControlInv'
    BY ControlStep
<1> QED BY <1>1, ControlInit, PTL DEF Spec

\* The variables of the playback range over their types, whatever recv()
\* delivers and whichever step of ahi_open fails.
THEOREM PlaybackTyped == Spec => []TypeOK
<1>1. ControlInv => TypeOK
    BY DEF ControlInv
<1> QED BY <1>1, ControlCorrect, PTL

\* When the receive loop looks at it, AHI has all its resources or none: a
\* failed ahi_open leaves nothing behind, and ahi_close everything free.
THEOREM AllOrNothing == Spec => []NoHalfOpen
<1>1. ControlInv => NoHalfOpen
    BY DEF ControlInv, HeldInv, NoHalfOpen
<1> QED BY <1>1, ControlCorrect, PTL

\* No payload goes into a channel opened for another format.
THEOREM OwnFormat == Spec => []RightFormat
<1>1. ControlInv => RightFormat
    BY DEF ControlInv
<1> QED BY <1>1, ControlCorrect, PTL

-----------------------------------------------------------------------------
(* The capture file.                                                       *)

\* What IsSuffix, which compares the reversed sequences, says of their ends.
LEMMA SuffixMeans ==
    ASSUME NEW S, NEW s \in Seq(S), NEW t \in Seq(S)
    PROVE  IsSuffix(s, t) <=>
               /\ Len(s) <= Len(t)
               /\ \A i \in 1..Len(s) : s[Len(s) - i + 1] = t[Len(t) - i + 1]
<1>1. ASSUME NEW u \in Seq(S)
      PROVE  /\ Len(u) \in Nat /\ Reverse(u) \in Seq(S) /\ Len(Reverse(u)) = Len(u)
             /\ \A i \in 1..Len(u) : Reverse(u)[i] = u[Len(u) - i + 1]
    <2>1. Len(u) \in Nat /\ \A i \in 1..Len(u) : u[i] \in S
        BY LenProperties, ElementOfSeq
    <2>2. \A i \in 1..Len(u) : Len(u) - i + 1 \in 1..Len(u)
        BY <2>1
    <2>3. Reverse(u) = [i \in 1..Len(u) |-> u[Len(u) - i + 1]]
        BY DEF Reverse
    <2>4. Reverse(u) \in [1..Len(u) -> S]
        BY <2>1, <2>2, <2>3
    <2>5. Reverse(u) \in Seq(S)
        BY <2>1, <2>4, SeqDef
    <2>6. DOMAIN Reverse(u) = 1..Len(u) /\ DOMAIN Reverse(u) = 1..Len(Reverse(u))
          /\ Len(Reverse(u)) \in Nat
        BY <2>4, <2>5, LenProperties
    <2> QED BY <2>1, <2>3, <2>5, <2>6
<1>2. /\ Len(s) \in Nat /\ Reverse(s) \in Seq(S) /\ Len(Reverse(s)) = Len(s)
      /\ \A i \in 1..Len(s) : Reverse(s)[i] = s[Len(s) - i + 1]
    BY <1>1
<1>3. /\ Len(t) \in Nat /\ Reverse(t) \in Seq(S) /\ Len(Reverse(t)) = Len(t)
      /\ \A i \in 1..Len(t) : Reverse(t)[i] = t[Len(t) - i + 1]
    BY <1>1
<1> DEFINE rs == Reverse(s)
           rt == Reverse(t)
<1>4. IsSuffix(s, t) <=> Len(rs) <= Len(rt) /\ SubSeq(rs, 1, Len(rs)) = SubSeq(rt, 1, Len(rs))
    BY DEF IsSuffix, IsPrefix
<1>5. SubSeq(rs, 1, Len(rs)) = rs
    BY <1>2, SubSeqFull
<1> HIDE DEF rs, rt
<1>6. ASSUME Len(s) <= Len(t)
      PROVE  /\ SubSeq(rt, 1, Len(s)) \in Seq(S) /\ Len(SubSeq(rt, 1, Len(s))) = Len(s)
             /\ \A i \in 1..Len(s) : SubSeq(rt, 1, Len(s))[i] = rt[i]
    <2>1. \A i \in 1..Len(s) : rt[i] \in S
        BY <1>2, <1>3, <1>6, ElementOfSeq DEF rt
    <2>2. /\ SubSeq(rt, 1, Len(s)) \in Seq(S)
          /\ Len(SubSeq(rt, 1, Len(s))) = IF 1 <= Len(s) THEN Len(s) - 1 + 1 ELSE 0
          /\ \A i \in 1..(Len(s) - 1 + 1) : SubSeq(rt, 1, Len(s))[i] = rt[1 + i - 1]
        BY <1>2, <2>1, SubSeqProperties
    <2> DEFINE q == SubSeq(rt, 1, Len(s))
    <2> HIDE DEF q
    <2>3. q \in Seq(S) /\ Len(q) = Len(s)
        BY <1>2, <2>2 DEF q
    <2>4. \A i \in 1..Len(s) : q[i] = rt[i]
        BY <1>2, <2>2 DEF q
    <2> QED BY <2>3, <2>4 DEF q
<1>7. ASSUME Len(s) <= Len(t), SubSeq(rt, 1, Len(s)) = rs, NEW i \in 1..Len(s)
      PROVE  s[Len(s) - i + 1] = t[Len(t) - i + 1]
    <2>1. rs[i] = rt[i] /\ i \in 1..Len(t)
        BY <1>2, <1>3, <1>6, <1>7
    <2> QED BY <1>2, <1>3, <2>1 DEF rs, rt
<1>8. ASSUME Len(s) <= Len(t), \A i \in 1..Len(s) : s[Len(s) - i + 1] = t[Len(t) - i + 1]
      PROVE  SubSeq(rt, 1, Len(s)) = rs
    <2>1. \A i \in 1..Len(s) : i \in 1..Len(t)
        BY <1>2, <1>3, <1>8
    <2>2. \A i \in 1..Len(s) : SubSeq(rt, 1, Len(s))[i] = rs[i]
        BY <1>2, <1>3, <1>6, <1>8, <2>1 DEF rs, rt
    <2>3. rs \in Seq(S) /\ Len(rs) = Len(s)
        BY <1>2 DEF rs
    <2> QED BY <1>6, <1>8, <2>2, <2>3, SeqEqual
<1> QED BY <1>2, <1>3, <1>4, <1>5, <1>7, <1>8 DEF rs, rt

LEMMA SuffixEmpty ==
    ASSUME NEW S, NEW t \in Seq(S)
    PROVE  IsSuffix(<<>>, t)
<1>1. <<>> \in Seq(S) /\ Len(<<>>) = 0 /\ Len(t) \in Nat
    BY EmptySeq, LenProperties
<1>2. Len(<<>>) <= Len(t) /\ 1..Len(<<>>) = {}
    BY <1>1
<1>3. \A i \in 1..Len(<<>>) : <<>>[Len(<<>>) - i + 1] = t[Len(t) - i + 1]
    BY <1>2
<1> QED BY <1>1, <1>2, <1>3, SuffixMeans

LEMMA SuffixConcat ==
    ASSUME NEW S, NEW s \in Seq(S), NEW t \in Seq(S), NEW u \in Seq(S), IsSuffix(s, t)
    PROVE  IsSuffix(s \o u, t \o u)
<1> DEFINE su == s \o u
           tu == t \o u
<1>1. Len(s) \in Nat /\ Len(t) \in Nat /\ Len(u) \in Nat
    BY LenProperties
<1>2. /\ Len(s) <= Len(t)
      /\ \A i \in 1..Len(s) : s[Len(s) - i + 1] = t[Len(t) - i + 1]
    BY SuffixMeans
<1>3. /\ su \in Seq(S) /\ Len(su) = Len(s) + Len(u)
      /\ \A i \in 1..Len(s) + Len(u) : su[i] = IF i <= Len(s) THEN s[i] ELSE u[i - Len(s)]
    BY ConcatProperties
<1>4. /\ tu \in Seq(S) /\ Len(tu) = Len(t) + Len(u)
      /\ \A i \in 1..Len(t) + Len(u) : tu[i] = IF i <= Len(t) THEN t[i] ELSE u[i - Len(t)]
    BY ConcatProperties
<1> HIDE DEF su, tu
<1>5. ASSUME NEW i \in 1..Len(su)
      PROVE  su[Len(su) - i + 1] = tu[Len(tu) - i + 1]
    <2>1. CASE i <= Len(u)
        <3> DEFINE j == Len(u) - i + 1
        <3>1. /\ j \in 1..Len(u) /\ Len(su) - i + 1 = Len(s) + j /\ Len(tu) - i + 1 = Len(t) + j
              /\ Len(s) + j \in 1..Len(s) + Len(u) /\ Len(t) + j \in 1..Len(t) + Len(u)
              /\ ~(Len(s) + j <= Len(s)) /\ ~(Len(t) + j <= Len(t))
              /\ (Len(s) + j) - Len(s) = j /\ (Len(t) + j) - Len(t) = j
            BY <1>1, <1>3, <1>4, <2>1
        <3> HIDE DEF j
        <3>2. su[Len(s) + j] = u[j] /\ tu[Len(t) + j] = u[j]
            BY <1>3, <1>4, <3>1
        <3> QED BY <3>1, <3>2
    <2>2. CASE ~(i <= Len(u))
        <3> DEFINE j == i - Len(u)
                   a == Len(s) - j + 1
                   b == Len(t) - j + 1
        <3>1. /\ j \in 1..Len(s) /\ Len(su) - i + 1 = a /\ Len(tu) - i + 1 = b
              /\ a \in 1..Len(s) + Len(u) /\ a <= Len(s)
              /\ b \in 1..Len(t) + Len(u) /\ b <= Len(t)
            BY <1>1, <1>2, <1>3, <1>4, <2>2
        <3>2. s[a] = t[b]
            BY <1>2, <3>1
        <3> HIDE DEF j, a, b
        <3>3. su[a] = s[a] /\ tu[b] = t[b]
            BY <1>3, <1>4, <3>1
        <3> QED BY <3>1, <3>2, <3>3
    <2> QED BY <2>1, <2>2
<1>6. Len(su) <= Len(tu)
    BY <1>1, <1>2, <1>3, <1>4
<1> QED BY <1>3, <1>4, <1>5, <1>6, SuffixMeans DEF su, tu

LEMMA CaptureTake ==
    ASSUME ControlInv, CaptureInv, NEW n \in 1..MaxPayload, Take(n)
    PROVE  CaptureInv'
<1>1. pc = "payload" /\ written \in Seq(1..MaxBytes) /\ captured \in Seq(1..MaxBytes)
    BY DEF Take, ControlInv, TypeOK
<1>2. CASE ahiOpened
    <2> DEFINE B == Bytes(Fits(n))
    <2>1. /\ B \in Seq(1..MaxBytes) /\ Len(B) = Fits(n) /\ Fits(n) \in Nat
          /\ written' = written \o B
          /\ IF Fits(n) > 0 THEN Capture(n) ELSE UNCHANGED captureVars
        BY <1>2, TakeFacts
    <2>2. CASE Fits(n) > 0 /\ captureFh'
        <3>1. captured' = captured \o B
            BY <2>1, <2>2 DEF Capture, CapturedOf
        <3>2. IsSuffix(written, captured) \/ IsSuffix(captured, written)
            BY <1>1, SuffixEmpty DEF CaptureInv, CaptureFollowsBuffer
        <3> HIDE DEF B
        <3>3. IsSuffix(written', captured') \/ IsSuffix(captured', written')
            BY <1>1, <2>1, <3>1, <3>2, SuffixConcat
        <3> QED BY <2>2, <3>3 DEF CaptureInv, CaptureFollowsBuffer
    <2>3. CASE Fits(n) > 0 /\ ~captureFh'
        <3>1. captured' = captured /\ captureFh' \in {captureFh, TRUE}
            BY <2>1, <2>3 DEF Capture
        <3>2. ~captureFh
            BY <2>3, <3>1 DEF ControlInv, TypeOK
        <3>3. captured' = <<>>
            BY <1>1, <3>1, <3>2 DEF CaptureInv
        <3> QED BY <3>3 DEF CaptureInv, CaptureFollowsBuffer
    <2>4. CASE ~(Fits(n) > 0)
        <3>1. B = <<>>
            BY <2>1, <2>4, EmptySeq
        <3>2. written' = written /\ captured' = captured /\ captureFh' = captureFh
            BY <1>1, <2>1, <2>4, <3>1, ConcatEmptySeq DEF captureVars
        <3> QED BY <1>1, <3>2 DEF CaptureInv, CaptureFollowsBuffer
    <2> QED BY <2>2, <2>3, <2>4
<1>3. CASE ~ahiOpened
    <2>1. UNCHANGED <<written, captureFh, captured>>
        BY <1>3 DEF Take, bufVars, captureVars
    <2> QED BY <1>1, <2>1 DEF CaptureInv, CaptureFollowsBuffer
<1> QED BY <1>2, <1>3

LEMMA CaptureStep ==
    ASSUME ControlInv, CaptureInv, [Next]_vars
    PROVE  CaptureInv'
<1>0. written \in Seq(1..MaxBytes) /\ captured \in Seq(1..MaxBytes)
    BY DEF ControlInv, TypeOK
<1>1. CASE Utterance
    BY <1>1 DEF Utterance, CaptureInv, CaptureFollowsBuffer
<1>2. CASE Open \/ DelayEnds
    <2>1. pc # "idle" /\ written' = <<>> /\ UNCHANGED <<captureFh, captured>>
        BY <1>2 DEF Open, DelayEnds, captureVars
    <2>2. IsSuffix(<<>>, captured)
        BY <1>0, SuffixEmpty
    <2> QED BY <2>1, <2>2 DEF CaptureInv, CaptureFollowsBuffer
<1>3. CASE SessionClose
    <2>1. pc' = "idle" /\ UNCHANGED <<written, captured>>
        BY <1>3 DEF SessionClose, streamVars, bufVars
    <2> QED BY <2>1 DEF CaptureInv, CaptureFollowsBuffer
<1>4. CASE \E n \in 1..MaxPayload : Take(n)
    BY <1>4, CaptureTake
<1>5. CASE \/ StreamEnds \/ Unwind \/ Close \/ PreRolls \/ Mix \/ MixSilence \/ UNCHANGED vars
           \/ \E f \in Formats \cup {Unknown}, n \in Payloads : Header(f, n)
    <2>1. UNCHANGED <<written, captureFh, captured>> /\ (pc = "idle" => pc' = "idle")
        BY <1>5 DEF StreamEnds, Unwind, Close, PreRolls, Mix, MixSilence, Header, vars, streamVars,
                    bufVars, captureVars
    <2> QED BY <2>1 DEF CaptureInv, CaptureFollowsBuffer
<1> QED BY <1>1, <1>2, <1>3, <1>4, <1>5 DEF Next

\* Byte for byte the capture file gets what the buffer gets, over changes of
\* format, full buffers and a file that could not be opened at first.
THEOREM CaptureIsBuffer == Spec => []CaptureFollowsBuffer
<1>1. Init => CaptureInv
    BY DEF Init, CaptureInv, CaptureFollowsBuffer
<1>2. CaptureInv /\ ControlInv /\ [Next]_vars => CaptureInv'
    BY CaptureStep
<1>3. CaptureInv => CaptureFollowsBuffer
    BY DEF CaptureInv
<1> QED BY <1>1, <1>2, <1>3, ControlCorrect, PTL DEF Spec

-----------------------------------------------------------------------------
(* What the buffer holds and what is heard of it.                          *)

LEMMA SoundInit == Init => SoundInv
<1> SUFFICES ASSUME Init PROVE SoundInv
    OBVIOUS
<1>1. Len(<<>>) = 0 /\ Cap \in Nat /\ PreRoll \in Nat /\ 0 % 2 = 0
    BY EmptySeq, PlaybackAssumption
<1>2. EvenInv /\ Samples /\ HoldsBytes
    BY <1>1 DEF Init, EvenInv, Samples, HoldsBytes, Silence
<1>3. HeardInv /\ PlayedInv
    BY <1>1 DEF Init, HeardInv, HeardInOrder, PlayedInv
<1> QED BY <1>2, <1>3 DEF SoundInv, BufferInv

\* A step that stores nothing and plays nothing, but may start AHI.
Still ==
    /\ UNCHANGED <<taken, ahiBuf, written, heard, late>> /\ Kick /\ ahiLen' % 2 = 0
    /\ pc' = "delay" /\ ahiPlayStarted' => ahiLen' <= 2 * head' + 2 * wait'

LEMMA SoundStill ==
    ASSUME ControlInv, SoundInv, Still
    PROVE  SoundInv'
<1>0. /\ PreRoll \in Nat \ {0} /\ Len(written) \in Nat /\ head \in Nat
      /\ ahiPlayStarted \in BOOLEAN
    BY PlaybackAssumption, LenProperties DEF ControlInv, TypeOK
<1>1. BufferInv'
    BY DEF Still, SoundInv, BufferInv, EvenInv, Samples, HoldsBytes
<1>2. \A k \in Nat : Ahead(k)' => Ahead(k)
    BY <1>0 DEF Still, Kick, Ahead
<1>3. HeardInv'
    <2>1. HeardInOrder' /\ \A i \in 1..Len(heard') : 2 * heard'[i] <= taken'
        BY DEF Still, SoundInv, HeardInv, HeardInOrder
    <2>2. ASSUME NEW i \in 1..Len(heard'), NEW k \in 1..Len(written'), k % 2 = 0, Ahead(k)'
          PROVE  2 * heard'[i] < written'[k]
        <3>1. i \in 1..Len(heard) /\ k \in 1..Len(written) /\ k \in Nat
            BY <1>0, <2>2 DEF Still
        <3>2. Ahead(k)
            BY <1>2, <2>2, <3>1
        <3> QED BY <2>2, <3>1, <3>2 DEF Still, SoundInv, HeardInv
    <2> QED BY <2>1, <2>2 DEF HeardInv
<1>4. PlayedInv'
    <2>1. CASE ahiPlayStarted' = ahiPlayStarted /\ head' = head
        BY <2>1 DEF Still, SoundInv, PlayedInv
    <2>2. CASE head' = 0
        <3>1. \A k \in 1..Len(written) : ~(PreRoll + k <= 2 * head')
            BY <1>0, <2>2
        <3> QED BY <3>1 DEF Still, PlayedInv
    <2> QED BY <2>1, <2>2 DEF Still, Kick
<1> QED BY <1>1, <1>3, <1>4 DEF SoundInv

\* A step that empties the buffer.
Emptied ==
    /\ written' = <<>> /\ ahiLen' = 0 /\ pc' # "delay" /\ \A k \in 1..Cap : ahiBuf'[k] = 0
    /\ \/ heard' = <<>> /\ taken' = 0
       \/ UNCHANGED <<heard, taken>>

LEMMA SoundEmptied ==
    ASSUME ControlInv, SoundInv, Emptied
    PROVE  SoundInv'
<1>1. Len(<<>>) = 0 /\ PreRoll \in Nat /\ 0 % 2 = 0 /\ 1..0 = {}
    BY EmptySeq, PlaybackAssumption
<1>2. EvenInv'
    BY <1>1 DEF Emptied, SoundInv, BufferInv, EvenInv
<1>3. Samples' /\ HoldsBytes'
    BY <1>1 DEF Emptied, Samples, HoldsBytes
<1>4. HeardInv'
    BY <1>1 DEF Emptied, SoundInv, HeardInv, HeardInOrder
<1>5. PlayedInv'
    BY <1>1 DEF Emptied, PlayedInv
<1> QED BY <1>2, <1>3, <1>4, <1>5 DEF SoundInv, BufferInv

\* What ahi_write does when recv() cut between samples: F bytes follow the L
\* bytes stored before.
LEMMA WriteFacts ==
    ASSUME ControlInv, SoundInv, WholeTakes, NEW n \in 1..MaxPayload, Take(n), ahiOpened
    PROVE  LET F == Fits(n)
               L == Len(written)
           IN  /\ F \in Nat /\ L \in Nat /\ taken \in Nat /\ taken' = taken + n /\ F <= n
               /\ F % 2 = 0 /\ L % 2 = 0 /\ taken % 2 = 0 /\ n % 2 = 0
               /\ ahiLen = PreRoll + L /\ ahiLen' = PreRoll + L + F
               /\ Len(written') = L + F
               /\ \A k \in 1..L : written'[k] = written[k]
               /\ \A i \in 1..F : written'[L + i] = taken + i
<1> DEFINE F == Fits(n)
           L == Len(written)
           B == Bytes(F)
<1>1. /\ F \in 0..n /\ written' = written \o B /\ ahiLen' = ahiLen + F
      /\ B \in Seq(1..MaxBytes) /\ Len(B) = F /\ \A i \in 1..F : B[i] = taken + i
    BY TakeFacts
<1>2. /\ n \in Nat /\ n % 2 = 0 /\ taken \in Nat /\ taken' = taken + n /\ ahiLen \in 0..Cap
      /\ PreRoll \in Nat
    BY PlaybackAssumption DEF Take, ControlInv, TypeOK
<1>3. ahiLen % 2 = 0 /\ L % 2 = 0 /\ taken % 2 = 0
    BY DEF SoundInv, BufferInv, EvenInv
<1>4. F \in Nat /\ F <= n /\ F % 2 = 0
    BY <1>1, <1>2, <1>3, FitsFacts
<1>5. L \in Nat /\ written \in Seq(1..MaxBytes)
    BY LenProperties DEF ControlInv, TypeOK
<1>6. ahiLen = PreRoll + L
    BY DEF Take, ControlInv, RollInv, LenInv
<1> HIDE DEF B, F
<1>7. /\ Len(written') = L + F
      /\ \A i \in 1..L + F : written'[i] = IF i <= L THEN written[i] ELSE B[i - L]
    BY <1>1, <1>5, ConcatProperties
<1> HIDE DEF L
<1>8. \A k \in 1..L : written'[k] = written[k]
    <2>1. \A k \in 1..L : k \in 1..L + F /\ k <= L
        BY <1>4, <1>5 DEF L
    <2> QED BY <1>7, <2>1
<1>9. ASSUME NEW i \in 1..F PROVE written'[L + i] = taken + i
    <2>1. L + i \in 1..L + F /\ ~(L + i <= L) /\ (L + i) - L = i
        BY <1>4, <1>5 DEF L
    <2>2. written'[L + i] = B[i]
        BY <1>7, <2>1
    <2> QED BY <1>1, <2>2
<1>10. ahiLen' = PreRoll + L + F
    BY <1>1, <1>2, <1>4, <1>5, <1>6 DEF L
<1> QED BY <1>2, <1>3, <1>4, <1>5, <1>6, <1>7, <1>8, <1>9, <1>10 DEF L, F

LEMMA SamplesTake ==
    ASSUME ControlInv, SoundInv, WholeTakes, NEW n \in 1..MaxPayload, Take(n), ahiOpened
    PROVE  EvenInv' /\ Samples'
<1> DEFINE F == Fits(n)
           L == Len(written)
<1>1. /\ F \in Nat /\ L \in Nat /\ taken \in Nat /\ n \in Nat /\ taken' = taken + n /\ F <= n
      /\ F % 2 = 0 /\ L % 2 = 0 /\ taken % 2 = 0 /\ n % 2 = 0
      /\ ahiLen' = PreRoll + L + F /\ Len(written') = L + F
    BY WriteFacts
<1>2. \A k \in 1..L : written'[k] = written[k]
    BY WriteFacts
<1>3. \A i \in 1..F : written'[L + i] = taken + i
    BY WriteFacts
<1>4. PreRoll \in Nat /\ PreRoll % 2 = 0
    BY PlaybackAssumption
<1>5. EvenInv'
    <2> HIDE DEF F, L
    <2>1. (taken + n) % 2 = 0 /\ (L + F) % 2 = 0 /\ (PreRoll + L + F) % 2 = 0
        BY <1>1, <1>4
    <2> QED BY <1>1, <2>1 DEF EvenInv
<1>6. \A k \in 1..L : written[k] \in Nat /\ written[k] <= taken /\ written[k] % 2 = k % 2
    <2>1. \A k \in 1..L : written[k] \in 1..MaxBytes
        BY ElementOfSeq DEF ControlInv, TypeOK
    <2>2. \A k \in 1..L : written[k] \in Nat
        BY <2>1, PlaybackAssumption
    <2>3. \A k \in 1..L : written[k] <= taken /\ written[k] % 2 = k % 2
        BY DEF SoundInv, BufferInv, Samples
    <2> QED BY <2>2, <2>3
<1>7. \A k \in 1..L : k % 2 = 0 => written[k] = written[k - 1] + 1
    BY DEF SoundInv, BufferInv, Samples
<1>8. \A i, k \in 1..L : i < k => written[i] < written[k]
    BY DEF SoundInv, BufferInv, Samples
<1> HIDE DEF F, L
<1>9. \A k \in 1..L + F : \/ k \in 1..L
                          \/ k - L \in 1..F /\ k = L + (k - L) /\ k > L
                             /\ written'[k] = taken + (k - L)
    <2>1. \A k \in 1..L + F : k \in 1..L \/ (k - L \in 1..F /\ k = L + (k - L) /\ k > L)
        BY <1>1
    <2> QED BY <1>3, <2>1
<1>10. ASSUME NEW k \in 1..L + F
       PROVE  written'[k] <= taken' /\ written'[k] % 2 = k % 2
    <2>1. CASE k \in 1..L
        <3>1. /\ written'[k] = written[k] /\ written[k] \in Nat /\ written[k] <= taken
              /\ written[k] % 2 = k % 2
            BY <1>2, <1>6, <2>1
        <3>2. written[k] <= taken + n
            BY <1>1, <3>1
        <3> QED BY <1>1, <3>1, <3>2
    <2>2. CASE k - L \in 1..F /\ written'[k] = taken + (k - L)
        <3>1. taken + (k - L) <= taken + n /\ (taken + (k - L)) % 2 = k % 2
            BY <1>1, <2>2
        <3> QED BY <1>1, <2>2, <3>1
    <2> QED BY <1>9, <2>1, <2>2
<1>11. ASSUME NEW k \in 1..L + F, k % 2 = 0
       PROVE  written'[k] = written'[k - 1] + 1
    <2>1. CASE k \in 1..L
        <3>1. k - 1 \in 1..L
            BY <1>1, <1>11, <2>1
        <3> QED BY <1>2, <1>7, <1>11, <2>1, <3>1
    <2>2. CASE k - L \in 1..F /\ k = L + (k - L) /\ k > L /\ written'[k] = taken + (k - L)
        <3>1. k - 1 \in 1..L + F /\ k - 1 > L
            BY <1>1, <1>11, <2>2
        <3>2. written'[k - 1] = taken + (k - 1 - L)
            BY <1>1, <1>9, <3>1
        <3> QED BY <1>1, <2>2, <3>2
    <2> QED BY <1>9, <2>1, <2>2
<1>12. ASSUME NEW i \in 1..L + F, NEW k \in 1..L + F, i < k
       PROVE  written'[i] < written'[k]
    <2>1. CASE k \in 1..L
        <3>1. i \in 1..L
            BY <1>1, <1>12, <2>1
        <3> QED BY <1>2, <1>8, <1>12, <2>1, <3>1
    <2>2. CASE k - L \in 1..F /\ k > L /\ written'[k] = taken + (k - L)
        <3>1. CASE i \in 1..L
            <4>1. written'[i] = written[i] /\ written[i] \in Nat /\ written[i] <= taken
                BY <1>2, <1>6, <3>1
            <4> QED BY <1>1, <2>2, <4>1
        <3>2. CASE i - L \in 1..F /\ written'[i] = taken + (i - L)
            BY <1>1, <1>12, <2>2, <3>2
        <3> QED BY <1>9, <3>1, <3>2
    <2> QED BY <1>9, <2>1, <2>2
<1>13. Samples'
    BY <1>1, <1>10, <1>11, <1>12 DEF Samples
<1> QED BY <1>5, <1>13

LEMMA HoldsTake ==
    ASSUME ControlInv, SoundInv, WholeTakes, NEW n \in 1..MaxPayload, Take(n), ahiOpened
    PROVE  HoldsBytes'
<1> DEFINE F == Fits(n)
           L == Len(written)
<1>1. /\ F \in Nat /\ L \in Nat /\ taken \in Nat /\ F % 2 = 0 /\ L % 2 = 0
      /\ ahiLen = PreRoll + L /\ Len(written') = L + F
    BY WriteFacts
<1>2. \A k \in 1..L : written'[k] = written[k]
    BY WriteFacts
<1>3. \A i \in 1..F : written'[L + i] = taken + i
    BY WriteFacts
<1>4. PreRoll \in Nat /\ Cap \in Nat
    BY PlaybackAssumption
<1>5. ahiBuf' = copy_swap16(ahiLen, taken, F)
    BY TakeFacts
<1>6. \A k \in 1..Cap :
         IF k - PreRoll \in 1..L THEN ahiBuf[k] = written[Swapped(k - PreRoll)]
         ELSE ahiBuf[k] = 0
    BY DEF SoundInv, BufferInv, HoldsBytes
<1> HIDE DEF F, L
<1>7. 2 * (F \div 2) = F
    BY <1>1, HalfFacts
<1>8. ASSUME NEW k \in 1..Cap
      PROVE  IF k - PreRoll \in 1..L + F THEN ahiBuf'[k] = written'[Swapped(k - PreRoll)]
             ELSE ahiBuf'[k] = 0
    <2> DEFINE i == k - PreRoll
               j == k - ahiLen
    <2>1. ahiBuf'[k] = IF j \notin 1..F THEN ahiBuf[k]
                       ELSE IF j % 2 = 1 THEN taken + j + 1 ELSE taken + j - 1
        BY <1>5, <1>7 DEF copy_swap16
    <2>2. i \in Int /\ j \in Int /\ i = L + j
        BY <1>1, <1>4
    <2>3. IF i \in 1..L THEN ahiBuf[k] = written[Swapped(i)] ELSE ahiBuf[k] = 0
        BY <1>6
    <2> HIDE DEF i, j
    <2>4. CASE j \in 1..F /\ j % 2 = 1
        <3>1. j + 1 \in 1..F /\ i \in 1..L + F /\ i % 2 = 1 /\ i + 1 = L + (j + 1)
            BY <1>1, <2>2, <2>4
        <3>2. written'[Swapped(i)] = taken + (j + 1)
            BY <1>3, <3>1 DEF Swapped
        <3>3. taken + (j + 1) = taken + j + 1
            BY <1>1, <2>2
        <3> QED BY <2>1, <2>4, <3>1, <3>2, <3>3 DEF i
    <2>5. CASE j \in 1..F /\ j % 2 # 1
        <3>1. j - 1 \in 1..F /\ i \in 1..L + F /\ i % 2 # 1 /\ i - 1 = L + (j - 1)
            BY <1>1, <2>2, <2>5
        <3>2. written'[Swapped(i)] = taken + (j - 1)
            BY <1>3, <3>1 DEF Swapped
        <3>3. taken + (j - 1) = taken + j - 1
            BY <1>1, <2>2
        <3> QED BY <2>1, <2>5, <3>1, <3>2, <3>3 DEF i
    <2>6. CASE j \notin 1..F /\ i \in 1..L
        <3>1. Swapped(i) \in 1..L /\ i \in 1..L + F
            BY <1>1, <2>6 DEF Swapped
        <3>2. written'[Swapped(i)] = written[Swapped(i)]
            BY <1>2, <3>1
        <3> QED BY <2>1, <2>3, <2>6, <3>1, <3>2 DEF i
    <2>7. CASE j \notin 1..F /\ i \notin 1..L
        <3>1. i \notin 1..L + F
            BY <1>1, <2>2, <2>7
        <3> QED BY <2>1, <2>3, <2>7, <3>1 DEF i
    <2> QED BY <2>4, <2>5, <2>6, <2>7
<1> QED BY <1>1, <1>8 DEF HoldsBytes

\* What is stored ahead of AHI comes after all that was heard; what is stored
\* behind it is late.
LEMMA HeardTake ==
    ASSUME ControlInv, SoundInv, WholeTakes, NEW n \in 1..MaxPayload, Take(n), ahiOpened
    PROVE  HeardInv' /\ PlayedInv'
<1> DEFINE F == Fits(n)
           L == Len(written)
<1>1. /\ F \in Nat /\ L \in Nat /\ taken \in Nat /\ n \in Nat /\ taken' = taken + n
      /\ ahiLen = PreRoll + L /\ Len(written') = L + F
    BY WriteFacts
<1>2. \A k \in 1..L : written'[k] = written[k]
    BY WriteFacts
<1>3. \A i \in 1..F : written'[L + i] = taken + i
    BY WriteFacts
<1>4. /\ Kick /\ late' = (late \/ (F > 0 /\ ahiPlayStarted /\ 2 * head > ahiLen))
      /\ heard' = heard /\ pc' # "delay"
    BY TakeFacts DEF Take
<1>5. PreRoll \in Nat \ {0} /\ head \in Nat /\ ahiPlayStarted \in BOOLEAN
    BY PlaybackAssumption DEF ControlInv, TypeOK
<1>6. \A i \in 1..Len(heard) : heard[i] \in Nat /\ 2 * heard[i] <= taken
    <2>1. \A i \in 1..Len(heard) : heard[i] \in 0..MaxBytes
        BY ElementOfSeq DEF ControlInv, TypeOK
    <2>2. \A i \in 1..Len(heard) : heard[i] \in Nat
        BY <2>1, PlaybackAssumption
    <2> QED BY <2>2 DEF SoundInv, HeardInv
<1>7. \A i \in 1..Len(heard), k \in 1..L : k % 2 = 0 /\ Ahead(k) => 2 * heard[i] < written[k]
    BY DEF SoundInv, HeardInv
<1>8. ahiPlayStarted /\ ~late =>
          \A k \in 1..L : k % 2 = 0 /\ PreRoll + k <= 2 * head =>
              \E m \in 1..Len(heard) : 2 * heard[m] = written[k]
    BY DEF SoundInv, PlayedInv
<1> HIDE DEF F, L
<1>9. \A k \in 1..L + F : \/ k \in 1..L
                          \/ k - L \in 1..F /\ k > L /\ written'[k] = taken + (k - L)
    <2>1. \A k \in 1..L + F : k \in 1..L \/ (k - L \in 1..F /\ k = L + (k - L) /\ k > L)
        BY <1>1
    <2> QED BY <1>3, <2>1
<1>10. HeardInv'
    <2>1. HeardInOrder'
        BY <1>4 DEF SoundInv, HeardInv, HeardInOrder
    <2>2. \A i \in 1..Len(heard') : 2 * heard'[i] <= taken'
        BY <1>1, <1>4, <1>6
    <2>3. ASSUME NEW i \in 1..Len(heard), NEW k \in 1..L + F, k % 2 = 0, Ahead(k)'
          PROVE  2 * heard[i] < written'[k]
        <3>1. CASE k \in 1..L
            <4>1. Ahead(k)
                BY <1>4, <1>5, <2>3, <3>1 DEF Kick, Ahead
            <4> QED BY <1>2, <1>7, <2>3, <3>1, <4>1
        <3>2. CASE k - L \in 1..F /\ written'[k] = taken + (k - L)
            BY <1>1, <1>6, <3>2
        <3> QED BY <1>9, <3>1, <3>2
    <2> QED BY <1>1, <1>4, <2>1, <2>2, <2>3 DEF HeardInv
<1>11. PlayedInv'
    <2>1. CASE ahiPlayStarted' = ahiPlayStarted /\ head' = head
        <3>1. ASSUME ahiPlayStarted, ~late', NEW k \in 1..L + F, k % 2 = 0,
                     PreRoll + k <= 2 * head
              PROVE  \E m \in 1..Len(heard) : 2 * heard[m] = written'[k]
            <4>1. ~late /\ ~(F > 0 /\ 2 * head > ahiLen)
                BY <1>4, <3>1
            <4>2. k \in 1..L
                BY <1>1, <1>5, <3>1, <4>1
            <4> QED BY <1>2, <1>8, <3>1, <4>1, <4>2
        <3> QED BY <1>1, <1>4, <2>1, <3>1 DEF PlayedInv
    <2>2. CASE head' = 0
        <3>1. \A k \in 1..L + F : ~(PreRoll + k <= 2 * head')
            BY <1>1, <1>5, <2>2
        <3> QED BY <1>1, <1>4, <3>1 DEF PlayedInv
    <2> QED BY <1>4, <2>1, <2>2 DEF Kick
<1> QED BY <1>10, <1>11

LEMMA SoundTake ==
    ASSUME ControlInv, SoundInv, WholeTakes, NEW n \in 1..MaxPayload, Take(n)
    PROVE  SoundInv'
<1>1. CASE ahiOpened
    BY <1>1, SamplesTake, HoldsTake, HeardTake DEF SoundInv, BufferInv
<1>2. CASE ~ahiOpened
    <2>1. /\ UNCHANGED <<ahiBuf, ahiLen, written, heard>> /\ taken' = taken + n
          /\ pc' # "delay" /\ n % 2 = 0 /\ n \in Nat /\ taken \in Nat /\ PreRoll \in Nat
        BY <1>2, PlaybackAssumption DEF Take, bufVars, ControlInv, TypeOK
    <2>2. written = <<>> /\ Len(<<>>) = 0 /\ 1..0 = {}
        BY <1>2, ResourcesFacts, EmptySeq DEF ControlInv, HeldInv, RollInv
    <2>3. EvenInv'
        <3>1. taken % 2 = 0
            BY DEF SoundInv, BufferInv, EvenInv
        <3>2. taken' % 2 = 0
            BY <2>1, <3>1
        <3> QED BY <2>1, <3>2 DEF SoundInv, BufferInv, EvenInv
    <2>4. Samples' /\ HoldsBytes'
        BY <2>1, <2>2 DEF SoundInv, BufferInv, Samples, HoldsBytes
    <2>5. HeardInv'
        <3>1. \A i \in 1..Len(heard) : 2 * heard[i] <= taken /\ heard[i] \in 0..MaxBytes
            BY ElementOfSeq DEF SoundInv, HeardInv, ControlInv, TypeOK
        <3>2. \A i \in 1..Len(heard) : 2 * heard[i] <= taken'
            BY <2>1, <3>1
        <3> QED BY <2>1, <2>2, <3>2 DEF SoundInv, HeardInv, HeardInOrder
    <2>6. PlayedInv'
        BY <2>1, <2>2 DEF PlayedInv
    <2> QED BY <2>3, <2>4, <2>5, <2>6 DEF SoundInv, BufferInv
<1> QED BY <1>1, <1>2

\* AHI's next word is the next sample, or silence.
LEMMA WordFacts ==
    ASSUME ControlInv, SoundInv, 2 * head < Cap
    PROVE  LET k == 2 * head + 2 - PreRoll
           IN  /\ k \in 1..Len(written) => /\ Sounds(Word) = <<written[k] \div 2>>
                                           /\ 2 * (written[k] \div 2) = written[k]
                                           /\ written[k] \div 2 \in 1..MaxBytes
               /\ k \notin 1..Len(written) => Sounds(Word) = <<>>
               /\ k \in Int /\ k % 2 = 0 /\ PreRoll + k = 2 * head + 2
<1> DEFINE k == 2 * head + 2 - PreRoll
           L == Len(written)
           a == ahiBuf[2 * head + 1]
           b == ahiBuf[2 * head + 2]
<1>1. /\ L \in Nat /\ head \in Nat /\ PreRoll \in Nat /\ PreRoll % 2 = 0 /\ MaxBytes \in Nat
      /\ L % 2 = 0
    BY LenProperties, PlaybackAssumption DEF ControlInv, TypeOK, SoundInv, BufferInv, EvenInv
<1>2. 2 * head + 1 \in 1..Cap /\ 2 * head + 2 \in 1..Cap
    BY <1>1, PlaceFacts
<1>3. /\ k \in Int /\ k % 2 = 0 /\ PreRoll + k = 2 * head + 2
      /\ 2 * head + 1 - PreRoll = k - 1
    <2> HIDE DEF L
    <2> QED BY <1>1
<1>4. /\ IF k - 1 \in 1..L THEN a = written[Swapped(k - 1)] ELSE a = 0
      /\ IF k \in 1..L THEN b = written[Swapped(k)] ELSE b = 0
    <2>1. \A m \in 1..Cap : IF m - PreRoll \in 1..L
                            THEN ahiBuf[m] = written[Swapped(m - PreRoll)] ELSE ahiBuf[m] = 0
        BY DEF SoundInv, BufferInv, HoldsBytes
    <2> DEFINE low == 2 * head + 1
               high == 2 * head + 2
    <2>2. low \in 1..Cap /\ high \in 1..Cap /\ low - PreRoll = k - 1 /\ high - PreRoll = k
        <3>1. head \in Nat /\ PreRoll \in Nat
            BY <1>1
        <3> QED BY <1>2, <3>1
    <2> HIDE DEF k, L, low, high
    <2>3. IF k - 1 \in 1..L THEN ahiBuf[low] = written[Swapped(k - 1)] ELSE ahiBuf[low] = 0
        BY <2>1, <2>2
    <2>4. IF k \in 1..L THEN ahiBuf[high] = written[Swapped(k)] ELSE ahiBuf[high] = 0
        BY <2>1, <2>2
    <2> QED BY <2>3, <2>4 DEF low, high
<1>5. Word = <<a, b>>
    BY DEF Word
<1>6. /\ \A i \in 1..L : written[i] \in 1..MaxBytes
      /\ \A i \in 1..L : written[i] % 2 = i % 2
      /\ \A i \in 1..L : i % 2 = 0 => written[i] = written[i - 1] + 1
    BY ElementOfSeq DEF ControlInv, TypeOK, SoundInv, BufferInv, Samples
<1> HIDE DEF k, L, a, b
<1>7. CASE k \in 1..L
    <2>1. k - 1 \in 1..L /\ Swapped(k - 1) = k /\ Swapped(k) = k - 1
        BY <1>1, <1>3, <1>7 DEF Swapped
    <2>2. a = written[k] /\ b = written[k - 1]
        BY <1>4, <1>7, <2>1
    <2>3. a \in 1..MaxBytes /\ b \in 1..MaxBytes /\ a % 2 = 0 /\ a = b + 1
        BY <1>3, <1>6, <1>7, <2>1, <2>2
    <2>4. a \in Nat /\ b \in Nat /\ b > 0
        BY <1>1, <2>3
    <2>5. Sounds(Word) = <<a \div 2>>
        BY <1>5, <2>3, <2>4, SoundsFacts
    <2>6. a \div 2 \in Nat /\ a = 2 * (a \div 2)
        BY <2>3, <2>4, HalfFacts
    <2>7. a \div 2 \in 1..MaxBytes
        BY <1>1, <2>3, <2>4, <2>6
    <2> QED BY <1>3, <1>7, <2>2, <2>5, <2>6, <2>7 DEF k, L
<1>8. CASE k \notin 1..L
    <2>1. k - 1 \notin 1..L
        BY <1>1, <1>3, <1>8
    <2>2. a = 0 /\ b = 0
        BY <1>4, <1>8, <2>1
    <2>3. Sounds(Word) = <<>>
        <3>1. 0 \in Nat
            OBVIOUS
        <3> QED BY <1>5, <2>2, <3>1, SoundsFacts
    <2> QED BY <1>3, <1>8, <2>3 DEF k, L
<1> QED BY <1>7, <1>8

LEMMA SoundMix ==
    ASSUME ControlInv, SoundInv, Mix
    PROVE  SoundInv'
<1> DEFINE k == 2 * head + 2 - PreRoll
           L == Len(written)
           H == Len(heard)
           v == written[k] \div 2
<1>1. /\ ahiPlayStarted /\ 2 * head < Cap /\ head' = head + 1 /\ heard' = heard \o Sounds(Word)
      /\ pc = "delay" => wait > 0
      /\ wait' = IF wait > 0 THEN wait - 1 ELSE 0
      /\ UNCHANGED <<pc, taken, ahiBuf, ahiLen, written, late, ahiPlayStarted>>
    BY DEF Mix, streamVars, bufVars
<1>2. /\ L \in Nat /\ H \in Nat /\ head \in Nat /\ wait \in Nat /\ PreRoll \in Nat
      /\ PreRoll % 2 = 0 /\ taken \in Nat /\ ahiLen \in Nat /\ heard \in Seq(0..MaxBytes)
      /\ MaxBytes \in Nat
    BY LenProperties, PlaybackAssumption DEF ControlInv, TypeOK
<1>3. BufferInv'
    BY <1>1 DEF SoundInv, BufferInv, EvenInv, Samples, HoldsBytes
<1>4. /\ k \in 1..L => Sounds(Word) = <<v>> /\ 2 * v = written[k] /\ v \in 1..MaxBytes
      /\ k \notin 1..L => Sounds(Word) = <<>>
      /\ k \in Int /\ k % 2 = 0 /\ PreRoll + k = 2 * head + 2
    BY <1>1, WordFacts
<1>5. /\ \A i \in 1..H : heard[i] > 0 /\ 2 * heard[i] <= taken
      /\ \A i, j \in 1..H : i < j => heard[i] < heard[j]
      /\ \A i \in 1..H, m \in 1..L : m % 2 = 0 /\ Ahead(m) => 2 * heard[i] < written[m]
      /\ \A i \in 1..H : heard[i] \in 0..MaxBytes
    BY ElementOfSeq DEF SoundInv, HeardInv, HeardInOrder, ControlInv, TypeOK
<1>6. /\ \A i \in 1..L : written[i] <= taken
      /\ \A i, m \in 1..L : i < m => written[i] < written[m]
    BY DEF SoundInv, BufferInv, Samples
<1>7. ~late => \A m \in 1..L : m % 2 = 0 /\ PreRoll + m <= 2 * head =>
                   \E i \in 1..H : 2 * heard[i] = written[m]
    BY <1>1 DEF SoundInv, PlayedInv
<1> HIDE DEF k, L, H, v
\* AHI is only ahead of what was ahead of it before this step.
<1>8. ASSUME NEW m \in 1..L, Ahead(m)' PROVE Ahead(m) /\ m > k
    BY <1>1, <1>2, <1>4, <1>8 DEF Ahead
<1>9. ASSUME NEW m \in 1..L, m % 2 = 0, PreRoll + m <= 2 * head'
      PROVE  PreRoll + m <= 2 * head \/ m = k
    <2>1. PreRoll + m <= 2 * head + 2
        BY <1>1, <1>2, <1>9
    <2>2. CASE PreRoll + m = 2 * head + 1
        BY <1>2, <1>9, <2>2
    <2>3. CASE PreRoll + m = 2 * head + 2
        BY <1>2, <1>4, <2>3
    <2> QED BY <1>2, <2>1, <2>2, <2>3
<1>10. pc' = "delay" => ahiLen' <= 2 * head' + 2 * wait'
    <2>1. pc = "delay" => wait > 0 /\ ahiLen <= 2 * head + 2 * wait
        BY <1>1 DEF SoundInv, PlayedInv
    <2> QED BY <1>1, <1>2, <2>1
<1>11. CASE k \notin 1..L
    <2>1. heard' = heard
        BY <1>1, <1>2, <1>4, <1>11, ConcatEmptySeq
    <2>2. HeardInv'
        BY <1>1, <1>5, <1>8, <2>1 DEF HeardInv, HeardInOrder, L, H
    <2>3. ASSUME ~late, NEW m \in 1..L, m % 2 = 0, PreRoll + m <= 2 * head'
          PROVE  \E i \in 1..H : 2 * heard[i] = written[m]
        BY <1>7, <1>9, <1>11, <2>3
    <2>4. PlayedInv'
        BY <1>1, <1>10, <2>1, <2>3 DEF PlayedInv, L, H
    <2> QED BY <1>3, <2>2, <2>4 DEF SoundInv
<1>12. CASE k \in 1..L
    <2>1. 2 * v = written[k] /\ v \in Nat /\ v > 0 /\ <<v>> \in Seq(0..MaxBytes) /\ Len(<<v>>) = 1
          /\ <<v>>[1] = v
        BY <1>2, <1>4, <1>12
    <2>2. /\ Len(heard') = H + 1
          /\ \A i \in 1..H + 1 : heard'[i] = IF i <= H THEN heard[i] ELSE <<v>>[i - H]
        <3>1. heard' = heard \o <<v>>
            BY <1>1, <1>4, <1>12
        <3> QED BY <1>2, <2>1, <3>1, ConcatProperties DEF H
    <2>3. \A i \in 1..H : heard'[i] = heard[i]
        <3>1. \A i \in 1..H : i \in 1..H + 1 /\ i <= H
            BY <1>2
        <3> QED BY <2>2, <3>1
    <2>4. heard'[H + 1] = v
        <3>1. H + 1 \in 1..H + 1 /\ ~(H + 1 <= H) /\ (H + 1) - H = 1
            BY <1>2
        <3> QED BY <2>1, <2>2, <3>1
    <2>5. \A i \in 1..H + 1 : i \in 1..H \/ i = H + 1
        BY <1>2
    <2>6. \A i \in 1..H : heard[i] \in Nat /\ heard[i] < v
        <3>1. Ahead(k)
            BY <1>2, <1>4 DEF Ahead
        <3>2. \A i \in 1..H : heard[i] \in Nat /\ 2 * heard[i] < written[k]
            BY <1>2, <1>4, <1>5, <1>12, <3>1
        <3> QED BY <2>1, <3>2
    <2>7. HeardInOrder'
        <3>1. \A i \in 1..H + 1 : heard'[i] > 0
            BY <1>5, <2>1, <2>3, <2>4, <2>5
        <3>2. ASSUME NEW i \in 1..H + 1, NEW j \in 1..H + 1, i < j
              PROVE  heard'[i] < heard'[j]
            <4>1. i \in 1..H
                BY <1>2, <3>2
            <4>2. CASE j \in 1..H
                BY <1>5, <2>3, <3>2, <4>1, <4>2
            <4>3. CASE j = H + 1
                BY <2>3, <2>4, <2>6, <4>1, <4>3
            <4> QED BY <2>5, <4>2, <4>3
        <3> QED BY <2>2, <3>1, <3>2 DEF HeardInOrder
    <2>8. \A i \in 1..H + 1 : 2 * heard'[i] <= taken'
        <3>1. 2 * v <= taken
            BY <1>6, <1>12, <2>1
        <3> QED BY <1>1, <1>5, <2>3, <2>4, <2>5, <3>1
    <2>9. ASSUME NEW i \in 1..H + 1, NEW m \in 1..L, m % 2 = 0, Ahead(m)'
          PROVE  2 * heard'[i] < written[m]
        <3>1. CASE i \in 1..H
            BY <1>5, <1>8, <2>3, <2>9, <3>1
        <3>2. CASE i = H + 1
            BY <1>6, <1>8, <1>12, <2>1, <2>4, <2>9, <3>2
        <3> QED BY <2>5, <3>1, <3>2
    <2>10. HeardInv'
        BY <1>1, <2>2, <2>7, <2>8, <2>9 DEF HeardInv, L
    <2>11. ASSUME ~late, NEW m \in 1..L, m % 2 = 0, PreRoll + m <= 2 * head'
           PROVE  \E i \in 1..H + 1 : 2 * heard'[i] = written[m]
        <3>1. CASE PreRoll + m <= 2 * head
            <4>1. PICK i \in 1..H : 2 * heard[i] = written[m]
                BY <1>7, <2>11, <3>1
            <4>2. i \in 1..H + 1
                BY <1>2
            <4> QED BY <2>3, <4>1, <4>2
        <3>2. CASE m = k
            <4>1. H + 1 \in 1..H + 1
                BY <1>2
            <4> QED BY <2>1, <2>4, <3>2, <4>1
        <3> QED BY <1>9, <2>11, <3>1, <3>2
    <2>12. PlayedInv'
        BY <1>1, <1>10, <2>2, <2>11 DEF PlayedInv, L
    <2> QED BY <1>3, <2>10, <2>12 DEF SoundInv
<1> QED BY <1>11, <1>12

LEMMA SoundStep ==
    ASSUME ControlInv, SoundInv, WholeTakes, [Next]_vars
    PROVE  SoundInv'
<1>0. /\ PreRoll \in Nat /\ PreRoll % 2 = 0 /\ Len(written) \in Nat /\ ahiLen \in 0..Cap
      /\ ahiLen % 2 = 0 /\ Len(written) % 2 = 0 /\ head \in Nat /\ wait \in Nat
    BY PlaybackAssumption, LenProperties DEF ControlInv, TypeOK, SoundInv, BufferInv, EvenInv
\* Where nothing is in the buffer it is silent.
<1>1. ~prerolled => ahiLen = 0 /\ written = <<>> /\ \A k \in 1..Cap : ahiBuf[k] = 0
    <2>1. ~prerolled => ahiLen = 0 /\ written = <<>> /\ Len(<<>>) = 0 /\ 1..0 = {}
        BY EmptySeq DEF ControlInv, RollInv
    <2> QED BY <2>1 DEF SoundInv, BufferInv, HoldsBytes
<1>2. CASE Utterance
    <2>1. ~prerolled
        BY <1>2 DEF Utterance, ControlInv, RollInv
    <2>2. Emptied
        BY <1>1, <1>2, <2>1 DEF Utterance, Emptied
    <2> QED BY <2>2, SoundEmptied
<1>3. CASE Open
    <2>1. pc' # "delay"
        BY <1>3 DEF Open
    <2>2. Emptied
        BY <1>3, <2>1 DEF Open, Emptied, Silence
    <2> QED BY <2>2, SoundEmptied
<1>4. CASE DelayEnds
    <2>1. \A k \in 1..Cap : k > ahiLen => ahiBuf[k] = 0
        <3>1. PreRoll + Len(written) <= ahiLen
            BY <1>4 DEF DelayEnds, ControlInv, RollInv, LenInv
        <3>2. \A k \in 1..Cap : k > ahiLen => k - PreRoll \notin 1..Len(written)
            BY <1>0, <3>1
        <3> QED BY <3>2 DEF SoundInv, BufferInv, HoldsBytes
    <2>2. \A k \in 1..Cap : ahiBuf'[k] = 0
        <3>1. \A k \in 1..Cap : k <= ahiLen \/ k > ahiLen
            BY <1>0
        <3> QED BY <1>4, <2>1, <3>1 DEF DelayEnds, Wipe
    <2>3. pc' # "delay"
        BY <1>4 DEF DelayEnds, ControlInv, TypeOK
    <2>4. Emptied
        BY <1>4, <2>2, <2>3 DEF DelayEnds, Emptied
    <2> QED BY <2>4, SoundEmptied
<1>5. CASE \E n \in 1..MaxPayload : Take(n)
    BY <1>5, SoundTake
<1>6. CASE Mix
    BY <1>6, SoundMix
<1>7. ASSUME pc \in {"header", "payload"}, NEW to \in {"idle", "close"}, Drain(to),
             UNCHANGED <<taken, ahiBuf, written, late, heard>>
      PROVE  SoundInv'
    <2>1. CASE pc' = to /\ UNCHANGED <<wait, ahiPlayStarted, head, ahiLen>>
        BY <1>0, <1>7, <2>1, SoundStill DEF Still, Kick
    <2>2. CASE /\ pc' = "delay" /\ ahiLen' = ahiLen + Fits(PreRoll) /\ Kick
               /\ wait' = IF ahiPlayStarted' THEN PlayTime(ahiLen') ELSE 0
        <3>1. Fits(PreRoll) \in 0..PreRoll /\ Fits(PreRoll) % 2 = 0 /\ ahiLen' \in 0..Cap
            BY <1>0, <2>2, FitsFacts
        <3>2. ahiLen' % 2 = 0
            <4>1. ahiLen \in Nat /\ Fits(PreRoll) \in Nat
                BY <1>0, <3>1
            <4> QED BY <1>0, <2>2, <3>1, <4>1
        <3>3. PlayTime(ahiLen') \in 0..Cap /\ 2 * PlayTime(ahiLen') = ahiLen'
            BY <3>1, <3>2, PlayTimeFacts
        <3>4. head' \in 0..Cap
            BY <2>2, KickTyped DEF ControlInv
        <3>5. ahiPlayStarted' => ahiLen' <= 2 * head' + 2 * wait'
            BY <2>2, <3>1, <3>3, <3>4
        <3> QED BY <1>7, <2>2, <3>2, <3>5, SoundStill DEF Still
    <2> QED BY <1>7, <2>1, <2>2, DrainFacts
<1>8. CASE StreamEnds
    <2>1. "idle" \in {"idle", "close"}
        OBVIOUS
    <2> QED BY <1>7, <1>8, <2>1 DEF StreamEnds
<1>9. CASE \E f \in Formats \cup {Unknown}, n \in Payloads : Header(f, n)
    <2>1. PICK f \in Formats \cup {Unknown}, n \in Payloads : Header(f, n)
        BY <1>9
    <2>2. CASE ahiOpened /\ MustReopen(f) /\ ahiLen > 0
        <3>1. "close" \in {"idle", "close"}
            OBVIOUS
        <3> QED BY <1>7, <2>1, <2>2, <3>1 DEF Header
    <2>3. CASE ~(ahiOpened /\ MustReopen(f) /\ ahiLen > 0)
        <3>1. /\ UNCHANGED <<taken, ahiBuf, written, late, heard, ahiPlayStarted, head, ahiLen>>
              /\ pc' # "delay"
            BY <2>1, <2>3 DEF Header
        <3> QED BY <1>0, <3>1, SoundStill DEF Still, Kick
    <2> QED BY <2>2, <2>3
<1>10. CASE PreRolls
    <2>1. Kick
        BY <1>10, KickFacts DEF PreRolls, Kick
    <2>2. ahiLen' % 2 = 0
        <3>1. CASE prerolled
            BY <1>0, <1>10, <3>1 DEF PreRolls
        <3>2. CASE ~prerolled
            <4>1. ahiLen = 0 /\ PreRoll <= Cap
                BY <1>1, <3>2, PlaybackAssumption
            <4>2. ahiLen' = 0 + PreRoll
                BY <1>0, <1>10, <3>2, <4>1, FitsFacts DEF PreRolls
            <4> QED BY <1>0, <4>2
        <3> QED BY <3>1, <3>2
    <2> QED BY <1>10, <2>1, <2>2, SoundStill DEF PreRolls, Still
<1>11. CASE Unwind \/ Close \/ SessionClose
    <2>1. UNCHANGED <<taken, ahiBuf, written, late, heard, ahiPlayStarted, head, ahiLen>>
          /\ pc' # "delay"
        BY <1>11 DEF Unwind, Close, SessionClose, bufVars, playVars, streamVars
    <2> QED BY <1>0, <2>1, SoundStill DEF Still, Kick
<1>12. CASE MixSilence
    <2>1. /\ UNCHANGED <<taken, ahiBuf, written, late, heard, ahiPlayStarted, head, ahiLen>>
          /\ 2 * head >= Cap /\ wait' = wait - 1 /\ wait > 0
        BY <1>12 DEF MixSilence, bufVars, streamVars
    <2>2. ahiLen <= 2 * head + 2 * wait'
        BY <1>0, <2>1, PlaybackAssumption
    <2> QED BY <1>0, <2>1, <2>2, SoundStill DEF Still, Kick
<1>13. CASE UNCHANGED vars
    <2>1. UNCHANGED <<pc, wait, taken, ahiBuf, written, late, heard, ahiPlayStarted, head, ahiLen>>
        BY <1>13 DEF vars, bufVars, playVars, streamVars
    <2>2. pc = "delay" /\ ahiPlayStarted => ahiLen <= 2 * head + 2 * wait
        BY DEF SoundInv, PlayedInv
    <2> QED BY <1>0, <2>1, <2>2, SoundStill DEF Still, Kick
<1> QED BY <1>2, <1>3, <1>4, <1>5, <1>6, <1>8, <1>9, <1>10, <1>11, <1>12, <1>13 DEF Next

LEMMA SoundCorrect == WholeTakes => (Spec => []SoundInv)
<1> SUFFICES ASSUME WholeTakes PROVE Spec => []SoundInv
    OBVIOUS
<1>1. SoundInv /\ ControlInv /\ [Next]_vars => SoundInv'
    BY SoundStep
<1> QED BY <1>1, SoundInit, ControlCorrect, PTL DEF Spec

LEMMA SoundMeans ==
    ASSUME ControlInv, SoundInv
    PROVE  BufferHoldsSamples /\ HeardInOrder /\ NothingCutOff
<1> DEFINE L == Len(written)
<1>1. /\ L \in Nat /\ L % 2 = 0 /\ PreRoll \in Nat /\ head \in Nat /\ ahiLen \in Nat
    BY LenProperties, PlaybackAssumption DEF ControlInv, TypeOK, SoundInv, BufferInv, EvenInv
<1>2. BufferHoldsSamples
    <2> SUFFICES ASSUME NEW k \in 1..Cap
                 PROVE  LET i == k - PreRoll
                            swapped == IF i % 2 = 1 THEN i + 1 ELSE i - 1
                        IN  IF i \in 1..2 * (Len(written) \div 2)
                            THEN ahiBuf[k] = written[swapped]
                            ELSE i \notin 1..Len(written) => ahiBuf[k] = 0
        BY DEF BufferHoldsSamples
    <2>1. 2 * (L \div 2) = L
        BY <1>1, HalfFacts
    <2>2. IF k - PreRoll \in 1..L THEN ahiBuf[k] = written[Swapped(k - PreRoll)]
          ELSE ahiBuf[k] = 0
        BY DEF SoundInv, BufferInv, HoldsBytes
    <2> QED BY <2>1, <2>2 DEF Swapped
<1>3. HeardInOrder
    BY DEF SoundInv, HeardInv
<1>4. ASSUME pc = "delay", wait = 0, ahiPlayStarted, ~late,
             NEW i \in 1..L, written[i] % 2 = 0
      PROVE  \E j \in 1..Len(heard) : heard[j] = written[i] \div 2
    <2>1. i % 2 = 0
        BY <1>4 DEF SoundInv, BufferInv, Samples
    <2>2. PreRoll + L <= ahiLen /\ ahiLen <= 2 * head + 2 * wait
        BY <1>4 DEF ControlInv, RollInv, LenInv, SoundInv, PlayedInv
    <2>3. PreRoll + i <= 2 * head
        <3> HIDE DEF L
        <3> QED BY <1>1, <1>4, <2>2
    <2>4. PICK m \in 1..Len(heard) : 2 * heard[m] = written[i]
        BY <1>4, <2>1, <2>3 DEF SoundInv, PlayedInv
    <2>5. heard[m] \in 0..MaxBytes /\ written[i] \in 1..MaxBytes
        BY ElementOfSeq DEF ControlInv, TypeOK
    <2>6. heard[m] = written[i] \div 2
        BY <2>4, <2>5, PlaybackAssumption
    <2> QED BY <2>6
<1>5. NothingCutOff
    BY <1>4 DEF NothingCutOff
<1> QED BY <1>2, <1>3, <1>5

\* When recv() delivers whole samples, the buffer is at all times the pre-roll,
\* the samples of the utterance in order and in AHI's byte order, and silence,
\* for any way the payloads are cut and a buffer of any size.
THEOREM BufferCorrect == WholeTakes => (Spec => []BufferHoldsSamples)
<1> SUFFICES ASSUME WholeTakes PROVE Spec => []BufferHoldsSamples
    OBVIOUS
<1>1. ControlInv /\ SoundInv => BufferHoldsSamples
    BY SoundMeans
<1> QED BY <1>1, ControlCorrect, SoundCorrect, PTL

\* While ahi_write stores samples under AHI's play position and ahi_drain stops
\* and restarts it, what is heard are whole samples, in order, none twice.
THEOREM OrderHeard == WholeTakes => (Spec => []HeardInOrder)
<1> SUFFICES ASSUME WholeTakes PROVE Spec => []HeardInOrder
    OBVIOUS
<1>1. ControlInv /\ SoundInv => HeardInOrder
    BY SoundMeans
<1> QED BY <1>1, ControlCorrect, SoundCorrect, PTL

\* The Delay() of ahi_drain is long enough for every sample stored in time,
\* whenever in the utterance AHI was started.
THEOREM DrainedToTheEnd == WholeTakes => (Spec => []NothingCutOff)
<1> SUFFICES ASSUME WholeTakes PROVE Spec => []NothingCutOff
    OBVIOUS
<1>1. ControlInv /\ SoundInv => NothingCutOff
    BY SoundMeans
<1> QED BY <1>1, ControlCorrect, SoundCorrect, PTL
=============================================================================
