---------------------------- MODULE AhiPlayback ----------------------------
(***************************************************************************)
(* The audio path of the device task: the payloads of session_send_recv    *)
(* (nw_engine.c) go through play_payload and ahi_write into one dynamic    *)
(* sample buffer which AHI plays while it is still being written; ahi_open *)
(* and ahi_close bracket it, ahi_drain ends each utterance.                *)
(*                                                                         *)
(* The payload bytes of an utterance are numbered from 1: sample n is      *)
(* byte 2n-1 (low) followed by byte 2n (high), as Wyoming sends it.  The   *)
(* buffer holds these numbers, 0 being a byte of silence.                  *)
(***************************************************************************)
EXTENDS Integers, Sequences, SequencesExt

CONSTANTS
    Cap,         \* AHIBUFSZ, in bytes
    HeadStart,   \* AHI_HEADSTART, in bytes
    PreRoll,     \* the silence before and after an utterance, in bytes
    Formats,     \* rate and channels of the voices a server has
    MaxPayload,  \* bound on the bytes of a payload
    MaxBytes,    \* bound on the payload bytes of an utterance
    WholeTakes   \* recv() never ends in the middle of a sample

ASSUME PlaybackAssumption ==
    /\ Cap \in Nat /\ PreRoll \in Nat \ {0} /\ HeadStart \in Nat
    /\ Cap % 2 = 0 /\ PreRoll % 2 = 0 /\ PreRoll < HeadStart /\ HeadStart <= Cap
    /\ MaxPayload \in Nat /\ MaxBytes \in Nat /\ WholeTakes \in BOOLEAN

CONSTANT Unknown    \* a header without rate, width or channels
ASSUME UnknownAssumption == Unknown \notin Formats

VARIABLES
    pc,             \* where session_send_recv is; "idle" between utterances
    after,          \* where ahi_drain returns to
    fmt,            \* format of the payload being read
    left,           \* its bytes still to be read
    taken,          \* payload bytes read in this utterance
    held,           \* how many of the Resources ahi_open has acquired
    ahiFmt,         \* rate and ahiType
    ahiBuf,
    ahiLen,
    ahiPlayStarted,
    prerolled,
    wait,           \* samples ahi_drain's Delay() still lasts
    head,           \* samples AHI has played since AHI_Play
    written,        \* the payload bytes stored in the buffer
    heard,          \* the samples AHI played in this utterance, 0 for noise
    late,           \* bytes were stored behind AHI's play position
    captureFh,      \* the WAV capture file is open
    captured        \* what it got of this utterance

streamVars == <<pc, after, fmt, left, taken>>
bufVars    == <<ahiBuf, ahiLen, written, late>>
playVars   == <<ahiPlayStarted, wait, head, heard>>
captureVars == <<captureFh, captured>>
vars == <<streamVars, held, ahiFmt, prerolled, bufVars, playVars, captureVars>>

\* In the order ahi_open acquires them; ahi_close frees those acquired.
Resources == <<"buffer", "port", "request", "device", "dos", "audio", "sound">>
ahiOpened  == held >= 4
ahiAlloced == held >= 6
ahiLoaded  == held = Len(Resources)

Silence == [k \in 1..Cap |-> 0]
Stale   == MaxBytes + 1     \* a byte of an earlier utterance

Init ==
    /\ pc = "idle" /\ after = "idle" /\ fmt = Unknown /\ left = 0 /\ taken = 0
    /\ held = 0 /\ ahiFmt = Unknown
    /\ ahiBuf = Silence /\ ahiLen = 0 /\ written = <<>> /\ late = FALSE
    /\ ahiPlayStarted = FALSE /\ prerolled = FALSE
    /\ wait = 0 /\ head = 0 /\ heard = <<>>
    /\ captureFh = FALSE /\ captured = <<>>

-----------------------------------------------------------------------------
(* ahi_start_play, ahi_write, ahi_open and ahi_close.                      *)

\* AHI_ControlAudio may refuse; the next write tries again.
ahi_start_play ==
    \/ ahiLoaded /\ ahiPlayStarted' = TRUE /\ head' = 0
    \/ UNCHANGED <<ahiPlayStarted, head>>

StartAt(len) ==
    IF ~ahiPlayStarted /\ len >= HeadStart THEN ahi_start_play
    ELSE UNCHANGED <<ahiPlayStarted, head>>

\* Mutant: the capacity of the buffer is not looked at.
FitsAlways(n) == n

\* What exceeds the buffer is dropped.
Fits(n) == IF ahiLen + n > Cap THEN Cap - ahiLen ELSE n

\* Mutant: the samples are copied without swapping their bytes.
CopyPlain(at, from, n) ==
    [k \in 1..Cap |-> IF k - at \in 1..2 * (n \div 2) THEN from + k - at ELSE ahiBuf[k]]

\* Copies the bytes from+1..from+n to position at; an odd last byte is left out.
copy_swap16(at, from, n) ==
    [k \in 1..Cap |->
        LET i == k - at
        IN  IF i \notin 1..2 * (n \div 2) THEN ahiBuf[k]
            ELSE IF i % 2 = 1 THEN from + i + 1 ELSE from + i - 1]

Bytes(n) == [i \in 1..n |-> taken + i]

\* Mutant: the tap comes before the check of the buffer's capacity.
CapturedTooMuch(n) == Bytes(n)

\* The tap gets what the buffer gets.
CapturedOf(n) == Bytes(Fits(n))

\* capture_open and capture_write: the file is opened with the first bytes; if
\* that fails, the next write tries again.
Capture(n) ==
    /\ captureFh' \in {captureFh, TRUE}
    /\ captured' = IF captureFh' THEN captured \o CapturedOf(n) ELSE captured

ahi_write(n) ==
    LET len == Fits(n)
    IN  /\ ahiBuf' = copy_swap16(ahiLen, taken, len)
        /\ ahiLen' = ahiLen + len
        /\ written' = written \o Bytes(len)
        /\ late' = (late \/ (len > 0 /\ ahiPlayStarted /\ 2 * head > ahiLen))
        /\ IF len > 0 THEN Capture(n) ELSE UNCHANGED captureVars
        /\ StartAt(ahiLen + len)

\* ahi_open: any of its steps may fail, then ahi_close frees what it has.
Open ==
    /\ pc = "open"
    /\ \E k \in 0..Len(Resources) :
          /\ held' = k
          /\ pc' = IF k = Len(Resources) THEN "preroll" ELSE "unwind"
    /\ ahiFmt' = fmt /\ ahiLen' = 0 /\ prerolled' = FALSE /\ ahiPlayStarted' = FALSE
    /\ ahiBuf' = Silence /\ written' = <<>> /\ late' = FALSE
    /\ UNCHANGED <<after, fmt, left, taken, wait, head, heard, captureVars>>

\* Mutant: a failed ahi_open is not followed by ahi_close.
UnwindNot ==
    /\ pc = "unwind"
    /\ pc' = "payload"
    /\ UNCHANGED <<after, fmt, left, taken, held, ahiFmt, prerolled, bufVars, playVars,
                   captureVars>>

Unwind ==
    /\ pc = "unwind"
    /\ held' = 0 /\ pc' = "payload"
    /\ UNCHANGED <<after, fmt, left, taken, ahiFmt, prerolled, bufVars, playVars,
                   captureVars>>

\* The rest of ahi_close, after its ahi_drain.
Close ==
    /\ pc = "close"
    /\ held' = 0 /\ pc' = IF fmt = Unknown THEN "payload" ELSE "open"
    /\ UNCHANGED <<after, fmt, left, taken, ahiFmt, prerolled, bufVars, playVars,
                   captureVars>>

-----------------------------------------------------------------------------
(* ahi_drain.                                                              *)

\* Playback is kicked off with whatever there is.
ForcePlay == IF ahiPlayStarted THEN UNCHANGED <<ahiPlayStarted, head>> ELSE ahi_start_play

\* Mutant: samples taken for four bytes.
PlayTimeOfHalf(len) == len \div 4

\* Delay() from now on for the length of everything written, as if nothing of
\* it had been played yet.
PlayTime(len) == len \div 2

Drain(to) ==
    IF ~ahiAlloced \/ ahiLen = 0
    THEN /\ pc' = to /\ prerolled' = FALSE
         /\ UNCHANGED <<after, wait, ahiPlayStarted, head, ahiLen>>
    ELSE /\ ahiLen' = IF prerolled THEN ahiLen + Fits(PreRoll) ELSE ahiLen
         /\ ForcePlay
         /\ pc' = "delay" /\ after' = to
         /\ wait' = IF ahiPlayStarted' THEN PlayTime(ahiLen') ELSE 0
         /\ UNCHANGED prerolled

\* Mutant: only what AHI had not played yet is zeroed.
WipeTail == [k \in 1..Cap |-> IF k \in 2 * head + 1..ahiLen THEN 0 ELSE ahiBuf[k]]

\* The region written is zeroed for the next utterance.
Wipe == [k \in 1..Cap |-> IF k <= ahiLen THEN 0 ELSE ahiBuf[k]]

DelayEnds ==
    /\ pc = "delay" /\ wait = 0
    /\ ahiBuf' = Wipe /\ written' = <<>> /\ late' = FALSE
    /\ ahiLen' = 0 /\ prerolled' = FALSE /\ ahiPlayStarted' = FALSE
    /\ pc' = after
    /\ UNCHANGED <<after, fmt, left, taken, held, ahiFmt, wait, head, heard, captureVars>>

-----------------------------------------------------------------------------
(* The receive loop of session_send_recv.                                  *)

Utterance ==
    /\ pc = "idle"
    /\ pc' = "header" /\ taken' = 0 /\ heard' = <<>> /\ fmt' = Unknown /\ captured' = <<>>
    /\ ahiBuf' = [k \in 1..Cap |-> IF ahiBuf[k] = 0 THEN 0 ELSE Stale]
    /\ UNCHANGED <<after, left, held, ahiFmt, ahiLen, written, late, prerolled,
                   ahiPlayStarted, wait, head, captureFh>>

\* Mutant: a change of format is noticed only between utterances.
MustReopenFirst(f) == ahiFmt # f /\ taken = 0

\* The open AHI does not fit the payload.
MustReopen(f) == ahiFmt # f

\* An audio-chunk header: n bytes of payload in format f.
Header(f, n) ==
    /\ pc = "header" /\ taken + n <= MaxBytes
    /\ fmt' = f /\ left' = n
    /\ IF ahiOpened /\ MustReopen(f)
       THEN IF ahiLen > 0 THEN Drain("close")
            ELSE pc' = "close" /\ UNCHANGED <<after, wait, ahiPlayStarted, head, ahiLen,
                                              prerolled>>
       ELSE /\ pc' = IF ahiOpened THEN "preroll"
                     ELSE IF f = Unknown THEN "payload" ELSE "open"
            /\ UNCHANGED <<after, wait, ahiPlayStarted, head, ahiLen, prerolled>>
    /\ UNCHANGED <<taken, held, ahiFmt, ahiBuf, written, late, heard, captureVars>>

\* Silence at the start of the utterance; MEMF_CLEAR has already written it.
PreRolls ==
    /\ pc = "preroll"
    /\ pc' = "payload" /\ prerolled' = TRUE
    /\ IF prerolled THEN UNCHANGED <<ahiLen, ahiPlayStarted, head>>
       ELSE ahiLen' = ahiLen + Fits(PreRoll) /\ StartAt(ahiLen')
    /\ UNCHANGED <<after, fmt, left, taken, held, ahiFmt, ahiBuf, written, late, wait,
                   heard, captureVars>>

\* play_payload: what recv() has of the payload is handed on.
Take(n) ==
    /\ pc = "payload" /\ n <= left /\ (WholeTakes => n % 2 = 0)
    /\ IF ahiOpened THEN ahi_write(n)
       ELSE UNCHANGED <<bufVars, ahiPlayStarted, head, captureVars>>
    /\ taken' = taken + n /\ left' = left - n
    /\ pc' = IF left = n THEN "header" ELSE "payload"
    /\ UNCHANGED <<after, fmt, held, ahiFmt, prerolled, wait, heard>>

\* The last audio-stop, or the connection ends here or in the payload.
StreamEnds ==
    /\ pc \in {"header", "payload"}
    /\ Drain("idle")
    /\ left' = 0
    /\ UNCHANGED <<fmt, taken, held, ahiFmt, ahiBuf, written, late, heard, captureVars>>

\* CloseDevice: session_close, then a new session.
SessionClose ==
    /\ pc = "idle"
    /\ held' = 0 /\ captureFh' = FALSE
    /\ UNCHANGED <<streamVars, ahiFmt, prerolled, bufVars, playVars, captured>>

-----------------------------------------------------------------------------
(* AHI plays the buffer, one sample after the other, as it stands.         *)

Word == <<ahiBuf[2 * head + 1], ahiBuf[2 * head + 2]>>
Sounds(w) == CASE w = <<0, 0>> -> <<>>
               [] w[1] = w[2] + 1 /\ w[1] % 2 = 0 /\ w[2] > 0 -> <<w[1] \div 2>>
               [] OTHER -> <<0>>

Mix ==
    /\ ahiPlayStarted /\ 2 * head < Cap
    /\ pc = "delay" => wait > 0
    /\ head' = head + 1
    /\ heard' = heard \o Sounds(Word)
    /\ wait' = IF wait > 0 THEN wait - 1 ELSE 0
    /\ UNCHANGED <<streamVars, held, ahiFmt, prerolled, bufVars, ahiPlayStarted,
                   captureVars>>

\* The end of the buffer was played; time goes on.
MixSilence ==
    /\ pc = "delay" /\ 2 * head >= Cap /\ wait > 0
    /\ wait' = wait - 1
    /\ UNCHANGED <<streamVars, held, ahiFmt, prerolled, bufVars, ahiPlayStarted, head,
                   heard, captureVars>>

Payloads == {n \in 1..MaxPayload : n % 2 = 0}

Next ==
    \/ Utterance \/ StreamEnds \/ Open \/ Unwind \/ Close \/ DelayEnds \/ PreRolls
    \/ SessionClose \/ Mix \/ MixSilence
    \/ \E f \in Formats \cup {Unknown}, n \in Payloads : Header(f, n)
    \/ \E n \in 1..MaxPayload : Take(n)

Spec == Init /\ [][Next]_vars

-----------------------------------------------------------------------------
(* Properties.                                                             *)

\* The values the variables range over.
TypeOK ==
    /\ pc \in {"idle", "header", "open", "unwind", "close", "preroll", "payload", "delay"}
    /\ after \in {"idle", "close"} /\ fmt \in Formats \cup {Unknown}
    /\ left \in 0..MaxPayload /\ taken \in 0..MaxBytes /\ held \in 0..Len(Resources)
    /\ ahiFmt \in Formats \cup {Unknown}
    /\ ahiBuf \in [1..Cap -> 0..Stale] /\ ahiLen \in 0..Cap
    /\ ahiPlayStarted \in BOOLEAN /\ prerolled \in BOOLEAN /\ late \in BOOLEAN
    /\ wait \in 0..Cap /\ head \in 0..Cap /\ written \in Seq(1..MaxBytes)
    /\ heard \in Seq(0..MaxBytes) /\ captureFh \in BOOLEAN /\ captured \in Seq(1..MaxBytes)

\* Whatever pieces recv() cuts the payloads into, the buffer is the pre-roll
\* followed by the samples in order, each whole and in AHI's byte order, and
\* silence after them.
BufferHoldsSamples ==
    \A k \in 1..Cap :
        LET i == k - PreRoll
            swapped == IF i % 2 = 1 THEN i + 1 ELSE i - 1
        IN  IF i \in 1..2 * (Len(written) \div 2) THEN ahiBuf[k] = written[swapped]
            ELSE i \notin 1..Len(written) => ahiBuf[k] = 0

\* What comes out of the speaker are whole samples of this utterance, in order
\* and none twice, while the buffer is written under AHI's read position.
HeardInOrder ==
    \A i, j \in 1..Len(heard) : heard[i] > 0 /\ (i < j => heard[i] < heard[j])

\* When ahi_drain stops the channel, AHI has played every sample stored in time.
NothingCutOff ==
    pc = "delay" /\ wait = 0 /\ ahiPlayStarted /\ ~late =>
        \A i \in 1..Len(written) : written[i] % 2 = 0 =>
            \E j \in 1..Len(heard) : heard[j] = written[i] \div 2

\* The capture file gets the payload as it came, byte for byte what the buffer
\* gets and without the pre-roll, over a change of format and with a buffer
\* that is full; if the file could be opened only later, from there on.
CaptureFollowsBuffer ==
    captured # <<>> => IsSuffix(written, captured) \/ IsSuffix(captured, written)

\* AHI is open with everything it needs or holds nothing, whichever step of
\* ahi_open failed.
NoHalfOpen ==
    pc \in {"idle", "header", "payload", "preroll"} => held \in {0, Len(Resources)}

\* A payload is only ever played in its own format.
RightFormat ==
    pc \in {"preroll", "payload"} /\ ahiOpened => ahiFmt = fmt
=============================================================================
