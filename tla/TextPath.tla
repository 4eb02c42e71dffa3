------------------------------ MODULE TextPath ------------------------------
(***************************************************************************)
(* The way of a text from an application to the synthesize requests:       *)
(* Translate of translator.library (translator_library.c), called again    *)
(* from where it stopped until all of the text has been through its        *)
(* buffer, one CMD_WRITE for each buffer, and in the device task           *)
(* nw_transcode_to_utf8 and nw_split (nw_engine.c).                        *)
(*                                                                         *)
(* A text is a sequence of classes of bytes: those nw_split and the UTF-8  *)
(* check tell apart.  Of the UTF-8 sequences of two and more bytes the two *)
(* byte ones stand for all: a lead byte and a continuation byte.           *)
(***************************************************************************)
EXTENDS Integers, Sequences, FiniteSetsExt, SequencesExt

CONSTANTS
    MaxText,    \* bound on the bytes of the text
    BufferLens, \* sizes of the buffer for Translate (of one byte: nothing to resume at)
    MaxWords,   \* split_words of the prefs, 0 = off
    MaxSeg      \* NW_MAXSEG

ASSUME TextAssumption ==
    /\ MaxText \in Nat /\ BufferLens \subseteq Int
    /\ MaxWords \in Nat /\ MaxSeg \in Nat \ {0}

Blank      == " "
Stops      == {"."}     \* . ! ?
Pauses     == {","}     \* , ; :
Closers    == {")"}     \* quotes and brackets
Lead       == "C3"
Trail      == "A9"
ByteClass  == {"a", Blank, Lead, Trail} \cup Stops \cup Pauses \cup Closers

VARIABLES text, capacity, pos, stage, writes, requests, codesets
    \* pos: bytes of text translated so far; writes: the text of each CMD_WRITE
    \* so far; requests: for each of them already served, its chunks; codesets:
    \* whether codesets.library, which is optional, could convert its text

vars == <<text, capacity, pos, stage, writes, requests, codesets>>

-----------------------------------------------------------------------------
(* Translate: its buffer and its result.                                   *)

\* Mutant: the terminator is not taken into account when resuming.
TranslateResumeLate(english, bufferLen) ==
    LET i == IF Len(english) < bufferLen - 1 THEN Len(english) ELSE bufferLen - 1
    IN  [buffer |-> SubSeq(english, 1, i), rtn |-> IF i < Len(english) THEN -(i + 1) ELSE 0]

Translate(english, bufferLen) ==
    LET i == IF Len(english) < bufferLen - 1 THEN Len(english) ELSE bufferLen - 1
    IN  IF bufferLen <= 0 THEN [buffer |-> <<>>, rtn |-> 0]
        ELSE [buffer |-> SubSeq(english, 1, i),
              rtn |-> IF i < Len(english) THEN -i ELSE 0]

-----------------------------------------------------------------------------
(* nw_transcode_to_utf8.                                                   *)

is_valid_utf8(t) ==
    /\ \A i \in 1..Len(t) : t[i] = Lead => i + 1 \in 1..Len(t) /\ t[i + 1] = Trail
    /\ \A i \in 1..Len(t) : t[i] = Trail => i > 1 /\ t[i - 1] = Lead

\* codesets.library turns each byte of ISO-8859-1 above 127 into two.
FromIso(t) ==
    FlattenSeq([i \in 1..Len(t) |-> IF t[i] \in {Lead, Trail} THEN <<Lead, Trail>> ELSE <<t[i]>>])

\* Mutant: the check lets a character pass that the end of the text cuts short.
TranscodeUnlessCut(t, converts) ==
    IF is_valid_utf8(t) \/ is_valid_utf8(SubSeq(t, 1, Len(t) - 1)) \/ ~converts THEN t
    ELSE FromIso(t)

\* Without codesets.library or one of its codesets, and when the conversion
\* fails, the text is passed through as it is.
nw_transcode_to_utf8(t, converts) ==
    IF is_valid_utf8(t) \/ ~converts THEN t ELSE FromIso(t)

-----------------------------------------------------------------------------
(* nw_split: the chunks as pairs of their first and last position.         *)

\* A word ends at byte i.
EndsWord(t, i) == t[i] # Blank /\ (i < Len(t) => t[i + 1] = Blank)

\* The last byte of the word that ends at we, once closing quotes and brackets
\* are peeled off, but not beyond the start of the chunk.
LastOf(t, segStart, we) ==
    t[Max({segStart} \cup {i \in segStart..we : t[i] \notin Closers})]

\* Mutant: a long run without punctuation is cut at a word.
BreaksAnywhere(last, words) == last \in Stops \/ words >= MaxWords

BreaksAt(last, words) ==
    \/ last \in Stops
    \/ last \in Pauses /\ words >= MaxWords

RoomFor(chunks) == Len(chunks) < MaxSeg - 1

\* Mutant: the blank after the word is dropped with the break.
NextStartSkipping(we) == we + 2

NextStart(we) == we + 1

SplitWord(t, acc, we) ==
    LET words == acc.words + 1
    IN  IF BreaksAt(LastOf(t, acc.start, we), words) /\ RoomFor(acc.chunks)
        THEN [chunks |-> Append(acc.chunks, <<acc.start, we>>),
              start |-> NextStart(we), words |-> 0]
        ELSE [acc EXCEPT !.words = words]

nw_split(t) ==
    IF MaxWords <= 0 \/ MaxSeg <= 1 THEN << <<1, Len(t)>> >>
    ELSE LET after[i \in 0..Len(t)] ==     \* the loop's state behind byte i
                 IF i = 0 THEN [chunks |-> <<>>, start |-> 1, words |-> 0]
                 ELSE IF EndsWord(t, i) THEN SplitWord(t, after[i - 1], i) ELSE after[i - 1]
             acc == after[Len(t)]
             all == IF acc.start <= Len(t) THEN Append(acc.chunks, <<acc.start, Len(t)>>)
                    ELSE acc.chunks
         IN  IF all = <<>> THEN << <<1, Len(t)>> >> ELSE all

Chunks(t) ==
    LET split == nw_split(t)
    IN  [k \in 1..Len(split) |-> SubSeq(t, split[k][1], split[k][2])]

-----------------------------------------------------------------------------
Init ==
    /\ text \in UNION {[1..n -> ByteClass] : n \in 0..MaxText}
    /\ capacity \in BufferLens
    /\ pos = 0 /\ stage = "translate" /\ writes = <<>> /\ requests = <<>>
    /\ codesets = <<>>

\* The application, as docs/translator-library.md describes it: translate, write
\* what came out, resume at the position the result names.
TranslateNext ==
    /\ stage = "translate"
    /\ LET r == Translate(SubSeq(text, pos + 1, Len(text)), capacity)
       IN  /\ writes' = Append(writes, r.buffer)
           /\ pos' = IF r.rtn < 0 THEN pos - r.rtn ELSE Len(text)
           /\ stage' = "write"
    /\ UNCHANGED <<text, capacity, requests, codesets>>

\* nw_do_write and session_send_recv; an empty text is answered at once.
Write ==
    /\ stage = "write"
    /\ \E converts \in BOOLEAN :
          LET t == Last(writes)
          IN  /\ requests' = Append(requests, IF t = <<>> THEN <<>>
                                              ELSE Chunks(nw_transcode_to_utf8(t, converts)))
              /\ codesets' = Append(codesets, converts)
    /\ stage' = IF pos < Len(text) THEN "translate" ELSE "done"
    /\ UNCHANGED <<text, capacity, pos, writes>>

Next == TranslateNext \/ Write
Spec == Init /\ [][Next]_vars

-----------------------------------------------------------------------------
(* Properties.                                                             *)

\* What the application is told was translated has been written, nothing twice
\* and nothing left out, wherever the buffer cut the text.
WholeTextWritten == stage = "done" => FlattenSeq(writes) = text

\* The chunks of a write put together are its text, converted or not; none is
\* empty, and they fit off[] and len[] of session_send_recv however many breaks
\* the text has.
ChunksPartitionText ==
    \A k \in 1..Len(requests) :
        /\ FlattenSeq(requests[k]) = nw_transcode_to_utf8(writes[k], codesets[k])
        /\ <<>> \notin Range(requests[k]) /\ Len(requests[k]) <= MaxSeg

\* A write that is UTF-8 is sent as it is, never encoded twice.  One that is not,
\* for the buffer of Translate may have been full in the middle of a character,
\* is sent as UTF-8 if codesets.library can convert it, and as it is if not.
\* What is UTF-8 as a whole is so chunk by chunk: each is a request by itself.
Utf8OrAsWritten ==
    \A k \in 1..Len(requests) :
        /\ is_valid_utf8(writes[k]) \/ codesets[k] =>
              \A c \in 1..Len(requests[k]) : is_valid_utf8(requests[k][c])
        /\ is_valid_utf8(writes[k]) \/ ~codesets[k] =>
              FlattenSeq(requests[k]) = writes[k]

\* A chunk ends where the voice pauses: after the punctuation of a word, whose
\* closing brackets stay with it; the next chunk starts with the blank.
BreaksInPauses ==
    \A k \in 1..Len(requests) : \A c \in 1..Len(requests[k]) - 1 :
        LET chunk == requests[k][c]
        IN  /\ Head(requests[k][c + 1]) = Blank
            /\ \E i \in 1..Len(chunk) :
                  /\ chunk[i] \in Stops \cup Pauses
                  /\ \A j \in i + 1..Len(chunk) : chunk[j] \in Closers
=============================================================================
