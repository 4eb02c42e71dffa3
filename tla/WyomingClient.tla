---------------------------- MODULE WyomingClient ----------------------------
(***************************************************************************)
(* The two client programs that speak Wyoming without the device: the      *)
(* latency probe (main.c, wyomingtest) and saytest.c, on the event reader  *)
(* of wyoming.c, the network back ends net_amiga.c and net_posix.c and the *)
(* audio sinks audio_ahi.c and audio_host.c.                               *)
(*                                                                         *)
(* A response is a sequence of units, each a run of bytes that the reader  *)
(* tells apart: a header line, its newline, a data block, and the pieces   *)
(* of a payload.  recv() returns any part of what the server sent, and the *)
(* server may end the connection after any unit.                           *)
(*                                                                         *)
(* Header lines are shorter than the line buffer and not empty.            *)
(***************************************************************************)
EXTENDS Naturals, Sequences, SequencesExt, FiniteSetsExt

CONSTANTS
    Runs,       \* --runs of the probe
    Payload,    \* units of audio in an audio-chunk
    Piece,      \* units in a buffer of CHUNK_BUF bytes
    RbufRoom,   \* units in rbuf
    SinkRoom    \* units in the sample buffer of audio_ahi.c

ASSUME ClientAssumption ==
    {Runs, Payload, Piece, RbufRoom, SinkRoom} \subseteq Nat \ {0}

VARIABLES
    prog,       \* "probe" or "say"
    amiga,      \* built with the Amiga back ends
    pc, run,
    held,       \* what was acquired and not released
    stream,     \* what the server still has to send on this connection
    ending,     \* how the server ended it: "none", "fin", "reset", "hung"
    rbuf,       \* received, not yet consumed; static, kept between connections
    hdr,        \* event of the last whole header line, still on the stack
    line,       \* the header line being read
    event,      \* the event being handled
    left,       \* units of its payload to come
    piece,      \* units of the piece wyo_read_payload is reading
    got,        \* audio this run counted (pcm_bytes, total)
    sink,       \* audio written: the PCM file of the probe, the sink of saytest
    opened,     \* saytest: audio_open "not" called, "ok" or "failed"
    status,     \* result of the last run
    rc,         \* exit code of the program
    mishap      \* what went wrong in this run: "none", "cut" inside a header
                \* line, or "other" (ghost)

netVars  == <<stream, ending, rbuf>>
readVars == <<hdr, line, event, left, piece, mishap>>
outVars  == <<got, sink, opened>>
vars == <<prog, amiga, pc, run, held, netVars, readVars, outVars, status, rc>>

-----------------------------------------------------------------------------
(* The server's answer: an audio-start, audio-chunks that carry a data     *)
(* block, audio-stop, and events the client does not know ("info" has a    *)
(* payload, "note" has none), the last of them after the audio-stop.       *)

Script == <<"start", "chunk", "info", "chunk", "note", "stop", "note">>

HasData(kind)   == kind = "chunk"
PayloadOf(kind) == CASE kind = "chunk" -> Payload [] kind = "info" -> Piece + 1 [] OTHER -> 0

Unit(part, kind, r, n) == [part |-> part, kind |-> kind, run |-> r, n |-> n]

\* The i-th event of the answer to run r; n numbers the audio of the answer.
WireEvent(r, i) ==
    LET kind == Script[i]
        before == Payload * Cardinality({j \in 1..(i - 1) : Script[j] = "chunk"})
    IN  <<Unit("head", kind, r, 0), Unit("newline", kind, r, 0)>>
        \o (IF HasData(kind) THEN <<Unit("data", kind, r, 0)>> ELSE <<>>)
        \o [n \in 1..PayloadOf(kind) |->
              Unit(IF kind = "chunk" THEN "pcm" ELSE "junk", kind, r, before + n)]

Wire(r) == FlattenSeq([i \in DOMAIN Script |-> WireEvent(r, i)])

\* The audio of the answer to run r.
Speech(r) ==
    [n \in 1..Payload * Cardinality({i \in DOMAIN Script : Script[i] = "chunk"}) |->
        Unit("pcm", "chunk", r, n)]

-----------------------------------------------------------------------------
(* Resources.                                                              *)

TimerParts == <<"timer_port", "timer_req", "timer_device">>
AhiParts   == <<"port", "req", "device", "ctrl", "buffer", "sound">>
NetParts   == {"bsdsocket"} \cup ToSet(TimerParts)
SinkParts  == {"wav"} \cup ToSet(AhiParts)

Init ==
    /\ prog \in {"probe", "say"} /\ amiga \in BOOLEAN
    /\ pc = "net_init" /\ run = 0 /\ held = {}
    /\ stream = <<>> /\ ending = "none" /\ rbuf = <<>>
    /\ hdr = "none" /\ line = "none" /\ event = "none" /\ left = 0 /\ piece = <<>>
    /\ got = <<>> /\ sink = <<>> /\ opened = "not"
    /\ status = "none" /\ rc = 0 /\ mishap = "none"

Goto(from, to) ==
    /\ pc = from /\ pc' = to
    /\ UNCHANGED <<prog, amiga>>

Quiet == UNCHANGED <<netVars, readVars, outVars>>

\* net_cleanup.
Cleanup(h) == h \ NetParts

\* net_init.  The timer is best effort.
NetInit ==
    /\ \/ /\ Goto("net_init", IF prog = "probe" THEN "outfile" ELSE "buf")
          /\ \E t \in Prefixes(TimerParts) :
                held' = IF amiga THEN {"bsdsocket"} \cup ToSet(t) ELSE {}
          /\ UNCHANGED rc
       \/ /\ amiga /\ Goto("net_init", "done")
          /\ rc' = 1 /\ UNCHANGED held
    /\ Quiet /\ UNCHANGED <<run, status>>

OpenOutFile ==
    /\ \/ /\ Goto("outfile", "connect")
          /\ held' \in {held, held \cup {"file"}}
          /\ UNCHANGED rc
       \/ /\ Goto("outfile", "done")
          /\ rc' = 1 /\ held' = Cleanup(held)
    /\ Quiet /\ UNCHANGED <<run, status>>

\* After run r the probe goes on to the next one, or ends.
AfterRun(r) == IF r < Runs THEN "connect" ELSE "exit"

\* Run r fails before its first event, with h acquired for it: do_run returns
\* -1, saytest ends.
GiveUp(from, h, r) ==
    /\ Goto(from, IF prog = "probe" THEN AfterRun(r) ELSE "done")
    /\ held' = IF prog = "probe" THEN held \ h ELSE Cleanup(held \ h)
    /\ status' = "failed" /\ rc' = 1 /\ run' = r /\ got' = <<>>
    /\ mishap' = "other"
    /\ UNCHANGED <<netVars, hdr, line, event, left, piece, sink, opened>>

\* do_run gets its buffer after the connection, saytest before.
GetBuf ==
    \/ /\ Goto("buf", IF prog = "probe" THEN "send" ELSE "connect")
       /\ held' = held \cup {"buf"}
       /\ Quiet /\ UNCHANGED <<run, status, rc>>
    \/ GiveUp("buf", {"sock"}, run)

\* A new connection; the server will answer in full or end it.
Connect ==
    \/ /\ Goto("connect", IF prog = "probe" THEN "buf" ELSE "send")
       /\ held' = held \cup {"sock"} /\ run' = run + 1
       /\ stream' = Wire(run + 1) /\ ending' = "none"
       /\ event' = "none" /\ got' = <<>> /\ mishap' = "none"
       /\ UNCHANGED <<rbuf, hdr, line, left, piece, sink, opened, status, rc>>
    \/ GiveUp("connect", {"buf"}, run + 1)

-----------------------------------------------------------------------------
(* wyo_reset and wyo_send_synthesize.                                      *)

\* Mutant: the buffer of the last connection is not reset.
wyo_reset_not == UNCHANGED rbuf

wyo_reset == rbuf' = <<>>

\* Mutant: the socket of a failed request is forgotten.
SendFailureFreesBuf == {"buf"}

SendFailureFrees == {"buf", "sock"}

Send ==
    \/ /\ Goto("send", "event")
       /\ wyo_reset
       /\ UNCHANGED <<run, held, stream, ending, readVars, outVars, status, rc>>
    \/ GiveUp("send", SendFailureFrees, run)

-----------------------------------------------------------------------------
(* buf_fill.                                                               *)

Reading == pc \in {"event", "data", "payload", "skip"} /\ rbuf = <<>>

Recv ==
    /\ Reading /\ ending # "reset"
    /\ \E n \in 1..Min({RbufRoom, Len(stream)}) :
          /\ rbuf' = SubSeq(stream, 1, n)
          /\ stream' = SubSeq(stream, n + 1, Len(stream))
    /\ UNCHANGED <<prog, amiga, pc, run, held, ending, readVars, outVars, status, rc>>

\* recv() returns 0 or -1.
AtEnd    == Reading /\ stream = <<>> /\ ending = "fin"
AtError  == Reading /\ ending = "reset"
NoMore   == AtEnd \/ AtError
Has(to)  == pc = to /\ rbuf # <<>>

\* The server ends the connection, or falls silent; what it had not sent yet,
\* or what a reset destroyed, never arrives.
ServerEnds ==
    /\ "sock" \in held /\ ending = "none"
    /\ ending' \in {"fin", "reset", "hung"} /\ stream' = <<>>
    /\ mishap' = "other"
    /\ UNCHANGED <<prog, amiga, pc, run, held, rbuf, hdr, line, event, left, piece, outVars,
                   status, rc>>

-----------------------------------------------------------------------------
(* wyo_read_event.                                                         *)

ReadFrame == UNCHANGED <<run, held, stream, ending, outVars, status, rc>>

\* The header is whole, or taken to be: what the loop does with an event.
Handle(kind) ==
    /\ event' = kind /\ left' = PayloadOf(kind) /\ piece' = <<>>
    /\ Goto(pc, CASE kind = "chunk" -> IF prog = "say" /\ opened = "not" THEN "open"
                                       ELSE "payload"
                  [] kind = "stop"  -> "finish"
                  [] kind = "info"  -> "skip"
                  [] OTHER          -> "event")

\* A data block is read first.
Header(kind) ==
    /\ line' = "none"
    /\ IF HasData(kind)
       THEN Goto(pc, "data") /\ event' = kind /\ UNCHANGED <<left, piece>>
       ELSE Handle(kind)

EndOfEvents ==
    /\ line' = "none" /\ event' = "none"
    /\ Goto("event", "finish") /\ UNCHANGED <<left, piece>>

LineText ==
    /\ Has("event") /\ Head(rbuf).part # "newline"
    /\ line' = IF line = "none" /\ Head(rbuf).part = "head" THEN Head(rbuf).kind
               ELSE "garbage"
    /\ rbuf' = Tail(rbuf)
    /\ Goto("event", "event") /\ ReadFrame
    /\ UNCHANGED <<hdr, event, left, piece, mishap>>

\* An empty line is taken for the end of the stream.
LineEnds ==
    /\ Has("event") /\ Head(rbuf).part = "newline"
    /\ rbuf' = Tail(rbuf)
    /\ IF line = "none" THEN EndOfEvents /\ UNCHANGED hdr
       ELSE Header(line) /\ hdr' = line
    /\ ReadFrame /\ UNCHANGED mishap

\* The end of the stream between two events.
EventEnds ==
    /\ pc = "event" /\ (AtError \/ (AtEnd /\ line = "none"))
    /\ EndOfEvents
    /\ ReadFrame /\ UNCHANGED <<rbuf, hdr, mishap>>

\* The end of the stream inside a header line: what there is of it is parsed
\* without a terminating NUL, and with it what an earlier header left behind.
\* It may say nothing, its own event, or that of the earlier header.
LineCut ==
    /\ pc = "event" /\ AtEnd /\ line # "none"
    /\ mishap' = "cut"
    /\ \E kind \in {"none", line, hdr} : Header(kind)
    /\ ReadFrame /\ UNCHANGED <<rbuf, hdr>>

\* malloc(data_length + 1) and read_exact may fail.
ReadData ==
    \/ /\ Has("data") /\ rbuf' = Tail(rbuf)
       /\ Handle(event)
       /\ ReadFrame /\ UNCHANGED <<hdr, line, mishap>>
    \/ /\ pc = "data"
       /\ event' = "none" /\ Goto("data", "finish")
       /\ mishap' = IF mishap = "none" THEN "other" ELSE mishap
       /\ ReadFrame /\ UNCHANGED <<rbuf, hdr, line, left, piece>>

-----------------------------------------------------------------------------
(* The payload loops of do_run and of saytest.                             *)

Want == Min({left, Piece})

\* Mutants: only a buffer that is full already is refused; every run is written.
WrittenEveryRun(s, p) ==
    IF prog = "probe"
    THEN IF "file" \in held THEN s \o p ELSE s
    ELSE IF amiga THEN s \o SubSeq(p, 1, Min({Len(p), SinkRoom - Len(s)})) ELSE s \o p

WrittenPast(s, p) ==
    IF prog = "probe"
    THEN IF "file" \in held /\ run = 1 THEN s \o p ELSE s
    ELSE IF amiga /\ Len(s) >= SinkRoom THEN s ELSE s \o p

\* The PCM of the first run only goes to the file; the sample buffer of AHI is
\* never wrapped, what does not fit is dropped.
Written(s, p) ==
    IF prog = "probe"
    THEN IF "file" \in held /\ run = 1 THEN s \o p ELSE s
    ELSE IF amiga THEN s \o SubSeq(p, 1, Min({Len(p), SinkRoom - Len(s)})) ELSE s \o p

\* audio_open: the parts in order.  A failure leaves what came before it, and
\* audio_close is called for a sink that is open only.
AudioOpen ==
    /\ \/ /\ Goto("open", "payload") /\ opened' = "ok"
          /\ held' = held \cup (IF amiga THEN ToSet(AhiParts) ELSE {"wav"})
          /\ UNCHANGED rc
       \/ /\ Goto("open", "finish") /\ opened' = "failed" /\ rc' = 1
          /\ \E part \in IF amiga THEN Prefixes(AhiParts) \ {AhiParts} ELSE {<<>>} :
                held' = held \cup ToSet(part)
    /\ UNCHANGED <<run, netVars, readVars, got, sink, status>>

\* wyo_read_payload takes what is there of the piece, and goes on.
TakePayload ==
    /\ Has("payload") /\ left > 0
    /\ LET n == Min({Len(rbuf), Want - Len(piece)})
           p == piece \o SubSeq(rbuf, 1, n)
       IN  /\ rbuf' = SubSeq(rbuf, n + 1, Len(rbuf))
           /\ IF Len(p) < Want THEN piece' = p /\ UNCHANGED <<left, got, sink>>
              ELSE /\ piece' = <<>> /\ left' = left - Want
                   /\ got' = got \o p /\ sink' = Written(sink, p)
           /\ Goto("payload", IF left' = 0 THEN "event" ELSE "payload")
    /\ UNCHANGED <<run, held, stream, ending, hdr, line, event, mishap, opened, status, rc>>

\* A short read ends the loop; saytest's exit code says so.
ShortRead ==
    /\ pc = "payload" /\ NoMore
    /\ event' = "none" /\ Goto("payload", "finish")
    /\ rc' = IF prog = "say" THEN 1 ELSE rc
    /\ UNCHANGED <<run, held, netVars, hdr, line, left, piece, mishap, outVars, status>>

\* Mutant: a failed read does not leave the loop.
SkipForever == Goto("skip", "skip")

SkipBreaks == Goto("skip", "event")

Skip ==
    /\ \/ /\ Has("skip")
          /\ LET n == Min({Len(rbuf), left})
             IN  /\ rbuf' = SubSeq(rbuf, n + 1, Len(rbuf)) /\ left' = left - n
                 /\ Goto("skip", IF left' = 0 THEN "event" ELSE "skip")
       \/ /\ pc = "skip" /\ NoMore
          /\ SkipBreaks /\ UNCHANGED <<rbuf, left>>
    /\ ReadFrame /\ UNCHANGED <<hdr, line, event, piece, mishap>>

-----------------------------------------------------------------------------
(* The end of a run and of the program.                                    *)

Stopped == event = "stop"

\* The end of do_run; its result is the exit code of the probe.
FinishRun ==
    /\ prog = "probe" /\ Goto("finish", AfterRun(run))
    /\ held' = held \ {"buf", "sock"}
    /\ status' = IF Stopped THEN "ok" ELSE "failed"
    /\ rc' = IF Stopped THEN rc ELSE 1
    /\ Quiet /\ UNCHANGED run

ExitProbe ==
    /\ Goto("exit", "done")
    /\ held' = Cleanup(held \ {"file"})
    /\ Quiet /\ UNCHANGED <<run, status, rc>>

\* audio_close gives back all of an open sink.
AudioClose(h) == IF opened = "ok" THEN h \ SinkParts ELSE h

\* A missing audio-stop is printed but does not change the exit code.
FinishSay ==
    /\ prog = "say" /\ Goto("finish", "done")
    /\ held' = Cleanup(AudioClose(held) \ {"buf", "sock"})
    /\ status' = IF Stopped THEN "ok" ELSE "failed"
    /\ Quiet /\ UNCHANGED <<run, rc>>

-----------------------------------------------------------------------------
Setup == NetInit \/ OpenOutFile \/ GetBuf \/ Connect \/ Send
Parse == LineText \/ LineEnds \/ LineCut \/ EventEnds \/ ReadData
Play  == AudioOpen \/ TakePayload \/ ShortRead \/ Skip
Finish == FinishRun \/ ExitProbe \/ FinishSay
Client == Setup \/ Recv \/ Parse \/ Play \/ Finish

Next == Client \/ ServerEnds

Spec == Init /\ [][Next]_vars /\ WF_vars(Client)

-----------------------------------------------------------------------------
(* Properties.                                                             *)

\* The values the variables range over; rbuf never holds more than it has room
\* for, nor the sample buffer of AHI.
TypeOK ==
    /\ prog \in {"probe", "say"} /\ amiga \in BOOLEAN /\ run \in 0..Runs
    /\ pc \in {"net_init", "outfile", "connect", "buf", "send", "event", "data", "open",
               "payload", "skip", "finish", "exit", "done"}
    /\ held \subseteq NetParts \cup SinkParts \cup {"file", "buf", "sock"}
    /\ ending \in {"none", "fin", "reset", "hung"}
    /\ Len(rbuf) \leq RbufRoom /\ Len(piece) < Piece /\ left \leq Payload + Piece
    /\ {hdr, line, event} \subseteq {"none", "garbage"} \cup ToSet(Script)
    /\ amiga /\ prog = "say" => Len(sink) \leq SinkRoom
    /\ opened \in {"not", "ok", "failed"} /\ status \in {"none", "ok", "failed"}
    /\ rc \in 0..1 /\ mishap \in {"none", "cut", "other"}

\* What a run counts as audio is the audio of its own answer from its start on,
\* however recv() cuts the stream, never a header, a data block, the payload of
\* another event or what an earlier connection left in rbuf; and what is written
\* is that audio, as far as the sink has room, the file holding the first run.
PcmAsSent ==
    /\ IsPrefix(got, Speech(run))
    /\ prog = "probe" => sink \in {<<>>} \cup {SubSeq(Speech(1), 1, n) : n \in DOMAIN Speech(1)}
    /\ prog = "probe" /\ run = 1 /\ "file" \in held => sink = got
    /\ prog = "say" => sink = IF amiga THEN SubSeq(got, 1, Min({Len(got), SinkRoom})) ELSE got

\* The result of a run tells what happened in it, whatever the run before left
\* in rbuf: it succeeds (and saytest does not complain of a missing audio-stop)
\* only when the audio is complete, but for a connection that ended inside a
\* header, and it fails only when something went wrong in this run.
ResultTellsRun ==
    pc \in {"connect", "exit", "done"} /\ opened # "failed" =>
        /\ status = "ok" /\ mishap # "cut" => got = Speech(run)
        /\ status = "failed" => mishap # "none"

\* Whatever fails on the way, the program gives back every socket, buffer, file
\* and system resource before it exits; but for what a failed audio_open had
\* acquired, which saytest never closes.
NothingLeft ==
    pc = "done" => held \subseteq IF opened = "failed" THEN ToSet(AhiParts) ELSE {}

\* The program ends, wherever the server ends the connection, unless the server
\* falls silent: there is no receive timeout.
Silenced == Reading /\ ending = "hung"
ClientEnds == <>(pc = "done" \/ Silenced)
=============================================================================
