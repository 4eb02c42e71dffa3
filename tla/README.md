# A model of narrator.wyoming

narrator.wyoming replaces the Amiga's `narrator.device` and
`translator.library`: text written to the device is sent to a Piper server over
the Wyoming protocol, and the audio that comes back is played through AHI. This
directory holds TLA+ specifications of it, TLC configurations, and proofs
checked by TLAPS. Paths are relative to the repository; `nw` abbreviates
`src/nw_engine.c` and `nd` abbreviates `src/narrator_device.c`.

## The system

| part | code | state | operations | what makes it correct |
|---|---|---|---|---|
| unit life cycle and exec hooks | `nd`, `nw` 1374-1541 | `struct nwctx`, two signal bits, dos.library, the process | OpenDevice, CloseDevice, BeginIO, AbortIO | nothing leaks, nothing freed is used, open and close return |
| device task | `nw` 1307-1372 | its MsgPort, the request in hand | start and handshake, service loop, drain, exit | every request is answered exactly once, in order |
| held session | `nw` 662-781, 899-971, 1044-1193 | socket, receive buffer, `hdr[]` | connect, pipelined send, receive, disconnect, retry | an utterance plays its own audio, all of it, and ends |
| playback and capture | `nw` 369-658, 711-725 | one sample buffer shared with AHI, WAV file | open, write, start, drain, close | samples whole, in order, each played, none of the last utterance |
| text path | `src/translator_library.c`, `nw` 814-886, 973-1020 | none | Translate, transcode, split | nothing lost or doubled, UTF-8 or as written, breaks at pauses |
| prefs and CMD_WRITE preparation | `nw` 219-347, 1213-1281 | snapshot of the prefs | read prefs; voice, volume, port of a request | the file is honoured, the level stays in range |
| host client | `src/main.c`, `src/saytest.c`, `src/wyoming.c`, `src/audio_*.c`, `src/net_*.c` | one connection, a static receive buffer, an audio sink | one utterance per run | the audio and the result are those of this run, everything acquired is given back |
| test programs, build | `src/devtest.c`, `src/failtest.c`, `tests/`, `tools/` | | | not modelled |

**Interactions.** Application tasks call the hooks directly. A CMD_WRITE is put on
the device task's port and replied by it; every other command completes inside
BeginIO. Opening and closing are handshakes over two signals and a `shutMsg`
that travels on the same port as the requests. The device task alone owns the
socket and AHI: it reads the prefs once, and for each request prepares the
text, sends all chunks, and moves payloads from the socket to the sample buffer,
which AHI reads at the same time. The host client shares no code with the device:
it speaks the same protocol to the same server through its own reader and sinks,
and reads the same prefs file with its own parser.

**What is hard here.** Preemption between any two instructions, with `Forbid()` as
the only lock, which `Wait()` gives up; a context that is freed by one task
while another is leaving it; AbortIO and CMD_FLUSH walking the list the task
consumes; answers to pipelined requests left on a connection that is kept; a
server that closes, resets, hangs or is slow at any point; a sample buffer
written under a reader that does not wait. `PROJECT.json` lists the hazards at
their lines and the properties that cover them.

## Modules

| module | models | extends / uses |
|---|---|---|
| `RequestService` | what the device promises its callers, without ports and tasks | |
| `NarratorDevice` | hooks and device task; implements `RequestService` | `INSTANCE RequestService` |
| `NarratorDeviceProofs` | theorems about `NarratorDevice` | `NarratorDevice`, TLAPS |
| `SpeechService` | what `nw_session_say` promises, without sockets and messages | |
| `WyomingSession` | the held connection against server and link; implements `SpeechService` | `INSTANCE SpeechService` |
| `WyomingSessionProofs` | theorems about `WyomingSession` | `WyomingSession`, TLAPS |
| `NarratorUnit` | `NarratorDevice` with the session inside the device task; implements `NarratorDevice` | `NarratorDevice`, `INSTANCE WyomingSession` |
| `NarratorUnitProofs` | theorems about `NarratorUnit`, from those about its two parts | `NarratorUnit`, `NarratorDeviceProofs`, `INSTANCE WyomingSessionProofs` |
| `AhiPlayback` | sample buffer, AHI, capture | |
| `AhiPlaybackProofs` | theorems about `AhiPlayback` | `AhiPlayback`, TLAPS |
| `TextPath` | Translate, transcoding, splitting | |
| `NarratorPrefs`, `MCNarratorPrefs` | prefs file to request, and the clients' reader; the lines of the files for TLC | |
| `WyomingClient` | the probe and saytest with their back ends | |
| `RecursionFacts` | lemmas about functions that are computed recursively, as the loops of the code are written | TLAPS |
| `TextPathProofs`, `NarratorPrefsProofs`, `WyomingClientProofs` | theorems about the three modules | the module, `RecursionFacts` |

Names follow the code (`ahi_write`, `nw_split`, `shutting`, `cmdPort`); an action is
named for the statement or function it stands for. Definitions preceded by
"Mutant" are plausible bugs: put in the place of the definition below them, they
make a property fail. They are not part of the specifications.

### NarratorDevice

One open unit. `life` is the Owner's place in OpenDevice and CloseDevice, `task`
the program counter of `nw_dev_task`, `forbid` the holder of `Forbid()`. A step
is a stretch of code in which no other task can tell the difference: a whole
`Forbid()` section where nothing is let go of in between (`Sync` with CMD_FLUSH), and
single statements where it matters (`AbortFind`, `AbortUnlink`, `AbortReply`; `CloseMark`,
`ClosePut`). `MayRun` guards every step. exec calls the open and close hooks
under `Forbid()` (`nd` 74-76); the `Wait()` inside breaks it and restores it, so the
device task runs exactly there. Every allocation may fail.

`sent` and `served` are ghosts. `io_Error` is `error`; `replies` counts how often
a request lies on its reply port, so a second reply would be seen.

Contract of the callers, assumed: a request is not sent again before its
reply was collected, and CloseDevice is not called while another task is inside
a call on the unit. exec does not enforce either; both are rules of the OS. The
expunge of the device is not modelled, nor are several open units: they share no
state.

`nw_do_write` is one step here that may succeed or fail, and the fairness of the
task assumes that it ends. `NarratorUnit` does without that assumption.

### WyomingSession

`Say` starts an utterance of 1..`MaxChunks` chunks; the device then sends all
requests and reads events until it has counted as many audio-stops. A message
carries whether it belongs to the current utterance (`own`); `Say` ages what is
under way, so any number of utterances is explored with finitely many states.
The link is up, closed by the peer (`fin`), closed and already written to
(`doomed`), hung or reset. `Faults` names what may go wrong: a refused connect, an
orderly close, a hang, a server that sends a byte now and then (`drip`), a reset,
an answer later than the receive timeout, a close inside a payload (`torn`) or
inside a header line (`cut`), no memory. An audio-chunk event stands for all
payloads of a chunk; the data blocks some servers put behind a header are part
of their event.

`struck` remembers which kinds of fault have happened, ever. Two of them break a
promise for good (`nomem`, `cut`, see the findings) and one has no answer in the code
(`drip`); the properties name them (`Pipelined`, `Terminated`, `"drip" \in struck`)
and hold for all other histories, which lets one run have all nine faults.

`SpeechService` is the promise: chunks are said in order from the first one, and
success means all of them. Its `sound` maps to `Pipelined /\ Terminated`; once it is
lost, anything may happen. The step that is hard to map is the retry: a second
attempt may only follow when nothing was said, or the first chunk would be said
twice.

### NarratorUnit

The two machines share one thread: the device task stays in `serve` while the
session's `pc` leaves "idle", and every step of the session is a step of that task,
guarded by `MayRun(Task)`. `SessionCreate`, `SessionClose` and the end of an utterance
are joint steps. Hooks and callers run in between, as do the server and the link,
which outlive the unit. `text` and `heard` are ghosts that tie a request to its
utterance: how many chunks it has, and how many were played, in order and each
once. A text of 0 chunks is an empty one or phonemes, which `nw_do_write` does not
look at before the request is served. `ServeWith(e)` restates `TaskServe` with the error given, since there
the error is a free choice.

### AhiPlayback

Payload bytes are numbered, the buffer holds the numbers, and AHI turns word by
word into `heard`. `Mix` may run at any time, so all relative speeds of network and
AHI are covered, including a reader that overtakes the writer (`late`).
`ahi_open` stops at any of its seven steps. A change of format between chunks
drains, closes and reopens. The capture tap may fail to open and try again.
`WholeTakes` says that `recv()` ends on sample boundaries, which the code assumes
and TCP does not promise.

Left out: the WAV header (its format stays that of the first chunk after a change
of format), the volume, the second try with another audio mode.

### TextPath

A text is a sequence of byte classes. The application calls Translate with a
buffer of `capacity` bytes, writes what came out and resumes at the position the
result names, as `docs/translator-library.md` says. `nw_split` is a fold over the
words, as its loop is; `EndsWord` says where one ends.

codesets.library is optional, it may not know the codesets, and a conversion may fail
(`nw` 766-770, 866-867, 881). All three leave a text that is not UTF-8 as it was
written, as the comment at `nw` 803-808 and the README of the repository say, so `Write`
chooses freely whether the library `converts` the text, and `codesets` remembers the
choice. `Utf8OrAsWritten` states both outcomes: UTF-8 if it converts, the text as written
if not. A text that is UTF-8 already is sent as it is in both.

### NarratorPrefs

A file is a sequence of lines of symbols. `Buffer` is what `Read()` gets of it,
`pref_get` scans that buffer as the code does, and `Setting` reads the file line by
line as its documentation describes it. `Number` reads
digit by digit and wraps at `LongHalf`, as a long does; the port of a request is taken modulo
`PortSize`, as it is stored.

`read_config` is the other reader of the same file, in `main.c` and `saytest.c`: it goes
line by line, the last line of a key wins and comments are cut off. `ReadersAgree`
says for which files the two read the same voice and port (`SetOnce`): one line per
key, not indented, one word, a comment at most behind it.

### WyomingClient

`prog` is the probe (`main.c`) or saytest, `amiga` the build. A response is a sequence of
units, each a run of bytes the reader tells apart: a header line, its newline, a
data block, pieces of a payload. `recv()` returns any prefix of what is under way,
so header lines and payloads are torn at every place the parser distinguishes; `rbuf`
is static and survives the connection, as in the code, until `wyo_reset`. The server
may close, reset or fall silent at any moment. `got` is what the run counted, to be compared
with the audio of its answer, `Speech`; `sink` is what was written: the file of the probe
gets the first run only, the sample buffer of `audio_ahi.c` is filled once and never wrapped. `held` is what was acquired: the
socket, the buffer, the file, bsdsocket and the timer of `net_amiga.c`, the six parts of
`audio_ahi.c` or the WAV file of `audio_host.c`. Every acquisition may fail.

`LineCut` has the missing NUL of `read_line`: the header array lies on the stack of the
call before, so a partial line may be read as nothing, as its own event, or as the
event of the previous header.

Left out: header lines that fill the array of 1024 bytes, the bytes of the request,
name resolution, when AHI starts and how long `audio_close` waits (the scheme of
`AhiPlayback`), the arguments of `main`, and the times printed.

## Runs

| run | module | expects | states | shows |
|---|---|---|---|---|
| `device` | NarratorDevice | pass | 15 550 | all safety and liveness properties of the unit; it implements RequestService |
| `unit` | NarratorUnit | pass | 173 000 | io_Error says what was heard, a closed unit is disconnected; it implements NarratorDevice with its fairness |
| `session` | WyomingSession | pass | 104 000 | own audio, complete, nothing carried over; an utterance ends, the session recovers; it implements SpeechService |
| `playback` | AhiPlayback | pass | 241 393 | the buffer, what is heard, the format, the capture |
| `text` | TextPath | pass | 272 112 | the text arrives once, whole, in chunks that end in pauses; UTF-8 where the code can make it so, as written elsewhere |
| `prefs` | MCNarratorPrefs | pass | 315 000 | settings honoured, the two readers agree, level and voice |
| `client` | WyomingClient | pass | 72 000 | the audio and the result of each run, everything given back, the programs end |
| `session_nomem` | WyomingSession | violation | | no memory between two requests leaves answers on the link |
| `session_cut` | WyomingSession | violation | | a cut header line is completed by what `hdr[]` held before |
| `session_dropped` | WyomingSession | violation | | an idle connection closed by the server costs an utterance |
| `playback_split` | AhiPlayback | violation | | `recv()` ends inside a sample |
| `prefs_long` | MCNarratorPrefs | violation | | settings behind byte 2047 |

**Bounds.**

- `device`: two requests and two callers are enough for one request in service
  and one queued, aborted or flushed, by the Owner or by another task, before,
  during and after a close, over any number of open/close cycles. The safety
  properties are proved for any numbers (below).
- `unit`: the queue and the callers are the matter of `device`; one caller and one
  request are enough to have a CloseDevice, an abort or a next request at every point of
  an utterance, and any number of opens and closes. Two chunks make a pipeline, one
  fault of eight kinds reaches every state of session and link. The drip is left out: with it
  CloseDevice does not return (hazard at `nw` 959).
- `session`: three chunks, so that a first, a middle and a last answer can be
  lost; all nine kinds of fault, two in any order, over any number of utterances. Two
  events fit the receive buffers. Nine requests fit the send buffers: the most that can be
  under way on one connection here is seven (what a failed allocation left behind
  included), so `send()` never blocks for good. The number of faults is bounded, so that "once
  nothing goes wrong any more" means something.
- `playback`: a buffer of 12 bytes, a pre-roll of 2, a head start of 6, payloads of
  up to 4 bytes and 12 in all. Utterances below the head start, above it, and
  beyond the buffer all occur, and two utterances in a row share the buffer.
- `text`: all texts of up to five bytes over seven classes, buffers of 4 (3 bytes of
  text, so a cut in a character, in a word and before a blank) and 6 (none),
  breaks after two words, at most two chunks, and for each write a library that converts and
  one that does not. Texts are finite, so the run may stop.
- `prefs`: all files of up to two lines, each a key, a comment, a similar name or an
  indented line, with values that are empty, too small, fitting, too large, overflowing, too
  long and followed by a comment. Two lines are enough for order, duplicates and prefixes.
- `client`: two runs, so that a run meets what the one before left; an answer of seven
  events with payloads of three units, more than a piece of two; a receive buffer of
  eight, more than an event, so that one `recv()` returns the end of one event and part of the next;
  a sample buffer of four, less than the answer. The programs end, so the run may stop.

**Fairness.** `NarratorDevice`: strong fairness for the device task as a whole, for
the Owner inside open and close, and for a caller inside AbortIO. The process has
priority 1 (`nw` 1424), above applications, and is dispatched at the `Permit()` of
whoever ran; weak fairness would not do, because callers that keep taking
`Forbid()` disable it again and again. Callers need not do anything: no fairness
for `Write`, `CloseMark` or `Collect`. `WyomingSession`: weak fairness for the device, for a
server that neither hangs nor died, and for the arrival of a reset; `RecvTimeout` is
part of the device, since a hang lasts longer than any timeout. `Recovers` also
assumes that callers go on speaking. Faults are never forced. `NarratorUnit`: the same two
together, where the task's strong fairness is that of its single steps and of the
session's; that `nw_do_write` ends is not assumed but follows, and with it the fairness of
`NarratorDevice`. `WyomingClient`: weak fairness for the client, a single process; nothing
for the server, which may fall silent (`Silenced`).

## Findings

Each is an error trace of a violation run; `PROJECT.json` quotes the lines.

1. `nw` 1054: NWERR_NOMEM in the middle of a pipeline keeps the connection; the
   answers to earlier chunks are played in the next utterance.
2. `nw` 682: `read_line` does not terminate a partial line, so what `hdr[]` held before is
   parsed behind it: an earlier header or, in the first line of an utterance, whatever was on the
   stack (the array is not initialised, `nw` 1102; TLC's shortest trace is of this kind). An
   audio-stop found there is counted and an utterance with a chunk missing succeeds.
3. `nw` 912, 1110: a connection the server closed is used again and is not replaced
   when `recv()` returns 0; the utterance fails with NWERR_PROTO, which is not
   retried, and the socket is kept. The utterance after it may fail too (`send()`),
   and is then retried.
4. `nw` 718: an odd return of `recv()` loses a sample and shifts the rest.
5. `nw` 282: 2047 bytes of the prefs are read; the example file has 4577, with `gain`
   and `split_words` behind that.

Smaller disagreements met on the way, not checked by a run:

- `src/translator_library.c` 78: with a buffer of one byte the result is -0, everything fit,
  and nothing was copied; 65-67 promise the negative of the position. `text` uses
  buffers of two bytes and more.
- `src/README.md` of the repository, 227-229: voice_male and voice_female default to `voice`, and
  `voice` to the server's own; the code compiles in three names (`nw` 88-99).
- The repository's `docs/README.txt` 144-146: anything behind a blank and `#` is a comment.
  A key with nothing but a comment behind it gets the value `#`.
- `docs/narrator-device.md` 22: CMD_FLUSH purges all active and queued requests; the code
  (`nw` 1514, `nd` 156-160) replies the queued ones and leaves the active one to end.
- `docs/narrator-device.md` 23: CMD_RESET aborts all queued I/O; it does nothing here
  (`nd` 163-167). The comment there says "nothing queued yet".
- `nd` 112-113: "the task can't start until we return"; the `Wait()` in `nw_dev_open` lets it.
- `nw` 974-976: "as a last resort at a word boundary"; the code breaks at punctuation only,
  as the comment at 1005-1009 says.
- `config/narrator.wyoming.example` 42-44: a new audio_mode takes effect at the next CMD_WRITE;
  the prefs are read once per open.
- `nw` 732: `send()` has no timeout, so a server that stops reading while the requests are
  pipelined blocks the device task and CloseDevice; 64-65 say the receive timeout is
  there so that a mid-stream stall does not block forever. With a `SendRoom` smaller
  than the number of chunks, `UtteranceEnds` fails.
- `nw` 424: the header of the capture file keeps the format of the first chunk.
- `nw` 1146-1150: the width is not among the things that make AHI reopen.
- `src/audio.h` 13-14: `audio_write` blocks for flow control; `audio_ahi.c` 188-193 truncates
  instead, and what exceeds 512 KB is not heard.
- `src/wyoming.c` 221 has the missing NUL of finding 2 as well: `wyoming.h` 47 promises 0 for
  a peer close, and a connection cut inside a header returns 1 with the event of
  the previous header. A run may succeed with audio missing; `ResultTellsRun` excepts it.
- `src/wyoming.c` 225-230: an empty line is taken for the end of the stream, and a header
  of exactly 1023 bytes leaves its newline behind, which is then such a line.
- `src/saytest.c` 156-160: after a failed `audio_open` the parts of the sink it had
  acquired are not given back; `NothingLeft` excepts them.
- `src/saytest.c` 196: a missing audio-stop is printed but the exit code is 0; the probe
  returns 1 (`src/main.c` 114-117).
- `src/main.c` 179, 225: an indented line is a setting for the clients and not for the device, the
  last line of a key wins there and the first one here, and a first file without a
  host is merged with the second.
- `src/main.c` 131-132: "stays < 2^31 for any realistic clip" holds up to 2.1 MB, 48 seconds at
  22050 Hz.
- `src/failtest.c` 47-48: `slurp` "returns NULL if ... too large"; it cuts the file at 4095 bytes,
  and the example file has 4577.
- Translate may cut a text inside a word or a character. What is cut inside a
  character is not UTF-8 and is taken for ISO-8859-1 (valid if codesets.library is
  there, but not what was written), and a piece without lowercase letters may pass for phonemes.
- `nw` 959: a server that sends a byte now and then keeps `recv()` from timing out for good.
- `nw` 1246: whether a text is phonetic is decided on each piece by itself.

## Proofs

`NarratorDeviceProofs` proves, for every set of requests and callers, from
`DeviceAssumption` alone (the Owner is a caller; task, `shutMsg` and NULL are none of the
others): `TypeCorrect`, `InductiveInvariant`, `MemorySafety`,
`RequestsHaveOneHolder`, `CloseAnswersEverything`, `PortIsEmptyAtDelete`,
`AbortedWasNotServed`, `ClosedHoldsNothing`.

None of the safety properties is inductive. `PortEmptyAtDelete` for instance needs
that nobody submits between the drain and the deletion: the drain is entered
only after CloseDevice has given up the CPU in its `Wait()`, so the Owner is past
`ClosePut`, and callers may only call while the unit is open. `MemorySafe` needs
that a caller inside AbortIO holds `Forbid()` and that the task takes a message only
when nobody does. `IInv` says this in parts:

- `LockInv`: who holds `Forbid()`, by the place of the Owner and of the callers;
- `LifeInv`: what is acquired, which signals may be pending, and where the task may
  be, for each place of the Owner;
- `TaskInv`: port, `cmdPort` and queue for each place of the task;
- `CallLife`, `CallFound`: a caller inside AbortIO is in an open unit with a port, and before
  the removal its request is on the list;
- `OneHolder`, `ServedInv`, `AbortedNotServed`: where each message is, and what was done with it.

The proof goes in layers, types first, then control (`LockInv`, `LifeInv`, `TaskInv`),
then the messages, each with one lemma per action, and a lemma on sequences
wherever a queue changes: appending, taking the head and removing keep the
elements distinct. A theorem is then a consequence of the invariant.

`WyomingSessionProofs` proves, for any number of chunks, any socket buffers and any
number of faults of any kind, from `SessionAssumption` alone: `TypeCorrect`,
`InductiveInvariant`, `OwnAudioOnly`, `SuccessIsComplete`, `HeldLinkQuiet` and
`SpeechIsImplemented`, that every step of the session is a step of `SpeechService` or a
stutter.

A property of what was played says nothing about what is still on its way, so the
invariant numbers the answers of an utterance: the audio of chunk k is event 2k - 1,
its audio-stop event 2k. `InStep` says that `rbuf`, the answers on the way, those the
server still has to send and those it still has to be asked for follow the answers
already taken in this order and without a gap, that on a connection that is up they
reach to the last request sent, and that a broken event is the last one of a
connection that is down. The parity then tells which header may come next
(`NextAudio`, `NextStop`), and after the last audio-stop nothing can be left (`Quiet`), so
the next utterance may number from 1 again. `ControlInv` (types, the places of the control,
what a connection that is down has lost) and `CutInv` hold whatever goes wrong;
the numbering holds until memory runs out between two requests, and a success is
whole until a connection ends inside a header: the two faults of the findings, and the
reason for `Pipelined` and `Terminated`. The sequence lemmas (`ChainTail`, `ChainAppend`,
`ChainSplit`, `LineAppend`, ...) say what a read, a send and a `recv()` of n events do to
the numbering.

`DeviceImplementsService` maps every step of `NarratorDevice` to one of `RequestService`
or to a stutter. What waits there are the requests on the port, so the mapping
cuts off `shutMsg`; that this is the last message of the list, which the mapping relies
on (`ShutInv`), follows because the Owner puts it there only after all calls have ended.

`NarratorUnitProofs` shows that the unit with its session takes only steps of
`NarratorDevice` (`UnitImplementsDevice`), so all theorems about the device hold of it, and
that session, server and link take only steps of `WyomingSession`, so the invariant
of the session does as well. What is left is where the two meet: a session is at work only
while its task serves, on the text of the request in hand, and without a
session there is no socket (`SessionInv`, from which `ClosedDisconnects`); and for every
request what was heard of it at each place it can be in (`HeardInv`, from which
`AnswerIsTrue`).

`AhiPlaybackProofs` proves, for any size of buffer, pre-roll, head start and payload
(`PlaybackAssumption`: whole samples, a pre-roll below the head start),
`PlaybackTyped`, `AllOrNothing`, `OwnFormat` and `CaptureIsBuffer`. The other three,
`BufferCorrect`, `OrderHeard` and `DrainedToTheEnd`, have `WholeTakes` as a hypothesis, that
`recv()` ends on sample boundaries; `playback_split` shows the buffer without it. The
invariant says that the bytes in the buffer are those of the utterance at their
swapped places and silence elsewhere, that what was heard came before all that AHI
has still to play, and that the delay of `ahi_drain` covers the rest.

`TextPathProofs` proves the four properties of the text path for every text, any
buffers and any limits of words and chunks. The loop of `nw_split` has an invariant
(`LoopInv`): the chunks so far are a partition of the text up to `start`, each ends at
a break, and one place is kept free for the rest. `EncodedOnce` assumes nothing about
codesets.library; a chunk begins and ends where words do, so a text in UTF-8 stays so
chunk by chunk (`WholeIsUtf8`). `NothingLost` has the hypothesis
`RoomToResume`, buffers of at least two bytes; the code's answer for a smaller one is among
the findings.

`NarratorPrefsProofs` proves `LevelSafe` for files of any length, and `Honoured`,
`SexHonoured` and `ReadersDoAgree` under `FilesFit`, that no file is longer than one
`Read()`; the files of `prefs` do (two lines of
at most nine symbols, `MaxRead` is 20), and `prefs_long` shows what happens to longer ones. The work is in the
readers: `PrefGetSearch` says what the loop of `pref_get` over lines returns,
`PrefGetFinds` that in a file that fits this is the first line of the key, whatever keys
begin like it, `NumberIs` and `PlainNumber` that the digit loop gives the number that is written as
long as it is in range, and `ConfigIs` what `read_config` makes of the same line.

`WyomingClientProofs` proves `ClientTypes`, `AllReleased`, `AudioAsSent` and `ResultIsTrue` for
any number of runs and any sizes of payload, piece, receive and sample buffer, on the
answer the module describes. The invariant places the reader on the wire
(`TrackInv`): what it has consumed ends at a place of the answer that fits its `pc`,
and what lies in `rbuf` followed by what is under way is the answer from there on,
unless the connection is dry. So a header, a data block or the payload of another event
can never be taken for audio, and only a connection that has ended can end the loop early.
`HeldInv` says what is held at each place.

Induction over data: the induction rules of the library take a predicate as a
parameter, which the installed provers cannot instantiate. `RecursionFacts` does without: the
counterexamples to a statement are a set of numbers, a set that is not empty
has a least element (`LeastOf`), and that one is contradicted. From this come what a loop
over 1..n keeps (`Rounds`), what a search returns (`Searches`), and what `FlattenSeq`, `Min` and `Max`
are.

Only model-checked: liveness, for which the prover has no rules (`HooksReturn`,
`EveryRequestAnswered`, `UtteranceEnds`, `Recovers`, `ClientEnds`), and of
`ImplementsDevice` the part about fairness. Every invariant of a run is stated by a theorem.

## Not modelled

The bytes of the Wyoming JSON (an event is its kind, its order and its payload);
name resolution and the non-blocking connect beyond success or failure; the AHI
volume and the choice of an audio mode; the WAV headers; the timing of the clients'
AHI sink and the latencies they print; the expunge; the device's test programs, the mock
server and the build. `PROJECT.json` has the list with reasons.

## Plan

Done: `NarratorDevice` with `RequestService` and its proofs, first, because every
application depends on it; then `WyomingSession`, `AhiPlayback`, `TextPath`,
`NarratorPrefs`; then `SpeechService`, `NarratorUnit` and `WyomingClient`, and the proofs
about the session.

All invariants of the runs are proved, and the safety part of the three implementations.

Next: an action property where a step of several parts is at stake (a chunk once
played is not taken back, a reply is not withdrawn), stated and proved on the
invariants there are.
