--------------------------- MODULE WyomingSession ---------------------------
(***************************************************************************)
(* The held Wyoming connection of the device task: nw_session_say,         *)
(* session_connect, session_send_recv, session_send_one and the socket     *)
(* reads of nw_engine.c, against a TTS server and the TCP link to it.      *)
(*                                                                         *)
(* An utterance is cut into chunks (nw_split); all synthesize requests are *)
(* sent before the first answer is read, and the answers come back in      *)
(* order on the same connection, which is kept for the next utterance.     *)
(* host and port are the prefs of the open, so the endpoint never changes  *)
(* under a held socket.                                                    *)
(*                                                                         *)
(* The messages of earlier utterances are told from those of the current   *)
(* one by their field own, so utterances need no number and no bound.      *)
(***************************************************************************)
EXTENDS Naturals, Sequences, SequencesExt

CONSTANTS
    MaxChunks,  \* bound on the chunks of an utterance (NW_MAXSEG)
    SendRoom,   \* requests the two socket buffers to the server hold
    RecvRoom,   \* events the two socket buffers to the device hold
    Faults,     \* which of AllFaults may happen
    MaxFaults   \* bound on how many of them happen

AllFaults ==
    {"connect", "fin", "hang", "reset", "timeout", "torn", "cut", "nomem", "drip"}

ASSUME SessionAssumption ==
    /\ MaxChunks \in Nat \ {0} /\ SendRoom \in Nat \ {0} /\ RecvRoom \in Nat \ {0}
    /\ Faults \subseteq AllFaults /\ MaxFaults \in Nat

VARIABLES
    pc,         \* where nw_session_say is; "idle" between utterances
    nseg,       \* number of chunks of the utterance
    sent,       \* chunks sent on this attempt
    attempt,    \* 1 or 2
    sock,       \* s->sock >= 0
    link,       \* state of the connection under the socket
    requests,   \* on their way to the server
    serving,    \* the events the server still has to send for a request
    responses,  \* on their way to the device
    rbuf,       \* received and not yet parsed
    hdr,        \* kind of header left in hdr[], not cleared between lines
    stops,      \* audio-stop events seen
    played,     \* the audio handed to AHI for this utterance
    outcome,    \* result of the last utterance
    faults,     \* number of faults so far
    struck,     \* the kinds of fault that have happened
    hurt        \* a fault happened during this utterance

sessionVars == <<pc, nseg, sent, attempt, sock, hdr, stops, played, outcome>>
linkVars    == <<link, requests, serving, responses, rbuf>>
faultVars   == <<faults, struck, hurt>>
vars == <<sessionVars, linkVars, faultVars>>

Chunks == 1..MaxChunks
Audio(own, k) == [kind |-> "audio", own |-> own, chunk |-> k]
Stop(own, k)  == [kind |-> "stop", own |-> own, chunk |-> k]
Partial(kind) == [kind |-> kind, own |-> TRUE, chunk |-> 1]
Request(k)    == [own |-> TRUE, chunk |-> k]
Event == [kind : {"audio", "stop", "torn", "cut"}, own : BOOLEAN, chunk : Chunks]

\* The messages of a finished utterance.
Aged(s) == [i \in DOMAIN s |-> [s[i] EXCEPT !.own = FALSE]]

Fault(f) ==
    /\ f \in Faults /\ faults < MaxFaults
    /\ faults' = faults + 1 /\ struck' = struck \cup {f} /\ hurt' = TRUE

Init ==
    /\ pc = "idle" /\ nseg = 0 /\ sent = 0 /\ attempt = 0
    /\ sock = FALSE /\ link = "none"
    /\ requests = <<>> /\ serving = <<>> /\ responses = <<>> /\ rbuf = <<>>
    /\ hdr \in {"none", "audio", "stop"}    \* an uninitialised array
    /\ stops = 0 /\ played = <<>> /\ outcome = "none"
    /\ faults = 0 /\ struck = {} /\ hurt = FALSE

-----------------------------------------------------------------------------
(* nw_session_say and session_connect.                                     *)

\* The device task calls nw_session_say for the next CMD_WRITE.
Say(n) ==
    /\ pc = "idle"
    /\ pc' = "connect" /\ nseg' = n /\ attempt' = 1
    /\ played' = <<>> /\ outcome' = "none" /\ hurt' = FALSE
    /\ requests' = Aged(requests) /\ serving' = Aged(serving)
    /\ responses' = Aged(responses) /\ rbuf' = Aged(rbuf)
    /\ UNCHANGED <<sent, sock, link, hdr, stops, faults, struck>>

\* Back from nw_session_say.
End(result) == pc' = "idle" /\ outcome' = result

\* Mutant: the socket is forgotten but not closed.
DisconnectLeaks ==
    /\ sock' = FALSE /\ UNCHANGED link
    /\ requests' = <<>> /\ serving' = <<>> /\ responses' = <<>> /\ rbuf' = <<>>

\* session_disconnect.  What was under way on the connection is gone.
Disconnect ==
    /\ sock' = FALSE /\ link' = "none"
    /\ requests' = <<>> /\ serving' = <<>> /\ responses' = <<>> /\ rbuf' = <<>>

\* A held socket is used again, whatever became of its connection.
Reuse ==
    /\ pc = "connect" /\ sock
    /\ pc' = "send" /\ sent' = 0 /\ rbuf' = <<>>
    /\ UNCHANGED <<nseg, attempt, sock, hdr, stops, played, outcome, link, requests,
                   serving, responses, faultVars>>

Connect ==
    /\ pc = "connect" /\ ~sock
    /\ pc' = "send" /\ sent' = 0 /\ sock' = TRUE /\ link' = "up"
    /\ UNCHANGED <<nseg, attempt, hdr, stops, played, outcome, requests, serving,
                   responses, rbuf, faultVars>>

\* The name does not resolve, or no connection within NW_CONNECT_TIMEOUT.
ConnectFails ==
    /\ pc = "connect" /\ ~sock /\ Fault("connect")
    /\ End("connect")
    /\ UNCHANGED <<nseg, sent, attempt, sock, hdr, stops, played, linkVars>>

-----------------------------------------------------------------------------
(* session_send_one, in the loop of session_send_recv that sends every     *)
(* request up front.  There is no send timeout: a full buffer blocks.      *)

\* send() does not fail on a connection the peer has closed until the peer's
\* answer to it has come back.
AfterSend ==
    /\ sent' = sent + 1
    /\ pc' = IF sent + 1 = nseg THEN "receive" ELSE "send"
    /\ stops' = 0

SendToServer ==
    /\ pc = "send" /\ link \in {"up", "hung", "dripping"} /\ Len(requests) < SendRoom
    /\ requests' = Append(requests, Request(sent + 1))
    /\ AfterSend
    /\ UNCHANGED <<nseg, attempt, sock, hdr, played, outcome, link, serving, responses,
                   rbuf, faultVars>>

SendIntoVoid ==
    /\ pc = "send" /\ link \in {"fin", "doomed"}
    /\ link' = "doomed"
    /\ AfterSend
    /\ UNCHANGED <<nseg, attempt, sock, hdr, played, outcome, requests, serving,
                   responses, rbuf, faultVars>>

\* Mutant: the connection is kept after a failed send.
SendFailsKeep ==
    /\ pc = "send" /\ link = "reset"
    /\ IF attempt = 1 THEN pc' = "connect" /\ attempt' = 2 /\ UNCHANGED outcome
       ELSE End("send") /\ UNCHANGED attempt
    /\ UNCHANGED <<nseg, sent, hdr, stops, played, sock, linkVars, faultVars>>

\* NWERR_SEND: disconnect, and try the whole utterance once more.
SendFails ==
    /\ pc = "send" /\ link = "reset"
    /\ Disconnect
    /\ IF attempt = 1 THEN pc' = "connect" /\ attempt' = 2 /\ UNCHANGED outcome
       ELSE End("send") /\ UNCHANGED attempt
    /\ UNCHANGED <<nseg, sent, hdr, stops, played, faultVars>>

\* NWERR_NOMEM returns before anything else happens.
SendNoMemory ==
    /\ pc = "send" /\ Fault("nomem")
    /\ End("nomem")
    /\ UNCHANGED <<nseg, sent, attempt, sock, hdr, stops, played, linkVars>>

-----------------------------------------------------------------------------
(* The receive loop of session_send_recv.                                  *)

\* buf_fill: recv() returns some of what has arrived.
Fill ==
    /\ pc = "receive" /\ rbuf = <<>> /\ link # "reset"
    /\ \E n \in 1..Len(responses) :
          /\ rbuf' = SubSeq(responses, 1, n)
          /\ responses' = SubSeq(responses, n + 1, Len(responses))
    /\ UNCHANGED <<sessionVars, link, requests, serving, faultVars>>

Parsing(kind) == pc = "receive" /\ rbuf # <<>> /\ Head(rbuf).kind = kind

TakeAudio ==
    /\ Parsing("audio")
    /\ played' = Append(played, Head(rbuf))
    /\ hdr' = "audio" /\ rbuf' = Tail(rbuf)
    /\ UNCHANGED <<pc, nseg, sent, attempt, sock, stops, outcome, link, requests,
                   serving, responses, faultVars>>

\* Mutant: the first audio-stop ends the utterance.
CountStopFirst ==
    /\ stops' = stops + 1
    /\ End("ok")

\* ++stops >= nseg ends the utterance.
CountStop ==
    /\ stops' = stops + 1
    /\ IF stops + 1 >= nseg THEN End("ok") ELSE UNCHANGED <<pc, outcome>>

TakeStop ==
    /\ Parsing("stop")
    /\ CountStop
    /\ hdr' = "stop" /\ rbuf' = Tail(rbuf)
    /\ UNCHANGED <<nseg, sent, attempt, sock, played, link, requests, serving,
                   responses, faultVars>>

Nothing == pc = "receive" /\ rbuf = <<>>

\* Mutant: an end of the stream is taken for nothing yet.
PeerClosedIgnored ==
    /\ Nothing /\ responses = <<>> /\ link \in {"fin", "doomed"}
    /\ UNCHANGED vars

\* recv() returns 0, the loop ends without an error, and the socket is kept.
PeerClosed ==
    /\ Nothing /\ responses = <<>> /\ link \in {"fin", "doomed"}
    /\ End("proto")
    /\ UNCHANGED <<nseg, sent, attempt, sock, hdr, stops, played, linkVars, faultVars>>

\* Mutants: a receive error is retried like a send error; it ends the utterance
\* and keeps the connection.
RecvFailsRetries ==
    /\ pc' = "connect" /\ UNCHANGED outcome
    /\ Disconnect

RecvFailsKeep ==
    /\ End("proto")
    /\ UNCHANGED <<sock, linkVars>>

\* recv() returns -1: NWERR_PROTO, and the connection is dropped.
RecvFails ==
    /\ End("proto")
    /\ Disconnect

\* read_line at the end of the stream: a partial line is returned without a
\* terminating NUL, so what the array held before is parsed behind it.  The two
\* may make an audio-stop, name a data block or a payload that never comes, or
\* mean nothing.
TakeCut ==
    /\ Parsing("cut")
    /\ \/ /\ hdr = "stop" /\ CountStop
          /\ rbuf' = Tail(rbuf) /\ UNCHANGED <<sock, link, requests, serving, responses>>
       \/ RecvFails /\ UNCHANGED stops
       \/ /\ rbuf' = Tail(rbuf)
          /\ UNCHANGED <<stops, pc, outcome, sock, link, requests, serving, responses>>
    /\ UNCHANGED <<nseg, sent, attempt, hdr, played, faultVars>>

\* play_payload meets the end of the stream; hdr[] holds the audio header.
TakeTorn ==
    /\ Parsing("torn")
    /\ RecvFails
    /\ hdr' = "audio"
    /\ UNCHANGED <<nseg, sent, attempt, stops, played, faultVars>>

RecvReset ==
    /\ Nothing /\ link = "reset"
    /\ RecvFails
    /\ UNCHANGED <<nseg, sent, attempt, hdr, stops, played, faultVars>>

\* Nothing for NW_RECV_TIMEOUT seconds: the server hangs, or is only slow.
RecvTimeout ==
    /\ Nothing /\ responses = <<>>
    /\ \/ link = "hung" /\ UNCHANGED faultVars
       \/ link = "up" /\ Fault("timeout")
    /\ RecvFails
    /\ UNCHANGED <<nseg, sent, attempt, hdr, stops, played>>

\* A server that drips: recv() returns a byte before its timeout, again and
\* again, and the event it belongs to is never complete.
RecvDrip ==
    /\ Nothing /\ responses = <<>> /\ link = "dripping"
    /\ UNCHANGED vars

-----------------------------------------------------------------------------
(* The server and the link.                                                *)

\* The server answers one request after the other: audio, then audio-stop.
ServerReads ==
    /\ link = "up" /\ serving = <<>> /\ requests # <<>>
    /\ LET q == Head(requests)
       IN  serving' = <<Audio(q.own, q.chunk), Stop(q.own, q.chunk)>>
    /\ requests' = Tail(requests)
    /\ UNCHANGED <<sessionVars, link, responses, rbuf, faultVars>>

ServerSends ==
    /\ link = "up" /\ serving # <<>> /\ Len(responses) < RecvRoom
    /\ responses' = Append(responses, Head(serving))
    /\ serving' = Tail(serving)
    /\ UNCHANGED <<sessionVars, link, requests, rbuf, faultVars>>

\* The server, or its machine, closes the connection ...
ServerCloses ==
    /\ link = "up" /\ Fault("fin")
    /\ link' = "fin" /\ serving' = <<>> /\ requests' = <<>>
    /\ UNCHANGED <<sessionVars, responses, rbuf>>

\* ... in the middle of a payload or of a header line ...
ServerCut ==
    /\ link = "up" /\ serving # <<>> /\ Len(responses) < RecvRoom
    /\ link' = "fin" /\ serving' = <<>> /\ requests' = <<>>
    /\ \/ Fault("torn") /\ Head(serving).kind = "audio"
          /\ responses' = Append(responses, Partial("torn"))
       \/ Fault("cut") /\ responses' = Append(responses, Partial("cut"))
    /\ UNCHANGED <<sessionVars, rbuf>>

\* ... without a word, or but for a byte now and then ...
ServerHangs ==
    /\ link = "up"
    /\ \/ Fault("hang") /\ link' = "hung"
       \/ Fault("drip") /\ link' = "dripping"
    /\ UNCHANGED <<sessionVars, requests, serving, responses, rbuf>>

\* ... or aborts it, and what was under way is lost.
LinkReset ==
    /\ link \in {"up", "hung", "dripping"} /\ Fault("reset")
    /\ link' = "reset" /\ requests' = <<>> /\ serving' = <<>> /\ responses' = <<>>
    /\ UNCHANGED <<sessionVars, rbuf>>

\* The peer's answer to data it no longer wants.
ResetArrives ==
    /\ link = "doomed"
    /\ link' = "reset" /\ responses' = <<>>
    /\ UNCHANGED <<sessionVars, requests, serving, rbuf, faultVars>>

-----------------------------------------------------------------------------
Receive == Fill \/ TakeAudio \/ TakeStop \/ TakeTorn \/ TakeCut \/ PeerClosed \/ RecvReset
              \/ RecvTimeout \/ RecvDrip
Device  == Reuse \/ Connect \/ SendToServer \/ SendIntoVoid \/ SendFails \/ Receive
Server  == ServerReads \/ ServerSends
Trouble == ConnectFails \/ SendNoMemory \/ ServerCloses \/ ServerCut \/ ServerHangs
              \/ LinkReset
Next == Device \/ Server \/ Trouble \/ ResetArrives \/ \E n \in Chunks : Say(n)

Spec == Init /\ [][Next]_vars

(***************************************************************************)
(* Fairness.  The device task runs (priority 1), the link delivers, and a  *)
(* server that neither hangs nor died answers.  A hang lasts, so the       *)
(* timeout of recv() fires.  For Recovers the callers go on speaking.      *)
(***************************************************************************)
FairSpec ==
    /\ Spec
    /\ WF_vars(Device) /\ WF_vars(ServerReads) /\ WF_vars(ServerSends)
    /\ WF_vars(ResetArrives)
    /\ WF_vars(\E n \in Chunks : Say(n))

-----------------------------------------------------------------------------
(* Properties.                                                             *)

\* The values the variables range over.
TypeOK ==
    /\ pc \in {"idle", "connect", "send", "receive"}
    /\ nseg \in 0..MaxChunks /\ sent \in 0..MaxChunks /\ attempt \in 0..2
    /\ sock \in BOOLEAN
    /\ link \in {"none", "up", "fin", "doomed", "hung", "dripping", "reset"}
    /\ sock <=> link # "none"
    /\ requests \in Seq([own : BOOLEAN, chunk : Chunks])
    /\ serving \in Seq(Event) /\ responses \in Seq(Event) /\ rbuf \in Seq(Event)
    /\ hdr \in {"none", "audio", "stop"}
    /\ stops \in 0..MaxChunks /\ played \in Seq(Event)
    /\ outcome \in {"none", "ok", "connect", "send", "proto", "nomem"}
    /\ faults \in 0..MaxFaults /\ struck \subseteq Faults /\ hurt \in BOOLEAN

\* The two faults the code has no answer to: the send buffer that cannot be
\* allocated leaves requests behind (Pipelined), and a connection that ends
\* inside a header line leaves the last header to be read again (Terminated).
Pipelined  == "nomem" \notin struck
Terminated == "cut" \notin struck

\* What an utterance plays is its own audio, chunk by chunk in the order of the
\* text and each chunk once, also after a retry on a second connection, and
\* never what an earlier utterance left on the held connection.
OwnAudio == \A i \in 1..Len(played) : played[i] = Audio(TRUE, i)
PlaysOwnAudio == Pipelined => OwnAudio

\* nw_session_say reports success only if every chunk was played.
SpokenWhole == outcome = "ok" => Len(played) = nseg
SuccessMeansComplete == Pipelined /\ Terminated => SpokenWhole

\* Between utterances a usable held connection is quiet: no answer and no
\* request of the last utterance is still under way on it, so the next one
\* starts in step with the server.
HeldLinkIsQuiet ==
    Pipelined /\ pc = "idle" /\ link \in {"up", "hung", "dripping"} =>
        requests = <<>> /\ serving = <<>> /\ responses = <<>> /\ rbuf = <<>>

\* nw_session_say keeps the promise of SpeechService, whatever the server, the
\* link and the retry do.
Speech == INSTANCE SpeechService WITH
    asked  <- nseg,
    said   <- [i \in DOMAIN played |-> IF played[i].own THEN played[i].chunk ELSE 0],
    result <- IF pc # "idle" THEN "pending"
              ELSE IF outcome \in {"none", "ok"} THEN outcome ELSE "failed",
    sound  <- Pipelined /\ Terminated

ImplementsSpeech == Speech!Spec

\* session_connect "ensures the held socket is connected": with a server that
\* accepts connections and nothing going wrong meanwhile, an utterance succeeds.
HealthyServerSpeaks ==
    pc = "idle" /\ outcome \notin {"none", "ok"} => hurt

\* nw_session_say returns, whether the server answers, hangs or goes away, but
\* for a server that drips.
UtteranceEnds == (pc # "idle") ~> (pc = "idle" \/ "drip" \in struck)

\* Once nothing goes wrong any more, the session speaks again by itself.
Recovers == []<>(outcome = "ok" \/ "drip" \in struck)
=============================================================================
