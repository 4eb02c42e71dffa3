---------------------------- MODULE NarratorUnit ----------------------------
(***************************************************************************)
(* The unit and the session it holds: NarratorDevice with nw_do_write      *)
(* opened up into the steps of WyomingSession.  The device task creates    *)
(* the session when it starts, says each CMD_WRITE on it, ties io_Error to *)
(* what nw_session_say returned, and closes it when it ends; the server    *)
(* and the link go on whatever the device does.                            *)
(*                                                                         *)
(* The task is inside nw_session_say while it serves and pc is not "idle". *)
(* The hooks know nothing of the session and leave it alone.               *)
(***************************************************************************)
EXTENDS NarratorDevice

CONSTANTS MaxChunks, SendRoom, RecvRoom, Faults, MaxFaults  \* see WyomingSession

VARIABLES
    pc, nseg, chunksSent, attempt, sock, hdr, stops, played, outcome,
    link, requests, serving, responses, rbuf, faults, struck, hurt,
                \* the variables of WyomingSession; chunksSent is its sent
    text,       \* number of chunks of a request's text, 0 if it is not spoken
    heard       \* number of its chunks that were played, each once and in order

S == INSTANCE WyomingSession WITH sent <- chunksSent

ASSUME UnitAssumption ==
    /\ MaxChunks \in Nat \ {0} /\ SendRoom \in Nat \ {0} /\ RecvRoom \in Nat \ {0}
    /\ Faults \subseteq S!AllFaults /\ MaxFaults \in Nat

sayVars     == <<pc, nseg, chunksSent, attempt, hdr, stops, played, outcome>>
linkVars    == <<link, requests, serving, responses, rbuf>>
faultVars   == <<faults, struck, hurt>>
sessionVars == <<sayVars, sock, linkVars, faultVars>>
textVars    == <<text, heard>>
unitVars    == <<vars, sessionVars, textVars>>

UnitInit ==
    /\ Init /\ S!Init
    /\ text = [r \in Requests |-> 0] /\ heard = [r \in Requests |-> 0]

-----------------------------------------------------------------------------
(* The hooks and the callers.                                              *)

\* The text is looked at only when the request is served: 0 stands for an empty
\* text and for phonemes.
Submit(c, r) ==
    /\ Write(c, r)
    /\ \E n \in 0..MaxChunks : text' = [text EXCEPT ![r] = n]
    /\ heard' = [heard EXCEPT ![r] = 0]

Quick(c, r, cmd, quick) ==
    /\ Sync(c, r, cmd, quick)
    /\ text' = [text EXCEPT ![r] = 0] /\ heard' = [heard EXCEPT ![r] = 0]

Hooks ==
    /\ \/ Open \/ Close
       \/ \E r \in Requests : Collect(r)
       \/ \E c \in Callers : Abort(c)
       \/ \E c \in Callers, r \in Requests : AbortFind(c, r)
    /\ UNCHANGED textVars

Calls ==
    \/ \E c \in Callers, r \in Requests : Submit(c, r)
    \/ \E c \in Callers, r \in Requests, cmd \in SyncCommands, quick \in BOOLEAN :
          Quick(c, r, cmd, quick)

-----------------------------------------------------------------------------
(* nw_dev_task with nw_do_write.                                           *)

\* session_create; the fields of a new session are zero, s->sock is -1.
SessionCreate ==
    /\ TaskStart
    /\ pc' = "idle" /\ nseg' = 0 /\ chunksSent' = 0 /\ attempt' = 0
    /\ sock' = FALSE /\ hdr' \in {"none", "audio", "stop"}
    /\ stops' = 0 /\ played' = <<>> /\ outcome' = "none"
    /\ UNCHANGED <<linkVars, faultVars, textVars>>

\* Mutant: the session is freed with its socket open.
HangUpNot == sock' = FALSE /\ UNCHANGED linkVars

\* session_close ends with session_disconnect.
HangUp == S!Disconnect

SessionClose ==
    /\ TaskUnwind
    /\ IF sess THEN HangUp ELSE UNCHANGED <<sock, linkVars>>
    /\ UNCHANGED <<sayVars, faultVars, textVars>>

\* TaskServe with the error e for the request in hand.
ServeWith(e) ==
    /\ TaskStep("serve", "reply")
    /\ error' = [error EXCEPT ![hand] = e]
    /\ served' = served \cup {hand}
    /\ UNCHANGED <<taskOutside, queue, hand, replies>>

ServeNoSession == ~sess /\ TaskServe /\ UNCHANGED <<sessionVars, textVars>>

Serving == task = "serve" /\ MayRun(Task) /\ sess

\* Nothing to say, or phonemes.
ServeNothing ==
    /\ Serving /\ pc = "idle" /\ text[hand] = 0
    /\ ServeWith("none")
    /\ UNCHANGED <<sessionVars, textVars>>

BeginUtterance ==
    /\ Serving /\ text[hand] > 0
    /\ S!Say(text[hand])
    /\ UNCHANGED <<vars, textVars>>

\* Mutant: a negative n is taken for a length.
AnswerAlwaysOk(result) == "none"

\* n >= 0 is a success.
AnswerOf(result) == IF result = "ok" THEN "none" ELSE "failed"

Heard(s) == IF \A i \in 1..Len(s) : s[i] = S!Audio(TRUE, i) THEN Len(s) ELSE 0

\* nw_session_say goes on; when it returns nw_do_write returns too.
UtteranceStep(Step) ==
    /\ Serving /\ pc # "idle" /\ Step
    /\ IF pc' # "idle" THEN UNCHANGED <<vars, textVars>>
       ELSE /\ ServeWith(AnswerOf(outcome'))
            /\ heard' = [heard EXCEPT ![hand] = Heard(played')]
            /\ UNCHANGED text

UtteranceGoesOn   == UtteranceStep(S!Device)
UtteranceSuffers  == UtteranceStep(S!ConnectFails \/ S!SendNoMemory)

TaskElse ==
    /\ \/ TaskPublish \/ TaskSignalReady \/ TaskCheck \/ TaskWaitPort
       \/ TaskGetRequest \/ TaskGetShut \/ TaskGetNone \/ TaskReply
       \/ TaskDrainRequest \/ TaskDrainShut \/ TaskDrained \/ TaskSignalDead
    /\ UNCHANGED <<sessionVars, textVars>>

UnitTask ==
    \/ SessionCreate \/ SessionClose \/ ServeNoSession \/ ServeNothing
    \/ BeginUtterance \/ UtteranceGoesOn \/ TaskElse

-----------------------------------------------------------------------------
(* The server and the link.                                                *)

Outside(Step) == Step /\ UNCHANGED <<vars, textVars>>

Network == Outside(S!Server \/ S!ResetArrives)

NetworkFails ==
    Outside(S!ServerCloses \/ S!ServerCut \/ S!ServerHangs \/ S!LinkReset)

UnitNext ==
    \/ (Hooks \/ Calls) /\ UNCHANGED sessionVars
    \/ UnitTask \/ UtteranceSuffers \/ Network \/ NetworkFails

(***************************************************************************)
(* Fairness: that of NarratorDevice, with nothing assumed of nw_do_write   *)
(* as a whole: its steps are steps of the device task, and the server and  *)
(* the link are as fair as in WyomingSession.                              *)
(***************************************************************************)
UnitSpec ==
    /\ UnitInit /\ [][UnitNext]_unitVars
    /\ SF_unitVars(UnitTask)
    /\ SF_unitVars(OpenGoesOn /\ UNCHANGED <<sessionVars, textVars>>)
    /\ SF_unitVars(CloseGoesOn /\ UNCHANGED <<sessionVars, textVars>>)
    /\ \A c \in Callers : SF_unitVars(Abort(c) /\ UNCHANGED <<sessionVars, textVars>>)
    /\ WF_unitVars(Outside(S!ServerReads)) /\ WF_unitVars(Outside(S!ServerSends))
    /\ WF_unitVars(Outside(S!ResetArrives))

-----------------------------------------------------------------------------
(* Properties.                                                             *)

\* io_Error tells the caller what was heard: a CMD_WRITE that succeeded was
\* spoken from its first chunk to its last, and one that was aborted not at all,
\* whoever aborted it and whatever the connection went through since.
AnswerTellsOutcome ==
    S!Pipelined /\ S!Terminated =>
        \A r \in Requests : replies[r] > 0 =>
            /\ error[r] = "none" => heard[r] = text[r]
            /\ error[r] = "aborted" => heard[r] = 0

\* A closed unit has no connection to the server: the socket dies with the
\* device task, in the middle of an utterance or not, before the Owner wakes up.
ClosedIsDisconnected == life \in {"closed", "release"} => link = "none"

\* The unit with its session still is the NarratorDevice that assumes of
\* nw_do_write that it ends: CloseDevice returns and every request is answered
\* though the server hangs, closes or resets the connection or never answers.
ImplementsDevice == FairSpec
=============================================================================
