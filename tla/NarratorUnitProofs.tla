------------------------- MODULE NarratorUnitProofs -------------------------
(***************************************************************************)
(* Theorems about NarratorUnit, for any requests, callers, chunks, socket  *)
(* buffers and faults.  The unit is put together from two proved parts:    *)
(* its device variables move as NarratorDevice does, its session variables *)
(* as WyomingSession does, but for the creation and the end of a session.  *)
(***************************************************************************)
EXTENDS NarratorUnit, NarratorDeviceProofs

USE DeviceAssumption, UnitAssumption DEF OwnerStep, TaskStep, CallFrame, taskOutside

\* The session with its theorems.
SP == INSTANCE WyomingSessionProofs WITH sent <- chunksSent

-----------------------------------------------------------------------------
(* S and SP are the same session.                                          *)

LEMMA SameVars == S!vars = SP!vars
BY DEF S!vars, SP!vars, S!sessionVars, SP!sessionVars, S!linkVars, SP!linkVars,
       S!faultVars, SP!faultVars

LEMMA SameTalk ==
    /\ S!Reuse <=> SP!Reuse
    /\ S!Connect <=> SP!Connect
    /\ S!SendToServer <=> SP!SendToServer
    /\ S!SendIntoVoid <=> SP!SendIntoVoid
    /\ S!SendFails <=> SP!SendFails
BY DEF S!Reuse, SP!Reuse, S!Connect, SP!Connect, S!SendToServer, SP!SendToServer,
       S!SendIntoVoid, SP!SendIntoVoid, S!SendFails, SP!SendFails, S!Request, SP!Request,
       S!AfterSend, SP!AfterSend, S!Disconnect, SP!Disconnect, S!End, SP!End,
       S!faultVars, SP!faultVars

LEMMA SameReceive == S!Receive <=> SP!Receive
<1> USE DEF S!sessionVars, SP!sessionVars, S!linkVars, SP!linkVars, S!faultVars, SP!faultVars,
            S!End, SP!End, S!Disconnect, SP!Disconnect, S!RecvFails, SP!RecvFails,
            S!Nothing, SP!Nothing, S!Parsing, SP!Parsing, S!CountStop, SP!CountStop,
            S!Fault, SP!Fault, S!vars, SP!vars
<1>1. S!Fill <=> SP!Fill
    BY DEF S!Fill, SP!Fill
<1>2. S!TakeAudio <=> SP!TakeAudio
    BY DEF S!TakeAudio, SP!TakeAudio
<1>3. S!TakeStop <=> SP!TakeStop
    BY DEF S!TakeStop, SP!TakeStop
<1>4. S!TakeTorn <=> SP!TakeTorn
    BY DEF S!TakeTorn, SP!TakeTorn
<1>5. S!TakeCut <=> SP!TakeCut
    BY DEF S!TakeCut, SP!TakeCut
<1>6. S!PeerClosed <=> SP!PeerClosed
    BY DEF S!PeerClosed, SP!PeerClosed
<1>7. S!RecvReset <=> SP!RecvReset
    BY DEF S!RecvReset, SP!RecvReset
<1>8. S!RecvTimeout <=> SP!RecvTimeout
    BY DEF S!RecvTimeout, SP!RecvTimeout
<1>9. S!RecvDrip <=> SP!RecvDrip
    BY DEF S!RecvDrip, SP!RecvDrip
<1> QED BY <1>1, <1>2, <1>3, <1>4, <1>5, <1>6, <1>7, <1>8, <1>9 DEF S!Receive, SP!Receive

LEMMA SameOutside ==
    /\ S!Server <=> SP!Server
    /\ S!ResetArrives <=> SP!ResetArrives
    /\ S!ConnectFails <=> SP!ConnectFails
    /\ S!SendNoMemory <=> SP!SendNoMemory
    /\ S!ServerCloses <=> SP!ServerCloses
    /\ S!ServerCut <=> SP!ServerCut
    /\ S!ServerHangs <=> SP!ServerHangs
    /\ S!LinkReset <=> SP!LinkReset
BY DEF S!Server, SP!Server, S!ServerReads, SP!ServerReads, S!ServerSends, SP!ServerSends,
       S!ResetArrives, SP!ResetArrives, S!ConnectFails, SP!ConnectFails,
       S!SendNoMemory, SP!SendNoMemory, S!ServerCloses, SP!ServerCloses,
       S!ServerCut, SP!ServerCut, S!ServerHangs, SP!ServerHangs, S!LinkReset, SP!LinkReset,
       S!Audio, SP!Audio, S!Stop, SP!Stop, S!Partial, SP!Partial, S!Fault, SP!Fault,
       S!End, SP!End, S!sessionVars, SP!sessionVars, S!linkVars, SP!linkVars,
       S!faultVars, SP!faultVars

LEMMA SameDevice == S!Device <=> SP!Device
BY SameTalk, SameReceive DEF S!Device, SP!Device

\* The steps the unit takes on the session, as steps of SP.
SessionMoves ==
    \/ S!Device \/ S!Server \/ S!ResetArrives
    \/ S!ConnectFails \/ S!SendNoMemory
    \/ S!ServerCloses \/ S!ServerCut \/ S!ServerHangs \/ S!LinkReset
    \/ \E n \in 1..MaxChunks : S!Say(n)

LEMMA SessionStep == SessionMoves \/ UNCHANGED sessionVars => [SP!Next]_(SP!vars)
<1>1. ASSUME NEW n \in 1..MaxChunks, S!Say(n) PROVE SP!Next
    <2>1. SP!Say(n) /\ n \in SP!Chunks
        BY <1>1 DEF S!Say, SP!Say, S!Aged, SP!Aged, SP!Chunks
    <2> QED BY <2>1 DEF SP!Next
<1>2. CASE UNCHANGED sessionVars
    BY <1>2 DEF sessionVars, sayVars, linkVars, faultVars, SP!vars, SP!sessionVars,
                SP!linkVars, SP!faultVars
<1> QED BY <1>1, <1>2, SameDevice, SameOutside DEF SessionMoves, SP!Next, SP!Trouble

-----------------------------------------------------------------------------
(* The device in the unit.                                                 *)

LEMMA DeviceServes ==
    ASSUME NEW e \in {"none", "failed"}, sess, ServeWith(e)
    PROVE  TaskServe
BY DEF ServeWith, TaskServe

LEMMA DeviceStep == [UnitNext]_unitVars => [Next]_vars
<1> SUFFICES ASSUME [UnitNext]_unitVars PROVE Next \/ UNCHANGED vars
    OBVIOUS
<1>1. CASE Hooks \/ Calls
    BY <1>1 DEF Hooks, Calls, Submit, Quick, Next
<1>2. CASE UnitTask \/ UtteranceSuffers
    <2>1. ASSUME Serving, ServeWith(AnswerOf(outcome')) PROVE TaskServe
        <3>1. PICK e \in {"none", "failed"} : e = AnswerOf(outcome')
            BY DEF AnswerOf
        <3>2. ServeWith(e)
            BY <2>1, <3>1 DEF ServeWith
        <3> QED BY <2>1, <3>2, DeviceServes DEF Serving
    <2>2. CASE UtteranceGoesOn \/ UtteranceSuffers
        <3>1. Serving /\ (UNCHANGED vars \/ ServeWith(AnswerOf(outcome')))
            BY <2>2 DEF UtteranceGoesOn, UtteranceSuffers, UtteranceStep
        <3> QED BY <2>1, <3>1 DEF Next, TaskNext
    <2>3. CASE ServeNothing
        BY <2>3, DeviceServes DEF ServeNothing, Serving, Next, TaskNext
    <2>4. CASE \/ SessionCreate \/ SessionClose \/ ServeNoSession \/ BeginUtterance \/ TaskElse
        BY <2>4 DEF SessionCreate, SessionClose, ServeNoSession, BeginUtterance, TaskElse,
                    Next, TaskNext
    <2> QED BY <1>2, <2>2, <2>3, <2>4 DEF UnitTask
<1>3. CASE Network \/ NetworkFails \/ UNCHANGED unitVars
    BY <1>3 DEF Network, NetworkFails, Outside, unitVars
<1> QED BY <1>1, <1>2, <1>3 DEF UnitNext

\* The unit with its session is a NarratorDevice: whatever the server and the
\* link do in the middle of nw_do_write, OpenDevice, CloseDevice, BeginIO,
\* AbortIO and the device task behave as that module says.
THEOREM UnitImplementsDevice == UnitSpec => Spec
<1>1. UnitInit => Init
    BY DEF UnitInit
<1> QED BY <1>1, DeviceStep, PTL DEF UnitSpec, Spec

\* So the unit promises its callers what RequestService promises, and keeps the
\* device's invariants.
THEOREM UnitImplementsService == UnitSpec => ImplementsService
BY UnitImplementsDevice, DeviceImplementsService, PTL

LEMMA UnitInvariance == UnitSpec => []AllInv
BY UnitImplementsDevice, Invariance, PTL

-----------------------------------------------------------------------------
(* The session in the unit.                                                *)
(*                                                                         *)
(* The session lives from session_create to session_close, both inside the *)
(* life of the device task; it is at work only while the task serves the   *)
(* request in hand, and then on the text of that request.                  *)

TextType ==
    /\ text \in [Requests -> 0..MaxChunks]
    /\ heard \in [Requests -> Nat]

AtWork  == pc # "idle" => task = "serve" /\ sess /\ nseg = text[hand]
Created == task \in {"none", "created", "signal_dead"} => ~sess
Gone    == ~sess => ~sock

SessionInv == SP!IInv /\ TextType /\ AtWork /\ Created /\ Gone

\* SP!IInv with the assumption of WyomingSession discharged.
LEMMA SessionKept == SP!IInv /\ [SP!Next]_(SP!vars) => SP!IInv'
BY SP!Next_IInv DEF SP!AllFaults, S!AllFaults

LEMMA SessionType ==
    ASSUME SP!IInv
    PROVE  /\ sock <=> link # "none"
           /\ played \in Seq(SP!Event) /\ nseg \in Nat
BY DEF SP!IInv, SP!ControlInv, SP!TypeOK

LEMMA SessionInit == UnitInit => SessionInv
<1> SUFFICES ASSUME UnitInit PROVE SessionInv
    OBVIOUS
<1>1. SP!Init
    BY DEF UnitInit, S!Init, SP!Init
<1>2. SP!IInv
    BY <1>1, SP!Init_IInv DEF SP!AllFaults, S!AllFaults
<1>3. TextType
    BY DEF UnitInit, TextType
<1> QED BY <1>1, <1>2, <1>3 DEF UnitInit, Init, SP!Init, SessionInv, AtWork, Created, Gone

\* session_create: a new session, on no connection.
LEMMA CreateStep ==
    ASSUME SessionInv, SessionCreate
    PROVE  SP!IInv'
<1>1. task = "created"
    BY DEF SessionCreate, TaskStart, TaskStep
<1>2. ~sock /\ link = "none"
    BY <1>1, SessionType DEF SessionInv, Created, Gone
<1>3. /\ pc' = "idle" /\ nseg' = 0 /\ chunksSent' = 0 /\ attempt' = 0 /\ sock' = FALSE
      /\ hdr' \in {"none", "audio", "stop"} /\ stops' = 0 /\ played' = <<>>
      /\ outcome' = "none"
      /\ UNCHANGED <<link, requests, serving, responses, rbuf, faults, struck, hurt>>
    BY DEF SessionCreate, linkVars, faultVars
<1>4. requests = <<>> /\ serving = <<>> /\ responses = <<>> /\ rbuf = <<>>
    BY <1>2 DEF SessionInv, SP!IInv, SP!ControlInv, SP!LinkInv, SP!Live
<1>5. SP!TypeOK'
    <2>1. <<>> \in Seq(SP!Event)
        OBVIOUS
    <2>2. SP!TypeOK
        BY DEF SessionInv, SP!IInv, SP!ControlInv
    <2>3. sock' <=> link' # "none"
        BY <1>2, <1>3
    <2>4. 0 \in 0..MaxChunks /\ 0 \in 0..2
        OBVIOUS
    <2> QED BY <1>3, <2>1, <2>2, <2>3, <2>4 DEF SP!TypeOK
<1>6. SP!CountInv' /\ SP!LinkInv'
    BY <1>2, <1>3, <1>4 DEF SP!CountInv, SP!LinkInv, SP!Live
<1>7. SP!CutInv'
    BY <1>3, <1>4 DEF SP!CutInv, SP!Uncut
<1>8. SP!SyncInv'
    <2>1. SP!OwnAudio'
        BY <1>3 DEF SP!OwnAudio
    <2> QED BY <1>3, <1>4, <2>1
            DEF SP!SyncInv, SP!QuietInv, SP!Quiet, SP!StepInv, SP!SpokenWhole
<1> QED BY <1>5, <1>6, <1>7, <1>8 DEF SP!IInv, SP!ControlInv

\* session_close, between two utterances.
LEMMA CloseStep ==
    ASSUME SessionInv, SessionClose
    PROVE  SP!IInv' /\ ~sock'
<1>1. task = "unwind" /\ pc = "idle" /\ UNCHANGED <<sayVars, faultVars>>
    BY DEF SessionClose, TaskUnwind, TaskStep, SessionInv, AtWork
<1>2. CASE ~sess
    <2>1. ~sock /\ UNCHANGED sessionVars
        BY <1>1, <1>2 DEF SessionClose, SessionInv, Gone, sessionVars
    <2> QED BY <2>1, SessionStep, SessionKept DEF SessionInv, sessionVars
<1>3. CASE sess
    <2>1. /\ sock' = FALSE /\ link' = "none" /\ requests' = <<>> /\ serving' = <<>>
          /\ responses' = <<>> /\ rbuf' = <<>>
          /\ UNCHANGED <<pc, nseg, chunksSent, attempt, hdr, stops, played, outcome,
                         faults, struck, hurt>>
        BY <1>1, <1>3 DEF SessionClose, HangUp, S!Disconnect, sayVars, faultVars
    <2>2. SP!TypeOK'
        <3>1. /\ <<>> \in Seq(SP!Event)
              /\ <<>> \in Seq([own : BOOLEAN, chunk : SP!Chunks])
            OBVIOUS
        <3>2. SP!TypeOK
            BY DEF SessionInv, SP!IInv, SP!ControlInv
        <3> QED BY <2>1, <3>1, <3>2 DEF SP!TypeOK
    <2>3. SP!CountInv' /\ SP!LinkInv'
        BY <1>1, <2>1 DEF SP!CountInv, SP!LinkInv
    <2>4. SP!CutInv'
        BY <2>1 DEF SP!CutInv, SP!Uncut
    <2>5. ASSUME SP!Pipelined' PROVE SP!SyncInv'
        <3>1. SP!SyncInv
            BY <2>1, <2>5 DEF SessionInv, SP!IInv, SP!Pipelined
        <3>2. SP!OwnAudio' /\ (SP!Terminated => SP!SpokenWhole)'
            BY <2>1, <3>1
               DEF SP!SyncInv, SP!OwnAudio, SP!Terminated, SP!SpokenWhole, SP!Audio
        <3> QED BY <1>1, <2>1, <3>2 DEF SP!SyncInv, SP!QuietInv, SP!Quiet, SP!StepInv
    <2> QED BY <2>1, <2>2, <2>3, <2>4, <2>5 DEF SP!IInv, SP!ControlInv
<1> QED BY <1>2, <1>3

\* What the session does in a step of the unit.
LEMMA UnitMoves ==
    ASSUME AllInv, SessionInv, [UnitNext]_unitVars
    PROVE  SessionMoves \/ UNCHANGED sessionVars \/ SessionCreate \/ SessionClose
<1>1. CASE BeginUtterance
    <2>1. hand \in Requests /\ text[hand] > 0
        BY <1>1 DEF BeginUtterance, Serving, AllInv, ControlInv, NotNull, TypeOK
    <2>2. PICK n \in 1..MaxChunks : n = text[hand]
        BY <2>1 DEF SessionInv, TextType
    <2>3. S!Say(n)
        BY <1>1, <2>2 DEF BeginUtterance, S!Say
    <2> QED BY <2>3 DEF SessionMoves
<1>2. CASE UtteranceGoesOn \/ UtteranceSuffers
    BY <1>2 DEF UtteranceGoesOn, UtteranceSuffers, UtteranceStep, SessionMoves
<1>3. CASE ServeNoSession \/ ServeNothing \/ TaskElse
    BY <1>3 DEF ServeNoSession, ServeNothing, TaskElse
<1>4. CASE Network \/ NetworkFails
    BY <1>4 DEF Network, NetworkFails, Outside, SessionMoves
<1>5. CASE UNCHANGED unitVars
    BY <1>5 DEF unitVars
<1> QED BY <1>1, <1>2, <1>3, <1>4, <1>5 DEF UnitNext, UnitTask

LEMMA FaultsGrow ==
    ASSUME AllInv, SessionInv, [UnitNext]_unitVars
    PROVE  struck \subseteq struck'
<1>1. [SP!Next]_(SP!vars) => struck \subseteq struck'
    BY SP!StruckGrows DEF SP!AllFaults, S!AllFaults
<1> QED BY <1>1, UnitMoves, SessionStep DEF SessionCreate, SessionClose, faultVars

\* A step of the session inside an utterance leaves its text alone.
LEMMA SayFrame ==
    /\ S!Device \/ S!ConnectFails \/ S!SendNoMemory => nseg' = nseg
    /\ \/ S!Server \/ S!ResetArrives \/ S!ServerCloses \/ S!ServerCut \/ S!ServerHangs
       \/ S!LinkReset
       => UNCHANGED <<sayVars, sock>>
<1>1. S!Device \/ S!ConnectFails \/ S!SendNoMemory => nseg' = nseg
    BY DEF S!Device, S!Reuse, S!Connect, S!SendToServer, S!SendIntoVoid, S!SendFails,
           S!Receive, S!Fill, S!TakeAudio, S!TakeStop, S!TakeTorn, S!TakeCut, S!PeerClosed,
           S!RecvReset, S!RecvTimeout, S!RecvDrip, S!ConnectFails, S!SendNoMemory,
           S!sessionVars, S!vars
<1>2. \/ S!Server \/ S!ResetArrives \/ S!ServerCloses \/ S!ServerCut \/ S!ServerHangs
      \/ S!LinkReset
      => UNCHANGED <<sayVars, sock>>
    BY DEF S!Server, S!ServerReads, S!ServerSends, S!ResetArrives, S!ServerCloses,
           S!ServerCut, S!ServerHangs, S!LinkReset, S!sessionVars, sayVars
<1> QED BY <1>1, <1>2

\* The hooks and the callers leave the device task alone, but for its creation.
LEMMA HooksFrame ==
    ASSUME AllInv, Hooks \/ Calls
    PROVE  /\ UNCHANGED <<sess, hand>>
           /\ task' = task \/ (task = "none" /\ task' = "created")
<1>1. CASE Open
    <2>1. life = "create_task" => task = "none"
        BY DEF AllInv, ControlInv, LifeInv, TasklessLives
    <2> QED BY <1>1, <2>1
            DEF Open, OpenAllocCtx, OpenAllocSignals, OpenDos, OpenCreateTask,
                OpenSetUserData, OpenReady
<1>2. CASE Close
    BY <1>2 DEF Close, CloseMark, ClosePut, CloseDead, CloseFree
<1>3. CASE \/ \E r \in Requests : Collect(r)
           \/ \E c \in Callers : Abort(c)
           \/ \E c \in Callers, r \in Requests : AbortFind(c, r)
    BY <1>3 DEF Collect, Abort, AbortUnlink, AbortReply, AbortFind, taskVars
<1>4. CASE Calls
    BY <1>4 DEF Calls, Submit, Quick, Write, Sync, taskVars
<1> QED BY <1>1, <1>2, <1>3, <1>4 DEF Hooks

\* The request in hand is not sent again.
LEMMA TextKept ==
    ASSUME AllInv, TextType, Hooks \/ Calls
    PROVE  TextType' /\ (hand # None => text'[hand] = text[hand] /\ heard'[hand] = heard[hand])
<1>1. CASE Hooks
    BY <1>1 DEF Hooks, textVars, TextType
<1>2. ASSUME NEW r \in Requests, r \notin sent, NEW n \in 0..MaxChunks,
             text' = [text EXCEPT ![r] = n], heard' = [heard EXCEPT ![r] = 0]
      PROVE  /\ TextType'
             /\ hand # None => text'[hand] = text[hand] /\ heard'[hand] = heard[hand]
    <2>1. hand # r
        BY <1>2 DEF AllInv, HolderInv, OneHolder
    <2> QED BY <1>2, <2>1 DEF TextType, AllInv, ControlInv, TypeOK
<1>3. CASE Calls
    <2>1. ASSUME NEW c \in Callers, NEW r \in Requests, Submit(c, r)
          PROVE  /\ r \notin sent /\ heard' = [heard EXCEPT ![r] = 0]
                 /\ \E n \in 0..MaxChunks : text' = [text EXCEPT ![r] = n]
        BY <2>1 DEF Submit, Write
    <2>2. ASSUME NEW c \in Callers, NEW r \in Requests, NEW cmd \in SyncCommands,
                 NEW quick \in BOOLEAN, Quick(c, r, cmd, quick)
          PROVE  /\ r \notin sent /\ heard' = [heard EXCEPT ![r] = 0]
                 /\ text' = [text EXCEPT ![r] = 0] /\ 0 \in 0..MaxChunks
        BY <2>2 DEF Quick, Sync
    <2> QED BY <1>2, <1>3, <2>1, <2>2 DEF Calls
<1> QED BY <1>1, <1>3

LEMMA SessionInvStep ==
    ASSUME AllInv, SessionInv, [UnitNext]_unitVars
    PROVE  SessionInv'
<1>1. SP!IInv'
    <2>1. SessionMoves \/ UNCHANGED sessionVars => SP!IInv'
        BY SessionStep, SessionKept DEF SessionInv
    <2> QED BY <2>1, UnitMoves, CreateStep, CloseStep
<1>2. /\ task = "serve" => hand \in Requests
      /\ text \in [Requests -> 0..MaxChunks] /\ heard \in [Requests -> Nat]
    BY DEF AllInv, ControlInv, NotNull, TypeOK, SessionInv, TextType
<1> SUFFICES TextType' /\ AtWork' /\ Created' /\ Gone'
    BY <1>1 DEF SessionInv
<1> USE DEF SessionInv, AtWork, Created, Gone
<1>3. CASE (Hooks \/ Calls) /\ UNCHANGED sessionVars
    <2>1. /\ UNCHANGED <<sess, hand, pc, nseg, sock>>
          /\ task' = task \/ (task = "none" /\ task' = "created")
        BY <1>3, HooksFrame DEF sessionVars, sayVars
    <2>2. TextType' /\ (hand # None => text'[hand] = text[hand])
        BY <1>3, TextKept
    <2>3. pc # "idle" => hand # None
        BY <1>2
    <2> QED BY <2>1, <2>2, <2>3
<1>4. CASE SessionCreate
    BY <1>4 DEF SessionCreate, TaskStart, textVars, TextType
<1>5. CASE SessionClose
    <2>1. ~sock' /\ pc' = pc /\ task = "unwind" /\ task' = "signal_dead" /\ ~sess'
          /\ UNCHANGED textVars
        BY <1>5, CloseStep DEF SessionClose, TaskUnwind, sayVars
    <2> QED BY <2>1 DEF textVars, TextType
<1>6. CASE ServeNoSession \/ ServeNothing
    <2>1. /\ pc = "idle" /\ pc' = pc /\ sock' = sock /\ sess' = sess
          /\ task' = "reply" /\ UNCHANGED textVars
        BY <1>6 DEF ServeNoSession, ServeNothing, TaskServe, ServeWith, sessionVars, sayVars
    <2> QED BY <2>1 DEF textVars, TextType
<1>7. CASE BeginUtterance
    <2>1. /\ task = "serve" /\ sess /\ UNCHANGED <<vars, textVars>> /\ nseg' = text[hand]
          /\ sock' = sock
        BY <1>7 DEF BeginUtterance, Serving, S!Say
    <2> QED BY <2>1 DEF textVars, TextType, vars, taskVars
<1>8. CASE UtteranceGoesOn \/ UtteranceSuffers
    <2>1. /\ task = "serve" /\ sess /\ pc # "idle" /\ nseg' = nseg
        BY <1>8, SayFrame
           DEF UtteranceGoesOn, UtteranceSuffers, UtteranceStep, Serving
    <2>2. CASE pc' # "idle"
        <3>1. UNCHANGED <<vars, textVars>>
            BY <1>8, <2>2 DEF UtteranceGoesOn, UtteranceSuffers, UtteranceStep
        <3> QED BY <2>1, <3>1 DEF textVars, TextType, vars, taskVars
    <2>3. CASE pc' = "idle"
        <3>1. /\ ServeWith(AnswerOf(outcome')) /\ text' = text
              /\ heard' = [heard EXCEPT ![hand] = Heard(played')]
            BY <1>8, <2>3 DEF UtteranceGoesOn, UtteranceSuffers, UtteranceStep
        <3>2. task' = "reply" /\ sess' = sess
            BY <3>1 DEF ServeWith
        <3>3. Heard(played') \in Nat
            <4>1. played' \in Seq(SP!Event')
                BY <1>1 DEF SP!IInv, SP!ControlInv, SP!TypeOK
            <4>2. Len(played') \in Nat
                BY <4>1, LenProperties
            <4> QED BY <4>2 DEF Heard
        <3> QED BY <1>2, <2>1, <2>3, <3>1, <3>2, <3>3 DEF TextType
    <2> QED BY <2>2, <2>3
<1>9. CASE TaskElse
    <2>1. UNCHANGED <<pc, nseg, sock, sess, text, heard>>
        BY <1>9 DEF TaskElse, TaskPublish, TaskSignalReady, TaskCheck, TaskWaitPort,
           TaskGetRequest, TaskGetShut, TaskGetNone, TaskReply, TaskDrainRequest,
           TaskDrainShut, TaskDrained, TaskSignalDead, sessionVars, sayVars, textVars
    <2>2. task # "serve" /\ (task' \in {"none", "created", "signal_dead"} => task = "signal_dead")
        BY <1>9 DEF TaskElse, TaskPublish, TaskSignalReady, TaskCheck, TaskWaitPort,
           TaskGetRequest, TaskGetShut, TaskGetNone, TaskReply, TaskDrainRequest,
           TaskDrainShut, TaskDrained, TaskSignalDead, LoopOrDrain
    <2> QED BY <2>1, <2>2 DEF TextType
<1>10. CASE Network \/ NetworkFails
    <2>1. UNCHANGED <<sayVars, sock, vars, textVars>>
        BY <1>10, SayFrame DEF Network, NetworkFails, Outside
    <2> QED BY <2>1 DEF textVars, TextType, vars, taskVars, sayVars
<1>11. CASE UNCHANGED unitVars
    BY <1>11 DEF unitVars, textVars, TextType, vars, taskVars, sessionVars, sayVars
<1> QED BY <1>3, <1>4, <1>5, <1>6, <1>7, <1>8, <1>9, <1>10, <1>11 DEF UnitNext, UnitTask

LEMMA SessionInvariance == UnitSpec => []SessionInv
<1>1. UnitInit => SessionInv
    BY SessionInit
<1>2. AllInv /\ SessionInv /\ [UnitNext]_unitVars => SessionInv'
    BY SessionInvStep
<1> QED BY <1>1, <1>2, UnitInvariance, PTL DEF UnitSpec

\* A closed unit has no connection: the device task, which alone has a session,
\* is gone when CloseDevice returns, and disconnects before it goes.
THEOREM ClosedDisconnects == UnitSpec => []ClosedIsDisconnected
<1>1. AllInv /\ SessionInv => ClosedIsDisconnected
    <2> SUFFICES ASSUME AllInv, SessionInv, life \in {"closed", "release"}
                 PROVE  link = "none"
        BY DEF ClosedIsDisconnected
    <2>1. task = "none"
        BY DEF AllInv, ControlInv, LifeInv, TasklessLives
    <2> QED BY <2>1, SessionType DEF SessionInv, Created, Gone
<1> QED BY <1>1, UnitInvariance, SessionInvariance, PTL

-----------------------------------------------------------------------------
(* What io_Error says of what was heard.                                   *)
(*                                                                         *)
(* A request that still waits, or is just being aborted, was not heard;    *)
(* what the device task has just served and not yet answered was heard as  *)
(* its error says.                                                         *)

AllWell == S!Pipelined /\ S!Terminated

Unspoken(r) ==
    \/ InQueue(r) \/ (hand = r /\ task = "serve")
    \/ \E c \in Callers : InReply(c, r)

ToldRight(r) ==
    /\ Unspoken(r) => heard[r] = 0
    /\ hand = r /\ task = "reply" /\ error[r] = "none" => heard[r] = text[r]
    /\ replies[r] > 0 /\ error[r] = "none" => heard[r] = text[r]
    /\ replies[r] > 0 /\ error[r] = "aborted" => heard[r] = 0

HeardInv == AllWell => \A r \in Requests : ToldRight(r)

\* A step that changes no request.
LEMMA ToldFrame ==
    ASSUME NEW r \in Requests, ToldRight(r),
           UNCHANGED <<queue, hand, call, target, replies, error, text, heard>>,
           task' = task \/ task' \notin {"serve", "reply"}
    PROVE  ToldRight(r)'
BY DEF ToldRight, Unspoken, InQueue, InReply

\* nw_session_say reported success, and was heard from the first chunk to the
\* last.
LEMMA SuccessIsHeard ==
    ASSUME SessionInv', AllWell', outcome' = "ok"
    PROVE  Heard(played') = nseg'
<1>1. SP!OwnAudio' /\ SP!SpokenWhole'
    BY DEF SessionInv, AllWell, S!Pipelined, S!Terminated, SP!Pipelined, SP!Terminated,
           SP!IInv, SP!SyncInv
<1>2. Len(played') = nseg' /\ \A i \in 1..Len(played') : played'[i] = S!Audio(TRUE, i)
    BY <1>1 DEF SP!OwnAudio, SP!SpokenWhole, SP!Audio, S!Audio
<1> QED BY <1>2 DEF Heard

\* Requests are typed, and in one place.
LEMMA Placed ==
    ASSUME AllInv
    PROVE  /\ queue \in Seq(Messages) /\ IsInjective(queue)
           /\ hand \in Requests \cup {None}
           /\ call \in [Callers -> {"idle", "unlink", "reply"}]
           /\ target \in [Callers -> Requests \cup {None}]
           /\ replies \in [Requests -> Nat]
           /\ error \in [Requests -> {"none", "aborted", "failed", "nowrite", "nocmd"}]
           /\ task \in {"serve", "reply"} => hand \in Requests
           /\ \A r \in Requests :
                /\ InQueue(r) \/ hand = r \/ (\E c \in Callers : InReply(c, r))
                   => r \in sent /\ replies[r] = 0
                /\ replies[r] > 0 => r \in sent
                /\ \A c \in Callers : InReply(c, r) => hand # r /\ ~InQueue(r)
                /\ hand = r => ~InQueue(r)
BY DEF AllInv, ControlInv, TypeOK, NotNull, HolderInv, OneHolder, Messages

\* The steps of the Owner and of the callers.
LEMMA HooksTell ==
    ASSUME AllInv, SessionInv, Hooks, NEW r \in Requests, ToldRight(r)
    PROVE  ToldRight(r)'
<1>0. UNCHANGED <<text, heard>>
    BY DEF Hooks, textVars
<1>1. CASE Open \/ CloseMark \/ CloseDead \/ CloseFree
    <2>1. UNCHANGED <<queue, hand, call, target, replies, error>>
        BY <1>1 DEF Open, OpenAllocCtx, OpenAllocSignals, OpenDos, OpenCreateTask,
           OpenSetUserData, OpenReady, CloseMark, CloseDead, CloseFree, callVars, reqVars
    <2>2. task' = task \/ task' \notin {"serve", "reply"}
        BY HooksFrame
    <2> QED BY <1>0, <2>1, <2>2, ToldFrame
<1>2. CASE ClosePut
    <2>1. /\ UNCHANGED <<hand, call, target, replies, error, task>>
          /\ queue' = queue \/ queue' = Append(queue, ShutMsg)
        BY <1>2 DEF ClosePut, callVars, reqVars
    <2>2. InQueue(r)' <=> InQueue(r)
        <3>1. ShutMsg \in Messages /\ r # ShutMsg
            BY DEF Messages
        <3>2. \A m : Contains(Append(queue, ShutMsg), m) <=> Contains(queue, m) \/ m = ShutMsg
            BY <3>1, Placed, AppendFacts
        <3> QED BY <2>1, <3>1, <3>2 DEF InQueue
    <2> QED BY <1>0, <2>1, <2>2 DEF ToldRight, Unspoken, InReply
<1>3. ASSUME NEW x \in Requests, Collect(x) PROVE ToldRight(r)'
    <2>1. /\ UNCHANGED <<queue, hand, call, target, error, task>>
          /\ replies' = [replies EXCEPT ![x] = @ - 1] /\ replies[x] > 0
        BY <1>3 DEF Collect, taskVars, callVars
    <2>2. replies'[r] > 0 => replies[r] > 0
        BY <2>1, Placed
    <2> QED BY <1>0, <2>1, <2>2 DEF ToldRight, Unspoken, InQueue, InReply
<1>4. ASSUME NEW c \in Callers, NEW x \in Requests, AbortFind(c, x) PROVE ToldRight(r)'
    <2>1. /\ UNCHANGED <<queue, hand, replies, error, task>> /\ call[c] = "idle"
          /\ call' = [call EXCEPT ![c] = "unlink"] /\ target' = [target EXCEPT ![c] = x]
        BY <1>4 DEF AbortFind, MayCall, taskVars, reqVars
    <2>2. \A d \in Callers : InReply(d, r)' => InReply(d, r)
        BY <2>1, Placed DEF InReply
    <2> QED BY <1>0, <2>1, <2>2 DEF ToldRight, Unspoken, InQueue
<1>5. ASSUME NEW c \in Callers, AbortUnlink(c) PROVE ToldRight(r)'
    <2>1. /\ UNCHANGED <<hand, target, replies, error, task>> /\ call[c] = "unlink"
          /\ call' = [call EXCEPT ![c] = "reply"]
        BY <1>5 DEF AbortUnlink, taskVars, reqVars
    <2>2. InQueue(target[c])
        BY <2>1 DEF AllInv, HolderInv, CallFound
    <2>3. InQueue(r)' => InQueue(r)
        BY <1>5, <2>2, Placed, UnlinkFacts DEF AbortUnlink, InQueue
    <2>4. \A d \in Callers : InReply(d, r)' => InReply(d, r) \/ r = target[c]
        BY <2>1, Placed DEF InReply
    <2>5. Unspoken(r)' => Unspoken(r)
        BY <2>1, <2>2, <2>3, <2>4 DEF Unspoken
    <2> QED BY <1>0, <2>1, <2>5 DEF ToldRight
<1>6. ASSUME NEW c \in Callers, AbortReply(c) PROVE ToldRight(r)'
    <2> DEFINE x == target[c]
    <2>1. /\ UNCHANGED <<queue, hand, task>> /\ call[c] = "reply"
          /\ call' = [call EXCEPT ![c] = "idle"] /\ target' = [target EXCEPT ![c] = None]
          /\ error' = [error EXCEPT ![x] = "aborted"]
          /\ replies' = [replies EXCEPT ![x] = @ + 1]
        BY <1>6 DEF AbortReply, taskVars
    <2>2. \A d \in Callers : InReply(d, r)' => InReply(d, r)
        BY <2>1, Placed DEF InReply
    <2>3. Unspoken(r)' => Unspoken(r)
        BY <2>1, <2>2 DEF Unspoken, InQueue
    <2>4. CASE r = x
        <3>1. Unspoken(r) /\ error'[r] = "aborted"
            BY <2>1, <2>4, Placed DEF Unspoken, InReply
        <3> QED BY <1>0, <2>3, <3>1 DEF ToldRight
    <2>5. CASE r # x
        <3>1. error'[r] = error[r] /\ replies'[r] = replies[r]
            BY <2>1, <2>5, Placed
        <3> QED BY <1>0, <2>1, <2>3, <3>1 DEF ToldRight
    <2> QED BY <2>4, <2>5
<1> QED BY <1>1, <1>2, <1>3, <1>4, <1>5, <1>6 DEF Hooks, Close, Abort

LEMMA CallsTell ==
    ASSUME AllInv, SessionInv, Calls, NEW r \in Requests, ToldRight(r)
    PROVE  ToldRight(r)'
<1>0. text \in [Requests -> 0..MaxChunks] /\ heard \in [Requests -> Nat]
    BY DEF SessionInv, TextType
<1>1. ASSUME NEW c \in Callers, NEW x \in Requests, Submit(c, x) PROVE ToldRight(r)'
    <2>1. /\ UNCHANGED <<hand, task, call, target>> /\ x \notin sent
          /\ queue' = Append(queue, x) \/ queue' = queue
          /\ error' = [error EXCEPT ![x] = "failed"]
             \/ (error' = [error EXCEPT ![x] = "none"] /\ replies' = replies)
          /\ replies' = replies \/ replies' = [replies EXCEPT ![x] = @ + 1]
          /\ \E n \in 0..MaxChunks : text' = [text EXCEPT ![x] = n]
          /\ heard' = [heard EXCEPT ![x] = 0]
        BY <1>1 DEF Submit, Write, taskVars, callVars
    <2>2. InQueue(r)' => InQueue(r) \/ r = x
        <3>1. x \in Messages
            BY DEF Messages
        <3>2. \A m : Contains(Append(queue, x), m) <=> Contains(queue, m) \/ m = x
            BY <3>1, Placed, AppendFacts
        <3> QED BY <2>1, <3>2 DEF InQueue
    <2>3. CASE r = x
        <3>1. heard'[r] = 0 /\ hand' # r
            BY <1>0, <2>1, <2>3, Placed
        <3>2. replies'[r] > 0 => error'[r] = "failed"
            BY <2>1, <2>3, Placed
        <3> QED BY <3>1, <3>2 DEF ToldRight
    <2>4. CASE r # x
        <3>1. /\ heard'[r] = heard[r] /\ text'[r] = text[r] /\ error'[r] = error[r]
              /\ replies'[r] = replies[r]
            BY <1>0, <2>1, <2>4, Placed
        <3>2. Unspoken(r)' => Unspoken(r)
            BY <2>1, <2>2, <2>4 DEF Unspoken, InReply
        <3> QED BY <2>1, <3>1, <3>2 DEF ToldRight
    <2> QED BY <2>3, <2>4
<1>2. ASSUME NEW c \in Callers, NEW x \in Requests, NEW cmd \in SyncCommands,
             NEW quick \in BOOLEAN, Quick(c, x, cmd, quick)
      PROVE  ToldRight(r)'
    <2>1. /\ UNCHANGED <<hand, task, call, target>> /\ x \notin sent /\ life = "open"
          /\ queue' = AfterFlush(cmd)
          /\ text' = [text EXCEPT ![x] = 0] /\ heard' = [heard EXCEPT ![x] = 0]
          /\ r # x => error'[r] = IF r \in FlushedAll(cmd) THEN "aborted" ELSE error[r]
          /\ r # x /\ r \notin FlushedAll(cmd) => replies'[r] = replies[r]
        BY <1>2 DEF Quick, Sync, MayCall, taskVars, callVars
    <2>2. InQueue(r)' => InQueue(r)
        <3>1. ~InQueue(ShutMsg)
            BY <2>1 DEF AllInv, ControlInv, TaskInv
        <3> QED BY <2>1, <3>1, EmptyFacts DEF AfterFlush, InQueue
    <2>3. CASE r = x
        <3>1. heard'[r] = 0 /\ text'[r] = 0
            BY <1>0, <2>1, <2>3
        <3> QED BY <3>1 DEF ToldRight
    <2>4. CASE r # x
        <3>1. heard'[r] = heard[r] /\ text'[r] = text[r]
            BY <1>0, <2>1, <2>4
        <3>2. Unspoken(r)' => Unspoken(r)
            BY <2>1, <2>2 DEF Unspoken, InReply
        <3>3. CASE r \in FlushedAll(cmd)
            <4>1. Unspoken(r) /\ error'[r] = "aborted"
                BY <2>1, <2>4, <3>3 DEF FlushedAll, Unspoken
            <4> QED BY <3>1, <3>2, <4>1 DEF ToldRight
        <3>4. CASE r \notin FlushedAll(cmd)
            <4>1. error'[r] = error[r] /\ replies'[r] = replies[r]
                BY <2>1, <2>4, <3>4
            <4> QED BY <2>1, <3>1, <3>2, <4>1 DEF ToldRight
        <3> QED BY <3>3, <3>4
    <2> QED BY <2>3, <2>4
<1> QED BY <1>1, <1>2 DEF Calls

\* The steps of the device task outside nw_do_write.
LEMMA TaskTell ==
    ASSUME AllInv, SessionInv, TaskElse, NEW r \in Requests, ToldRight(r)
    PROVE  ToldRight(r)'
<1>0. UNCHANGED <<text, heard>>
    BY DEF TaskElse, textVars
<1>1. CASE \/ TaskPublish \/ TaskSignalReady \/ TaskCheck \/ TaskWaitPort \/ TaskGetNone
           \/ TaskDrained \/ TaskSignalDead
    <2>1. /\ UNCHANGED <<queue, hand, call, target, replies, error>>
          /\ task' \notin {"serve", "reply"}
        BY <1>1 DEF TaskPublish, TaskSignalReady, TaskCheck, TaskWaitPort, TaskGetNone,
           TaskDrained, TaskSignalDead, LoopOrDrain, portVars, callVars
    <2> QED BY <1>0, <2>1, ToldFrame
<1>2. ASSUME queue # <<>>, queue' = Tail(queue)
      PROVE  (InQueue(r)' => InQueue(r)) /\ InQueue(Head(queue))
    BY <1>2, Placed, TailFacts DEF InQueue
<1>3. CASE TaskGetRequest
    <2>1. /\ queue # <<>> /\ queue' = Tail(queue) /\ hand' = Head(queue) /\ task' = "serve"
          /\ UNCHANGED <<call, target, replies, error>>
        BY <1>3 DEF TaskGetRequest, callVars
    <2>2. Unspoken(r)' => Unspoken(r)
        BY <1>2, <2>1 DEF Unspoken, InReply
    <2> QED BY <1>0, <2>1, <2>2 DEF ToldRight
<1>4. CASE TaskGetShut \/ TaskDrainShut
    <2>1. /\ queue # <<>> /\ queue' = Tail(queue) /\ task' = "drain"
          /\ UNCHANGED <<hand, call, target, replies, error>>
        BY <1>4 DEF TaskGetShut, TaskDrainShut, callVars
    <2>2. Unspoken(r)' => Unspoken(r)
        BY <1>2, <2>1 DEF Unspoken, InReply
    <2> QED BY <1>0, <2>1, <2>2 DEF ToldRight
<1>5. CASE TaskDrainRequest
    <2>1. /\ queue # <<>> /\ queue' = Tail(queue) /\ task' = "drain"
          /\ UNCHANGED <<hand, call, target>>
          /\ error' = [error EXCEPT ![Head(queue)] = "aborted"]
          /\ replies' = [replies EXCEPT ![Head(queue)] = @ + 1]
        BY <1>5 DEF TaskDrainRequest, callVars
    <2>2. Unspoken(r)' => Unspoken(r)
        BY <1>2, <2>1 DEF Unspoken, InReply
    <2>3. CASE r = Head(queue)
        <3>1. Unspoken(r) /\ error'[r] = "aborted"
            BY <1>2, <2>1, <2>3, Placed DEF Unspoken
        <3> QED BY <1>0, <2>1, <3>1 DEF ToldRight
    <2>4. CASE r # Head(queue)
        <3>1. error'[r] = error[r] /\ replies'[r] = replies[r]
            BY <2>1, <2>4, Placed
        <3> QED BY <1>0, <2>1, <2>2, <3>1 DEF ToldRight
    <2> QED BY <2>3, <2>4
<1>6. CASE TaskReply
    <2>1. /\ task = "reply" /\ task' = "get_msg" /\ hand' = None
          /\ UNCHANGED <<queue, call, target, error>>
          /\ replies' = [replies EXCEPT ![hand] = @ + 1]
        BY <1>6 DEF TaskReply, callVars
    <2>2. Unspoken(r)' => Unspoken(r)
        BY <2>1 DEF Unspoken, InQueue, InReply
    <2>3. CASE r = hand
        <3>1. error[r] # "aborted"
            BY <2>1, <2>3 DEF AllInv, ServedAll, ServedInv
        <3> QED BY <1>0, <2>1, <2>2, <2>3, <3>1 DEF ToldRight
    <2>4. CASE r # hand
        <3>1. replies'[r] = replies[r]
            BY <2>1, <2>4, Placed
        <3> QED BY <1>0, <2>1, <2>2, <3>1 DEF ToldRight
    <2> QED BY <2>3, <2>4
<1> QED BY <1>1, <1>3, <1>4, <1>5, <1>6 DEF TaskElse

\* The request in hand is served, with an error that tells what was heard.
LEMMA ServedTell ==
    ASSUME AllInv, task = "serve", task' = "reply", NEW e, e # "aborted",
           error' = [error EXCEPT ![hand] = e],
           UNCHANGED <<queue, hand, call, target, replies, text>>,
           e = "none" => heard'[hand] = text[hand],
           \A x \in Requests : x # hand => heard'[x] = heard[x],
           NEW r \in Requests, ToldRight(r)
    PROVE  ToldRight(r)'
<1>1. hand \in Requests /\ replies[hand] = 0 /\ ~InQueue(hand)
      /\ \A c \in Callers : ~InReply(c, hand)
    BY Placed
<1>2. CASE r = hand
    <2>1. error'[r] = e /\ ~Unspoken(r)' /\ replies'[r] = 0
        BY <1>1, <1>2, Placed DEF Unspoken, InQueue, InReply
    <2> QED BY <1>2, <2>1 DEF ToldRight
<1>3. CASE r # hand
    <2>1. error'[r] = error[r] /\ heard'[r] = heard[r] /\ text'[r] = text[r]
        BY <1>1, <1>3, Placed
    <2>2. Unspoken(r)' => Unspoken(r)
        BY <1>3 DEF Unspoken, InQueue, InReply
    <2> QED BY <1>3, <2>1, <2>2 DEF ToldRight
<1> QED BY <1>2, <1>3

LEMMA HeardStep ==
    ASSUME AllInv, SessionInv, SessionInv', HeardInv, [UnitNext]_unitVars
    PROVE  HeardInv'
<1> SUFFICES ASSUME AllWell', NEW r \in Requests PROVE ToldRight(r)'
    BY DEF HeardInv
<1>1. AllWell
    BY FaultsGrow DEF AllWell, S!Pipelined, S!Terminated
<1>2. ToldRight(r)
    BY <1>1 DEF HeardInv
<1>3. CASE SessionCreate \/ SessionClose
    <2>1. /\ UNCHANGED <<queue, hand, call, target, replies, error, text, heard>>
          /\ task' \notin {"serve", "reply"}
        BY <1>3 DEF SessionCreate, SessionClose, TaskStart, TaskUnwind, callVars, textVars
    <2> QED BY <1>2, <2>1, ToldFrame
<1>4. CASE ServeNoSession
    <2>1. /\ task = "serve" /\ task' = "reply" /\ error' = [error EXCEPT ![hand] = "failed"]
          /\ UNCHANGED <<queue, hand, call, target, replies, text, heard>>
        BY <1>4 DEF ServeNoSession, TaskServe, callVars, textVars
    <2>2. "failed" # "aborted" /\ "failed" # "none"
        OBVIOUS
    <2> QED BY <1>2, <2>1, <2>2, ServedTell
<1>5. CASE ServeNothing
    <2>1. /\ task = "serve" /\ task' = "reply" /\ error' = [error EXCEPT ![hand] = "none"]
          /\ UNCHANGED <<queue, hand, call, target, replies, text, heard>>
          /\ text[hand] = 0
        BY <1>5 DEF ServeNothing, ServeWith, callVars, textVars
    <2>2. heard[hand] = 0
        BY <1>1, <2>1, Placed DEF HeardInv, ToldRight, Unspoken
    <2>3. "none" # "aborted"
        OBVIOUS
    <2> QED BY <1>2, <2>1, <2>2, <2>3, ServedTell
<1>6. CASE (UtteranceGoesOn \/ UtteranceSuffers) /\ pc' = "idle"
    <2> DEFINE e == AnswerOf(outcome')
    <2>1. /\ task = "serve" /\ task' = "reply" /\ error' = [error EXCEPT ![hand] = e]
          /\ UNCHANGED <<queue, hand, call, target, replies, text>>
          /\ heard' = [heard EXCEPT ![hand] = Heard(played')]
          /\ pc # "idle"
        BY <1>6 DEF UtteranceGoesOn, UtteranceSuffers, UtteranceStep, Serving, ServeWith,
           callVars
    <2>2. nseg' = text[hand]
        BY <1>6, <2>1, SayFrame
           DEF UtteranceGoesOn, UtteranceSuffers, UtteranceStep, SessionInv, AtWork
    <2>3. e # "aborted" /\ (e = "none" => outcome' = "ok")
        BY DEF AnswerOf
    <2>4. hand \in Requests /\ heard \in [Requests -> Nat]
        BY <2>1, Placed DEF SessionInv, TextType
    <2>5. e = "none" => heard'[hand] = text[hand]
        BY <2>1, <2>2, <2>3, <2>4, SuccessIsHeard
    <2>6. \A x \in Requests : x # hand => heard'[x] = heard[x]
        BY <2>1, <2>4
    <2> HIDE DEF e
    <2> QED BY <1>2, <2>1, <2>3, <2>5, <2>6, ServedTell
<1>7. CASE \/ BeginUtterance \/ Network \/ NetworkFails \/ UNCHANGED unitVars
           \/ (UtteranceGoesOn \/ UtteranceSuffers) /\ pc' # "idle"
    <2>1. UNCHANGED <<vars, textVars>>
        BY <1>7 DEF BeginUtterance, Network, NetworkFails, Outside, unitVars,
           UtteranceGoesOn, UtteranceSuffers, UtteranceStep
    <2> QED BY <1>2, <2>1, ToldFrame DEF vars, portVars, taskVars, callVars, reqVars, textVars
<1> QED BY <1>2, <1>3, <1>4, <1>5, <1>6, <1>7, HooksTell, CallsTell, TaskTell
        DEF UnitNext, UnitTask

LEMMA HeardInit == UnitInit => HeardInv
<1> SUFFICES ASSUME UnitInit, NEW r \in Requests PROVE ToldRight(r)
    BY DEF HeardInv
<1>1. heard[r] = 0 /\ text[r] = 0 /\ replies[r] = 0
    BY DEF UnitInit, Init
<1> QED BY <1>1 DEF ToldRight, UnitInit, Init

\* io_Error tells the caller what was heard: success means from the first chunk
\* to the last, IOERR_ABORTED nothing at all, for any text, any number of
\* callers and any trouble on the connection but the two the code has no answer
\* to (Pipelined, Terminated).
THEOREM AnswerIsTrue == UnitSpec => []AnswerTellsOutcome
<1>1. AllInv /\ SessionInv /\ SessionInv' /\ HeardInv /\ [UnitNext]_unitVars => HeardInv'
    BY HeardStep
<1>2. HeardInv => AnswerTellsOutcome
    BY DEF HeardInv, AllWell, ToldRight, AnswerTellsOutcome
<1> QED BY <1>1, <1>2, HeardInit, UnitInvariance, SessionInvariance, PTL DEF UnitSpec
=============================================================================
