--------------------------- MODULE NarratorDevice ---------------------------
(***************************************************************************)
(* narrator.device as one open unit: the exec hooks of narrator_device.c   *)
(* (OpenDevice, CloseDevice, BeginIO, AbortIO) and the device task that    *)
(* nw_engine.c starts for every open (nw_dev_open .. nw_dev_flush,         *)
(* nw_dev_task).                                                           *)
(*                                                                         *)
(* One task, the Owner, opens and closes the unit.  It and other tasks     *)
(* that share its io_Unit (cloned IORequests) submit, abort and flush.     *)
(* The device task takes messages from cmdPort one at a time.  Everything  *)
(* runs preemptively on one CPU; Forbid() is the only mutual exclusion,    *)
(* so each step is guarded by MayRun.  Wait() gives the Forbid up.         *)
(*                                                                         *)
(* Contract of the callers, which exec does not enforce: an IORequest is   *)
(* not sent again before its reply was collected, and CloseDevice is not   *)
(* called while another task is inside a call on the unit.                 *)
(***************************************************************************)
EXTENDS Naturals, Sequences, SequencesExt

CONSTANTS
    Requests,   \* the IORequests (messages) the callers own
    Callers,    \* the tasks that make calls on the unit
    Owner,      \* the caller that opens and closes it
    Task,       \* the device task
    ShutMsg,    \* &ctx->shutMsg
    None        \* a NULL pointer

ASSUME DeviceAssumption ==
    /\ Owner \in Callers
    /\ Task \notin Callers
    /\ None \notin Callers \cup {Task}
    /\ ShutMsg \notin Requests
    /\ None \notin Requests \cup {ShutMsg}

VARIABLES
    life,       \* where the Owner is between OpenDevice and CloseDevice
    held,       \* what nw_dev_open acquired and nobody released yet
    signals,    \* the signals pending on the Owner: "ready", "dead"
    forbid,     \* the task that holds Forbid(), or None
    userData,   \* tc_UserData of the device task points to ctx
    cmdPort,    \* ctx->cmdPort # NULL
    shutting,   \* ctx->shutting
    port,       \* memory of the device task's MsgPort
    queue,      \* port->mp_MsgList
    task,       \* program counter of nw_dev_task
    sess,       \* session_create succeeded
    hand,       \* the request nw_dev_task took from the port
    call,       \* per caller: where it is inside nw_dev_abort
    target,     \* per caller: the request it aborts
    sent,       \* requests sent and not yet collected (ghost)
    replies,    \* how often a request is on its reply port
    error,      \* io_Error of each request
    served      \* requests given to nw_do_write since they were sent (ghost)

ownerVars == <<life, held, signals>>
ctxVars   == <<userData, cmdPort, shutting>>
portVars  == <<port, queue>>
taskVars  == <<task, sess, hand>>
callVars  == <<call, target>>
reqVars   == <<sent, replies, error, served>>
vars == <<ownerVars, forbid, ctxVars, portVars, taskVars, callVars, reqVars>>

-----------------------------------------------------------------------------
(* Scheduling: a task may run while no other task holds Forbid().          *)

MayRun(t) == forbid \in {None, t}

\* Mutant: the hooks run without Forbid().
HookForbidNone == None

\* exec calls the Open and Close hooks with Forbid() held.
HookForbid == Owner

InQueue(m) == Contains(queue, m)

\* Remove(n) of the exec list, for a message that is on it.
Unlink(q, m) == RemoveAt(q, CHOOSE i \in 1..Len(q) : q[i] = m)

-----------------------------------------------------------------------------
Init ==
    /\ life = "closed" /\ held = {} /\ signals = {} /\ forbid = None
    /\ userData = FALSE /\ cmdPort = FALSE /\ shutting = FALSE
    /\ port = "none" /\ queue = <<>>
    /\ task = "none" /\ sess = FALSE /\ hand = None
    /\ call = [c \in Callers |-> "idle"]
    /\ target = [c \in Callers |-> None]
    /\ sent = {}
    /\ replies = [r \in Requests |-> 0]
    /\ error = [r \in Requests |-> "none"]
    /\ served = {}

-----------------------------------------------------------------------------
(* OpenDevice: __UserDevOpen and nw_dev_open, on the Owner, Forbid()'d up  *)
(* to the Wait().  A unit other than 0 and a failed AllocMem leave nothing *)
(* behind and are not steps.                                               *)

SignalBits == {"ready_bit", "dead_bit"}

OwnerStep(from, to) ==
    /\ life = from /\ MayRun(Owner) /\ life' = to
    /\ UNCHANGED <<port, sess, hand, callVars, reqVars>>

OpenAllocCtx ==
    /\ OwnerStep("closed", "alloc_signals")
    /\ held' = held \cup {"ctx"}
    /\ forbid' = HookForbid
    \* MEMF_CLEAR: the fields of a new ctx are zero.
    /\ userData' = FALSE /\ cmdPort' = FALSE /\ shutting' = FALSE
    /\ UNCHANGED <<signals, queue, task>>

\* Both AllocSignals are tried; a lone one is freed again with the ctx.
OpenAllocSignals ==
    /\ \/ /\ OwnerStep("alloc_signals", "open_dos")
          /\ held' = held \cup SignalBits
          /\ UNCHANGED forbid
       \/ /\ OwnerStep("alloc_signals", "closed")
          /\ \E got \in SUBSET SignalBits :
                got # SignalBits /\ held' = (held \cup got) \ (got \cup {"ctx"})
          /\ forbid' = None
    /\ UNCHANGED <<signals, ctxVars, queue, task>>

\* Mutant: the signal bits are forgotten.
DosFailureFreesCtxOnly == {"ctx"}

\* FreeSignal(rb), FreeSignal(db), FreeMem(ctx).
DosFailureFrees == {"ctx"} \cup SignalBits

OpenDos ==
    /\ \/ /\ OwnerStep("open_dos", "create_task")
          /\ held' = held \cup {"dos"}
          /\ UNCHANGED forbid
       \/ /\ OwnerStep("open_dos", "closed")
          /\ held' = held \ DosFailureFrees
          /\ forbid' = None
    /\ UNCHANGED <<signals, ctxVars, queue, task>>

\* Forbid(); CreateNewProcTags().  This Forbid() is nw_dev_open's own.
OpenCreateTask ==
    /\ \/ /\ OwnerStep("create_task", "set_userdata")
          /\ task' = "created" /\ forbid' = Owner
          /\ UNCHANGED held
       \/ /\ OwnerStep("create_task", "closed")
          /\ held' = held \ (DosFailureFrees \cup {"dos"})
          /\ forbid' = None
          /\ UNCHANGED task
    /\ UNCHANGED <<signals, ctxVars, queue>>

\* tc_UserData = ctx; Permit(); Wait(ready) lets go of the hook's Forbid().
OpenSetUserData ==
    /\ OwnerStep("set_userdata", "wait_ready")
    /\ userData' = TRUE /\ forbid' = None
    /\ UNCHANGED <<held, signals, cmdPort, shutting, queue, task>>

OpenReady ==
    /\ OwnerStep("wait_ready", "open")
    /\ "ready" \in signals /\ signals' = signals \ {"ready"}
    /\ UNCHANGED <<held, forbid, ctxVars, queue, task>>

-----------------------------------------------------------------------------
(* CloseDevice: __UserDevClose and nw_dev_close.                           *)

CloseMark ==
    /\ OwnerStep("open", "put_shutmsg")
    /\ \A c \in Callers : call[c] = "idle"
    /\ shutting' = TRUE /\ forbid' = HookForbid
    /\ UNCHANGED <<held, signals, userData, cmdPort, queue, task>>

\* Mutant: the flag alone is taken to be enough to stop the task.
ClosePutFlagOnly ==
    /\ OwnerStep("put_shutmsg", "wait_dead")
    /\ queue' = queue /\ forbid' = None
    /\ UNCHANGED <<held, signals, ctxVars, task>>

\* PutMsg(cmdPort, &shutMsg) if there is a port; then Wait(dead).
ClosePut ==
    /\ OwnerStep("put_shutmsg", "wait_dead")
    /\ queue' = IF cmdPort THEN Append(queue, ShutMsg) ELSE queue
    /\ forbid' = None
    /\ UNCHANGED <<held, signals, ctxVars, task>>

\* Wait() returns with the Forbid() of the hook restored.
CloseDead ==
    /\ OwnerStep("wait_dead", "release")
    /\ "dead" \in signals /\ signals' = signals \ {"dead"}
    /\ forbid' = HookForbid
    /\ UNCHANGED <<held, ctxVars, queue, task>>

CloseFree ==
    /\ OwnerStep("release", "closed")
    /\ held' = held \ ({"ctx", "dos"} \cup SignalBits)
    /\ forbid' = None
    /\ UNCHANGED <<signals, ctxVars, queue, task>>

-----------------------------------------------------------------------------
(* Calls on the open unit: __BeginIO, __AbortIO, nw_dev_submit,            *)
(* nw_dev_abort, nw_dev_flush.  io_Unit is the live ctx from the return of *)
(* OpenDevice to the call of CloseDevice.                                  *)

MayCall(c) == life = "open" /\ call[c] = "idle" /\ MayRun(c)

CallFrame == UNCHANGED <<ownerVars, ctxVars, port, taskVars>>

\* BeginIO(CMD_WRITE): queued, or refused when the task has no port.
Write(c, r) ==
    /\ MayCall(c) /\ r \notin sent
    /\ sent' = sent \cup {r} /\ served' = served \ {r}
    /\ \/ /\ cmdPort
          /\ queue' = Append(queue, r)
          /\ error' = [error EXCEPT ![r] = "none"]
          /\ UNCHANGED replies
       \/ /\ ~cmdPort
          /\ error' = [error EXCEPT ![r] = "failed"]
          /\ replies' = [replies EXCEPT ![r] = @ + 1]
          /\ UNCHANGED queue
    /\ CallFrame /\ UNCHANGED <<forbid, callVars>>

\* The commands that complete inside BeginIO.  "reset" stands for CMD_RESET,
\* CMD_START, CMD_STOP and CMD_CLEAR, which share one empty case.
SyncCommands == {"read", "flush", "reset", "unknown"}

SyncError(cmd) ==
    CASE cmd = "read"    -> "nowrite"
      [] cmd = "unknown" -> "nocmd"
      [] OTHER           -> "none"

FlushedAll(cmd) ==
    IF cmd = "flush" THEN {r \in Requests : InQueue(r)} ELSE {}

\* Mutant: the requests are replied but stay linked.
AfterFlushStillLinked(cmd) == queue

\* nw_dev_flush leaves shutMsg on the list.  Without a port nothing is queued.
AfterFlush(cmd) ==
    IF cmd # "flush" THEN queue
    ELSE IF InQueue(ShutMsg) THEN <<ShutMsg>> ELSE <<>>

\* One Forbid() spans the whole of nw_dev_flush, so it is one step.  A quick
\* request (DoIO) is not replied; the queued ones it flushes are.
Sync(c, r, cmd, quick) ==
    /\ MayCall(c) /\ r \notin sent
    /\ queue' = AfterFlush(cmd)
    /\ sent' = IF quick THEN sent ELSE sent \cup {r}
    /\ served' = served \ {r}
    /\ error' = [x \in Requests |-> IF x = r THEN SyncError(cmd)
                                    ELSE IF x \in FlushedAll(cmd) THEN "aborted"
                                    ELSE error[x]]
    /\ replies' = [x \in Requests |->
                     IF x \in FlushedAll(cmd) \/ (x = r /\ ~quick)
                     THEN replies[x] + 1 ELSE replies[x]]
    /\ CallFrame /\ UNCHANGED <<forbid, callVars>>

\* Mutants: the list is walked without Forbid(); a request the device task
\* already works on is treated like a queued one.
AbortFindUnlocked(c, r) ==
    /\ MayCall(c) /\ cmdPort /\ InQueue(r)
    /\ call' = [call EXCEPT ![c] = "unlink"]
    /\ target' = [target EXCEPT ![c] = r]
    /\ CallFrame /\ UNCHANGED <<forbid, queue, reqVars>>

AbortFindInFlight(c, r) ==
    /\ MayCall(c) /\ cmdPort /\ (InQueue(r) \/ hand = r)
    /\ forbid' = c
    /\ call' = [call EXCEPT ![c] = "unlink"]
    /\ target' = [target EXCEPT ![c] = r]
    /\ CallFrame /\ UNCHANGED <<queue, reqVars>>

\* nw_dev_abort in three steps: find the request under Forbid(); Remove it
\* and Permit(); reply it.  A request that is not on the list is left alone.
AbortFind(c, r) ==
    /\ MayCall(c) /\ cmdPort /\ InQueue(r)
    /\ forbid' = c
    /\ call' = [call EXCEPT ![c] = "unlink"]
    /\ target' = [target EXCEPT ![c] = r]
    /\ CallFrame /\ UNCHANGED <<queue, reqVars>>

AbortUnlink(c) ==
    /\ call[c] = "unlink" /\ MayRun(c)
    /\ queue' = IF InQueue(target[c]) THEN Unlink(queue, target[c]) ELSE queue
    /\ forbid' = None
    /\ call' = [call EXCEPT ![c] = "reply"]
    /\ CallFrame /\ UNCHANGED <<target, reqVars>>

AbortReply(c) ==
    /\ call[c] = "reply" /\ MayRun(c)
    /\ error' = [error EXCEPT ![target[c]] = "aborted"]
    /\ replies' = [replies EXCEPT ![target[c]] = @ + 1]
    /\ call' = [call EXCEPT ![c] = "idle"]
    /\ target' = [target EXCEPT ![c] = None]
    /\ CallFrame /\ UNCHANGED <<forbid, queue, sent, served>>

\* WaitIO: the caller takes the reply off its reply port.
Collect(r) ==
    /\ replies[r] > 0 /\ forbid = None
    /\ replies' = [replies EXCEPT ![r] = @ - 1]
    /\ sent' = sent \ {r}
    /\ CallFrame /\ UNCHANGED <<forbid, queue, callVars, error, served>>

-----------------------------------------------------------------------------
(* nw_dev_task.                                                            *)

TaskStep(from, to) ==
    /\ task = from /\ MayRun(Task) /\ task' = to
    /\ UNCHANGED <<life, held, forbid, userData, shutting, callVars, sent>>

\* CreateMsgPort and session_create; each may fail.
TaskStart ==
    /\ TaskStep("created", "publish")
    /\ port' \in {"live", "none"} /\ sess' \in BOOLEAN
    /\ UNCHANGED <<signals, cmdPort, queue, hand, replies, error, served>>

TaskPublish ==
    /\ TaskStep("publish", "signal_ready")
    /\ cmdPort' = (port = "live")
    /\ UNCHANGED <<signals, portVars, sess, hand, replies, error, served>>

TaskSignalReady ==
    /\ TaskStep("signal_ready", IF port = "live" THEN "check" ELSE "unwind")
    /\ signals' = signals \cup {"ready"}
    /\ UNCHANGED <<cmdPort, portVars, sess, hand, replies, error, served>>

taskOutside == <<signals, cmdPort, port, sess>>

\* The flag is read before the loop and after every pass of it.
LoopOrDrain == IF shutting THEN "drain" ELSE "wait_port"

TaskCheck ==
    /\ TaskStep("check", LoopOrDrain)
    /\ UNCHANGED <<taskOutside, queue, hand, replies, error, served>>

TaskWaitPort ==
    /\ TaskStep("wait_port", "get_msg")
    /\ queue # <<>>
    /\ UNCHANGED <<taskOutside, queue, hand, replies, error, served>>

\* Mutants: the message is looked at but stays on the list; shutMsg is not
\* told from a request.
TaskGetRequestPeek ==
    /\ TaskStep("get_msg", "serve")
    /\ queue # <<>> /\ Head(queue) # ShutMsg
    /\ hand' = Head(queue) /\ queue' = queue
    /\ UNCHANGED <<taskOutside, replies, error, served>>

TaskGetRequestAny ==
    /\ TaskStep("get_msg", "serve")
    /\ queue # <<>>
    /\ hand' = Head(queue) /\ queue' = Tail(queue)
    /\ UNCHANGED <<taskOutside, replies, error, served>>

TaskGetRequest ==
    /\ TaskStep("get_msg", "serve")
    /\ queue # <<>> /\ Head(queue) # ShutMsg
    /\ hand' = Head(queue) /\ queue' = Tail(queue)
    /\ UNCHANGED <<taskOutside, replies, error, served>>

\* shutMsg ends the loop; close() set the flag before it put the message.
TaskGetShut ==
    /\ TaskStep("get_msg", "drain")
    /\ queue # <<>> /\ Head(queue) = ShutMsg
    /\ queue' = Tail(queue)
    /\ UNCHANGED <<taskOutside, hand, replies, error, served>>

TaskGetNone ==
    /\ TaskStep("get_msg", LoopOrDrain)
    /\ queue = <<>>
    /\ UNCHANGED <<taskOutside, queue, hand, replies, error, served>>

\* nw_do_write, which may fail; without a session the request fails.
TaskServe ==
    /\ TaskStep("serve", "reply")
    /\ \E e \in IF sess THEN {"none", "failed"} ELSE {"failed"} :
          error' = [error EXCEPT ![hand] = e]
    /\ served' = IF sess THEN served \cup {hand} ELSE served
    /\ UNCHANGED <<taskOutside, queue, hand, replies>>

TaskReply ==
    /\ TaskStep("reply", "get_msg")
    /\ replies' = [replies EXCEPT ![hand] = @ + 1]
    /\ hand' = None
    /\ UNCHANGED <<taskOutside, queue, error, served>>

\* Mutant: what is still queued is taken off the port and forgotten.
TaskDrainRequestSilently ==
    /\ TaskStep("drain", "drain")
    /\ queue # <<>> /\ Head(queue) # ShutMsg
    /\ queue' = Tail(queue)
    /\ UNCHANGED <<taskOutside, hand, replies, error, served>>

TaskDrainRequest ==
    /\ TaskStep("drain", "drain")
    /\ queue # <<>> /\ Head(queue) # ShutMsg
    /\ queue' = Tail(queue)
    /\ error' = [error EXCEPT ![Head(queue)] = "aborted"]
    /\ replies' = [replies EXCEPT ![Head(queue)] = @ + 1]
    /\ UNCHANGED <<taskOutside, hand, served>>

TaskDrainShut ==
    /\ TaskStep("drain", "drain")
    /\ queue # <<>> /\ Head(queue) = ShutMsg
    /\ queue' = Tail(queue)
    /\ UNCHANGED <<taskOutside, hand, replies, error, served>>

TaskDrained ==
    /\ TaskStep("drain", "unwind")
    /\ queue = <<>>
    /\ UNCHANGED <<taskOutside, queue, hand, replies, error, served>>

\* session_close; DeleteMsgPort.
TaskUnwind ==
    /\ TaskStep("unwind", "signal_dead")
    /\ port' = IF port = "live" THEN "freed" ELSE port
    /\ sess' = FALSE
    /\ UNCHANGED <<signals, cmdPort, queue, hand, replies, error, served>>

\* Signal(parent, dead), the last use of ctx, then RTS.
TaskSignalDead ==
    /\ TaskStep("signal_dead", "none")
    /\ signals' = signals \cup {"dead"}
    /\ UNCHANGED <<cmdPort, portVars, sess, hand, replies, error, served>>

-----------------------------------------------------------------------------
Open  == OpenAllocCtx \/ OpenAllocSignals \/ OpenDos \/ OpenCreateTask
            \/ OpenSetUserData \/ OpenReady
Close == CloseMark \/ ClosePut \/ CloseDead \/ CloseFree
Abort(c) == AbortUnlink(c) \/ AbortReply(c)
TaskNext ==
    \/ TaskStart \/ TaskPublish \/ TaskSignalReady \/ TaskCheck \/ TaskWaitPort
    \/ TaskGetRequest \/ TaskGetShut \/ TaskGetNone \/ TaskServe \/ TaskReply
    \/ TaskDrainRequest \/ TaskDrainShut \/ TaskDrained \/ TaskUnwind
    \/ TaskSignalDead

Next ==
    \/ Open \/ Close \/ TaskNext
    \/ \E r \in Requests : Collect(r)
    \/ \E c \in Callers : Abort(c)
    \/ \E c \in Callers, r \in Requests : Write(c, r) \/ AbortFind(c, r)
    \/ \E c \in Callers, r \in Requests, cmd \in SyncCommands, quick \in BOOLEAN :
          Sync(c, r, cmd, quick)

Spec == Init /\ [][Next]_vars

(***************************************************************************)
(* Fairness.  Once inside OpenDevice or CloseDevice the Owner goes on, and *)
(* so does a caller inside AbortIO: exec schedules a ready task in the     *)
(* end.  The device task has priority 1 (NP_Priority) and is dispatched at *)
(* the Permit() of a caller, so it cannot be locked out by callers that    *)
(* keep aborting: strong fairness.  That nw_do_write ends is assumed here; *)
(* WyomingSession says when it does.                                       *)
(***************************************************************************)
OpenGoesOn  == OpenAllocSignals \/ OpenDos \/ OpenCreateTask \/ OpenSetUserData
                  \/ OpenReady
CloseGoesOn == ClosePut \/ CloseDead \/ CloseFree

FairSpec ==
    /\ Spec
    /\ SF_vars(TaskNext)
    /\ SF_vars(OpenGoesOn) /\ SF_vars(CloseGoesOn)
    /\ \A c \in Callers : SF_vars(Abort(c))

-----------------------------------------------------------------------------
(* Properties.                                                             *)

\* The values the variables range over.
TypeOK ==
    /\ life \in {"closed", "alloc_signals", "open_dos", "create_task", "set_userdata",
                 "wait_ready", "open", "put_shutmsg", "wait_dead", "release"}
    /\ held \subseteq {"ctx", "dos"} \cup SignalBits
    /\ signals \subseteq {"ready", "dead"}
    /\ forbid \in Callers \cup {None}
    /\ userData \in BOOLEAN /\ cmdPort \in BOOLEAN /\ shutting \in BOOLEAN
    /\ port \in {"none", "live", "freed"}
    /\ queue \in Seq(Requests \cup {ShutMsg})
    /\ task \in {"none", "created", "publish", "signal_ready", "check", "wait_port",
                 "get_msg", "serve", "reply", "drain", "unwind", "signal_dead"}
    /\ sess \in BOOLEAN
    /\ hand \in Requests \cup {None}
    /\ call \in [Callers -> {"idle", "unlink", "reply"}]
    /\ target \in [Callers -> Requests \cup {None}]
    /\ sent \subseteq Requests /\ served \subseteq Requests
    /\ replies \in [Requests -> Nat]
    /\ error \in [Requests -> {"none", "aborted", "failed", "nowrite", "nocmd"}]

TaskUsesPort == {"check", "wait_port", "get_msg", "serve", "reply", "drain"}

\* No step dereferences memory that is not there: the task has its context
\* before it can run, ctx outlives the task, nobody uses a deleted port, and
\* AbortIO unlinks only a message that is still on the list.  In the code this
\* rests on Forbid() in CloseDevice, CreateNewProc and AbortIO, and on the
\* "dead" handshake.
MemorySafe ==
    /\ task = "created" /\ MayRun(Task) => userData
    /\ task # "none" => "ctx" \in held
    /\ task \in TaskUsesPort => port = "live"
    /\ life = "open" /\ cmdPort => port = "live"
    /\ life = "put_shutmsg" /\ cmdPort /\ MayRun(Owner) => port = "live"
    /\ \A c \in Callers : call[c] = "unlink" => InQueue(target[c])

InReply(c, r) == call[c] = "reply" /\ target[c] = r

\* A request that was sent is in exactly one place until it is collected: on
\* the port, with the device task, with the task that aborts it, or, once, on
\* its reply port.  So AbortIO, CMD_FLUSH, the service loop and the drain
\* never answer a request twice and never lose one.
OneHolder ==
    /\ IsInjective(queue)
    /\ \A r \in Requests :
        /\ r \in sent <=> \/ InQueue(r) \/ hand = r \/ replies[r] > 0
                          \/ \E c \in Callers : InReply(c, r)
        /\ InQueue(r) => hand # r
        /\ InQueue(r) \/ hand = r => replies[r] = 0
        /\ \A c \in Callers : InReply(c, r) =>
              /\ ~InQueue(r) /\ hand # r /\ replies[r] = 0
              /\ \A d \in Callers : InReply(d, r) => c = d
        /\ replies[r] \leq 1

\* When CloseDevice has returned, every request that was ever sent has its
\* answer: the drain of nw_dev_task leaves no caller waiting for good.
NoOrphan ==
    life = "closed" => \A r \in sent : replies[r] = 1

\* DeleteMsgPort never throws messages away: nothing can reach the port between
\* the drain and its deletion, whenever CloseDevice raised the flag.
PortEmptyAtDelete ==
    task = "unwind" => queue = <<>>

\* A request answered IOERR_ABORTED was never given to the synthesiser,
\* whichever of AbortIO, CMD_FLUSH and the drain aborted it.
AbortedNotServed ==
    \A r \in Requests : replies[r] > 0 /\ error[r] = "aborted" => r \notin served

\* A closed unit holds nothing: every failure path of nw_dev_open and the close
\* release what was acquired, the task and its port are gone, and no signal is
\* left pending that the next open would take for its own.
NoLeak ==
    life = "closed" => /\ held = {} /\ signals = {} /\ forbid = None
                       /\ task = "none" /\ port # "live"

\* OpenDevice returns, with the unit open or with an error, and CloseDevice,
\* however much is queued.
HooksReturn ==
    /\ (life = "wait_ready") ~> (life = "open")
    /\ (life = "put_shutmsg") ~> (life = "closed")

\* Every request that is sent is answered in the end.
EveryRequestAnswered ==
    \A r \in Requests : (r \in sent) ~> (r \notin sent \/ replies[r] > 0)

\* The requests on the port.  shutMsg is the last message a port ever gets.
Waiting == IF InQueue(ShutMsg) THEN Front(queue) ELSE queue

\* nw_dev_open .. nw_dev_task implement RequestService: served one at a time in
\* the order they were sent, cancelled only while waiting, answered once.
Service == INSTANCE RequestService WITH
    waiting   <- Waiting,
    active    <- {hand} \ {None},
    cancelled <- {target[c] : c \in {d \in Callers : call[d] = "reply"}},
    answered  <- {r \in Requests : replies[r] > 0},
    performed <- served

ImplementsService == Service!Spec

-----------------------------------------------------------------------------
(***************************************************************************)
(* The inductive invariant.  LockInv, LifeInv and TaskInv place the Owner  *)
(* and the device task relative to each other (who holds Forbid(), what    *)
(* the handshakes allow); NotNull, CallLife, CallFound, OneHolder and      *)
(* ServedInv follow the messages.                                          *)
(***************************************************************************)
NotNull ==
    /\ task \in {"serve", "reply"} => hand # None
    /\ \A c \in Callers : target[c] # None <=> call[c] \in {"unlink", "reply"}

HookLives == {"alloc_signals", "open_dos", "create_task", "set_userdata",
              "put_shutmsg", "release"}

LockInv ==
    /\ life \in HookLives => forbid = Owner
    /\ life \in {"closed", "wait_ready", "wait_dead"} => forbid = None
    /\ \A c \in Callers : call[c] = "unlink" => forbid = c

TasklessLives == {"closed", "alloc_signals", "open_dos", "create_task", "release"}
OpeningLives  == {"alloc_signals", "open_dos", "create_task", "set_userdata"}
TaskStarting  == {"created", "publish", "signal_ready"}

LifeInv ==
    /\ life = "closed" => held = {}
    /\ life = "alloc_signals" => held = {"ctx"}
    /\ life = "open_dos" => held = {"ctx"} \cup SignalBits
    /\ life \notin {"closed", "alloc_signals", "open_dos"} =>
          held = {"ctx", "dos"} \cup SignalBits
    /\ life \in TasklessLives => task = "none" /\ signals = {}
    /\ life = "set_userdata" => task = "created" /\ signals = {}
    /\ life = "wait_ready" /\ task \in TaskStarting => signals = {}
    /\ life \in {"open", "put_shutmsg", "wait_dead"} =>
          task \notin TaskStarting /\ "ready" \notin signals
    /\ life \in OpeningLives => ~cmdPort
    /\ life \in OpeningLives \cup {"wait_ready", "open"} => ~shutting
    /\ life # "set_userdata" /\ task = "created" => userData
    /\ "dead" \in signals => task = "none"

TaskInv ==
    /\ task \in {"none", "created", "signal_dead"} => port # "live"
    /\ task \in {"created", "publish"} => ~cmdPort
    /\ task = "signal_ready" => (cmdPort <=> port = "live")
    /\ task \in TaskUsesPort => port = "live" /\ cmdPort
    /\ task \in {"none", "unwind", "signal_dead"}
          /\ life \in {"wait_ready", "open", "put_shutmsg"} => ~cmdPort
    /\ task = "drain" => life = "wait_dead"
    /\ hand # None => task \in {"serve", "reply"}
    /\ queue # <<>> => task \in TaskUsesPort
    /\ InQueue(ShutMsg) => life = "wait_dead"

CallLife ==
    \A c \in Callers : call[c] # "idle" => life = "open" /\ cmdPort

CallFound ==
    \A c \in Callers : call[c] = "unlink" => InQueue(target[c])

ServedInv ==
    /\ \A r \in Requests : InQueue(r) => r \notin served
    /\ \A c \in Callers : call[c] = "reply" => target[c] \notin served
    /\ task = "serve" => hand \notin served
    /\ task = "reply" => error[hand] # "aborted"

IInv ==
    /\ TypeOK /\ NotNull /\ LockInv /\ LifeInv /\ TaskInv /\ CallLife
    /\ CallFound /\ OneHolder /\ ServedInv /\ AbortedNotServed
=============================================================================
