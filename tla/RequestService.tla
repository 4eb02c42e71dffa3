--------------------------- MODULE RequestService ---------------------------
(***************************************************************************)
(* What narrator.device promises the tasks that send it IORequests, with   *)
(* no ports, signals or device task: an accepted request waits, in order,  *)
(* until it is performed or cancelled, and is then answered exactly once.  *)
(* NarratorDevice implements this specification.                           *)
(***************************************************************************)
EXTENDS Sequences, SequencesExt

CONSTANT Requests

VARIABLES
    waiting,    \* accepted requests, in the order they were sent
    active,     \* the request being performed, as a set of at most one
    cancelled,  \* taken out of waiting, the answer is on its way
    answered,   \* answered, not yet collected by the sender
    performed   \* given to the synthesiser since they were sent

vars == <<waiting, active, cancelled, answered, performed>>

Outstanding == ToSet(waiting) \cup active \cup cancelled \cup answered

Init ==
    /\ waiting = <<>> /\ active = {} /\ cancelled = {}
    /\ answered = {} /\ performed = {}

Accept(r) ==
    /\ r \notin Outstanding
    /\ waiting' = Append(waiting, r)
    /\ performed' = performed \ {r}
    /\ UNCHANGED <<active, cancelled, answered>>

\* A command that completes at once (answer is {r}), or a DoIO of one, which
\* has no answer; flush says that the waiting requests are aborted with it.
Immediate(r, answer, flush) ==
    /\ r \notin Outstanding
    /\ answered' = answered \cup answer \cup (IF flush THEN ToSet(waiting) ELSE {})
    /\ waiting' = IF flush THEN <<>> ELSE waiting
    /\ performed' = performed \ {r}
    /\ UNCHANGED <<active, cancelled>>

\* Requests are performed one at a time, first come first served.
Begin ==
    /\ active = {} /\ waiting # <<>>
    /\ active' = {Head(waiting)} /\ waiting' = Tail(waiting)
    /\ UNCHANGED <<cancelled, answered, performed>>

Perform ==
    /\ performed' = performed \cup active
    /\ UNCHANGED <<waiting, active, cancelled, answered>>

Finish ==
    /\ answered' = answered \cup active /\ active' = {}
    /\ UNCHANGED <<waiting, cancelled, performed>>

\* A waiting request, and no other, can be cancelled.
Cancel(r) ==
    /\ \E i \in 1..Len(waiting) : waiting[i] = r /\ waiting' = RemoveAt(waiting, i)
    /\ cancelled' = cancelled \cup {r}
    /\ UNCHANGED <<active, answered, performed>>

AnswerCancelled(r) ==
    /\ r \in cancelled
    /\ cancelled' = cancelled \ {r} /\ answered' = answered \cup {r}
    /\ UNCHANGED <<waiting, active, performed>>

\* The unit is closing: the waiting requests are answered unperformed.
TurnAway ==
    /\ active = {} /\ waiting # <<>>
    /\ answered' = answered \cup {Head(waiting)} /\ waiting' = Tail(waiting)
    /\ UNCHANGED <<active, cancelled, performed>>

Collect(r) ==
    /\ r \in answered
    /\ answered' = answered \ {r}
    /\ UNCHANGED <<waiting, active, cancelled, performed>>

Next ==
    \/ Begin \/ Perform \/ Finish \/ TurnAway
    \/ \E r \in Requests : Accept(r) \/ Cancel(r) \/ AnswerCancelled(r) \/ Collect(r)
    \/ \E r \in Requests, flush \in BOOLEAN :
          \E answer \in {{}, {r}} : Immediate(r, answer, flush)

Spec == Init /\ [][Next]_vars
=============================================================================
