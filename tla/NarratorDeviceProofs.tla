------------------------ MODULE NarratorDeviceProofs ------------------------
(***************************************************************************)
(* Theorems about NarratorDevice for any set of requests and any number of *)
(* calling tasks.                                                          *)
(***************************************************************************)
EXTENDS NarratorDevice, SequenceTheorems, TLAPS

-----------------------------------------------------------------------------
(* What the list operations do to the messages on the port.                *)

\* PutMsg of a message that is not on the list.
LEMMA AppendFacts ==
    ASSUME NEW S, NEW q \in Seq(S), NEW x \in S
    PROVE  /\ Append(q, x) \in Seq(S)
           /\ \A m : Contains(Append(q, x), m) <=> Contains(q, m) \/ m = x
           /\ IsInjective(q) /\ ~Contains(q, x) => IsInjective(Append(q, x))
BY DEF Contains, IsInjective

\* GetMsg of a list without duplicates.
LEMMA TailFacts ==
    ASSUME NEW S, NEW q \in Seq(S), q # <<>>
    PROVE  /\ Tail(q) \in Seq(S) /\ Head(q) \in S /\ Contains(q, Head(q))
           /\ \A m : Contains(Tail(q), m) => Contains(q, m)
           /\ IsInjective(q) =>
                /\ IsInjective(Tail(q))
                /\ \A m : Contains(Tail(q), m) <=> Contains(q, m) /\ m # Head(q)
<1>1. /\ Tail(q) \in Seq(S) /\ Head(q) \in S /\ Head(q) = q[1]
      /\ Len(q) \in Nat /\ Len(q) \geq 1
      /\ Len(Tail(q)) = Len(q) - 1
      /\ \A i \in 1..Len(Tail(q)) : Tail(q)[i] = q[i + 1]
    BY HeadTailProperties, EmptySeq, LenProperties
<1>2. Contains(q, Head(q))
    BY <1>1 DEF Contains
<1>3. ASSUME IsInjective(q) PROVE IsInjective(Tail(q))
    <2>1. DOMAIN q = 1..Len(q) /\ DOMAIN Tail(q) = 1..Len(Tail(q))
        BY <1>1, LenProperties
    <2> QED BY <1>1, <1>3, <2>1 DEF IsInjective
<1>4. ASSUME IsInjective(q), NEW m
      PROVE  Contains(Tail(q), m) <=> Contains(q, m) /\ m # Head(q)
    <2>1. DOMAIN q = 1..Len(q)
        BY LenProperties
    <2>2. Contains(Tail(q), m) => Contains(q, m) /\ m # Head(q)
        BY <1>1, <1>4, <2>1 DEF Contains, IsInjective
    <2>3. ASSUME Contains(q, m), m # Head(q) PROVE Contains(Tail(q), m)
        <3>1. PICK i \in 1..Len(q) : q[i] = m
            BY <2>3 DEF Contains
        <3>2. i - 1 \in 1..Len(Tail(q)) /\ Tail(q)[i - 1] = q[(i - 1) + 1]
            BY <1>1, <2>3, <3>1
        <3> QED BY <1>1, <3>1, <3>2 DEF Contains
    <2> QED BY <2>2, <2>3
<1>5. ASSUME NEW m, Contains(Tail(q), m) PROVE Contains(q, m)
    BY <1>1, <1>5 DEF Contains
<1> QED BY <1>1, <1>2, <1>3, <1>4, <1>5

\* Remove of a message that is on the list.
LEMMA UnlinkFacts ==
    ASSUME NEW S, NEW q \in Seq(S), NEW x, Contains(q, x)
    PROVE  /\ Unlink(q, x) \in Seq(S)
           /\ \A m : Contains(Unlink(q, x), m) => Contains(q, m)
           /\ IsInjective(q) =>
                /\ IsInjective(Unlink(q, x))
                /\ \A m : Contains(Unlink(q, x), m) <=> Contains(q, m) /\ m # x
<1> DEFINE k == CHOOSE i \in 1..Len(q) : q[i] = x
           u == Unlink(q, x)
<1>1. k \in 1..Len(q) /\ q[k] = x
    BY DEF Contains
<1>2. Len(q) \in Nat /\ DOMAIN q = 1..Len(q)
    BY LenProperties
<1> HIDE DEF k
<1> DEFINE a == SubSeq(q, 1, k - 1)
           b == SubSeq(q, k + 1, Len(q))
<1>3. /\ a \in Seq(S) /\ Len(a) = k - 1
      /\ \A i \in 1..(k - 1) : a[i] = q[i]
    <2>1. \A i \in 1..(k - 1) : q[i] \in S
        BY <1>1, <1>2, ElementOfSeq
    <2>2. 1 \in Int /\ k - 1 \in Int /\ k - 1 \geq 0
        BY <1>1, <1>2
    <2>3. /\ a \in Seq(S)
          /\ Len(a) = IF 1 <= k - 1 THEN (k - 1) - 1 + 1 ELSE 0
          /\ \A i \in 1..((k - 1) - 1 + 1) : a[i] = q[1 + i - 1]
        BY <2>1, <2>2, SubSeqProperties
    <2> HIDE DEF a
    <2> QED BY <1>1, <1>2, <2>3
<1>4. /\ b \in Seq(S) /\ Len(b) = Len(q) - k
      /\ \A i \in 1..(Len(q) - k) : b[i] = q[k + i]
    <2>1. \A i \in (k + 1)..Len(q) : q[i] \in S
        <3>1. (k + 1)..Len(q) \subseteq 1..Len(q)
            BY <1>1, <1>2
        <3> QED BY <3>1, ElementOfSeq
    <2>2. /\ k + 1 \in Int /\ Len(q) \in Int /\ k \in Int
          /\ 1 <= k /\ k <= Len(q)
        BY <1>1, <1>2
    <2>3. /\ b \in Seq(S)
          /\ Len(b) = IF k + 1 <= Len(q) THEN Len(q) - (k + 1) + 1 ELSE 0
          /\ \A i \in 1..(Len(q) - (k + 1) + 1) : b[i] = q[(k + 1) + i - 1]
        BY <2>1, <2>2, SubSeqProperties
    <2> HIDE DEF b
    <2>4. Len(b) = Len(q) - k
        <3>1. Len(b) = IF k + 1 <= Len(q) THEN Len(q) - (k + 1) + 1 ELSE 0
            BY <2>3
        <3>2. CASE k = Len(q)
            BY <2>2, <3>1, <3>2
        <3>3. CASE k < Len(q)
            BY <2>2, <3>1, <3>3
        <3> QED BY <2>2, <3>2, <3>3
    <2>5. ASSUME NEW i \in 1..(Len(q) - k) PROVE b[i] = q[k + i]
        <3>1. i \in 1..(Len(q) - (k + 1) + 1) /\ (k + 1) + i - 1 = k + i
            BY <1>1, <1>2
        <3> QED BY <2>3, <3>1
    <2> QED BY <2>3, <2>4, <2>5
<1>5. u = a \o b
    BY DEF Unlink, RemoveAt, k
<1> HIDE DEF a, b, u
<1>6. /\ u \in Seq(S) /\ Len(u) = Len(q) - 1
      /\ \A i \in 1..(Len(q) - 1) : u[i] = IF i < k THEN q[i] ELSE q[i + 1]
    <2>1. /\ u \in Seq(S) /\ Len(u) = Len(a) + Len(b)
          /\ \A i \in 1..(Len(a) + Len(b)) :
                u[i] = IF i <= Len(a) THEN a[i] ELSE b[i - Len(a)]
        BY <1>3, <1>4, <1>5, ConcatProperties
    <2>2. Len(a) + Len(b) = Len(q) - 1
        BY <1>1, <1>2, <1>3, <1>4
    <2>3. ASSUME NEW i \in 1..(Len(q) - 1)
          PROVE  u[i] = IF i < k THEN q[i] ELSE q[i + 1]
        <3>1. CASE i < k
            <4>1. i \in 1..(k - 1) /\ i <= Len(a)
                BY <1>1, <1>2, <1>3, <2>3, <3>1
            <4> QED BY <1>3, <2>1, <2>2, <2>3, <3>1, <4>1
        <3>2. CASE ~(i < k)
            <4>1. /\ i - Len(a) \in 1..(Len(q) - k) /\ ~(i <= Len(a))
                  /\ k + (i - Len(a)) = i + 1
                BY <1>1, <1>2, <1>3, <2>3, <3>2
            <4> QED BY <1>4, <2>1, <2>2, <2>3, <3>2, <4>1
        <3> QED BY <3>1, <3>2
    <2> QED BY <2>1, <2>2, <2>3
<1>7. ASSUME IsInjective(q) PROVE IsInjective(u)
    <2>1. DOMAIN u = 1..(Len(q) - 1)
        BY <1>6, LenProperties
    <2>2. ASSUME NEW i \in 1..(Len(q) - 1), NEW j \in 1..(Len(q) - 1), u[i] = u[j]
          PROVE  i = j
        <3> DEFINE up(n) == IF n < k THEN n ELSE n + 1
        <3>1. /\ up(i) \in 1..Len(q) /\ up(j) \in 1..Len(q)
              /\ u[i] = q[up(i)] /\ u[j] = q[up(j)]
            BY <1>1, <1>2, <1>6, <2>2
        <3>2. up(i) = up(j)
            BY <1>2, <1>7, <2>2, <3>1 DEF IsInjective
        <3> QED BY <1>1, <1>2, <2>2, <3>2
    <2> QED BY <2>1, <2>2 DEF IsInjective
<1>8. ASSUME IsInjective(q), NEW m
      PROVE  Contains(u, m) <=> Contains(q, m) /\ m # x
    <2>1. ASSUME Contains(u, m) PROVE Contains(q, m) /\ m # x
        <3>1. PICK i \in 1..(Len(q) - 1) : u[i] = m
            BY <1>6, <2>1 DEF Contains
        <3>2. PICK j \in 1..Len(q) : j # k /\ q[j] = m
            BY <1>1, <1>2, <1>6, <3>1
        <3> QED BY <1>1, <1>2, <1>8, <3>2 DEF Contains, IsInjective
    <2>2. ASSUME Contains(q, m), m # x PROVE Contains(u, m)
        <3>1. PICK i \in 1..Len(q) : q[i] = m
            BY <2>2 DEF Contains
        <3>2. CASE i < k
            BY <1>1, <1>2, <1>6, <3>1, <3>2 DEF Contains
        <3>3. CASE i > k
            <4>1. i - 1 \in 1..Len(u) /\ u[i - 1] = q[i]
                BY <1>1, <1>2, <1>6, <3>1, <3>3
            <4> QED BY <3>1, <4>1 DEF Contains
        <3> QED BY <1>1, <1>2, <2>2, <3>1, <3>2, <3>3
    <2> QED BY <2>1, <2>2
<1>9. ASSUME NEW m, Contains(u, m) PROVE Contains(q, m)
    <2>1. PICK i \in 1..(Len(q) - 1) : u[i] = m
        BY <1>6, <1>9 DEF Contains
    <2> QED BY <1>1, <1>2, <1>6, <2>1 DEF Contains
<1> QED BY <1>6, <1>7, <1>8, <1>9 DEF u

\* An empty list.
LEMMA EmptyFacts ==
    /\ IsInjective(<<>>)
    /\ \A m : ~Contains(<<>>, m)
BY DEF Contains, IsInjective

-----------------------------------------------------------------------------
(* Type correctness.                                                       *)

USE DeviceAssumption DEF OwnerStep, TaskStep, CallFrame, taskOutside

LEMMA TypeInit == Init => TypeOK /\ NotNull
<1> SUFFICES ASSUME Init PROVE TypeOK /\ NotNull
    OBVIOUS
<1>1. queue \in Seq(Requests \cup {ShutMsg})
    BY EmptySeq DEF Init
<1>2. /\ call \in [Callers -> {"idle", "unlink", "reply"}]
      /\ target \in [Callers -> Requests \cup {None}]
    BY DEF Init
<1>3. /\ replies \in [Requests -> Nat]
      /\ error \in [Requests -> {"none", "aborted", "failed", "nowrite", "nocmd"}]
    BY DEF Init
<1> QED BY <1>1, <1>2, <1>3 DEF Init, TypeOK, NotNull

LEMMA TypeStep == TypeOK /\ NotNull /\ [Next]_vars => TypeOK' /\ NotNull'
<1> SUFFICES ASSUME TypeOK, NotNull, [Next]_vars PROVE TypeOK' /\ NotNull'
    OBVIOUS
<1> USE DEF TypeOK, NotNull, ownerVars, ctxVars, portVars, taskVars, callVars, reqVars
<1>1. CASE OpenAllocCtx
    BY <1>1 DEF OpenAllocCtx, HookForbid
<1>2. CASE OpenAllocSignals
    <2>1. held' \subseteq {"ctx", "dos"} \cup SignalBits
        BY <1>2 DEF OpenAllocSignals
    <2> QED BY <1>2, <2>1 DEF OpenAllocSignals
<1>3. CASE OpenDos
    <2>1. held' \subseteq {"ctx", "dos"} \cup SignalBits
        BY <1>3 DEF OpenDos
    <2> QED BY <1>3, <2>1 DEF OpenDos
<1>4. CASE OpenCreateTask
    <2>1. held' \subseteq {"ctx", "dos"} \cup SignalBits
        BY <1>4 DEF OpenCreateTask
    <2> QED BY <1>4, <2>1 DEF OpenCreateTask
<1>5. CASE OpenSetUserData
    BY <1>5 DEF OpenSetUserData
<1>6. CASE OpenReady
    BY <1>6 DEF OpenReady
<1>7. CASE CloseMark
    BY <1>7 DEF CloseMark, HookForbid
<1>8. CASE ClosePut
    BY <1>8 DEF ClosePut
<1>9. CASE CloseDead
    BY <1>9 DEF CloseDead, HookForbid
<1>10. CASE CloseFree
    <2>1. held' \subseteq {"ctx", "dos"} \cup SignalBits
        BY <1>10 DEF CloseFree
    <2> QED BY <1>10, <2>1 DEF CloseFree
<1>11. CASE TaskStart
    BY <1>11 DEF TaskStart
<1>12. CASE TaskPublish
    BY <1>12 DEF TaskPublish
<1>13. CASE TaskSignalReady
    BY <1>13 DEF TaskSignalReady
<1>14. CASE TaskCheck
    BY <1>14 DEF TaskCheck, LoopOrDrain
<1>15. CASE TaskWaitPort
    BY <1>15 DEF TaskWaitPort
<1>16. CASE TaskGetRequest
    BY <1>16 DEF TaskGetRequest
<1>17. CASE TaskGetShut
    BY <1>17 DEF TaskGetShut
<1>18. CASE TaskGetNone
    BY <1>18 DEF TaskGetNone, LoopOrDrain
<1>19. CASE TaskServe
    <2>1. error' \in [Requests -> {"none", "aborted", "failed", "nowrite", "nocmd"}]
        BY <1>19 DEF TaskServe
    <2>2. served' \subseteq Requests
        BY <1>19 DEF TaskServe
    <2> QED BY <1>19, <2>1, <2>2 DEF TaskServe
<1>20. CASE TaskReply
    <2>1. replies' \in [Requests -> Nat]
        BY <1>20 DEF TaskReply
    <2> QED BY <1>20, <2>1 DEF TaskReply
<1>21. CASE TaskDrainRequest
    BY <1>21 DEF TaskDrainRequest
<1>22. CASE TaskDrainShut
    BY <1>22 DEF TaskDrainShut
<1>23. CASE TaskDrained
    BY <1>23 DEF TaskDrained
<1>24. CASE TaskUnwind
    BY <1>24 DEF TaskUnwind
<1>25. CASE TaskSignalDead
    BY <1>25 DEF TaskSignalDead
<1>26. ASSUME NEW c \in Callers, AbortUnlink(c) PROVE TypeOK' /\ NotNull'
    <2>1. queue' \in Seq(Requests \cup {ShutMsg})
        BY <1>26, UnlinkFacts DEF AbortUnlink, InQueue
    <2> QED BY <1>26, <2>1 DEF AbortUnlink
<1>27. ASSUME NEW c \in Callers, AbortReply(c) PROVE TypeOK' /\ NotNull'
    <2>1. replies' \in [Requests -> Nat]
        BY <1>27 DEF AbortReply
    <2>2. error' \in [Requests -> {"none", "aborted", "failed", "nowrite", "nocmd"}]
        BY <1>27 DEF AbortReply
    <2> QED BY <1>27, <2>1, <2>2 DEF AbortReply
<1>28. ASSUME NEW c \in Callers, NEW r \in Requests, AbortFind(c, r) PROVE TypeOK' /\ NotNull'
    BY <1>28 DEF AbortFind
<1>29. ASSUME NEW c \in Callers, NEW r \in Requests, Write(c, r) PROVE TypeOK' /\ NotNull'
    <2>1. replies' \in [Requests -> Nat]
        BY <1>29 DEF Write
    <2>2. error' \in [Requests -> {"none", "aborted", "failed", "nowrite", "nocmd"}]
        BY <1>29 DEF Write
    <2>3. queue' \in Seq(Requests \cup {ShutMsg})
        <3>1. r \in Requests \cup {ShutMsg}
            OBVIOUS
        <3>2. Append(queue, r) \in Seq(Requests \cup {ShutMsg})
            BY <3>1, AppendFacts
        <3> QED BY <1>29, <3>2 DEF Write
    <2> QED BY <1>29, <2>1, <2>2, <2>3 DEF Write
<1>30. ASSUME NEW r \in Requests, Collect(r) PROVE TypeOK' /\ NotNull'
    BY <1>30 DEF Collect
<1>31. ASSUME NEW c \in Callers, NEW r \in Requests, NEW cmd \in SyncCommands,
             NEW quick \in BOOLEAN, Sync(c, r, cmd, quick) PROVE TypeOK' /\ NotNull'
    <2>1. replies' \in [Requests -> Nat]
        BY <1>31 DEF Sync
    <2>2. queue' \in Seq(Requests \cup {ShutMsg})
        <3>1. ShutMsg \in Requests \cup {ShutMsg}
            OBVIOUS
        <3>2. <<ShutMsg>> \in Seq(Requests \cup {ShutMsg})
              /\ <<>> \in Seq(Requests \cup {ShutMsg})
            BY <3>1
        <3> QED BY <1>31, <3>2 DEF Sync, AfterFlush
    <2>3. SyncError(cmd) \in {"none", "nowrite", "nocmd"}
        BY DEF SyncError, SyncCommands
    <2>4. error' \in [Requests -> {"none", "aborted", "failed", "nowrite", "nocmd"}]
        BY <1>31, <2>3 DEF Sync
    <2>5. sent' \subseteq Requests /\ served' \subseteq Requests
        BY <1>31 DEF Sync
    <2> QED BY <1>31, <2>1, <2>2, <2>4, <2>5 DEF Sync
<1>32. CASE UNCHANGED vars
    BY <1>32 DEF vars
<1> HIDE DEF TypeOK, NotNull, ownerVars, ctxVars, portVars, taskVars, callVars, reqVars
<1> QED BY <1>1, <1>2, <1>3, <1>4, <1>5, <1>6, <1>7, <1>8, <1>9, <1>10, <1>11,
       <1>12, <1>13, <1>14, <1>15, <1>16, <1>17, <1>18, <1>19, <1>20, <1>21,
       <1>22, <1>23, <1>24, <1>25, <1>26, <1>27, <1>28, <1>29, <1>30, <1>31,
       <1>32 DEF Next, Open, Close, TaskNext, Abort

\* Every variable keeps its type, whatever the callers do.
THEOREM TypeCorrect == Spec => []TypeOK
<1>1. Init => TypeOK /\ NotNull
    BY TypeInit
<1>2. TypeOK /\ NotNull /\ [Next]_vars => (TypeOK /\ NotNull)'
    BY TypeStep
<1> QED BY <1>1, <1>2, PTL DEF Spec

-----------------------------------------------------------------------------
(* The Owner and the device task relative to each other.                   *)

ControlInv == TypeOK /\ NotNull /\ LockInv /\ LifeInv /\ TaskInv /\ CallLife

LEMMA ControlInit == Init => ControlInv
BY TypeInit, EmptyFacts
   DEF Init, ControlInv, LockInv, LifeInv, TaskInv, CallLife, HookLives, OpeningLives,
       TasklessLives, TaskStarting, TaskUsesPort, InQueue

LEMMA ControlStep == ControlInv /\ [Next]_vars => ControlInv'
<1> SUFFICES ASSUME ControlInv, [Next]_vars
             PROVE  (LockInv /\ LifeInv /\ TaskInv /\ CallLife)'
    BY TypeStep DEF ControlInv
<1> USE DEF ControlInv, TypeOK, NotNull, LockInv, LifeInv, TaskInv, CallLife, HookLives,
            OpeningLives, TasklessLives, TaskStarting, TaskUsesPort, InQueue, MayRun, SignalBits,
            ownerVars, ctxVars, portVars, taskVars, callVars, reqVars
<1>1. CASE OpenAllocCtx
    BY <1>1 DEF OpenAllocCtx, HookForbid
<1>2. CASE OpenAllocSignals
    BY <1>2 DEF OpenAllocSignals
<1>3. CASE OpenDos
    BY <1>3 DEF OpenDos, DosFailureFrees
<1>4. CASE OpenCreateTask
    <2>1. LifeInv'
        BY <1>4 DEF OpenCreateTask, DosFailureFrees
    <2>2. LockInv'
        BY <1>4 DEF OpenCreateTask
    <2>3. task = "none" /\ hand = None /\ queue = <<>> /\ ~cmdPort'
        BY <1>4 DEF OpenCreateTask
    <2>4. TaskInv'
        BY <1>4, <2>3 DEF OpenCreateTask
    <2>5. CallLife'
        BY <1>4 DEF OpenCreateTask
    <2> QED BY <2>1, <2>2, <2>4, <2>5
<1>5. CASE OpenSetUserData
    <2>1. LifeInv'
        BY <1>5 DEF OpenSetUserData
    <2>3. LockInv'
        BY <1>5 DEF OpenSetUserData
    <2>2. (TaskInv /\ CallLife)'
        BY <1>5 DEF OpenSetUserData
    <2> QED BY <2>1, <2>2, <2>3
<1>6. CASE OpenReady
    BY <1>6 DEF OpenReady
<1>7. CASE CloseMark
    BY <1>7 DEF CloseMark, HookForbid
<1>8. CASE ClosePut
    BY <1>8 DEF ClosePut
<1>9. CASE CloseDead
    <2>1. signals' = {} /\ task = "none"
        BY <1>9 DEF CloseDead
    <2>2. (LockInv /\ LifeInv)'
        BY <1>9, <2>1 DEF CloseDead, HookForbid
    <2>3. TaskInv'
        BY <1>9, <2>1, EmptyFacts DEF CloseDead
    <2>4. CallLife'
        BY <1>9 DEF CloseDead
    <2> QED BY <2>2, <2>3, <2>4
<1>10. CASE CloseFree
    BY <1>10 DEF CloseFree
<1>11. CASE TaskStart
    BY <1>11 DEF TaskStart
<1>12. CASE TaskPublish
    BY <1>12 DEF TaskPublish
<1>13. CASE TaskSignalReady
    BY <1>13 DEF TaskSignalReady
<1>14. CASE TaskCheck
    BY <1>14 DEF TaskCheck, LoopOrDrain
<1>15. CASE TaskWaitPort
    BY <1>15 DEF TaskWaitPort
<1>16. CASE TaskGetRequest
    <2>1. Head(queue) \in Requests /\ (InQueue(ShutMsg)' => InQueue(ShutMsg))
        BY <1>16, TailFacts DEF TaskGetRequest
    <2> QED BY <1>16, <2>1 DEF TaskGetRequest
<1>17. CASE TaskGetShut
    <2>1. InQueue(ShutMsg)
        BY <1>17, TailFacts DEF TaskGetShut
    <2>2. life = "wait_dead"
        BY <2>1
    <2> QED BY <1>17, <2>2 DEF TaskGetShut
<1>18. CASE TaskGetNone
    BY <1>18 DEF TaskGetNone, LoopOrDrain
<1>19. CASE TaskServe
    BY <1>19 DEF TaskServe
<1>20. CASE TaskReply
    BY <1>20 DEF TaskReply
<1>21. CASE TaskDrainRequest
    BY <1>21 DEF TaskDrainRequest
<1>22. CASE TaskDrainShut
    BY <1>22 DEF TaskDrainShut
<1>23. CASE TaskDrained
    BY <1>23 DEF TaskDrained
<1>24. CASE TaskUnwind
    BY <1>24 DEF TaskUnwind
<1>25. CASE TaskSignalDead
    BY <1>25 DEF TaskSignalDead
<1>26. ASSUME NEW c \in Callers, AbortUnlink(c)
      PROVE  (LockInv /\ LifeInv /\ TaskInv /\ CallLife)'
    <2>1. call[c] = "unlink" /\ life = "open" /\ cmdPort /\ task \in TaskUsesPort
        BY <1>26 DEF AbortUnlink
    <2>2. InQueue(ShutMsg)' => InQueue(ShutMsg)
        BY <1>26, UnlinkFacts DEF AbortUnlink
    <2>3. (LockInv /\ LifeInv /\ CallLife)'
        BY <1>26, <2>1 DEF AbortUnlink
    <2>4. TaskInv'
        BY <1>26, <2>1, <2>2 DEF AbortUnlink
    <2> QED BY <2>3, <2>4
<1>27. ASSUME NEW c \in Callers, AbortReply(c)
      PROVE  (LockInv /\ LifeInv /\ TaskInv /\ CallLife)'
    BY <1>27 DEF AbortReply, MayCall
<1>28. ASSUME NEW c \in Callers, NEW r \in Requests, AbortFind(c, r)
      PROVE  (LockInv /\ LifeInv /\ TaskInv /\ CallLife)'
    BY <1>28 DEF AbortFind, MayCall
<1>29. ASSUME NEW c \in Callers, NEW r \in Requests, Write(c, r)
      PROVE  (LockInv /\ LifeInv /\ TaskInv /\ CallLife)'
    <2>1. cmdPort => task \in TaskUsesPort
        BY <1>29 DEF Write, MayCall
    <2>2. InQueue(ShutMsg)' => InQueue(ShutMsg)
        <3>1. ShutMsg # r /\ r \in Requests \cup {ShutMsg}
            OBVIOUS
        <3>2. Contains(Append(queue, r), ShutMsg) => Contains(queue, ShutMsg)
            BY <3>1, AppendFacts
        <3> QED BY <1>29, <3>2 DEF Write
    <2>3. (LockInv /\ LifeInv /\ CallLife)'
        BY <1>29 DEF Write, MayCall
    <2>4. TaskInv'
        BY <1>29, <2>1, <2>2 DEF Write, MayCall
    <2> QED BY <2>3, <2>4
<1>30. ASSUME NEW r \in Requests, Collect(r)
      PROVE  (LockInv /\ LifeInv /\ TaskInv /\ CallLife)'
    BY <1>30 DEF Collect, MayCall
<1>31. ASSUME NEW c \in Callers, NEW r \in Requests, NEW cmd \in SyncCommands,
             NEW quick \in BOOLEAN, Sync(c, r, cmd, quick)
      PROVE  (LockInv /\ LifeInv /\ TaskInv /\ CallLife)'
    <2>1. ~InQueue(ShutMsg) /\ ~InQueue(ShutMsg)' /\ (queue' # <<>> => queue # <<>>)
        BY <1>31, EmptyFacts DEF Sync, MayCall, AfterFlush
    <2>2. (LockInv /\ LifeInv /\ CallLife)'
        BY <1>31 DEF Sync, MayCall
    <2>3. TaskInv'
        BY <1>31, <2>1 DEF Sync, MayCall
    <2> QED BY <2>2, <2>3
<1>32. CASE UNCHANGED vars
    BY <1>32 DEF vars
<1> HIDE DEF ControlInv, TypeOK, NotNull, LockInv, LifeInv, TaskInv, CallLife
<1> QED BY <1>1, <1>2, <1>3, <1>4, <1>5, <1>6, <1>7, <1>8, <1>9, <1>10, <1>11,
       <1>12, <1>13, <1>14, <1>15, <1>16, <1>17, <1>18, <1>19, <1>20, <1>21,
       <1>22, <1>23, <1>24, <1>25, <1>26, <1>27, <1>28, <1>29, <1>30, <1>31,
       <1>32 DEF Next, Open, Close, TaskNext, Abort

-----------------------------------------------------------------------------
(* The messages: each request that was sent has one holder.                *)

HolderInv == CallFound /\ OneHolder

\* OneHolder and CallFound speak of these variables only.
holderVars == <<queue, hand, call, target, sent, replies>>

LEMMA HolderFrame == HolderInv /\ UNCHANGED holderVars => HolderInv'
BY DEF HolderInv, CallFound, OneHolder, InQueue, InReply, holderVars

\* While a caller is between finding a request and unlinking it, it holds
\* Forbid() and neither the device task nor another caller can move.
LEMMA UnlinkingAlone ==
    ASSUME ControlInv, NEW t, MayRun(t), NEW c \in Callers, call[c] = "unlink"
    PROVE  t = c
BY DEF ControlInv, LockInv, MayRun

LEMMA HolderInit == Init => HolderInv
<1> SUFFICES ASSUME Init PROVE HolderInv
    OBVIOUS
<1>1. \A m : ~InQueue(m)
    BY EmptyFacts DEF Init, InQueue
<1>2. IsInjective(queue)
    BY EmptyFacts DEF Init
<1> QED BY <1>1, <1>2 DEF Init, HolderInv, CallFound, OneHolder, InReply

LEMMA HolderStep == ControlInv /\ HolderInv /\ [Next]_vars => HolderInv'
<1> SUFFICES ASSUME ControlInv, HolderInv, [Next]_vars PROVE HolderInv'
    OBVIOUS
<1>0. /\ queue \in Seq(Requests \cup {ShutMsg})
      /\ target \in [Callers -> Requests \cup {None}]
      /\ call \in [Callers -> {"idle", "unlink", "reply"}]
      /\ replies \in [Requests -> Nat] /\ hand \in Requests \cup {None}
      /\ sent \subseteq Requests
    BY DEF ControlInv, TypeOK
<1>1. CASE OpenAllocCtx
    BY <1>1, HolderFrame DEF OpenAllocCtx, holderVars, ownerVars, portVars, taskVars, callVars, reqVars
<1>2. CASE OpenAllocSignals
    BY <1>2, HolderFrame DEF OpenAllocSignals, holderVars, ownerVars, portVars, taskVars, callVars, reqVars
<1>3. CASE OpenDos
    BY <1>3, HolderFrame DEF OpenDos, holderVars, ownerVars, portVars, taskVars, callVars, reqVars
<1>4. CASE OpenCreateTask
    BY <1>4, HolderFrame DEF OpenCreateTask, holderVars, ownerVars, portVars, taskVars, callVars, reqVars
<1>5. CASE OpenSetUserData
    BY <1>5, HolderFrame DEF OpenSetUserData, holderVars, ownerVars, portVars, taskVars, callVars, reqVars
<1>6. CASE OpenReady
    BY <1>6, HolderFrame DEF OpenReady, holderVars, ownerVars, portVars, taskVars, callVars, reqVars
<1>7. CASE CloseMark
    BY <1>7, HolderFrame DEF CloseMark, holderVars, ownerVars, portVars, taskVars, callVars, reqVars
<1>8. CASE CloseDead
    BY <1>8, HolderFrame DEF CloseDead, holderVars, ownerVars, portVars, taskVars, callVars, reqVars
<1>9. CASE CloseFree
    BY <1>9, HolderFrame DEF CloseFree, holderVars, ownerVars, portVars, taskVars, callVars, reqVars
<1>10. CASE TaskStart
    BY <1>10, HolderFrame DEF TaskStart, holderVars, ownerVars, portVars, taskVars, callVars, reqVars
<1>11. CASE TaskPublish
    BY <1>11, HolderFrame DEF TaskPublish, holderVars, ownerVars, portVars, taskVars, callVars, reqVars
<1>12. CASE TaskSignalReady
    BY <1>12, HolderFrame DEF TaskSignalReady, holderVars, ownerVars, portVars, taskVars, callVars, reqVars
<1>13. CASE TaskCheck
    BY <1>13, HolderFrame DEF TaskCheck, holderVars, ownerVars, portVars, taskVars, callVars, reqVars
<1>14. CASE TaskWaitPort
    BY <1>14, HolderFrame DEF TaskWaitPort, holderVars, ownerVars, portVars, taskVars, callVars, reqVars
<1>15. CASE TaskGetNone
    BY <1>15, HolderFrame DEF TaskGetNone, holderVars, ownerVars, portVars, taskVars, callVars, reqVars
<1>16. CASE TaskServe
    BY <1>16, HolderFrame DEF TaskServe, holderVars, ownerVars, portVars, taskVars, callVars, reqVars
<1>17. CASE TaskDrained
    BY <1>17, HolderFrame DEF TaskDrained, holderVars, ownerVars, portVars, taskVars, callVars, reqVars
<1>18. CASE TaskUnwind
    BY <1>18, HolderFrame DEF TaskUnwind, holderVars, ownerVars, portVars, taskVars, callVars, reqVars
<1>19. CASE TaskSignalDead
    BY <1>19, HolderFrame DEF TaskSignalDead, holderVars, ownerVars, portVars, taskVars, callVars, reqVars
<1>20. CASE UNCHANGED vars
    BY <1>20, HolderFrame DEF vars, holderVars, ownerVars, portVars, taskVars, callVars, reqVars
<1>21. CASE ClosePut
    <2>1. CASE ~cmdPort
        BY <1>21, <2>1, HolderFrame DEF ClosePut, holderVars, ownerVars, taskVars, callVars,
           reqVars
    <2>2. CASE cmdPort
        <3>1. ~InQueue(ShutMsg)
            BY <1>21 DEF ControlInv, TaskInv, ClosePut
        <3>2. ShutMsg \in Requests \cup {ShutMsg}
            OBVIOUS
        <3>3. /\ IsInjective(queue')
              /\ \A m : InQueue(m)' <=> InQueue(m) \/ m = ShutMsg
            BY <1>21, <1>0, <2>2, <3>1, <3>2, AppendFacts
               DEF ClosePut, InQueue, HolderInv, OneHolder
        <3>4. \A r \in Requests : InQueue(r)' <=> InQueue(r)
            BY <3>3
        <3>5. UNCHANGED <<hand, call, target, sent, replies>>
            BY <1>21 DEF ClosePut, taskVars, callVars, reqVars
        <3>6. OneHolder'
            BY <3>3, <3>4, <3>5 DEF HolderInv, OneHolder, InReply
        <3>7. CallFound'
            BY <3>3, <3>5 DEF HolderInv, CallFound
        <3> QED BY <3>6, <3>7 DEF HolderInv
    <2> QED BY <2>1, <2>2
<1>22. CASE TaskGetRequest
    <2>1. /\ IsInjective(queue') /\ InQueue(Head(queue))
          /\ \A m : InQueue(m)' <=> InQueue(m) /\ m # Head(queue)
        BY <1>22, <1>0, TailFacts DEF TaskGetRequest, InQueue, HolderInv, OneHolder
    <2>2. \A c \in Callers : call[c] # "unlink"
        BY <1>22, UnlinkingAlone DEF TaskGetRequest
    <2>3. hand = None /\ Head(queue) \in Requests
        BY <1>22, <1>0, TailFacts DEF TaskGetRequest, ControlInv, TaskInv
    <2>4. UNCHANGED <<call, target, sent, replies>> /\ hand' = Head(queue)
        BY <1>22 DEF TaskGetRequest, callVars, reqVars
    <2>5. OneHolder'
        BY <2>1, <2>3, <2>4 DEF HolderInv, OneHolder, InReply
    <2>6. CallFound'
        BY <2>2, <2>4 DEF CallFound
    <2> QED BY <2>5, <2>6 DEF HolderInv
<1>23. CASE TaskGetShut
    <2>1. /\ IsInjective(queue') /\ InQueue(Head(queue))
          /\ \A m : InQueue(m)' <=> InQueue(m) /\ m # Head(queue)
        BY <1>23, <1>0, TailFacts DEF TaskGetShut, InQueue, HolderInv, OneHolder
    <2>2. \A c \in Callers : call[c] # "unlink"
        BY <1>23, UnlinkingAlone DEF TaskGetShut
    <2>3. UNCHANGED <<hand, call, target, sent, replies>> /\ Head(queue) = ShutMsg
        BY <1>23 DEF TaskGetShut, callVars, reqVars
    <2>4. \A r \in Requests : InQueue(r)' <=> InQueue(r)
        BY <2>1, <2>3
    <2>5. OneHolder'
        BY <2>1, <2>3, <2>4 DEF HolderInv, OneHolder, InReply
    <2>6. CallFound'
        BY <2>2, <2>3 DEF CallFound
    <2> QED BY <2>5, <2>6 DEF HolderInv
<1>24. CASE TaskDrainShut
    <2>1. /\ IsInjective(queue') /\ InQueue(Head(queue))
          /\ \A m : InQueue(m)' <=> InQueue(m) /\ m # Head(queue)
        BY <1>24, <1>0, TailFacts DEF TaskDrainShut, InQueue, HolderInv, OneHolder
    <2>2. \A c \in Callers : call[c] # "unlink"
        BY <1>24, UnlinkingAlone DEF TaskDrainShut
    <2>3. UNCHANGED <<hand, call, target, sent, replies>> /\ Head(queue) = ShutMsg
        BY <1>24 DEF TaskDrainShut, taskVars, callVars, reqVars
    <2>4. \A r \in Requests : InQueue(r)' <=> InQueue(r)
        BY <2>1, <2>3
    <2>5. OneHolder'
        BY <2>1, <2>3, <2>4 DEF HolderInv, OneHolder, InReply
    <2>6. CallFound'
        BY <2>2, <2>3 DEF CallFound
    <2> QED BY <2>5, <2>6 DEF HolderInv
<1>25. CASE TaskDrainRequest
    <2>1. /\ IsInjective(queue') /\ InQueue(Head(queue))
          /\ \A m : InQueue(m)' <=> InQueue(m) /\ m # Head(queue)
        BY <1>25, <1>0, TailFacts DEF TaskDrainRequest, InQueue, HolderInv, OneHolder
    <2>2. \A c \in Callers : call[c] # "unlink"
        BY <1>25, UnlinkingAlone DEF TaskDrainRequest
    <2>3. Head(queue) \in Requests
        BY <1>25, <1>0, TailFacts DEF TaskDrainRequest
    <2>4. /\ UNCHANGED <<hand, call, target, sent>>
          /\ replies' = [replies EXCEPT ![Head(queue)] = @ + 1]
        BY <1>25 DEF TaskDrainRequest, taskVars, callVars
    <2>5. replies[Head(queue)] = 0
        BY <2>1, <2>3 DEF HolderInv, OneHolder
    <2>6. \A r \in Requests : replies'[r] = IF r = Head(queue) THEN 1 ELSE replies[r]
        BY <1>0, <2>3, <2>4, <2>5
    <2>7. OneHolder'
        BY <1>0, <2>1, <2>3, <2>4, <2>6 DEF HolderInv, OneHolder, InReply
    <2>8. CallFound'
        BY <2>2, <2>4 DEF CallFound
    <2> QED BY <2>7, <2>8 DEF HolderInv
<1>26. CASE TaskReply
    <2>1. hand \in Requests
        BY <1>26, <1>0 DEF TaskReply, ControlInv, NotNull
    <2>2. /\ UNCHANGED <<queue, call, target, sent>> /\ hand' = None
          /\ replies' = [replies EXCEPT ![hand] = @ + 1]
        BY <1>26 DEF TaskReply, portVars, callVars
    <2>3. replies[hand] = 0
        BY <2>1 DEF HolderInv, OneHolder
    <2>4. \A r \in Requests : replies'[r] = IF r = hand THEN 1 ELSE replies[r]
        BY <1>0, <2>1, <2>2, <2>3
    <2>5. \A m : InQueue(m)' <=> InQueue(m)
        BY <2>2 DEF InQueue
    <2>6. OneHolder'
        BY <1>0, <2>1, <2>2, <2>4, <2>5 DEF HolderInv, OneHolder, InReply
    <2>7. CallFound'
        BY <2>2, <2>5 DEF HolderInv, CallFound
    <2> QED BY <2>6, <2>7 DEF HolderInv
<1>27. ASSUME NEW r \in Requests, Collect(r) PROVE HolderInv'
    <2>1. /\ UNCHANGED <<queue, hand, call, target>> /\ sent' = sent \ {r}
          /\ replies' = [replies EXCEPT ![r] = @ - 1] /\ replies[r] > 0
        BY <1>27 DEF Collect, portVars, taskVars, callVars
    <2>2. replies[r] = 1
        BY <1>0, <2>1 DEF HolderInv, OneHolder
    <2>3. \A x \in Requests : replies'[x] = IF x = r THEN 0 ELSE replies[x]
        BY <1>0, <2>1, <2>2
    <2>4. \A m : InQueue(m)' <=> InQueue(m)
        BY <2>1 DEF InQueue
    <2>5. OneHolder'
        BY <1>0, <2>1, <2>2, <2>3, <2>4 DEF HolderInv, OneHolder, InReply
    <2>6. CallFound'
        BY <2>1, <2>4 DEF HolderInv, CallFound
    <2> QED BY <2>5, <2>6 DEF HolderInv
<1>28. ASSUME NEW c \in Callers, NEW r \in Requests, AbortFind(c, r) PROVE HolderInv'
    <2>1. /\ UNCHANGED <<queue, hand, sent, replies>> /\ InQueue(r) /\ call[c] = "idle"
          /\ call' = [call EXCEPT ![c] = "unlink"]
          /\ target' = [target EXCEPT ![c] = r]
        BY <1>28 DEF AbortFind, MayCall, portVars, taskVars, reqVars
    <2>2. \A m : InQueue(m)' <=> InQueue(m)
        BY <2>1 DEF InQueue
    <2>3. \A d \in Callers, x \in Requests : InReply(d, x)' <=> InReply(d, x)
        BY <1>0, <2>1 DEF InReply
    <2>4. OneHolder'
        BY <2>1, <2>2, <2>3 DEF HolderInv, OneHolder
    <2>5. CallFound'
        BY <1>0, <2>1, <2>2 DEF HolderInv, CallFound
    <2> QED BY <2>4, <2>5 DEF HolderInv
<1>29. ASSUME NEW c \in Callers, AbortUnlink(c) PROVE HolderInv'
    <2> DEFINE x == target[c]
    <2>1. /\ UNCHANGED <<hand, target, sent, replies>>
          /\ call' = [call EXCEPT ![c] = "reply"] /\ call[c] = "unlink"
          /\ MayRun(c)
        BY <1>29 DEF AbortUnlink, taskVars, reqVars
    <2>2. InQueue(x) /\ x \in Requests
        BY <1>0, <2>1 DEF HolderInv, CallFound, ControlInv, NotNull
    <2>3. /\ IsInjective(queue')
          /\ \A m : InQueue(m)' <=> InQueue(m) /\ m # x
        BY <1>29, <1>0, <2>2, UnlinkFacts DEF AbortUnlink, InQueue, HolderInv, OneHolder
    <2>4. \A d \in Callers : d # c => call[d] # "unlink"
        BY <2>1, UnlinkingAlone
    <2>5. \A d \in Callers, y \in Requests :
             InReply(d, y)' <=> InReply(d, y) \/ (d = c /\ y = x)
        BY <1>0, <2>1 DEF InReply
    <2>6. \A d \in Callers : ~InReply(d, x)
        BY <2>2 DEF HolderInv, OneHolder
    <2>7. \A y \in Requests : ~InReply(c, y)
        BY <2>1 DEF InReply
    <2> HIDE DEF x
    <2>8. OneHolder'
        BY <2>1, <2>2, <2>3, <2>5, <2>6, <2>7 DEF HolderInv, OneHolder
    <2>9. CallFound'
        BY <1>0, <2>1, <2>4 DEF CallFound
    <2> QED BY <2>8, <2>9 DEF HolderInv
<1>30. ASSUME NEW c \in Callers, AbortReply(c) PROVE HolderInv'
    <2> DEFINE x == target[c]
    <2>1. /\ UNCHANGED <<queue, hand, sent>> /\ call[c] = "reply"
          /\ call' = [call EXCEPT ![c] = "idle"]
          /\ target' = [target EXCEPT ![c] = None]
          /\ replies' = [replies EXCEPT ![x] = @ + 1]
        BY <1>30 DEF AbortReply, portVars, taskVars
    <2>2. x \in Requests /\ InReply(c, x)
        BY <1>0, <2>1 DEF ControlInv, NotNull, InReply
    <2>3. replies[x] = 0 /\ ~InQueue(x) /\ hand # x
        BY <2>2 DEF HolderInv, OneHolder
    <2>4. \A r \in Requests : replies'[r] = IF r = x THEN 1 ELSE replies[r]
        BY <1>0, <2>1, <2>2, <2>3
    <2>5. \A m : InQueue(m)' <=> InQueue(m)
        BY <2>1 DEF InQueue
    <2>6. \A d \in Callers, y \in Requests : InReply(d, y)' <=> InReply(d, y) /\ d # c
        BY <1>0, <2>1 DEF InReply
    <2>7. \A y \in Requests : InReply(c, y) => y = x
        BY DEF InReply
    <2>8. \A d \in Callers : InReply(d, x) => d = c
        BY <2>2 DEF HolderInv, OneHolder
    <2> HIDE DEF x
    <2>9. OneHolder'
        BY <1>0, <2>1, <2>2, <2>3, <2>4, <2>5, <2>6, <2>7, <2>8 DEF HolderInv, OneHolder
    <2>10. CallFound'
        BY <1>0, <2>1, <2>5 DEF HolderInv, CallFound
    <2> QED BY <2>9, <2>10 DEF HolderInv
<1>31. ASSUME NEW c \in Callers, NEW r \in Requests, Write(c, r) PROVE HolderInv'
    <2>1. /\ UNCHANGED <<hand, call, target>> /\ r \notin sent /\ sent' = sent \cup {r}
        BY <1>31 DEF Write, taskVars, callVars
    <2>2. /\ ~InQueue(r) /\ hand # r /\ replies[r] = 0
          /\ \A d \in Callers : ~InReply(d, r)
        BY <1>0, <2>1 DEF HolderInv, OneHolder
    <2>3. CASE cmdPort
        <3>1. queue' = Append(queue, r) /\ replies' = replies
            BY <1>31, <2>3 DEF Write
        <3>2. r \in Requests \cup {ShutMsg}
            OBVIOUS
        <3>3. /\ IsInjective(queue')
              /\ \A m : InQueue(m)' <=> InQueue(m) \/ m = r
            BY <1>0, <2>2, <3>1, <3>2, AppendFacts DEF InQueue, HolderInv, OneHolder
        <3>4. OneHolder'
            BY <2>1, <2>2, <3>1, <3>3 DEF HolderInv, OneHolder, InReply
        <3>5. CallFound'
            BY <2>1, <3>3 DEF HolderInv, CallFound
        <3> QED BY <3>4, <3>5 DEF HolderInv
    <2>4. CASE ~cmdPort
        <3>1. queue' = queue /\ replies' = [replies EXCEPT ![r] = @ + 1]
            BY <1>31, <2>4 DEF Write
        <3>2. \A x \in Requests : replies'[x] = IF x = r THEN 1 ELSE replies[x]
            BY <1>0, <2>2, <3>1
        <3>3. \A m : InQueue(m)' <=> InQueue(m)
            BY <3>1 DEF InQueue
        <3>4. OneHolder'
            BY <1>0, <2>1, <2>2, <3>1, <3>2, <3>3 DEF HolderInv, OneHolder, InReply
        <3>5. CallFound'
            BY <2>1, <3>3 DEF HolderInv, CallFound
        <3> QED BY <3>4, <3>5 DEF HolderInv
    <2> QED BY <2>3, <2>4
<1>32. ASSUME NEW c \in Callers, NEW r \in Requests, NEW cmd \in SyncCommands,
             NEW quick \in BOOLEAN, Sync(c, r, cmd, quick)
      PROVE  HolderInv'
    <2>1. /\ UNCHANGED <<hand, call, target>> /\ r \notin sent
          /\ sent' = IF quick THEN sent ELSE sent \cup {r}
          /\ replies' = [x \in Requests |->
                           IF x \in FlushedAll(cmd) \/ (x = r /\ ~quick)
                           THEN replies[x] + 1 ELSE replies[x]]
        BY <1>32 DEF Sync, taskVars, callVars
    <2>2. /\ ~InQueue(r) /\ hand # r /\ replies[r] = 0
          /\ \A d \in Callers : ~InReply(d, r)
        BY <1>0, <2>1 DEF HolderInv, OneHolder
    <2>3. ~InQueue(ShutMsg) /\ life = "open" /\ MayRun(c) /\ call[c] = "idle"
        BY <1>32 DEF Sync, MayCall, ControlInv, TaskInv
    <2>4. \A d \in Callers : call[d] # "unlink"
        BY <2>3, UnlinkingAlone
    <2>5. /\ IsInjective(queue')
          /\ \A m \in Requests : InQueue(m)' <=> InQueue(m) /\ m \notin FlushedAll(cmd)
        <3>1. CASE cmd = "flush"
            <4>1. queue' = <<>>
                BY <1>32, <2>3, <3>1 DEF Sync, AfterFlush
            <4> QED BY <3>1, <4>1, EmptyFacts DEF InQueue, FlushedAll
        <3>2. CASE cmd # "flush"
            <4>1. queue' = queue /\ FlushedAll(cmd) = {}
                BY <1>32, <3>2 DEF Sync, AfterFlush, FlushedAll
            <4> QED BY <4>1 DEF InQueue, HolderInv, OneHolder
        <3> QED BY <3>1, <3>2
    <2>6. \A x \in Requests : x \in FlushedAll(cmd) => InQueue(x) /\ replies[x] = 0
        BY DEF FlushedAll, HolderInv, OneHolder
    <2>7. \A x \in Requests :
             replies'[x] = IF x \in FlushedAll(cmd) \/ (x = r /\ ~quick) THEN 1
                           ELSE replies[x]
        BY <1>0, <2>1, <2>2, <2>6
    <2>8. OneHolder'
        BY <1>0, <2>1, <2>2, <2>5, <2>6, <2>7 DEF HolderInv, OneHolder, InReply
    <2>9. CallFound'
        BY <2>1, <2>4 DEF CallFound
    <2> QED BY <2>8, <2>9 DEF HolderInv
<1> QED BY <1>1, <1>2, <1>3, <1>4, <1>5, <1>6, <1>7, <1>8, <1>9, <1>10, <1>11,
       <1>12, <1>13, <1>14, <1>15, <1>16, <1>17, <1>18, <1>19, <1>20, <1>21,
       <1>22, <1>23, <1>24, <1>25, <1>26, <1>27, <1>28, <1>29, <1>30, <1>31,
       <1>32 DEF Next, Open, Close, TaskNext, Abort

-----------------------------------------------------------------------------
(* What was aborted was not performed.                                     *)

ServedAll == ServedInv /\ AbortedNotServed

LEMMA ServedFrame ==
    /\ ServedAll /\ UNCHANGED <<queue, callVars, reqVars>>
    /\ UNCHANGED <<task, hand>> \/ task' \notin {"serve", "reply"}
    => ServedAll'
BY DEF ServedAll, ServedInv, AbortedNotServed, InQueue, callVars, reqVars

LEMMA ServedInit == Init => ServedAll
<1> SUFFICES ASSUME Init PROVE ServedAll
    OBVIOUS
<1>1. \A m : ~InQueue(m)
    BY EmptyFacts DEF Init, InQueue
<1> QED BY <1>1 DEF Init, ServedAll, ServedInv, AbortedNotServed

LEMMA ServedStep == ControlInv /\ HolderInv /\ ServedAll /\ [Next]_vars => ServedAll'
<1> SUFFICES ASSUME ControlInv, HolderInv, ServedAll, [Next]_vars PROVE ServedAll'
    OBVIOUS
<1>0. /\ queue \in Seq(Requests \cup {ShutMsg})
      /\ target \in [Callers -> Requests \cup {None}]
      /\ call \in [Callers -> {"idle", "unlink", "reply"}]
      /\ replies \in [Requests -> Nat] /\ hand \in Requests \cup {None}
      /\ error \in [Requests -> {"none", "aborted", "failed", "nowrite", "nocmd"}]
    BY DEF ControlInv, TypeOK
<1> USE DEF ServedAll
<1>1. CASE OpenAllocCtx
    BY <1>1, ServedFrame DEF OpenAllocCtx, taskVars, portVars
<1>2. CASE OpenAllocSignals
    BY <1>2, ServedFrame DEF OpenAllocSignals, taskVars, portVars
<1>3. CASE OpenDos
    BY <1>3, ServedFrame DEF OpenDos, taskVars, portVars
<1>4. CASE OpenCreateTask
    BY <1>4, ServedFrame DEF OpenCreateTask, taskVars, portVars
<1>5. CASE OpenSetUserData
    BY <1>5, ServedFrame DEF OpenSetUserData, taskVars, portVars
<1>6. CASE OpenReady
    BY <1>6, ServedFrame DEF OpenReady, taskVars, portVars
<1>7. CASE CloseMark
    BY <1>7, ServedFrame DEF CloseMark, taskVars, portVars
<1>8. CASE CloseDead
    BY <1>8, ServedFrame DEF CloseDead, taskVars, portVars
<1>9. CASE CloseFree
    BY <1>9, ServedFrame DEF CloseFree, taskVars, portVars
<1>10. CASE TaskStart
    BY <1>10, ServedFrame DEF TaskStart, taskVars, portVars, reqVars
<1>11. CASE TaskPublish
    BY <1>11, ServedFrame DEF TaskPublish, taskVars, portVars, reqVars
<1>12. CASE TaskSignalReady
    BY <1>12, ServedFrame DEF TaskSignalReady, taskVars, portVars, reqVars
<1>13. CASE TaskCheck
    BY <1>13, ServedFrame DEF TaskCheck, LoopOrDrain, taskVars, portVars, reqVars
<1>14. CASE TaskWaitPort
    BY <1>14, ServedFrame DEF TaskWaitPort, taskVars, portVars, reqVars
<1>15. CASE TaskGetNone
    BY <1>15, ServedFrame DEF TaskGetNone, LoopOrDrain, taskVars, portVars, reqVars
<1>16. CASE TaskDrained
    BY <1>16, ServedFrame DEF TaskDrained, taskVars, portVars, reqVars
<1>17. CASE TaskUnwind
    BY <1>17, ServedFrame DEF TaskUnwind, taskVars, portVars, reqVars
<1>18. CASE TaskSignalDead
    BY <1>18, ServedFrame DEF TaskSignalDead, taskVars, portVars, reqVars
<1>19. CASE UNCHANGED vars
    BY <1>19, ServedFrame DEF vars, taskVars, portVars
<1>20. CASE ClosePut
    <2>1. \A r \in Requests : InQueue(r)' => InQueue(r)
        <3>1. ShutMsg \in Requests \cup {ShutMsg}
            OBVIOUS
        <3>2. \A m : Contains(Append(queue, ShutMsg), m) <=> Contains(queue, m) \/ m = ShutMsg
            BY <1>0, <3>1, AppendFacts
        <3> QED BY <1>20, <3>2 DEF ClosePut, InQueue
    <2> QED BY <1>20, <2>1 DEF ClosePut, ServedInv, AbortedNotServed, taskVars, callVars, reqVars
<1>21. CASE TaskGetRequest
    <2>1. /\ \A r \in Requests : InQueue(r)' => InQueue(r)
          /\ InQueue(Head(queue)) /\ Head(queue) \in Requests
        BY <1>21, <1>0, TailFacts DEF TaskGetRequest, InQueue
    <2> QED BY <1>21, <2>1 DEF TaskGetRequest, ServedInv, AbortedNotServed, callVars, reqVars
<1>22. CASE TaskGetShut
    <2>1. \A r \in Requests : InQueue(r)' => InQueue(r)
        BY <1>22, <1>0, TailFacts DEF TaskGetShut, InQueue
    <2> QED BY <1>22, <2>1 DEF TaskGetShut, ServedInv, AbortedNotServed, taskVars, callVars, reqVars
<1>23. CASE TaskDrainShut
    <2>1. \A r \in Requests : InQueue(r)' => InQueue(r)
        BY <1>23, <1>0, TailFacts DEF TaskDrainShut, InQueue
    <2> QED BY <1>23, <2>1 DEF TaskDrainShut, ServedInv, AbortedNotServed, taskVars, callVars, reqVars
<1>24. CASE TaskDrainRequest
    <2>1. /\ \A r \in Requests : InQueue(r)' => InQueue(r)
          /\ InQueue(Head(queue)) /\ Head(queue) \in Requests
        BY <1>24, <1>0, TailFacts DEF TaskDrainRequest, InQueue
    <2>2. /\ UNCHANGED <<served, taskVars, callVars>> /\ task = "drain"
          /\ error' = [error EXCEPT ![Head(queue)] = "aborted"]
          /\ \A r \in Requests : r # Head(queue) => replies'[r] = replies[r]
        BY <1>24, <1>0 DEF TaskDrainRequest, taskVars
    <2>3. \A r \in Requests : r # Head(queue) => error'[r] = error[r]
        BY <1>0, <2>2
    <2>4. AbortedNotServed'
        BY <2>1, <2>2, <2>3 DEF AbortedNotServed, ServedInv
    <2>5. ServedInv'
        BY <2>1, <2>2 DEF ServedInv, taskVars, callVars
    <2> QED BY <2>4, <2>5
<1>25. CASE TaskServe
    <2>1. hand \in Requests /\ replies[hand] = 0 /\ ~InQueue(hand)
          /\ \A c \in Callers : ~InReply(c, hand)
        <3>1. hand \in Requests
            BY <1>25, <1>0 DEF TaskServe, ControlInv, NotNull
        <3> QED BY <3>1 DEF HolderInv, OneHolder
    <2>2. /\ UNCHANGED <<queue, replies, hand, callVars>> /\ task' = "reply"
          /\ served' \subseteq served \cup {hand}
          /\ error'[hand] \in {"none", "failed"}
          /\ \A r \in Requests : r # hand => error'[r] = error[r]
        BY <1>25, <1>0, <2>1 DEF TaskServe, portVars
    <2>3. AbortedNotServed'
        BY <2>1, <2>2 DEF AbortedNotServed
    <2>4. \A c \in Callers : call[c] = "reply" => target[c] # hand
        BY <2>1 DEF InReply
    <2>5. ServedInv'
        BY <2>1, <2>2, <2>4 DEF ServedInv, InQueue, callVars
    <2> QED BY <2>3, <2>5
<1>26. CASE TaskReply
    <2>1. hand \in Requests /\ error[hand] # "aborted"
        BY <1>26, <1>0 DEF TaskReply, ControlInv, NotNull, ServedInv
    <2>2. /\ UNCHANGED <<queue, callVars, served, error>> /\ task' = "get_msg"
          /\ \A r \in Requests : r # hand => replies'[r] = replies[r]
        BY <1>26, <1>0, <2>1 DEF TaskReply, portVars
    <2>3. AbortedNotServed'
        BY <2>1, <2>2 DEF AbortedNotServed
    <2>4. ServedInv'
        BY <2>2 DEF ServedInv, InQueue, callVars
    <2> QED BY <2>3, <2>4
<1>27. ASSUME NEW r \in Requests, Collect(r) PROVE ServedAll'
    <2>1. /\ UNCHANGED <<queue, callVars, taskVars, served, error>>
          /\ \A x \in Requests : replies'[x] > 0 => replies[x] > 0
        BY <1>27, <1>0 DEF Collect, portVars
    <2> QED BY <2>1 DEF ServedInv, AbortedNotServed, InQueue, callVars, taskVars
<1>28. ASSUME NEW c \in Callers, NEW r \in Requests, AbortFind(c, r) PROVE ServedAll'
    <2>1. /\ UNCHANGED <<queue, taskVars, reqVars>>
          /\ \A d \in Callers : call'[d] = "reply" =>
                call[d] = "reply" /\ target'[d] = target[d]
        BY <1>28, <1>0 DEF AbortFind, portVars
    <2> QED BY <2>1 DEF ServedInv, AbortedNotServed, InQueue, reqVars, taskVars
<1>29. ASSUME NEW c \in Callers, AbortUnlink(c) PROVE ServedAll'
    <2>1. call[c] = "unlink" /\ InQueue(target[c]) /\ target[c] \in Requests
        BY <1>29, <1>0 DEF AbortUnlink, HolderInv, CallFound, ControlInv, NotNull
    <2>2. \A r \in Requests : InQueue(r)' => InQueue(r)
        BY <1>29, <1>0, <2>1, UnlinkFacts DEF AbortUnlink, InQueue
    <2>3. /\ UNCHANGED <<target, taskVars, reqVars>>
          /\ \A d \in Callers : call'[d] = "reply" => call[d] = "reply" \/ d = c
        BY <1>29, <1>0 DEF AbortUnlink
    <2> QED BY <2>1, <2>2, <2>3 DEF ServedInv, AbortedNotServed, reqVars, taskVars
<1>30. ASSUME NEW c \in Callers, AbortReply(c) PROVE ServedAll'
    <2> DEFINE x == target[c]
    <2>1. x \in Requests /\ call[c] = "reply" /\ InReply(c, x)
        BY <1>30, <1>0 DEF AbortReply, ControlInv, NotNull, InReply
    <2>2. x \notin served /\ hand # x
        BY <2>1 DEF ServedInv, HolderInv, OneHolder
    <2>3. /\ UNCHANGED <<queue, taskVars, served>>
          /\ \A r \in Requests : r # x => replies'[r] = replies[r] /\ error'[r] = error[r]
          /\ \A d \in Callers : call'[d] = "reply" =>
                call[d] = "reply" /\ target'[d] = target[d]
        BY <1>30, <1>0, <2>1 DEF AbortReply, portVars
    <2> HIDE DEF x
    <2>4. AbortedNotServed'
        BY <2>2, <2>3 DEF AbortedNotServed
    <2>5. task = "reply" => hand \in Requests
        BY <1>0 DEF ControlInv, NotNull
    <2>6. ServedInv'
        BY <2>2, <2>3, <2>5 DEF ServedInv, InQueue, taskVars
    <2> QED BY <2>4, <2>6
<1>31. ASSUME NEW c \in Callers, NEW r \in Requests, Write(c, r) PROVE ServedAll'
    <2>1. /\ UNCHANGED <<taskVars, callVars>> /\ served' = served \ {r} /\ r \notin sent
          /\ \A x \in Requests : x # r => error'[x] = error[x] /\ replies'[x] = replies[x]
          /\ error'[r] # "aborted"
        BY <1>31, <1>0 DEF Write
    <2>2. \A x \in Requests : InQueue(x)' => InQueue(x) \/ x = r
        <3>1. r \in Requests \cup {ShutMsg}
            OBVIOUS
        <3>2. \A m : Contains(Append(queue, r), m) <=> Contains(queue, m) \/ m = r
            BY <1>0, <3>1, AppendFacts
        <3> QED BY <1>31, <3>2 DEF Write, InQueue
    <2>3. task = "reply" => hand \in Requests /\ hand # r
        BY <1>0, <2>1 DEF ControlInv, NotNull, HolderInv, OneHolder
    <2>4. AbortedNotServed'
        BY <2>1 DEF AbortedNotServed
    <2>5. ServedInv'
        BY <2>1, <2>2, <2>3 DEF ServedInv, callVars, taskVars
    <2> QED BY <2>4, <2>5
<1>32. ASSUME NEW c \in Callers, NEW r \in Requests, NEW cmd \in SyncCommands,
             NEW quick \in BOOLEAN, Sync(c, r, cmd, quick)
      PROVE  ServedAll'
    <2>1. /\ UNCHANGED <<taskVars, callVars>> /\ served' = served \ {r} /\ r \notin sent
          /\ error'[r] = SyncError(cmd)
          /\ \A x \in Requests : x # r /\ x \notin FlushedAll(cmd) =>
                error'[x] = error[x] /\ replies'[x] = replies[x]
        BY <1>32, <1>0 DEF Sync
    <2>2. SyncError(cmd) # "aborted"
        BY DEF SyncError, SyncCommands
    <2>3. \A x \in Requests : InQueue(x)' => InQueue(x)
        <3>1. ~InQueue(ShutMsg)
            BY <1>32 DEF Sync, MayCall, ControlInv, TaskInv
        <3> QED BY <1>32, <3>1, EmptyFacts DEF Sync, AfterFlush, InQueue
    <2>4. \A x \in FlushedAll(cmd) : x \notin served /\ x # hand
        BY DEF FlushedAll, ServedInv, HolderInv, OneHolder
    <2>5. task = "reply" => hand \in Requests /\ hand # r
        BY <1>0, <2>1 DEF ControlInv, NotNull, HolderInv, OneHolder
    <2>6. AbortedNotServed'
        BY <2>1, <2>2, <2>4 DEF AbortedNotServed
    <2>7. ServedInv'
        BY <2>1, <2>3, <2>4, <2>5 DEF ServedInv, callVars, taskVars
    <2> QED BY <2>6, <2>7
<1> QED BY <1>1, <1>2, <1>3, <1>4, <1>5, <1>6, <1>7, <1>8, <1>9, <1>10, <1>11,
       <1>12, <1>13, <1>14, <1>15, <1>16, <1>17, <1>18, <1>19, <1>20, <1>21,
       <1>22, <1>23, <1>24, <1>25, <1>26, <1>27, <1>28, <1>29, <1>30, <1>31,
       <1>32 DEF Next, Open, Close, TaskNext, Abort

-----------------------------------------------------------------------------
(* The theorems.                                                           *)

AllInv == ControlInv /\ HolderInv /\ ServedAll

\* AllInv is IInv of NarratorDevice, grouped by the lemmas that preserve it.
LEMMA Invariance == Spec => []AllInv
<1>1. Init => AllInv
    BY ControlInit, HolderInit, ServedInit DEF AllInv
<1>2. AllInv /\ [Next]_vars => AllInv'
    BY ControlStep, HolderStep, ServedStep DEF AllInv
<1> QED BY <1>1, <1>2, PTL DEF Spec

\* The inductive invariant of NarratorDevice.
THEOREM InductiveInvariant == Spec => []IInv
<1>1. AllInv => IInv
    BY DEF AllInv, IInv, ControlInv, HolderInv, ServedAll
<1> QED BY <1>1, Invariance, PTL

\* No freed context or port, and no message that is not on the list, is ever
\* touched by nw_dev_task, nw_dev_submit, nw_dev_abort or nw_dev_close.
THEOREM MemorySafety == Spec => []MemorySafe
<1>1. AllInv => MemorySafe
    BY DEF AllInv, ControlInv, HolderInv, CallFound, TypeOK, LockInv, LifeInv, TaskInv,
           MemorySafe, MayRun, HookLives, TasklessLives, TaskStarting, OpeningLives,
           TaskUsesPort
<1> QED BY <1>1, Invariance, PTL

\* Every request that was sent is in exactly one place, and answered at most
\* once, for any number of requests and calling tasks.
THEOREM RequestsHaveOneHolder == Spec => []OneHolder
<1>1. AllInv => OneHolder
    BY DEF AllInv, HolderInv
<1> QED BY <1>1, Invariance, PTL

\* CloseDevice returns only when every request has its answer.
THEOREM CloseAnswersEverything == Spec => []NoOrphan
<1>1. AllInv => NoOrphan
    <2> SUFFICES ASSUME AllInv, life = "closed", NEW r \in sent PROVE replies[r] = 1
        BY DEF NoOrphan
    <2>1. r \in Requests /\ replies[r] \in Nat
        BY DEF AllInv, ControlInv, TypeOK
    <2>2. task = "none" /\ queue = <<>> /\ hand = None
        BY DEF AllInv, ControlInv, LifeInv, TaskInv, TasklessLives, TaskUsesPort
    <2>3. ~InQueue(r)
        BY <2>2, EmptyFacts DEF InQueue
    <2>4. \A c \in Callers : ~InReply(c, r)
        BY DEF AllInv, ControlInv, CallLife, InReply
    <2>5. replies[r] > 0 /\ replies[r] \leq 1
        BY <2>1, <2>2, <2>3, <2>4 DEF AllInv, HolderInv, OneHolder
    <2> QED BY <2>1, <2>5
<1> QED BY <1>1, Invariance, PTL

\* DeleteMsgPort never discards a message.
THEOREM PortIsEmptyAtDelete == Spec => []PortEmptyAtDelete
<1>1. AllInv => PortEmptyAtDelete
    BY DEF AllInv, ControlInv, TaskInv, PortEmptyAtDelete, TaskUsesPort
<1> QED BY <1>1, Invariance, PTL

\* What was answered IOERR_ABORTED was not given to nw_do_write.
THEOREM AbortedWasNotServed == Spec => []AbortedNotServed
<1>1. AllInv => AbortedNotServed
    BY DEF AllInv, ServedAll
<1> QED BY <1>1, Invariance, PTL

\* A failed open and a close give everything back.
THEOREM ClosedHoldsNothing == Spec => []NoLeak
<1>1. AllInv => NoLeak
    BY DEF AllInv, ControlInv, LockInv, LifeInv, TaskInv, TasklessLives, NoLeak
<1> QED BY <1>1, Invariance, PTL

-----------------------------------------------------------------------------
(***************************************************************************)
(* NarratorDevice implements RequestService: every step of the Owner, the  *)
(* callers and the device task is a step of the service under the mapping  *)
(* of NarratorDevice!Service, or leaves it unchanged.                      *)
(*                                                                         *)
(* First, the requests among the messages on the port.                     *)
(***************************************************************************)

Messages == Requests \cup {ShutMsg}

\* Waiting as a function of the list.
Shown(q) == IF Contains(q, ShutMsg) THEN Front(q) ELSE q

ShutLast(q) == Contains(q, ShutMsg) => Last(q) = ShutMsg

LEMMA FrontFacts ==
    ASSUME NEW S, NEW q \in Seq(S), q # <<>>
    PROVE  /\ Front(q) \in Seq(S) /\ Len(q) \in Nat \ {0} /\ Len(Front(q)) = Len(q) - 1
           /\ \A i \in 1..(Len(q) - 1) : Front(q)[i] = q[i]
<1>1. Len(q) \in Nat \ {0} /\ Len(q) \in Nat /\ Len(q) >= 1
    BY EmptySeq, LenProperties
<1>2. \A i \in 1..(Len(q) - 1) : q[i] \in S
    <2>1. 1..(Len(q) - 1) \subseteq 1..Len(q)
        BY <1>1
    <2> QED BY <2>1, ElementOfSeq
<1> DEFINE f == SubSeq(q, 1, Len(q) - 1)
<1>3. /\ f \in Seq(S)
      /\ Len(f) = IF 1 <= Len(q) - 1 THEN (Len(q) - 1) - 1 + 1 ELSE 0
      /\ \A i \in 1..((Len(q) - 1) - 1 + 1) : f[i] = q[1 + i - 1]
    BY <1>1, <1>2, SubSeqProperties
<1>4. f = Front(q)
    BY DEF Front
<1> HIDE DEF f
<1>5. Len(f) = Len(q) - 1
    <2>1. ASSUME NEW n \in Nat, n >= 1
          PROVE  (IF 1 <= n - 1 THEN (n - 1) - 1 + 1 ELSE 0) = n - 1
        BY <2>1
    <2> QED BY <1>1, <1>3, <2>1
<1>6. \A i \in 1..(Len(q) - 1) : f[i] = q[i]
    BY <1>1, <1>3
<1> QED BY <1>1, <1>3, <1>4, <1>5, <1>6

\* PutMsg(cmdPort, &shutMsg).
LEMMA ShownPut ==
    ASSUME NEW q \in Seq(Messages), ~Contains(q, ShutMsg)
    PROVE  Shown(Append(q, ShutMsg)) = q /\ Shown(q) = q
<1> DEFINE a == Append(q, ShutMsg)
<1>1. ShutMsg \in Messages /\ Len(q) \in Nat
    BY LenProperties DEF Messages
<1>2. /\ a \in Seq(Messages) /\ a # <<>> /\ Len(a) = Len(q) + 1
      /\ \A i \in 1..Len(q) : a[i] = q[i]
      /\ Contains(a, ShutMsg)
    BY <1>1, AppendProperties, AppendFacts
<1> HIDE DEF a
<1>3. /\ Front(a) \in Seq(Messages) /\ Len(Front(a)) = Len(a) - 1
      /\ \A i \in 1..(Len(a) - 1) : Front(a)[i] = a[i]
    BY <1>2, FrontFacts
<1>4. Len(Front(a)) = Len(q) /\ \A i \in 1..Len(q) : Front(a)[i] = q[i]
    BY <1>1, <1>2, <1>3
<1>5. Front(a) = q
    BY <1>3, <1>4, SeqEqual
<1> QED BY <1>2, <1>5 DEF Shown, a

\* GetMsg returns a request.
LEMMA ShownGet ==
    ASSUME NEW q \in Seq(Messages), q # <<>>, ShutLast(q), Head(q) # ShutMsg
    PROVE  /\ Shown(q) # <<>> /\ Head(Shown(q)) = Head(q)
           /\ Shown(Tail(q)) = Tail(Shown(q)) /\ ShutLast(Tail(q))
<1> DEFINE t == Tail(q)
           f == Front(q)
<1>1. /\ t \in Seq(Messages) /\ Head(q) = q[1] /\ Len(q) \in Nat \ {0} /\ Len(t) = Len(q) - 1
      /\ \A i \in 1..Len(t) : t[i] = q[i + 1]
    BY HeadTailProperties, EmptySeq, LenProperties
<1>2. /\ f \in Seq(Messages) /\ Len(f) = Len(q) - 1
      /\ \A i \in 1..(Len(q) - 1) : f[i] = q[i]
    BY FrontFacts
<1> HIDE DEF t, f
<1>3. CASE ~Contains(q, ShutMsg)
    <2>1. ~Contains(t, ShutMsg)
        BY <1>3, TailFacts DEF t
    <2> QED BY <1>3, <2>1 DEF Shown, ShutLast, t
<1>4. CASE Contains(q, ShutMsg)
    <2>1. q[Len(q)] = ShutMsg
        BY <1>4 DEF ShutLast, Last
    <2>2. Len(q) \in Nat /\ Len(q) >= 2
        BY <1>1, <2>1
    <2>3. t # <<>> /\ t[Len(t)] = ShutMsg /\ Contains(t, ShutMsg)
        <3>1. Len(t) \in 1..Len(t) /\ Len(t) + 1 = Len(q)
            BY <1>1, <2>2
        <3>2. t[Len(t)] = ShutMsg
            BY <1>1, <2>1, <3>1
        <3> QED BY <3>1, <3>2, EmptyFacts DEF Contains
    <2>4. f # <<>> /\ Head(f) = f[1] /\ f[1] = q[1]
        <3>1. Len(f) # 0 /\ 1 \in 1..(Len(q) - 1)
            BY <1>2, <2>2
        <3>2. f # <<>>
            BY <3>1, EmptySeq
        <3> QED BY <1>2, <3>1, <3>2
    <2>5. /\ Tail(f) \in Seq(Messages) /\ Len(Tail(f)) = Len(f) - 1
          /\ \A i \in 1..Len(Tail(f)) : Tail(f)[i] = f[i + 1]
        BY <1>2, <2>4, HeadTailProperties
    <2>6. /\ Front(t) \in Seq(Messages) /\ Len(Front(t)) = Len(t) - 1
          /\ \A i \in 1..(Len(t) - 1) : Front(t)[i] = t[i]
        BY <1>1, <2>3, FrontFacts
    <2>7. Len(Front(t)) = Len(Tail(f)) /\ Len(Tail(f)) = Len(q) - 2
        BY <1>1, <1>2, <2>2, <2>5, <2>6
    <2>8. ASSUME NEW i \in 1..Len(Front(t)) PROVE Front(t)[i] = Tail(f)[i]
        <3>1. /\ i \in 1..(Len(t) - 1) /\ i \in 1..Len(t) /\ i \in 1..Len(Tail(f))
              /\ i + 1 \in 1..(Len(q) - 1)
            BY <1>1, <2>2, <2>7
        <3>2. Front(t)[i] = q[i + 1]
            BY <1>1, <2>6, <3>1
        <3>3. Tail(f)[i] = q[i + 1]
            BY <1>2, <2>5, <3>1
        <3> QED BY <3>2, <3>3
    <2>9. Front(t) = Tail(f)
        BY <2>5, <2>6, <2>7, <2>8, SeqEqual
    <2> QED BY <1>1, <1>4, <2>3, <2>4, <2>9 DEF Shown, ShutLast, Last, t, f
<1> QED BY <1>3, <1>4

\* GetMsg returns shutMsg: it was the only message.
LEMMA ShownGetShut ==
    ASSUME NEW q \in Seq(Messages), q # <<>>, ShutLast(q), IsInjective(q), Head(q) = ShutMsg
    PROVE  Shown(Tail(q)) = Shown(q) /\ ShutLast(Tail(q))
<1>1. /\ Tail(q) \in Seq(Messages) /\ Head(q) = q[1] /\ Len(q) \in Nat \ {0}
      /\ Len(Tail(q)) = Len(q) - 1 /\ DOMAIN q = 1..Len(q)
    BY HeadTailProperties, EmptySeq, LenProperties
<1>2. Contains(q, ShutMsg)
    BY TailFacts
<1>3. Len(q) = 1
    <2>1. q[Len(q)] = q[1]
        BY <1>1, <1>2 DEF ShutLast, Last
    <2>2. 1 \in DOMAIN q /\ Len(q) \in DOMAIN q
        BY <1>1
    <2> QED BY <2>1, <2>2 DEF IsInjective
<1>4. Tail(q) = <<>>
    <2>1. Len(Tail(q)) = 0
        BY <1>1, <1>3
    <2>2. Tail(q) \in Seq(Messages)
        BY <1>1
    <2> QED BY <2>1, <2>2, EmptySeq
<1>5. Front(q) = <<>>
    <2>1. Front(q) \in Seq(Messages) /\ Len(Front(q)) = Len(q) - 1
        BY FrontFacts
    <2> QED BY <1>3, <2>1, EmptySeq
<1> QED BY <1>2, <1>4, <1>5, EmptyFacts DEF Shown, ShutLast

-----------------------------------------------------------------------------
(* shutMsg stays the last message on the port.                             *)

ShutInv == ShutLast(queue)

LEMMA WaitingShown ==
    Waiting = Shown(queue) /\ Waiting' = Shown(queue') /\ (~InQueue(ShutMsg) => Waiting = queue)
BY DEF Waiting, Shown, InQueue

\* CloseDevice puts shutMsg on the list when the calls have ended, so nothing
\* is put after it: only GetMsg changes the list from there on.
LEMMA ShutStep ==
    ASSUME AllInv, ShutInv, [Next]_vars
    PROVE  ShutInv'
<1>1. queue \in Seq(Messages) /\ IsInjective(queue) /\ ControlInv'
    BY ControlStep DEF AllInv, HolderInv, OneHolder, ControlInv, TypeOK, Messages
<1>2. CASE life' # "wait_dead"
    <2>1. ~InQueue(ShutMsg)'
        BY <1>1, <1>2 DEF ControlInv, TaskInv
    <2> QED BY <2>1 DEF ShutInv, ShutLast, InQueue
<1>3. CASE queue' = queue
    BY <1>3 DEF ShutInv, ShutLast
<1>4. CASE queue # <<>> /\ queue' = Tail(queue)
    BY <1>1, <1>4, ShownGet, ShownGetShut DEF ShutInv
<1>5. CASE ClosePut /\ queue' = Append(queue, ShutMsg)
    <2>1. ShutMsg \in Messages
        BY DEF Messages
    <2>2. Last(queue') = ShutMsg
        BY <1>1, <1>5, <2>1, AppendProperties DEF Last
    <2> QED BY <2>2 DEF ShutInv, ShutLast
<1>6. \/ life' # "wait_dead" \/ queue' = queue \/ (queue # <<>> /\ queue' = Tail(queue))
      \/ ClosePut /\ queue' = Append(queue, ShutMsg)
    <2>1. CASE Open \/ Close
        BY <2>1 DEF Open, OpenAllocCtx, OpenAllocSignals, OpenDos, OpenCreateTask,
              OpenSetUserData, OpenReady, Close, CloseMark, ClosePut, CloseDead, CloseFree
    <2>2. CASE TaskNext
        BY <2>2 DEF TaskNext, TaskStart, TaskPublish, TaskSignalReady, TaskCheck, TaskWaitPort,
              TaskGetRequest, TaskGetShut, TaskGetNone, TaskServe, TaskReply, TaskDrainRequest,
              TaskDrainShut, TaskDrained, TaskUnwind, TaskSignalDead, portVars
    <2>3. CASE \E r \in Requests : Collect(r)
        BY <2>3 DEF Collect
    <2>4. CASE \E c \in Callers : Abort(c)
        BY <2>4 DEF Abort, AbortUnlink, AbortReply, AllInv, ControlInv, CallLife, ownerVars
    <2>5. CASE \E c \in Callers, r \in Requests : Write(c, r) \/ AbortFind(c, r)
        BY <2>5 DEF Write, AbortFind, MayCall, ownerVars
    <2>6. CASE \E c \in Callers, r \in Requests, cmd \in SyncCommands, quick \in BOOLEAN :
                  Sync(c, r, cmd, quick)
        BY <2>6 DEF Sync, MayCall, ownerVars
    <2>7. CASE UNCHANGED vars
        BY <2>7 DEF vars, portVars
    <2> QED BY <2>1, <2>2, <2>3, <2>4, <2>5, <2>6, <2>7 DEF Next
<1> QED BY <1>2, <1>3, <1>4, <1>5, <1>6

-----------------------------------------------------------------------------
(* Each step as a step of the service.                                     *)

ServiceNext == [Service!Next]_(Service!vars)

Active    == {hand} \ {None}
Cancelled == {target[c] : c \in {d \in Callers : call[d] = "reply"}}
Answered  == {r \in Requests : replies[r] > 0}

\* [Next]_vars of RequestService, spelled out under the mapping.
LEMMA ServiceMeans ==
    ServiceNext <=>
        \/ Service!Begin \/ Service!Perform \/ Service!Finish \/ Service!TurnAway
        \/ \E r \in Requests : \/ Service!Accept(r) \/ Service!Cancel(r)
                               \/ Service!AnswerCancelled(r) \/ Service!Collect(r)
        \/ \E r \in Requests, flush \in BOOLEAN :
              \E answer \in {{}, {r}} : Service!Immediate(r, answer, flush)
        \/ UNCHANGED <<Waiting, Active, Cancelled, Answered, served>>
BY DEF ServiceNext, Service!Next, Service!vars, Active, Cancelled, Answered

\* A step that touches no message and no place of a request.
LEMMA ServiceFrame ==
    ASSUME UNCHANGED <<queue, hand, call, target, replies, served>>
    PROVE  ServiceNext
<1>1. UNCHANGED <<Waiting, Active, Cancelled, Answered, served>>
    BY DEF Waiting, InQueue, Active, Cancelled, Answered
<1> QED BY <1>1, ServiceMeans

\* A request is sent again only when nothing is left of its last time.
LEMMA NotOutstanding ==
    ASSUME AllInv, life = "open", NEW r \in Requests, r \notin sent
    PROVE  /\ r \notin Service!Outstanding /\ replies[r] = 0 /\ ~InQueue(r) /\ r # hand
           /\ Waiting = queue /\ ~InQueue(ShutMsg)
<1>1. ~InQueue(r) /\ r # hand /\ ~(replies[r] > 0) /\ \A c \in Callers : ~InReply(c, r)
    BY DEF AllInv, HolderInv, OneHolder
<1>2. queue \in Seq(Messages) /\ replies[r] \in Nat
    BY DEF AllInv, ControlInv, TypeOK, Messages
<1>3. ~InQueue(ShutMsg)
    BY DEF AllInv, ControlInv, TaskInv
<1>4. Waiting = queue
    BY <1>3, WaitingShown
<1>5. r \notin ToSet(queue)
    <2>1. DOMAIN queue = 1..Len(queue)
        BY <1>2, LenProperties
    <2> QED BY <1>1, <2>1 DEF ToSet, InQueue, Contains
<1>6. r \notin Active /\ r \notin Cancelled /\ r \notin Answered
    BY <1>1 DEF Active, Cancelled, Answered, InReply
<1>7. Service!Outstanding = ToSet(Waiting) \cup Active \cup Cancelled \cup Answered
    BY DEF Service!Outstanding, Service!ToSet, ToSet, Active, Cancelled, Answered
<1> QED BY <1>1, <1>2, <1>3, <1>4, <1>5, <1>6, <1>7

\* BeginIO(CMD_WRITE) is an acceptance, or an immediate answer.
LEMMA ServiceWrite ==
    ASSUME AllInv, NEW c \in Callers, NEW r \in Requests, Write(c, r)
    PROVE  ServiceNext
<1>1. life = "open" /\ r \notin sent /\ served' = served \ {r} /\ UNCHANGED <<hand, call, target>>
    BY DEF Write, MayCall, taskVars, callVars
<1>2. /\ r \notin Service!Outstanding /\ replies[r] = 0 /\ Waiting = queue
      /\ ~InQueue(ShutMsg)
    BY <1>1, NotOutstanding
<1>3. queue \in Seq(Messages) /\ replies \in [Requests -> Nat] /\ r \in Messages /\ r # ShutMsg
    BY DEF AllInv, ControlInv, TypeOK, Messages
<1>4. CASE queue' = Append(queue, r) /\ UNCHANGED replies
    <2>1. ~Contains(queue', ShutMsg)
        BY <1>2, <1>3, <1>4, AppendFacts DEF InQueue
    <2>2. Waiting' = Append(Waiting, r)
        BY <1>2, <1>4, <2>1, WaitingShown DEF Shown
    <2>3. Service!Accept(r)
        BY <1>1, <1>2, <1>4, <2>2 DEF Service!Accept
    <2> QED BY <2>3, ServiceMeans
<1>5. CASE UNCHANGED queue /\ replies' = [replies EXCEPT ![r] = @ + 1]
    <2>1. Answered' = Answered \cup {r}
        BY <1>2, <1>3, <1>5 DEF Answered
    <2>2. Waiting' = Waiting
        BY <1>5, WaitingShown
    <2>3. Service!Immediate(r, {r}, FALSE)
        BY <1>1, <1>2, <2>1, <2>2 DEF Service!Immediate, Service!ToSet, ToSet, Answered
    <2>4. {r} \in {{}, {r}} /\ FALSE \in BOOLEAN
        OBVIOUS
    <2> QED BY <2>3, <2>4, ServiceMeans
<1> QED BY <1>4, <1>5 DEF Write

\* The other commands are answered at once; CMD_FLUSH answers all that wait.
LEMMA ServiceSync ==
    ASSUME AllInv, NEW c \in Callers, NEW r \in Requests, NEW cmd \in SyncCommands,
           NEW quick \in BOOLEAN, Sync(c, r, cmd, quick)
    PROVE  ServiceNext
<1> DEFINE answer == IF quick THEN {} ELSE {r}
           flush  == cmd = "flush"
<1>1. /\ life = "open" /\ r \notin sent /\ served' = served \ {r}
      /\ UNCHANGED <<hand, call, target>> /\ queue' = AfterFlush(cmd)
      /\ replies' = [x \in Requests |->
                        IF x \in FlushedAll(cmd) \/ (x = r /\ ~quick)
                        THEN replies[x] + 1 ELSE replies[x]]
    BY DEF Sync, MayCall, taskVars, callVars
<1>2. /\ r \notin Service!Outstanding /\ replies[r] = 0 /\ Waiting = queue
      /\ ~InQueue(ShutMsg) /\ ~InQueue(r)
    BY <1>1, NotOutstanding
<1>3. queue \in Seq(Messages) /\ replies \in [Requests -> Nat] /\ DOMAIN queue = 1..Len(queue)
    BY LenProperties DEF AllInv, ControlInv, TypeOK, Messages
<1>4. ToSet(Waiting) = {x \in Requests : InQueue(x)}
    <2>1. \A i \in 1..Len(queue) : queue[i] \in Requests
        BY <1>2, <1>3, ElementOfSeq DEF Messages, InQueue, Contains
    <2> QED BY <1>2, <1>3, <2>1 DEF ToSet, InQueue, Contains
<1>5. Waiting' = IF flush THEN <<>> ELSE Waiting
    <2>1. CASE flush
        <3>1. queue' = <<>>
            BY <1>1, <1>2, <2>1 DEF AfterFlush
        <3> QED BY <2>1, <3>1, EmptyFacts, WaitingShown DEF Shown
    <2>2. CASE ~flush
        BY <1>1, <2>2, WaitingShown DEF AfterFlush
    <2> QED BY <2>1, <2>2
<1>6. Answered' = Answered \cup answer \cup (IF flush THEN ToSet(Waiting) ELSE {})
    <2>1. FlushedAll(cmd) = IF flush THEN ToSet(Waiting) ELSE {}
        BY <1>4 DEF FlushedAll
    <2>2. ASSUME NEW x \in Requests
          PROVE  replies'[x] > 0 <=> replies[x] > 0 \/ x \in FlushedAll(cmd) \/ x \in answer
        BY <1>1, <1>3
    <2>3. answer \subseteq Requests /\ FlushedAll(cmd) \subseteq Requests
        BY DEF FlushedAll
    <2> QED BY <2>1, <2>2, <2>3 DEF Answered
<1>7. Service!Immediate(r, answer, flush)
    <2> HIDE DEF answer, flush
    <2> QED BY <1>1, <1>2, <1>5, <1>6 DEF Service!Immediate, Service!ToSet, ToSet, Answered
<1>8. answer \in {{}, {r}} /\ flush \in BOOLEAN
    OBVIOUS
<1> HIDE DEF answer, flush
<1> QED BY <1>7, <1>8, ServiceMeans

\* nw_dev_abort: the request leaves the list in one step and is answered in a
\* later one.
LEMMA ServiceUnlink ==
    ASSUME AllInv, NEW c \in Callers, AbortUnlink(c)
    PROVE  ServiceNext
<1> DEFINE r == target[c]
           k == CHOOSE i \in 1..Len(queue) : queue[i] = r
<1>1. /\ call[c] = "unlink" /\ call' = [call EXCEPT ![c] = "reply"]
      /\ UNCHANGED <<hand, target, replies, served>>
    BY DEF AbortUnlink, taskVars, reqVars
<1>2. InQueue(r) /\ r \in Requests /\ call \in [Callers -> {"idle", "unlink", "reply"}]
    BY <1>1 DEF AllInv, ControlInv, TypeOK, NotNull, HolderInv, CallFound
<1>3. queue \in Seq(Messages) /\ ~InQueue(ShutMsg)
    BY <1>1 DEF AllInv, ControlInv, TypeOK, CallLife, TaskInv, Messages
<1>4. k \in 1..Len(queue) /\ queue[k] = r
    BY <1>2 DEF InQueue, Contains
<1>5. queue' = RemoveAt(queue, k)
    BY <1>2 DEF AbortUnlink, Unlink
<1>6. Waiting = queue /\ Waiting' = queue'
    <2>1. ~Contains(queue', ShutMsg)
        BY <1>2, <1>3, UnlinkFacts DEF AbortUnlink, InQueue
    <2> QED BY <1>3, <2>1, WaitingShown DEF Shown
<1>7. Cancelled' = Cancelled \cup {r}
    BY <1>1, <1>2 DEF Cancelled
<1>8. PICK x \in Requests : x = r
    BY <1>2
<1>9. Service!Cancel(x)
    <2> HIDE DEF k, r
    <2> QED BY <1>1, <1>4, <1>5, <1>6, <1>7, <1>8
            DEF Service!Cancel, Service!RemoveAt, RemoveAt, Cancelled
<1> QED BY <1>9, ServiceMeans

LEMMA ServiceAbortReply ==
    ASSUME AllInv, NEW c \in Callers, AbortReply(c)
    PROVE  ServiceNext
<1> DEFINE r == target[c]
<1>1. /\ call[c] = "reply" /\ call' = [call EXCEPT ![c] = "idle"]
      /\ target' = [target EXCEPT ![c] = None] /\ replies' = [replies EXCEPT ![r] = @ + 1]
      /\ UNCHANGED <<queue, hand, served>>
    BY DEF AbortReply, taskVars
<1>2. /\ call \in [Callers -> {"idle", "unlink", "reply"}] /\ replies \in [Requests -> Nat]
      /\ target \in [Callers -> Requests \cup {None}]
    BY DEF AllInv, ControlInv, TypeOK
<1>3. r \in Requests
    BY <1>1, <1>2 DEF AllInv, ControlInv, NotNull
<1>4. \A d \in Callers : call[d] = "reply" /\ target[d] = r => d = c
    BY <1>1, <1>3 DEF AllInv, HolderInv, OneHolder, InReply
<1>5. r \in Cancelled /\ Cancelled' = Cancelled \ {r}
    BY <1>1, <1>2, <1>4 DEF Cancelled
<1>6. Answered' = Answered \cup {r}
    BY <1>1, <1>2, <1>3 DEF Answered
<1>7. Waiting' = Waiting
    BY <1>1, WaitingShown
<1>8. PICK x \in Requests : x = r
    BY <1>3
<1>9. Service!AnswerCancelled(x)
    <2> HIDE DEF r
    <2> QED BY <1>1, <1>5, <1>6, <1>7, <1>8
            DEF Service!AnswerCancelled, Cancelled, Answered
<1> QED BY <1>9, ServiceMeans

\* AbortIO that has only found its request cancels nothing yet.
LEMMA ServiceFind ==
    ASSUME AllInv, NEW c \in Callers, NEW r \in Requests, AbortFind(c, r)
    PROVE  ServiceNext
<1>1. /\ call[c] = "idle" /\ call' = [call EXCEPT ![c] = "unlink"]
      /\ target' = [target EXCEPT ![c] = r] /\ UNCHANGED <<queue, hand, replies, served>>
    BY DEF AbortFind, MayCall, taskVars, reqVars
<1>2. /\ call \in [Callers -> {"idle", "unlink", "reply"}]
      /\ target \in [Callers -> Requests \cup {None}]
    BY DEF AllInv, ControlInv, TypeOK
<1>3. Cancelled' = Cancelled
    BY <1>1, <1>2 DEF Cancelled
<1>4. UNCHANGED <<Waiting, Active, Cancelled, Answered, served>>
    BY <1>1, <1>3, WaitingShown DEF Active, Answered
<1> QED BY <1>4, ServiceMeans

\* WaitIO.
LEMMA ServiceCollect ==
    ASSUME AllInv, NEW r \in Requests, Collect(r)
    PROVE  ServiceNext
<1>1. /\ replies[r] > 0 /\ replies' = [replies EXCEPT ![r] = @ - 1]
      /\ UNCHANGED <<queue, hand, call, target, served>>
    BY DEF Collect, taskVars, callVars
<1>2. replies \in [Requests -> Nat] /\ replies[r] = 1
    BY <1>1 DEF AllInv, ControlInv, TypeOK, HolderInv, OneHolder
<1>3. r \in Answered /\ Answered' = Answered \ {r}
    BY <1>1, <1>2 DEF Answered
<1>4. Waiting' = Waiting
    BY <1>1, WaitingShown
<1>5. Service!Collect(r)
    BY <1>1, <1>3, <1>4 DEF Service!Collect, Answered
<1> QED BY <1>5, ServiceMeans

-----------------------------------------------------------------------------
(* The steps of the device task and of the close.                          *)

\* What GetMsg returns and leaves, in terms of the requests that wait.
LEMMA GetMsg ==
    ASSUME AllInv, ShutInv, queue # <<>>, queue' = Tail(queue)
    PROVE  /\ Head(queue) = ShutMsg => Waiting' = Waiting
           /\ Head(queue) # ShutMsg =>
                /\ Head(queue) \in Requests /\ Waiting # <<>>
                /\ Head(Waiting) = Head(queue) /\ Waiting' = Tail(Waiting)
<1>1. queue \in Seq(Messages) /\ IsInjective(queue)
    BY DEF AllInv, HolderInv, OneHolder, ControlInv, TypeOK, Messages
<1>2. Head(queue) \in Messages
    BY <1>1, TailFacts
<1>3. CASE Head(queue) = ShutMsg
    BY <1>1, <1>3, ShownGetShut, WaitingShown DEF ShutInv
<1>4. CASE Head(queue) # ShutMsg
    BY <1>1, <1>2, <1>4, ShownGet, WaitingShown DEF ShutInv, Messages
<1> QED BY <1>3, <1>4

\* A request taken from the port is begun.
LEMMA ServiceBegin ==
    ASSUME AllInv, ShutInv, TaskGetRequest
    PROVE  ServiceNext
<1>1. /\ queue # <<>> /\ Head(queue) # ShutMsg /\ queue' = Tail(queue)
      /\ task = "get_msg" /\ hand' = Head(queue)
      /\ UNCHANGED <<call, target, replies, served>>
    BY DEF TaskGetRequest, callVars
<1>2. /\ Head(queue) \in Requests /\ Waiting # <<>>
      /\ Head(Waiting) = Head(queue) /\ Waiting' = Tail(Waiting)
    BY <1>1, GetMsg
<1>3. hand = None
    BY <1>1 DEF AllInv, ControlInv, TaskInv
<1>4. Active = {} /\ Active' = {Head(Waiting)}
    BY <1>1, <1>2, <1>3 DEF Active
<1>5. Service!Begin
    BY <1>1, <1>2, <1>4 DEF Service!Begin, Active
<1> QED BY <1>5, ServiceMeans

\* nw_do_write, with a session.
LEMMA ServicePerform ==
    ASSUME AllInv, TaskServe
    PROVE  ServiceNext
<1>1. /\ task = "serve" /\ UNCHANGED <<queue, hand, call, target, replies>>
      /\ served' = IF sess THEN served \cup {hand} ELSE served
    BY DEF TaskServe, callVars
<1>2. CASE ~sess
    BY <1>1, <1>2, ServiceFrame
<1>3. CASE sess
    <2>1. Active = {hand}
        BY <1>1 DEF Active, AllInv, ControlInv, NotNull
    <2>2. UNCHANGED <<Waiting, Active, Cancelled, Answered>>
        BY <1>1, WaitingShown DEF Active, Cancelled, Answered
    <2>3. Service!Perform
        BY <1>1, <1>3, <2>1, <2>2 DEF Service!Perform, Active, Cancelled, Answered
    <2> QED BY <2>3, ServiceMeans
<1> QED BY <1>2, <1>3

\* ReplyMsg of the request that was served.
LEMMA ServiceFinish ==
    ASSUME AllInv, TaskReply
    PROVE  ServiceNext
<1>1. /\ task = "reply" /\ UNCHANGED <<queue, call, target, served>> /\ hand' = None
      /\ replies' = [replies EXCEPT ![hand] = @ + 1]
    BY DEF TaskReply, callVars
<1>2. hand \in Requests /\ replies \in [Requests -> Nat]
    BY <1>1 DEF AllInv, ControlInv, NotNull, TypeOK
<1>3. Active = {hand} /\ Active' = {}
    BY <1>1, <1>2 DEF Active
<1>4. Answered' = Answered \cup {hand}
    BY <1>1, <1>2 DEF Answered
<1>5. UNCHANGED <<Waiting, Cancelled>>
    BY <1>1, WaitingShown DEF Cancelled
<1>6. Service!Finish
    BY <1>1, <1>3, <1>4, <1>5 DEF Service!Finish, Active, Cancelled, Answered
<1> QED BY <1>6, ServiceMeans

\* The drain turns the requests away that are still on the port.
LEMMA ServiceTurnAway ==
    ASSUME AllInv, ShutInv, TaskDrainRequest
    PROVE  ServiceNext
<1>1. /\ queue # <<>> /\ Head(queue) # ShutMsg /\ queue' = Tail(queue)
      /\ task = "drain" /\ UNCHANGED <<hand, call, target, served>>
      /\ replies' = [replies EXCEPT ![Head(queue)] = @ + 1]
    BY DEF TaskDrainRequest, callVars
<1>2. /\ Head(queue) \in Requests /\ Waiting # <<>>
      /\ Head(Waiting) = Head(queue) /\ Waiting' = Tail(Waiting)
    BY <1>1, GetMsg
<1>3. hand = None /\ replies \in [Requests -> Nat]
    BY <1>1 DEF AllInv, ControlInv, TaskInv, TypeOK
<1>4. Answered' = Answered \cup {Head(Waiting)}
    BY <1>1, <1>2, <1>3 DEF Answered
<1>5. Active = {} /\ UNCHANGED <<Active, Cancelled>>
    BY <1>1, <1>3 DEF Active, Cancelled
<1>6. Service!TurnAway
    BY <1>1, <1>2, <1>4, <1>5 DEF Service!TurnAway, Active, Cancelled, Answered
<1> QED BY <1>6, ServiceMeans

\* shutMsg comes and goes unseen.
LEMMA ServiceShutMsg ==
    ASSUME AllInv, ShutInv, ClosePut \/ TaskGetShut \/ TaskDrainShut
    PROVE  ServiceNext
<1>1. UNCHANGED <<hand, call, target, replies, served>>
    BY DEF ClosePut, TaskGetShut, TaskDrainShut, callVars, reqVars
<1>2. Waiting' = Waiting
    <2>1. CASE ClosePut
        <3>1. queue \in Seq(Messages) /\ ~Contains(queue, ShutMsg)
            BY <2>1 DEF ClosePut, AllInv, ControlInv, TaskInv, TypeOK, InQueue, Messages
        <3> QED BY <2>1, <3>1, ShownPut, WaitingShown DEF ClosePut
    <2>2. CASE TaskGetShut \/ TaskDrainShut
        BY <2>2, GetMsg DEF TaskGetShut, TaskDrainShut
    <2> QED BY <2>1, <2>2
<1>3. UNCHANGED <<Waiting, Active, Cancelled, Answered, served>>
    BY <1>1, <1>2 DEF Active, Cancelled, Answered
<1> QED BY <1>3, ServiceMeans

LEMMA ServiceStep ==
    ASSUME AllInv, ShutInv, [Next]_vars
    PROVE  ServiceNext
<1>1. CASE Open \/ CloseMark \/ CloseDead \/ CloseFree
    BY <1>1, ServiceFrame
       DEF Open, OpenAllocCtx, OpenAllocSignals, OpenDos, OpenCreateTask, OpenSetUserData,
           OpenReady, CloseMark, CloseDead, CloseFree, callVars, reqVars
<1>2. CASE \/ TaskStart \/ TaskPublish \/ TaskSignalReady \/ TaskCheck \/ TaskWaitPort
           \/ TaskGetNone \/ TaskDrained \/ TaskUnwind \/ TaskSignalDead
    BY <1>2, ServiceFrame
       DEF TaskStart, TaskPublish, TaskSignalReady, TaskCheck, TaskWaitPort, TaskGetNone,
           TaskDrained, TaskUnwind, TaskSignalDead, portVars, callVars
<1>3. CASE UNCHANGED vars
    BY <1>3, ServiceFrame DEF vars, portVars, taskVars, callVars, reqVars
<1> QED BY <1>1, <1>2, <1>3, ServiceShutMsg, ServiceBegin, ServicePerform, ServiceFinish,
       ServiceTurnAway, ServiceWrite, ServiceSync, ServiceFind, ServiceUnlink,
       ServiceAbortReply, ServiceCollect DEF Next, Close, TaskNext, Abort

LEMMA ServiceInit == Init => Service!Init /\ ShutInv
<1> SUFFICES ASSUME Init PROVE Service!Init /\ ShutInv
    OBVIOUS
<1>1. ~Contains(queue, ShutMsg) /\ queue = <<>>
    BY EmptyFacts DEF Init
<1>2. Waiting = <<>> /\ ShutInv
    BY <1>1, WaitingShown DEF Shown, ShutInv, ShutLast
<1>3. Active = {} /\ Cancelled = {} /\ Answered = {} /\ served = {}
    BY DEF Init, Active, Cancelled, Answered
<1> QED BY <1>2, <1>3 DEF Service!Init, Active, Cancelled, Answered

\* The unit implements RequestService: every step of OpenDevice, CloseDevice,
\* BeginIO, AbortIO and the device task accepts, begins, performs, cancels,
\* answers or collects a request as the service does, or is invisible to it.
THEOREM DeviceImplementsService == Spec => ImplementsService
<1>1. Init => Service!Init /\ ShutInv
    BY ServiceInit
<1>2. AllInv /\ ShutInv /\ [Next]_vars => ShutInv'
    BY ShutStep
<1>3. AllInv /\ ShutInv /\ [Next]_vars => ServiceNext
    BY ServiceStep
<1>4. Spec => []AllInv
    BY Invariance
<1> QED BY <1>1, <1>2, <1>3, <1>4, PTL DEF Spec, ImplementsService, Service!Spec, ServiceNext
=============================================================================
