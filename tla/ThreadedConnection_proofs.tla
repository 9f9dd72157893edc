--------------------- MODULE ThreadedConnection_proofs ---------------------
(***************************************************************************)
(* Proofs about ThreadedConnection, for every set of connections, every    *)
(* capacity, every counter width that fits it and every bound on the       *)
(* queries, whether or not scripts close connections from callbacks: types *)
(* and the counter; the order of the callbacks and the refinement of       *)
(* QueryDelivery; what mysql_close leaves behind and the errors reported.  *)
(***************************************************************************)
EXTENDS ThreadedConnection, SequenceTheorems, TLAPS

-----------------------------------------------------------------------------
(***************************************************************************)
(* Frames: which steps change a variable.                                  *)
(***************************************************************************)

LEMMA QueueFrame ==
    ASSUME [Next]_vars
    PROVE  \/ UNCHANGED queue
           \/ \E c \in Conn : QueuePush(c) \/ WorkerPop(c)
BY DEF Next, NativeStep, ProcessStep, WorkerStep, vars, Connect, SetCharset, Close,
       QueueCount, QueueNotify, CloseNotify, CloseJoin, CloseFlag, TickBegin,
       Callback, CallbackReturn, TickEnd, WorkerStart, WorkerTest, WorkerPark,
       SpuriousWakeup, WorkerResume, WorkerPopEmpty, WorkerExecute,
       WorkerExecuteFails, WorkerGetError, WorkerCount, WorkerDispatch

LEMMA DispatcherFrame ==
    ASSUME [Next]_vars
    PROVE  \/ UNCHANGED <<dispatched, mainAt>>
           \/ \E c \in Conn : WorkerDispatch(c)
           \/ ProcessStep
BY DEF Next, NativeStep, WorkerStep, vars, Connect, SetCharset, Close, QueuePush,
       QueueCount, QueueNotify, CloseNotify, CloseJoin, CloseFlag, WorkerStart,
       WorkerTest, WorkerPark, SpuriousWakeup, WorkerResume, WorkerPop,
       WorkerPopEmpty, WorkerExecute, WorkerExecuteFails, WorkerGetError,
       WorkerCount, WorkerGoes, dispatcherVars

-----------------------------------------------------------------------------
(***************************************************************************)
(* Types.                                                                  *)
(***************************************************************************)
Entry == [conn : Conn, num : 0 .. MaxAccepted, ok : BOOLEAN, error : ErrorCodes]

LEMMA ErrorCodesContain ==
    /\ NoError \in ErrorCodes /\ CharsetError \in ErrorCodes
    /\ ConnectError \in ErrorCodes
    /\ 0 .. MaxAccepted \subseteq ErrorCodes
BY MaxAcceptedAssumption DEF ErrorCodes, NoError, CharsetError, ConnectError

\* The counter stays within its width.
LEMMA CounterType ==
    \A n \in 0 .. UIntMod - 1 :
       /\ Increment(n) \in 0 .. UIntMod - 1
       /\ Decrement(n) \in 0 .. UIntMod - 1
BY UIntAssumption, CapacityAssumption DEF Increment, Decrement

LEMMA InitType == Init => TypeOK
<1> SUFFICES ASSUME Init PROVE TypeOK
    OBVIOUS
<1>1. DispatcherType
    BY DEF Init, DispatcherInit, DispatcherType
<1>2. QueueType
    BY CapacityAssumption DEF Init, QueueType
<1>3. ConnectionType
    BY ErrorCodesContain, UIntAssumption, CapacityAssumption DEF Init, ConnectionType
<1>4. WorkerType
    BY ErrorCodesContain, MaxAcceptedAssumption
    DEF Init, WorkerType, WorkerState, Succeeded
<1>5. MainType
    BY MaxAcceptedAssumption DEF Init, MainType, CallState
<1>6. QED
    BY <1>1, <1>2, <1>3, <1>4, <1>5 DEF TypeOK

LEMMA StepQueueType ==
    ASSUME TypeOK, [Next]_vars
    PROVE  QueueType'
<1>1. ASSUME NEW c \in Conn, QueuePush(c) PROVE QueueType'
  <2>1. /\ accepted[c] \in 0 .. MaxAccepted /\ accepted[c] < MaxAccepted
        /\ queue[c] \in Seq(1 .. MaxAccepted) /\ Len(queue[c]) < Capacity
        /\ queue' = [queue EXCEPT ![c] = Append(queue[c], accepted[c] + 1)]
    BY <1>1 DEF TypeOK, MainType, QueueType, QueuePush, QueueHasRoom
  <2>2. accepted[c] + 1 \in 1 .. MaxAccepted
    BY <2>1, MaxAcceptedAssumption
  <2>3. /\ Append(queue[c], accepted[c] + 1) \in Seq(1 .. MaxAccepted)
        /\ Len(Append(queue[c], accepted[c] + 1)) = Len(queue[c]) + 1
        /\ Len(queue[c]) \in Nat
    BY <2>1, <2>2, AppendProperties, LenProperties
  <2>4. QED
    BY <2>1, <2>3, CapacityAssumption DEF TypeOK, QueueType
<1>2. ASSUME NEW c \in Conn, WorkerPop(c) PROVE QueueType'
  <2>1. /\ queue[c] \in Seq(1 .. MaxAccepted) /\ queue[c] # <<>>
        /\ Len(queue[c]) <= Capacity
        /\ queue' = [queue EXCEPT ![c] = Tail(queue[c])]
    BY <1>2 DEF TypeOK, QueueType, WorkerPop
  <2>2. /\ Tail(queue[c]) \in Seq(1 .. MaxAccepted)
        /\ Len(Tail(queue[c])) = Len(queue[c]) - 1
        /\ Len(queue[c]) \in Nat
    BY <2>1, HeadTailProperties, LenProperties
  <2>3. QED
    BY <2>1, <2>2, CapacityAssumption DEF TypeOK, QueueType
<1>3. CASE UNCHANGED queue
    BY <1>3 DEF TypeOK, QueueType
<1>4. QED
    BY <1>1, <1>2, <1>3, QueueFrame

LEMMA StepDispatcherType ==
    ASSUME TypeOK, [Next]_vars
    PROVE  DispatcherType'
<1>1. ASSUME NEW c \in Conn, WorkerDispatch(c) PROVE DispatcherType'
  <2> DEFINE f == [conn |-> c, num |-> query[c],
                   ok |-> func[c].ok, error |-> func[c].error]
  <2>1. f \in Entry
    BY DEF TypeOK, WorkerType, Entry
  <2>2. /\ dispatched' = Append(dispatched, f)
        /\ mainAt' = mainAt /\ mainAt = "server"
    BY <1>1 DEF WorkerDispatch, Dispatch, QueueMtxFree
  <2>3. Append(dispatched, f) \in Seq(Entry)
    BY <2>1, AppendProperties DEF TypeOK, DispatcherType, Entry
  <2>4. QED
    BY <2>2, <2>3 DEF DispatcherType, Entry
<1>2. CASE ProcessStep
  <2>1. CASE TickBegin \/ Callback \/ TickEnd
    BY <2>1 DEF TypeOK, DispatcherType, TickBegin, ProcessBegin, Callback, CallFront,
                TickEnd, ProcessEnd
  <2>2. CASE CallbackReturn
    <3>1. /\ dispatched \in Seq(Entry) /\ dispatched # <<>>
          /\ dispatched' = Tail(dispatched) /\ mainAt' = "process"
      BY <2>2 DEF TypeOK, DispatcherType, CallbackReturn, PopFront, Entry
    <3>2. Tail(dispatched) \in Seq(Entry)
      BY <3>1, HeadTailProperties
    <3>3. QED
      BY <3>1, <3>2 DEF DispatcherType, Entry
  <2>3. QED
    BY <1>2, <2>1, <2>2 DEF ProcessStep
<1>3. CASE UNCHANGED <<dispatched, mainAt>>
    BY <1>3 DEF TypeOK, DispatcherType
<1>4. QED
    BY <1>1, <1>2, <1>3, DispatcherFrame

LEMMA ConnectionFrame ==
    ASSUME [Next]_vars
    PROVE  \/ UNCHANGED <<handle, connected, errno, unprocessed, active>>
           \/ \E c \in Conn :
                 \/ Connect(c) \/ SetCharset(c) \/ Close(c) \/ QueueCount(c)
                 \/ CloseFlag(c) \/ WorkerExecute(c) \/ WorkerExecuteFails(c)
                 \/ WorkerCount(c)
BY DEF Next, NativeStep, ProcessStep, WorkerStep, vars, QueuePush, QueueNotify,
       CloseNotify, CloseJoin, TickBegin, Callback, CallbackReturn, TickEnd,
       WorkerStart, WorkerTest, WorkerPark, SpuriousWakeup, WorkerResume, WorkerPop,
       WorkerPopEmpty, WorkerGetError, WorkerDispatch, WorkerGoes, mainVars

LEMMA StepConnectionType ==
    ASSUME TypeOK, [Next]_vars
    PROVE  ConnectionType'
<1> USE DEF TypeOK, ConnectionType
<1>1. ASSUME NEW c \in Conn, Connect(c) PROVE ConnectionType'
    BY <1>1, ErrorCodesContain DEF Connect
<1>2. ASSUME NEW c \in Conn, SetCharset(c) PROVE ConnectionType'
    BY <1>2, ErrorCodesContain DEF SetCharset, mainVars
<1>3. ASSUME NEW c \in Conn, Close(c) PROVE ConnectionType'
    BY <1>3 DEF Close
<1>4. ASSUME NEW c \in Conn, QueueCount(c) PROVE ConnectionType'
    BY <1>4, CounterType DEF QueueCount
<1>5. ASSUME NEW c \in Conn, CloseFlag(c) PROVE ConnectionType'
    BY <1>5 DEF CloseFlag
<1>6. ASSUME NEW c \in Conn, WorkerExecute(c) PROVE ConnectionType'
    BY <1>6, ErrorCodesContain DEF WorkerExecute, WorkerGoes, mainVars
<1>7. ASSUME NEW c \in Conn, WorkerExecuteFails(c) PROVE ConnectionType'
  <2>1. query[c] \in ErrorCodes
    BY ErrorCodesContain DEF WorkerType
  <2>2. QED
    BY <1>7, <2>1 DEF WorkerExecuteFails, WorkerGoes, mainVars
<1>8. ASSUME NEW c \in Conn, WorkerCount(c) PROVE ConnectionType'
    BY <1>8, CounterType DEF WorkerCount, WorkerGoes, mainVars
<1>9. CASE UNCHANGED <<handle, connected, errno, unprocessed, active>>
    BY <1>9
<1>10. QED
    BY <1>1, <1>2, <1>3, <1>4, <1>5, <1>6, <1>7, <1>8, <1>9, ConnectionFrame

LEMMA WorkerFrame ==
    ASSUME [Next]_vars
    PROVE  \/ UNCHANGED <<worker, query, func>>
           \/ \E c \in Conn :
                 \/ Connect(c) \/ QueueNotify(c) \/ CloseNotify(c)
                 \/ WorkerStep(c) \/ SpuriousWakeup(c) \/ WorkerDispatch(c)
BY DEF Next, NativeStep, ProcessStep, vars, QueuePush, SetCharset, Close,
       QueueCount, CloseFlag, CloseJoin, TickBegin, Callback, CallbackReturn,
       TickEnd, workerVars

LEMMA StepWorkerType ==
    ASSUME TypeOK, [Next]_vars
    PROVE  WorkerType'
<1> USE DEF TypeOK, WorkerType, WorkerState
<1>1. ASSUME NEW c \in Conn, Connect(c) PROVE WorkerType'
    BY <1>1 DEF Connect
<1>2. ASSUME NEW c \in Conn, QueueNotify(c) \/ CloseNotify(c) PROVE WorkerType'
    BY <1>2 DEF QueueNotify, CloseNotify, NotifyOne
<1>3. ASSUME NEW c \in Conn, WorkerPop(c) PROVE WorkerType'
  <2>1. queue[c] \in Seq(1 .. MaxAccepted) /\ queue[c] # <<>>
    BY <1>3 DEF QueueType, WorkerPop
  <2>2. Head(queue[c]) \in 0 .. MaxAccepted
    BY <2>1, HeadTailProperties, MaxAcceptedAssumption
  <2>3. QED
    BY <1>3, <2>2 DEF WorkerPop, WorkerGoes
<1>4. ASSUME NEW c \in Conn, WorkerExecute(c) PROVE WorkerType'
    BY <1>4, ErrorCodesContain DEF WorkerExecute, WorkerGoes, Succeeded
<1>5. ASSUME NEW c \in Conn, WorkerGetError(c) PROVE WorkerType'
    BY <1>5 DEF WorkerGetError, WorkerGoes, Failed, ConnectionType
<1>6. ASSUME NEW c \in Conn, WorkerDispatch(c) PROVE WorkerType'
    BY <1>6, ErrorCodesContain, MaxAcceptedAssumption
    DEF WorkerDispatch, WorkerGoes, Succeeded
<1>7. ASSUME NEW c \in Conn,
             \/ WorkerStart(c) \/ WorkerTest(c) \/ WorkerPark(c) \/ WorkerResume(c)
             \/ WorkerPopEmpty(c) \/ WorkerExecuteFails(c) \/ WorkerCount(c)
             \/ SpuriousWakeup(c)
      PROVE  WorkerType'
    BY <1>7 DEF WorkerStart, WorkerTest, WorkerPark, WorkerResume, WorkerPopEmpty,
                WorkerExecuteFails, WorkerCount, SpuriousWakeup, WorkerGoes
<1>8. CASE UNCHANGED <<worker, query, func>>
    BY <1>8
<1>9. QED
    BY <1>1, <1>2, <1>3, <1>4, <1>5, <1>6, <1>7, <1>8, WorkerFrame DEF WorkerStep

LEMMA MainFrame ==
    ASSUME [Next]_vars
    PROVE  \/ UNCHANGED <<call, accepted, answered>>
           \/ \E c \in Conn :
                 QueuePush(c) \/ Close(c) \/ NativeStep(c) \/ CloseFlag(c)
           \/ CallbackReturn
BY DEF Next, ProcessStep, WorkerStep, vars, Connect, SetCharset, TickBegin, Callback,
       TickEnd, WorkerStart, WorkerTest, WorkerPark, SpuriousWakeup, WorkerResume,
       WorkerPop, WorkerPopEmpty, WorkerExecute, WorkerExecuteFails, WorkerGetError,
       WorkerCount, WorkerDispatch, WorkerGoes, mainVars

LEMMA StepMainType ==
    ASSUME TypeOK, [Next]_vars
    PROVE  MainType'
<1> USE DEF TypeOK, MainType, CallState
<1>1. ASSUME NEW c \in Conn, QueuePush(c) PROVE MainType'
    BY <1>1, MaxAcceptedAssumption DEF QueuePush
<1>2. ASSUME NEW c \in Conn, Close(c) \/ NativeStep(c) \/ CloseFlag(c)
      PROVE  MainType'
    BY <1>2 DEF Close, NativeStep, QueueCount, QueueNotify, CloseNotify, CloseJoin,
                CloseFlag
<1>3. CASE CallbackReturn
  <2> DEFINE c == Head(dispatched).conn
  <2>1. /\ UNCHANGED <<call, accepted>>
        /\ answered' = [answered EXCEPT ![c] = answered[c] + 1]
    BY <1>3 DEF CallbackReturn, mainVars
  <2>2. call \in [Conn -> CallState] /\ accepted \in [Conn -> 0 .. MaxAccepted]
        /\ answered \in [Conn -> Nat]
    OBVIOUS
  <2>3. answered' \in [Conn -> Nat]
    <3> HIDE DEF c
    <3>1. ASSUME NEW k \in Conn
          PROVE  (IF k = c THEN answered[c] + 1 ELSE answered[k]) \in Nat
      BY <2>2
    <3>2. QED
      BY <2>1, <2>2, <3>1
  <2>4. QED
    BY <2>1, <2>2, <2>3
<1>4. CASE UNCHANGED <<call, accepted, answered>>
    BY <1>4
<1>5. QED
    BY <1>1, <1>2, <1>3, <1>4, MainFrame

\* Every reachable state is well typed: no callback queue is popped while
\* empty, m_Queue never exceeds its capacity, and the counter its width.
THEOREM TypeCorrect == Spec => []TypeOK
<1>1. TypeOK /\ [Next]_vars => TypeOK'
    BY StepDispatcherType, StepQueueType, StepConnectionType, StepWorkerType,
       StepMainType DEF TypeOK
<1>2. QED
    BY InitType, <1>1, PTL DEF Spec

-----------------------------------------------------------------------------
(***************************************************************************)
(* The inductive invariant.  TypeOK and the properties are not inductive:  *)
(* they say nothing of the moments at which a thread is between two steps. *)
(***************************************************************************)

\* The life of a connection.  The flag of the worker is set exactly while the
\* destructor has not cleared it, a native is under way only on a connection
\* in the state it needs, and a destroyed connection has no running worker.
LifeInv ==
    \A c \in Conn :
       /\ worker[c] = "none" <=> handle[c] = "unused"
       /\ handle[c] = "unused" =>
             queue[c] = <<>> /\ accepted[c] = 0 /\ call[c] = "none"
       /\ call[c] \in {"counting", "notifying"} => handle[c] = "open"
       /\ call[c] \in {"locking", "closing", "joining"} => handle[c] = "closed"
       /\ active[c] <=> handle[c] = "open" \/ call[c] = "locking"
       /\ worker[c] = "ended" => ~active[c]
       /\ Destroyed(c) => worker[c] = "ended"

\* The counter, at any moment: the queries in m_Queue, plus the one that is
\* popped and not counted down, minus the one that is pushed and not counted
\* yet, modulo 2^w.
Popped(c) == IF worker[c] \in {"executing", "failed", "counting"} THEN 1 ELSE 0
Uncounted(c) == IF call[c] = "counting" THEN 1 ELSE 0
Wrapped(n) == IF n < 0 THEN n + UIntMod ELSE n

CounterInv ==
    \A c \in Conn :
       unprocessed[c] = Wrapped(Len(queue[c]) + Popped(c) - Uncounted(c))

-----------------------------------------------------------------------------
(***************************************************************************)
(* The life of a connection.                                               *)
(***************************************************************************)

LEMMA LifeStep ==
    ASSUME TypeOK, LifeInv, [Next]_vars
    PROVE  LifeInv'
<1> USE DEF LifeInv, Destroyed
<1>1. ASSUME NEW c \in Conn, Connect(c) PROVE LifeInv'
    BY <1>1 DEF Connect, TypeOK, ConnectionType, WorkerType
<1>2. ASSUME NEW c \in Conn, QueuePush(c) PROVE LifeInv'
    BY <1>2 DEF QueuePush, workerVars, ScriptRuns, TypeOK, MainType, QueueType
<1>3. ASSUME NEW c \in Conn, SetCharset(c) PROVE LifeInv'
    BY <1>3 DEF SetCharset, mainVars, workerVars
<1>4. ASSUME NEW c \in Conn, Close(c) PROVE LifeInv'
    BY <1>4 DEF Close, workerVars, TypeOK, ConnectionType, MainType
<1>5. ASSUME NEW c \in Conn, QueueCount(c) PROVE LifeInv'
    BY <1>5 DEF QueueCount, workerVars, TypeOK, MainType
<1>6. ASSUME NEW c \in Conn, QueueNotify(c) PROVE LifeInv'
    BY <1>6 DEF QueueNotify, NotifyOne, TypeOK, MainType, WorkerType
<1>7. ASSUME NEW c \in Conn, CloseFlag(c) PROVE LifeInv'
    BY <1>7 DEF CloseFlag, workerVars, TypeOK, MainType, ConnectionType
<1>8. ASSUME NEW c \in Conn, CloseNotify(c) PROVE LifeInv'
    BY <1>8 DEF CloseNotify, NotifyOne, TypeOK, MainType, WorkerType
<1>9. ASSUME NEW c \in Conn, CloseJoin(c) PROVE LifeInv'
    BY <1>9 DEF CloseJoin, workerVars, TypeOK, MainType
<1>10. CASE ProcessStep
    BY <1>10 DEF ProcessStep, TickBegin, Callback, CallbackReturn, TickEnd, mainVars,
                 workerVars
<1>11. ASSUME NEW c \in Conn, WorkerPop(c) PROVE LifeInv'
    BY <1>11 DEF WorkerPop, WorkerGoes, mainVars, TypeOK, WorkerType, QueueType
<1>12. ASSUME NEW c \in Conn,
             WorkerStep(c) \/ SpuriousWakeup(c) \/ WorkerDispatch(c), ~WorkerPop(c)
       PROVE  LifeInv'
    BY <1>12 DEF WorkerStep, SpuriousWakeup, WorkerDispatch, WorkerStart, WorkerTest,
                 WorkerPark, WorkerResume, WorkerPopEmpty, WorkerExecute,
                 WorkerExecuteFails, WorkerGetError, WorkerCount, WorkerGoes, mainVars,
                 TypeOK, WorkerType
<1>13. CASE UNCHANGED vars
    BY <1>13 DEF vars
<1>14. QED
    BY <1>1, <1>2, <1>3, <1>4, <1>5, <1>6, <1>7, <1>8, <1>9, <1>10, <1>11, <1>12,
       <1>13 DEF Next, NativeStep

THEOREM LifeCorrect == Spec => []LifeInv
<1>1. Init => LifeInv
    BY DEF Init, LifeInv, Destroyed
<1>2. TypeOK /\ LifeInv /\ [Next]_vars => LifeInv'
    BY LifeStep
<1>3. QED
    BY <1>1, <1>2, TypeCorrect, PTL DEF Spec
-----------------------------------------------------------------------------
(***************************************************************************)
(* The counter.                                                            *)
(***************************************************************************)

\* Every queue has a length, and pushing and popping change it by one.
LEMMA QueueLength ==
    ASSUME TypeOK, NEW c \in Conn
    PROVE  Len(queue[c]) \in 0 .. Capacity
BY LenProperties, CapacityAssumption DEF TypeOK, QueueType

LEMMA QueueLengthStep ==
    ASSUME TypeOK, NEW c \in Conn
    PROVE  /\ QueuePush(c) =>
                 /\ Len(queue'[c]) = Len(queue[c]) + 1
                 /\ \A d \in Conn : d # c => queue'[d] = queue[d]
           /\ WorkerPop(c) =>
                 /\ Len(queue'[c]) = Len(queue[c]) - 1
                 /\ Len(queue[c]) > 0
                 /\ \A d \in Conn : d # c => queue'[d] = queue[d]
<1>1. queue \in [Conn -> Seq(1 .. MaxAccepted)] /\ queue[c] \in Seq(1 .. MaxAccepted)
    BY DEF TypeOK, QueueType
<1>2. ASSUME QueuePush(c)
      PROVE  /\ Len(queue'[c]) = Len(queue[c]) + 1
             /\ \A d \in Conn : d # c => queue'[d] = queue[d]
  <2>1. /\ queue' = [queue EXCEPT ![c] = Append(queue[c], accepted[c] + 1)]
        /\ accepted[c] \in Nat /\ accepted[c] < MaxAccepted
    BY <1>2, MaxAcceptedAssumption DEF QueuePush, TypeOK, MainType
  <2>2. accepted[c] + 1 \in 1 .. MaxAccepted
    BY <2>1, MaxAcceptedAssumption
  <2>3. Len(Append(queue[c], accepted[c] + 1)) = Len(queue[c]) + 1
    BY <1>1, <2>2, AppendProperties
  <2>4. QED
    BY <1>1, <2>1, <2>3
<1>3. ASSUME WorkerPop(c)
      PROVE  /\ Len(queue'[c]) = Len(queue[c]) - 1
             /\ Len(queue[c]) > 0
             /\ \A d \in Conn : d # c => queue'[d] = queue[d]
  <2>1. queue' = [queue EXCEPT ![c] = Tail(queue[c])] /\ queue[c] # <<>>
    BY <1>3 DEF WorkerPop
  <2>2. Len(Tail(queue[c])) = Len(queue[c]) - 1 /\ Len(queue[c]) > 0
    BY <1>1, <2>1, HeadTailProperties, LenProperties, EmptySeq
  <2>3. QED
    BY <1>1, <2>1, <2>2
<1>4. QED
    BY <1>2, <1>3

\* Counting up and down is counting modulo the width of the counter.
LEMMA WrappedCount ==
    /\ \A n \in -1 .. Capacity : Increment(Wrapped(n)) = Wrapped(n + 1)
    /\ \A n \in 0 .. Capacity + 1 : Decrement(Wrapped(n)) = Wrapped(n - 1)
BY CapacityAssumption, UIntAssumption DEF Increment, Decrement, Wrapped

\* Only the push, the pop and the two updates move the counter or the load.
LEMMA CounterFrame ==
    ASSUME TypeOK, LifeInv, [Next]_vars,
           ~\E c \in Conn :
              QueuePush(c) \/ QueueCount(c) \/ WorkerPop(c) \/ WorkerCount(c)
    PROVE  /\ UNCHANGED <<queue, unprocessed>>
           /\ \A d \in Conn : Popped(d)' = Popped(d) /\ Uncounted(d)' = Uncounted(d)
<1> USE DEF Popped, Uncounted
<1>1. ASSUME NEW c \in Conn, Connect(c)
      PROVE  /\ UNCHANGED <<queue, unprocessed>>
             /\ \A d \in Conn : Popped(d)' = Popped(d) /\ Uncounted(d)' = Uncounted(d)
  <2>1. worker[c] = "none"
    BY <1>1 DEF Connect, LifeInv
  <2>2. QED
    BY <1>1, <2>1 DEF Connect, TypeOK, WorkerType
<1>2. ASSUME NEW c \in Conn,
             SetCharset(c) \/ Close(c) \/ QueueNotify(c) \/ CloseFlag(c)
             \/ CloseNotify(c) \/ CloseJoin(c)
      PROVE  /\ UNCHANGED <<queue, unprocessed>>
             /\ \A d \in Conn : Popped(d)' = Popped(d) /\ Uncounted(d)' = Uncounted(d)
    BY <1>2 DEF SetCharset, Close, QueueNotify, CloseFlag, CloseNotify,
                CloseJoin, NotifyOne, mainVars, workerVars, ScriptRuns, TypeOK,
                WorkerType, MainType
<1>3. ASSUME NEW c \in Conn,
             WorkerStep(c) \/ SpuriousWakeup(c) \/ WorkerDispatch(c),
             ~WorkerPop(c), ~WorkerCount(c)
      PROVE  /\ UNCHANGED <<queue, unprocessed>>
             /\ \A d \in Conn : Popped(d)' = Popped(d) /\ Uncounted(d)' = Uncounted(d)
    BY <1>3 DEF WorkerStep, SpuriousWakeup, WorkerDispatch, WorkerStart, WorkerTest,
                WorkerPark, WorkerResume, WorkerPopEmpty, WorkerExecute,
                WorkerExecuteFails, WorkerGetError, WorkerGoes, mainVars, TypeOK,
                WorkerType
<1>4. CASE ProcessStep
    BY <1>4 DEF ProcessStep, TickBegin, Callback, CallbackReturn, TickEnd, mainVars,
                workerVars
<1>5. CASE UNCHANGED vars
    BY <1>5 DEF vars
<1>6. QED
    BY <1>1, <1>2, <1>3, <1>4, <1>5 DEF Next, NativeStep

LEMMA CounterStep ==
    ASSUME TypeOK, LifeInv, CounterInv, [Next]_vars
    PROVE  CounterInv'
<1> DEFINE Load(c) == Len(queue[c]) + Popped(c) - Uncounted(c)
<1> DEFINE Inv(c) == unprocessed[c] = Wrapped(Load(c))
<1>0. \A c \in Conn :
          /\ Inv(c) /\ Len(queue[c]) \in 0 .. Capacity
          /\ Popped(c) \in {0, 1} /\ Uncounted(c) \in {0, 1}
    BY QueueLength DEF CounterInv, Popped, Uncounted
<1>1. ASSUME NEW c \in Conn, QueuePush(c) PROVE \A d \in Conn : Inv(d)'
  <2>1. /\ Uncounted(c) = 0 /\ Uncounted(c)' = 1
        /\ unprocessed' = unprocessed
        /\ \A d \in Conn : Popped(d)' = Popped(d)
        /\ \A d \in Conn : d # c => Uncounted(d)' = Uncounted(d)
    BY <1>1 DEF QueuePush, ScriptRuns, workerVars, Uncounted, Popped, TypeOK, MainType
  <2>2. \A d \in Conn : Load(d)' = Load(d)
    BY <1>0, <1>1, <2>1, QueueLengthStep DEF Popped
  <2>3. QED
    BY <1>0, <2>1, <2>2 DEF Wrapped
<1>2. ASSUME NEW c \in Conn, QueueCount(c) PROVE \A d \in Conn : Inv(d)'
  <2>1. /\ Uncounted(c) = 1 /\ Uncounted(c)' = 0
        /\ unprocessed' = [unprocessed EXCEPT ![c] = Increment(@)]
        /\ queue' = queue
        /\ \A d \in Conn : Popped(d)' = Popped(d)
        /\ \A d \in Conn : d # c => Uncounted(d)' = Uncounted(d)
    BY <1>2 DEF QueueCount, workerVars, Uncounted, Popped, TypeOK, MainType
  <2>2. Load(c) \in -1 .. Capacity /\ Load(c)' = Load(c) + 1
    <3>1. Popped(c)' = Popped(c) /\ queue'[c] = queue[c]
      BY <2>1
    <3>2. QED
      BY <1>0, <2>1, <3>1, CapacityAssumption
  <2>3. unprocessed'[c] = Wrapped(Load(c)')
    BY <1>0, <2>1, <2>2, WrappedCount DEF TypeOK, ConnectionType
  <2>4. \A d \in Conn : d # c => unprocessed'[d] = unprocessed[d] /\ Load(d)' = Load(d)
    BY <2>1 DEF TypeOK, ConnectionType
  <2>5. QED
    BY <1>0, <2>3, <2>4 DEF Wrapped
<1>3. ASSUME NEW c \in Conn, WorkerPop(c) PROVE \A d \in Conn : Inv(d)'
  <2>1. /\ Popped(c) = 0 /\ Popped(c)' = 1
        /\ unprocessed' = unprocessed
        /\ \A d \in Conn : Uncounted(d)' = Uncounted(d)
        /\ \A d \in Conn : d # c => Popped(d)' = Popped(d)
    BY <1>3 DEF WorkerPop, WorkerGoes, mainVars, Uncounted, Popped, TypeOK, WorkerType
  <2>2. \A d \in Conn : Load(d)' = Load(d)
    BY <1>0, <1>3, <2>1, QueueLengthStep DEF Uncounted
  <2>3. QED
    BY <1>0, <2>1, <2>2 DEF Wrapped
<1>4. ASSUME NEW c \in Conn, WorkerCount(c) PROVE \A d \in Conn : Inv(d)'
  <2>1. /\ Popped(c) = 1 /\ Popped(c)' = 0
        /\ unprocessed' = [unprocessed EXCEPT ![c] = Decrement(@)]
        /\ queue' = queue
        /\ \A d \in Conn : Uncounted(d)' = Uncounted(d)
        /\ \A d \in Conn : d # c => Popped(d)' = Popped(d)
    BY <1>4 DEF WorkerCount, WorkerGoes, mainVars, Uncounted, Popped, TypeOK, WorkerType
  <2>2. Load(c) \in 0 .. Capacity + 1 /\ Load(c)' = Load(c) - 1
    <3>1. Uncounted(c)' = Uncounted(c) /\ queue'[c] = queue[c]
      BY <2>1
    <3>2. QED
      BY <1>0, <2>1, <3>1, CapacityAssumption
  <2>3. unprocessed'[c] = Wrapped(Load(c)')
    BY <1>0, <2>1, <2>2, WrappedCount DEF TypeOK, ConnectionType
  <2>4. \A d \in Conn : d # c => unprocessed'[d] = unprocessed[d] /\ Load(d)' = Load(d)
    BY <2>1 DEF TypeOK, ConnectionType
  <2>5. QED
    BY <1>0, <2>3, <2>4 DEF Wrapped
<1>5. ASSUME UNCHANGED <<queue, unprocessed>>,
             \A d \in Conn : Popped(d)' = Popped(d) /\ Uncounted(d)' = Uncounted(d)
      PROVE  \A d \in Conn : Inv(d)'
  <2>1. \A d \in Conn : Load(d)' = Load(d) /\ unprocessed'[d] = unprocessed[d]
    BY <1>5
  <2>2. QED
    BY <1>0, <2>1 DEF Wrapped
<1>6. \A d \in Conn : Inv(d)'
  <2>1. CASE \E c \in Conn :
                QueuePush(c) \/ QueueCount(c) \/ WorkerPop(c) \/ WorkerCount(c)
    BY <2>1, <1>1, <1>2, <1>3, <1>4
  <2>2. CASE ~\E c \in Conn :
                 QueuePush(c) \/ QueueCount(c) \/ WorkerPop(c) \/ WorkerCount(c)
    BY <2>2, <1>5, CounterFrame
  <2>3. QED
    BY <2>1, <2>2
<1>7. QED
    BY <1>6 DEF CounterInv

\* The counter that mysql_unprocessed_queries reads is exact whenever script
\* code runs, although it may have wrapped below zero in between.
THEOREM UnprocessedCorrect == Spec => []UnprocessedIsExact
<1>1. Init => CounterInv
    BY DEF Init, CounterInv, Popped, Uncounted, Wrapped
<1>2. TypeOK /\ LifeInv /\ CounterInv /\ [Next]_vars => CounterInv'
    BY CounterStep
<1>3. TypeOK /\ CounterInv => UnprocessedIsExact
  <2> SUFFICES ASSUME TypeOK, CounterInv, ScriptRuns, NEW c \in Conn
               PROVE  unprocessed[c] = Len(queue[c]) + Popped(c)
    BY DEF UnprocessedIsExact, Popped
  <2>1. Uncounted(c) = 0 /\ Popped(c) \in {0, 1} /\ Len(queue[c]) \in Nat
    BY QueueLength, CapacityAssumption DEF ScriptRuns, Uncounted, Popped
  <2>2. QED
    BY <2>1 DEF CounterInv, Wrapped
<1>4. QED
    BY <1>1, <1>2, <1>3, TypeCorrect, LifeCorrect, PTL DEF Spec

-----------------------------------------------------------------------------
(***************************************************************************)
(* The number of completed queries only moves when a worker dispatches.    *)
(***************************************************************************)
LEMMA CompletedType ==
    ASSUME TypeOK, NEW c \in Conn
    PROVE  Completed(c) \in Int
BY QueueLength, MaxAcceptedAssumption, CapacityAssumption DEF Completed, TypeOK, MainType

LEMMA CompletedFrame ==
    ASSUME TypeOK, LifeInv, [Next]_vars, NEW c \in Conn, ~WorkerDispatch(c)
    PROVE  Completed(c)' = Completed(c)
<1>0. Len(queue[c]) \in Nat /\ accepted[c] \in Nat
    BY QueueLength, CapacityAssumption, MaxAcceptedAssumption DEF TypeOK, MainType
<1>1. ASSUME NEW d \in Conn, QueuePush(d) PROVE Completed(c)' = Completed(c)
  <2>1. HasQuery(c)' <=> HasQuery(c)
    BY <1>1 DEF QueuePush, workerVars, HasQuery
  <2>2. CASE d = c
    <3>1. accepted'[c] = accepted[c] + 1
      BY <1>1, <2>2 DEF QueuePush, TypeOK, MainType
    <3>2. Len(queue'[c]) = Len(queue[c]) + 1
      BY <1>1, <2>2, QueueLengthStep
    <3>3. QED
      BY <1>0, <2>1, <3>1, <3>2 DEF Completed
  <2>3. CASE d # c
    <3>1. accepted'[c] = accepted[c]
      BY <1>1, <2>3 DEF QueuePush, TypeOK, MainType
    <3>2. queue'[c] = queue[c]
      BY <1>1, <2>3, QueueLengthStep
    <3>3. QED
      BY <1>0, <2>1, <3>1, <3>2 DEF Completed
  <2>4. QED
    BY <2>2, <2>3
<1>2. ASSUME NEW d \in Conn, WorkerPop(d) PROVE Completed(c)' = Completed(c)
  <2>1. accepted' = accepted
    BY <1>2 DEF WorkerPop, WorkerGoes, mainVars
  <2>2. CASE d = c
    <3>1. ~HasQuery(c) /\ HasQuery(c)'
      BY <1>2, <2>2 DEF WorkerPop, WorkerGoes, HasQuery, TypeOK, WorkerType
    <3>2. Len(queue'[c]) = Len(queue[c]) - 1
      BY <1>2, <2>2, QueueLengthStep
    <3>3. QED
      BY <1>0, <2>1, <3>1, <3>2 DEF Completed
  <2>3. CASE d # c
    <3>1. HasQuery(c)' <=> HasQuery(c)
      BY <1>2, <2>3 DEF WorkerPop, WorkerGoes, HasQuery, TypeOK, WorkerType
    <3>2. queue'[c] = queue[c]
      BY <1>2, <2>3, QueueLengthStep
    <3>3. QED
      BY <1>0, <2>1, <3>1, <3>2 DEF Completed
  <2>4. QED
    BY <2>2, <2>3
<1>3. ASSUME accepted'[c] = accepted[c], queue' = queue, HasQuery(c)' <=> HasQuery(c)
      PROVE  Completed(c)' = Completed(c)
    BY <1>3 DEF Completed
<1>4. ASSUME NEW d \in Conn, Connect(d) PROVE Completed(c)' = Completed(c)
  <2>1. worker[d] = "none"
    BY <1>4 DEF Connect, LifeInv
  <2>2. QED
    BY <1>3, <1>4, <2>1 DEF Connect, HasQuery, TypeOK, WorkerType
<1>5. ASSUME NEW d \in Conn,
             \/ SetCharset(d) \/ Close(d) \/ QueueCount(d) \/ QueueNotify(d)
             \/ CloseFlag(d) \/ CloseNotify(d) \/ CloseJoin(d)
      PROVE  Completed(c)' = Completed(c)
    BY <1>3, <1>5 DEF SetCharset, Close, QueueCount, QueueNotify, CloseFlag,
                      CloseNotify, CloseJoin, NotifyOne, mainVars, workerVars,
                      HasQuery, TypeOK, WorkerType
<1>6. ASSUME NEW d \in Conn,
             WorkerStep(d) \/ SpuriousWakeup(d) \/ WorkerDispatch(d), ~WorkerPop(d)
      PROVE  Completed(c)' = Completed(c)
  <2>1. HasQuery(c)' <=> HasQuery(c)
    BY <1>6 DEF WorkerStep, SpuriousWakeup, WorkerDispatch, WorkerStart, WorkerTest,
                WorkerPark, WorkerResume, WorkerPopEmpty, WorkerExecute,
                WorkerExecuteFails, WorkerGetError, WorkerCount, WorkerGoes,
                HasQuery, TypeOK, WorkerType
  <2>2. accepted' = accepted /\ queue' = queue
    BY <1>6 DEF WorkerStep, SpuriousWakeup, WorkerDispatch, WorkerStart, WorkerTest,
                WorkerPark, WorkerResume, WorkerPopEmpty, WorkerExecute,
                WorkerExecuteFails, WorkerGetError, WorkerCount, WorkerGoes, mainVars
  <2>3. QED
    BY <1>3, <2>1, <2>2
<1>7. CASE ProcessStep
    BY <1>3, <1>7 DEF ProcessStep, TickBegin, Callback, CallbackReturn, TickEnd,
                      mainVars, workerVars, HasQuery
<1>8. CASE UNCHANGED vars
    BY <1>3, <1>8 DEF vars, HasQuery
<1>9. QED
    BY <1>1, <1>2, <1>4, <1>5, <1>6, <1>7, <1>8 DEF Next, NativeStep

LEMMA CompletedDispatch ==
    ASSUME TypeOK, NEW c \in Conn, WorkerDispatch(c)
    PROVE  /\ HasQuery(c)
           /\ Completed(c)' = Completed(c) + 1
           /\ \A d \in Conn : d # c => ~WorkerDispatch(d)
<1>1. /\ HasQuery(c) /\ ~HasQuery(c)'
      /\ worker[c] = "dispatching" /\ worker'[c] = "popping"
      /\ accepted' = accepted /\ queue' = queue
    BY DEF WorkerDispatch, WorkerGoes, mainVars, HasQuery, TypeOK, WorkerType
<1>2. Len(queue[c]) \in Nat /\ accepted[c] \in Nat
    BY QueueLength, CapacityAssumption, MaxAcceptedAssumption DEF TypeOK, MainType
<1>3. ASSUME NEW d \in Conn, d # c PROVE ~WorkerDispatch(d)
    BY <1>1, <1>3 DEF WorkerDispatch, WorkerGoes, TypeOK, WorkerType
<1>4. QED
    BY <1>1, <1>2, <1>3 DEF Completed
-----------------------------------------------------------------------------
(***************************************************************************)
(* m_Queue holds consecutive queries.                                      *)
(***************************************************************************)

\* The queue holds the last accepted queries in order, and the worker has the
\* one before them in its hands.
QueueInv ==
    \A c \in Conn :
       /\ \A i \in 1 .. Len(queue[c]) : queue[c][i] = accepted[c] - Len(queue[c]) + i
       /\ HasQuery(c) => query[c] = Completed(c) + 1

LEMMA QueryFrame ==
    ASSUME TypeOK, LifeInv, [Next]_vars,
           ~\E d \in Conn : QueuePush(d) \/ WorkerPop(d) \/ WorkerDispatch(d)
    PROVE  /\ UNCHANGED <<queue, accepted, query>>
           /\ \A c \in Conn : HasQuery(c)' <=> HasQuery(c)
<1> DEFINE Same == /\ UNCHANGED <<queue, accepted, query>>
                   /\ \A c \in Conn : HasQuery(c)' <=> HasQuery(c)
<1>1. ASSUME NEW d \in Conn, Connect(d) PROVE Same
  <2>1. worker[d] = "none"
    BY <1>1 DEF Connect, LifeInv
  <2>2. QED
    BY <1>1, <2>1 DEF Connect, HasQuery, TypeOK, WorkerType
<1>2. ASSUME NEW d \in Conn,
             \/ SetCharset(d) \/ Close(d) \/ QueueCount(d) \/ QueueNotify(d)
             \/ CloseFlag(d) \/ CloseNotify(d) \/ CloseJoin(d)
      PROVE  Same
    BY <1>2 DEF SetCharset, Close, QueueCount, QueueNotify, CloseFlag, CloseNotify,
                CloseJoin, NotifyOne, mainVars, workerVars, HasQuery, TypeOK,
                WorkerType
<1>3. ASSUME NEW d \in Conn, WorkerStep(d) \/ SpuriousWakeup(d), ~WorkerPop(d)
      PROVE  Same
    BY <1>3 DEF WorkerStep, SpuriousWakeup, WorkerStart, WorkerTest, WorkerPark,
                WorkerResume, WorkerPopEmpty, WorkerExecute, WorkerExecuteFails,
                WorkerGetError, WorkerCount, WorkerGoes, mainVars, HasQuery, TypeOK,
                WorkerType
<1>4. CASE ProcessStep
    BY <1>4 DEF ProcessStep, TickBegin, Callback, CallbackReturn, TickEnd, mainVars,
                workerVars, HasQuery
<1>5. CASE UNCHANGED vars
    BY <1>5 DEF vars, HasQuery
<1>6. QED
    BY <1>1, <1>2, <1>3, <1>4, <1>5 DEF Next, NativeStep

LEMMA QueueStep ==
    ASSUME TypeOK, LifeInv, QueueInv, [Next]_vars
    PROVE  QueueInv'
<1> DEFINE Consecutive(q, last) ==
              \A i \in 1 .. Len(q) : q[i] = last - Len(q) + i
           Mine(c) == HasQuery(c) => query[c] = Completed(c) + 1
<1>0. \A c \in Conn :
         /\ queue[c] \in Seq(1 .. MaxAccepted) /\ accepted[c] \in Nat
         /\ Consecutive(queue[c], accepted[c]) /\ Mine(c)
         /\ Len(queue[c]) \in Nat
    BY LenProperties, MaxAcceptedAssumption DEF QueueInv, TypeOK, QueueType, MainType
<1>1. ASSUME NEW d \in Conn, QueuePush(d), NEW c \in Conn
      PROVE  Consecutive(queue[c], accepted[c])' /\ Mine(c)'
  <2>1. (HasQuery(c)' <=> HasQuery(c)) /\ query' = query
    BY <1>1 DEF QueuePush, workerVars, HasQuery
  <2>2. Completed(c)' = Completed(c)
    <3>1. ~WorkerDispatch(c)
      BY <1>1 DEF QueuePush, WorkerDispatch, WorkerGoes, workerVars, TypeOK, WorkerType
    <3>2. QED
      BY <1>1, <3>1, CompletedFrame
  <2>3. CASE d = c
    <3>1. /\ accepted'[c] = accepted[c] + 1
          /\ queue'[c] = Append(queue[c], accepted[c] + 1)
      BY <1>1, <2>3 DEF QueuePush, TypeOK, MainType, QueueType
    <3>2. accepted[c] + 1 \in 1 .. MaxAccepted
      BY <1>0, <1>1, <2>3, MaxAcceptedAssumption DEF QueuePush
    <3>3. /\ Len(queue'[c]) = Len(queue[c]) + 1
          /\ \A i \in 1 .. Len(queue[c]) : queue'[c][i] = queue[c][i]
          /\ queue'[c][Len(queue[c]) + 1] = accepted[c] + 1
      BY <1>0, <3>1, <3>2, AppendProperties
    <3>4. Consecutive(queue'[c], accepted'[c])
      <4> TAKE i \in 1 .. Len(queue'[c])
      <4>1. CASE i = Len(queue[c]) + 1
        BY <1>0, <3>1, <3>3, <4>1
      <4>2. CASE i \in 1 .. Len(queue[c])
        <5>1. queue[c][i] = accepted[c] - Len(queue[c]) + i
          BY <1>0, <4>2
        <5>2. queue'[c][i] = queue[c][i]
          BY <3>3, <4>2
        <5>3. accepted'[c] - Len(queue'[c]) = accepted[c] - Len(queue[c])
          <6>1. accepted[c] \in Nat /\ Len(queue[c]) \in Nat
            BY <1>0
          <6>2. accepted'[c] = accepted[c] + 1 /\ Len(queue'[c]) = Len(queue[c]) + 1
            BY <3>1, <3>3
          <6>3. QED
            BY ONLY <6>1, <6>2
        <5>4. QED
          BY <5>1, <5>2, <5>3
      <4>3. QED
        BY <1>0, <3>3, <4>1, <4>2
    <3>5. QED
      BY <1>0, <2>1, <2>2, <3>4
  <2>4. CASE d # c
    <3>1. accepted'[c] = accepted[c] /\ queue'[c] = queue[c]
      BY <1>1, <2>4, QueueLengthStep DEF QueuePush, TypeOK, MainType
    <3>2. QED
      BY <1>0, <2>1, <2>2, <3>1
  <2>5. QED
    BY <2>3, <2>4
<1>2. ASSUME NEW d \in Conn, WorkerPop(d), NEW c \in Conn
      PROVE  Consecutive(queue[c], accepted[c])' /\ Mine(c)'
  <2>1. accepted' = accepted
    BY <1>2 DEF WorkerPop, WorkerGoes, mainVars
  <2>2. Completed(c)' = Completed(c)
    <3>1. ~WorkerDispatch(c)
      BY <1>2 DEF WorkerPop, WorkerDispatch, WorkerGoes, TypeOK, WorkerType
    <3>2. QED
      BY <1>2, <3>1, CompletedFrame
  <2>3. CASE d = c
    <3>1. /\ queue'[c] = Tail(queue[c]) /\ queue[c] # <<>>
          /\ query'[c] = Head(queue[c]) /\ ~HasQuery(c)
      BY <1>2, <2>3
      DEF WorkerPop, WorkerGoes, HasQuery, TypeOK, WorkerType, QueueType
    <3>2. /\ Len(queue'[c]) = Len(queue[c]) - 1 /\ Len(queue[c]) > 0
          /\ \A i \in 1 .. Len(queue'[c]) : queue'[c][i] = queue[c][i + 1]
          /\ query'[c] = queue[c][1]
      BY <1>0, <3>1, HeadTailProperties, EmptySeq
    <3>3. Consecutive(queue'[c], accepted'[c])
      <4> TAKE i \in 1 .. Len(queue'[c])
      <4>1. i + 1 \in 1 .. Len(queue[c])
        BY <1>0, <3>2
      <4>2. queue[c][i + 1] = accepted[c] - Len(queue[c]) + (i + 1)
        BY <1>0, <4>1
      <4>3. queue'[c][i] = queue[c][i + 1]
        BY <3>2
      <4>4. accepted[c] - Len(queue[c]) + (i + 1) = accepted'[c] - Len(queue'[c]) + i
        BY <1>0, <2>1, <3>2
      <4>5. QED
        BY <4>2, <4>3, <4>4
    <3>4. query'[c] = Completed(c) + 1
      <4>1. queue[c][1] = accepted[c] - Len(queue[c]) + 1
        BY <1>0, <3>2
      <4>2. QED
        BY <1>0, <3>1, <3>2, <4>1 DEF Completed
    <3>5. QED
      BY <2>2, <3>3, <3>4
  <2>4. CASE d # c
    <3>1. queue'[c] = queue[c]
      BY <1>2, <2>4, QueueLengthStep
    <3>2. (HasQuery(c)' <=> HasQuery(c)) /\ query'[c] = query[c]
      BY <1>2, <2>4 DEF WorkerPop, WorkerGoes, HasQuery, TypeOK, WorkerType
    <3>3. QED
      BY <1>0, <2>1, <2>2, <3>1, <3>2
  <2>5. QED
    BY <2>3, <2>4
<1>3. ASSUME NEW d \in Conn, WorkerDispatch(d), NEW c \in Conn
      PROVE  Consecutive(queue[c], accepted[c])' /\ Mine(c)'
  <2>1. accepted' = accepted /\ queue' = queue
    BY <1>3 DEF WorkerDispatch, WorkerGoes, mainVars
  <2>2. Mine(c)'
    <3>1. CASE d = c
      BY <1>3, <3>1 DEF WorkerDispatch, WorkerGoes, HasQuery, TypeOK, WorkerType
    <3>2. CASE d # c
      <4>1. Completed(c)' = Completed(c)
        BY <1>3, <3>2, CompletedDispatch, CompletedFrame
      <4>2. (HasQuery(c)' <=> HasQuery(c)) /\ query'[c] = query[c]
        BY <1>3, <3>2 DEF WorkerDispatch, WorkerGoes, HasQuery, TypeOK, WorkerType
      <4>3. QED
        BY <1>0, <4>1, <4>2
    <3>3. QED
      BY <3>1, <3>2
  <2>3. QED
    BY <1>0, <2>1, <2>2
<1>4. ASSUME ~\E d \in Conn : QueuePush(d) \/ WorkerPop(d) \/ WorkerDispatch(d),
             NEW c \in Conn
      PROVE  Consecutive(queue[c], accepted[c])' /\ Mine(c)'
  <2>1. /\ UNCHANGED <<queue, accepted, query>>
        /\ HasQuery(c)' <=> HasQuery(c)
    BY <1>4, QueryFrame
  <2>2. Completed(c)' = Completed(c)
    BY <2>1 DEF Completed
  <2>3. QED
    BY <1>0, <2>1, <2>2
<1>5. \A c \in Conn : Consecutive(queue[c], accepted[c])' /\ Mine(c)'
    BY <1>1, <1>2, <1>3, <1>4
<1>6. QED
    BY <1>5 DEF QueueInv
-----------------------------------------------------------------------------
(***************************************************************************)
(* The callbacks that wait, as a statement about a sequence s of entries   *)
(* and two functions: how many queries of each connection are answered     *)
(* (ans) and completed (com).                                              *)
(***************************************************************************)
Ordered(s, ans, com) ==
    /\ \A c \in Conn : ans[c] <= com[c]
    /\ \A i \in 1 .. Len(s) : s[i].num \in ans[s[i].conn] + 1 .. com[s[i].conn]
    /\ \A i, j \in 1 .. Len(s) :
          (i < j /\ s[i].conn = s[j].conn) => s[i].num < s[j].num
    /\ \A c \in Conn : \A n \in ans[c] + 1 .. com[c] :
          \E i \in 1 .. Len(s) : s[i].conn = c /\ s[i].num = n

\* Completing the next query of c and appending it keeps the order.
LEMMA OrderedAppend ==
    ASSUME NEW s \in Seq(Entry), NEW ans \in [Conn -> Nat], NEW com \in [Conn -> Int],
           NEW c \in Conn, NEW e \in Entry, e.conn = c, e.num = com[c] + 1,
           Ordered(s, ans, com)
    PROVE  Ordered(Append(s, e), ans, [com EXCEPT ![c] = com[c] + 1])
<1> DEFINE t == Append(s, e)
           com2 == [com EXCEPT ![c] = com[c] + 1]
<1>1. /\ Len(s) \in Nat /\ Len(t) = Len(s) + 1
      /\ \A i \in 1 .. Len(s) : t[i] = s[i]
      /\ t[Len(s) + 1] = e
    BY AppendProperties, LenProperties
<1>2. /\ \A i \in 1 .. Len(s) : s[i] \in Entry
      /\ \A d \in Conn : ans[d] \in Nat /\ com[d] \in Int
    BY ElementOfSeq
<1>3. com2[c] = com[c] + 1 /\ \A d \in Conn : d # c => com2[d] = com[d]
    OBVIOUS
<1>4. \A d \in Conn : com[d] <= com2[d] /\ com2[d] \in Int
    BY <1>2, <1>3
<1>5. \A d \in Conn : ans[d] <= com[d]
    BY DEF Ordered
<1>6. e \in Entry /\ e.conn = c /\ e.num = com[c] + 1
    OBVIOUS
<1> HIDE DEF t, com2
<1>7. \A d \in Conn : ans[d] <= com2[d]
    BY <1>2, <1>4, <1>5
<1>8. ASSUME NEW i \in 1 .. Len(t)
      PROVE  t[i].num \in ans[t[i].conn] + 1 .. com2[t[i].conn]
  <2>1. CASE i \in 1 .. Len(s)
    <3>1. /\ s[i].conn \in Conn /\ s[i].num \in Int
          /\ s[i].num \in ans[s[i].conn] + 1 .. com[s[i].conn]
      BY <1>2, <2>1, MaxAcceptedAssumption DEF Ordered, Entry
    <3>2. QED
      BY <1>1, <1>2, <1>4, <2>1, <3>1
  <2>2. CASE i = Len(s) + 1
    BY <1>1, <1>2, <1>3, <1>5, <1>6, <2>2
  <2>3. QED
    BY <1>1, <2>1, <2>2
<1>9. ASSUME NEW i \in 1 .. Len(t), NEW j \in 1 .. Len(t), i < j,
             t[i].conn = t[j].conn
      PROVE  t[i].num < t[j].num
  <2>1. i \in 1 .. Len(s) /\ t[i] = s[i]
    BY <1>1, <1>9
  <2>2. CASE j \in 1 .. Len(s)
    BY <1>1, <1>9, <2>1, <2>2 DEF Ordered
  <2>3. CASE j = Len(s) + 1
    <3>1. s[i].conn = c /\ s[i].num \in ans[c] + 1 .. com[c]
      BY <1>1, <1>6, <1>9, <2>1, <2>3 DEF Ordered
    <3>2. QED
      BY <1>1, <1>2, <1>6, <2>1, <2>3, <3>1
  <2>4. QED
    BY <1>1, <2>2, <2>3
<1>10. ASSUME NEW d \in Conn, NEW n \in ans[d] + 1 .. com2[d]
       PROVE  \E i \in 1 .. Len(t) : t[i].conn = d /\ t[i].num = n
  <2>1. CASE n \in ans[d] + 1 .. com[d]
    <3>1. PICK i \in 1 .. Len(s) : s[i].conn = d /\ s[i].num = n
      BY <2>1 DEF Ordered
    <3>2. i \in 1 .. Len(t) /\ t[i] = s[i]
      BY <1>1
    <3>3. QED
      BY <3>1, <3>2
  <2>2. CASE d = c /\ n = com[c] + 1
    <3>1. Len(s) + 1 \in 1 .. Len(t)
      BY <1>1
    <3>2. QED
      BY <1>1, <1>6, <2>2, <3>1
  <2>3. QED
    BY <1>2, <1>3, <2>1, <2>2
<1>11. QED
    BY <1>7, <1>8, <1>9, <1>10 DEF Ordered, t, com2

\* The entry at the front is the first unanswered query of its connection,
\* and answering it keeps the order.
LEMMA OrderedTail ==
    ASSUME NEW s \in Seq(Entry), NEW ans \in [Conn -> Nat], NEW com \in [Conn -> Int],
           s # <<>>, Ordered(s, ans, com)
    PROVE  /\ Head(s).conn \in Conn
           /\ Head(s).num = ans[Head(s).conn] + 1
           /\ Ordered(Tail(s), [ans EXCEPT ![Head(s).conn] = ans[Head(s).conn] + 1], com)
<1> DEFINE t == Tail(s)
           c == s[1].conn
           ans2 == [ans EXCEPT ![c] = ans[c] + 1]
<1>1. /\ Len(s) \in Nat /\ Len(s) > 0 /\ Len(t) = Len(s) - 1 /\ Head(s) = s[1]
      /\ \A i \in 1 .. Len(t) : t[i] = s[i + 1]
    BY HeadTailProperties, LenProperties, EmptySeq
<1>2. /\ \A i \in 1 .. Len(s) : s[i] \in Entry
      /\ \A d \in Conn : ans[d] \in Nat /\ com[d] \in Int
    BY ElementOfSeq
<1>3. \A i \in 1 .. Len(s) : s[i].conn \in Conn /\ s[i].num \in Int
    BY <1>2, MaxAcceptedAssumption DEF Entry
<1>4. /\ 1 \in 1 .. Len(s) /\ c \in Conn /\ s[1].num \in Int
      /\ s[1].num \in ans[c] + 1 .. com[c]
    BY <1>1, <1>3 DEF Ordered
<1>5. ans2[c] = ans[c] + 1 /\ \A d \in Conn : d # c => ans2[d] = ans[d]
    BY <1>4
<1>6. s[1].num = ans[c] + 1
  <2>1. ans[c] + 1 \in ans[c] + 1 .. com[c]
    BY <1>2, <1>4
  <2>2. PICK i \in 1 .. Len(s) : s[i].conn = c /\ s[i].num = ans[c] + 1
    BY <1>4, <2>1 DEF Ordered
  <2>3. i # 1 => s[1].num < s[i].num
    <3>1. i # 1 => 1 < i
      BY <1>1
    <3>2. QED
      BY <1>4, <2>2, <3>1 DEF Ordered
  <2>4. QED
    BY <1>2, <1>4, <2>2, <2>3
<1> HIDE DEF t, c, ans2
<1>7. \A d \in Conn : ans2[d] <= com[d]
  <2>1. ans2[c] <= com[c]
    BY <1>2, <1>4, <1>5, <1>6
  <2>2. \A d \in Conn : d # c => ans2[d] <= com[d]
    BY <1>5 DEF Ordered
  <2>3. QED
    BY <2>1, <2>2
<1>8. ASSUME NEW i \in 1 .. Len(t)
      PROVE  t[i].num \in ans2[t[i].conn] + 1 .. com[t[i].conn]
  <2>1. i + 1 \in 1 .. Len(s) /\ t[i] = s[i + 1] /\ 1 < i + 1
    BY <1>1
  <2>2. /\ s[i + 1].conn \in Conn /\ s[i + 1].num \in Int
        /\ s[i + 1].num \in ans[s[i + 1].conn] + 1 .. com[s[i + 1].conn]
    BY <1>3, <2>1 DEF Ordered
  <2>3. CASE s[i + 1].conn = c
    <3>1. s[1].num < s[i + 1].num
      BY <1>4, <2>1, <2>3 DEF Ordered, c
    <3>2. QED
      BY <1>2, <1>4, <1>5, <1>6, <2>1, <2>2, <2>3, <3>1
  <2>4. CASE s[i + 1].conn # c
    BY <1>5, <2>1, <2>2, <2>4
  <2>5. QED
    BY <2>3, <2>4
<1>9. ASSUME NEW i \in 1 .. Len(t), NEW j \in 1 .. Len(t), i < j,
             t[i].conn = t[j].conn
      PROVE  t[i].num < t[j].num
  <2>1. /\ i + 1 \in 1 .. Len(s) /\ j + 1 \in 1 .. Len(s) /\ i + 1 < j + 1
        /\ t[i] = s[i + 1] /\ t[j] = s[j + 1]
    BY <1>1, <1>9
  <2>2. QED
    BY <1>9, <2>1 DEF Ordered
<1>10. ASSUME NEW d \in Conn, NEW n \in ans2[d] + 1 .. com[d]
       PROVE  \E i \in 1 .. Len(t) : t[i].conn = d /\ t[i].num = n
  <2>1. n \in ans[d] + 1 .. com[d] /\ (d = c => n # s[1].num)
    BY <1>2, <1>5, <1>6
  <2>2. PICK i \in 1 .. Len(s) : s[i].conn = d /\ s[i].num = n
    BY <2>1 DEF Ordered
  <2>3. i # 1
    BY <2>1, <2>2 DEF c
  <2>4. i - 1 \in 1 .. Len(t) /\ t[i - 1] = s[i]
    BY <1>1, <2>3
  <2>5. QED
    BY <2>2, <2>4
<1>11. Ordered(t, ans2, com)
    BY <1>7, <1>8, <1>9, <1>10 DEF Ordered
<1>12. QED
    BY <1>1, <1>4, <1>6, <1>11 DEF t, c, ans2
-----------------------------------------------------------------------------
(***************************************************************************)
(* The callbacks of ThreadedConnection are ordered.                        *)
(***************************************************************************)
Com == [c \in Conn |-> Completed(c)]

ReadyInv == Ordered(dispatched, answered, Com)

LEMMA ReadyTypes ==
    ASSUME TypeOK
    PROVE  /\ dispatched \in Seq(Entry)
           /\ answered \in [Conn -> Nat]
           /\ Com \in [Conn -> Int]
BY CompletedType DEF TypeOK, DispatcherType, MainType, Entry, Com

LEMMA AnsweredFrame ==
    ASSUME [Next]_vars, ~CallbackReturn, ~\E c \in Conn : WorkerDispatch(c)
    PROVE  UNCHANGED <<dispatched, answered>>
BY DEF Next, NativeStep, ProcessStep, WorkerStep, vars, Connect, SetCharset, Close,
       QueuePush, QueueCount, QueueNotify, CloseNotify, CloseJoin, CloseFlag,
       WorkerStart, WorkerTest, WorkerPark, SpuriousWakeup, WorkerResume, WorkerPop,
       WorkerPopEmpty, WorkerExecute, WorkerExecuteFails, WorkerGetError,
       WorkerCount, WorkerGoes, dispatcherVars, TickBegin, ProcessBegin, Callback,
       CallFront, TickEnd, ProcessEnd

\* What a dispatch does to the three.
LEMMA DispatchEffect ==
    ASSUME TypeOK, LifeInv, QueueInv, [Next]_vars, NEW c \in Conn, WorkerDispatch(c)
    PROVE  \E e \in Entry :
              /\ e.conn = c /\ e.num = Com[c] + 1
              /\ dispatched' = Append(dispatched, e)
              /\ answered' = answered
              /\ Com' = [Com EXCEPT ![c] = Com[c] + 1]
<1> DEFINE e == [conn |-> c, num |-> query[c],
                 ok |-> func[c].ok, error |-> func[c].error]
<1>1. e \in Entry /\ e.conn = c /\ e.num = query[c]
    BY DEF TypeOK, WorkerType, Entry
<1>2. dispatched' = Append(dispatched, e) /\ answered' = answered
    BY DEF WorkerDispatch, Dispatch, WorkerGoes
<1>3. query[c] = Com[c] + 1
    BY CompletedDispatch DEF QueueInv, Com
<1>4. Com' = [Com EXCEPT ![c] = Com[c] + 1]
  <2>1. Completed(c)' = Completed(c) + 1
    BY CompletedDispatch
  <2>2. \A d \in Conn : d # c => Completed(d)' = Completed(d)
    BY CompletedDispatch, CompletedFrame
  <2>3. QED
    BY <2>1, <2>2 DEF Com
<1>5. QED
    BY <1>1, <1>2, <1>3, <1>4

\* What any other step leaves alone.
LEMMA ComFrame ==
    ASSUME TypeOK, LifeInv, [Next]_vars, ~\E c \in Conn : WorkerDispatch(c)
    PROVE  Com' = Com
<1>1. \A c \in Conn : Completed(c)' = Completed(c)
    BY CompletedFrame
<1>2. QED
    BY <1>1 DEF Com

\* What the return of a callback does.
LEMMA ReturnEffect ==
    ASSUME TypeOK, LifeInv, ReadyInv, [Next]_vars, CallbackReturn
    PROVE  /\ dispatched # <<>>
           /\ Head(dispatched).conn \in Conn
           /\ Head(dispatched).num = answered[Head(dispatched).conn] + 1
           /\ dispatched' = Tail(dispatched)
           /\ answered' = [answered EXCEPT ![Head(dispatched).conn] =
                              answered[Head(dispatched).conn] + 1]
           /\ Com' = Com
           /\ ReadyInv'
<1>1. /\ dispatched # <<>>
      /\ dispatched' = Tail(dispatched)
      /\ answered' = [answered EXCEPT ![Head(dispatched).conn] =
                         answered[Head(dispatched).conn] + 1]
    BY DEF CallbackReturn, PopFront, TypeOK, DispatcherType
<1>2. Com' = Com
  <2>1. ASSUME NEW c \in Conn PROVE ~WorkerDispatch(c)
    BY DEF CallbackReturn, PopFront, WorkerDispatch, Dispatch, QueueMtxFree
  <2>2. QED
    BY <2>1, ComFrame
<1>3. /\ Head(dispatched).conn \in Conn
      /\ Head(dispatched).num = answered[Head(dispatched).conn] + 1
      /\ Ordered(Tail(dispatched),
                 [answered EXCEPT ![Head(dispatched).conn] =
                     answered[Head(dispatched).conn] + 1], Com)
    BY <1>1, ReadyTypes, OrderedTail DEF ReadyInv
<1>4. Ordered(dispatched', answered', Com')
    BY <1>1, <1>2, <1>3
<1>5. QED
    BY <1>1, <1>2, <1>3, <1>4 DEF ReadyInv

LEMMA ReadyStep ==
    ASSUME TypeOK, LifeInv, QueueInv, ReadyInv, [Next]_vars
    PROVE  ReadyInv'
<1>1. ASSUME NEW c \in Conn, WorkerDispatch(c) PROVE ReadyInv'
  <2>1. PICK e \in Entry : /\ e.conn = c /\ e.num = Com[c] + 1
                           /\ dispatched' = Append(dispatched, e)
                           /\ answered' = answered
                           /\ Com' = [Com EXCEPT ![c] = Com[c] + 1]
    BY <1>1, DispatchEffect
  <2>2. Ordered(Append(dispatched, e), answered, [Com EXCEPT ![c] = Com[c] + 1])
    BY <2>1, ReadyTypes, OrderedAppend DEF ReadyInv
  <2>3. Ordered(dispatched', answered', Com')
    BY <2>1, <2>2
  <2>4. QED
    BY <2>3 DEF ReadyInv
<1>2. CASE CallbackReturn
    BY <1>2, ReturnEffect
<1>3. CASE ~CallbackReturn /\ ~\E c \in Conn : WorkerDispatch(c)
  <2>1. dispatched' = dispatched /\ answered' = answered /\ Com' = Com
    BY <1>3, AnsweredFrame, ComFrame
  <2>2. Ordered(dispatched', answered', Com')
    BY <2>1 DEF ReadyInv
  <2>3. QED
    BY <2>2 DEF ReadyInv
<1>4. QED
    BY <1>1, <1>2, <1>3

LEMMA InitOrder == Init => QueueInv /\ ReadyInv
<1> SUFFICES ASSUME Init PROVE QueueInv /\ ReadyInv
    OBVIOUS
<1>1. \A c \in Conn : Completed(c) = 0 /\ queue[c] = <<>> /\ ~HasQuery(c)
    BY DEF Init, Completed, HasQuery
<1>2. QueueInv
    BY <1>1 DEF QueueInv
<1>3. /\ dispatched = <<>> /\ \A c \in Conn : answered[c] = 0 /\ Com[c] = 0
    BY <1>1 DEF Init, DispatcherInit, Com
<1>4. ReadyInv
    BY <1>3 DEF ReadyInv, Ordered
<1>5. QED
    BY <1>2, <1>4

\* The invariants of the queues, in every reachable state.
THEOREM OrderCorrect == Spec => [](QueueInv /\ ReadyInv)
<1>1. TypeOK /\ LifeInv /\ QueueInv /\ ReadyInv /\ [Next]_vars
         => QueueInv' /\ ReadyInv'
    BY QueueStep, ReadyStep
<1>2. QED
    BY InitOrder, <1>1, TypeCorrect, LifeCorrect, PTL DEF Spec

\* The callbacks that wait are those of the completed and unanswered queries,
\* each once, and connection by connection in the order of acceptance.
THEOREM ReadyCorrect == Spec => []ReadyInOrder
<1>1. TypeOK /\ ReadyInv => ReadyInOrder
  <2> SUFFICES ASSUME TypeOK, ReadyInv PROVE ReadyInOrder
    OBVIOUS
  <2>1. \A i \in 1 .. Len(dispatched) : dispatched[i].conn \in Conn
    <3>1. \A i \in 1 .. Len(dispatched) : dispatched[i] \in Entry
      BY ReadyTypes, ElementOfSeq
    <3>2. QED
      BY <3>1 DEF Entry
  <2>2. \A c \in Conn : Com[c] = Completed(c)
    BY DEF Com
  <2>3. QED
    BY <2>1, <2>2 DEF ReadyInv, Ordered, ReadyInOrder
<1>2. QED
    BY <1>1, OrderCorrect, TypeCorrect, PTL
-----------------------------------------------------------------------------
(***************************************************************************)
(* ThreadedConnection implements QueryDelivery: Connect opens, QueuePush   *)
(* accepts, WorkerDispatch completes, CallbackReturn delivers, Close       *)
(* closes, and every other step changes nothing a script could observe.    *)
(***************************************************************************)
LEMMA HandleFrame ==
    ASSUME [Next]_vars,
           ~\E c \in Conn : Connect(c) \/ QueuePush(c) \/ Close(c)
    PROVE  UNCHANGED <<handle, accepted>>
BY DEF Next, NativeStep, ProcessStep, WorkerStep, vars, SetCharset, QueueCount,
       QueueNotify, CloseNotify, CloseJoin, CloseFlag, WorkerStart, WorkerTest,
       WorkerPark, SpuriousWakeup, WorkerResume, WorkerPop, WorkerPopEmpty,
       WorkerExecute, WorkerExecuteFails, WorkerGetError, WorkerCount,
       WorkerDispatch, WorkerGoes, TickBegin, Callback, CallbackReturn, TickEnd,
       mainVars

LEMMA DeliveryStep ==
    ASSUME TypeOK, LifeInv, QueueInv, ReadyInv, [Next]_vars
    PROVE  Delivery!Next \/ UNCHANGED <<handle, accepted, Com, answered, dispatched>>
<1>1. ASSUME NEW c \in Conn, Connect(c) \/ QueuePush(c) \/ Close(c)
      PROVE  Delivery!Next
  <2>1. /\ ~CallbackReturn
        /\ ~\E d \in Conn : WorkerDispatch(d)
    <3>1. ASSUME NEW d \in Conn PROVE ~WorkerDispatch(d)
      BY <1>1 DEF Connect, QueuePush, Close, WorkerDispatch, Dispatch, dispatcherVars,
                  WorkerGoes, workerVars, TypeOK, WorkerType, LifeInv
    <3>2. ~CallbackReturn
      BY <1>1 DEF Connect, QueuePush, Close, CallbackReturn, PopFront, dispatcherVars
    <3>3. QED
      BY <3>1, <3>2
  <2>2. dispatched' = dispatched /\ answered' = answered /\ Com' = Com
    BY <2>1, AnsweredFrame, ComFrame
  <2>3. CASE Connect(c)
    BY <2>2, <2>3 DEF Delivery!Next, Delivery!Open, Connect, Com
  <2>4. CASE QueuePush(c)
    BY <2>2, <2>4 DEF Delivery!Next, Delivery!Accept, QueuePush, Com
  <2>5. CASE Close(c)
    BY <2>2, <2>5 DEF Delivery!Next, Delivery!Close, Close, Com
  <2>6. QED
    BY <1>1, <2>3, <2>4, <2>5
<1>2. ASSUME NEW c \in Conn, WorkerDispatch(c) PROVE Delivery!Next
  <2>1. PICK e \in Entry : /\ e.conn = c /\ e.num = Com[c] + 1
                           /\ dispatched' = Append(dispatched, e)
                           /\ answered' = answered
                           /\ Com' = [Com EXCEPT ![c] = Com[c] + 1]
    BY <1>2, DispatchEffect
  <2>2. /\ e = [conn |-> c, num |-> Com[c] + 1, ok |-> e.ok, error |-> e.error]
        /\ e.ok \in BOOLEAN /\ e.error \in ErrorCodes
    BY <2>1 DEF Entry
  <2>3. Com[c] < accepted[c]
    <3>1. HasQuery(c)
      BY <1>2, CompletedDispatch
    <3>2. Len(queue[c]) \in Nat /\ accepted[c] \in Nat
      BY QueueLength, CapacityAssumption, MaxAcceptedAssumption DEF TypeOK, MainType
    <3>3. QED
      BY <3>1, <3>2 DEF Com, Completed
  <2>4. handle' = handle /\ accepted' = accepted
    BY <1>2 DEF WorkerDispatch, WorkerGoes, mainVars
  <2>5. Delivery!Complete(c)
    BY <2>1, <2>2, <2>3, <2>4 DEF Delivery!Complete, Com
  <2>6. QED
    BY <2>5 DEF Delivery!Next
<1>3. CASE CallbackReturn
  <2>1. handle' = handle /\ accepted' = accepted
    BY <1>3 DEF CallbackReturn, mainVars
  <2>2. Delivery!Deliver
    BY <1>3, <2>1, ReturnEffect DEF Delivery!Deliver, Com
  <2>3. QED
    BY <2>2 DEF Delivery!Next
<1>4. CASE /\ ~\E c \in Conn : Connect(c) \/ QueuePush(c) \/ Close(c) \/ WorkerDispatch(c)
           /\ ~CallbackReturn
  <2>1. UNCHANGED <<handle, accepted>>
    BY <1>4, HandleFrame
  <2>2. dispatched' = dispatched /\ answered' = answered /\ Com' = Com
    BY <1>4, AnsweredFrame, ComFrame
  <2>3. QED
    BY <2>1, <2>2
<1>5. QED
  BY <1>1, <1>2, <1>3, <1>4

\* Whatever the threads do, the callbacks come as QueryDelivery promises.
THEOREM Refinement == Spec => DeliverySpec
<1>1. Init => Delivery!Init
  <2> SUFFICES ASSUME Init PROVE Delivery!Init
    OBVIOUS
  <2>1. \A c \in Conn : Completed(c) = 0
    BY DEF Init, Completed, HasQuery
  <2>2. QED
    BY <2>1 DEF Init, DispatcherInit, Delivery!Init
<1>2. TypeOK /\ LifeInv /\ QueueInv /\ ReadyInv /\ [Next]_vars
         => [Delivery!Next]_(Delivery!vars)
  <2> SUFFICES ASSUME TypeOK, LifeInv, QueueInv, ReadyInv, [Next]_vars
               PROVE  [Delivery!Next]_(Delivery!vars)
    OBVIOUS
  <2>1. Delivery!Next \/ UNCHANGED <<handle, accepted, Com, answered, dispatched>>
    BY DeliveryStep
  <2>2. QED
    BY <2>1 DEF Delivery!vars, Com
<1>3. QED
    BY <1>1, <1>2, TypeCorrect, LifeCorrect, OrderCorrect, PTL
    DEF Spec, DeliverySpec, Delivery!Spec

-----------------------------------------------------------------------------
(***************************************************************************)
(* A closed connection has executed all of its queries or none.            *)
(***************************************************************************)

\* Before its loop the worker has completed nothing, and once the flag is
\* cleared it only leaves the loop with an empty queue.
DrainInv ==
    \A c \in Conn :
       /\ worker[c] \in {"none", "starting"} => Completed(c) = 0
       /\ worker[c] \in {"testing", "ended"} /\ ~active[c] =>
             queue[c] = <<>> \/ Completed(c) = 0

LEMMA DrainStep ==
    ASSUME TypeOK, LifeInv, DrainInv, [Next]_vars
    PROVE  DrainInv'
<1> DEFINE Drained(c) == queue[c] = <<>> \/ Completed(c) = 0
           Inv(c) == /\ worker[c] \in {"none", "starting"} => Completed(c) = 0
                     /\ worker[c] \in {"testing", "ended"} /\ ~active[c] => Drained(c)
<1>0. \A c \in Conn : Inv(c)
    BY DEF DrainInv
<1>1. ASSUME NEW c \in Conn,
             worker'[c] = worker[c] \/ worker'[c] \notin {"none", "starting", "testing", "ended"},
             active'[c] = active[c], queue'[c] = queue[c],
             Completed(c)' = Completed(c)
      PROVE  Inv(c)'
    BY <1>0, <1>1
<1>2. ASSUME NEW c \in Conn, WorkerDispatch(c) PROVE Inv(c)'
    BY <1>2 DEF WorkerDispatch, WorkerGoes, TypeOK, WorkerType
<1>3. ASSUME NEW c \in Conn, NEW d \in Conn, Connect(d) PROVE Inv(c)'
  <2>1. Completed(c)' = Completed(c)
    <3>1. ~WorkerDispatch(c)
      BY <1>3 DEF Connect, LifeInv, WorkerDispatch, WorkerGoes, TypeOK, WorkerType,
                  ConnectionType
    <3>2. QED
      BY <1>3, <3>1, CompletedFrame
  <2>2. CASE c = d
    <3>1. worker[c] = "none" /\ worker'[c] = "starting"
      BY <1>3, <2>2 DEF Connect, LifeInv, TypeOK, WorkerType
    <3>2. QED
      BY <1>0, <2>1, <3>1
  <2>3. CASE c # d
    BY <1>1, <1>3, <2>1, <2>3 DEF Connect, TypeOK, WorkerType, ConnectionType
  <2>4. QED
    BY <2>2, <2>3
<1>4. ASSUME NEW c \in Conn, NEW d \in Conn, ~WorkerDispatch(c),
             \/ QueuePush(d) \/ SetCharset(d) \/ Close(d) \/ NativeStep(d)
             \/ CloseFlag(d)
      PROVE  Inv(c)'
  <2>1. Completed(c)' = Completed(c)
    BY <1>4, CompletedFrame DEF Next
  <2>2. CASE QueuePush(d)
    <3>1. worker' = worker /\ active' = active
      BY <2>2 DEF QueuePush, workerVars
    <3>2. CASE c = d
      <4>1. active[c] /\ worker[c] # "ended"
        BY <2>2, <3>2 DEF QueuePush, LifeInv
      <4>2. QED
        BY <1>0, <2>1, <3>1, <4>1
    <3>3. CASE c # d
      BY <1>1, <2>1, <2>2, <3>1, <3>3, QueueLengthStep
    <3>4. QED
      BY <3>2, <3>3
  <2>3. CASE CloseFlag(d)
    <3>1. CASE c = d
      <4>1. worker'[c] = worker[c] /\ worker[c] \notin {"testing", "ended"}
        BY <2>3, <3>1 DEF CloseFlag, HoldsNotifier, LifeInv, workerVars
      <4>2. QED
        BY <1>0, <2>1, <4>1
    <3>2. CASE c # d
      BY <1>1, <2>1, <2>3, <3>2 DEF CloseFlag, workerVars, TypeOK, ConnectionType
    <3>3. QED
      BY <3>1, <3>2
  <2>4. CASE SetCharset(d) \/ Close(d) \/ NativeStep(d)
    BY <1>1, <2>1, <2>4 DEF SetCharset, Close, NativeStep, QueueCount, QueueNotify,
                            CloseNotify, CloseJoin, NotifyOne, mainVars, workerVars,
                            TypeOK, WorkerType
  <2>5. QED
    BY <1>4, <2>2, <2>3, <2>4
<1>5. ASSUME NEW c \in Conn, NEW d \in Conn, ~WorkerDispatch(c),
             WorkerStep(d) \/ SpuriousWakeup(d) \/ WorkerDispatch(d)
      PROVE  Inv(c)'
  <2>1. Completed(c)' = Completed(c)
    BY <1>5, CompletedFrame DEF Next
  <2>2. active' = active
    BY <1>5 DEF WorkerStep, SpuriousWakeup, WorkerDispatch, WorkerStart, WorkerTest,
                WorkerPark, WorkerResume, WorkerPop, WorkerPopEmpty, WorkerExecute,
                WorkerExecuteFails, WorkerGetError, WorkerCount, WorkerGoes
  <2>3. CASE c # d
    <3>1. worker'[c] = worker[c]
      BY <1>5, <2>3 DEF WorkerStep, SpuriousWakeup, WorkerDispatch, WorkerStart,
                WorkerTest, WorkerPark, WorkerResume, WorkerPop, WorkerPopEmpty,
                WorkerExecute, WorkerExecuteFails, WorkerGetError, WorkerCount,
                WorkerGoes, TypeOK, WorkerType
    <3>2. queue'[c] = queue[c]
      BY <1>5, <2>3 DEF WorkerStep, SpuriousWakeup, WorkerDispatch, WorkerStart,
                WorkerTest, WorkerPark, WorkerResume, WorkerPop, WorkerPopEmpty,
                WorkerExecute, WorkerExecuteFails, WorkerGetError, WorkerCount,
                TypeOK, QueueType
    <3>3. QED
      BY <1>1, <2>1, <2>2, <3>1, <3>2
  <2>4. CASE c = d
    <3>1. CASE WorkerStart(c)
      BY <1>0, <2>1, <3>1 DEF WorkerStart, WorkerGoes, TypeOK, WorkerType
    <3>2. CASE WorkerTest(c)
      BY <1>0, <2>1, <2>2, <3>1, <3>2 DEF WorkerTest, WorkerGoes, TypeOK, WorkerType
    <3>3. CASE WorkerPopEmpty(c)
      BY <3>3 DEF WorkerPopEmpty, WorkerGoes, TypeOK, WorkerType
    <3>4. CASE \/ WorkerPark(c) \/ WorkerResume(c) \/ WorkerPop(c)
               \/ WorkerExecute(c) \/ WorkerExecuteFails(c) \/ WorkerGetError(c)
               \/ WorkerCount(c) \/ SpuriousWakeup(c)
      BY <3>4 DEF WorkerPark, WorkerResume, WorkerPop, WorkerExecute,
                  WorkerExecuteFails, WorkerGetError, WorkerCount, SpuriousWakeup,
                  WorkerGoes, TypeOK, WorkerType
    <3>5. QED
      BY <1>5, <2>4, <3>1, <3>2, <3>3, <3>4 DEF WorkerStep
  <2>5. QED
    BY <2>3, <2>4
<1>6. ASSUME NEW c \in Conn, ~WorkerDispatch(c), ProcessStep \/ UNCHANGED vars
      PROVE  Inv(c)'
  <2>1. Completed(c)' = Completed(c)
    BY <1>6, CompletedFrame DEF Next
  <2>2. QED
    BY <1>1, <1>6, <2>1 DEF ProcessStep, TickBegin, Callback, CallbackReturn, TickEnd,
                            mainVars, workerVars, vars
<1>7. \A c \in Conn : Inv(c)'
    BY <1>2, <1>3, <1>4, <1>5, <1>6 DEF Next
<1>8. QED
    BY <1>7 DEF DrainInv

LEMMA InitDrain == Init => DrainInv
<1> SUFFICES ASSUME Init PROVE DrainInv
    OBVIOUS
<1>1. \A c \in Conn : Completed(c) = 0
    BY DEF Init, Completed, HasQuery
<1>2. QED
    BY <1>1 DEF DrainInv

\* A worker that has ended has executed every query or, when the destructor
\* came before its first line, none.
THEOREM AllOrNothingCorrect == Spec => []AllOrNothing
<1>1. TypeOK /\ LifeInv /\ DrainInv /\ [Next]_vars => DrainInv'
    BY DrainStep
<1>2. LifeInv /\ DrainInv => AllOrNothing
    BY DEF LifeInv, DrainInv, AllOrNothing
<1>3. QED
    BY InitDrain, <1>1, <1>2, TypeCorrect, LifeCorrect, PTL DEF Spec
-----------------------------------------------------------------------------
(***************************************************************************)
(* Nothing touches a destroyed connection.                                 *)
(***************************************************************************)
LEMMA DestroyedStep ==
    ASSUME TypeOK, LifeInv, [Next]_vars, NEW c \in Conn, Destroyed(c)
    PROVE  UNCHANGED <<connected[c], errno[c], queue[c], unprocessed[c], active[c],
                       worker[c]>>
<1> DEFINE Same == UNCHANGED <<connected[c], errno[c], queue[c], unprocessed[c],
                               active[c], worker[c]>>
<1>1. handle[c] = "closed" /\ call[c] = "none" /\ worker[c] = "ended"
    BY DEF LifeInv, Destroyed
<1>2. ASSUME NEW d \in Conn, Connect(d) \/ QueuePush(d) \/ SetCharset(d) \/ Close(d)
      PROVE  Same
  <2>1. d # c
    BY <1>1, <1>2 DEF Connect, QueuePush, SetCharset, Close
  <2>2. QED
    BY <1>2, <2>1 DEF Connect, QueuePush, SetCharset, Close, mainVars, workerVars,
                      TypeOK, ConnectionType, QueueType, WorkerType
<1>3. ASSUME NEW d \in Conn, NativeStep(d) \/ CloseFlag(d) PROVE Same
  <2>1. d # c
    BY <1>1, <1>3 DEF NativeStep, QueueCount, QueueNotify, CloseNotify, CloseJoin,
                      CloseFlag
  <2>2. QED
    BY <1>3, <2>1 DEF NativeStep, QueueCount, QueueNotify, CloseNotify, CloseJoin,
                      CloseFlag, NotifyOne, workerVars, TypeOK, ConnectionType,
                      WorkerType
<1>4. ASSUME NEW d \in Conn, WorkerStep(d) \/ SpuriousWakeup(d) \/ WorkerDispatch(d)
      PROVE  Same
  <2>1. d # c
    BY <1>1, <1>4 DEF WorkerStep, SpuriousWakeup, WorkerDispatch, WorkerStart,
                WorkerTest, WorkerPark, WorkerResume, WorkerPop, WorkerPopEmpty,
                WorkerExecute, WorkerExecuteFails, WorkerGetError, WorkerCount,
                WorkerGoes
  <2>2. QED
    BY <1>4, <2>1 DEF WorkerStep, SpuriousWakeup, WorkerDispatch, WorkerStart,
                WorkerTest, WorkerPark, WorkerResume, WorkerPop, WorkerPopEmpty,
                WorkerExecute, WorkerExecuteFails, WorkerGetError, WorkerCount,
                WorkerGoes, TypeOK, ConnectionType, QueueType, WorkerType
<1>5. CASE ProcessStep \/ UNCHANGED vars
    BY <1>5 DEF ProcessStep, TickBegin, Callback, CallbackReturn, TickEnd, mainVars,
                workerVars, vars
<1>6. QED
    BY <1>2, <1>3, <1>4, <1>5 DEF Next

\* When mysql_close has returned, no thread uses the members of the connection.
THEOREM DestroyedCorrect == Spec => DestroyedUntouched
<1> DEFINE Step == \A c \in Conn :
              Destroyed(c) => UNCHANGED <<connected[c], errno[c], queue[c],
                                          unprocessed[c], active[c], worker[c]>>
<1>1. TypeOK /\ LifeInv /\ [Next]_vars => [Step]_vars
    BY DestroyedStep
<1>2. QED
    BY <1>1, TypeCorrect, LifeCorrect, PTL DEF Spec, DestroyedUntouched

-----------------------------------------------------------------------------
(***************************************************************************)
(* Errors.                                                                 *)
(***************************************************************************)

\* What the worker knows of a failure on its way to the dispatcher.
OwnErrors(c) == IF connected[c] THEN {query[c], NoError, CharsetError}
                                ELSE {NoError, ConnectError}

ErrorInv ==
    \A c \in Conn :
       /\ ~connected[c] => errno[c] \in {NoError, ConnectError}
       /\ worker[c] = "failed" => errno[c] \in OwnErrors(c)
       /\ worker[c] \in {"counting", "dispatching"} =>
             IF func[c].ok THEN connected[c] /\ func[c].error = NoError
                           ELSE func[c].error \in OwnErrors(c)

LEMMA ErrorStep ==
    ASSUME TypeOK, LifeInv, ErrorInv, [Next]_vars
    PROVE  ErrorInv'
<1> USE DEF ErrorInv, OwnErrors
<1>1. ASSUME NEW c \in Conn, Connect(c) PROVE ErrorInv'
  <2>1. worker[c] = "none"
    BY <1>1 DEF Connect, LifeInv
  <2>2. QED
    BY <1>1, <2>1 DEF Connect, TypeOK, ConnectionType, WorkerType
<1>2. ASSUME NEW c \in Conn, SetCharset(c) PROVE ErrorInv'
    BY <1>2 DEF SetCharset, mainVars, workerVars, TypeOK, ConnectionType
<1>3. ASSUME NEW c \in Conn,
             QueuePush(c) \/ Close(c) \/ NativeStep(c) \/ CloseFlag(c)
      PROVE  ErrorInv'
    BY <1>3 DEF QueuePush, Close, NativeStep, QueueCount, QueueNotify, CloseNotify,
                CloseJoin, CloseFlag, NotifyOne, workerVars, TypeOK, WorkerType
<1>4. ASSUME NEW c \in Conn, WorkerPop(c) PROVE ErrorInv'
    BY <1>4 DEF WorkerPop, WorkerGoes, mainVars, TypeOK, WorkerType
<1>5. ASSUME NEW c \in Conn, WorkerExecute(c) PROVE ErrorInv'
    BY <1>5 DEF WorkerExecute, WorkerGoes, mainVars, TypeOK, WorkerType,
                ConnectionType, Succeeded
<1>6. ASSUME NEW c \in Conn, WorkerExecuteFails(c) PROVE ErrorInv'
    BY <1>6 DEF WorkerExecuteFails, WorkerGoes, mainVars, TypeOK, WorkerType,
                ConnectionType
<1>7. ASSUME NEW c \in Conn, WorkerGetError(c) PROVE ErrorInv'
    BY <1>7 DEF WorkerGetError, WorkerGoes, mainVars, TypeOK, WorkerType,
                ConnectionType, Failed
<1>8. ASSUME NEW c \in Conn, WorkerCount(c) PROVE ErrorInv'
    BY <1>8 DEF WorkerCount, WorkerGoes, mainVars, TypeOK, WorkerType
<1>9. ASSUME NEW c \in Conn, WorkerDispatch(c) PROVE ErrorInv'
    BY <1>9 DEF WorkerDispatch, WorkerGoes, mainVars, TypeOK, WorkerType
<1>10. ASSUME NEW c \in Conn,
              \/ WorkerStart(c) \/ WorkerTest(c) \/ WorkerPark(c)
              \/ WorkerResume(c) \/ WorkerPopEmpty(c) \/ SpuriousWakeup(c)
       PROVE  ErrorInv'
    BY <1>10 DEF WorkerStart, WorkerTest, WorkerPark, WorkerResume, WorkerPopEmpty,
                 SpuriousWakeup, WorkerGoes, mainVars, TypeOK, WorkerType
<1>11. CASE ProcessStep \/ UNCHANGED vars
    BY <1>11 DEF ProcessStep, TickBegin, Callback, CallbackReturn, TickEnd, mainVars,
                 workerVars, vars
<1>12. QED
    BY <1>1, <1>2, <1>3, <1>4, <1>5, <1>6, <1>7, <1>8, <1>9, <1>10, <1>11
    DEF Next, WorkerStep

\* One entry of the dispatcher reports an error of its own query.
OwnEntry(f) ==
    IF connected[f.conn]
    THEN f.error \in (IF f.ok THEN {NoError} ELSE {f.num, NoError, CharsetError})
    ELSE ~f.ok /\ f.error \in {NoError, ConnectError}

LEMMA EntriesOwn ==
    ErrorsNotCrossed <=> \A i \in 1 .. Len(dispatched) : OwnEntry(dispatched[i])
BY DEF ErrorsNotCrossed, OwnEntry

\* A connection that is not open yet has no entry.
LEMMA UnusedHasNoEntry ==
    ASSUME TypeOK, LifeInv, ReadyInv, NEW i \in 1 .. Len(dispatched)
    PROVE  dispatched[i].conn \in Conn /\ handle[dispatched[i].conn] # "unused"
<1>1. dispatched[i] \in Entry /\ dispatched[i].conn \in Conn
  <2>1. dispatched[i] \in Entry
    BY ReadyTypes, ElementOfSeq
  <2>2. QED
    BY <2>1 DEF Entry
<1> DEFINE c == dispatched[i].conn
<1>2. dispatched[i].num \in answered[c] + 1 .. Com[c]
    BY DEF ReadyInv, Ordered
<1>3. ASSUME handle[c] = "unused" PROVE FALSE
  <2>1. accepted[c] = 0 /\ queue[c] = <<>> /\ worker[c] = "none"
    BY <1>1, <1>3 DEF LifeInv
  <2>2. Com[c] = 0
    BY <1>1, <2>1 DEF Com, Completed, HasQuery
  <2>3. answered[c] \in Nat
    BY <1>1, ReadyTypes
  <2>4. QED
    BY <1>2, <2>2, <2>3
<1>4. QED
    BY <1>1, <1>3

LEMMA ErrorsStep ==
    ASSUME TypeOK, LifeInv, ReadyInv, ErrorInv, ErrorsNotCrossed, [Next]_vars
    PROVE  ErrorsNotCrossed'
<1>0. \A i \in 1 .. Len(dispatched) :
         OwnEntry(dispatched[i]) /\ dispatched[i].conn \in Conn
    BY EntriesOwn, UnusedHasNoEntry
<1>1. ASSUME NEW c \in Conn, WorkerDispatch(c)
      PROVE  \A i \in 1 .. Len(dispatched') : OwnEntry(dispatched[i])'
  <2> DEFINE e == [conn |-> c, num |-> query[c],
                   ok |-> func[c].ok, error |-> func[c].error]
  <2>1. dispatched' = Append(dispatched, e) /\ connected' = connected
    BY <1>1 DEF WorkerDispatch, Dispatch, WorkerGoes
  <2>2. e.conn = c /\ e.num = query[c] /\ e.ok = func[c].ok /\ e.error = func[c].error
    OBVIOUS
  <2>3. worker[c] = "dispatching"
    BY <1>1 DEF WorkerDispatch, WorkerGoes
  <2>4. OwnEntry(e)
    BY <2>2, <2>3 DEF OwnEntry, ErrorInv, OwnErrors
  <2>5. e \in Entry
    BY DEF TypeOK, WorkerType, Entry
  <2> HIDE DEF e
  <2>6. /\ Len(dispatched') = Len(dispatched) + 1 /\ Len(dispatched) \in Nat
        /\ \A i \in 1 .. Len(dispatched) : dispatched'[i] = dispatched[i]
        /\ dispatched'[Len(dispatched) + 1] = e
    BY <2>1, <2>5, ReadyTypes, AppendProperties, LenProperties
  <2>7. ASSUME NEW i \in 1 .. Len(dispatched') PROVE OwnEntry(dispatched'[i])
    BY <1>0, <2>4, <2>6
  <2>8. QED
    BY <2>1, <2>7 DEF OwnEntry
<1>2. CASE CallbackReturn
  <2>1. /\ dispatched' = Tail(dispatched) /\ dispatched # <<>>
        /\ connected' = connected
    BY <1>2, ReturnEffect DEF CallbackReturn
  <2>2. \A i \in 1 .. Len(dispatched') :
           i + 1 \in 1 .. Len(dispatched) /\ dispatched'[i] = dispatched[i + 1]
    BY <2>1, ReadyTypes, HeadTailProperties, LenProperties
  <2>3. \A i \in 1 .. Len(dispatched') : OwnEntry(dispatched'[i])
    BY <1>0, <2>2
  <2>4. QED
    BY <2>1, <2>3, EntriesOwn DEF ErrorsNotCrossed, OwnEntry
<1>3. CASE ~CallbackReturn /\ ~\E c \in Conn : WorkerDispatch(c)
  <2>1. dispatched' = dispatched
    BY <1>3, AnsweredFrame
  <2>2. \A i \in 1 .. Len(dispatched) :
           connected'[dispatched[i].conn] = connected[dispatched[i].conn]
    <3> TAKE i \in 1 .. Len(dispatched)
    <3>1. handle[dispatched[i].conn] # "unused" /\ dispatched[i].conn \in Conn
      BY UnusedHasNoEntry
    <3>2. UNCHANGED connected \/ \E c \in Conn : Connect(c)
      BY ConnectionFrame DEF SetCharset, Close, QueueCount, CloseFlag, WorkerExecute,
                             WorkerExecuteFails, WorkerCount, WorkerGoes
    <3>3. QED
      BY <3>1, <3>2 DEF Connect, TypeOK, ConnectionType
  <2>3. QED
    BY <1>0, <2>1, <2>2 DEF ErrorsNotCrossed, OwnEntry
<1>4. QED
    BY <1>1, <1>2, <1>3 DEF ErrorsNotCrossed, OwnEntry

\* OnQueryError never reports the error of another query.
THEOREM ErrorsCorrect == Spec => []ErrorsNotCrossed
<1>1. Init => ErrorInv /\ ErrorsNotCrossed
    BY DEF Init, DispatcherInit, ErrorInv, ErrorsNotCrossed
<1>2. TypeOK /\ LifeInv /\ ReadyInv /\ ErrorInv /\ ErrorsNotCrossed /\ [Next]_vars
         => ErrorInv' /\ ErrorsNotCrossed'
    BY ErrorStep, ErrorsStep
<1>3. QED
    BY <1>1, <1>2, TypeCorrect, LifeCorrect, OrderCorrect, PTL DEF Spec
=============================================================================
