------------------------- MODULE ThreadedConnection -------------------------
(***************************************************************************)
(* CThreadedConnection composed with CDispatcher: the server thread, which *)
(* runs Pawn scripts, and one worker thread per threaded connection.       *)
(*                                                                         *)
(* A script queues a query with a native (mysql_tquery, or mysql_pquery    *)
(* for the connections of a pool); the worker of the connection pops it,   *)
(* executes it and dispatches its callback; the server thread runs the     *)
(* callback in ProcessTick.  A script may call natives from a callback     *)
(* too, while the server thread is inside Process and holds m_QueueMtx.    *)
(*                                                                         *)
(* A query is known by its number: the n-th query the connection accepted. *)
(* Every step of a thread is the code between two points where another     *)
(* thread could notice the difference.  The worker holds                   *)
(* m_QueueNotifierMutex everywhere except before its first line, inside    *)
(* wait() and after its end, so that mutex is a predicate on its program   *)
(* counter; CConnection::m_Mutex is held for one MySQL call, so that every *)
(* call is one step.                                                       *)
(***************************************************************************)
EXTENDS Dispatcher, Integers

CONSTANTS
    Conn,            \* the threaded connections a server ever opens
    Capacity,        \* capacity of the lock-free m_Queue (65536 in the code)
    UIntMod,         \* 2^w, w the width of the unsigned m_UnprocessedQueries
    MaxAccepted,     \* bound: queries a connection accepts in its life
    CloseInCallback  \* whether scripts call mysql_close from a callback

ASSUME CapacityAssumption == Capacity \in Nat \ {0}
ASSUME UIntAssumption == UIntMod \in Nat /\ UIntMod > Capacity + 1
ASSUME MaxAcceptedAssumption == MaxAccepted \in Nat
ASSUME CloseInCallbackAssumption == CloseInCallback \in BOOLEAN

VARIABLES
    handle,       \* handle[c]: "unused", "open" or "closed" for the scripts
    connected,    \* m_IsConnected of c's CConnection
    errno,        \* what mysql_errno(c's MYSQL object) returns
    queue,        \* m_Queue: the accepted queries not popped yet
    unprocessed,  \* m_UnprocessedQueries
    active,       \* m_WorkerThreadActive
    worker,       \* where c's worker thread is
    query,        \* the query c's worker has popped last
    func,         \* the outcome the worker binds for that query
    call,         \* the step of a native the server thread is at, for c
    accepted,     \* history: how many queries c has accepted
    answered      \* history: how many callbacks of c have been run

mainVars == <<handle, call, accepted>>
workerVars == <<worker, query, func>>
vars == <<dispatcherVars, handle, connected, errno, queue, unprocessed, active,
          worker, query, func, call, accepted, answered>>

(***************************************************************************)
(* Errors.  A positive error code n stands for whatever code the server    *)
(* gave when the n-th query of this connection failed.                     *)
(***************************************************************************)
NoError == 0
CharsetError == -1   \* mysql_set_character_set has failed
ConnectError == -2   \* mysql_real_connect has failed

ErrorCodes == ConnectError .. MaxAccepted

Succeeded == [ok |-> TRUE, error |-> NoError]
Failed(code) == [ok |-> FALSE, error |-> code]

\* Arithmetic of std::atomic<unsigned int>.
Increment(n) == IF n = UIntMod - 1 THEN 0 ELSE n + 1
Decrement(n) == IF n = 0 THEN UIntMod - 1 ELSE n - 1

(***************************************************************************)
(* Program counters.                                                       *)
(***************************************************************************)
WorkerState == {"none", "starting", "testing", "parking", "waiting", "woken",
                "popping", "executing", "failed", "counting", "dispatching",
                "ended"}

CallState == {"none", "counting", "notifying",          \* Queue
              "locking", "closing", "joining"}          \* the destructor

\* The worker of c holds m_QueueNotifierMutex.
HoldsNotifier(c) ==
    worker[c] \in {"testing", "parking", "popping", "executing", "failed",
                   "counting", "dispatching"}

\* The worker of c has popped a query whose callback it has not dispatched.
HasQuery(c) == worker[c] \in {"executing", "failed", "counting", "dispatching"}

\* Script code is running, at a point where it can call a native.
ScriptRuns ==
    /\ mainAt \in {"server", "callback"}
    /\ \A c \in Conn : call[c] = "none"

Init ==
    /\ DispatcherInit
    /\ handle = [c \in Conn |-> "unused"]
    /\ connected = [c \in Conn |-> FALSE]
    /\ errno = [c \in Conn |-> NoError]
    /\ queue = [c \in Conn |-> <<>>]
    /\ unprocessed = [c \in Conn |-> 0]
    /\ active = [c \in Conn |-> FALSE]
    /\ worker = [c \in Conn |-> "none"]
    /\ query = [c \in Conn |-> 0]
    /\ func = [c \in Conn |-> Succeeded]
    /\ call = [c \in Conn |-> "none"]
    /\ accepted = [c \in Conn |-> 0]
    /\ answered = [c \in Conn |-> 0]

-----------------------------------------------------------------------------
(***************************************************************************)
(* The server thread: natives on a connection.                             *)
(***************************************************************************)

\* The constructor.  The connection is established, or refused, or
\* mysql_init has failed (no MYSQL object, and GetError then leaves the error
\* id at 0); the worker thread is started in every case.
Connect(c) ==
    /\ ScriptRuns
    /\ handle[c] = "unused"
    /\ handle' = [handle EXCEPT ![c] = "open"]
    /\ \E up \in BOOLEAN, code \in {NoError, ConnectError} :
          /\ up => code = NoError
          /\ connected' = [connected EXCEPT ![c] = up]
          /\ errno' = [errno EXCEPT ![c] = code]
    /\ active' = [active EXCEPT ![c] = TRUE]
    /\ worker' = [worker EXCEPT ![c] = "starting"]
    /\ UNCHANGED <<dispatcherVars, queue, unprocessed, query, func, call,
                   accepted, answered>>

\* Mutant: the ring buffer takes one query too many.
QueueHasRoomOneMore(c) == Len(queue[c]) <= Capacity

QueueHasRoom(c) == Len(queue[c]) < Capacity

\* Queue: the push, without any lock.  A full m_Queue refuses the query and
\* the native returns 0: nothing changes.
QueuePush(c) ==
    /\ ScriptRuns
    /\ handle[c] = "open"
    /\ QueueHasRoom(c)
    /\ accepted[c] < MaxAccepted
    /\ accepted' = [accepted EXCEPT ![c] = @ + 1]
    /\ queue' = [queue EXCEPT ![c] = Append(@, accepted[c] + 1)]
    /\ call' = [call EXCEPT ![c] = "counting"]
    /\ UNCHANGED <<dispatcherVars, handle, connected, errno, unprocessed,
                   active, workerVars, answered>>

\* Queue: ++m_UnprocessedQueries.
QueueCount(c) ==
    /\ call[c] = "counting"
    /\ unprocessed' = [unprocessed EXCEPT ![c] = Increment(@)]
    /\ call' = [call EXCEPT ![c] = "notifying"]
    /\ UNCHANGED <<dispatcherVars, handle, connected, errno, queue, active,
                   workerVars, accepted, answered>>

\* notify_one wakes the worker only if it is inside wait() at that moment.
NotifyOne(c) ==
    worker' = [worker EXCEPT ![c] = IF @ = "waiting" THEN "woken" ELSE @]

\* Queue: notify_one, without any lock, and return.
QueueNotify(c) ==
    /\ call[c] = "notifying"
    /\ NotifyOne(c)
    /\ call' = [call EXCEPT ![c] = "none"]
    /\ UNCHANGED <<dispatcherVars, handle, connected, errno, queue,
                   unprocessed, active, query, func, accepted, answered>>

\* SetCharset, a MySQL call on the worker's connection from the server
\* thread.  It replaces the error code the connection reports.
SetCharset(c) ==
    /\ ScriptRuns
    /\ handle[c] = "open"
    /\ connected[c]
    /\ \E code \in {NoError, CharsetError} :
          errno' = [errno EXCEPT ![c] = code]
    /\ UNCHANGED <<dispatcherVars, mainVars, connected, queue, unprocessed,
                   active, workerVars, answered>>

\* mysql_close: no script can reach the connection any more; the destructor
\* is going to lock m_QueueNotifierMutex.
Close(c) ==
    /\ ScriptRuns
    /\ CloseInCallback \/ mainAt = "server"
    /\ handle[c] = "open"
    /\ handle' = [handle EXCEPT ![c] = "closed"]
    /\ call' = [call EXCEPT ![c] = "locking"]
    /\ UNCHANGED <<dispatcherVars, connected, errno, queue, unprocessed, active,
                   workerVars, accepted, answered>>

\* The destructor: the block under m_QueueNotifierMutex.
CloseFlag(c) ==
    /\ call[c] = "locking"
    /\ ~HoldsNotifier(c)
    /\ active' = [active EXCEPT ![c] = FALSE]
    /\ call' = [call EXCEPT ![c] = "closing"]
    /\ UNCHANGED <<dispatcherVars, handle, connected, errno, queue, unprocessed,
                   workerVars, accepted, answered>>

\* Mutant: the destructor forgets notify_one.
CloseNotifyNobody(c) ==
    /\ call[c] = "closing"
    /\ call' = [call EXCEPT ![c] = "joining"]
    /\ UNCHANGED <<dispatcherVars, handle, connected, errno, queue,
                   unprocessed, active, workerVars, accepted, answered>>

\* The destructor: notify_one.
CloseNotify(c) ==
    /\ call[c] = "closing"
    /\ NotifyOne(c)
    /\ call' = [call EXCEPT ![c] = "joining"]
    /\ UNCHANGED <<dispatcherVars, handle, connected, errno, queue,
                   unprocessed, active, query, func, accepted, answered>>

\* Mutant: the destructor detaches the thread instead of joining it.
CloseDetach(c) ==
    /\ call[c] = "joining"
    /\ call' = [call EXCEPT ![c] = "none"]
    /\ UNCHANGED <<dispatcherVars, handle, connected, errno, queue, unprocessed,
                   active, workerVars, accepted, answered>>

\* The destructor: join, and the members are destroyed.
CloseJoin(c) ==
    /\ call[c] = "joining"
    /\ worker[c] = "ended"
    /\ call' = [call EXCEPT ![c] = "none"]
    /\ UNCHANGED <<dispatcherVars, handle, connected, errno, queue, unprocessed,
                   active, workerVars, accepted, answered>>

\* ProcessTick is called by the server between two pieces of script code.
TickBegin ==
    /\ ScriptRuns
    /\ ProcessBegin
    /\ UNCHANGED <<mainVars, connected, errno, queue, unprocessed, active,
                   workerVars, answered>>

Callback ==
    /\ CallFront
    /\ UNCHANGED <<mainVars, connected, errno, queue, unprocessed, active,
                   workerVars, answered>>

CallbackReturn ==
    /\ ScriptRuns
    /\ PopFront
    /\ answered' = [answered EXCEPT ![Head(dispatched).conn] = @ + 1]
    /\ UNCHANGED <<mainVars, connected, errno, queue, unprocessed, active,
                   workerVars>>

TickEnd ==
    /\ ProcessEnd
    /\ UNCHANGED <<mainVars, connected, errno, queue, unprocessed, active,
                   workerVars, answered>>

-----------------------------------------------------------------------------
(***************************************************************************)
(* The worker thread: WorkerFunc.                                          *)
(***************************************************************************)
WorkerGoes(c, from, to) ==
    /\ worker[c] = from
    /\ worker' = [worker EXCEPT ![c] = to]
    /\ UNCHANGED <<mainVars, connected, active, mainAt, answered>>

\* The thread runs, takes m_QueueNotifierMutex and reaches its loop.
WorkerStart(c) ==
    /\ WorkerGoes(c, "starting", "testing")
    /\ UNCHANGED <<dispatched, errno, queue, unprocessed, query, func>>

\* while (m_WorkerThreadActive).  Leaving the loop ends the thread, which
\* releases the mutex.
WorkerTest(c) ==
    /\ WorkerGoes(c, "testing", IF active[c] THEN "parking" ELSE "ended")
    /\ UNCHANGED <<dispatched, errno, queue, unprocessed, query, func>>

\* m_QueueNotifier.wait: release the mutex and sleep, in one step.
WorkerPark(c) ==
    /\ WorkerGoes(c, "parking", "waiting")
    /\ UNCHANGED <<dispatched, errno, queue, unprocessed, query, func>>

\* A condition variable may wake a thread that nobody has notified.
SpuriousWakeup(c) ==
    /\ WorkerGoes(c, "waiting", "woken")
    /\ UNCHANGED <<dispatched, errno, queue, unprocessed, query, func>>

\* wait() takes the mutex again and returns.
WorkerResume(c) ==
    /\ WorkerGoes(c, "woken", "popping")
    /\ UNCHANGED <<dispatched, errno, queue, unprocessed, query, func>>

\* while (m_Queue.pop(query)): a query to execute ...
WorkerPop(c) ==
    /\ queue[c] # <<>>
    /\ WorkerGoes(c, "popping", "executing")
    /\ query' = [query EXCEPT ![c] = Head(queue[c])]
    /\ queue' = [queue EXCEPT ![c] = Tail(@)]
    /\ UNCHANGED <<dispatched, errno, unprocessed, func>>

\* Mutant: while (m_WorkerThreadActive && m_Queue.pop(query)).
WorkerPopEmptyOrClosed(c) ==
    /\ queue[c] = <<>> \/ ~active[c]
    /\ WorkerGoes(c, "popping", "testing")
    /\ UNCHANGED <<dispatched, errno, queue, unprocessed, query, func>>

\* ... or none, and back to the outer loop.
WorkerPopEmpty(c) ==
    /\ queue[c] = <<>>
    /\ WorkerGoes(c, "popping", "testing")
    /\ UNCHANGED <<dispatched, errno, queue, unprocessed, query, func>>

\* m_Connection.Execute returns true: the callback will be CallCallback.
WorkerExecute(c) ==
    /\ connected[c]
    /\ WorkerGoes(c, "executing", "counting")
    /\ errno' = [errno EXCEPT ![c] = NoError]
    /\ func' = [func EXCEPT ![c] = Succeeded]
    /\ UNCHANGED <<dispatched, queue, unprocessed, query>>

\* Mutant: a failed query falls through to CallCallback.
WorkerExecuteIgnored(c) ==
    /\ WorkerGoes(c, "executing", "counting")
    /\ errno' = [errno EXCEPT ![c] = IF connected[c] THEN query[c] ELSE @]
    /\ UNCHANGED <<dispatched, queue, unprocessed, query, func>>

\* m_Connection.Execute returns false: the server has rejected the query, or
\* there is no connection and no MySQL call is made.
WorkerExecuteFails(c) ==
    /\ WorkerGoes(c, "executing", "failed")
    /\ errno' = [errno EXCEPT ![c] = IF connected[c] THEN query[c] ELSE @]
    /\ UNCHANGED <<dispatched, queue, unprocessed, query, func>>

\* m_Connection.GetError, another critical section: it reads the error code
\* the connection reports by then.
WorkerGetError(c) ==
    /\ WorkerGoes(c, "failed", "counting")
    /\ func' = [func EXCEPT ![c] = Failed(errno[c])]
    /\ UNCHANGED <<dispatched, errno, queue, unprocessed, query>>

\* Mutant: only a successful query is counted down.
WorkerCountSuccess(c) ==
    /\ WorkerGoes(c, "counting", "dispatching")
    /\ unprocessed' = [unprocessed EXCEPT ![c] = IF func[c].ok THEN Decrement(@)
                                                               ELSE @]
    /\ UNCHANGED <<dispatched, errno, queue, query, func>>

\* --m_UnprocessedQueries.
WorkerCount(c) ==
    /\ WorkerGoes(c, "counting", "dispatching")
    /\ unprocessed' = [unprocessed EXCEPT ![c] = Decrement(@)]
    /\ UNCHANGED <<dispatched, errno, queue, query, func>>

\* Mutant: if (m_Queue.pop(query)) instead of while.
WorkerDispatchOnce(c) ==
    /\ Dispatch([conn |-> c, num |-> query[c],
                 ok |-> func[c].ok, error |-> func[c].error])
    /\ WorkerGoes(c, "dispatching", "testing")
    /\ query' = [query EXCEPT ![c] = 0]
    /\ func' = [func EXCEPT ![c] = Succeeded]
    /\ UNCHANGED <<errno, queue, unprocessed>>

\* CDispatcher::Get()->Dispatch, waiting for m_QueueMtx.  The query and the
\* outcome are locals of the loop: they are forgotten.
WorkerDispatch(c) ==
    /\ Dispatch([conn |-> c, num |-> query[c],
                 ok |-> func[c].ok, error |-> func[c].error])
    /\ WorkerGoes(c, "dispatching", "popping")
    /\ query' = [query EXCEPT ![c] = 0]
    /\ func' = [func EXCEPT ![c] = Succeeded]
    /\ UNCHANGED <<errno, queue, unprocessed>>

-----------------------------------------------------------------------------
\* The steps of a native that has been called, except the one that may wait
\* for the mutex of the worker.
NativeStep(c) == QueueCount(c) \/ QueueNotify(c) \/ CloseNotify(c) \/ CloseJoin(c)

ProcessStep == TickBegin \/ Callback \/ CallbackReturn \/ TickEnd

\* The steps of a worker, except the one that may wait for m_QueueMtx.
WorkerStep(c) ==
    \/ WorkerStart(c) \/ WorkerTest(c) \/ WorkerPark(c) \/ WorkerResume(c)
    \/ WorkerPop(c) \/ WorkerPopEmpty(c)
    \/ WorkerExecute(c) \/ WorkerExecuteFails(c) \/ WorkerGetError(c)
    \/ WorkerCount(c)

Next ==
    \/ \E c \in Conn :
          \/ Connect(c) \/ QueuePush(c) \/ SetCharset(c) \/ Close(c)
          \/ NativeStep(c) \/ CloseFlag(c)
          \/ WorkerStep(c) \/ SpuriousWakeup(c) \/ WorkerDispatch(c)
    \/ ProcessStep

Spec == Init /\ [][Next]_vars

(***************************************************************************)
(* Fairness.  Both kinds of thread keep running, MySQL answers, callbacks  *)
(* return and the server keeps ticking: weak fairness.  A thread that      *)
(* waits for a mutex which is free again and again gets it: strong         *)
(* fairness.  (The server sleeps between two ticks with m_QueueMtx free.)  *)
(* No script ever has to call a native, and no wakeup is spurious by duty. *)
(***************************************************************************)
Fairness ==
    /\ WF_vars(ProcessStep)
    /\ \A c \in Conn :
          /\ WF_vars(NativeStep(c))
          /\ SF_vars(CloseFlag(c))
          /\ WF_vars(WorkerStep(c))
          /\ SF_vars(WorkerDispatch(c))

FairSpec == Spec /\ Fairness

-----------------------------------------------------------------------------
(***************************************************************************)
(* Properties.                                                             *)
(***************************************************************************)

\* How many queries of c have had their callback dispatched: what has been
\* accepted and is neither waiting in m_Queue nor in the worker's hands.
Completed(c) ==
    accepted[c] - Len(queue[c]) - (IF HasQuery(c) THEN 1 ELSE 0)

\* front() and pop() are never called on an empty queue of callbacks.
DispatcherType ==
    /\ dispatched \in Seq([conn : Conn, num : 0 .. MaxAccepted, ok : BOOLEAN,
                           error : ErrorCodes])
    /\ mainAt \in {"server", "process", "callback"}
    /\ mainAt = "callback" => dispatched # <<>>

\* m_Queue never holds more than its capacity.
QueueType ==
    /\ queue \in [Conn -> Seq(1 .. MaxAccepted)]
    /\ \A c \in Conn : Len(queue[c]) <= Capacity

ConnectionType ==
    /\ handle \in [Conn -> {"unused", "open", "closed"}]
    /\ connected \in [Conn -> BOOLEAN]
    /\ errno \in [Conn -> ErrorCodes]
    /\ unprocessed \in [Conn -> 0 .. UIntMod - 1]
    /\ active \in [Conn -> BOOLEAN]

WorkerType ==
    /\ worker \in [Conn -> WorkerState]
    /\ query \in [Conn -> 0 .. MaxAccepted]
    /\ func \in [Conn -> [ok : BOOLEAN, error : ErrorCodes]]

MainType ==
    /\ call \in [Conn -> CallState]
    /\ accepted \in [Conn -> 0 .. MaxAccepted]
    /\ answered \in [Conn -> Nat]

\* Every variable has its type, and no queue is read or popped while empty or
\* filled beyond its capacity.
TypeOK == DispatcherType /\ QueueType /\ ConnectionType /\ WorkerType /\ MainType

\* What mysql_unprocessed_queries reads.  The push of a query, the two
\* updates of the atomic counter and the pop are four unsynchronised steps of
\* two threads, and the counter really wraps below zero when the worker is
\* the faster one; but no script ever sees that: whenever script code runs,
\* the counter is the number of accepted queries that are not executed yet.
UnprocessedIsExact ==
    ScriptRuns =>
       \A c \in Conn :
          unprocessed[c] = Len(queue[c]) +
              (IF worker[c] \in {"executing", "failed", "counting"} THEN 1 ELSE 0)

\* The callbacks waiting to be run are, connection by connection, those of
\* the queries that are completed and not answered: each of them once, in the
\* order in which the connection accepted them.  Queries of different
\* connections may be in any order.
ReadyInOrder ==
    /\ \A i \in 1 .. Len(dispatched) :
          dispatched[i].num \in
             answered[dispatched[i].conn] + 1 .. Completed(dispatched[i].conn)
    /\ \A i, j \in 1 .. Len(dispatched) :
          (i < j /\ dispatched[i].conn = dispatched[j].conn)
             => dispatched[i].num < dispatched[j].num
    /\ \A c \in Conn : \A n \in answered[c] + 1 .. Completed(c) :
          \E i \in 1 .. Len(dispatched) :
             dispatched[i].conn = c /\ dispatched[i].num = n

\* A closed connection has executed every query it accepted or none of them,
\* never a part: a worker that ends with queries left in m_Queue never ran
\* its loop (the destructor came before the thread's first line).
AllOrNothing ==
    \A c \in Conn :
       worker[c] = "ended" => queue[c] = <<>> \/ Completed(c) = 0

\* OnQueryError never reports the error of another query: the code is that
\* of this query, or what a mysql_set_charset that came between Execute and
\* GetError left behind.  Without a connection no query succeeds, and the
\* code is that of the failed connection attempt.
ErrorsNotCrossed ==
    \A i \in 1 .. Len(dispatched) :
       LET f == dispatched[i]
       IN  IF connected[f.conn]
           THEN f.error \in (IF f.ok THEN {NoError}
                             ELSE {f.num, NoError, CharsetError})
           ELSE ~f.ok /\ f.error \in {NoError, ConnectError}

\* Once mysql_close has returned the object is gone: no thread reads or
\* writes its members any more (a worker that outlived the destructor would).
Destroyed(c) == handle[c] = "closed" /\ call[c] = "none"

DestroyedUntouched ==
    [][\A c \in Conn :
          Destroyed(c) => UNCHANGED <<connected[c], errno[c], queue[c],
                                      unprocessed[c], active[c], worker[c]>>]_vars

\* The threads, the two queues and the counter together deliver callbacks the
\* way QueryDelivery promises.
Delivery == INSTANCE QueryDelivery
    WITH ErrorCode <- ErrorCodes,
         completed <- [c \in Conn |-> Completed(c)],
         ready <- dispatched

DeliverySpec == Delivery!Spec

\* mysql_close returns: the destructor gets the mutex, the worker does not
\* miss the flag, and it ends.
CloseReturns ==
    \A c \in Conn : call[c] = "locking" ~> call[c] = "none"

\* A wakeup is enough for everything accepted so far: a worker that has been
\* woken up executes and answers the whole queue, whatever notifications the
\* earlier queries lost.
WokenWorkerAnswers ==
    \A c \in Conn : \A n \in 1 .. MaxAccepted :
       (worker[c] = "woken" /\ accepted[c] >= n) ~> (answered[c] >= n)

\* mysql_close does not cancel queries: unless the worker thread has not
\* reached its first line, every accepted query is executed and answered.
CloseDrains ==
    \A c \in Conn :
       (call[c] = "locking" /\ worker[c] # "starting")
          ~> (answered[c] = accepted[c])

\* tests/unit_test.pwn:1479-1486 queues a query on a new connection, waits for
\* longer than the query takes and asserts that none is unprocessed: every
\* accepted query is executed without any further call on the connection.
EveryQueryExecuted ==
    \A c \in Conn : \A n \in 1 .. MaxAccepted :
       (accepted[c] >= n) ~> (Completed(c) >= n \/ handle[c] = "closed")
=============================================================================
