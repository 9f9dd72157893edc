------------------------------- MODULE Handle -------------------------------
(***************************************************************************)
(* CHandle and CConnectionPool: the connections behind one MySQL: handle   *)
(* of a script.  A handle has a main connection, which the server thread   *)
(* uses itself, a threaded connection, and a pool of POOL_SIZE threaded    *)
(* connections in a ring.  The slots of a handle are numbered: 0 is the    *)
(* main connection, 1 the threaded one, and 2 and above are the ring.      *)
(*                                                                         *)
(* A threaded connection is reduced to what ThreadedConnection shows of    *)
(* it: queries that wait in m_Queue and one in the worker's hands, and a   *)
(* counter that is their number whenever the server thread reads it.  A    *)
(* native that goes from connection to connection is several steps here,   *)
(* and the workers go on in between.                                       *)
(***************************************************************************)
EXTENDS Naturals, FiniteSetsExt, Functions

CONSTANTS
    Object,          \* the CHandle objects a server ever creates
    Database,        \* what m_MyHash tells apart: host, user and database
    Charset,         \* the character sets
    DefaultCharset,  \* the one a connection has at first
    None,            \* no object, or no database
    MaxPool,         \* the largest POOL_SIZE (32 in the code)
    Capacity,        \* capacity of m_Queue
    MaxGiven         \* bound: queries given to a connection

ASSUME CharsetAssumption == DefaultCharset \in Charset
ASSUME NoneAssumption == None \notin Object \union Database
ASSUME PoolAssumption == MaxPool \in Nat
ASSUME QueueAssumption == Capacity \in Nat \ {0} /\ MaxGiven \in Nat

VARIABLES
    object,  \* object[o]: the members of CHandle o
    conn,    \* conn[o][k]: its connection in slot k
    native   \* the native the server thread is in, if it is one that goes
             \* from connection to connection

handleVars == <<object, conn, native>>

Main == 0
Threaded == 1
Slot == 0 .. MaxPool + 1

Ring(o) == 2 .. object[o].size + 1      \* m_ConnectionPool, empty if nullptr
Workers(o) == 1 .. object[o].size + 1
Slots(o) == 0 .. object[o].size + 1

NewObject == [state |-> "unused", id |-> 0, database |-> None,
              size |-> 0, current |-> 2, agreed |-> TRUE]
NewConn == [charset |-> DefaultCharset, queued |-> 0, inHand |-> 0,
            given |-> 0, started |-> FALSE]

NoNative == [op |-> "none", object |-> None, at |-> Main,
             charset |-> DefaultCharset, sum |-> 0, before |-> [k \in Slot |-> 0]]

HandleInit ==
    /\ object = [o \in Object |-> NewObject]
    /\ conn = [o \in Object |-> [k \in Slot |-> NewConn]]
    /\ native = NoNative

\* Script code is running, at a point where it can call a native.
ScriptRuns == native = NoNative

IsOpen(o) == object[o].state = "open"

-----------------------------------------------------------------------------
(***************************************************************************)
(* Queries: CHandle::Execute, THREADED and PARALLEL.                       *)
(***************************************************************************)

\* Mutant: m_Queue takes one query too many.
QueueOneMore(o, k) ==
    /\ conn[o][k].given < MaxGiven
    /\ conn' = [conn EXCEPT ![o][k].given = @ + 1,
                            ![o][k].queued = IF @ <= Capacity THEN @ + 1 ELSE @]

\* CThreadedConnection::Queue.  A full m_Queue refuses the query.
Queue(o, k) ==
    /\ conn[o][k].given < MaxGiven
    /\ conn' = [conn EXCEPT ![o][k].given = @ + 1,
                            ![o][k].queued = IF @ < Capacity THEN @ + 1 ELSE @]

TQuery(o) ==
    /\ ScriptRuns
    /\ IsOpen(o)
    /\ Queue(o, Threaded)
    /\ UNCHANGED <<object, native>>

\* m_CurrentNode->Next
RingNext(o, k) == IF k = object[o].size + 1 THEN 2 ELSE k + 1

\* Mutant: the ring advances only if the query has been accepted.
PQueryIfAccepted(o) ==
    /\ ScriptRuns
    /\ IsOpen(o)
    /\ object[o].size # 0
    /\ LET k == object[o].current
       IN  /\ Queue(o, k)
           /\ object' = [object EXCEPT ![o].current =
                            IF conn[o][k].queued < Capacity THEN RingNext(o, k) ELSE k]
    /\ UNCHANGED native

\* CConnectionPool::Queue: the ring advances first, then the query is given
\* to the connection that was current.  Without a pool the native returns 0.
PQuery(o) ==
    /\ ScriptRuns
    /\ IsOpen(o)
    /\ object[o].size # 0
    /\ Queue(o, object[o].current)
    /\ object' = [object EXCEPT ![o].current = RingNext(o, @)]
    /\ UNCHANGED native

\* The worker of a connection pops a query.  That it may not notice one for
\* a while (see ThreadedConnection) is one of the orders of these steps.
WorkerTake(o, k) ==
    /\ conn[o][k].queued > 0 /\ conn[o][k].inHand = 0
    /\ conn' = [conn EXCEPT ![o][k].queued = @ - 1, ![o][k].inHand = 1,
                            ![o][k].started = TRUE]
    /\ UNCHANGED <<object, native>>

\* ... and counts it down after it has been executed.
WorkerFinish(o, k) ==
    /\ conn[o][k].inHand = 1
    /\ conn' = [conn EXCEPT ![o][k].inHand = 0]
    /\ UNCHANGED <<object, native>>

-----------------------------------------------------------------------------
(***************************************************************************)
(* Natives that go from connection to connection: the main one first (not  *)
(* for the count), then the threaded one, then once around the ring,       *)
(* starting at m_CurrentNode.                                              *)
(***************************************************************************)
Begin(op, o, k, charset) ==
    native' = [NoNative EXCEPT !.op = op, !.object = o, !.at = k,
                               !.charset = charset]

\* Mutant: the loop ends one connection too early.
IsLastEarly(o, k) ==
    IF k = Threaded THEN object[o].size = 0
    ELSE k # Main /\ RingNext(o, RingNext(o, k)) = object[o].current

\* Slot k of object o is the last one.
IsLast(o, k) ==
    IF k = Threaded THEN object[o].size = 0
    ELSE k # Main /\ RingNext(o, k) = object[o].current

Following(o, k) ==
    IF k = Main THEN Threaded
    ELSE IF k = Threaded THEN object[o].current
    ELSE RingNext(o, k)

\* CThreadedConnection::GetUnprocessedQueryCount
Unprocessed(o, k) == conn[o][k].queued + conn[o][k].inHand

Counters(o) == [k \in Slot |-> Unprocessed(o, k)]

\* CHandle::GetUnprocessedQueryCount (before is history: the counters now).
CountBegin(o) ==
    /\ ScriptRuns
    /\ IsOpen(o)
    /\ native' = [NoNative EXCEPT !.op = "count", !.object = o, !.at = Threaded,
                                  !.before = Counters(o)]
    /\ UNCHANGED <<object, conn>>

CountNext ==
    /\ native.op = "count"
    /\ LET o == native.object
           k == native.at
       IN  native' = [native EXCEPT !.sum = @ + Unprocessed(o, k),
                                    !.op = IF IsLast(o, k) THEN "counted" ELSE @,
                                    !.at = IF IsLast(o, k) THEN @ ELSE Following(o, k)]
    /\ UNCHANGED <<object, conn>>

CountReturn ==
    /\ native.op = "counted"
    /\ native' = NoNative
    /\ UNCHANGED <<object, conn>>

\* CHandle::SetCharacterSet
CharsetBegin(o, charset) ==
    /\ ScriptRuns
    /\ IsOpen(o)
    /\ Begin("charset", o, Main, charset)
    /\ UNCHANGED <<object, conn>>

\* One connection takes the character set (agreed is history: no call has
\* stopped half-way since the last one that returned true).
CharsetNext ==
    /\ native.op = "charset"
    /\ LET o == native.object
           k == native.at
       IN  /\ conn' = [conn EXCEPT ![o][k].charset = native.charset]
           /\ object' = [object EXCEPT ![o].agreed = IF IsLast(o, k) THEN TRUE ELSE @]
           /\ native' = IF IsLast(o, k) THEN NoNative
                        ELSE [native EXCEPT !.at = Following(o, k)]

\* Mutant: the return value of one connection is ignored.
CharsetFailIgnored ==
    /\ native.op = "charset"
    /\ LET o == native.object
           k == native.at
       IN  /\ object' = [object EXCEPT ![o].agreed = IF IsLast(o, k) THEN TRUE ELSE @]
           /\ native' = IF IsLast(o, k) THEN NoNative
                        ELSE [native EXCEPT !.at = Following(o, k)]
    /\ UNCHANGED conn

\* A connection refuses it, or is not connected: the native returns false,
\* and the connections before keep what they have been given.
CharsetFail ==
    /\ native.op = "charset"
    /\ object' = [object EXCEPT ![native.object].agreed = @ /\ native.at = Main]
    /\ native' = NoNative
    /\ UNCHANGED conn

\* The destructors.  The threaded ones join their worker, which has executed
\* everything that was queued, or never run (see ThreadedConnection).
DestroyNext ==
    /\ native.op = "close"
    /\ LET o == native.object
           k == native.at
       IN  /\ k = Main \/ Unprocessed(o, k) = 0 \/ ~conn[o][k].started
           /\ conn' = [conn EXCEPT ![o][k] = NewConn]
           /\ native' = IF IsLast(o, k) THEN NoNative
                        ELSE [native EXCEPT !.at = Following(o, k)]
           /\ object' = IF IsLast(o, k)
                        THEN [object EXCEPT ![o] = [NewObject EXCEPT !.state = "deleted"]]
                        ELSE object

HandleNative(o) ==
    \/ TQuery(o) \/ PQuery(o) \/ CountBegin(o)
    \/ \E charset \in Charset : CharsetBegin(o, charset)

NativeGoesOn == CountNext \/ CountReturn \/ CharsetNext \/ CharsetFail \/ DestroyNext

WorkerStep(o, k) == WorkerTake(o, k) \/ WorkerFinish(o, k)
=============================================================================
