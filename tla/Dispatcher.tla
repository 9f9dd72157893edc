----------------------------- MODULE Dispatcher -----------------------------
(***************************************************************************)
(* CDispatcher: the queue through which worker threads hand the callback   *)
(* of a finished query to the server thread, and ProcessTick, which runs   *)
(* those callbacks.                                                        *)
(*                                                                         *)
(* m_QueueMtx is held by a worker for one push and by the server thread    *)
(* for the WHOLE of Process, callbacks included.  A push is one step, so   *)
(* the mutex is free exactly when the server thread is not in Process.     *)
(* This module owns two variables and is composed with the connections by  *)
(* ThreadedConnection.                                                     *)
(***************************************************************************)
EXTENDS Naturals, Sequences

VARIABLES
    dispatched,  \* CDispatcher::m_Queue, the functions still to be run
    mainAt       \* where the server thread is: "server" (running the game,
                 \* or script code called by it), "process" (in Process, at
                 \* the test of its loop) or "callback" (in Process, inside
                 \* the function at the front of the queue)

dispatcherVars == <<dispatched, mainAt>>

DispatcherInit ==
    /\ dispatched = <<>>
    /\ mainAt = "server"

QueueMtxFree == mainAt = "server"

\* Mutant: a stack instead of a queue.
DispatchLast(func) ==
    /\ QueueMtxFree
    /\ dispatched' = <<func>> \o dispatched
    /\ UNCHANGED mainAt

\* A worker appends func: it waits for m_QueueMtx, pushes and releases.
Dispatch(func) ==
    /\ QueueMtxFree
    /\ dispatched' = Append(dispatched, func)
    /\ UNCHANGED mainAt

\* ProcessTick calls Process, which takes m_QueueMtx.
ProcessBegin ==
    /\ QueueMtxFree
    /\ mainAt' = "process"
    /\ UNCHANGED dispatched

\* m_Queue.front()() is called; the element stays in the queue meanwhile.
CallFront ==
    /\ mainAt = "process"
    /\ dispatched # <<>>
    /\ mainAt' = "callback"
    /\ UNCHANGED dispatched

\* Mutant: the whole queue is cleared after the first function.
PopAll ==
    /\ mainAt = "callback"
    /\ mainAt' = "process"
    /\ dispatched' = <<>>

\* The function has returned: m_Queue.pop().
PopFront ==
    /\ mainAt = "callback"
    /\ mainAt' = "process"
    /\ dispatched' = Tail(dispatched)

\* The loop ends on an empty queue only, and the mutex is released.
ProcessEnd ==
    /\ mainAt = "process"
    /\ dispatched = <<>>
    /\ mainAt' = "server"
    /\ UNCHANGED dispatched
=============================================================================
