-------------------------------- MODULE Plugin --------------------------------
(***************************************************************************)
(* The life of the plugin: scripts are loaded and unloaded while their     *)
(* queries are under way, threads create the dispatcher the first time     *)
(* they need it, and Unload destroys it.                                   *)
(*                                                                         *)
(* The server thread runs scripts and natives, ProcessTick, AmxLoad,       *)
(* AmxUnload and Unload; a worker executes the queries it was given.       *)
(* mysql_close keeps the server thread until the worker has ended, in a    *)
(* callback too, where Process still holds the mutex the worker may need.  *)
(* CDispatcher::Get is not synchronised: its test, its assignment and the  *)
(* read of its return value are three steps, and the read, which races     *)
(* with assignments, may yield what the test has found or what is there.   *)
(* Dispatch and Process lock a mutex of the dispatcher they have been      *)
(* given, and Process keeps it while callbacks run.                        *)
(*                                                                         *)
(* When a worker takes a query out of m_Queue is left open here (see       *)
(* ThreadedConnection); the properties start when it has one in hand.      *)
(* The function it dispatches is any of those the natives make: the        *)
(* callback of a query, that of an ORM query after its result has been     *)
(* applied, or OnQueryError; what they do in the memory of a script before *)
(* its AMX is checked is no part of this module (Orm has the results).     *)
(***************************************************************************)
EXTENDS Naturals, Sequences

CONSTANTS
    Worker,      \* the threaded connections, each with its worker thread
    Server,      \* the server thread
    Address,     \* addresses at which the server puts an AMX
    MaxScripts,  \* bound: scripts ever loaded
    MaxQueries   \* bound: queries ever accepted

ASSUME ThreadAssumption == Server \notin Worker
ASSUME BoundAssumption == MaxScripts \in Nat /\ MaxQueries \in Nat

Thread == Worker \union {Server}
Query == 1 .. MaxQueries

VARIABLES
    phase,     \* how far Unload has come
    loaded,    \* the addresses at which an AMX is loaded
    valid,     \* CCallbackManager::m_AmxInstances
    scripts,   \* how many have ever been loaded
    sent,      \* sent[q]: the AMX of the script that sent query q
    jobs,      \* jobs[w]: accepted queries worker w has not answered
    open,      \* open[w]: "none", "open", "closing" or "closed"
    started,   \* the workers that have begun WorkerFunc
    instance,  \* CDispatcher::m_Instance, as a number, or 0
    made,      \* how many dispatchers have been created
    queue,     \* queue[d]: m_Queue of dispatcher d
    deleted,   \* the dispatchers that have been deleted
    at,        \* at[t]: where thread t is in Get, and in what called it
    seen,      \* seen[t]: the dispatcher it has got
    early,     \* history: whether its Get began before creation was over
    ran,       \* history: the functions that have been run
    dangling,  \* history: the workers that used a deleted dispatcher
    leftOpen   \* history: the workers whose connections Unload found open

scriptVars == <<loaded, valid, scripts>>
queryVars == <<sent, jobs, open, started>>
getVars == <<instance, made, at, seen, early>>
historyVars == <<ran, dangling, leftOpen>>
vars == <<phase, scriptVars, queryVars, getVars, queue, deleted, historyVars>>

Init ==
    /\ phase = "running"
    /\ loaded = {} /\ valid = {} /\ scripts = 0
    /\ sent = <<>> /\ jobs = [w \in Worker |-> <<>>]
    /\ open = [w \in Worker |-> "none"] /\ started = {}
    /\ instance = 0 /\ made = 0 /\ queue = <<>> /\ deleted = {}
    /\ at = [t \in Thread |-> "idle"] /\ seen = [t \in Thread |-> 0]
    /\ early = [t \in Thread |-> FALSE]
    /\ ran = {} /\ dangling = {} /\ leftOpen = {}

-----------------------------------------------------------------------------
(***************************************************************************)
(* CSingleton<CDispatcher>::Get.                                           *)
(***************************************************************************)

\* No dispatcher exists, or a thread is about to create another one.
RaceOpen == instance = 0 \/ \E t \in Thread : at[t] = "new"

\* Mutant: every call creates an instance.
GetTestNot(t) ==
    /\ at' = [at EXCEPT ![t] = "new"]
    /\ seen' = [seen EXCEPT ![t] = instance]
    /\ early' = [early EXCEPT ![t] = RaceOpen]
    /\ UNCHANGED <<instance, made>>

\* if (m_Instance == nullptr)
GetTest(t) ==
    /\ at' = [at EXCEPT ![t] = IF instance = 0 THEN "new" ELSE "read"]
    /\ seen' = [seen EXCEPT ![t] = instance]
    /\ early' = [early EXCEPT ![t] = RaceOpen]
    /\ UNCHANGED <<instance, made>>

\* m_Instance = new T;
GetNew(t) ==
    /\ at[t] = "new"
    /\ made' = made + 1
    /\ instance' = made'
    /\ queue' = Append(queue, <<>>)
    /\ at' = [at EXCEPT ![t] = "read"]
    /\ seen' = [seen EXCEPT ![t] = made']
    /\ UNCHANGED <<phase, scriptVars, queryVars, early, deleted, historyVars>>

\* return m_Instance;
GetRead(t) ==
    /\ at[t] = "read"
    /\ \E d \in {instance, seen[t]} : seen' = [seen EXCEPT ![t] = d]
    /\ at' = [at EXCEPT ![t] = "use"]
    /\ UNCHANGED <<phase, scriptVars, queryVars, instance, made, early, queue, deleted,
                   historyVars>>

\* The call Get was for has returned.
GetDone(t) ==
    /\ at' = [at EXCEPT ![t] = "idle"]
    /\ seen' = [seen EXCEPT ![t] = 0]
    /\ early' = [early EXCEPT ![t] = FALSE]

-----------------------------------------------------------------------------
(***************************************************************************)
(* The workers.                                                            *)
(***************************************************************************)

\* WorkerFunc begins, and locks m_QueueNotifierMutex.
WorkerStart(w) ==
    /\ open[w] \in {"open", "closing"} /\ w \notin started
    /\ started' = started \union {w}
    /\ UNCHANGED <<phase, scriptVars, sent, jobs, open, getVars, queue, deleted,
                   historyVars>>

\* The worker has executed its next query and calls CDispatcher::Get.
Executed(w) ==
    /\ w \in started
    /\ at[w] = "idle" /\ jobs[w] # <<>>
    /\ GetTest(w)
    /\ UNCHANGED <<phase, scriptVars, queryVars, queue, deleted, historyVars>>

\* Process, which has locked m_QueueMtx of dispatcher d, or a callback in it.
Processes(d) == at[Server] \in {"use", "script", "skipped"} /\ seen[Server] = d

\* CDispatcher::Dispatch, with CallCallback or CallErrorCallback of the query.
\* In a dispatcher that is gone it does anything; the function goes nowhere.
Dispatch(w) ==
    /\ at[w] = "use" /\ ~Processes(seen[w])
    /\ LET f == [query |-> Head(jobs[w]), early |-> early[w]]
           alive == seen[w] # 0 /\ seen[w] \notin deleted
       IN  /\ queue' = IF alive THEN [queue EXCEPT ![seen[w]] = Append(@, f)] ELSE queue
           /\ dangling' = IF alive THEN dangling ELSE dangling \union {w}
    /\ jobs' = [jobs EXCEPT ![w] = Tail(@)]
    /\ GetDone(w)
    /\ UNCHANGED <<phase, scriptVars, sent, open, started, instance, made, deleted, ran,
                   leftOpen>>

-----------------------------------------------------------------------------
(***************************************************************************)
(* The server thread.                                                      *)
(***************************************************************************)

\* The server thread is in mysql_close and joins a worker.
Closing == \E w \in Worker : open[w] = "closing"

\* main.cpp, ProcessTick: CDispatcher::Get()->Process().
ProcessTick ==
    /\ phase = "running" /\ at[Server] = "idle" /\ ~Closing
    /\ GetTest(Server)
    /\ UNCHANGED <<phase, scriptVars, queryVars, queue, deleted, historyVars>>

FirstFunction == Head(queue[seen[Server]])

\* CCallback::Execute: script code runs only in a valid AMX.
Answers(f) == sent[f.query] \in valid

\* m_Queue.front()(), up to the script code.  There need not be any: a query
\* has a callback or none, a script has OnQueryError or not, and an ORM query
\* that has failed runs nothing.
RunFront ==
    /\ at[Server] = "use" /\ queue[seen[Server]] # <<>>
    /\ \E next \in {"script", "skipped"} :
          /\ next = "script" => Answers(FirstFunction)
          /\ at' = [at EXCEPT ![Server] = next]
    /\ ran' = ran \union {FirstFunction.query}
    /\ UNCHANGED <<phase, scriptVars, queryVars, instance, made, seen, early, queue,
                   deleted, dangling, leftOpen>>

\* Mutant: the queue is cleared after a callback.
FrontReturnsAndClears ==
    /\ at[Server] \in {"script", "skipped"} /\ ~Closing
    /\ queue' = [queue EXCEPT ![seen[Server]] = <<>>]
    /\ at' = [at EXCEPT ![Server] = "use"]
    /\ UNCHANGED <<phase, scriptVars, queryVars, instance, made, seen, early, deleted,
                   historyVars>>

\* The function returns: m_Queue.pop().
FrontReturns ==
    /\ at[Server] \in {"script", "skipped"} /\ ~Closing
    /\ queue' = [queue EXCEPT ![seen[Server]] = Tail(@)]
    /\ at' = [at EXCEPT ![Server] = "use"]
    /\ UNCHANGED <<phase, scriptVars, queryVars, instance, made, seen, early, deleted,
                   historyVars>>

\* while (m_Queue.empty() == false) ends, and the mutex is unlocked.
ProcessReturns ==
    /\ at[Server] = "use" /\ queue[seen[Server]] = <<>>
    /\ GetDone(Server)
    /\ UNCHANGED <<phase, scriptVars, queryVars, instance, made, queue, deleted,
                   historyVars>>

-----------------------------------------------------------------------------
(***************************************************************************)
(* Scripts and their natives.                                              *)
(***************************************************************************)

\* Script code runs, in a callback or outside of ProcessTick.
ScriptRuns == phase = "running" /\ at[Server] \in {"idle", "script"} /\ ~Closing

\* main.cpp, AmxLoad.
AmxLoad(a) ==
    /\ ScriptRuns
    /\ a \notin loaded /\ scripts < MaxScripts
    /\ scripts' = scripts + 1
    /\ loaded' = loaded \union {a}
    /\ valid' = valid \union {a}
    /\ UNCHANGED <<phase, queryVars, getVars, queue, deleted, historyVars>>

\* Mutant: the AMX is not removed.
AmxUnloadOnly(a) ==
    /\ ScriptRuns
    /\ a \in loaded
    /\ at[Server] = "script" => sent[FirstFunction.query] # a
    /\ loaded' = loaded \ {a}
    /\ UNCHANGED <<phase, valid, scripts, queryVars, getVars, queue, deleted,
                   historyVars>>

\* main.cpp, AmxUnload, after which the server frees the AMX.  A script is not
\* unloaded while a callback of its own runs.
AmxUnload(a) ==
    /\ ScriptRuns
    /\ a \in loaded
    /\ at[Server] = "script" => sent[FirstFunction.query] # a
    /\ loaded' = loaded \ {a}
    /\ valid' = valid \ {a}
    /\ UNCHANGED <<phase, scripts, queryVars, getVars, queue, deleted, historyVars>>

\* mysql_connect
Connect(w) ==
    /\ ScriptRuns
    /\ open[w] = "none"
    /\ open' = [open EXCEPT ![w] = "open"]
    /\ UNCHANGED <<phase, scriptVars, sent, jobs, started, getVars, queue, deleted,
                   historyVars>>

\* A query for the worker, mysql_tquery or one of an ORM instance, sent by the
\* script at address a.
SendQuery(a, w) ==
    /\ ScriptRuns
    /\ a \in loaded /\ open[w] = "open" /\ Len(sent) < MaxQueries
    /\ sent' = Append(sent, a)
    /\ jobs' = [jobs EXCEPT ![w] = Append(@, Len(sent'))]
    /\ UNCHANGED <<phase, scriptVars, open, started, getVars, queue, deleted,
                   historyVars>>

\* mysql_close: the destructor tells the worker to end, and joins it.
Close(w) ==
    /\ ScriptRuns
    /\ open[w] = "open"
    /\ open' = [open EXCEPT ![w] = "closing"]
    /\ UNCHANGED <<phase, scriptVars, sent, jobs, started, getVars, queue, deleted,
                   historyVars>>

\* Mutant: the worker is detached, not joined.
CloseDetaches(w) ==
    /\ open[w] = "closing"
    /\ open' = [open EXCEPT ![w] = "closed"]
    /\ UNCHANGED <<phase, scriptVars, sent, jobs, started, getVars, queue, deleted,
                   historyVars>>

\* The worker has ended.  It drains its queue before, unless it finds in
\* the very beginning that it is to end; then what is in the queue is dropped.
CloseJoin(w) ==
    /\ open[w] = "closing"
    /\ at[w] = "idle" /\ (w \in started => jobs[w] = <<>>)
    /\ open' = [open EXCEPT ![w] = "closed"]
    /\ jobs' = [jobs EXCEPT ![w] = <<>>]
    /\ UNCHANGED <<phase, scriptVars, sent, started, getVars, queue, deleted, historyVars>>

-----------------------------------------------------------------------------
(***************************************************************************)
(* main.cpp, Unload.  The server has unloaded all scripts before.          *)
(***************************************************************************)

\* The managers before the dispatcher.  CHandleManager does not delete its
\* handles.
UnloadManagers ==
    /\ phase = "running" /\ at[Server] = "idle" /\ ~Closing
    /\ loaded = {}
    /\ phase' = "unloading"
    /\ valid' = {}
    /\ leftOpen' = {w \in Worker : open[w] = "open"}
    /\ UNCHANGED <<loaded, scripts, queryVars, getVars, queue, deleted, ran, dangling>>

\* CDispatcher::CSingleton::Destroy: if (m_Instance != nullptr) delete m_Instance;
UnloadDispatcher ==
    /\ phase = "unloading"
    /\ IF instance = 0
       THEN phase' = "unloaded" /\ UNCHANGED <<queue, deleted>>
       ELSE /\ phase' = "deleting"
            /\ deleted' = deleted \union {instance}
            /\ queue' = [queue EXCEPT ![instance] = <<>>]
    /\ UNCHANGED <<scriptVars, queryVars, getVars, historyVars>>

\* m_Instance = nullptr;
UnloadReset ==
    /\ phase = "deleting"
    /\ phase' = "unloaded"
    /\ instance' = 0
    /\ UNCHANGED <<scriptVars, queryVars, made, at, seen, early, queue, deleted,
                   historyVars>>

-----------------------------------------------------------------------------
ServerStep ==
    \/ ProcessTick \/ RunFront \/ FrontReturns \/ ProcessReturns
    \/ \E a \in Address : AmxLoad(a) \/ AmxUnload(a)
    \/ \E w \in Worker : Connect(w) \/ Close(w) \/ CloseJoin(w)
    \/ \E a \in Address, w \in Worker : SendQuery(a, w)
    \/ UnloadManagers \/ UnloadDispatcher \/ UnloadReset

WorkerStep(w) == WorkerStart(w) \/ Executed(w) \/ Dispatch(w)

Next ==
    \/ ServerStep
    \/ \E w \in Worker : WorkerStep(w)
    \/ \E t \in Thread : GetNew(t) \/ GetRead(t)

\* A worker that has been told to end and had begun drains its queue.
Drains(w) == open[w] = "closing" /\ Executed(w)

\* Threads are scheduled, callbacks return, and the server calls ProcessTick
\* again and again.  A worker does not lose the race for m_QueueMtx for ever.
Fairness ==
    /\ \A t \in Thread : WF_vars(GetNew(t)) /\ WF_vars(GetRead(t))
    /\ \A w \in Worker : SF_vars(Dispatch(w)) /\ WF_vars(Drains(w)) /\ WF_vars(CloseJoin(w))
    /\ WF_vars(ProcessTick) /\ WF_vars(RunFront) /\ WF_vars(FrontReturns)
    /\ WF_vars(ProcessReturns)

Spec == Init /\ [][Next]_vars

FairSpec == Spec /\ Fairness

-----------------------------------------------------------------------------
(***************************************************************************)
(* Properties.                                                             *)
(***************************************************************************)
Function == [query : Query, early : BOOLEAN]

\* Every variable has its type, and IsValidAmx knows the scripts that are
\* loaded.
TypeOK ==
    /\ phase \in {"running", "unloading", "deleting", "unloaded"}
    /\ loaded \subseteq Address /\ valid = loaded /\ scripts \in 0 .. MaxScripts
    /\ sent \in Seq(Address) /\ Len(sent) <= MaxQueries
    /\ jobs \in [Worker -> Seq(Query)]
    /\ open \in [Worker -> {"none", "open", "closing", "closed"}]
    /\ started \subseteq Worker
    /\ made \in Nat /\ instance \in 0 .. made
    /\ queue \in Seq(Seq(Function)) /\ Len(queue) = made
    /\ deleted \subseteq 1 .. made
    /\ at \in [Thread -> {"idle", "new", "read", "use", "script", "skipped"}]
    /\ seen \in [Thread -> 0 .. made] /\ early \in [Thread -> BOOLEAN]
    /\ ran \subseteq Query /\ dangling \subseteq Worker /\ leftOpen \subseteq Worker

\* Several threads may create a dispatcher at the same time, and functions may
\* go to one that is replaced and that ProcessTick never sees.  But only those
\* of threads whose Get began before the last creation was over: from then on,
\* every function goes to the dispatcher that ProcessTick processes, although
\* nothing is synchronised.
LostOnlyInTheRace ==
    phase = "running" =>
       \A d \in 1 .. made \ {instance} : \A i \in DOMAIN queue[d] : queue[d][i].early

\* CHandleManager leaves the handles the scripts have not closed to themselves.
\* The workers of these, and no others, go on after Unload and may use the
\* dispatcher it has deleted or create another one: whoever's connection was
\* closed, with queries under way or not, is done when Unload begins.
OnlyLeftOpenGoesOn ==
    /\ dangling \subseteq leftOpen
    /\ phase # "running" => \A w \in Worker \ leftOpen : at[w] = "idle" /\ jobs[w] = <<>>
    /\ phase = "unloaded" /\ leftOpen = {} => instance = 0

\* A callback closes the connection of a worker that has to dispatch first:
\* Process holds the mutex for which the worker waits, and waits for the worker.
Hangs == \E w \in Worker : open[w] = "closing" /\ at[w] = "use" /\ Processes(seen[w])

\* A worker that has executed a query, after the dispatcher has come into
\* being: the function of the query is run, unless Unload comes first or a
\* callback closes a connection and hangs.  Closing one elsewhere, or one that
\* has nothing to dispatch, only delays it.
Done(q) == \E w \in Worker : at[w] # "idle" /\ ~early[w] /\ Head(jobs[w]) = q
DoneIsAnswered ==
    \A q \in Query : Done(q) ~> (q \in ran \/ phase # "running" \/ Hangs)
=============================================================================
