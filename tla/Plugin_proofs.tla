----------------------------- MODULE Plugin_proofs -----------------------------
(***************************************************************************)
(* Unloaded scripts, the race for the first dispatcher, and Unload: for    *)
(* any number of workers, scripts and queries.                             *)
(***************************************************************************)
EXTENDS Plugin, TLAPS

\* What is true of a thread wherever it is.
ThreadInv ==
    /\ \A t \in Thread : at[t] \notin {"idle", "new"} /\ phase = "running" =>
          seen[t] # 0 /\ instance # 0
    /\ at[Server] # "idle" => phase = "running"
    /\ at[Server] \in {"script", "skipped"} => queue[seen[Server]] # <<>>

\* Only open connections have work to do, and Unload knows of them.
OpenInv ==
    /\ \A w \in Worker : at[w] # "idle" => jobs[w] # <<>>
    /\ \A w \in Worker : jobs[w] # <<>> => open[w] \in {"open", "closing"}
    /\ phase = "running" => deleted = {} /\ leftOpen = {}
    /\ phase # "running" =>
          \A w \in Worker \ leftOpen : open[w] \notin {"open", "closing"}

\* What the workers of connections that were left open can do after Unload.
UnloadInv ==
    /\ dangling \subseteq leftOpen
    /\ phase = "unloaded" /\ leftOpen = {} => instance = 0

\* No thread will create a dispatcher any more.
Settled == instance # 0 /\ \A t \in Thread : at[t] # "new"

\* A thread whose Get has begun when this was so has got the dispatcher that
\* is still the instance.
RaceInv ==
    phase = "running" =>
       /\ \A t \in Thread : at[t] # "idle" /\ early[t] = FALSE =>
             Settled /\ seen[t] = instance
       /\ \A d \in 1 .. made : \A i \in DOMAIN queue[d] :
             queue[d][i].early = FALSE => Settled /\ d = instance

PluginInv ==
    /\ TypeOK /\ ThreadInv /\ OpenInv /\ RaceInv /\ UnloadInv

-----------------------------------------------------------------------------
(***************************************************************************)
(* m_Queue of the dispatchers.                                             *)
(***************************************************************************)
LEMMA QueueSet ==
    \A q \in Seq(Seq(Function)), s \in Seq(Function) : \A d \in 1 .. Len(q) :
       /\ [q EXCEPT ![d] = s] \in Seq(Seq(Function))
       /\ Len([q EXCEPT ![d] = s]) = Len(q)
       /\ [q EXCEPT ![d] = s][d] = s
       /\ \A e \in 1 .. Len(q) : e # d => [q EXCEPT ![d] = s][e] = q[e]
<1> TAKE q \in Seq(Seq(Function)), s \in Seq(Function)
<1> TAKE d \in 1 .. Len(q)
<1> QED
    OBVIOUS

LEMMA FunctionTail ==
    \A s \in Seq(Function) : s # <<>> =>
       /\ Head(s) \in Function /\ Tail(s) \in Seq(Function)
       /\ \A i \in DOMAIN Tail(s) : i + 1 \in DOMAIN s /\ Tail(s)[i] = s[i + 1]
<1> TAKE s \in Seq(Function)
<1> QED
    OBVIOUS

LEMMA JobAppend ==
    \A s \in Seq(Query), q \in Query : Append(s, q) \in Seq(Query) /\ Append(s, q) # <<>>
<1> TAKE s \in Seq(Query), q \in Query
<1>1. Append(s, q) \in Seq(Query)
    OBVIOUS
<1>2. Len(s) \in Nat /\ Len(Append(s, q)) = Len(s) + 1
    OBVIOUS
<1>3. Len(<<>>) = 0
    OBVIOUS
<1> QED
    BY <1>1, <1>2, <1>3

LEMMA FunctionAppend ==
    \A s \in Seq(Function), f \in Function :
       /\ Append(s, f) \in Seq(Function)
       /\ \A i \in DOMAIN Append(s, f) :
             (i \in DOMAIN s /\ Append(s, f)[i] = s[i]) \/ Append(s, f)[i] = f
<1> TAKE s \in Seq(Function), f \in Function
<1> QED
    OBVIOUS

-----------------------------------------------------------------------------
(***************************************************************************)
(* The steps.                                                              *)
(***************************************************************************)
LEMMA PluginInit == Init => PluginInv
<1> SUFFICES ASSUME Init PROVE PluginInv
    OBVIOUS
<1>1. TypeOK
    <2>1. /\ queue \in Seq(Seq(Function)) /\ Len(queue) = made
          /\ sent \in Seq(Address) /\ Len(sent) <= MaxQueries
          /\ scripts \in 0 .. MaxScripts
        BY BoundAssumption DEF Init
    <2>2. /\ jobs \in [Worker -> Seq(Query)]
          /\ open \in [Worker -> {"none", "open", "closing", "closed"}]
        BY DEF Init
    <2>3. /\ at \in [Thread -> {"idle", "new", "read", "use", "script", "skipped"}]
          /\ made \in Nat /\ instance \in 0 .. made /\ seen \in [Thread -> 0 .. made]
        BY DEF Init
    <2>4. early \in [Thread -> BOOLEAN]
        BY DEF Init
    <2> QED
        BY <2>1, <2>2, <2>3, <2>4 DEF Init, TypeOK
<1>2. ThreadInv /\ OpenInv /\ RaceInv
    BY DEF Init, ThreadInv, OpenInv, RaceInv, Thread
<1> QED
    BY <1>1, <1>2 DEF Init, PluginInv, UnloadInv

\* The start of Get, for a thread that needs a dispatcher.
LEMMA GetTestKeeps ==
    ASSUME PluginInv, NEW t \in Thread, at[t] = "idle", GetTest(t),
           t = Server => phase = "running", t # Server => jobs[t] # <<>>,
           UNCHANGED <<phase, scriptVars, queryVars, queue, deleted, historyVars>>
    PROVE  PluginInv'
<1>1. /\ at' = [at EXCEPT ![t] = IF instance = 0 THEN "new" ELSE "read"]
      /\ seen' = [seen EXCEPT ![t] = instance]
      /\ early' = [early EXCEPT ![t] = RaceOpen]
      /\ UNCHANGED <<instance, made>>
    BY DEF GetTest
<1>2. UNCHANGED <<phase, loaded, valid, scripts, sent, jobs, open, started, queue,
                  deleted, ran, dangling, leftOpen>>
    BY DEF scriptVars, queryVars, historyVars
<1>3. TypeOK /\ ThreadInv /\ OpenInv /\ RaceInv
    BY DEF PluginInv
<1>4. TypeOK'
    <2>1. RaceOpen \in BOOLEAN
        BY DEF RaceOpen
    <2> QED
        BY <1>1, <1>2, <1>3, <2>1 DEF TypeOK
<1>5. \A s \in Thread : s # t => at'[s] = at[s] /\ seen'[s] = seen[s] /\ early'[s] = early[s]
    BY <1>1, <1>3 DEF TypeOK
<1>6. /\ at'[t] = (IF instance = 0 THEN "new" ELSE "read") /\ seen'[t] = instance
      /\ early'[t] = RaceOpen
    BY <1>1, <1>3 DEF TypeOK
<1>7. ThreadInv'
    BY <1>1, <1>2, <1>3, <1>5, <1>6 DEF ThreadInv, Thread
<1>8. OpenInv'
    BY <1>2, <1>3, <1>5, ThreadAssumption DEF OpenInv, Thread
<1>9. RaceInv'
    <2>1. Settled => Settled'
        BY <1>1, <1>5, <1>6 DEF Settled
    <2>2. early'[t] = FALSE => Settled
        BY <1>6 DEF RaceOpen, Settled
    <2>3. ASSUME phase = "running", NEW s \in Thread, at'[s] # "idle", early'[s] = FALSE
          PROVE  Settled' /\ seen'[s] = instance'
        <3>1. CASE s = t
            BY <1>1, <1>6, <2>1, <2>2, <2>3, <3>1
        <3>2. CASE s # t
            BY <1>1, <1>3, <1>5, <2>1, <2>3, <3>2 DEF RaceInv
        <3> QED
            BY <3>1, <3>2
    <2> QED
        BY <1>1, <1>2, <1>3, <2>1, <2>3 DEF RaceInv
<1> QED
    BY <1>1, <1>2, <1>4, <1>7, <1>8, <1>9
       DEF PluginInv, UnloadInv

LEMMA GetNewKeeps ==
    ASSUME PluginInv, NEW t \in Thread, GetNew(t)
    PROVE  PluginInv'
<1>1. /\ at[t] = "new" /\ made' = made + 1 /\ instance' = made'
      /\ queue' = Append(queue, <<>>)
      /\ at' = [at EXCEPT ![t] = "read"]
      /\ seen' = [seen EXCEPT ![t] = made']
    BY DEF GetNew
<1>2. UNCHANGED <<phase, loaded, valid, scripts, sent, jobs, open, started, early,
                  deleted, ran, dangling, leftOpen>>
    BY DEF GetNew, scriptVars, queryVars, historyVars
<1>3. TypeOK /\ ThreadInv /\ OpenInv /\ RaceInv
    BY DEF PluginInv
<1>4. made \in Nat /\ queue \in Seq(Seq(Function)) /\ Len(queue) = made
    BY <1>3 DEF TypeOK
<1>5. /\ queue' \in Seq(Seq(Function)) /\ Len(queue') = made + 1
      /\ \A d \in 1 .. made : queue'[d] = queue[d]
      /\ queue'[made + 1] = <<>>
    <2>1. <<>> \in Seq(Function)
        OBVIOUS
    <2> QED
        BY <1>1, <1>4, <2>1
<1>6. TypeOK'
    BY <1>1, <1>2, <1>3, <1>5 DEF TypeOK
<1>7. \A s \in Thread : s # t => at'[s] = at[s] /\ seen'[s] = seen[s]
    BY <1>1, <1>3 DEF TypeOK
<1>8. at'[t] = "read" /\ seen'[t] = made + 1
    BY <1>1, <1>3 DEF TypeOK
<1>9. ThreadInv'
    <2>1. \A s \in Thread : at'[s] \notin {"idle", "new"} /\ phase' = "running" =>
             seen'[s] # 0 /\ instance' # 0
        BY <1>1, <1>2, <1>3, <1>4, <1>7, <1>8 DEF ThreadInv
    <2>2. at'[Server] # "idle" => phase' = "running"
        BY <1>1, <1>2, <1>3, <1>7 DEF ThreadInv, Thread
    <2>3. ASSUME at'[Server] \in {"script", "skipped"}
          PROVE  queue'[seen'[Server]] # <<>>
        <3>1. Server # t /\ Server \in Thread
            BY <1>8, <2>3 DEF Thread
        <3>2. /\ at[Server] \in {"script", "skipped"} /\ seen'[Server] = seen[Server]
              /\ queue[seen[Server]] # <<>> /\ seen[Server] \in 1 .. made
            BY <1>3, <1>7, <2>3, <3>1 DEF ThreadInv, TypeOK
        <3> QED
            BY <1>5, <3>2
    <2> QED
        BY <2>1, <2>2, <2>3 DEF ThreadInv
<1>10. OpenInv'
    BY <1>1, <1>2, <1>3, <1>7 DEF OpenInv, Thread
<1>11. RaceInv'
    <2>1. ~Settled
        BY <1>1 DEF Settled
    <2>2. ASSUME phase = "running", NEW s \in Thread, at'[s] # "idle"
          PROVE  early'[s] # FALSE
        BY <1>1, <1>2, <1>3, <1>7, <2>1, <2>2 DEF RaceInv
    <2>3. ASSUME phase = "running", NEW d \in 1 .. made', NEW i \in DOMAIN queue'[d]
          PROVE  queue'[d][i].early # FALSE
        <3>1. d \in 1 .. made
            BY <1>1, <1>4, <1>5, <2>3
        <3> QED
            BY <1>3, <1>5, <2>1, <2>3, <3>1 DEF RaceInv
    <2> QED
        BY <1>2, <2>2, <2>3 DEF RaceInv
<1>12. UnloadInv'
    <2>1. phase # "running" => t \in leftOpen
        <3>1. t # Server \/ phase = "running"
            BY <1>1, <1>3 DEF ThreadInv
        <3> QED
            BY <1>1, <1>3, <3>1 DEF OpenInv, Thread
    <2> QED
        BY <1>2, <2>1 DEF PluginInv, UnloadInv
<1> QED
    BY <1>6, <1>9, <1>10, <1>11, <1>12 DEF PluginInv

LEMMA GetReadKeeps ==
    ASSUME PluginInv, NEW t \in Thread, GetRead(t)
    PROVE  PluginInv'
<1>1. PICK d \in {instance, seen[t]} : seen' = [seen EXCEPT ![t] = d]
    BY DEF GetRead
<1>2. /\ at[t] = "read" /\ at' = [at EXCEPT ![t] = "use"]
      /\ UNCHANGED <<phase, loaded, valid, scripts, sent, jobs, open, started, instance,
                     made, early, queue, deleted, ran, dangling, leftOpen>>
    BY DEF GetRead, scriptVars, queryVars, historyVars
<1>3. TypeOK /\ ThreadInv /\ OpenInv /\ RaceInv
    BY DEF PluginInv
<1>4. d \in 0 .. made
    BY <1>3 DEF TypeOK
<1>5. TypeOK'
    BY <1>1, <1>2, <1>3, <1>4 DEF TypeOK
<1>6. /\ \A s \in Thread : s # t => at'[s] = at[s] /\ seen'[s] = seen[s]
      /\ at'[t] = "use" /\ seen'[t] = d
    BY <1>1, <1>2, <1>3 DEF TypeOK
<1>7. ThreadInv'
    BY <1>2, <1>3, <1>6 DEF ThreadInv, Thread
<1>8. OpenInv'
    BY <1>2, <1>3, <1>6 DEF OpenInv, Thread
<1>9. RaceInv'
    <2>1. Settled' <=> Settled
        BY <1>2, <1>6 DEF Settled
    <2>2. ASSUME phase = "running", NEW s \in Thread, at'[s] # "idle", early[s] = FALSE
          PROVE  Settled' /\ seen'[s] = instance
        BY <1>2, <1>3, <1>6, <2>1, <2>2 DEF RaceInv
    <2> QED
        BY <1>2, <1>3, <2>1, <2>2 DEF RaceInv
<1> QED
    BY <1>2, <1>5, <1>7, <1>8, <1>9
       DEF PluginInv, UnloadInv

\* The end of Get's caller: the thread needs its dispatcher no longer.
LEMMA GetDoneKeeps ==
    ASSUME PluginInv, NEW t \in Thread, GetDone(t), UNCHANGED <<phase, instance, made>>
    PROVE  /\ at' \in [Thread -> {"idle", "new", "read", "use", "script", "skipped"}]
           /\ seen' \in [Thread -> 0 .. made'] /\ early' \in [Thread -> BOOLEAN]
           /\ \A s \in Thread \ {t} : /\ at'[s] = at[s] /\ seen'[s] = seen[s]
                                      /\ early'[s] = early[s]
           /\ at'[t] = "idle"
           /\ Settled => Settled'
           /\ phase = "running" =>
                 \A s \in Thread : at'[s] # "idle" /\ early'[s] = FALSE =>
                    Settled' /\ seen'[s] = instance'
<1>1. /\ at' = [at EXCEPT ![t] = "idle"] /\ seen' = [seen EXCEPT ![t] = 0]
      /\ early' = [early EXCEPT ![t] = FALSE]
    BY DEF GetDone
<1>2. TypeOK /\ RaceInv
    BY DEF PluginInv
<1>3. /\ at' \in [Thread -> {"idle", "new", "read", "use", "script", "skipped"}]
      /\ \A s \in Thread \ {t} : at'[s] = at[s] /\ seen'[s] = seen[s]
      /\ at'[t] = "idle" /\ seen' \in [Thread -> 0 .. made']
    BY <1>1, <1>2 DEF TypeOK
<1>4. early' \in [Thread -> BOOLEAN] /\ \A s \in Thread \ {t} : early'[s] = early[s]
    BY <1>1, <1>2 DEF TypeOK
<1>5. Settled => Settled'
    BY <1>3 DEF Settled
<1> QED
    BY <1>2, <1>3, <1>4, <1>5 DEF RaceInv

LEMMA DispatchKeeps ==
    ASSUME PluginInv, NEW w \in Worker, Dispatch(w)
    PROVE  PluginInv'
<1> DEFINE f == [query |-> Head(jobs[w]), early |-> early[w]]
           alive == seen[w] # 0 /\ seen[w] \notin deleted
<1>1. /\ at[w] = "use" /\ ~Processes(seen[w]) /\ GetDone(w)
      /\ queue' = IF alive THEN [queue EXCEPT ![seen[w]] = Append(@, f)] ELSE queue
      /\ dangling' = IF alive THEN dangling ELSE dangling \union {w}
      /\ jobs' = [jobs EXCEPT ![w] = Tail(@)]
    BY DEF Dispatch
<1>2. UNCHANGED <<phase, loaded, valid, scripts, sent, open, started, instance, made,
                  deleted, ran, leftOpen>>
    BY DEF Dispatch, scriptVars
<1>3. TypeOK /\ ThreadInv /\ OpenInv /\ RaceInv /\ w \in Thread /\ w # Server
    BY ThreadAssumption DEF PluginInv, Thread
<1>4. /\ at' \in [Thread -> {"idle", "new", "read", "use", "script", "skipped"}]
      /\ seen' \in [Thread -> 0 .. made'] /\ early' \in [Thread -> BOOLEAN]
      /\ \A s \in Thread \ {w} : /\ at'[s] = at[s] /\ seen'[s] = seen[s]
                                 /\ early'[s] = early[s]
      /\ at'[w] = "idle"
      /\ Settled => Settled'
      /\ phase = "running" =>
            \A s \in Thread : at'[s] # "idle" /\ early'[s] = FALSE =>
               Settled' /\ seen'[s] = instance'
    BY <1>1, <1>2, <1>3, GetDoneKeeps
<1>5. /\ jobs[w] \in Seq(Query) /\ jobs[w] # <<>> /\ open[w] \in {"open", "closing"}
      /\ seen[w] \in 0 .. made /\ early[w] \in BOOLEAN
    BY <1>1, <1>3 DEF TypeOK, OpenInv
<1>6. /\ jobs' \in [Worker -> Seq(Query)]
      /\ \A v \in Worker \ {w} : jobs'[v] = jobs[v]
    BY <1>1, <1>3, <1>5 DEF TypeOK
<1>7. f \in Function /\ f.early = early[w]
    <2>1. Head(jobs[w]) \in Query
        BY <1>5
    <2> QED
        BY <1>5, <2>1 DEF Function
<1> HIDE DEF f
<1>8. /\ queue' \in Seq(Seq(Function)) /\ Len(queue') = made'
      /\ \A d \in 1 .. made : ~(alive /\ d = seen[w]) => queue'[d] = queue[d]
      /\ alive => queue'[seen[w]] = Append(queue[seen[w]], f)
    <2>1. queue \in Seq(Seq(Function)) /\ Len(queue) = made
        BY <1>3 DEF TypeOK
    <2>2. CASE alive
        <3>1. seen[w] \in 1 .. Len(queue) /\ queue[seen[w]] \in Seq(Function)
            BY <1>5, <2>1, <2>2
        <3>2. Append(queue[seen[w]], f) \in Seq(Function)
            BY <1>7, <3>1, FunctionAppend
        <3>3. queue' = [queue EXCEPT ![seen[w]] = Append(queue[seen[w]], f)]
            BY <1>1, <2>2
        <3> QED
            BY <1>2, <2>1, <2>2, <3>1, <3>2, <3>3, QueueSet
    <2>3. CASE ~alive
        BY <1>1, <1>2, <2>1, <2>3
    <2> QED
        BY <2>2, <2>3
<1>9. TypeOK'
    <2>1. dangling' \subseteq Worker
        BY <1>1, <1>3 DEF TypeOK
    <2> QED
        BY <1>2, <1>3, <1>4, <1>6, <1>8, <2>1 DEF TypeOK
<1>10. ThreadInv'
    <2>1. \A s \in Thread : at'[s] \notin {"idle", "new"} /\ phase' = "running" =>
             seen'[s] # 0 /\ instance' # 0
        BY <1>2, <1>3, <1>4 DEF ThreadInv
    <2>2. Server \in Thread \ {w}
        BY <1>3 DEF Thread
    <2>3. at'[Server] # "idle" => phase' = "running"
        BY <1>2, <1>3, <1>4, <2>2 DEF ThreadInv
    <2>4. ASSUME at'[Server] \in {"script", "skipped"}
          PROVE  queue'[seen'[Server]] # <<>>
        <3>1. /\ at[Server] \in {"script", "skipped"} /\ seen'[Server] = seen[Server]
              /\ queue[seen[Server]] # <<>> /\ phase = "running"
            BY <1>3, <1>4, <2>2, <2>4 DEF ThreadInv
        <3>2. seen[Server] \in 1 .. made /\ seen[Server] # seen[w]
            <4>1. seen[Server] # 0 /\ seen[Server] \in 0 .. made
                BY <1>3, <2>2, <3>1 DEF ThreadInv, TypeOK
            <4>2. seen[Server] # seen[w]
                BY <1>1, <3>1 DEF Processes
            <4> QED
                BY <1>3, <4>1, <4>2 DEF TypeOK
        <3> QED
            BY <1>8, <3>1, <3>2
    <2> QED
        BY <2>1, <2>3, <2>4 DEF ThreadInv
<1>11. OpenInv'
    <2>1. \A v \in Worker : (at'[v] # "idle" => jobs'[v] # <<>>)
                             /\ (jobs'[v] # <<>> => open'[v] \in {"open", "closing"})
        BY <1>2, <1>3, <1>4, <1>5, <1>6 DEF OpenInv, Thread
    <2> QED
        BY <1>2, <1>3, <2>1 DEF OpenInv
<1>12. RaceInv'
    <2>1. ASSUME phase = "running", NEW d \in 1 .. made, NEW i \in DOMAIN queue'[d],
                 queue'[d][i].early = FALSE
          PROVE  Settled' /\ d = instance
        <3>1. CASE i \in DOMAIN queue[d] /\ queue'[d][i] = queue[d][i]
            BY <1>3, <1>4, <2>1, <3>1 DEF RaceInv
        <3>2. CASE d = seen[w] /\ queue'[d][i] = f
            <4>1. early[w] = FALSE
                BY <1>7, <2>1, <3>2
            <4> QED
                BY <1>1, <1>3, <1>4, <2>1, <3>2, <4>1 DEF RaceInv
        <3>3. CASE alive /\ d = seen[w]
            <4>1. queue[d] \in Seq(Function)
                BY <1>3, <2>1 DEF TypeOK
            <4>2. \/ i \in DOMAIN queue[d] /\ queue'[d][i] = queue[d][i]
                  \/ queue'[d][i] = f
                BY <1>7, <1>8, <2>1, <3>3, <4>1, FunctionAppend
            <4> QED
                BY <3>1, <3>2, <3>3, <4>2
        <3>4. CASE ~(alive /\ d = seen[w])
            BY <1>8, <2>1, <3>1, <3>4
        <3> QED
            BY <3>3, <3>4
    <2> QED
        BY <1>2, <1>4, <2>1 DEF RaceInv
<1>13. UnloadInv'
    <2>1. ~alive => w \in leftOpen
        <3>1. phase = "running" => seen[w] # 0 /\ deleted = {}
            BY <1>1, <1>3 DEF ThreadInv, OpenInv
        <3> QED
            BY <1>3, <1>5, <3>1 DEF OpenInv
    <2>2. dangling' \subseteq leftOpen
        BY <1>1, <2>1 DEF PluginInv, UnloadInv
    <2> QED
        BY <1>2, <2>2 DEF PluginInv, UnloadInv
<1> QED
    BY <1>9, <1>10, <1>11, <1>12, <1>13 DEF PluginInv

LEMMA RunFrontKeeps ==
    ASSUME PluginInv, RunFront
    PROVE  PluginInv'
<1>1. /\ at[Server] = "use" /\ queue[seen[Server]] # <<>>
      /\ ran' = ran \union {FirstFunction.query}
      /\ \E next \in {"script", "skipped"} : at' = [at EXCEPT ![Server] = next]
    BY DEF RunFront
<1>2. UNCHANGED <<phase, loaded, valid, scripts, sent, jobs, open, started, instance,
                  made, seen, early, queue, deleted, dangling, leftOpen>>
    BY DEF RunFront, scriptVars, queryVars
<1>3. TypeOK /\ ThreadInv /\ OpenInv /\ RaceInv /\ Server \in Thread
    BY DEF PluginInv, Thread
<1>4. /\ \A s \in Thread \ {Server} : at'[s] = at[s]
      /\ at'[Server] \in {"script", "skipped"}
      /\ at' \in [Thread -> {"idle", "new", "read", "use", "script", "skipped"}]
    BY <1>1, <1>3 DEF TypeOK
<1>5. FirstFunction \in Function
    <2>1. seen[Server] \in 1 .. Len(queue) /\ queue \in Seq(Seq(Function))
        <3>1. seen[Server] # 0
            BY <1>1, <1>3 DEF ThreadInv
        <3> QED
            BY <1>3, <3>1 DEF TypeOK
    <2>2. queue[seen[Server]] \in Seq(Function)
        BY <2>1
    <2> QED
        BY <1>1, <2>2, FunctionTail DEF FirstFunction
<1>6. TypeOK'
    <2>1. ran' \subseteq Query
        BY <1>1, <1>3, <1>5 DEF Function, TypeOK
    <2> QED
        BY <1>2, <1>3, <1>4, <2>1 DEF TypeOK
<1>7. ThreadInv'
    BY <1>1, <1>2, <1>3, <1>4 DEF ThreadInv, Thread
<1>8. OpenInv'
    BY <1>2, <1>3, <1>4, ThreadAssumption DEF OpenInv, Thread
<1>9. RaceInv'
    <2>1. Settled' <=> Settled
        BY <1>1, <1>2, <1>3, <1>4 DEF Settled
    <2>2. ASSUME phase = "running", NEW s \in Thread, at'[s] # "idle", early[s] = FALSE
          PROVE  Settled' /\ seen[s] = instance
        <3>1. at[s] # "idle"
            BY <1>1, <1>4, <2>2
        <3> QED
            BY <1>3, <2>1, <2>2, <3>1 DEF RaceInv
    <2> QED
        BY <1>2, <1>3, <2>1, <2>2 DEF RaceInv
<1> QED
    BY <1>2, <1>6, <1>7, <1>8, <1>9
       DEF PluginInv, UnloadInv

LEMMA FrontReturnsKeeps ==
    ASSUME PluginInv, FrontReturns
    PROVE  PluginInv'
<1>1. /\ at[Server] \in {"script", "skipped"}
      /\ queue' = [queue EXCEPT ![seen[Server]] = Tail(@)]
      /\ at' = [at EXCEPT ![Server] = "use"]
    BY DEF FrontReturns
<1>2. UNCHANGED <<phase, loaded, valid, scripts, sent, jobs, open, started, instance,
                  made, seen, early, deleted, ran, dangling, leftOpen>>
    BY DEF FrontReturns, scriptVars, queryVars, historyVars
<1>3. TypeOK /\ ThreadInv /\ OpenInv /\ RaceInv /\ Server \in Thread
    BY DEF PluginInv, Thread
<1>4. /\ \A s \in Thread \ {Server} : at'[s] = at[s]
      /\ at'[Server] = "use"
      /\ at' \in [Thread -> {"idle", "new", "read", "use", "script", "skipped"}]
    BY <1>1, <1>3 DEF TypeOK
<1>5. /\ queue' \in Seq(Seq(Function)) /\ Len(queue') = made'
      /\ \A d \in 1 .. made : d # seen[Server] => queue'[d] = queue[d]
      /\ seen[Server] \in 1 .. made
      /\ \A i \in DOMAIN queue'[seen[Server]] :
            /\ i + 1 \in DOMAIN queue[seen[Server]]
            /\ queue'[seen[Server]][i] = queue[seen[Server]][i + 1]
    <2>1. /\ seen[Server] \in 1 .. Len(queue) /\ queue \in Seq(Seq(Function))
          /\ Len(queue) = made /\ queue[seen[Server]] # <<>>
        BY <1>1, <1>3 DEF ThreadInv, TypeOK
    <2>2. queue[seen[Server]] \in Seq(Function)
        BY <2>1
    <2>3. /\ Tail(queue[seen[Server]]) \in Seq(Function)
          /\ \A i \in DOMAIN Tail(queue[seen[Server]]) :
                /\ i + 1 \in DOMAIN queue[seen[Server]]
                /\ Tail(queue[seen[Server]])[i] = queue[seen[Server]][i + 1]
        BY <2>1, <2>2, FunctionTail
    <2>4. queue' = [queue EXCEPT ![seen[Server]] = Tail(queue[seen[Server]])]
        BY <1>1
    <2>5. /\ queue' \in Seq(Seq(Function)) /\ Len(queue') = Len(queue)
          /\ queue'[seen[Server]] = Tail(queue[seen[Server]])
          /\ \A d \in 1 .. Len(queue) : d # seen[Server] => queue'[d] = queue[d]
        BY <2>1, <2>3, <2>4, QueueSet
    <2> QED
        BY <1>2, <2>1, <2>3, <2>5
<1>6. TypeOK'
    BY <1>2, <1>3, <1>4, <1>5 DEF TypeOK
<1>7. ThreadInv'
    BY <1>1, <1>2, <1>3, <1>4 DEF ThreadInv, Thread
<1>8. OpenInv'
    BY <1>2, <1>3, <1>4, ThreadAssumption DEF OpenInv, Thread
<1>9. RaceInv'
    <2>1. Settled' <=> Settled
        BY <1>1, <1>2, <1>3, <1>4 DEF Settled
    <2>2. ASSUME phase = "running", NEW s \in Thread, at'[s] # "idle", early[s] = FALSE
          PROVE  Settled' /\ seen[s] = instance
        <3>1. at[s] # "idle"
            BY <1>1, <1>4, <2>2
        <3> QED
            BY <1>3, <2>1, <2>2, <3>1 DEF RaceInv
    <2>3. ASSUME phase = "running", NEW d \in 1 .. made, NEW i \in DOMAIN queue'[d],
                 queue'[d][i].early = FALSE
          PROVE  Settled' /\ d = instance
        <3>1. CASE d = seen[Server]
            <4>1. i + 1 \in DOMAIN queue[d] /\ queue[d][i + 1].early = FALSE
                BY <1>5, <2>3, <3>1
            <4> QED
                BY <1>3, <2>1, <2>3, <4>1 DEF RaceInv
        <3>2. CASE d # seen[Server]
            BY <1>3, <1>5, <2>1, <2>3, <3>2 DEF RaceInv
        <3> QED
            BY <3>1, <3>2
    <2> QED
        BY <1>2, <2>2, <2>3 DEF RaceInv
<1> QED
    BY <1>2, <1>6, <1>7, <1>8, <1>9
       DEF PluginInv, UnloadInv

LEMMA ProcessReturnsKeeps ==
    ASSUME PluginInv, ProcessReturns
    PROVE  PluginInv'
<1>1. GetDone(Server)
    BY DEF ProcessReturns
<1>2. UNCHANGED <<phase, loaded, valid, scripts, sent, jobs, open, started, instance,
                  made, queue, deleted, ran, dangling, leftOpen>>
    BY DEF ProcessReturns, scriptVars, queryVars, historyVars
<1>3. TypeOK /\ ThreadInv /\ OpenInv /\ RaceInv /\ Server \in Thread
    BY DEF PluginInv, Thread
<1>4. /\ at' \in [Thread -> {"idle", "new", "read", "use", "script", "skipped"}]
      /\ seen' \in [Thread -> 0 .. made'] /\ early' \in [Thread -> BOOLEAN]
      /\ \A s \in Thread \ {Server} : at'[s] = at[s] /\ seen'[s] = seen[s]
      /\ at'[Server] = "idle"
      /\ Settled => Settled'
      /\ phase = "running" =>
            \A s \in Thread : at'[s] # "idle" /\ early'[s] = FALSE =>
               Settled' /\ seen'[s] = instance'
    BY <1>1, <1>2, <1>3, GetDoneKeeps
<1>5. TypeOK'
    BY <1>2, <1>3, <1>4 DEF TypeOK
<1>6. ThreadInv'
    BY <1>2, <1>3, <1>4 DEF ThreadInv
<1>7. OpenInv'
    BY <1>2, <1>3, <1>4, ThreadAssumption DEF OpenInv, Thread
<1>8. RaceInv'
    BY <1>2, <1>3, <1>4 DEF RaceInv
<1> QED
    BY <1>2, <1>5, <1>6, <1>7, <1>8
       DEF PluginInv, UnloadInv

\* Steps that leave all threads where they are, and the dispatchers.
LEMMA ThreadsStay ==
    ASSUME ThreadInv, RaceInv, UNCHANGED <<phase, instance, made, at, seen, early, queue>>
    PROVE  ThreadInv' /\ RaceInv'
BY DEF ThreadInv, RaceInv, Settled

LEMMA ScriptKeeps ==
    ASSUME PluginInv, NEW a \in Address, AmxLoad(a) \/ AmxUnload(a)
    PROVE  PluginInv'
<1>1. /\ UNCHANGED <<phase, sent, jobs, open, started, instance, made, at, seen, early,
                     queue, deleted, ran, dangling, leftOpen>>
      /\ loaded' \subseteq Address /\ valid' = loaded' /\ scripts' \in 0 .. MaxScripts
    <2>1. /\ loaded \subseteq Address /\ valid = loaded /\ scripts \in 0 .. MaxScripts
          /\ MaxScripts \in Nat
        BY BoundAssumption DEF PluginInv, TypeOK
    <2>2. CASE AmxLoad(a)
        <3>1. /\ UNCHANGED <<phase, sent, jobs, open, started, instance, made, at, seen,
                             early, queue, deleted, ran, dangling, leftOpen>>
            BY <2>2 DEF AmxLoad, queryVars, getVars, historyVars
        <3>2. /\ loaded' = loaded \union {a} /\ valid' = valid \union {a}
              /\ scripts' = scripts + 1 /\ scripts < MaxScripts
            BY <2>2 DEF AmxLoad
        <3> QED
            BY <2>1, <3>1, <3>2
    <2>3. CASE AmxUnload(a)
        <3>1. /\ UNCHANGED <<phase, sent, jobs, open, started, instance, made, at, seen,
                             early, queue, deleted, ran, dangling, leftOpen>>
            BY <2>3 DEF AmxUnload, queryVars, getVars, historyVars
        <3>2. /\ loaded' = loaded \ {a} /\ valid' = valid \ {a} /\ scripts' = scripts
            BY <2>3 DEF AmxUnload
        <3> QED
            BY <2>1, <3>1, <3>2
    <2> QED
        BY <2>2, <2>3
<1>2. TypeOK /\ ThreadInv /\ OpenInv /\ RaceInv
    BY DEF PluginInv
<1>3. TypeOK'
    BY <1>1, <1>2 DEF TypeOK
<1>4. ThreadInv' /\ RaceInv'
    BY <1>1, <1>2, ThreadsStay
<1>5. OpenInv'
    BY <1>1, <1>2 DEF OpenInv
<1> QED
    BY <1>1, <1>3, <1>4, <1>5
       DEF PluginInv, UnloadInv

LEMMA ConnectionKeeps ==
    ASSUME PluginInv, NEW w \in Worker, Connect(w) \/ Close(w) \/ CloseJoin(w)
    PROVE  PluginInv'
<1>1. PICK o \in {"open", "closing", "closed"} :
         /\ open' = [open EXCEPT ![w] = o]
         /\ o \in {"open", "closing"} => phase = "running" /\ jobs' = jobs
         /\ o = "closed" => at[w] = "idle" /\ jobs' = [jobs EXCEPT ![w] = <<>>]
    BY DEF Connect, Close, CloseJoin, ScriptRuns
<1>2. UNCHANGED <<phase, loaded, valid, scripts, sent, started, instance, made, at,
                  seen, early, queue, deleted, ran, dangling, leftOpen>>
    BY DEF Connect, Close, CloseJoin, scriptVars, getVars, historyVars
<1>3. TypeOK /\ ThreadInv /\ OpenInv /\ RaceInv
    BY DEF PluginInv
<1>4. \A v \in Worker : open'[v] = IF v = w THEN o ELSE open[v]
    BY <1>1, <1>3 DEF TypeOK
<1>5. /\ jobs' \in [Worker -> Seq(Query)]
      /\ \A v \in Worker \ {w} : jobs'[v] = jobs[v]
      /\ IF o = "closed" THEN jobs'[w] = <<>> ELSE jobs'[w] = jobs[w]
    <2>1. jobs \in [Worker -> Seq(Query)] /\ <<>> \in Seq(Query)
        BY <1>3 DEF TypeOK
    <2> QED
        BY <1>1, <2>1
<1>6. TypeOK'
    BY <1>1, <1>2, <1>3, <1>5 DEF TypeOK
<1>7. ThreadInv' /\ RaceInv'
    BY <1>2, <1>3, ThreadsStay
<1>8. OpenInv'
    <2>1. \A v \in Worker : (at[v] # "idle" => jobs'[v] # <<>>)
                             /\ (jobs'[v] # <<>> => open'[v] \in {"open", "closing"})
        BY <1>1, <1>3, <1>4, <1>5 DEF OpenInv
    <2>2. phase # "running" =>
             \A v \in Worker \ leftOpen : open'[v] \notin {"open", "closing"}
        BY <1>1, <1>3, <1>4 DEF OpenInv
    <2> QED
        BY <1>2, <1>3, <2>1, <2>2 DEF OpenInv
<1> QED
    BY <1>2, <1>6, <1>7, <1>8 DEF PluginInv, UnloadInv

LEMMA WorkerStartKeeps ==
    ASSUME PluginInv, NEW w \in Worker, WorkerStart(w)
    PROVE  PluginInv'
<1>1. /\ started' = started \union {w}
      /\ UNCHANGED <<phase, loaded, valid, scripts, sent, jobs, open, instance, made,
                     at, seen, early, queue, deleted, ran, dangling, leftOpen>>
    BY DEF WorkerStart, scriptVars, getVars, historyVars
<1>2. TypeOK /\ ThreadInv /\ OpenInv /\ RaceInv
    BY DEF PluginInv
<1>3. TypeOK'
    BY <1>1, <1>2 DEF TypeOK
<1>4. ThreadInv' /\ RaceInv'
    BY <1>1, <1>2, ThreadsStay
<1>5. OpenInv'
    BY <1>1, <1>2 DEF OpenInv
<1> QED
    BY <1>1, <1>3, <1>4, <1>5 DEF PluginInv, UnloadInv

LEMMA SendKeeps ==
    ASSUME PluginInv, NEW a \in Address, NEW w \in Worker, SendQuery(a, w)
    PROVE  PluginInv'
<1>1. /\ open[w] = "open" /\ Len(sent) < MaxQueries
      /\ sent' = Append(sent, a)
      /\ jobs' = [jobs EXCEPT ![w] = Append(@, Len(sent'))]
      /\ UNCHANGED <<phase, loaded, valid, scripts, open, started, instance, made, at,
                     seen, early, queue, deleted, ran, dangling, leftOpen>>
    BY DEF SendQuery, scriptVars, getVars, historyVars
<1>2. TypeOK /\ ThreadInv /\ OpenInv /\ RaceInv
    BY DEF PluginInv
<1>3. /\ sent' \in Seq(Address) /\ Len(sent') <= MaxQueries /\ Len(sent') \in Query
    BY <1>1, <1>2, BoundAssumption DEF TypeOK, Query
<1>4. /\ jobs' \in [Worker -> Seq(Query)] /\ jobs'[w] # <<>>
      /\ \A v \in Worker \ {w} : jobs'[v] = jobs[v]
    <2>1. jobs \in [Worker -> Seq(Query)] /\ jobs[w] \in Seq(Query)
        BY <1>2 DEF TypeOK
    <2>2. Append(jobs[w], Len(sent')) \in Seq(Query) /\ Append(jobs[w], Len(sent')) # <<>>
        BY <1>3, <2>1, JobAppend
    <2> QED
        BY <1>1, <2>1, <2>2
<1>5. TypeOK'
    BY <1>1, <1>2, <1>3, <1>4 DEF TypeOK
<1>6. ThreadInv' /\ RaceInv'
    BY <1>1, <1>2, ThreadsStay
<1>7. OpenInv'
    BY <1>1, <1>2, <1>4 DEF OpenInv
<1> QED
    BY <1>1, <1>5, <1>6, <1>7
       DEF PluginInv, UnloadInv

-----------------------------------------------------------------------------
(***************************************************************************)
(* Unload.                                                                 *)
(***************************************************************************)
LEMMA UnloadManagersKeeps ==
    ASSUME PluginInv, UnloadManagers
    PROVE  PluginInv'
<1>1. /\ phase = "running" /\ at[Server] = "idle" /\ loaded = {}
      /\ phase' = "unloading" /\ valid' = {}
      /\ leftOpen' = {w \in Worker : open[w] = "open"} /\ ~Closing
      /\ UNCHANGED <<loaded, scripts, sent, jobs, open, started, instance, made, at,
                     seen, early, queue, deleted, ran, dangling>>
    BY DEF UnloadManagers, queryVars, getVars
<1>2. TypeOK /\ ThreadInv /\ OpenInv /\ RaceInv
    BY DEF PluginInv
<1>3. TypeOK'
    <2>1. leftOpen' \subseteq Worker
        BY <1>1
    <2> QED
        BY <1>1, <1>2, <2>1 DEF TypeOK
<1>4. ThreadInv' /\ RaceInv'
    BY <1>1, <1>2 DEF ThreadInv, RaceInv
<1>5. OpenInv'
    BY <1>1, <1>2 DEF OpenInv, Closing
<1>6. UnloadInv'
    BY <1>1, <1>2 DEF PluginInv, UnloadInv, OpenInv
<1> QED
    BY <1>3, <1>4, <1>5, <1>6 DEF PluginInv

LEMMA UnloadDispatcherKeeps ==
    ASSUME PluginInv, UnloadDispatcher
    PROVE  PluginInv'
<1>1. /\ phase = "unloading" /\ phase' \in {"deleting", "unloaded"}
      /\ UNCHANGED <<loaded, valid, scripts, sent, jobs, open, started, instance, made,
                     at, seen, early, ran, dangling, leftOpen>>
    BY DEF UnloadDispatcher, scriptVars, queryVars, getVars, historyVars
<1>2. TypeOK /\ ThreadInv /\ OpenInv
    BY DEF PluginInv
<1>3. /\ queue' \in Seq(Seq(Function)) /\ Len(queue') = made
      /\ deleted' \subseteq 1 .. made
    <2>1. queue \in Seq(Seq(Function)) /\ Len(queue) = made /\ deleted \subseteq 1 .. made
        BY <1>2 DEF TypeOK
    <2>2. CASE instance = 0
        BY <2>1, <2>2 DEF UnloadDispatcher
    <2>3. CASE instance # 0
        <3>1. instance \in 1 .. Len(queue) /\ <<>> \in Seq(Function)
            BY <1>2, <2>3 DEF TypeOK
        <3>2. queue' = [queue EXCEPT ![instance] = <<>>] /\ deleted' = deleted \union {instance}
            BY <2>3 DEF UnloadDispatcher
        <3>3. queue' \in Seq(Seq(Function)) /\ Len(queue') = made
            BY <2>1, <3>1, <3>2, QueueSet
        <3> QED
            BY <2>1, <3>1, <3>2, <3>3
    <2> QED
        BY <2>2, <2>3
<1>4. TypeOK'
    BY <1>1, <1>2, <1>3 DEF TypeOK
<1>5. ThreadInv' /\ OpenInv' /\ RaceInv'
    BY <1>1, <1>2 DEF ThreadInv, OpenInv, RaceInv
<1>6. UnloadInv'
    <2>1. phase' = "unloaded" => instance = 0
        BY <1>1 DEF UnloadDispatcher
    <2> QED
        BY <1>1, <2>1 DEF PluginInv, UnloadInv
<1> QED
    BY <1>1, <1>4, <1>5, <1>6 DEF PluginInv

LEMMA UnloadResetKeeps ==
    ASSUME PluginInv, UnloadReset
    PROVE  PluginInv'
<1>1. /\ phase = "deleting" /\ phase' = "unloaded" /\ instance' = 0
      /\ UNCHANGED <<loaded, valid, scripts, sent, jobs, open, started, made, at, seen,
                     early, queue, deleted, ran, dangling, leftOpen>>
    BY DEF UnloadReset, scriptVars, queryVars, historyVars
<1>2. TypeOK /\ ThreadInv /\ OpenInv
    BY DEF PluginInv
<1>3. TypeOK'
    BY <1>1, <1>2 DEF TypeOK
<1>4. ThreadInv' /\ OpenInv' /\ RaceInv'
    BY <1>1, <1>2 DEF ThreadInv, OpenInv, RaceInv
<1> QED
    BY <1>1, <1>3, <1>4 DEF PluginInv, UnloadInv

-----------------------------------------------------------------------------
(***************************************************************************)
(* The theorems.                                                           *)
(***************************************************************************)
LEMMA ServerKeeps ==
    ASSUME PluginInv, ServerStep
    PROVE  PluginInv'
<1>1. ASSUME ProcessTick PROVE PluginInv'
    <2>1. /\ at[Server] = "idle" /\ GetTest(Server) /\ phase = "running"
          /\ UNCHANGED <<phase, scriptVars, queryVars, queue, deleted, historyVars>>
        BY <1>1 DEF ProcessTick
    <2> QED
        BY <2>1, GetTestKeeps DEF Thread
<1>2. ASSUME NEW a \in Address, AmxLoad(a) \/ AmxUnload(a) PROVE PluginInv'
    BY <1>2, ScriptKeeps
<1>3. ASSUME NEW w \in Worker, Connect(w) \/ Close(w) \/ CloseJoin(w) PROVE PluginInv'
    BY <1>3, ConnectionKeeps
<1>4. ASSUME NEW a \in Address, NEW w \in Worker, SendQuery(a, w) PROVE PluginInv'
    BY <1>4, SendKeeps
<1> QED
    BY <1>1, <1>2, <1>3, <1>4, RunFrontKeeps, FrontReturnsKeeps, ProcessReturnsKeeps,
       UnloadManagersKeeps, UnloadDispatcherKeeps, UnloadResetKeeps DEF ServerStep

LEMMA WorkerKeeps ==
    ASSUME PluginInv, NEW w \in Worker, WorkerStep(w)
    PROVE  PluginInv'
<1>1. ASSUME Executed(w) PROVE PluginInv'
    <2>1. /\ at[w] = "idle" /\ jobs[w] # <<>> /\ GetTest(w)
          /\ UNCHANGED <<phase, scriptVars, queryVars, queue, deleted, historyVars>>
        BY <1>1 DEF Executed
    <2> QED
        BY <2>1, GetTestKeeps, ThreadAssumption DEF Thread
<1> QED
    BY <1>1, WorkerStartKeeps, DispatchKeeps DEF WorkerStep

LEMMA PluginStep == PluginInv /\ [Next]_vars => PluginInv'
<1> SUFFICES ASSUME PluginInv, [Next]_vars PROVE PluginInv'
    OBVIOUS
<1>1. CASE UNCHANGED vars
    <2>1. UNCHANGED <<phase, loaded, valid, scripts, sent, jobs, open, started,
                      instance, made, at, seen, early, queue, deleted, ran, dangling,
                      leftOpen>>
        BY <1>1 DEF vars, scriptVars, queryVars, getVars, historyVars
    <2>2. TypeOK' /\ OpenInv'
        BY <2>1 DEF PluginInv, TypeOK, OpenInv
    <2>3. ThreadInv' /\ RaceInv'
        BY <2>1, ThreadsStay DEF PluginInv
    <2> QED
        BY <2>1, <2>2, <2>3 DEF PluginInv, UnloadInv
<1>2. ASSUME NEW w \in Worker, WorkerStep(w) PROVE PluginInv'
    BY <1>2, WorkerKeeps
<1>3. ASSUME NEW t \in Thread, GetNew(t) \/ GetRead(t) PROVE PluginInv'
    BY <1>3, GetNewKeeps, GetReadKeeps
<1> QED
    BY <1>1, <1>2, <1>3, ServerKeeps DEF Next

LEMMA PluginAlways == Spec => []PluginInv
BY PluginInit, PluginStep, PTL DEF Spec

\* Every variable has its type, and IsValidAmx knows the loaded scripts.
THEOREM PluginTypeCorrect == Spec => []TypeOK
<1>1. PluginInv => TypeOK
    BY DEF PluginInv
<1> QED
    BY <1>1, PluginAlways, PTL

\* For any number of workers: a function that nobody runs was dispatched by a
\* thread whose Get began before the last creation was over.
THEOREM RaceCorrect == Spec => []LostOnlyInTheRace
<1>1. PluginInv => LostOnlyInTheRace
    <2> SUFFICES ASSUME PluginInv, phase = "running", NEW d \in 1 .. made \ {instance},
                        NEW i \in DOMAIN queue[d]
                 PROVE  queue[d][i].early
        BY DEF LostOnlyInTheRace
    <2>1. queue[d] \in Seq(Function)
        BY DEF PluginInv, TypeOK
    <2>2. queue[d][i] \in Function
        BY <2>1
    <2>3. queue[d][i].early \in BOOLEAN
        BY <2>2 DEF Function
    <2>4. queue[d][i].early # FALSE
        BY DEF PluginInv, RaceInv, TypeOK
    <2> QED
        BY <2>3, <2>4
<1> QED
    BY <1>1, PluginAlways, PTL

\* For any number of workers: a connection that was closed has no worker left
\* when Unload begins, and only workers of connections left open can use the
\* deleted dispatcher or create another one.
THEOREM UnloadCorrect == Spec => []OnlyLeftOpenGoesOn
<1>1. PluginInv => OnlyLeftOpenGoesOn
    <2> SUFFICES ASSUME PluginInv PROVE OnlyLeftOpenGoesOn
        OBVIOUS
    <2>1. ASSUME phase # "running", NEW w \in Worker \ leftOpen
          PROVE  at[w] = "idle" /\ jobs[w] = <<>>
        BY <2>1 DEF PluginInv, OpenInv
    <2> QED
        BY <2>1 DEF PluginInv, UnloadInv, OnlyLeftOpenGoesOn
<1> QED
    BY <1>1, PluginAlways, PTL
=============================================================================
