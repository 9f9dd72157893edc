-------------------------- MODULE ResultSetManager --------------------------
(***************************************************************************)
(* CResultSetManager and CResultSet: the caches of the scripts.            *)
(*                                                                         *)
(* A result set has the results of one query, or of all queries of a file. *)
(* While the callback of a query runs, its result set is the active one,   *)
(* which all cache_* natives read; a script may store it under an id and   *)
(* make it active again at any later time.  Result sets are shared by      *)
(* shared_ptrs, but each owns its results by plain pointers: `sets' is the *)
(* heap, and a result set that nothing points to any more takes its        *)
(* results with it.                                                        *)
(*                                                                         *)
(* The script code is any: all natives can be called whenever the server   *)
(* thread runs, in callbacks and outside.  Queries of several connections  *)
(* are answered in any order, those of a file in their own order.          *)
(***************************************************************************)
EXTENDS Naturals, SequencesExt

CONSTANTS
    MaxResults,  \* bound: results of one query
    MaxQueries,  \* bound: queries in a file
    MaxSets,     \* bound: result sets ever created
    MaxOpen,     \* bound: queries, and files, under way
    MaxId        \* bound: caches stored at the same time

ASSUME BoundAssumption ==
    /\ MaxResults \in Nat /\ MaxQueries \in Nat /\ MaxSets \in Nat
    /\ MaxOpen \in Nat /\ MaxId \in Nat

VARIABLES
    sets,     \* the result sets that exist, by number
    made,     \* how many have been created
    active,   \* m_ActiveResultSet
    stored,   \* m_StoredResults: a function from ids to result sets
    single,   \* how many queries with a callback are under way
    files,    \* the files of mysql_tquery_file under way
    running,  \* the function of the dispatcher's queue that is running
    freed,    \* history: the results that have been deleted
    held,     \* history: what a script had stored under each id
    touched,  \* history: script has made another cache active in the callback
    outside   \* history: the active cache was made so outside of a query's callback

vars == <<sets, made, active, stored, single, files, running, freed, held,
          touched, outside>>

None == 0  \* nullptr, for a result set
NoResult == [query |-> 0, index |-> 0]  \* nullptr, for a result

Idle == [kind |-> "none", set |-> None, file |-> 0, results |-> <<>>]

Init ==
    /\ sets = [s \in {} |-> None] /\ made = 0
    /\ active = None /\ stored = [i \in {} |-> None]
    /\ single = 0 /\ files = [f \in {} |-> None]
    /\ running = Idle
    /\ freed = {} /\ held = [i \in {} |-> <<>>]
    /\ touched = FALSE /\ outside = FALSE

-----------------------------------------------------------------------------
(***************************************************************************)
(* The heap.                                                               *)
(***************************************************************************)

\* What shared_ptrs point to: the manager's, that of the query whose callback
\* is running, and the vectors of mysql_tquery_file.
Referenced ==
    ({active, running.set} \union Range(stored)
        \union UNION {Range(files[f].collected) : f \in DOMAIN files}) \ {None}

\* After a step that leaves these result sets, the others are deleted
\* (CResultSet::~CResultSet, which deletes their results).
Heap(all) ==
    /\ sets' = [s \in DOMAIN all \intersect Referenced' |-> all[s]]
    /\ freed' = freed \union
                   UNION {Range(all[s].results) : s \in DOMAIN all \ Referenced'}

\* CResultSet::Create: n results.  A result that cannot be fetched ends the
\* list, which may be empty.
NewSet(s, n) == [results |-> [i \in 1 .. n |-> [query |-> s, index |-> i]],
                 current |-> NoResult]

With(all, s, set) == [x \in DOMAIN all \union {s} |-> IF x = s THEN set ELSE all[x]]

ResultsOf(all, list) == FlattenSeq([i \in DOMAIN list |-> all[list[i]].results])

\* Mutant: the merged result sets keep their results.
MergeKeeps(all, list, s) ==
    With(all, s, [results |-> ResultsOf(all, list), current |-> NoResult])

\* CResultSet::Merge: the results of the listed sets move to the new set s.
Merge(all, list, s) ==
    With([x \in DOMAIN all |->
             IF x \in Range(list) THEN [all[x] EXCEPT !.results = <<>>] ELSE all[x]],
         s, [results |-> ResultsOf(all, list), current |-> NoResult])

-----------------------------------------------------------------------------
(***************************************************************************)
(* Queries.                                                                *)
(***************************************************************************)
InQueryCallback == running.kind \in {"query", "file"}

\* mysql_tquery and mysql_pquery with a callback, when the query is accepted.
\* (Without a callback nothing happens to the caches.)
SendQuery ==
    /\ single < MaxOpen
    /\ single' = single + 1
    /\ UNCHANGED <<sets, made, active, stored, files, running, freed, held,
                   touched, outside>>

\* mysql_tquery_file, for a file of n queries and with a callback.  That a
\* full m_Queue refuses some of them goes unnoticed.
SendFile(n, accepted) ==
    /\ accepted # {}
    /\ \E f \in (1 .. MaxOpen) \ DOMAIN files :
          files' = With(files, f,
                        [size |-> n, collected |-> <<>>, got |-> <<>>,
                         todo |-> accepted])
    /\ UNCHANGED <<sets, made, active, stored, single, running, freed, held,
                   touched, outside>>

\* The query that is answered next.
NextOf(f) == Min(files[f].todo)

Without(f) == [x \in DOMAIN files \ {f} |-> files[x]]

\* ProcessTick: a query has succeeded with n results, and its callback starts.
QueryDone(n) ==
    /\ running = Idle /\ single > 0 /\ made < MaxSets
    /\ single' = single - 1
    /\ made' = made + 1
    /\ LET new == NewSet(made', n)
       IN  /\ running' = [kind |-> "query", set |-> made', file |-> 0,
                          results |-> new.results]
           /\ active' = made'
           /\ UNCHANGED <<stored, files>>
           /\ Heap(With(sets, made', new))
    /\ touched' = FALSE /\ outside' = FALSE
    /\ UNCHANGED held

\* A query of a file has succeeded that is not its last: its result set waits.
\* When nothing of the file is under way any more, the vector goes.
FilePartDone(f, n) ==
    /\ running = Idle /\ made < MaxSets
    /\ NextOf(f) # files[f].size
    /\ made' = made + 1
    /\ LET new == NewSet(made', n)
       IN  /\ files' = IF files[f].todo = {NextOf(f)} THEN Without(f)
                       ELSE [files EXCEPT ![f].todo = @ \ {NextOf(f)},
                                          ![f].collected = Append(@, made'),
                                          ![f].got = @ \o new.results]
           /\ UNCHANGED <<active, stored, running>>
           /\ Heap(With(sets, made', new))
    /\ UNCHANGED <<single, held, touched, outside>>

\* Mutant: the last result set comes too late for the merge.
FileDoneEarly(f, n) ==
    /\ running = Idle /\ made + 1 < MaxSets
    /\ NextOf(f) = files[f].size
    /\ made' = made + 2
    /\ LET new == NewSet(made + 1, n)
       IN  /\ files' = [files EXCEPT ![f].todo = {}]
           /\ running' = [kind |-> "file", set |-> made + 1, file |-> f,
                          results |-> files[f].got \o new.results]
           /\ active' = made'
           /\ UNCHANGED stored
           /\ Heap(Merge(With(sets, made + 1, new), files[f].collected, made'))
    /\ touched' = FALSE /\ outside' = FALSE
    /\ UNCHANGED <<single, held>>

\* The last one has succeeded: the result sets are merged, and the callback
\* starts.
FileDone(f, n) ==
    /\ running = Idle /\ made + 1 < MaxSets
    /\ NextOf(f) = files[f].size
    /\ made' = made + 2
    /\ LET new == NewSet(made + 1, n)
           collected == Append(files[f].collected, made + 1)
       IN  /\ files' = [files EXCEPT ![f].todo = {}, ![f].collected = collected]
           /\ running' = [kind |-> "file", set |-> made + 1, file |-> f,
                          results |-> files[f].got \o new.results]
           /\ active' = made'
           /\ UNCHANGED stored
           /\ Heap(Merge(With(sets, made + 1, new), collected, made'))
    /\ touched' = FALSE /\ outside' = FALSE
    /\ UNCHANGED <<single, held>>

\* A query has failed: OnQueryError.  The active cache stays as it is.
QueryFailed ==
    /\ running = Idle /\ single > 0
    /\ single' = single - 1
    /\ running' = [Idle EXCEPT !.kind = "error"]
    /\ UNCHANGED <<sets, made, active, stored, files, freed, held, touched, outside>>

\* Mutant: a file is given up when one of its queries fails.
FilePartFailedGivenUp(f) ==
    /\ running = Idle
    /\ files' = Without(f)
    /\ running' = [Idle EXCEPT !.kind = "error"]
    /\ UNCHANGED <<active, stored>>
    /\ Heap(sets)
    /\ UNCHANGED <<made, single, held, touched, outside>>

\* A query of a file has failed, and the others go on.
FilePartFailed(f) ==
    /\ running = Idle
    /\ files' = IF files[f].todo = {NextOf(f)} THEN Without(f)
                ELSE [files EXCEPT ![f].todo = @ \ {NextOf(f)}]
    /\ running' = [Idle EXCEPT !.kind = "error"]
    /\ UNCHANGED <<active, stored>>
    /\ Heap(sets)
    /\ UNCHANGED <<made, single, held, touched, outside>>

\* The callback returns, and the function is removed from the queue with all
\* it has captured.
CallbackReturns ==
    /\ running # Idle
    /\ active' = IF InQueryCallback THEN None ELSE active
    /\ files' = Without(running.file)
    /\ running' = Idle
    /\ UNCHANGED stored
    /\ Heap(sets)
    /\ UNCHANGED <<made, single, held, touched, outside>>

-----------------------------------------------------------------------------
(***************************************************************************)
(* The natives.                                                            *)
(***************************************************************************)

\* Mutant: the number of stored caches is taken for the last id.
IsNewIdByCount(i) == i = Cardinality(DOMAIN stored) + 1

\* id = 1; while (m_StoredResults.find(id) != end) id++;
IsNewId(i) == i \notin DOMAIN stored /\ 1 .. i - 1 \subseteq DOMAIN stored

\* Mutant: ids start at zero.
StoreFromZero(s, results) ==
    \E i \in 1 .. MaxId :
       /\ IsNewId(i)
       /\ stored' = With(stored, i - 1, s)
       /\ held' = With(held, i - 1, results)

\* StoreActiveResultSet, for the active result set s.  emplace() changes
\* nothing if the id is in use.
Store(s, results) ==
    \E i \in 1 .. MaxId :
       /\ IsNewId(i)
       /\ stored' = IF i \in DOMAIN stored THEN stored ELSE With(stored, i, s)
       /\ held' = With(held, i, results)

\* The history of a native that makes another result set active, or none.
Activates ==
    /\ touched' = (touched \/ active' # active)
    /\ outside' = IF active' = active THEN outside ELSE ~InQueryCallback

\* mysql_query with use_cache, when it has succeeded with n results.
\* (Otherwise nothing happens to the caches.)
Query(n) ==
    /\ made < MaxSets
    /\ made' = made + 1
    /\ LET new == NewSet(made', n)
       IN  /\ active' = made'
           /\ Store(made', new.results)
           /\ UNCHANGED <<files, running>>
           /\ Heap(With(sets, made', new))
    /\ Activates
    /\ UNCHANGED single

\* mysql_query_file with use_cache: query i has had counts[i] results.  If one
\* fails, nothing happens to the caches.
QueryFile(counts) ==
    LET n == Len(counts)
        parts == [i \in 1 .. n |-> made + i]
        all == [s \in DOMAIN sets \union Range(parts) |->
                   IF s \in DOMAIN sets THEN sets[s] ELSE NewSet(s, counts[s - made])]
    IN  /\ made + n < MaxSets
        /\ made' = made + n + 1
        /\ active' = made'
        /\ Store(made', ResultsOf(all, parts))
        /\ UNCHANGED <<files, running, single>>
        /\ Heap(Merge(all, parts, made'))
        /\ Activates

\* CResultSet::GetActiveResult: every native that reads the active cache
\* makes the first result the current one if there is none yet.
Read ==
    /\ active # None
    /\ sets[active].current = NoResult /\ sets[active].results # <<>>
    /\ sets' = [sets EXCEPT ![active].current = Head(sets[active].results)]
    /\ UNCHANGED <<made, active, stored, single, files, running, freed, held,
                   touched, outside>>

\* cache_set_result
SetResult(i) ==
    /\ active # None
    /\ i \in DOMAIN sets[active].results
    /\ sets' = [sets EXCEPT ![active].current = sets[active].results[i]]
    /\ UNCHANGED <<made, active, stored, single, files, running, freed, held,
                   touched, outside>>

\* cache_save
Save ==
    /\ active # None
    /\ Store(active, sets[active].results)
    /\ UNCHANGED <<sets, made, active, single, files, running, freed, touched, outside>>

\* cache_delete: if it is the active cache, none is active afterwards.
Delete(i) ==
    /\ i \in DOMAIN stored
    /\ active' = IF stored[i] = active THEN None ELSE active
    /\ stored' = [x \in DOMAIN stored \ {i} |-> stored[x]]
    /\ held' = [x \in DOMAIN held \ {i} |-> held[x]]
    /\ UNCHANGED <<files, running>>
    /\ Heap(sets)
    /\ Activates
    /\ UNCHANGED <<made, single>>

\* cache_set_active and cache_unset_active
SetActive(s) ==
    /\ active' = s
    /\ UNCHANGED <<stored, files, running>>
    /\ Heap(sets)
    /\ Activates
    /\ UNCHANGED <<made, single, held>>

Script ==
    \/ SendQuery
    \/ \E n \in 1 .. MaxQueries : \E accepted \in SUBSET (1 .. n) : SendFile(n, accepted)
    \/ \E n \in 0 .. MaxResults : Query(n)
    \/ \E n \in 0 .. MaxQueries : \E counts \in [1 .. n -> 0 .. MaxResults] :
          QueryFile(counts)
    \/ Read \/ Save
    \/ \E i \in 1 .. MaxResults * MaxQueries : SetResult(i)
    \/ \E i \in 1 .. MaxId : Delete(i)
    \/ \E s \in Range(stored) \union {None} : SetActive(s)

Tick ==
    \/ \E n \in 0 .. MaxResults :
          \/ QueryDone(n)
          \/ \E f \in DOMAIN files : FilePartDone(f, n) \/ FileDone(f, n)
    \/ QueryFailed
    \/ \E f \in DOMAIN files : FilePartFailed(f)
    \/ CallbackReturns

Next == Script \/ Tick

Spec == Init /\ [][Next]_vars

-----------------------------------------------------------------------------
(***************************************************************************)
(* Properties.                                                             *)
(***************************************************************************)
Result == [query : 1 .. MaxSets, index : 1 .. MaxResults]
SetNumber == 1 .. MaxSets

\* Every variable has its type, and nothing points to a result set that has
\* been deleted.
TypeOK ==
    /\ DOMAIN sets \subseteq SetNumber /\ Referenced = DOMAIN sets
    /\ \A s \in DOMAIN sets :
          sets[s] \in [results : Seq(Result), current : Result \union {NoResult}]
    /\ made \in 0 .. MaxSets /\ single \in 0 .. MaxOpen
    /\ DOMAIN stored \subseteq 1 .. MaxId /\ DOMAIN held = DOMAIN stored
    /\ \A f \in DOMAIN files : files[f].size \in 1 .. MaxQueries
    /\ running.kind \in {"none", "query", "file", "error"}
    /\ freed \subseteq Result
    /\ touched \in BOOLEAN /\ outside \in BOOLEAN

\* However result sets are merged, stored twice, replaced and deleted: no
\* result has two owners, none that a result set has left was deleted with
\* another one, and m_ActiveResult is one of the result set's own.
ResultsOwnedOnce ==
    \A s \in DOMAIN sets :
       /\ Range(sets[s].results) \intersect freed = {}
       /\ sets[s].current \in Range(sets[s].results) \union {NoResult}
       /\ \A t \in DOMAIN sets \ {s} :
             Range(sets[s].results) \intersect Range(sets[t].results) = {}

\* The id that cache_save or mysql_query has returned leads to the results that
\* were active then until the script deletes it, whatever queries, callbacks
\* and other ids come and go.
IdsKeepTheirResults ==
    /\ DOMAIN held = DOMAIN stored
    /\ \A i \in DOMAIN stored : sets[stored[i]].results = held[i]

\* Until it makes another cache active itself, a callback reads the results of
\* its own query, or of all queries of its file that have succeeded, in order.
\* And none of this is left active for the code that runs next: what
\* OnQueryError, an ORM callback or a timer finds active, script code has made
\* active outside of the callbacks of queries.
ActiveIsOwn ==
    /\ InQueryCallback /\ ~touched =>
          active # None /\ sets[active].results = running.results
    /\ ~InQueryCallback /\ active # None => outside

\* The callback of a file hangs on its last query.  Whatever happens to the
\* others, it is run; it is left out only if the last one was refused by a
\* full m_Queue, or has failed.
OnlyLastCanBeMissing ==
    [][\A f \in DOMAIN files \ DOMAIN files' :
          \/ running.kind = "file" /\ running.file = f
          \/ files[f].size \notin files[f].todo
          \/ files[f].todo = {files[f].size} /\ running'.kind = "error"]_vars
=============================================================================
