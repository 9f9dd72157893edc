--------------------------- MODULE HandleManager ---------------------------
(***************************************************************************)
(* CHandleManager: the ids by which scripts know their connection handles, *)
(* composed with the handles themselves.                                   *)
(*                                                                         *)
(* mysql_connect gives out the smallest id that is free.  Without          *)
(* DUPLICATE_CONNECTIONS it returns an existing handle of the same host,   *)
(* user and database instead of making another one.                        *)
(***************************************************************************)
EXTENDS Handle

CONSTANT
    MaxId  \* bound: handles that are open at the same time

ASSUME IdAssumption == MaxId \in Nat

VARIABLES
    handles,     \* m_Handles: a function from the ids in use to objects
    duplicates,  \* the global option DUPLICATE_CONNECTIONS
    created      \* history: whether a handle was created while it was set

managerVars == <<handles, duplicates, created>>
vars == <<handleVars, managerVars>>

HandleId == 1 .. MaxId

Init ==
    /\ HandleInit
    /\ handles = [i \in {} |-> None]
    /\ duplicates = FALSE
    /\ created = FALSE

\* Mutant: the number of handles is taken for the last id.
IsNewIdByCount(i) == i = Cardinality(DOMAIN handles) + 1

\* id = 1; while (m_Handles.find(id) != m_Handles.end()) ++id;
IsNewId(i) ==
    /\ i \notin DOMAIN handles
    /\ 1 .. i - 1 \subseteq DOMAIN handles

SameDatabase(database) ==
    {i \in DOMAIN handles : object[handles[i]].database = database}

\* Mutant: only the first handle is compared.
FindsDuplicateFirst(database) ==
    ~duplicates /\ SameDatabase(database) \intersect {1} # {}

\* The handle that exists is returned: nothing changes.
FindsDuplicate(database) == ~duplicates /\ SameDatabase(database) # {}

\* mysql_connect, with the POOL_SIZE of an options handle.  emplace() changes
\* nothing if the id is in use.
Connect(o, database, size) ==
    /\ ScriptRuns
    /\ object[o].state = "unused"
    /\ ~FindsDuplicate(database)
    /\ \E i \in HandleId :
          /\ IsNewId(i)
          /\ object' = [object EXCEPT ![o] =
                           [NewObject EXCEPT !.state = "open", !.id = i,
                                             !.database = database, !.size = size]]
          /\ handles' = [x \in DOMAIN handles \union {i} |->
                            IF x \in DOMAIN handles THEN handles[x] ELSE o]
    /\ created' = (created \/ duplicates)
    /\ UNCHANGED <<conn, native, duplicates>>

\* mysql_close: erase the id, then delete the object.
Close(i) ==
    /\ ScriptRuns
    /\ i \in DOMAIN handles
    /\ LET o == handles[i]
       IN  /\ handles' = [x \in DOMAIN handles \ {object[o].id} |-> handles[x]]
           /\ object' = [object EXCEPT ![o].state = "closing"]
           /\ Begin("close", o, Main, DefaultCharset)
    /\ UNCHANGED <<conn, duplicates, created>>

\* mysql_global_options(DUPLICATE_CONNECTIONS, ...)
SetDuplicates(value) ==
    /\ ScriptRuns
    /\ duplicates' = value
    /\ UNCHANGED <<handleVars, handles, created>>

Next ==
    \/ \E o \in Object, database \in Database, size \in 0 .. MaxPool :
          Connect(o, database, size)
    \/ \E i \in HandleId : Close(i)
    \/ \E value \in BOOLEAN : SetDuplicates(value)
    \/ /\ \/ \E i \in DOMAIN handles : HandleNative(handles[i])
          \/ NativeGoesOn
          \/ \E o \in Object : \E k \in Workers(o) : WorkerStep(o, k)
       /\ UNCHANGED managerVars

Spec == Init /\ [][Next]_vars

-----------------------------------------------------------------------------
(***************************************************************************)
(* Properties.                                                             *)
(***************************************************************************)
ObjectType ==
    object \in [Object -> [state : {"unused", "open", "closing", "deleted"},
                           id : 0 .. MaxId,
                           database : Database \union {None},
                           size : 0 .. MaxPool, current : Slot \union {2},
                           agreed : BOOLEAN]]

ConnType ==
    conn \in [Object -> [Slot -> [charset : Charset, queued : 0 .. Capacity,
                                  inHand : {0, 1}, given : 0 .. MaxGiven,
                                  started : BOOLEAN]]]

NativeType ==
    native \in [op : {"none", "count", "counted", "charset", "close"},
                object : Object \union {None}, at : Slot, charset : Charset,
                sum : Nat, before : [Slot -> Nat]]

\* Every variable has its type.
TypeOK ==
    /\ ObjectType /\ ConnType /\ NativeType
    /\ DOMAIN handles \subseteq HandleId
    /\ \A i \in DOMAIN handles : handles[i] \in Object
    /\ duplicates \in BOOLEAN /\ created \in BOOLEAN

\* An id in use leads to an open handle that has this id, and every open
\* handle is reachable under its id: mysql_close erases the id it was called
\* with, no handle is lost in m_Handles, and no id leads to a deleted one,
\* whatever ids have been given out again.
IdsCorrect ==
    /\ \A i \in DOMAIN handles :
          object[handles[i]].state = "open" /\ object[handles[i]].id = i
    /\ \A o \in Object :
          object[o].state = "open" =>
             object[o].id \in DOMAIN handles /\ handles[object[o].id] = o

\* Unless a handle has been made while DUPLICATE_CONNECTIONS was set, there
\* is one handle for each database.
OneHandlePerDatabase ==
    ~created =>
       \A i, j \in DOMAIN handles :
          object[handles[i]].database = object[handles[j]].database => i = j

\* mysql_pquery deals the queries out evenly, whichever of them the full
\* queues refuse: the connections the ring has passed since its last turn
\* have been given exactly one query more than the others.
DealtInTurn ==
    \A o \in Object :
       object[o].state = "open" =>
          /\ object[o].size # 0 => object[o].current \in Ring(o)
          /\ \A k, l \in Ring(o) :
                conn[o][k].given + (IF k < object[o].current THEN 0 ELSE 1)
                   = conn[o][l].given + (IF l < object[o].current THEN 0 ELSE 1)

\* mysql_unprocessed_queries reads the counters one after the other while the
\* workers go on.  What it returns was never exact, perhaps, but lies between
\* what was open when it was called and what is open when it returns: 0 means
\* that everything has been executed.
UnprocessedBounds ==
    native.op = "counted" =>
       LET o == native.object
       IN  /\ native.sum >= SumFunctionOnSet(Counters(o), Workers(o))
           /\ native.sum <= SumFunctionOnSet(native.before, Workers(o))

\* Unless a mysql_set_charset has failed half-way, all connections of a handle
\* have the character set that mysql_get_charset reads from the main one:
\* queries mean the same wherever they are executed.
CharsetsAgree ==
    \A o \in Object :
       (IsOpen(o) /\ object[o].agreed /\ (native.op = "charset" => native.object # o)) =>
          \A k \in Slots(o) : conn[o][k].charset = conn[o][Main].charset
=============================================================================
