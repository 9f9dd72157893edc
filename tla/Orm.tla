-------------------------------- MODULE Orm --------------------------------
(***************************************************************************)
(* COrm and its natives: object-relational mapping for Pawn scripts.       *)
(*                                                                         *)
(* A script registers global variables of its own as columns of a table,   *)
(* picks one of them as the key, and lets the plugin write the SELECT,     *)
(* INSERT, UPDATE and DELETE queries.  A query is generated when the native *)
(* is called, executed by the worker of the connection some time later,    *)
(* and its result is written into the script's variables in ProcessTick,   *)
(* right before the callback of the script runs.  In between the script    *)
(* can register other variables, choose another key, destroy the instance  *)
(* or be unloaded.                                                         *)
(*                                                                         *)
(* The connection is the one of QueryDelivery: queries are executed and    *)
(* answered in the order in which they were accepted.  Every instance here *)
(* is of one table, and registers a column with the same script variable.  *)
(* The script may do anything at any time; OrmLogin composes this module   *)
(* with a script of the repository.                                        *)
(***************************************************************************)
EXTENDS Naturals, Sequences

CONSTANTS
    Orm,         \* the COrm objects a script ever creates
    Column,      \* the columns of the table
    Numeric,     \* those a script registers with addvar_int or addvar_float
    AutoColumn,  \* the AUTO_INCREMENT column
    Unique,      \* the columns with a UNIQUE key
    Text,        \* the non-empty strings
    Callback,    \* the callbacks a script names, with their arguments
    None,        \* no key, or no callback
    MaxNumber,   \* bound: the numbers scripts and the table use
    MaxQueries   \* bound: queries under way at the same time

ASSUME ColumnAssumption == AutoColumn \in Numeric /\ Numeric \subseteq Column
ASSUME UniqueAssumption == AutoColumn \in Unique /\ Unique \subseteq Column
ASSUME NoneAssumption == None \notin Column \union Callback
ASSUME BoundAssumption == MaxNumber \in Nat /\ MaxQueries \in Nat \ {0}
ASSUME TextAssumption == Text \intersect (0 .. MaxNumber) = {}

VARIABLES
    orm,       \* orm[o]: the members of object o, and whether it is in
               \* COrmManager::m_Instances
    memory,    \* memory[c]: the script's variable for column c
    loaded,    \* whether the script is still loaded
    pending,   \* the queries the connection has accepted and not executed
    finished,  \* the executed ones, waiting for ProcessTick
    running,   \* <<>>, or the result whose callback is running
    table,     \* the rows of the table
    lastId,    \* the last number the AUTO_INCREMENT column has given out
    defined    \* FALSE after a step whose behaviour C++ does not define

databaseVars == <<pending, finished, table, lastId>>
vars == <<orm, memory, loaded, pending, finished, running, table, lastId, defined>>

Number == 0 .. MaxNumber        \* 0 also stands for the empty string
Value == Number \union Text
QueryType == {"SELECT", "UPDATE", "INSERT", "DELETE"}

NewOrm == [state |-> "unused", variables |-> <<>>, capacity |-> 0,
           key |-> None, error |-> "OK"]

Init ==
    /\ orm = [o \in Orm |-> NewOrm]
    /\ memory = [c \in Column |-> 0]
    /\ loaded = TRUE
    /\ pending = <<>>
    /\ finished = <<>>
    /\ running = <<>>
    /\ table = {}
    /\ lastId = 0
    /\ defined = TRUE

\* Script code can run and call a native, in a callback or elsewhere.
ScriptRuns == defined /\ loaded

Registered(o) == orm[o].state = "registered"

-----------------------------------------------------------------------------
(***************************************************************************)
(* The variables of one instance r.                                        *)
(***************************************************************************)
Names(r) == {r.variables[i] : i \in DOMAIN r.variables}

\* std::vector::push_back doubles the storage when it is full.
PushBack(r, name) ==
    [r EXCEPT !.variables = Append(@, name),
              !.capacity = IF Len(r.variables) < @ THEN @
                           ELSE IF @ = 0 THEN 1 ELSE 2 * @]

\* std::find_if and erase.
Position(r, name) == CHOOSE i \in DOMAIN r.variables : r.variables[i] = name

Erase(r, name) ==
    LET v == r.variables
    IN  [r EXCEPT !.variables =
            [i \in 1 .. Len(v) - 1 |-> v[IF i < Position(r, name) THEN i ELSE i + 1]]]

\* Mutant: only the variables are searched for a duplicate, not the key.
CanAddVariableTwice(r, name) == name \notin Names(r)

CanAddVariable(r, name) == name \notin Names(r) \union {r.key}

\* RemoveVariable, for the name of the key or of a variable.
RemoveVariable(r, name) ==
    IF r.key = name THEN [r EXCEPT !.key = None] ELSE Erase(r, name)

\* Mutant: the old key is dropped.
SetKeyVariableDrop(r, name) == Erase([r EXCEPT !.key = name], name)

\* SetKeyVariable, as long as the iterator v stays valid.
SetKeyVariable(r, name) ==
    LET old == IF r.key = None THEN r ELSE PushBack(r, r.key)
    IN  Erase([old EXCEPT !.key = name], name)

\* push_back of the old key moves the elements to another place: v points to
\* freed memory when it is read and erased.
InvalidatesIterator(r) == r.key # None /\ Len(r.variables) = r.capacity

-----------------------------------------------------------------------------
(***************************************************************************)
(* Natives that change an instance.                                        *)
(***************************************************************************)
SetOrm(o, r) ==
    /\ orm' = [orm EXCEPT ![o] = r]
    /\ UNCHANGED <<memory, loaded, databaseVars, running, defined>>

OrmCreate(o) ==
    /\ ScriptRuns
    /\ orm[o].state = "unused"
    /\ SetOrm(o, [orm[o] EXCEPT !.state = "registered"])

\* The object lives on while the lambda of a query still holds an Orm_t.
OrmDestroy(o) ==
    /\ ScriptRuns
    /\ Registered(o)
    /\ SetOrm(o, [orm[o] EXCEPT !.state = "destroyed"])

OrmAddVar(o, name) ==
    /\ ScriptRuns
    /\ Registered(o)
    /\ CanAddVariable(orm[o], name)
    /\ SetOrm(o, PushBack(orm[o], name))

OrmDelVar(o, name) ==
    /\ ScriptRuns
    /\ Registered(o)
    /\ name \in Names(orm[o]) \union {orm[o].key}
    /\ SetOrm(o, RemoveVariable(orm[o], name))

OrmSetKey(o, name) ==
    /\ ScriptRuns
    /\ Registered(o)
    /\ name \in Names(orm[o])
    /\ ~InvalidatesIterator(orm[o])
    /\ SetOrm(o, SetKeyVariable(orm[o], name))

\* The same call through the dangling iterator: the server crashes, or the
\* bytes are still there to be copied and erase() removes the last element,
\* the old key that has just been added.
OrmSetKeyDangling(o, name) ==
    /\ ScriptRuns
    /\ Registered(o)
    /\ name \in Names(orm[o])
    /\ InvalidatesIterator(orm[o])
    /\ \/ orm' = [orm EXCEPT ![o].key = name, ![o].capacity = 2 * @]
       \/ UNCHANGED orm
    /\ defined' = FALSE
    /\ UNCHANGED <<memory, loaded, databaseVars, running>>

OrmClearVars(o) ==
    /\ ScriptRuns
    /\ Registered(o)
    /\ memory' = [c \in Column |-> IF c \in Names(orm[o]) \union {orm[o].key}
                                   THEN 0 ELSE memory[c]]
    /\ UNCHANGED <<orm, loaded, databaseVars, running, defined>>

-----------------------------------------------------------------------------
(***************************************************************************)
(* Queries.  FireOrmQueryWithCallback generates the query from what the    *)
(* instance and the script's variables hold at the time of the call.       *)
(***************************************************************************)
CanGenerate(r, type) ==
    /\ r.key # None
    /\ type = "DELETE" \/ r.variables # <<>>

SaveQueryType(r) ==
    IF r.key # None /\ memory[r.key] # 0 THEN "UPDATE" ELSE "INSERT"

\* The query of an instance whose members are r, with the script's variables
\* as they are in cells.
GenerateQuery(o, r, cells, type, callback) ==
    [orm |-> o, type |-> type, callback |-> callback,
     columns |-> r.variables,
     values |-> [c \in IF type \in {"UPDATE", "INSERT"} THEN Names(r) ELSE {}
                   |-> cells[c]],
     key |-> r.key,
     keyValue |-> cells[r.key]]

\* Mutant: the newest query is executed first.
QueuedFirst(q) == <<q>> \o pending

\* m_Queue after a push.
Queued(q) == Append(pending, q)

\* orm_select, orm_update, orm_insert and orm_delete.  Without a valid
\* connection, or when its queue is full, the native returns 0.
OrmQuery(o, type, callback) ==
    /\ ScriptRuns
    /\ Registered(o)
    /\ CanGenerate(orm[o], type)
    /\ Len(pending) + Len(finished) < MaxQueries
    /\ pending' = Queued(GenerateQuery(o, orm[o], memory, type, callback))
    /\ UNCHANGED <<orm, memory, loaded, finished, running, table, lastId, defined>>

OrmSave(o, callback) == OrmQuery(o, SaveQueryType(orm[o]), callback)

(***************************************************************************)
(* The table, and the worker that executes the query at the front.         *)
(***************************************************************************)
Matching(q) == {row \in table : row[q.key] = q.keyValue}

NoDuplicates(rows) ==
    \A a, b \in rows : a # b => \A c \in Unique : a[c] # b[c]

Executed(q, ok, rows, insertId) ==
    /\ pending' = Tail(pending)
    /\ finished' = Append(finished, [orm |-> q.orm, type |-> q.type,
                                     callback |-> q.callback,
                                     columns |-> q.columns, ok |-> ok,
                                     rows |-> rows, insertId |-> insertId])
    /\ UNCHANGED <<orm, memory, loaded, running, defined>>

\* SELECT ... WHERE key = value LIMIT 1.
ExecuteSelect(q) ==
    /\ q.type = "SELECT"
    /\ \/ /\ Matching(q) = {}
          /\ Executed(q, TRUE, <<>>, 0)
       \/ \E row \in Matching(q) : Executed(q, TRUE, <<row>>, 0)
    /\ UNCHANGED <<table, lastId>>

\* UPDATE ... WHERE key = value LIMIT 1.
ExecuteUpdate(q) ==
    /\ q.type = "UPDATE"
    /\ \/ Matching(q) = {} /\ UNCHANGED table
       \/ \E row \in Matching(q) :
             LET new == [c \in Column |-> IF c \in DOMAIN q.values
                                          THEN q.values[c] ELSE row[c]]
             IN  /\ table' = (table \ {row}) \union {new}
                 /\ NoDuplicates((table \ {row}) \union {new})
                 /\ new \notin table \ {row}
    /\ Executed(q, TRUE, <<>>, 0)
    /\ UNCHANGED lastId

\* INSERT: a zero in the AUTO_INCREMENT column, or its absence, asks for the
\* next number.
ExecuteInsert(q) ==
    /\ q.type = "INSERT"
    /\ LET given == IF AutoColumn \in DOMAIN q.values THEN q.values[AutoColumn]
                                                      ELSE 0
           id == IF given = 0 THEN lastId + 1 ELSE given
           new == [c \in Column |-> IF c = AutoColumn THEN id
                                    ELSE IF c \in DOMAIN q.values
                                    THEN q.values[c] ELSE 0]
       IN  /\ id <= MaxNumber
           /\ NoDuplicates(table \union {new})
           /\ new \notin table
           /\ table' = table \union {new}
           /\ lastId' = IF id > lastId THEN id ELSE lastId
           /\ Executed(q, TRUE, <<>>, id)

\* DELETE ... WHERE key = value LIMIT 1.
ExecuteDelete(q) ==
    /\ q.type = "DELETE"
    /\ \/ Matching(q) = {} /\ UNCHANGED table
       \/ \E row \in Matching(q) : table' = table \ {row}
    /\ Executed(q, TRUE, <<>>, 0)
    /\ UNCHANGED lastId

\* A duplicate, or anything else the MySQL server may object to.
ExecuteFails(q) ==
    /\ Executed(q, FALSE, <<>>, 0)
    /\ UNCHANGED <<table, lastId>>

Execute ==
    /\ pending # <<>>
    /\ LET q == Head(pending)
       IN  \/ ExecuteSelect(q) \/ ExecuteUpdate(q) \/ ExecuteInsert(q)
           \/ ExecuteDelete(q) \/ ExecuteFails(q)

-----------------------------------------------------------------------------
(***************************************************************************)
(* ProcessTick: the lambda of the result at the front.                     *)
(***************************************************************************)

\* Mutant: the text is stored whatever it is.
SetValueAlways(c, value) == value

\* Variable::SetValue(const char *): a number is parsed from the text for a
\* numeric variable, which keeps its value when there is none.
SetValue(c, value) ==
    IF c \in Numeric /\ value \in Text THEN memory[c] ELSE value

\* Mutant: the fields are counted from one.
FieldOfOneBased(r, c) == Position(r, c) + 1

\* The number of the field that is written to variable c, by position.
FieldOf(r, c) == Position(r, c)

\* Mutant: the number of an inserted row is not written to the key.
WrittenBySelect(f) ==
    IF f.type = "SELECT" /\ f.rows # <<>>
    THEN {c \in Names(orm[f.orm]) : FieldOf(orm[f.orm], c) \in DOMAIN f.columns}
    ELSE {}

\* The script variables ApplyResult or UpdateKeyValue writes for result f.
Written(f) ==
    LET r == orm[f.orm]
    IN  IF f.type = "SELECT" /\ f.rows # <<>>
        THEN {c \in Names(r) : FieldOf(r, c) \in DOMAIN f.columns}
        ELSE IF f.type = "INSERT" /\ f.insertId # 0 /\ r.key # None
        THEN {r.key} ELSE {}

\* ApplyResult: field by field, in the order of the variables registered now.
\* UpdateKeyValue: the number goes into the key of now, whatever its type.
ApplyResult(f) ==
    memory' = [c \in Column |->
                 IF c \notin Written(f) THEN memory[c]
                 ELSE IF f.type = "INSERT" THEN f.insertId
                 ELSE SetValue(c, f.rows[1][f.columns[FieldOf(orm[f.orm], c)]])]

\* Mutant: an empty result leaves the error alone.
ResultErrorIgnored(f) == "OK"

\* m_Error after the result has been applied.
ResultError(f) ==
    IF f.type = "SELECT" /\ f.rows = <<>> THEN "NO_DATA" ELSE "OK"

\* The result of a query that succeeded is applied.  The variables of a
\* script that has been unloaded are gone: writing them is undefined.
Apply ==
    /\ defined
    /\ running = <<>>
    /\ finished # <<>>
    /\ Head(finished).ok
    /\ ApplyResult(Head(finished))
    /\ finished' = Tail(finished)
    /\ defined' = (loaded \/ Written(Head(finished)) = {})
    /\ UNCHANGED <<loaded, pending, table, lastId>>

\* The callback is run, if the script is still there ...
ApplyAndCall ==
    /\ Apply
    /\ LET f == Head(finished)
       IN  /\ loaded /\ f.callback # None
           /\ running' = <<f>>
           /\ orm' = [orm EXCEPT ![f.orm].error = ResultError(f)]

\* Mutant: the callback may be passed over.
ApplyOnlyAlways ==
    /\ Apply
    /\ orm' = [orm EXCEPT ![Head(finished).orm].error = "OK"]
    /\ UNCHANGED running

\* ... or the lambda goes straight on to ResetError.
ApplyOnly ==
    /\ Apply
    /\ LET f == Head(finished)
       IN  /\ ~loaded \/ f.callback = None
           /\ orm' = [orm EXCEPT ![f.orm].error = "OK"]
    /\ UNCHANGED running

\* Mutant: the error is not reset after the callback.
CallbackReturnsKeepingError ==
    /\ defined
    /\ running # <<>>
    /\ running' = <<>>
    /\ UNCHANGED <<orm, memory, loaded, databaseVars, defined>>

\* The callback returns: ResetError.
CallbackReturns ==
    /\ defined
    /\ running # <<>>
    /\ running' = <<>>
    /\ orm' = [orm EXCEPT ![running[1].orm].error = "OK"]
    /\ UNCHANGED <<memory, loaded, databaseVars, defined>>

\* An ORM query has no error callback: when it has failed, nothing is run and
\* nothing is reset.
DropFailed ==
    /\ defined
    /\ running = <<>>
    /\ finished # <<>>
    /\ ~Head(finished).ok
    /\ finished' = Tail(finished)
    /\ UNCHANGED <<orm, memory, loaded, pending, running, table, lastId, defined>>

-----------------------------------------------------------------------------
(***************************************************************************)
(* What the script does itself.                                            *)
(***************************************************************************)
ScriptAssigns(c, value) ==
    /\ ScriptRuns
    /\ c \in Numeric => value \in Number
    /\ c \notin Numeric => value \in Text \union {0}
    /\ memory' = [memory EXCEPT ![c] = value]
    /\ UNCHANGED <<orm, loaded, databaseVars, running, defined>>

\* A row of a cache, of whatever query: it has some of the columns.
CacheRow == UNION {[fields -> Value] : fields \in SUBSET Column}

\* orm_apply_cache: by name, the key too, and only what the cache has.
OrmApplyCache(o, row) ==
    /\ ScriptRuns
    /\ Registered(o)
    /\ \A c \in DOMAIN row \ Numeric : row[c] \in Text \union {0}
    /\ memory' = [c \in Column |->
                    IF c \in DOMAIN row /\ c \in Names(orm[o]) \union {orm[o].key}
                    THEN SetValue(c, row[c]) ELSE memory[c]]
    /\ UNCHANGED <<orm, loaded, databaseVars, running, defined>>

\* The script is unloaded (a filterscript can be at any time); its instances
\* and its queries stay.
AmxUnload ==
    /\ ScriptRuns
    /\ running = <<>>
    /\ loaded' = FALSE
    /\ UNCHANGED <<orm, memory, databaseVars, running, defined>>

OrmNative(o) ==
    \/ OrmCreate(o) \/ OrmDestroy(o) \/ OrmClearVars(o)
    \/ \E name \in Column :
          OrmAddVar(o, name) \/ OrmDelVar(o, name) \/ OrmSetKey(o, name)
          \/ OrmSetKeyDangling(o, name)
    \/ \E callback \in Callback \union {None} :
          \/ \E type \in QueryType : OrmQuery(o, type, callback)
          \/ OrmSave(o, callback)
    \/ \E row \in CacheRow : OrmApplyCache(o, row)

Next ==
    \/ \E o \in Orm : OrmNative(o)
    \/ \E c \in Column, value \in Value : ScriptAssigns(c, value)
    \/ AmxUnload
    \/ Execute
    \/ ApplyAndCall \/ ApplyOnly \/ CallbackReturns \/ DropFailed

Spec == Init /\ [][Next]_vars

-----------------------------------------------------------------------------
(***************************************************************************)
(* Properties.                                                             *)
(***************************************************************************)
Row == [Column -> Value]

OrmType ==
    orm \in [Orm -> [state : {"unused", "registered", "destroyed"},
                     variables : Seq(Column), capacity : Nat,
                     key : Column \union {None}, error : {"OK", "NO_DATA"}]]

QueryRecord ==
    [orm : Orm, type : QueryType, callback : Callback \union {None},
     columns : Seq(Column), values : UNION {[S -> Value] : S \in SUBSET Column},
     key : Column, keyValue : Value]

ResultRecord ==
    [orm : Orm, type : QueryType, callback : Callback \union {None},
     columns : Seq(Column), ok : BOOLEAN, rows : Seq(Row), insertId : Number]

ConnectionType ==
    /\ pending \in Seq(QueryRecord)
    /\ finished \in Seq(ResultRecord)
    /\ running \in Seq(ResultRecord)

\* Every variable has its type; what a numeric column or variable holds is
\* always a number.
TypeOK ==
    /\ OrmType
    /\ ConnectionType
    /\ table \subseteq Row
    /\ memory \in Row
    /\ \A c \in Numeric : memory[c] \in Number /\ \A row \in table : row[c] \in Number
    /\ lastId \in Number
    /\ loaded \in BOOLEAN /\ defined \in BOOLEAN

\* A column is registered once, as a variable or as the key, whatever the
\* order of orm_addvar, orm_delvar and orm_setkey: a column that is twice in
\* the list of an INSERT or UPDATE would make the query fail.
ColumnsDistinct ==
    defined =>
       \A o \in Orm :
          LET v == orm[o].variables
          IN  /\ \A i, j \in DOMAIN v : v[i] = v[j] => i = j
              /\ orm[o].key \notin Names(orm[o])

\* orm_errno reports what the query of the running callback found, even if
\* the callback queues other queries of the same instance; whenever no
\* callback of the instance runs, it is OK again.
ErrnoOfOwnQuery ==
    \A o \in Orm :
       (orm[o].error = "NO_DATA") <=>
          /\ running # <<>>
          /\ running[1].orm = o
          /\ running[1].type = "SELECT"
          /\ running[1].rows = <<>>

ReplacesKey(o) ==
    /\ orm[o].key # None
    /\ orm'[o].key \notin {None, orm[o].key}

\* COrm.cpp:174: orm_setkey adds the old key variable back to the normal
\* variables, so that no registered column is lost ...
OldKeyKept ==
    [][\A o \in Orm : ReplacesKey(o) => orm[o].key \in Names(orm'[o])]_vars

\* ... which holds as long as push_back does not move the variables: then
\* the set of registered columns stays the same.
KeyHandover ==
    [][\A o \in Orm :
          (ReplacesKey(o) /\ defined') =>
             Names(orm'[o]) \union {orm'[o].key} = Names(orm[o]) \union {orm[o].key}]_vars

\* A row that arrives late is still written to the right variables, if the
\* instance has the same variables in the same order as when the SELECT was
\* generated; the key and all other variables of the script are untouched.
LoadsWhatItSelected ==
    [][(finished # <<>> /\ finished' = Tail(finished))
         => LET f == Head(finished)
            IN  (/\ f.type = "SELECT" /\ f.rows # <<>>
                 /\ orm[f.orm].variables = f.columns)
                  => \A c \in Column :
                        memory'[c] = IF c \in Names(orm[f.orm])
                                     THEN f.rows[1][c] ELSE memory[c]]_vars

\* CCallback.cpp:271: a filterscript can be unloaded between a query and its
\* result, so the plugin checks that the AMX is still valid before it uses it.
UnloadedUntouched == [][~loaded => UNCHANGED memory]_vars
=============================================================================
