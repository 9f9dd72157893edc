# SA-MP-MySQL in TLA+

A TLA+ model of the SA-MP MySQL plugin (`src/src/*.cpp`), a C++ library that lets the
Pawn scripts of a game server run SQL queries without blocking the server. The modules
are checked by TLC on small instances, and the main safety properties are proved by
TLAPS for every value of the constants.

Paths below are those of the repository: `CConnection.cpp:263` is line 263 of
`src/CConnection.cpp`.

## 1. The system

One **server thread** runs everything that is Pawn: scripts call the plugin's natives
(`natives.cpp`), and between two pieces of script code the server calls `ProcessTick`
(`main.cpp:58`). Every threaded connection has **one worker thread**
(`CThreadedConnection::WorkerFunc`). A script hands a query to a worker through a lock-free
queue; the worker executes it and hands the callback back through the queue of the
dispatcher; `ProcessTick` runs the callback, which is script code again.

```
 script --native--> CHandle --Queue--> CThreadedConnection::m_Queue --worker--> MySQL
   ^                                                                     |
   |                                                                     v
   +---- CCallback / COrm <-- ProcessTick <-- CDispatcher::m_Queue <-- Dispatch
```

| component | state | operations | what is hard about it |
|---|---|---|---|
| `CThreadedConnection`, `CConnection` | `m_Queue`, `m_UnprocessedQueries`, `m_WorkerThreadActive`, the MYSQL object and its error, a mutex and a condition variable | constructor, `Queue`, `SetCharset`, `GetUnprocessedQueryCount`, `Execute`, `GetError`, `WorkerFunc`, destructor | two threads; a wait without a predicate; a notification without the lock; a counter updated after the push; an error read after the lock is released |
| `CDispatcher` | `m_Queue` of functions, `m_QueueMtx` | `Dispatch`, `Process` | the mutex is held while callbacks run |
| `CConnectionPool` | ring of threaded connections, `m_CurrentNode` | `Queue`, `SetCharset`, sums of counters | round robin, full queues, a failure in the middle |
| `CHandle`, `CHandleManager` | id -> connections | create, find, destroy, `Execute` | duplicate connections share a handle; ids are reused |
| `COptions` | options instances, global options | `mysql_init_options`, `mysql_set_option`, `mysql_set_global_option`, connection files | a file is given up in the middle; natives and files have different limits |
| `COrm`, `COrmManager` | key, variables, error of each instance; raw addresses of script variables | `orm_*` natives, query generation, `ApplyResult`, `UpdateKeyValue` | the result is applied some time after the query was generated |
| `CResult`, `CResultSet` and its manager | the rows of a result, the active cache and the stored ones | `Create`, `Merge`, `cache_*` natives | two owners of one object; rows copied into one block with computed sizes |
| `CCallback` | the AMX, the name and the arguments | create, execute | scripts are unloaded in between; arguments are listed backwards, arrays wait for their size |
| query files | queries found, the rest of a line | `mysql_tquery_file`, `mysql_query_file` | splitting into queries; errors ignored |
| `mysql_format` | the text written so far, the next value | one native | many ways out of one loop; a destination that is too small |
| `CSingleton`, `main.cpp` | the managers | `Load`, `Unload`, `AmxLoad`, `AmxUnload` | order of destruction; unsynchronised creation |

What makes each of them correct:

* **connection and dispatcher**: every accepted query is completed once, in order, and its
  callback runs once, in order; the counter scripts read is exact; closing neither hangs,
  nor loses a part of the queue, nor leaves a thread on a dead object; an error is reported
  with the query it belongs to;
* **ORM**: a column is registered once; changing the key loses nothing; a row that comes
  late goes to the variables it was selected for; `orm_errno` is about the result of the
  running callback; the memory of an unloaded script is not touched;
* **a script on top of it** (`example_scripts/login_system-orm.pwn`): users keep their rows
  although slots, variables and ids are shared by one player after the other;
* **pool and handles**: round robin keeps the load even, the sum of the counters lies
  between what was open at the start and at the end, no two handles in use share an id;
* **caches**: the active cache is always alive, and only the script deletes a stored one; a
  callback finds its own results active and leaves nothing behind; what is read is what
  MySQL has sent;
* **options, callbacks, files, formats**: what is said is what is done, or refused;
* **the life of scripts and plugin**: a connection that was closed leaves no thread behind, and the dispatcher that
  threads find without synchronisation is, but for a race, the one that is processed.

`PROJECT.json` lists the components with what is modelled of each, and under `hazards`
every place where the code is exposed to one of these difficulties.

## 2. The modules

```
 QueryDelivery                 what is promised, without threads
     ^ refinement (DeliverySpec)
 ThreadedConnection  EXTENDS Dispatcher     <- MCThreadedConnection
     ^ ThreadedConnection_proofs                                     (theorems)
 Orm                                        <- MCOrm
     ^ Orm_proofs                                                    (theorems)
 OrmLogin  EXTENDS Orm                      <- MCOrmLogin
     ^ OrmLogin_proofs  EXTENDS Orm_proofs                           (theorems)
 HandleManager  EXTENDS Handle              <- MCHandleManager
 Options                                    <- MCHandleManager
     ^ HandleManager_proofs, of both                                 (theorems)
 ResultSetManager                           <- MCResultSetManager
 ResultData                                 <- MCResultSetManager
     ^ ResultSetManager_proofs, of both                              (theorems)
 Callback, FileParser, Format               <- MCResultSetManager
     ^ Natives_proofs, of the three                                  (theorems)
 Plugin                                     <- MCPlugin
     ^ Plugin_proofs                                                 (theorems)
 Induction     what folds over sets and sequences compute            (lemmas)
     ^ HandleManager_proofs, ResultSetManager_proofs, Natives_proofs
```

### QueryDelivery

The abstract specification: a connection accepts queries 1, 2, 3, ..., completes them in
this order, and a callback is delivered once for each, in the order of completion. Five
variables, no thread, lock or condition variable.

### Dispatcher

`CDispatcher` (`CDispatcher.cpp`). `dispatched` is `m_Queue`; `mainAt` says whether the
server thread is outside of `Process`, at the test of its loop, or inside the function at
the front. `m_QueueMtx` is free exactly when `mainAt = "server"`: a push is one step, and
`Process` holds the mutex from its first line to its last, callbacks included.

### ThreadedConnection

`CThreadedConnection` and `CConnection` (`CConnection.cpp`), composed with Dispatcher.

| variable | code |
|---|---|
| `queue`, `unprocessed`, `active` | `m_Queue`, `m_UnprocessedQueries`, `m_WorkerThreadActive` |
| `connected`, `errno` | `CConnection::m_IsConnected`; what `mysql_errno` returns |
| `worker`, `query`, `func` | the worker's program counter; the locals of its loop |
| `call` | where the server thread is inside a native on this connection |
| `handle` | what scripts know of the connection |
| `accepted`, `answered` | history: how many queries were accepted, callbacks run |

A step is the code between two points where the other thread could tell the difference.
`Queue` is three steps (push, `++m_UnprocessedQueries`, `notify_one`), because none of them
is under a lock; the destructor four (the call, the flag under `m_QueueNotifierMutex`,
`notify_one`, `join`); the worker has one step per line of its loops, with `Execute` and
`GetError` apart, since each takes `CConnection::m_Mutex` for itself. The worker holds
`m_QueueNotifierMutex` everywhere but before its first line, in `wait()` and after its end,
so that this mutex is a predicate on its program counter (`HoldsNotifier`).
`notify_one` moves a worker only if it is in `wait()` at that moment; `SpuriousWakeup`
may wake it at any time. Integers wrap at `UIntMod`.

A query is its number; a MySQL error code is the number of the query it is about, or a code
for a failed connection attempt or a failed change of character set. MySQL may refuse any
query, and a connection may never be established (then no query succeeds).

### Orm

`COrm`, `COrmManager` (`COrm.cpp`) and the `orm_*` natives. `orm[o]` holds the members of
one instance, the capacity of its vector among them: `push_back` on a full vector moves
the elements, which `orm_setkey` does not expect. `memory` is the script's variables;
`pending`, `finished` and `running` are the queries on their way through a connection that
behaves as QueryDelivery promises; `table` and `lastId` are the MySQL table. A query is
generated from the instance and the variables of the time of the call, and its result is
written to the variables by the instance as it is in `ProcessTick`. `defined` becomes FALSE
with a step that C++ does not define (a dangling iterator, a write into the memory of an
unloaded script): nothing is claimed about what the server does afterwards.

The environment is any script: it registers, removes, destroys, assigns and queries in any
order, applies a cache with any columns to an instance (`orm_apply_cache`, inside of callbacks
too), and may be unloaded whenever none of its callbacks runs. An ORM query has no error
callback: when it has failed, nothing is run (`DropFailed`).

### OrmLogin

Orm with one player slot of `example_scripts/login_system-orm.pwn` as its script: the
callbacks of the server and of the queries (`OnPlayerConnect`, `OnPlayerDisconnect`,
`OnDialogResponse`, `OnPlayerDeath`, `OnPlayerDataLoaded`, `OnPlayerRegister`), each with all
it does to the instance, the variables, the queries and the race check. Passwords are
choices, positions and money are one column of data, and a kick is a flag: the player
leaves some time later. `worker` is what ThreadedConnection says of the worker's sleep, in three
states: on its way into `wait()`, in it, or woken and popping. A query that is queued on the
way into it wakes nobody (`Notify`), and stays in `pending` until the next one does.

### Handle and HandleManager

`Handle` is `CHandle` with `CConnectionPool`, `HandleManager` is `CHandleManager` with the two
options that matter to it.

| variable | code |
|---|---|
| `object[o]` | the members of the `CHandle` `o`: whether it is created, open, being deleted or deleted, `m_Id`, `m_MyHash` (as the database), the size of the pool (`POOL_SIZE`), `m_CurrentNode` |
| `conn[o][k]` | its connections: slot 0 is `m_MainConnection`, 1 `m_ThreadedConnection`, from 2 on the ring; each has its character set, the number of queries in `m_Queue`, the one in the worker's hands, and how many it was ever given |
| `native` | the native the server thread is in, and the connection it has come to |
| `handles` | `m_Handles` |
| `duplicates` | `DUPLICATE_CONNECTIONS`; `POOL_SIZE` is a choice of `mysql_connect` |
| `created`, `agreed`, `given`, `native.before` | history, for the properties |

A connection is what ThreadedConnection shows of it: a queue, a query in the worker's hands,
and a counter that is exactly their number whenever script code reads it
(`UnprocessedIsExact`, which is proved). The natives that visit one connection after the other
(`mysql_unprocessed_queries`, `mysql_set_charset`, `mysql_close`) take one step per connection, and
the workers go on in between. The destructor of a connection waits until its worker has done
everything, unless the worker has never run its first line (`started`; see section 4), in
which case the queue is thrown away.

`mysql_connect` for a database that has a handle, without `DUPLICATE_CONNECTIONS`, returns the
handle and changes nothing, so it is no action. A handle whose connection attempt fails is
in `m_Handles` like any other.

### ResultSetManager

`CResultSetManager`, `CResultSet` and the natives that store, activate and delete caches, with
the queries that make them: threaded ones, files of queries (`mysql_tquery_file`), and those
the server thread executes itself (`mysql_query`, `mysql_query_file`).

| variable | code |
|---|---|
| `sets` | the `CResultSet`s that exist: `m_Results`, and `m_ActiveResult` as `current` |
| `active`, `stored` | `m_ActiveResultSet`, `m_StoredResults` |
| `single`, `files` | queries with a callback under way; for each file the queries still to come and the vector of result sets that its queries share |
| `running` | the function at the front of the dispatcher's queue, and the result set its query holds |
| `freed`, `held`, `touched`, `outside` | history |

The module is about ownership. `ResultSet_t` is a `shared_ptr`, so a result set exists as long
as the manager, a query or a vector refers to it (`Referenced`); its results are plain pointers that its
destructor deletes, and `Merge` moves them. `Heap` ends every step that can drop a reference:
what is not referenced any more is deleted and takes its results with it. The answers of
different connections come in any order, those of one file in theirs; a query of a file may
have been refused by a full queue, or fail, and then the file's callback may never run. What
the values in a result are is left out.

### ResultData

`CResult`: what is inside a result. `CResultSet::Create` allocates one block for all rows of a
SELECT: a pointer to each row, then the rows, each copied with everything the client library
has put into it (pointers to the values, then the values). `memory` says for each byte of the
block from which byte of which row it was copied, so that a row that is given too little
space shows; `data` is `m_Data`, `sent` the rows of the `MYSQL_RES`, `answer` what a
native was asked and has answered. The arithmetic of `mem_row_size` and `mem_offset`, rounding and
division included, is as in the code. How the client library lays out a row is external
(`Place`). Of a value only the length matters, which also decides whether it is a number.
`malloc` does not fail.

### Options

`COptions`, `COptionManager`, the natives that set options, and connection files
(`CHandleManager::CreateFromFile`). `options` is `m_Options`; `reading` the instance of the file that is
being read, `login` which of host, user and database have been in it, `outcome` how it ended;
`said` is history: every option that was given, by a native or a line. Three options stand
for all: a number with a limit (the pool size), a flag and a text.

### Callback

`CCallback`: `Create` goes through the format letter by letter (`Specifier`), `Execute`
through the parameters one by one (`PushNext`), both with all their ways out. `params` is
`m_Params`, `array` what `array_addr_ptr` points to, `copies` the arrays that are allocated, `pushed`
the stack of the AMX, `heap` its heap and `address` the `amx_address` that is released afterwards.
An argument is known by its position; `PublicGetsItsArguments` is what the native's
documentation promises.

### FileParser

`ParseQueriesFromFile`: any file of a bounded number of characters, over the alphabet of
those that mean something (`;`, `#`, `-`, a space, any other), is read line by line.
`queryStr`, `tmpStr` and `queries` are `query_str`, `tmp_query_str` and `queries`.

### Format

`mysql_format`: one step for each turn of its loop, with a format that is made up as it is
read. `textSize` is `dest_writer.size()`, `counter` `param_counter`. A format that ends within
a specifier that has a value (`%5` at its end) is left out: the code reads on behind it.

### Plugin

The life of scripts and of the dispatcher, with any number of workers: `AmxLoad`, `AmxUnload`, `Unload`,
`mysql_connect`, `mysql_close`, `CSingleton::Get` and what calls it.

| variable | code |
|---|---|
| `loaded`, `valid` | the addresses of the AMX that exist; `CCallbackManager::m_AmxInstances` |
| `instance`, `queue`, `deleted` | `CDispatcher::m_Instance`; `m_Queue` of each dispatcher ever created; those deleted |
| `at`, `seen` | where a thread is in `Get` and its caller; the pointer it has got |
| `sent`, `jobs` | whose script sent a query; what each worker still has to answer |
| `open`, `started` | whether a connection is open, or in its destructor; which workers have begun `WorkerFunc` |
| `phase` | how far `Unload` has come |
| `early`, `ran`, `dangling`, `leftOpen` | history: whether a `Get` began before creation was over; functions run; workers that used a deleted dispatcher; workers of connections that `Unload` found open |

`Get` is three steps - the test, the assignment, the read of the return value - because nothing
synchronises it; the read may yield the value of the test or the value of the moment. An
address may be given to another script after an unload. `CHandleManager`'s destructor leaves
handles alone, so workers may go on after `Unload`.

`mysql_close` is two steps, `Close` and the end of the `join`, `CloseJoin`, and between them the server
thread does nothing else. If the worker has begun, it dispatches all it was given before it
ends; if it has not, it drops it. A close inside a callback keeps the dispatcher's mutex, so
that a worker that has to dispatch, and the server with it, hang (`Hangs`).

The function that a worker dispatches is one of three kinds: it calls the callback of a query, or
applies the result of an ORM query and calls its callback, or calls OnQueryError. `RunFront`
leaves open which, and whether it calls script code; a callback needs a valid AMX. What the
second writes into variables and the third reads of an AMX before that is checked is not part
of this module: section 4 has both.

## 3. The runs

| run | instance | shows |
|---|---|---|
| `two_connections` (`ThreadedConnection_two.cfg`) | two connections, `m_Queue` of one entry, at most 2 queries each and 3 together, closing from callbacks included | `TypeOK`, `UnprocessedIsExact`, `AllOrNothing`, `ErrorsNotCrossed`, `DestroyedUntouched`, and the refinement `DeliverySpec` |
| `one_connection_live` (`ThreadedConnection_live.cfg`) | one connection, 3 queries, 2 in `m_Queue`; callbacks do not close connections | `CloseReturns`, `CloseDrains`, `WokenWorkerAnswers` |
| `lost_wakeup` | one connection, one query | violates `EveryQueryExecuted` |
| `close_in_callback` | as `one_connection_live`, but callbacks may close | violates `CloseReturns` |
| `any_script` (`Orm_any_script.cfg`) | one instance, two columns, the numbers 0 and 1, one query under way | `TypeOK`, `ColumnsDistinct`, `ErrnoOfOwnQuery`, `KeyHandover`, `LoadsWhatItSelected` |
| `dangling_key`, `unloaded_script` | as `any_script` | violate `OldKeyKept`, `UnloadedUntouched` |
| `login_patient` (`OrmLogin_patient.cfg`) | two users, four sessions in one slot, two ids | `RowsKeepTheirUser`, `LoggedInHasRow`, `RightDialog`, `ReadsOwnWrites`, `DialogComes`, `LoginTypeOK` |
| `handles` (`HandleManager_ids.cfg`) | three handles that share two ids, or one handle with up to three pooled connections and four queries, `m_Queue` of one entry; apart from them, three options instances and four options given | `TypeOK`, `IdsCorrect`, `OneHandlePerDatabase`, `DealtInTurn`, `UnprocessedBounds`, `CharsetsAgree`, `OptionsAreAsSaid` |
| `any_cache` (`ResultSetManager_any_script.cfg`) | four result sets with up to two results, one file of up to two queries and one other query under way, two ids; apart from them: results of two rows and columns with values of up to two characters, formats of callbacks of up to three letters, files of up to eight characters, texts of `mysql_format` of up to four tokens | `TypeOK`, `ResultsOwnedOnce`, `IdsKeepTheirResults`, `ActiveIsOwn`, `OnlyLastCanBeMissing`; `ReadsWhatWasSent`; `PublicGetsItsArguments`; `SendsWhatTheFileSays`; `TextIsFilledIn` |
| `plugin_life` (`Plugin_life.cfg`) | two workers and the server thread, two scripts at two addresses, two queries | `TypeOK`, `LostOnlyInTheRace`, `OnlyLeftOpenGoesOn`, `DoneIsAnswered` |
| `login_early` | three sessions, players may leave during the INSERT | violates `RowsKeepTheirUser` |

**Why the bounds are enough.** Connections share nothing but the dispatcher, so two are
needed and enough for callbacks of different connections to mix. A queue of one entry is
full, empty and refilled within two queries, and a worker can be anywhere in its loop while
the next query is pushed; the counter wraps at 3 because that makes its wrap below zero
reachable and distinct from every exact value. `one_connection_live` uses a longer queue, so that a
notification can be lost for several queries at a time. For the ORM two columns are a key
and a variable, which exchange their roles, and a vector that is full with one element and
with two; the capacity of 0, 1 and 2 is where `push_back` moves the elements. Four sessions
let each of two users register, leave, come back and meet the other's late results; that
more sessions and users change nothing is proved, but for `DialogComes`.
Handles share nothing but `m_Handles` and the server thread, so `handles` looks at several
handles with idle connections, or at one handle whose connections work
(`MCHandleManager!OneAtATime`): ids are given out again with three handles for two ids, and
a ring of three has a connection before, at and behind the current one.
For caches, four result sets are a file of two queries with its merged set and another
query's, or one saved, one active and two under way; an id is given out again as soon as
one of two has been deleted.
The parts of `handles` and `any_cache` that are looked at apart from each other share no variable
in the code either; each is chosen in the initial state (`part`). A format of three letters
has an array before, behind and without its size and one argument more; in eight characters
two queries share a line, one goes over two lines, and every kind of comment fits; four
tokens and two values fill a destination of three characters before, at and after the last
turn; two columns of up to two characters have rows whose unrounded size is at every distance
from a multiple of eight that matters, and two rows are one that could reach into the next
and one at the end of the block. In `plugin_life` all three threads can be inside `Get` at once, an
address is given out twice, a query is under way while another one's callback unloads a script or
closes a connection, and `Unload` meets workers anywhere.
Deadlock is not checked where a system really stops: when all queries are used up and all
connections closed, when the server has crashed (`defined`), when no player comes, or when the
plugin has been unloaded. In `any_cache` it is checked: a native that has returned stutters.

**Fairness.** `ThreadedConnection!Fairness`, `LoginSpec` and `Plugin!Fairness`. Threads are scheduled, MySQL
answers, callbacks return, the server keeps calling `ProcessTick`: weak fairness. A callback that
closes a connection may not return (`close_in_callback`): `Plugin!FrontReturns` is enabled only
when the `join` is over, and `DoneIsAnswered` names the hang. In `LoginSpec` the worker executes what is in
its queue once it has been woken (`worker = "popping"`); that it is woken is not assumed, so `DialogComes`
begins there. The
mutexes are not fair in theory; strong fairness of the two acquisitions that compete
(`CloseFlag` for `m_QueueNotifierMutex`, `WorkerDispatch` and `Plugin!Dispatch` for `m_QueueMtx`) says that a thread
does not lose the race for a mutex for ever, which the server's sleep between two ticks
justifies. Nothing obliges a script to call a native, a player to act, or a wakeup to be
spurious: `lost_wakeup` would be hidden if it did.

## 4. What was found

1. **A lost wakeup** (`lost_wakeup`). `Queue` notifies without the worker's mutex
   (`CConnection.cpp:263`) and the worker waits without testing `m_Queue` (`:227`). A query
   pushed before the worker waits stays there until another query or a close notifies
   again. In the login example a player then waits for his dialog, until he leaves: `DialogComes`
begins when the worker has been woken. `tests/unit_test.pwn:1479-1486` queues one query on a new connection and asserts
   that it has been processed. `WokenWorkerAnswers` and `CloseDrains` show the limits of the
   damage: the next wakeup makes up for everything, and a close executes what is left.
2. **Closing a connection in a callback can hang the server** (`close_in_callback`).
   `Process` holds `m_QueueMtx` during callbacks (`CDispatcher.cpp:12`); the destructor waits
   for `m_QueueNotifierMutex`, held by a worker that waits for `m_QueueMtx`.
3. **orm_setkey uses a dangling iterator** (`dangling_key`, `COrm.cpp:176-179`) when `push_back`
   of the old key moves the variables. `KeyHandover` shows that nothing is lost otherwise.
4. **A result is written into an unloaded script** (`unloaded_script`, `natives.cpp:169`): the AMX
   is checked for the callback only, after the variables have been written.
5. **The login example can hand over a row** (`login_early`): a player who leaves while his
   INSERT is under way leaves his new id to the variables of the slot's next player, who is
   then marked as logged in, and whose `orm_save` overwrites the row. `login_patient` shows
   that this needs such an early leave: otherwise everybody keeps his row.

A worker that has not run its first line when the destructor clears the flag executes
nothing at all: `AllOrNothing` is the strongest statement that holds for a close.

What the models also say, without a line in the repository that it contradicts:

* `Execute` and `GetError` are two critical sections (`CConnection.cpp:240`); a
  `mysql_set_charset` in between replaces the error that OnQueryError reports.
  `ErrorsNotCrossed` shows that it is never the error of another query; it takes the one of the
  character set as it is.
* Two threads may each create a dispatcher (`CSingleton.hpp:18`), and what has been dispatched to
  the one that is replaced is lost; `LostOnlyInTheRace` shows that this ends with the creation.
* `Unload` leaves open connections alone, and their workers use a deleted dispatcher, or create
  another one. `OnlyLeftOpenGoesOn` shows that it is only them: a connection that a script has
  closed has no worker left, in whatever state it was closed.
* The memory of an unloaded script is used in at least two places: the results of ORM queries are
  written there (`natives.cpp:169`, number 4 above), and OnQueryError is looked up there (`natives.cpp:675`).
  No property says that these are all.
* If another script is loaded at the address of an unloaded one, it gets its callbacks
  (`CCallback.cpp:273`).
* Only a successful query runs its callback (`natives.cpp:177`): a player whose own SELECT fails waits
  for a dialog for ever. `DialogComes` shows that no other query that fails, and no late result, does that
  to him.
* `mysql_set_charset` that fails half-way leaves the connections of a handle with different character
  sets (`CHandle.cpp:130`); `CharsetsAgree` shows that the next one that succeeds ends it.
* The callback of a file is lost if its last query is refused or fails (`natives.cpp:892`), and OnQueryError may find
  a cache active that script code has left (`natives.cpp:665`); `OnlyLastCanBeMissing` and `ActiveIsOwn` say that
  nothing more is lost, and nothing else left.
* A row that arrives after the script has changed the instance's variables is put into the wrong ones
  (`COrm.cpp:390`); `LoadsWhatItSelected` is about instances that are as they were.
* A line of a query file that ends in two dashes makes MySQL skip what follows in the same
  query (`natives.cpp:772`).
* `mysql_set_option` takes a text from the wrong address (`natives.cpp:596`), and connection files know
  no limit of the pool size (`CHandle.cpp:326`), and take a line of spaces for an error.
* `mysql_format` returns the full length of a text that it has cut, and takes a `%` at the end, for
  which there is no value, for the end.
* A statement of a multi-statement query that fails after the first one ends the list of
  results without an error (`CResult.cpp:190`).
* By name, only the first column of several with the same name can be read.

## 5. What is proved

All theorems hold for every set of connections, handles, instances and columns, and for every
capacity, integer width and bound that the named ASSUMEs of the modules allow (a capacity of
at least one, and an unsigned type that can count one more than the capacity; distinct
`None`). Nothing else is assumed.

`ThreadedConnection`:

| theorem | says | argument |
|---|---|---|
| `TypeCorrect` | `[]TypeOK` | inductive as it stands, conjunct by conjunct |
| `UnprocessedCorrect` | `[]UnprocessedIsExact` | `CounterInv`: at every moment the counter is the length of `m_Queue`, plus the query in hand not counted down, minus the push not counted up, modulo `UIntMod`; it needs `LifeInv`, which ties program counters, `handle` and `call` together |
| `ReadyCorrect` | `[]ReadyInOrder` | `QueueInv` (the queue holds consecutive numbers up to `accepted`, and the query in hand is the one before them) makes a dispatch append the next number; `ReadyInv` restates the property so that only a dispatch and a return can disturb it |
| `Refinement` | `Spec => DeliverySpec` | each step of the threads is a step of QueryDelivery or a stutter, from the invariants above |
| `AllOrNothingCorrect` | `[]AllOrNothing` | `DrainInv`: the worker leaves its inner loop with an empty queue only, and nothing is accepted once the flag is cleared |
| `DestroyedCorrect` | `DestroyedUntouched` | `LifeInv`: after the join the worker has ended, and no native finds the connection |
| `ErrorsCorrect` | `[]ErrorsNotCrossed` | `ErrorInv`: between `Execute` and `GetError` the error is that of the query in hand or of a character set |

The refinement is why Orm may use a connection as two queues: it composes with what
QueryDelivery promises, not with threads.

`Orm` (`Orm_proofs`): the inductive invariant `IInv` is `OrmType`, the distinctness of the columns
of each instance as long as behaviour is defined, and `ErrnoOfOwnQuery`. The lemmas `EraseLemma`,
`PushBackLemma` and `SetKeyLemma` say what the operations of the vector do to the set of registered
columns and keep it free of duplicates.

| theorem | says | argument |
|---|---|---|
| `ColumnsCorrect`, `ErrnoCorrect` | `[]ColumnsDistinct`, `[]ErrnoOfOwnQuery` | `IInv`, which says nothing about the queries under way |
| `HandoverCorrect` | `KeyHandover` | `IInv` and `SetKeyLemma` |
| `TypeCorrect` | `[]TypeOK` | `DataInv`: queries, results, the table and the script's variables hold numbers in numeric columns, and a failed result has no rows |
| `LoadCorrect` | `LoadsWhatItSelected` | a row is written to the columns the instance has when it arrives; if these are those of the SELECT, the loop over the row changes exactly their variables |

`OrmLogin` (`OrmLogin_proofs`), for any number of users, sessions, instances and queries, under the
hypothesis `~LeaveEarly`: nobody leaves while his INSERT is under way. The hypothesis is
needed; the run `login_early` shows what happens without it. The assumptions on the constants say
which column is the key, the name and the data, that names are unique and no numbers, and
that `None` is neither a user nor an instance. `LoginInv` says in which of five phases the slot is
- `Away`, `WaitsForRow`, `Asked`, `WaitsForInsert`, `Playing` - and what may be in flight in each: a SELECT
of the present session is the last query under way (so all UPDATEs of the same user come
before it), one of an earlier session is recognised by the race check, an INSERT is never in
flight when the slot changes hands, and every UPDATE under way is of a row that has the name
it carries. Every instance is keyed by name until the row has come and by id afterwards
(`ByName`, `ById`); when the worker sleeps does not matter to any of this; `SavedInv` follows the kills a user left with through UPDATEs under way into the table.

| theorem | says |
|---|---|
| `RowsCorrect` | `RowsKeepTheirUser` |
| `LoggedInCorrect` | `[]LoggedInHasRow` |
| `DialogCorrect` | `[]RightDialog` |
| `ReadsCorrect` | `[]ReadsOwnWrites` |
| `LoginTypeCorrect` | `[]LoginTypeOK` |

`HandleManager` (`HandleManager_proofs`), for any number of handles and ids and any size of the
pools: the inductive invariant `TypeInv` is `TypeOK`, `NativeInv` (a native that goes from
connection to connection is at one the handle has, and the handle is open, or being deleted
by `mysql_close`) and `RingInv` (`m_CurrentNode` is in the ring). On top of it

| theorem | says | argument |
|---|---|---|
| `TypeCorrect` | `[]TypeOK` | `TypeInv` |
| `IdsAreCorrect` | `[]IdsCorrect` | inductive with `TypeInv`: a destructor works on an object that is being deleted, to which no id leads any more |
| `OneHandleForEachDatabase` | `[]OneHandlePerDatabase` | from `IdsCorrect`: the new object is none of those `m_Handles` leads to |
| `QueriesAreDealtInTurn` | `[]DealtInTurn` | with `FreshInv` (the connections of an object not yet created have been given nothing) |
| `CharsetsAreTheSame` | `[]CharsetsAgree` | `CharsetInv`: while `mysql_set_charset` is under way, the connections it has visited have the new character set; `VisitedFacts` shows that the loop around the ring, wherever it starts, visits every connection before it stops |
| `CountIsBounded` | `[]UnprocessedBounds` | `CountInv`: no query is given out while the counters are read and workers only count down, so of the connections read so far the sum is between what was open at the call and what is open now |

`Options` (in `HandleManager_proofs` too), for any number of instances and any history: `OptionsCorrect`
(`[]OptionsAreAsSaid`). `SaidInv` says of each instance that every option is as the last word on it that
counts (`ToldInv`), of the file being read that nothing was wrong so far and `login` holds the fields
seen (`ReadingInv`), and of the last outcome that it is what the file's history demands (`OutcomeInv`),
which stays so because no native names a login field and no later file says anything to the same
instance. `Last0` is the last place in a history, and the lemmas about it say what one more word changes.

`ResultSetManager` (`ResultSetManager_proofs`), for any number of queries, files, result sets and ids.
`IdInv` says of the heap and of everything that points into it: whatever is active, stored or waits
in a file's vector exists, an id's result set has the results the id was given for, and **no
result set that waits for its file is active or stored**. The last part is what makes the property
inductive: the merge takes the results of the waiting sets away, and a script could store the
active one. `HeapLinked` is the argument for reference counting, once for all steps: a step
deletes only what nothing points to.

| theorem | says | argument |
|---|---|---|
| `IdsCorrect` | `[]IdsKeepTheirResults` | `IdInv`: a new result set has a number no vector holds |
| `MissingCorrect` | `OnlyLastCanBeMissing` | `FileInv`: only the callback of a file has a file, so no other callback that returns forgets one |
| `OwnedCorrect` | `[]ResultsOwnedOnce` | `OwnInv`: no two result sets have a result in common, none has a deleted one or one that is not made yet, and a result set that waits for its file has no `m_ActiveResult`, so that the merge, which moves its results, leaves no pointer behind; with `IdInv`, which says that nobody else has the waiting ones |
| `CachesTypeCorrect` | `[]TypeOK` | `TypeInv`: with `IdInv`, `Heap` leaves exactly what is referenced, so nothing points to a result set that is gone |
| `ActiveCorrect` | `[]ActiveIsOwn` | `GotInv`: what a file has got is the concatenation of the results in its vector, in order, and no two files' vectors share a result set; so a merge gives the last callback all of them, and takes nothing from another file |

`ResultData` (in `ResultSetManager_proofs` too), for any number of rows and columns, values of any length
and pointers of four or eight bytes: `ValuesCorrect` (`[]ReadsWhatWasSent`). `DataInv` says that the rows
copied so far fill the block up to `memOffset` and every value in them is as it was sent. A row
fits because its values take at most the widths of their columns (`max_length`), and the sum of
the widths, rounded by the division in `mem_row_size`, is less than `RowSize`, which is a multiple
of the pointer's size; so two rows never overlap and the last one ends within `BlockSize`. The
natives answer from this place (`PlaceIsOne`), and the index -1 is a number of `unsigned int` too
large for any row (`UnsignedFacts`), so it is refused.

`Callback` (`Natives_proofs`), for formats of any length: `ArgumentsCorrect`
(`[]PublicGetsItsArguments`). `CallbackInv` says what `params` is after each letter: `Value(i)` of every letter up to
there, backwards, but for an array that waits for its size; what is wrong with the letters so
far; and, while `Execute` runs, that the copies left are those of the arrays not pushed yet
and `address` the first heap address given out, if any.

`FileParser` (`Natives_proofs`), for files of any length: `FileCorrect` (`[]SendsWhatTheFileSays`). The queries
found so far and what is left of the line are the text read so far. `FileInv` adds why reading
line by line finds no comment that was not in a line: what is left over ends in a space, so
the dashes of two lines never come together, and `dashesLeft` marks the one case in which the
space appended to a line makes a comment.

`Format` (`Natives_proofs`), for formats of any length: `TextCorrect` (`[]TextIsFilledIn`). `FormatInv` says that
every token so far was written as its piece, that `counter` is the number of values asked for,
`textSize` the sum of the lengths written, and that every turn began with less than the
size of the destination (`TurnInv`), or how the loop was left (`DoneInv`).

`Plugin` (`Plugin_proofs`), for any number of workers, addresses, scripts and queries. `PluginInv` is
`TypeOK`, `UnloadInv` (what workers of connections left open may do after `Unload`), `ThreadInv` (a thread that has a pointer
from `Get` has a dispatcher, and the server thread is in none after `Unload`), `OpenInv` (a worker in `Get` or
`Dispatch` has a query, a worker with a query has a connection whose `join` is not over, and when `Unload`
begins the only such ones are those in `leftOpen`) and `RaceInv`: a thread whose `Get` has begun after the race
has got `instance`, which no thread will replace any more (`Settled`), and its function goes there.

| theorem | says | argument |
|---|---|---|
| `PluginTypeCorrect` | `[]TypeOK` | with `ThreadInv` |
| `RaceCorrect` | `[]LostOnlyInTheRace` | `RaceInv`: what was pushed to another dispatcher than `instance` comes from an earlier `Get` |
| `UnloadCorrect` | `[]OnlyLeftOpenGoesOn` | `OpenInv`: `CloseJoin` leaves a worker in neither `Get` nor `Dispatch` and with nothing to do, and nothing is given to a connection that is not open; `UnloadInv`: so only the others can find the dispatcher deleted, or no dispatcher |

`Induction`: the installed provers cannot use the library's induction theorems, whose parameter is
an operator, so the module proves induction for sets that are named: every set of numbers with a
member has a least one (`LeastNat`), a property that is a set of finite sets and survives one more
element has all of them (`SetInduction`), and likewise for sequences (`SnocInduction`). From these it
proves what the folds of the library compute, for every input: that `FlattenSeq` of a longer
list appends, `Max` and `Min` of finite sets, and that `SumFunctionOnSet` adds one term at a time, is
monotone and does not depend on the order. That is what `UnprocessedBounds`, `ResultsOwnedOnce`,
`ActiveIsOwn`, `SendsWhatTheFileSays`, `TextIsFilledIn` and `ReadsWhatWasSent` rest on.

Every safety invariant and every safety property of a step that a passing run checks is
proved. **Only model-checked** are

* the liveness properties `CloseReturns`, `CloseDrains`, `WokenWorkerAnswers`, `DialogComes` and
  `DoneIsAnswered`, with their fairness and ENABLED, which are beyond the prover;
* the login when players leave early: its theorems have the hypothesis `~LeaveEarly`, and
  `login_early` shows the violation;
* the violations of section 4.

## 6. What is not modelled, and the plan

Done, in the order of importance: the delivery of queries with its refinement and theorems;
Orm and OrmLogin; handles and pools; caches; the life of scripts and plugin; callbacks,
options, files, formats and rows; and theorems about each of them.

What the plan has left:

1. abstract specifications of more components, with the refinement proved: of the caches (an
   id names a value) and of the handles (an id names a database);
2. `LoginTypeOK` without the hypothesis, from Orm's `DataInv` alone.

**Not modelled**, because no state depends on it that another part reads:

* logging and debug information (`CLog`, `CScopedDebugInfo`). `CLog` is a singleton like `CDispatcher`, and
  created in the same unsynchronised way, but by the first native, before any worker exists;
* natives that hand on a number or a text as it is: `mysql_errno`, `mysql_error`, `mysql_stat`,
  `mysql_get_charset`, `cache_get_row_count`, `cache_affected_rows`, `cache_insert_id`,
  `cache_get_query_exec_time` and their like;
* `mysql_escape_string` and the escaping in `mysql_format`, which the client library does;
* `Load`, which starts the client library and returns;
* the scripts in `example_scripts` other than the login with ORM: they use the same natives
  without anything that could be late.

MySQL itself is external: it answers in any way the client library allows, and Orm has a
table with AUTO_INCREMENT and UNIQUE keys as far as the generated queries need it. Memory of
`m_Queue` beyond its fixed capacity, memory that runs out, and exceptions of the standard library are
left out. An ORM instance or error callback that keeps the id of a handle which has been closed
and given out again (`natives.cpp:670`) finds another connection: the models of handles and of ORM are
not composed, and nothing in the code says what should happen.
