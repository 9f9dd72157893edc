------------------------------ MODULE OrmLogin ------------------------------
(***************************************************************************)
(* Orm composed with example_scripts/login_system-orm.pwn: what happens to *)
(* one player slot of the server, where one player after the other plays.  *)
(*                                                                         *)
(* Every player who connects gets an ORM instance over the variables of    *)
(* the SLOT (Player[playerid]), which the slot's next player will use too. *)
(* A player can leave at any moment, so that the results of his queries    *)
(* come when somebody else sits there.                                     *)
(*                                                                         *)
(* The columns are reduced to three: the id, the user name, and the kills  *)
(* for everything that is only data.  That a password is right is a choice *)
(* of the player here, like the answer to any dialog.                      *)
(*                                                                         *)
(* The worker of the connection executes queries only after it has been    *)
(* woken, and it misses the notifications of queries that are queued while *)
(* it is on its way into wait() (see ThreadedConnection).                  *)
(***************************************************************************)
EXTENDS Orm

CONSTANTS
    NameColumn,   \* username, UNIQUE
    KillsColumn,  \* the data
    MaxSessions,  \* bound: how many times players connect to the slot
    LeaveEarly    \* whether players leave while their INSERT is under way

\* CREATE TABLE `players`, and the orm_addvars of OnPlayerConnect.
ASSUME LoginColumnsAssumption ==
    /\ Column = {AutoColumn, NameColumn, KillsColumn}
    /\ NameColumn \in Unique \ Numeric
    /\ KillsColumn \in Numeric \ {AutoColumn}
ASSUME LoginBoundsAssumption == MaxSessions \in Nat /\ LeaveEarly \in BOOLEAN
ASSUME LoginNoneAssumption == None \notin Text \union Orm

VARIABLES
    player,      \* who is connected: a user name (of Text), or None
    raceCheck,   \* g_MysqlRaceCheck
    ormId,       \* Player[ORM_ID]
    isLoggedIn,  \* Player[IsLoggedIn]
    dialog,      \* the dialog on the player's screen
    kicked,      \* the player has been kicked and is about to disconnect
    worker,      \* "parking" (not yet inside wait()), "waiting" or "popping"
    saved,       \* history: saved[p], the kills p had when he last logged out
    failed       \* history: whether MySQL has refused any query

scriptVars == <<player, raceCheck, ormId, isLoggedIn, dialog, kicked>>
loginVars == <<vars, scriptVars, worker, saved, failed>>

LoginCallback ==
    [public : {"OnPlayerDataLoaded", "OnPlayerRegister"}, race : 0 .. 2 * MaxSessions]

ASSUME LoginCallbackAssumption == LoginCallback \subseteq Callback

LoginInit ==
    /\ Init
    /\ player = None
    /\ raceCheck = 0
    /\ ormId = None
    /\ isLoggedIn = FALSE
    /\ dialog = "none"
    /\ kicked = FALSE
    /\ worker = "parking"
    /\ saved = [p \in Text |-> 0]
    /\ failed = FALSE

\* Outside of ProcessTick's callbacks.
ServerIdle == running = <<>>

\* notify_one after the push: it is heard inside wait() only.
Notify == worker' = IF worker = "waiting" THEN "popping" ELSE worker

-----------------------------------------------------------------------------
(***************************************************************************)
(* The callbacks the server calls.                                         *)
(***************************************************************************)

\* orm_create, the orm_addvars, and orm_setkey(ormid, "username").
FreshInstance ==
    LET added == PushBack(PushBack(PushBack(NewOrm, AutoColumn), NameColumn),
                          KillsColumn)
    IN  SetKeyVariable([added EXCEPT !.state = "registered"], NameColumn)

\* The argument orm_load passes on to OnPlayerDataLoaded.
RaceCheckArgument == raceCheck + 1

\* The slot's variables are reset and everything is loaded by name.  (There is
\* always room for another instance; Orm bounds how many there are here.)
OnPlayerConnect(p) ==
    /\ ServerIdle
    /\ player = None
    /\ raceCheck < 2 * MaxSessions
    /\ \E x \in Orm : orm[x].state = "unused"
    /\ LET o == CHOOSE x \in Orm : orm[x].state = "unused"
           cells == [c \in Column |-> IF c = NameColumn THEN p ELSE 0]
       IN  /\ ormId' = o
           /\ orm' = [orm EXCEPT ![o] = FreshInstance]
           /\ memory' = cells
           /\ pending' = Queued(
                 GenerateQuery(o, FreshInstance, cells, "SELECT",
                               [public |-> "OnPlayerDataLoaded",
                                race |-> RaceCheckArgument]))
    /\ Notify
    /\ player' = p
    /\ raceCheck' = raceCheck + 1
    /\ isLoggedIn' = FALSE
    /\ UNCHANGED <<loaded, finished, running, table, lastId, defined, dialog,
                   kicked, saved, failed>>

\* An INSERT of the registration is under way.
Registering ==
    \/ \E i \in DOMAIN pending : pending[i].type = "INSERT"
    \/ \E i \in DOMAIN finished : finished[i].type = "INSERT"

\* The player leaves or was kicked; who is logged in is saved.
OnPlayerDisconnect ==
    /\ ServerIdle
    /\ player # None
    /\ LeaveEarly \/ kicked \/ ~Registering
    /\ raceCheck' = raceCheck + 1
    /\ IF isLoggedIn /\ ormId # None /\ Registered(ormId)
       THEN /\ pending' = Queued(
                  GenerateQuery(ormId, orm[ormId], memory,
                                SaveQueryType(orm[ormId]), None))
            /\ orm' = [orm EXCEPT ![ormId].state = "destroyed"]
            /\ saved' = [saved EXCEPT ![player] = memory[KillsColumn]]
            /\ Notify
       ELSE UNCHANGED <<pending, orm, worker, saved>>
    /\ isLoggedIn' = FALSE
    /\ player' = None
    /\ dialog' = "none"
    /\ kicked' = FALSE
    /\ UNCHANGED <<memory, loaded, finished, running, table, lastId, defined,
                   ormId, failed>>

\* The right password has been entered.
OnDialogResponseLogin ==
    /\ ServerIdle
    /\ dialog = "login" /\ ~kicked
    /\ isLoggedIn' = TRUE
    /\ dialog' = "none"
    /\ UNCHANGED <<vars, player, raceCheck, ormId, kicked, worker, saved, failed>>

\* A new password has been entered: orm_save is to send an INSERT.
OnDialogResponseRegister ==
    /\ ServerIdle
    /\ dialog = "register" /\ ~kicked
    /\ pending' = Queued(
          GenerateQuery(ormId, orm[ormId], memory, SaveQueryType(orm[ormId]),
                        [public |-> "OnPlayerRegister", race |-> 0]))
    /\ Notify
    /\ dialog' = "none"
    /\ UNCHANGED <<orm, memory, loaded, finished, running, table, lastId, defined,
                   player, raceCheck, ormId, isLoggedIn, kicked, saved, failed>>

\* UpdatePlayerKills: the player is the killer.
OnPlayerDeath ==
    /\ ServerIdle
    /\ player # None /\ isLoggedIn
    /\ memory[KillsColumn] < MaxNumber
    /\ LET cells == [memory EXCEPT ![KillsColumn] = @ + 1]
       IN  /\ memory' = cells
           /\ IF Registered(ormId)
              THEN /\ pending' = Queued(GenerateQuery(ormId, orm[ormId],
                                                     cells, "UPDATE", None))
                   /\ Notify
              ELSE UNCHANGED <<pending, worker>>
    /\ UNCHANGED <<orm, loaded, finished, running, table, lastId, defined,
                   scriptVars, saved, failed>>

-----------------------------------------------------------------------------
(***************************************************************************)
(* The callbacks of the queries, each with its return to the lambda of the *)
(* plugin, which resets the error of the query's instance.                 *)
(***************************************************************************)
InCallback(public) ==
    /\ running # <<>>
    /\ running[1].callback.public = public
    /\ running' = <<>>

\* orm_setkey(Player[ORM_ID], "id").
WithIdAsKey ==
    IF ormId # None /\ Registered(ormId) /\ AutoColumn \in Names(orm[ormId])
    THEN [orm EXCEPT ![ormId] = SetKeyVariable(@, AutoColumn)] ELSE orm

\* Mutant: orm_setkey comes before the race check.
OnPlayerDataLoadedLateSetsKey ==
    /\ InCallback("OnPlayerDataLoaded")
    /\ running[1].callback.race # raceCheck
    /\ kicked' = (player # None)
    /\ orm' = [WithIdAsKey EXCEPT ![running[1].orm].error = "OK"]
    /\ UNCHANGED <<memory, loaded, databaseVars, defined, player, raceCheck,
                   ormId, isLoggedIn, dialog, worker, saved, failed>>

\* race_check is not the connection count of now: whoever is there is kicked.
OnPlayerDataLoadedLate ==
    /\ InCallback("OnPlayerDataLoaded")
    /\ running[1].callback.race # raceCheck
    /\ kicked' = (player # None)
    /\ orm' = [orm EXCEPT ![running[1].orm].error = "OK"]
    /\ UNCHANGED <<memory, loaded, databaseVars, defined, player, raceCheck,
                   ormId, isLoggedIn, dialog, worker, saved, failed>>

\* Mutant: without the race check.
OnPlayerDataLoadedUnchecked ==
    /\ InCallback("OnPlayerDataLoaded")
    /\ dialog' = IF orm[ormId].error = "OK" THEN "login" ELSE "register"
    /\ orm' = [WithIdAsKey EXCEPT ![running[1].orm].error = "OK"]
    /\ UNCHANGED <<memory, loaded, databaseVars, defined, player, raceCheck,
                   ormId, isLoggedIn, kicked, worker, saved, failed>>

\* From now on the id is the key.  What orm_errno tells decides whether the
\* player has to log in or to register.
OnPlayerDataLoaded ==
    /\ InCallback("OnPlayerDataLoaded")
    /\ running[1].callback.race = raceCheck
    /\ dialog' = IF orm[ormId].error = "OK" THEN "login" ELSE "register"
    /\ orm' = [WithIdAsKey EXCEPT ![running[1].orm].error = "OK"]
    /\ UNCHANGED <<memory, loaded, databaseVars, defined, player, raceCheck,
                   ormId, isLoggedIn, kicked, worker, saved, failed>>

\* There is no race_check here: the slot is marked as logged in.
OnPlayerRegister ==
    /\ InCallback("OnPlayerRegister")
    /\ isLoggedIn' = TRUE
    /\ orm' = [orm EXCEPT ![running[1].orm].error = "OK"]
    /\ UNCHANGED <<memory, loaded, databaseVars, defined, player, raceCheck,
                   ormId, dialog, kicked, worker, saved, failed>>

ScriptCallback == OnPlayerDataLoadedLate \/ OnPlayerDataLoaded \/ OnPlayerRegister

\* The worker, woken, executes a query.
LoginExecute ==
    /\ worker = "popping"
    /\ Execute
    /\ failed' = (failed \/ ~finished'[Len(finished')].ok)
    /\ UNCHANGED <<scriptVars, worker, saved>>

\* The worker finds nothing more in its queue; it waits; it is woken by nobody.
WorkerStep ==
    /\ \/ worker = "popping" /\ pending = <<>> /\ worker' = "parking"
       \/ worker = "parking" /\ worker' = "waiting"
       \/ worker = "waiting" /\ worker' = "popping"
    /\ UNCHANGED <<vars, scriptVars, saved, failed>>

LoginProcess ==
    /\ ApplyAndCall \/ ApplyOnly \/ DropFailed
    /\ UNCHANGED <<scriptVars, worker, saved, failed>>

PlayerActs ==
    \/ \E p \in Text : OnPlayerConnect(p)
    \/ OnDialogResponseLogin \/ OnDialogResponseRegister \/ OnPlayerDeath

LoginNext ==
    \/ PlayerActs \/ OnPlayerDisconnect
    \/ ScriptCallback \/ LoginExecute \/ WorkerStep \/ LoginProcess

\* A worker that has been woken goes on, and so do the server's ticks; that
\* it is ever woken is not assumed, and players need not do anything.
LoginSpec ==
    /\ LoginInit /\ [][LoginNext]_loginVars
    /\ WF_loginVars(LoginExecute)
    /\ WF_loginVars(LoginProcess)
    /\ WF_loginVars(ScriptCallback)

-----------------------------------------------------------------------------
(***************************************************************************)
(* Properties.                                                             *)
(***************************************************************************)
\* Every variable has its type.  Results are applied by position, and the
\* script exchanges the key between a name and a number: still no value ends
\* up in the wrong column, and a number never becomes a user name.
LoginTypeOK ==
    /\ TypeOK
    /\ memory[NameColumn] \in Text \union {0}
    /\ \A row \in table : row[NameColumn] \in Text
    /\ player \in Text \union {None}
    /\ raceCheck \in 0 .. 2 * MaxSessions
    /\ ormId \in Orm \union {None}
    /\ isLoggedIn \in BOOLEAN /\ kicked \in BOOLEAN /\ failed \in BOOLEAN
    /\ dialog \in {"none", "login", "register"}
    /\ worker \in {"parking", "waiting", "popping"}
    /\ saved \in [Text -> Number]

\* The row of a player is never overwritten with what belongs to another, and
\* never disappears: users keep their rows and their ids.
RowsKeepTheirUser ==
    [][\A row \in table : \E new \in table' :
          new[AutoColumn] = row[AutoColumn] /\ new[NameColumn] = row[NameColumn]]_loginVars

\* Who is logged in has a row, and the slot's variables name it: the next
\* orm_save updates this row and no other.
LoggedInHasRow ==
    (isLoggedIn /\ player # None) =>
       /\ memory[NameColumn] = player
       /\ orm[ormId].key = AutoColumn
       /\ \E row \in table : /\ row[AutoColumn] = memory[AutoColumn]
                             /\ row[NameColumn] = player

\* A player is asked for his password exactly if he has a row, although the
\* dialog depends on an error code that other results may have set and reset
\* in the meantime.
RightDialog ==
    dialog # "none" =>
       (dialog = "login" <=> \E row \in table : row[NameColumn] = player)

\* Who comes back gets what he left with: the SELECT of the new session sees
\* the UPDATE of the old one, even if both are under way together, and no
\* late result overwrites what it has loaded.
ReadsOwnWrites ==
    (dialog = "login" /\ ~failed) => memory[KillsColumn] = saved[player]

\* The load of the player who is connected now.
Load == [public |-> "OnPlayerDataLoaded", race |-> raceCheck]
Loading == \E i \in DOMAIN pending : pending[i].callback = Load
LoadFailed == \E i \in DOMAIN finished : finished[i].callback = Load /\ ~finished[i].ok

\* A player whose load the worker has been woken for gets a dialog, if he stays,
\* whatever becomes of all other queries and even if he has been kicked for
\* somebody else's late result.  Only if MySQL refuses his own SELECT he waits
\* for ever: nothing is run then.
DialogComes ==
    \A n \in 1 .. 2 * MaxSessions :
       (Loading /\ raceCheck = n /\ worker = "popping")
          ~> (dialog # "none" \/ raceCheck # n \/ LoadFailed)
=============================================================================
