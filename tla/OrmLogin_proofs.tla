--------------------------- MODULE OrmLogin_proofs ---------------------------
(***************************************************************************)
(* Proofs about OrmLogin, for any number of players, sessions, instances   *)
(* and queries: if players stay until they are registered, everyone who is *)
(* logged in has a row of his own, is asked for the right thing, and finds *)
(* what he left behind, and no row is ever overwritten with another's.     *)
(***************************************************************************)
EXTENDS OrmLogin, Orm_proofs

-----------------------------------------------------------------------------
(***************************************************************************)
(* Instances.                                                              *)
(***************************************************************************)
\* Keyed by the user name: until the player's row has arrived.
ByName(r) ==
    /\ r.state = "registered" /\ r.key = NameColumn /\ r.capacity = 4
    /\ r.variables = <<AutoColumn, KillsColumn>>

\* Keyed by the id, from then on.
ById(r) ==
    /\ r.state \in {"registered", "destroyed"} /\ r.key = AutoColumn /\ r.capacity = 4
    /\ r.variables = <<KillsColumn, NameColumn>>

InstancesInv ==
    \A o \in Orm : orm[o].state = "unused" \/ ByName(orm[o]) \/ ById(orm[o])

-----------------------------------------------------------------------------
(***************************************************************************)
(* Queries and results in flight.                                          *)
(***************************************************************************)
\* What a query and its result have in common.  The SELECT of a session: its
\* instance is still keyed by name when the row arrives, because only this
\* row's callback exchanges the key.
IsLoad(q) ==
    /\ q.type = "SELECT" /\ q.columns = <<AutoColumn, KillsColumn>>
    /\ q.callback \in LoginCallback /\ q.callback.public = "OnPlayerDataLoaded"
    /\ q.callback.race <= raceCheck
    /\ ByName(orm[q.orm])

IsUpdate(q) == q.type = "UPDATE" /\ q.callback = None

IsInsert(q) ==
    /\ q.type = "INSERT"
    /\ q.callback \in LoginCallback /\ q.callback.public = "OnPlayerRegister"
    /\ q.orm = ormId

\* The SELECT of the session of now.
Current(q) == q.type = "SELECT" /\ q.callback.race = raceCheck

HasRow(id, name) == \E row \in table : row[AutoColumn] = id /\ row[NameColumn] = name

NoRow(name) == \A row \in table : row[NameColumn] # name

\* An UPDATE writes the row of one id, and only the name that is there.
QueryInv(q) ==
    \/ IsLoad(q) /\ q.key = NameColumn
    \/ /\ IsUpdate(q) \/ IsInsert(q)
       /\ q.key = AutoColumn /\ DOMAIN q.values = {KillsColumn, NameColumn}
       /\ q.type = "UPDATE" => HasRow(q.keyValue, q.values[NameColumn])
       /\ q.type = "INSERT" => q.values[KillsColumn] = 0 /\ q.values[NameColumn] = player

ResultInv(f) ==
    \/ IsLoad(f)
    \/ IsUpdate(f)
    \/ IsInsert(f) /\ (f.ok => f.insertId # 0 /\ HasRow(f.insertId, player))

InFlightInv ==
    /\ \A i \in DOMAIN pending : QueryInv(pending[i])
    /\ \A i \in DOMAIN finished : ResultInv(finished[i])
    /\ running # <<>> =>
          LET f == running[1]
          IN  /\ Len(running) = 1 /\ f.ok
              /\ IsLoad(f) \/ (IsInsert(f) /\ ResultInv(f))
              /\ IsLoad(f) => orm[f.orm].error = ResultError(f)

\* Nothing but UPDATEs is in flight.
OnlyUpdates ==
    /\ \A i \in DOMAIN pending : IsUpdate(pending[i])
    /\ \A i \in DOMAIN finished : IsUpdate(finished[i])
    /\ running = <<>>

NothingInFlight == pending = <<>> /\ finished = <<>> /\ running = <<>>

\* What the answer to the current SELECT tells about the table.
Answer(f) ==
    \/ f.rows = <<>> /\ NoRow(player)
    \/ \E row \in table :
          /\ f.rows = <<row>> /\ row[NameColumn] = player
          /\ ~failed => row[KillsColumn] = saved[player]

-----------------------------------------------------------------------------
(***************************************************************************)
(* The phases of a slot.                                                   *)
(***************************************************************************)
Insertless ==
    /\ \A i \in DOMAIN pending : pending[i].type # "INSERT"
    /\ \A i \in DOMAIN finished : finished[i].type # "INSERT"
    /\ running # <<>> => running[1].type # "INSERT"

\* Nobody is there, and every SELECT in flight is late.
Away ==
    /\ player = None /\ ~isLoggedIn /\ dialog = "none" /\ ~kicked
    /\ Insertless
    /\ \A i \in DOMAIN pending : ~Current(pending[i])
    /\ \A i \in DOMAIN finished : ~Current(finished[i])
    /\ running # <<>> => ~Current(running[1])

Untouched == memory[AutoColumn] = 0 /\ memory[KillsColumn] = 0

\* A player waits for his SELECT, the last query in flight.
WaitsForRow ==
    /\ player # None /\ ~isLoggedIn /\ dialog = "none"
    /\ ormId \in Orm /\ ByName(orm[ormId])
    /\ memory[NameColumn] = player
    /\ Insertless
    /\ \A i \in DOMAIN pending :
          Current(pending[i]) =>
             i = Len(pending) /\ pending[i].orm = ormId /\ pending[i].keyValue = player
    /\ \A i \in DOMAIN finished :
          Current(finished[i]) =>
             /\ i = Len(finished) /\ finished[i].orm = ormId /\ pending = <<>>
             /\ finished[i].ok => Answer(finished[i])
    /\ running = <<>> => (kicked \/ Untouched)
    /\ running # <<>> /\ Current(running[1]) =>
          /\ pending = <<>> /\ finished = <<>>
          /\ running[1].orm = ormId /\ Answer(running[1])
          /\ IF running[1].rows = <<>> THEN kicked \/ Untouched
             ELSE /\ memory[AutoColumn] = running[1].rows[1][AutoColumn]
                  /\ memory[KillsColumn] = running[1].rows[1][KillsColumn]

HasInstance == ormId \in Orm /\ ById(orm[ormId]) /\ orm[ormId].state = "registered"

\* A dialog is on the screen.
Asked ==
    /\ player # None /\ ~isLoggedIn /\ dialog \in {"login", "register"}
    /\ HasInstance /\ NothingInFlight
    /\ memory[NameColumn] = player
    /\ dialog = "login" =>
          /\ HasRow(memory[AutoColumn], player)
          /\ ~failed => memory[KillsColumn] = saved[player]
    /\ dialog = "register" => NoRow(player) /\ (kicked \/ Untouched)

\* His INSERT is under way, or was refused.
WaitsForInsert ==
    /\ player # None /\ ~isLoggedIn /\ dialog = "none" /\ ~kicked
    /\ HasInstance
    /\ memory[NameColumn] = player
    /\ Len(pending) + Len(finished) + Len(running) <= 1
    /\ \A i \in DOMAIN pending : IsInsert(pending[i])
    /\ \A i \in DOMAIN finished : IsInsert(finished[i])
    /\ running # <<>> => IsInsert(running[1]) /\ memory[AutoColumn] = running[1].insertId

Playing ==
    /\ player # None /\ isLoggedIn /\ dialog = "none" /\ ~kicked
    /\ HasInstance /\ OnlyUpdates
    /\ memory[NameColumn] = player
    /\ HasRow(memory[AutoColumn], player)

-----------------------------------------------------------------------------
(***************************************************************************)
(* What was saved.                                                         *)
(***************************************************************************)
UpdateOf(q, p) == q.type = "UPDATE" /\ q.values[NameColumn] = p

\* The last UPDATE of a player who is not playing, or if there is none his
\* row, holds what he left with.
SavedOf(p) ==
    /\ \A i \in DOMAIN pending :
          UpdateOf(pending[i], p) /\ (\A j \in DOMAIN pending : j > i => ~UpdateOf(pending[j], p))
             => pending[i].values[KillsColumn] = saved[p]
    /\ (\A i \in DOMAIN pending : ~UpdateOf(pending[i], p)) =>
          \A row \in table : row[NameColumn] = p => row[KillsColumn] = saved[p]
    /\ NoRow(p) => saved[p] = 0

SavedInv ==
    ~failed => \A p \in Text : (p # player \/ ~isLoggedIn) => SavedOf(p)

TableInv ==
    /\ NoDuplicates(table)
    /\ \A row \in table : row[AutoColumn] # 0 /\ row[NameColumn] \in Text

\* Two steps of raceCheck per session.
SlotInv ==
    /\ player \in Text \union {None}
    /\ raceCheck \in 0 .. 2 * MaxSessions
    /\ raceCheck % 2 = IF player = None THEN 0 ELSE 1
    /\ ormId \in Orm \union {None}
    /\ loaded /\ defined
    /\ failed \in BOOLEAN /\ kicked \in BOOLEAN /\ isLoggedIn \in BOOLEAN
    /\ memory[NameColumn] \in Text \union {0}
    /\ saved \in [Text -> Number]

LoginInv ==
    /\ DataInv /\ OrmType /\ SlotInv
    /\ InstancesInv /\ InFlightInv /\ TableInv /\ SavedInv
    /\ Away \/ WaitsForRow \/ Asked \/ WaitsForInsert \/ Playing

-----------------------------------------------------------------------------
(***************************************************************************)
(* The instances, and the queries that are made of them.                   *)
(***************************************************************************)
LEMMA Columns ==
    /\ NameColumn \in Column /\ KillsColumn \in Column /\ AutoColumn \in Column
    /\ NameColumn # KillsColumn /\ NameColumn # AutoColumn /\ KillsColumn # AutoColumn
    /\ NameColumn \notin Numeric /\ KillsColumn \in Numeric /\ AutoColumn \in Numeric
    /\ AutoColumn \in Unique /\ NameColumn \in Unique
    /\ None \notin Column
BY LoginColumnsAssumption, ColumnAssumption, UniqueAssumption, NoneAssumption

LEMMA AppendIs ==
    ASSUME NEW S, NEW v \in Seq(S), NEW c \in S, NEW w \in Seq(S),
           Len(w) = Len(v) + 1, w[Len(w)] = c, \A i \in 1 .. Len(v) : w[i] = v[i]
    PROVE  Append(v, c) = w
<1>1. Append(v, c) \in Seq(S) /\ Len(Append(v, c)) = Len(v) + 1
  OBVIOUS
<1>2. \A i \in 1 .. Len(w) : Append(v, c)[i] = w[i]
  OBVIOUS
<1> QED
  BY <1>1, <1>2, SeqEqual

LEMMA AppendToOne ==
    ASSUME NEW S, NEW a \in S, NEW b \in S
    PROVE  Append(<<a>>, b) = <<a, b>>
<1> DEFINE v == <<a>>
           w == <<a, b>>
<1>1. v \in Seq(S) /\ w \in Seq(S) /\ Len(v) = 1 /\ Len(w) = 2 /\ w[2] = b
  OBVIOUS
<1>2. \A i \in 1 .. Len(v) : w[i] = v[i]
  OBVIOUS
<1> HIDE DEF v, w
<1>3. Len(w) = Len(v) + 1 /\ w[Len(w)] = b
  BY <1>1
<1>4. Append(v, b) = w
  BY <1>1, <1>2, <1>3, AppendIs
<1> QED
  BY <1>4 DEF v, w

LEMMA AppendToTwo ==
    ASSUME NEW S, NEW a \in S, NEW b \in S, NEW c \in S
    PROVE  Append(<<a, b>>, c) = <<a, b, c>>
<1> DEFINE v == <<a, b>>
           w == <<a, b, c>>
<1>1. v \in Seq(S) /\ w \in Seq(S) /\ Len(v) = 2 /\ Len(w) = 3 /\ w[3] = c
  OBVIOUS
<1>2. \A i \in 1 .. Len(v) : w[i] = v[i]
  OBVIOUS
<1> HIDE DEF v, w
<1>3. Len(w) = Len(v) + 1 /\ w[Len(w)] = c
  BY <1>1
<1>4. Append(v, c) = w
  BY <1>1, <1>2, <1>3, AppendIs
<1> QED
  BY <1>4 DEF v, w

LEMMA PushBackMembers ==
    ASSUME NEW r \in OrmRecord, NEW c \in Column
    PROVE  /\ PushBack(r, c) \in OrmRecord
           /\ PushBack(r, c).state = r.state
           /\ PushBack(r, c).key = r.key
           /\ PushBack(r, c).variables = Append(r.variables, c)
           /\ Len(r.variables) < r.capacity => PushBack(r, c).capacity = r.capacity
           /\ Len(r.variables) = r.capacity =>
                 /\ r.capacity = 0 => PushBack(r, c).capacity = 1
                 /\ r.capacity # 0 => PushBack(r, c).capacity = 2 * r.capacity
<1> DEFINE w == Append(r.variables, c)
           cap == IF Len(r.variables) < r.capacity THEN r.capacity
                  ELSE IF r.capacity = 0 THEN 1 ELSE 2 * r.capacity
<1>1. w \in Seq(Column) /\ cap \in Nat
  BY DEF OrmRecord
<1>2. PushBack(r, c) = [r EXCEPT !.variables = w, !.capacity = cap]
  BY DEF PushBack
<1> HIDE DEF w, cap
<1>3. /\ PushBack(r, c) \in OrmRecord /\ PushBack(r, c).state = r.state
      /\ PushBack(r, c).key = r.key
      /\ PushBack(r, c).variables = w /\ PushBack(r, c).capacity = cap
  BY <1>1, <1>2 DEF OrmRecord
<1>4. Len(r.variables) \in Nat /\ r.capacity \in Nat
  BY DEF OrmRecord
<1> QED
  BY <1>3, <1>4 DEF w, cap

\* The p-th of three variables is erased.
Without(a, b, c, p) == IF p = 1 THEN <<b, c>> ELSE IF p = 2 THEN <<a, c>> ELSE <<a, b>>

LEMMA EraseMembers ==
    ASSUME NEW r \in OrmRecord, NEW a \in Column, NEW b \in Column, NEW c \in Column,
           a # b, a # c, b # c, r.variables = <<a, b, c>>, NEW p \in 1 .. 3
    PROVE  LET s == Erase(r, <<a, b, c>>[p])
           IN  /\ s \in OrmRecord
               /\ s.state = r.state /\ s.key = r.key /\ s.error = r.error
               /\ s.capacity = r.capacity
               /\ s.variables = Without(a, b, c, p)
<1> DEFINE name == <<a, b, c>>[p]
           w == Without(a, b, c, p)
<1>1. Position(r, name) = p
  <2>1. \A i \in 1 .. 3 : <<a, b, c>>[i] = name <=> i = p
    OBVIOUS
  <2>2. DOMAIN r.variables = 1 .. 3
    OBVIOUS
  <2> QED
    BY <2>1, <2>2 DEF Position
<1>2. w = [i \in 1 .. 2 |-> <<a, b, c>>[IF i < p THEN i ELSE i + 1]]
  BY DEF Without
<1>3. w \in Seq(Column)
  BY DEF Without
<1>4. Erase(r, name) = [r EXCEPT !.variables = w]
  <2>1. Len(r.variables) - 1 = 2
    OBVIOUS
  <2> HIDE DEF w, name
  <2> QED
    BY <1>1, <1>2, <2>1 DEF Erase
<1> HIDE DEF w, name
<1>5. LET s == Erase(r, name)
      IN  s \in OrmRecord /\ s.state = r.state /\ s.key = r.key /\ s.error = r.error
          /\ s.capacity = r.capacity /\ s.variables = w
  BY <1>3, <1>4 DEF OrmRecord
<1> QED
  BY <1>5 DEF w, name

LEMMA Fresh ==
    /\ FreshInstance \in OrmRecord
    /\ ByName(FreshInstance)
<1> DEFINE A == AutoColumn
           N == NameColumn
           K == KillsColumn
           r1 == PushBack(NewOrm, A)
           r2 == PushBack(r1, N)
           r3 == PushBack(r2, K)
           r4 == [r3 EXCEPT !.state = "registered"]
           r5 == [r4 EXCEPT !.key = N]
<1>1. A \in Column /\ N \in Column /\ K \in Column /\ A # N /\ A # K /\ N # K
  BY Columns
<1>2. r1 \in OrmRecord /\ r1.variables = <<A>> /\ r1.key = None /\ r1.capacity = 1
  <2>1. NewOrm \in OrmRecord /\ NewOrm.variables = <<>> /\ NewOrm.key = None /\ NewOrm.capacity = 0
    BY DEF NewOrm, OrmRecord
  <2>2. Append(<<>>, A) = <<A>> /\ Len(<<>>) = 0
    OBVIOUS
  <2> QED
    BY <1>1, <2>1, <2>2, PushBackMembers
<1> HIDE DEF r1
<1>3. r2 \in OrmRecord /\ r2.variables = <<A, N>> /\ r2.key = None /\ r2.capacity = 2
  <2>1. Append(<<A>>, N) = <<A, N>> /\ Len(<<A>>) = 1
    BY <1>1, AppendToOne
  <2>2. Append(r1.variables, N) = <<A, N>> /\ Len(r1.variables) = 1
    BY <1>2, <2>1
  <2>3. r2.capacity = 2 /\ r2.variables = Append(r1.variables, N)
        /\ r2 \in OrmRecord /\ r2.key = None
    <3>1. r1 \in OrmRecord /\ r1.key = None /\ r1.capacity = 1 /\ Len(r1.variables) = 1
          /\ N \in Column
      BY <1>1, <1>2, <2>2
    <3>2. Len(r1.variables) = r1.capacity /\ r1.capacity # 0 /\ 2 * r1.capacity = 2
      BY <3>1
    <3>3. PushBack(r1, N).capacity = 2 * r1.capacity
      BY <3>1, <3>2, PushBackMembers
    <3> QED
      BY <3>1, <3>2, <3>3, PushBackMembers DEF r2
  <2> QED
    BY <2>2, <2>3
<1> HIDE DEF r2
<1>4. r3 \in OrmRecord /\ r3.variables = <<A, N, K>> /\ r3.key = None /\ r3.capacity = 4
  <2>1. Append(<<A, N>>, K) = <<A, N, K>> /\ Len(<<A, N>>) = 2
    BY <1>1, AppendToTwo
  <2>2. Append(r2.variables, K) = <<A, N, K>> /\ Len(r2.variables) = 2
    BY <1>3, <2>1
  <2>3. r3.capacity = 4 /\ r3.variables = Append(r2.variables, K)
        /\ r3 \in OrmRecord /\ r3.key = None
    <3>1. r2 \in OrmRecord /\ r2.key = None /\ r2.capacity = 2 /\ Len(r2.variables) = 2
          /\ K \in Column
      BY <1>1, <1>3, <2>2
    <3>2. Len(r2.variables) = r2.capacity /\ r2.capacity # 0 /\ 2 * r2.capacity = 4
      BY <3>1
    <3>3. PushBack(r2, K).capacity = 2 * r2.capacity
      BY <3>1, <3>2, PushBackMembers
    <3> QED
      BY <3>1, <3>2, <3>3, PushBackMembers DEF r3
  <2> QED
    BY <2>2, <2>3
<1>5. FreshInstance = SetKeyVariable(r4, N)
  BY DEF FreshInstance, r1, r2
<1> HIDE DEF r3
<1>6. r4 \in OrmRecord /\ r4.variables = <<A, N, K>> /\ r4.key = None /\ r4.capacity = 4
      /\ r4.state = "registered"
  BY <1>4 DEF OrmRecord
<1> HIDE DEF r4
<1>7. r5 \in OrmRecord /\ r5.variables = <<A, N, K>> /\ r5.key = N /\ r5.capacity = 4
      /\ r5.state = "registered"
  BY <1>1, <1>6 DEF OrmRecord
<1>8. FreshInstance = Erase(r5, N)
  BY <1>5, <1>6 DEF SetKeyVariable
<1> HIDE DEF r5
<1>9. Erase(r5, <<A, N, K>>[2]) \in OrmRecord /\ ByName(Erase(r5, <<A, N, K>>[2]))
  <2>1. Without(A, N, K, 2) = <<A, K>> /\ 2 \in 1 .. 3
    BY DEF Without
  <2> QED
    BY <1>1, <1>7, <2>1, EraseMembers DEF ByName
<1> QED
  BY <1>8, <1>9

\* orm_setkey(Player[ORM_ID], "id") turns an instance that is keyed by name.
LEMMA Exchanged ==
    ASSUME NEW r \in OrmRecord, ByName(r)
    PROVE  /\ SetKeyVariable(r, AutoColumn) \in OrmRecord
           /\ ById(SetKeyVariable(r, AutoColumn))
           /\ SetKeyVariable(r, AutoColumn).state = "registered"
<1> DEFINE A == AutoColumn
           N == NameColumn
           K == KillsColumn
           r1 == PushBack(r, N)
           r2 == [r1 EXCEPT !.key = A]
<1>1. A \in Column /\ N \in Column /\ K \in Column /\ A # N /\ A # K /\ N # K /\ N # None
  BY Columns
<1>2. /\ r1 \in OrmRecord /\ r1.state = "registered" /\ r1.capacity = 4
      /\ r1.variables = <<A, K, N>>
  <2>1. Append(<<A, K>>, N) = <<A, K, N>> /\ Len(<<A, K>>) = 2
    BY <1>1, AppendToTwo
  <2>2. Append(r.variables, N) = <<A, K, N>> /\ Len(r.variables) = 2
        /\ r.capacity = 4 /\ r.state = "registered"
    BY <2>1 DEF ByName
  <2>3. r1.capacity = 4 /\ r1.variables = Append(r.variables, N)
        /\ r1 \in OrmRecord /\ r1.state = "registered"
    <3>1. r.capacity = 4 /\ Len(r.variables) = 2 /\ r.state = "registered" /\ N \in Column
      BY <1>1, <2>2
    <3>2. Len(r.variables) < r.capacity
      BY <3>1
    <3>3. PushBack(r, N).capacity = r.capacity
      BY <3>1, <3>2, PushBackMembers
    <3> QED
      BY <3>1, <3>3, PushBackMembers DEF r1
  <2> QED
    BY <2>2, <2>3
<1>3. SetKeyVariable(r, A) = Erase(r2, A)
  BY <1>1 DEF SetKeyVariable, ByName
<1> HIDE DEF r1
<1>4. /\ r2 \in OrmRecord /\ r2.state = "registered" /\ r2.capacity = 4
      /\ r2.variables = <<A, K, N>> /\ r2.key = A
  BY <1>1, <1>2 DEF OrmRecord
<1> HIDE DEF r2
<1>5. LET s == Erase(r2, <<A, K, N>>[1])
      IN  s \in OrmRecord /\ ById(s) /\ s.state = "registered"
  <2>1. Without(A, K, N, 1) = <<K, N>> /\ 1 \in 1 .. 3
    BY DEF Without
  <2> QED
    BY <1>1, <1>4, <2>1, EraseMembers DEF ById
<1> QED
  BY <1>3, <1>5

\* What an instance that is keyed by the id saves.
LEMMA SaveQuery ==
    ASSUME NEW o \in Orm, NEW r \in OrmRecord, ById(r), NEW cells \in GoodRow,
           NEW type \in {"UPDATE", "INSERT"}, NEW callback \in Callback \union {None}
    PROVE  LET q == GenerateQuery(o, r, cells, type, callback)
           IN  /\ q \in GoodQuery
               /\ q.orm = o /\ q.type = type /\ q.callback = callback /\ q.key = AutoColumn
               /\ DOMAIN q.values = {KillsColumn, NameColumn}
               /\ q.values[KillsColumn] = cells[KillsColumn]
               /\ q.values[NameColumn] = cells[NameColumn]
               /\ q.keyValue = cells[AutoColumn]
<1>1. Names(r) = {KillsColumn, NameColumn}
  <2>1. r.variables = <<KillsColumn, NameColumn>> /\ DOMAIN <<KillsColumn, NameColumn>> = {1, 2}
    BY DEF ById
  <2> QED
    BY <2>1 DEF Names
<1>2. r.key = AutoColumn /\ r.key # None /\ type \in QueryType
  BY Columns DEF ById, QueryType
<1>3. GenerateQuery(o, r, cells, type, callback) \in GoodQuery
  BY <1>2, GenerateGood
<1>4. GenerateQuery(o, r, cells, type, callback) =
         [orm |-> o, type |-> type, callback |-> callback, columns |-> r.variables,
          values |-> [c \in {KillsColumn, NameColumn} |-> cells[c]],
          key |-> AutoColumn, keyValue |-> cells[AutoColumn]]
  BY <1>1, <1>2 DEF GenerateQuery
<1> QED
  BY <1>3, <1>4

\* What an instance that is keyed by the name loads.
LEMMA LoadQuery ==
    ASSUME NEW o \in Orm, NEW r \in OrmRecord, ByName(r), NEW cells \in GoodRow,
           NEW callback \in Callback \union {None}
    PROVE  LET q == GenerateQuery(o, r, cells, "SELECT", callback)
           IN  /\ q \in GoodQuery
               /\ q.orm = o /\ q.type = "SELECT" /\ q.callback = callback
               /\ q.columns = <<AutoColumn, KillsColumn>>
               /\ q.key = NameColumn /\ q.keyValue = cells[NameColumn]
<1>1. r.key = NameColumn /\ r.key # None /\ "SELECT" \in QueryType
      /\ r.variables = <<AutoColumn, KillsColumn>>
  BY Columns DEF ByName, QueryType
<1>2. GenerateQuery(o, r, cells, "SELECT", callback) \in GoodQuery
  BY <1>1, GenerateGood
<1> QED
  BY <1>1, <1>2 DEF GenerateQuery

-----------------------------------------------------------------------------
(***************************************************************************)
(* What is in flight stays true.                                           *)
(***************************************************************************)
LEMMA TailFacts ==
    ASSUME NEW S, NEW s \in Seq(S), s # <<>>
    PROVE  /\ Tail(s) \in Seq(S) /\ Len(Tail(s)) = Len(s) - 1 /\ Len(s) \in Nat \ {0}
           /\ DOMAIN s = 1 .. Len(s) /\ DOMAIN Tail(s) = 1 .. Len(s) - 1
           /\ Head(s) = s[1] /\ Head(s) \in S
           /\ \A i \in 1 .. Len(s) - 1 : Tail(s)[i] = s[i + 1]
           /\ Len(s) = 1 => Tail(s) = <<>>
<1>1. /\ Tail(s) \in Seq(S) /\ Len(Tail(s)) = Len(s) - 1 /\ Len(s) \in Nat \ {0}
      /\ DOMAIN s = 1 .. Len(s) /\ DOMAIN Tail(s) = 1 .. Len(s) - 1
      /\ Head(s) = s[1] /\ Head(s) \in S
  OBVIOUS
<1>2. \A i \in 1 .. Len(s) - 1 : Tail(s)[i] = s[i + 1]
  OBVIOUS
<1>3. Len(Tail(s)) = 0 => Tail(s) = <<>>
  BY <1>1, EmptySeq
<1>4. Len(s) = 1 => Tail(s) = <<>>
  BY <1>1, <1>3
<1> QED
  BY <1>1, <1>2, <1>4

LEMMA AppendFacts ==
    ASSUME NEW S, NEW s \in Seq(S), NEW x \in S
    PROVE  /\ Append(s, x) \in Seq(S) /\ Len(Append(s, x)) = Len(s) + 1 /\ Len(s) \in Nat
           /\ DOMAIN s = 1 .. Len(s) /\ DOMAIN Append(s, x) = 1 .. Len(s) + 1
           /\ \A i \in 1 .. Len(s) : Append(s, x)[i] = s[i]
           /\ Append(s, x)[Len(s) + 1] = x
OBVIOUS

\* No row loses its user, no instance that is keyed by name changes, and the
\* connection count grows.
RowsKept ==
    \A row \in table : \E new \in table' :
       new[AutoColumn] = row[AutoColumn] /\ new[NameColumn] = row[NameColumn]

Stays ==
    /\ RowsKept
    /\ \A o \in Orm : ByName(orm[o]) => ByName(orm'[o])
    /\ raceCheck \in Nat /\ raceCheck' \in Nat /\ raceCheck <= raceCheck'

LEMMA LoadStays ==
    ASSUME NEW q, q.orm \in Orm, Stays, IsLoad(q)
    PROVE  IsLoad(q)'
<1>1. q.callback.race \in Nat
  BY LoginBoundsAssumption DEF IsLoad, LoginCallback
<1> QED
  BY <1>1 DEF IsLoad, Stays

LEMMA RowStays ==
    ASSUME NEW id, NEW name, RowsKept, HasRow(id, name)
    PROVE  HasRow(id, name)'
BY DEF RowsKept, HasRow

LEMMA QueryStays ==
    ASSUME NEW q, q.orm \in Orm, Stays, QueryInv(q),
           q.type = "INSERT" => UNCHANGED <<player, ormId>>
    PROVE  QueryInv(q)'
<1>1. CASE IsLoad(q) /\ q.key = NameColumn
  BY <1>1, LoadStays DEF QueryInv
<1>2. CASE IsUpdate(q)
  <2>1. ~IsLoad(q) /\ ~IsInsert(q)
    BY <1>2 DEF IsUpdate, IsLoad, IsInsert
  <2>2. HasRow(q.keyValue, q.values[NameColumn])
    BY <1>2, <2>1 DEF QueryInv, IsUpdate
  <2>3. HasRow(q.keyValue, q.values[NameColumn])'
    BY <2>2, RowStays DEF Stays
  <2> QED
    BY <1>2, <2>1, <2>3 DEF QueryInv, IsUpdate
<1>3. CASE IsInsert(q)
  <2>1. ~IsLoad(q) /\ ~IsUpdate(q) /\ IsInsert(q)' /\ q.type = "INSERT"
    BY <1>3 DEF IsUpdate, IsLoad, IsInsert
  <2> QED
    BY <2>1 DEF QueryInv
<1> QED
  BY <1>1, <1>2, <1>3 DEF QueryInv

LEMMA ResultStays ==
    ASSUME NEW f, f.orm \in Orm, Stays, ResultInv(f),
           f.type = "INSERT" => UNCHANGED <<player, ormId>>
    PROVE  ResultInv(f)'
<1>1. CASE IsLoad(f)
  BY <1>1, LoadStays DEF ResultInv
<1>2. CASE IsUpdate(f)
  BY <1>2 DEF ResultInv, IsUpdate
<1>3. CASE IsInsert(f)
  <2>1. ~IsLoad(f) /\ ~IsUpdate(f) /\ IsInsert(f)' /\ f.type = "INSERT"
    BY <1>3 DEF IsUpdate, IsLoad, IsInsert
  <2>2. f.ok => HasRow(f.insertId, player)
    BY <2>1 DEF ResultInv
  <2>3. f.ok => HasRow(f.insertId, player)'
    BY <2>1, <2>2 DEF Stays, RowsKept, HasRow
  <2> QED
    BY <2>1, <2>3 DEF ResultInv
<1> QED
  BY <1>1, <1>2, <1>3 DEF ResultInv

\* The types of what is in flight.
LEMMA InFlightTypes ==
    ASSUME DataInv
    PROVE  /\ pending \in Seq(GoodQuery) /\ finished \in Seq(GoodResult)
           /\ running \in Seq(GoodResult)
           /\ DOMAIN pending = 1 .. Len(pending) /\ DOMAIN finished = 1 .. Len(finished)
           /\ Len(pending) \in Nat /\ Len(finished) \in Nat
           /\ \A i \in DOMAIN pending : pending[i] \in GoodQuery /\ pending[i].orm \in Orm
           /\ \A i \in DOMAIN finished : finished[i] \in GoodResult /\ finished[i].orm \in Orm
           /\ running # <<>> => running[1] \in GoodResult /\ running[1].orm \in Orm
           /\ memory \in [Column -> Value] /\ \A c \in Numeric : memory[c] \in Number
           /\ table \subseteq GoodRow /\ memory \in GoodRow
<1>1. /\ \A q \in GoodQuery : q.orm \in Orm
      /\ \A f \in GoodResult : f.orm \in Orm
  BY DEF GoodQuery, GoodResult, QueryRecord, ResultRecord
<1>2. memory \in [Column -> Value] /\ \A c \in Numeric : memory[c] \in Number
  BY DEF DataInv, GoodRow, Row
<1> QED
  BY <1>1, <1>2 DEF DataInv

\* A query that is no UPDATE of player p joins the queue.
LEMMA SavedAppend ==
    ASSUME DataInv, NEW q \in GoodQuery, NEW p, ~UpdateOf(q, p),
           pending' = Append(pending, q), UNCHANGED table, saved'[p] = saved[p], SavedOf(p)
    PROVE  SavedOf(p)'
<1>1. /\ DOMAIN pending' = 1 .. Len(pending) + 1 /\ DOMAIN pending = 1 .. Len(pending)
      /\ Len(pending) \in Nat
      /\ \A i \in 1 .. Len(pending) : pending'[i] = pending[i]
      /\ pending'[Len(pending) + 1] = q
  BY InFlightTypes, AppendFacts
<1>2. ASSUME NEW i \in DOMAIN pending', UpdateOf(pending'[i], p),
             \A j \in DOMAIN pending' : j > i => ~UpdateOf(pending'[j], p)
      PROVE  pending'[i].values[KillsColumn] = saved'[p]
  <2>1. i \in DOMAIN pending
    BY <1>1, <1>2
  <2>2. \A j \in DOMAIN pending : j > i => ~UpdateOf(pending[j], p)
    BY <1>1, <1>2
  <2> QED
    BY <1>1, <1>2, <2>1, <2>2 DEF SavedOf
<1>3. (\A i \in DOMAIN pending' : ~UpdateOf(pending'[i], p))
         => \A i \in DOMAIN pending : ~UpdateOf(pending[i], p)
  BY <1>1
<1>4. NoRow(p)' <=> NoRow(p)
  BY DEF NoRow
<1>5. (\A i \in DOMAIN pending' : ~UpdateOf(pending'[i], p)) =>
          \A row \in table' : row[NameColumn] = p => row[KillsColumn] = saved'[p]
  BY <1>3 DEF SavedOf
<1>6. \A i \in DOMAIN pending' :
          UpdateOf(pending'[i], p) /\ (\A j \in DOMAIN pending' : j > i => ~UpdateOf(pending'[j], p))
             => pending'[i].values[KillsColumn] = saved'[p]
  BY <1>2
<1> QED
  BY <1>4, <1>5, <1>6 DEF SavedOf, UpdateOf

LEMMA AppendInFlight ==
    ASSUME DataInv, InFlightInv, Stays, running = <<>>, NEW q \in GoodQuery, QueryInv(q)',
           pending' = Append(pending, q), UNCHANGED <<finished, running>>,
           ~UNCHANGED <<player, ormId>> => Insertless
    PROVE  InFlightInv'
<1>1. /\ DOMAIN pending' = 1 .. Len(pending) + 1 /\ DOMAIN pending = 1 .. Len(pending)
      /\ Len(pending) \in Nat
      /\ \A i \in 1 .. Len(pending) : pending'[i] = pending[i]
      /\ pending'[Len(pending) + 1] = q
  BY InFlightTypes, AppendFacts
<1>2. ASSUME NEW i \in DOMAIN pending' PROVE QueryInv(pending[i])'
  <2>1. CASE i = Len(pending) + 1
    BY <1>1, <2>1
  <2>2. CASE i \in DOMAIN pending
    <3>1. QueryInv(pending[i]) /\ pending[i].orm \in Orm /\ pending'[i] = pending[i]
      BY <1>1, <2>2, InFlightTypes DEF InFlightInv
    <3>2. pending[i].type = "INSERT" => UNCHANGED <<player, ormId>>
      BY <2>2 DEF Insertless
    <3> QED
      BY <3>1, <3>2, QueryStays
  <2> QED
    BY <1>1, <2>1, <2>2
<1>3. ASSUME NEW i \in DOMAIN finished PROVE ResultInv(finished[i])'
  <2>1. ResultInv(finished[i]) /\ finished[i].orm \in Orm /\ finished'[i] = finished[i]
    BY InFlightTypes DEF InFlightInv
  <2>2. finished[i].type = "INSERT" => UNCHANGED <<player, ormId>>
    BY DEF Insertless
  <2> QED
    BY <2>1, <2>2, ResultStays
<1> QED
  BY <1>2, <1>3 DEF InFlightInv

LEMMA SameInFlight ==
    ASSUME DataInv, InFlightInv, Stays, running' = <<>>, UNCHANGED <<pending, finished>>,
           ~UNCHANGED <<player, ormId>> => Insertless
    PROVE  InFlightInv'
<1>1. ASSUME NEW i \in DOMAIN pending PROVE QueryInv(pending[i])'
  <2>1. QueryInv(pending[i]) /\ pending[i].orm \in Orm /\ pending'[i] = pending[i]
    BY InFlightTypes DEF InFlightInv
  <2>2. pending[i].type = "INSERT" => UNCHANGED <<player, ormId>>
    BY DEF Insertless
  <2> QED
    BY <2>1, <2>2, QueryStays
<1>2. ASSUME NEW i \in DOMAIN finished PROVE ResultInv(finished[i])'
  <2>1. ResultInv(finished[i]) /\ finished[i].orm \in Orm /\ finished'[i] = finished[i]
    BY InFlightTypes DEF InFlightInv
  <2>2. finished[i].type = "INSERT" => UNCHANGED <<player, ormId>>
    BY DEF Insertless
  <2> QED
    BY <2>1, <2>2, ResultStays
<1> QED
  BY <1>1, <1>2 DEF InFlightInv

LEMMA AppendGood ==
    ASSUME DataInv, NEW q \in GoodQuery, pending' = Append(pending, q), memory' \in GoodRow,
           UNCHANGED <<finished, running, table, lastId, loaded, defined>>
    PROVE  DataInv'
<1>1. pending' \in Seq(GoodQuery)
  BY AppendFacts DEF DataInv
<1> QED
  BY <1>1 DEF DataInv

\* A result of before is no result of the session that begins or ends.
LEMMA OldIsLate ==
    ASSUME NEW q, raceCheck \in Nat, raceCheck' = raceCheck + 1, IsLoad(q)
    PROVE  ~Current(q)'
<1>1. q.callback.race \in Nat /\ q.callback.race <= raceCheck
  BY LoginBoundsAssumption DEF IsLoad, LoginCallback
<1> QED
  BY <1>1 DEF Current

LEMMA OldInFlightIsLate ==
    ASSUME DataInv, InFlightInv, raceCheck \in Nat, raceCheck' = raceCheck + 1
    PROVE  /\ \A i \in DOMAIN pending : ~(pending[i].type = "SELECT" /\ pending[i].callback.race = raceCheck')
           /\ \A i \in DOMAIN finished : ~(finished[i].type = "SELECT" /\ finished[i].callback.race = raceCheck')
<1>1. ASSUME NEW q, IsLoad(q) \/ IsUpdate(q) \/ IsInsert(q)
      PROVE  ~(q.type = "SELECT" /\ q.callback.race = raceCheck')
  <2>1. CASE IsLoad(q)
    BY <2>1, OldIsLate DEF Current
  <2>2. CASE IsUpdate(q) \/ IsInsert(q)
    BY <2>2 DEF IsUpdate, IsInsert
  <2> QED
    BY <1>1, <2>1, <2>2
<1>2. \A i \in DOMAIN pending : IsLoad(pending[i]) \/ IsUpdate(pending[i]) \/ IsInsert(pending[i])
  BY DEF InFlightInv, QueryInv
<1>3. \A i \in DOMAIN finished : IsLoad(finished[i]) \/ IsUpdate(finished[i]) \/ IsInsert(finished[i])
  BY DEF InFlightInv, ResultInv
<1> QED
  BY <1>1, <1>2, <1>3

-----------------------------------------------------------------------------
(***************************************************************************)
(* The server's callbacks.                                                 *)
(***************************************************************************)
LEMMA ConnectStep ==
    ASSUME LoginInv, NEW p \in Text, OnPlayerConnect(p)
    PROVE  LoginInv' /\ RowsKept
<1> DEFINE o == CHOOSE x \in Orm : orm[x].state = "unused"
           cells == [c \in Column |-> IF c = NameColumn THEN p ELSE 0]
           callback == [public |-> "OnPlayerDataLoaded", race |-> raceCheck + 1]
           g == GenerateQuery(o, FreshInstance, cells, "SELECT", callback)
<1>1. /\ running = <<>> /\ player = None /\ raceCheck < 2 * MaxSessions
      /\ o \in Orm /\ orm[o].state = "unused"
      /\ ormId' = o /\ orm' = [orm EXCEPT ![o] = FreshInstance] /\ memory' = cells
      /\ pending' = Append(pending, g)
      /\ player' = p /\ raceCheck' = raceCheck + 1 /\ isLoggedIn' = FALSE
      /\ UNCHANGED <<loaded, finished, running, table, lastId, defined, dialog,
                     kicked, saved, failed>>
  BY DEF OnPlayerConnect, ServerIdle, RaceCheckArgument, Queued
<1> HIDE DEF o
<1>2. /\ DataInv /\ OrmType /\ SlotInv /\ InstancesInv /\ InFlightInv /\ TableInv /\ SavedInv
      /\ Away
  BY <1>1 DEF LoginInv, WaitsForRow, Asked, WaitsForInsert, Playing
<1>3. /\ orm \in [Orm -> OrmRecord] /\ FreshInstance \in OrmRecord /\ ByName(FreshInstance)
      /\ p # None
  BY <1>2, RecordOf, Fresh, LoginNoneAssumption
<1>4. /\ orm' \in [Orm -> OrmRecord] /\ orm'[o] = FreshInstance
      /\ \A x \in Orm : x # o => orm'[x] = orm[x]
  BY <1>1, <1>3
<1>5. raceCheck \in Nat /\ raceCheck + 1 \in 0 .. 2 * MaxSessions /\ MaxSessions \in Nat
  BY <1>1, <1>2, LoginBoundsAssumption DEF SlotInv
<1>6. callback \in LoginCallback /\ callback \in Callback \union {None}
  <2>1. callback \in LoginCallback
    BY <1>5 DEF LoginCallback
  <2> QED
    BY <2>1, LoginCallbackAssumption
<1>7. cells \in GoodRow /\ cells[NameColumn] = p /\ cells[AutoColumn] = 0 /\ cells[KillsColumn] = 0
  BY Columns, ZeroIsNumber, ColumnAssumption DEF GoodRow, Row, Value
<1> HIDE DEF cells, callback
<1>8. PICK q \in GoodQuery :
         /\ q.orm = o /\ q.type = "SELECT" /\ q.callback = callback
         /\ q.columns = <<AutoColumn, KillsColumn>>
         /\ q.key = NameColumn /\ q.keyValue = p
         /\ pending' = Append(pending, q)
  BY <1>1, <1>3, <1>6, <1>7, LoadQuery
<1> HIDE DEF g
<1>9. DataInv' /\ OrmType'
  <2>1. DataInv'
    BY <1>1, <1>2, <1>7, <1>8, AppendGood
  <2>2. OrmType'
    BY <1>4 DEF OrmType, OrmRecord
  <2> QED
    BY <2>1, <2>2
<1>10. SlotInv'
  <2>1. raceCheck % 2 = 0
    BY <1>1, <1>2 DEF SlotInv
  <2>2. (raceCheck + 1) % 2 = 1
    BY <1>5, <2>1
  <2>3. memory'[NameColumn] \in Text \union {0}
    BY <1>1, <1>7
  <2> QED
    BY <1>1, <1>2, <1>3, <1>5, <2>2, <2>3 DEF SlotInv
<1>11. InstancesInv'
  BY <1>2, <1>3, <1>4 DEF InstancesInv
<1>12. Stays
  <2>1. ~ByName(orm[o])
    BY <1>1 DEF ByName
  <2> QED
    BY <1>1, <1>4, <1>5, <2>1 DEF Stays, RowsKept
<1>13. callback.race = raceCheck + 1 /\ callback.public = "OnPlayerDataLoaded"
  BY DEF callback
<1>14. InFlightInv'
  <2>1. IsLoad(q)'
    BY <1>1, <1>3, <1>4, <1>5, <1>6, <1>8, <1>13 DEF IsLoad
  <2>2. QueryInv(q)'
    BY <1>8, <2>1 DEF QueryInv
  <2> QED
    BY <1>1, <1>2, <1>8, <1>12, <2>2, AppendInFlight DEF Away
<1>15. TableInv' /\ SavedInv'
  <2>1. TableInv'
    BY <1>1, <1>2 DEF TableInv, NoDuplicates
  <2>2. ASSUME ~failed, NEW u \in Text PROVE SavedOf(u)'
    <3>1. SavedOf(u)
      BY <1>2, <2>2 DEF SavedInv, Away
    <3>2. ~UpdateOf(q, u)
      BY <1>8 DEF UpdateOf
    <3> QED
      BY <1>1, <1>2, <1>8, <3>1, <3>2, SavedAppend
  <2> QED
    BY <1>1, <2>1, <2>2 DEF SavedInv
<1>16. WaitsForRow'
  <2>1. /\ DOMAIN pending' = 1 .. Len(pending) + 1 /\ DOMAIN pending = 1 .. Len(pending)
        /\ Len(pending) \in Nat /\ Len(pending') = Len(pending) + 1
        /\ \A i \in 1 .. Len(pending) : pending'[i] = pending[i]
        /\ pending'[Len(pending) + 1] = q
    BY <1>1, <1>2, <1>8, InFlightTypes, AppendFacts
  <2>2. /\ \A i \in DOMAIN pending : ~(pending[i].type = "SELECT" /\ pending[i].callback.race = raceCheck')
        /\ \A i \in DOMAIN finished : ~(finished[i].type = "SELECT" /\ finished[i].callback.race = raceCheck')
    BY <1>1, <1>2, <1>5, OldInFlightIsLate
  <2>3. \A i \in DOMAIN pending' :
          Current(pending[i])' =>
             i = Len(pending') /\ pending'[i].orm = ormId' /\ pending'[i].keyValue = player'
    BY <1>1, <1>8, <2>1, <2>2 DEF Current
  <2>4. \A i \in DOMAIN finished' : ~Current(finished[i])'
    BY <1>1, <2>2 DEF Current
  <2>5. Insertless'
    <3>1. \A i \in DOMAIN pending' : pending'[i].type # "INSERT"
      BY <1>2, <1>8, <2>1 DEF Away, Insertless
    <3> QED
      BY <1>1, <1>2, <3>1 DEF Away, Insertless
  <2>6. Untouched' /\ memory'[NameColumn] = player'
    BY <1>1, <1>7 DEF Untouched
  <2>7. player' # None /\ ~isLoggedIn' /\ dialog' = "none" /\ ormId' \in Orm /\ ByName(orm'[ormId'])
    BY <1>1, <1>2, <1>3, <1>4 DEF Away
  <2> QED
    BY <1>1, <2>3, <2>4, <2>5, <2>6, <2>7 DEF WaitsForRow
<1> QED
  BY <1>9, <1>10, <1>11, <1>12, <1>14, <1>15, <1>16 DEF LoginInv, Stays

\* Whoever is saved is saved by an UPDATE of his own row.
LEMMA SavesOwnRow ==
    ASSUME LoginInv, Playing, NEW cells \in GoodRow,
           cells[AutoColumn] = memory[AutoColumn], cells[NameColumn] = memory[NameColumn]
    PROVE  /\ memory[AutoColumn] # 0
           /\ \E q \in GoodQuery :
                 /\ q = GenerateQuery(ormId, orm[ormId], cells, "UPDATE", None)
                 /\ IsUpdate(q) /\ QueryInv(q) /\ UpdateOf(q, player)
                 /\ \A p \in Text : UpdateOf(q, p) => p = player
                 /\ q.values[KillsColumn] = cells[KillsColumn]
<1>1. /\ HasInstance /\ memory[NameColumn] = player /\ HasRow(memory[AutoColumn], player)
      /\ TableInv /\ OrmType
  BY DEF Playing, LoginInv
<1>2. memory[AutoColumn] # 0
  BY <1>1 DEF HasRow, TableInv
<1>3. ormId \in Orm /\ orm[ormId] \in OrmRecord /\ ById(orm[ormId]) /\ None \in Callback \union {None}
  BY <1>1, RecordOf DEF HasInstance
<1>4. PICK q \in GoodQuery :
         /\ q = GenerateQuery(ormId, orm[ormId], cells, "UPDATE", None)
         /\ q.type = "UPDATE" /\ q.callback = None /\ q.key = AutoColumn
         /\ DOMAIN q.values = {KillsColumn, NameColumn}
         /\ q.values[KillsColumn] = cells[KillsColumn]
         /\ q.values[NameColumn] = cells[NameColumn]
         /\ q.keyValue = cells[AutoColumn]
  BY <1>3, SaveQuery
<1>5. HasRow(q.keyValue, q.values[NameColumn])
  BY <1>1, <1>4
<1>6. QueryInv(q) /\ IsUpdate(q)
  BY <1>4, <1>5 DEF QueryInv, IsUpdate
<1>7. UpdateOf(q, player) /\ \A p \in Text : UpdateOf(q, p) => p = player
  BY <1>1, <1>4 DEF UpdateOf
<1> QED
  BY <1>2, <1>4, <1>6, <1>7

LEMMA DisconnectStep ==
    ASSUME LoginInv, ~LeaveEarly, OnPlayerDisconnect
    PROVE  LoginInv' /\ RowsKept
<1>1. /\ running = <<>> /\ player # None
      /\ kicked \/ ~Registering
      /\ raceCheck' = raceCheck + 1 /\ isLoggedIn' = FALSE /\ player' = None
      /\ dialog' = "none" /\ kicked' = FALSE
      /\ UNCHANGED <<memory, loaded, finished, running, table, lastId, defined, ormId, failed>>
  BY DEF OnPlayerDisconnect, ServerIdle
<1>2. /\ DataInv /\ OrmType /\ SlotInv /\ InstancesInv /\ InFlightInv /\ TableInv /\ SavedInv
  BY DEF LoginInv
<1>3. WaitsForRow \/ Asked \/ WaitsForInsert \/ Playing
  BY <1>1 DEF LoginInv, Away
<1>4. Insertless
  <2>1. CASE WaitsForInsert
    <3>1. /\ \A i \in DOMAIN pending : pending[i].type # "INSERT"
          /\ \A i \in DOMAIN finished : finished[i].type # "INSERT"
      BY <1>1, <2>1 DEF WaitsForInsert, Registering
    <3> QED
      BY <1>1, <3>1 DEF Insertless
  <2>2. CASE Playing
    BY <2>2 DEF Playing, OnlyUpdates, IsUpdate, Insertless
  <2>3. CASE Asked
    BY <2>3 DEF Asked, NothingInFlight, Insertless
  <2> QED
    BY <1>3, <2>1, <2>2, <2>3 DEF WaitsForRow
<1>5. isLoggedIn => Playing
  BY <1>3 DEF WaitsForRow, Asked, WaitsForInsert
<1>6. raceCheck \in Nat /\ raceCheck + 1 \in 0 .. 2 * MaxSessions /\ (raceCheck + 1) % 2 = 0
  <2>1. raceCheck % 2 = 1 /\ raceCheck \in 0 .. 2 * MaxSessions /\ MaxSessions \in Nat
    BY <1>1, <1>2, LoginBoundsAssumption DEF SlotInv
  <2>2. raceCheck # 2 * MaxSessions
    BY <2>1
  <2> QED
    BY <2>1, <2>2
<1>7. TableInv' /\ RowsKept
  BY <1>1, <1>2 DEF TableInv, NoDuplicates, RowsKept
<1>8. /\ \A i \in DOMAIN pending : ~(pending[i].type = "SELECT" /\ pending[i].callback.race = raceCheck')
      /\ \A i \in DOMAIN finished : ~(finished[i].type = "SELECT" /\ finished[i].callback.race = raceCheck')
  BY <1>1, <1>2, <1>6, OldInFlightIsLate
<1>9. CASE isLoggedIn
  <2>1. Playing /\ memory \in GoodRow /\ ormId \in Orm /\ orm[ormId] \in OrmRecord
        /\ ById(orm[ormId]) /\ orm[ormId].state = "registered" /\ memory[NameColumn] = player
    BY <1>2, <1>5, <1>9, RecordOf DEF DataInv, Playing, HasInstance
  <2>2. memory[AutoColumn] # 0
    BY <2>1, SavesOwnRow
  <2>3. PICK q \in GoodQuery :
           /\ q = GenerateQuery(ormId, orm[ormId], memory, "UPDATE", None)
           /\ IsUpdate(q) /\ QueryInv(q) /\ UpdateOf(q, player)
           /\ \A p \in Text : UpdateOf(q, p) => p = player
           /\ q.values[KillsColumn] = memory[KillsColumn]
    BY <2>1, SavesOwnRow
  <2>4. SaveQueryType(orm[ormId]) = "UPDATE"
    BY <2>1, <2>2, Columns DEF SaveQueryType, ById
  <2>5. /\ pending' = Append(pending, q)
        /\ orm' = [orm EXCEPT ![ormId].state = "destroyed"]
        /\ saved' = [saved EXCEPT ![player] = memory[KillsColumn]]
    BY <1>9, <2>1, <2>3, <2>4, LoginNoneAssumption DEF OnPlayerDisconnect, Registered, Queued
  <2>6. /\ orm' \in [Orm -> OrmRecord] /\ ById(orm'[ormId])
        /\ \A x \in Orm : x # ormId => orm'[x] = orm[x]
    <3>1. orm \in [Orm -> OrmRecord]
      BY <1>2, RecordOf
    <3>2. orm' = [orm EXCEPT ![ormId] = [orm[ormId] EXCEPT !.state = "destroyed"]]
      BY <2>5
    <3>3. LET r == [orm[ormId] EXCEPT !.state = "destroyed"]
          IN  r \in OrmRecord /\ ById(r)
      BY <2>1 DEF OrmRecord, ById
    <3> QED
      BY <2>1, <3>1, <3>2, <3>3
  <2>7. DataInv' /\ OrmType' /\ InstancesInv'
    <3>1. DataInv'
      BY <1>1, <1>2, <2>1, <2>5, AppendGood
    <3>2. OrmType'
      BY <2>6 DEF OrmType, OrmRecord
    <3> QED
      BY <1>2, <2>6, <3>1, <3>2 DEF InstancesInv
  <2>8. Stays
    <3>1. ~ByName(orm[ormId])
      BY <2>1, Columns DEF ByName, ById
    <3> QED
      BY <1>1, <1>6, <1>7, <2>6, <3>1 DEF Stays
  <2>9. InFlightInv'
    <3>1. QueryInv(q)'
      <4>1. q.orm \in Orm
        BY DEF GoodQuery, QueryRecord
      <4> QED
        BY <2>3, <2>8, <4>1, QueryStays DEF IsUpdate
    <3> QED
      BY <1>1, <1>2, <1>4, <2>5, <2>8, <3>1, AppendInFlight
  <2>10. /\ DOMAIN pending' = 1 .. Len(pending) + 1 /\ DOMAIN pending = 1 .. Len(pending)
         /\ Len(pending) \in Nat /\ Len(pending') = Len(pending) + 1
         /\ \A i \in 1 .. Len(pending) : pending'[i] = pending[i]
         /\ pending'[Len(pending) + 1] = q
    BY <1>2, <2>5, InFlightTypes, AppendFacts
  <2>11. SlotInv' /\ player \in Text
    <3>1. player \in Text /\ memory[KillsColumn] \in Number
      BY <1>1, <1>2, <2>1, Columns, InFlightTypes DEF SlotInv
    <3>2. saved' \in [Text -> Number]
      BY <1>2, <2>5, <3>1 DEF SlotInv
    <3> QED
      BY <1>1, <1>2, <1>6, <3>1, <3>2 DEF SlotInv
  <2>12. SavedInv'
    <3> SUFFICES ASSUME ~failed', NEW u \in Text PROVE SavedOf(u)'
      BY DEF SavedInv
    <3>1. CASE u # player
      <4>1. SavedOf(u)
        BY <1>1, <1>2, <3>1 DEF SavedInv
      <4>2. ~UpdateOf(q, u) /\ saved'[u] = saved[u]
        BY <1>2, <2>3, <2>5, <3>1 DEF SlotInv
      <4> QED
        BY <1>1, <1>2, <2>5, <4>1, <4>2, SavedAppend
    <3>2. CASE u = player
      <4>1. saved'[u] = memory[KillsColumn]
        BY <1>2, <2>5, <2>11, <3>2 DEF SlotInv
      <4>2. Len(pending) + 1 \in DOMAIN pending' /\ UpdateOf(pending'[Len(pending) + 1], u)
        BY <2>3, <2>10, <3>2
      <4>3. \A i \in DOMAIN pending' : i # Len(pending) + 1 =>
               Len(pending) + 1 > i
        BY <2>10
      <4>4. ~NoRow(u)'
        BY <1>1, <2>1, <3>2 DEF Playing, HasRow, NoRow
      <4>5. pending'[Len(pending) + 1].values[KillsColumn] = saved'[u]
        BY <2>3, <2>10, <4>1
      <4>6. \A i \in DOMAIN pending' :
                UpdateOf(pending'[i], u) /\ (\A j \in DOMAIN pending' : j > i => ~UpdateOf(pending'[j], u))
                   => pending'[i].values[KillsColumn] = saved'[u]
        BY <4>2, <4>3, <4>5
      <4>7. ~(\A i \in DOMAIN pending' : ~UpdateOf(pending'[i], u))
        BY <4>2
      <4> QED
        BY <4>4, <4>6, <4>7 DEF SavedOf, UpdateOf
    <3> QED
      BY <3>1, <3>2
  <2>13. Away'
    <3>1. \A i \in DOMAIN pending' : pending'[i].type # "INSERT" /\ ~Current(pending[i])'
      BY <1>4, <1>8, <2>3, <2>10 DEF Insertless, IsUpdate, Current
    <3>2. \A i \in DOMAIN finished' : finished'[i].type # "INSERT" /\ ~Current(finished[i])'
      BY <1>1, <1>4, <1>8 DEF Insertless, Current
    <3> QED
      BY <1>1, <3>1, <3>2 DEF Away, Insertless
  <2> QED
    BY <1>7, <2>7, <2>9, <2>11, <2>12, <2>13 DEF LoginInv
<1>10. CASE ~isLoggedIn
  <2>1. UNCHANGED <<pending, orm, saved>>
    BY <1>10 DEF OnPlayerDisconnect
  <2>2. DataInv' /\ OrmType' /\ InstancesInv' /\ SlotInv'
    BY <1>1, <1>2, <1>6, <2>1 DEF DataInv, OrmType, InstancesInv, SlotInv
  <2>3. Stays
    BY <1>1, <1>6, <1>7, <2>1 DEF Stays
  <2>4. InFlightInv'
    BY <1>1, <1>2, <1>4, <2>1, <2>3, SameInFlight
  <2>5. SavedInv'
    BY <1>1, <1>2, <1>10, <2>1 DEF SavedInv, SavedOf, NoRow, UpdateOf
  <2>6. Away'
    BY <1>1, <1>4, <1>8, <2>1 DEF Away, Insertless, Current
  <2> QED
    BY <1>7, <2>2, <2>4, <2>5, <2>6 DEF LoginInv
<1> QED
  BY <1>7, <1>9, <1>10

LEMMA LoginStep ==
    ASSUME LoginInv, OnDialogResponseLogin
    PROVE  LoginInv' /\ RowsKept
<1>1. /\ running = <<>> /\ dialog = "login" /\ ~kicked
      /\ isLoggedIn' = TRUE /\ dialog' = "none"
      /\ UNCHANGED <<vars, player, raceCheck, ormId, kicked, saved, failed>>
  BY DEF OnDialogResponseLogin, ServerIdle
<1>2. /\ DataInv /\ OrmType /\ SlotInv /\ InstancesInv /\ InFlightInv /\ TableInv /\ SavedInv
      /\ Asked
  BY <1>1 DEF LoginInv, Away, WaitsForRow, WaitsForInsert, Playing
<1>3. UNCHANGED <<orm, memory, loaded, pending, finished, running, table, lastId, defined>>
  BY <1>1 DEF vars
<1>4. DataInv' /\ OrmType' /\ SlotInv' /\ InstancesInv'
  BY <1>1, <1>2, <1>3 DEF DataInv, OrmType, SlotInv, InstancesInv
<1>5. TableInv' /\ RowsKept
  BY <1>2, <1>3 DEF TableInv, NoDuplicates, RowsKept
<1>6. InFlightInv'
  BY <1>2, <1>3 DEF InFlightInv, Asked, NothingInFlight
<1>7. SavedInv'
  BY <1>1, <1>2, <1>3 DEF SavedInv, SavedOf, NoRow, UpdateOf, Asked
<1>8. Playing'
  BY <1>1, <1>2, <1>3 DEF Asked, Playing, HasInstance, OnlyUpdates, NothingInFlight, HasRow
<1> QED
  BY <1>4, <1>5, <1>6, <1>7, <1>8 DEF LoginInv

LEMMA RegisterStep ==
    ASSUME LoginInv, OnDialogResponseRegister
    PROVE  LoginInv' /\ RowsKept
<1> DEFINE callback == [public |-> "OnPlayerRegister", race |-> 0]
<1>1. /\ running = <<>> /\ dialog = "register" /\ ~kicked
      /\ pending' = Append(pending,
            GenerateQuery(ormId, orm[ormId], memory, SaveQueryType(orm[ormId]), callback))
      /\ dialog' = "none"
      /\ UNCHANGED <<orm, memory, loaded, finished, running, table, lastId, defined,
                     player, raceCheck, ormId, isLoggedIn, kicked, saved, failed>>
  BY DEF OnDialogResponseRegister, ServerIdle, Queued
<1>2. /\ DataInv /\ OrmType /\ SlotInv /\ InstancesInv /\ InFlightInv /\ TableInv /\ SavedInv
      /\ Asked
  BY <1>1 DEF LoginInv, Away, WaitsForRow, WaitsForInsert, Playing
<1>3. /\ ormId \in Orm /\ orm[ormId] \in OrmRecord /\ ById(orm[ormId])
      /\ memory \in GoodRow /\ memory[NameColumn] = player
      /\ memory[AutoColumn] = 0 /\ memory[KillsColumn] = 0
  BY <1>1, <1>2, RecordOf DEF Asked, HasInstance, DataInv, Untouched
<1>4. callback \in LoginCallback /\ callback \in Callback \union {None}
      /\ callback.public = "OnPlayerRegister"
  BY LoginCallbackAssumption, LoginBoundsAssumption DEF LoginCallback
<1>5. SaveQueryType(orm[ormId]) = "INSERT"
  BY <1>3 DEF SaveQueryType, ById
<1> HIDE DEF callback
<1>6. PICK q \in GoodQuery :
         /\ q.orm = ormId /\ q.type = "INSERT" /\ q.callback = callback /\ q.key = AutoColumn
         /\ DOMAIN q.values = {KillsColumn, NameColumn}
         /\ q.values[KillsColumn] = 0 /\ q.values[NameColumn] = player
         /\ pending' = Append(pending, q)
  BY <1>1, <1>3, <1>4, <1>5, SaveQuery
<1>7. DataInv' /\ OrmType' /\ SlotInv' /\ InstancesInv'
  <2>1. DataInv'
    BY <1>1, <1>2, <1>3, <1>6, AppendGood
  <2> QED
    BY <1>1, <1>2, <2>1 DEF OrmType, SlotInv, InstancesInv
<1>8. TableInv' /\ RowsKept
  BY <1>1, <1>2 DEF TableInv, NoDuplicates, RowsKept
<1>9. Stays
  <2>1. raceCheck \in Nat
    BY <1>2, LoginBoundsAssumption DEF SlotInv
  <2> QED
    BY <1>1, <1>8, <2>1 DEF Stays
<1>10. IsInsert(q) /\ IsInsert(q)'
  BY <1>1, <1>4, <1>6 DEF IsInsert
<1>11. InFlightInv'
  <2>1. QueryInv(q)'
    BY <1>1, <1>6, <1>10 DEF QueryInv
  <2> QED
    BY <1>1, <1>2, <1>6, <1>9, <2>1, AppendInFlight
<1>12. SavedInv'
  <2> SUFFICES ASSUME ~failed', NEW u \in Text PROVE SavedOf(u)'
    BY DEF SavedInv
  <2>1. SavedOf(u) /\ ~UpdateOf(q, u)
    BY <1>1, <1>2, <1>6 DEF SavedInv, Asked, UpdateOf
  <2> QED
    BY <1>1, <1>2, <1>6, <2>1, SavedAppend
<1>13. WaitsForInsert'
  <2>1. pending = <<>> /\ finished = <<>>
    BY <1>2 DEF Asked, NothingInFlight
  <2>2. Len(pending') = 1 /\ \A i \in DOMAIN pending' : pending'[i] = q
    <3>1. pending' = <<q>>
      BY <1>6, <2>1
    <3> QED
      BY <3>1
  <2>3. \A i \in DOMAIN pending' : IsInsert(pending[i])'
    <3> SUFFICES ASSUME NEW i \in DOMAIN pending' PROVE IsInsert(pending[i])'
      OBVIOUS
    <3>1. pending'[i] = q
      BY <2>2
    <3> QED
      BY <1>10, <3>1
  <2>4. Len(pending') + Len(finished') + Len(running') <= 1
    <3>1. Len(finished') = 0 /\ Len(running') = 0
      BY <1>1, <2>1
    <3> QED
      BY <2>2, <3>1
  <2> QED
    BY <1>1, <1>2, <2>1, <2>3, <2>4 DEF WaitsForInsert, Asked, HasInstance
<1> QED
  BY <1>7, <1>8, <1>11, <1>12, <1>13 DEF LoginInv

LEMMA DeathStep ==
    ASSUME LoginInv, OnPlayerDeath
    PROVE  LoginInv' /\ RowsKept
<1> DEFINE cells == [memory EXCEPT ![KillsColumn] = @ + 1]
<1>1. /\ running = <<>> /\ player # None /\ isLoggedIn
      /\ memory[KillsColumn] < MaxNumber
      /\ memory' = cells
      /\ pending' = IF Registered(ormId)
                    THEN Append(pending, GenerateQuery(ormId, orm[ormId], cells, "UPDATE", None))
                    ELSE pending
      /\ UNCHANGED <<orm, loaded, finished, running, table, lastId, defined,
                     player, raceCheck, ormId, isLoggedIn, dialog, kicked, saved, failed>>
  BY DEF OnPlayerDeath, ServerIdle, Queued, scriptVars
<1>2. /\ DataInv /\ OrmType /\ SlotInv /\ InstancesInv /\ InFlightInv /\ TableInv /\ SavedInv
      /\ Playing
  BY <1>1 DEF LoginInv, Away, WaitsForRow, WaitsForInsert, Asked
<1>3. /\ cells \in GoodRow /\ cells[AutoColumn] = memory[AutoColumn]
      /\ cells[NameColumn] = memory[NameColumn]
  <2>1. memory \in [Column -> Value] /\ \A c \in Numeric : memory[c] \in Number
    BY <1>2, InFlightTypes
  <2>2. memory[KillsColumn] + 1 \in Number
    BY <1>1, <2>1, Columns, BoundAssumption DEF Number
  <2>3. /\ cells \in [Column -> Value]
        /\ \A c \in Column : c # KillsColumn => cells[c] = memory[c]
        /\ cells[KillsColumn] = memory[KillsColumn] + 1
    BY <2>1, <2>2, Columns DEF Value
  <2> HIDE DEF cells
  <2>4. \A c \in Numeric : cells[c] \in Number
    BY <2>1, <2>2, <2>3, ColumnAssumption
  <2> QED
    BY <2>3, <2>4, Columns DEF GoodRow, Row
<1> HIDE DEF cells
<1>4. Registered(ormId)
  BY <1>2 DEF Playing, HasInstance, Registered
<1>5. PICK q \in GoodQuery :
         /\ q = GenerateQuery(ormId, orm[ormId], cells, "UPDATE", None)
         /\ IsUpdate(q) /\ QueryInv(q) /\ UpdateOf(q, player)
         /\ \A p \in Text : UpdateOf(q, p) => p = player
  BY <1>2, <1>3, SavesOwnRow
<1>6. pending' = Append(pending, q)
  BY <1>1, <1>4, <1>5
<1>7. DataInv' /\ OrmType' /\ SlotInv' /\ InstancesInv'
  <2>1. DataInv'
    BY <1>1, <1>2, <1>3, <1>6, AppendGood
  <2> QED
    BY <1>1, <1>2, <1>3, <2>1 DEF OrmType, SlotInv, InstancesInv
<1>8. TableInv' /\ RowsKept
  BY <1>1, <1>2 DEF TableInv, NoDuplicates, RowsKept
<1>9. Stays
  <2>1. raceCheck \in Nat
    BY <1>2, LoginBoundsAssumption DEF SlotInv
  <2> QED
    BY <1>1, <1>8, <2>1 DEF Stays
<1>10. InFlightInv'
  <2>1. q.orm \in Orm
    BY DEF GoodQuery, QueryRecord
  <2>2. QueryInv(q)'
    BY <1>5, <1>9, <2>1, QueryStays DEF IsUpdate
  <2> QED
    BY <1>1, <1>2, <1>6, <1>9, <2>2, AppendInFlight
<1>11. SavedInv'
  <2> SUFFICES ASSUME ~failed', NEW u \in Text, u # player PROVE SavedOf(u)'
    BY <1>1 DEF SavedInv
  <2>1. SavedOf(u) /\ ~UpdateOf(q, u)
    BY <1>1, <1>2, <1>5 DEF SavedInv
  <2> QED
    BY <1>1, <1>2, <1>6, <2>1, SavedAppend
<1>12. Playing'
  <2>1. \A i \in DOMAIN pending' : IsUpdate(pending'[i])
    <3>1. /\ DOMAIN pending' = 1 .. Len(pending) + 1 /\ DOMAIN pending = 1 .. Len(pending)
          /\ \A i \in 1 .. Len(pending) : pending'[i] = pending[i]
          /\ pending'[Len(pending) + 1] = q /\ Len(pending) \in Nat
      BY <1>2, <1>6, InFlightTypes, AppendFacts
    <3> QED
      BY <1>2, <1>5, <3>1 DEF Playing, OnlyUpdates
  <2>2. OnlyUpdates'
    BY <1>1, <1>2, <2>1 DEF Playing, OnlyUpdates, IsUpdate
  <2> QED
    BY <1>1, <1>2, <1>3, <2>2 DEF Playing, HasInstance, HasRow
<1> QED
  BY <1>7, <1>8, <1>10, <1>11, <1>12 DEF LoginInv

-----------------------------------------------------------------------------
(***************************************************************************)
(* The callbacks of the queries.                                           *)
(***************************************************************************)
\* Only the error of one instance changes.
LEMMA ErrorStep ==
    ASSUME OrmType, InstancesInv, NEW x \in Orm, NEW e \in {"OK", "NO_DATA"},
           orm' = [orm EXCEPT ![x].error = e]
    PROVE  /\ OrmType' /\ InstancesInv'
           /\ \A o \in Orm : /\ ByName(orm[o]) => ByName(orm'[o])
                             /\ ById(orm[o]) => ById(orm'[o])
                             /\ orm'[o].state = orm[o].state
                             /\ orm'[o].variables = orm[o].variables
                             /\ orm'[o].error = IF o = x THEN e ELSE orm[o].error
<1>1. orm \in [Orm -> OrmRecord]
  BY RecordOf
<1>2. ASSUME NEW o \in Orm
      PROVE  /\ orm'[o] \in OrmRecord
             /\ orm'[o].state = orm[o].state /\ orm'[o].capacity = orm[o].capacity
             /\ orm'[o].variables = orm[o].variables /\ orm'[o].key = orm[o].key
             /\ orm'[o].error = IF o = x THEN e ELSE orm[o].error
  <2>1. orm'[o] = IF o = x THEN [orm[o] EXCEPT !.error = e] ELSE orm[o]
    BY <1>1
  <2>2. orm[o] \in OrmRecord
    BY <1>1
  <2> QED
    BY <2>1, <2>2 DEF OrmRecord
<1>3. orm' = [o \in Orm |-> orm'[o]]
  BY <1>1
<1>4. OrmType'
  BY <1>2, <1>3 DEF OrmType, OrmRecord
<1>5. \A o \in Orm : (ByName(orm[o]) => ByName(orm'[o])) /\ (ById(orm[o]) => ById(orm'[o]))
  BY <1>2 DEF ByName, ById
<1>6. InstancesInv'
  BY <1>2, <1>5 DEF InstancesInv
<1> QED
  BY <1>2, <1>4, <1>5, <1>6

\* The variables that no callback of a query changes.
LEMMA ReturnKeeps ==
    ASSUME DataInv, TableInv, SavedInv, running' = <<>>,
           UNCHANGED <<memory, loaded, pending, finished, table, lastId, defined, player,
                       saved, failed>>,
           isLoggedIn => isLoggedIn'
    PROVE  DataInv' /\ TableInv' /\ SavedInv' /\ RowsKept
<1>1. DataInv'
  BY DEF DataInv
<1>2. TableInv' /\ RowsKept
  BY DEF TableInv, NoDuplicates, RowsKept
<1>3. SavedInv'
  BY DEF SavedInv, SavedOf, NoRow, UpdateOf
<1> QED
  BY <1>1, <1>2, <1>3

\* A SELECT's callback runs while nobody is there, or while a row is awaited.
LEMMA LoadRuns ==
    ASSUME LoginInv, running # <<>>, running[1].callback.public = "OnPlayerDataLoaded"
    PROVE  /\ IsLoad(running[1]) /\ running[1].orm \in Orm /\ running[1] \in GoodResult
           /\ orm[running[1].orm].error = ResultError(running[1])
           /\ Away \/ WaitsForRow
<1>1. /\ DataInv /\ InFlightInv
  BY DEF LoginInv
<1>2. IsLoad(running[1])
  BY <1>1 DEF InFlightInv, IsInsert
<1>3. ~Asked /\ ~WaitsForInsert /\ ~Playing
  BY <1>2 DEF Asked, NothingInFlight, WaitsForInsert, Playing, OnlyUpdates, IsLoad, IsInsert
<1>4. running[1].orm \in Orm /\ running[1] \in GoodResult
  BY <1>1, InFlightTypes
<1> QED
  BY <1>1, <1>2, <1>3, <1>4 DEF InFlightInv, LoginInv

LEMMA LateStep ==
    ASSUME LoginInv, OnPlayerDataLoadedLate
    PROVE  LoginInv' /\ RowsKept
<1> DEFINE f == running[1]
<1>1. /\ running # <<>> /\ f.callback.public = "OnPlayerDataLoaded" /\ running' = <<>>
      /\ f.callback.race # raceCheck
      /\ kicked' = (player # None)
      /\ orm' = [orm EXCEPT ![f.orm].error = "OK"]
      /\ UNCHANGED <<memory, loaded, pending, finished, table, lastId, defined, player, raceCheck,
                     ormId, isLoggedIn, dialog, saved, failed>>
  BY DEF OnPlayerDataLoadedLate, InCallback, databaseVars
<1>2. /\ DataInv /\ OrmType /\ SlotInv /\ InstancesInv /\ InFlightInv /\ TableInv /\ SavedInv
  BY DEF LoginInv
<1>3. IsLoad(f) /\ f.orm \in Orm /\ (Away \/ WaitsForRow)
  BY <1>1, LoadRuns
<1> HIDE DEF f
<1>4. /\ OrmType' /\ InstancesInv'
      /\ \A o \in Orm : ByName(orm[o]) => ByName(orm'[o])
  BY <1>1, <1>2, <1>3, ErrorStep
<1>5. DataInv' /\ TableInv' /\ SavedInv' /\ RowsKept
  BY <1>1, <1>2, ReturnKeeps
<1>6. SlotInv'
  BY <1>1, <1>2 DEF SlotInv
<1>7. Stays
  <2>1. raceCheck \in Nat
    BY <1>2, LoginBoundsAssumption DEF SlotInv
  <2> QED
    BY <1>1, <1>4, <1>5, <2>1 DEF Stays
<1>8. InFlightInv'
  BY <1>1, <1>2, <1>7, SameInFlight
<1>9. CASE Away
  <2>1. Away'
    BY <1>1, <1>9 DEF Away, Insertless, Current
  <2> QED
    BY <1>4, <1>5, <1>6, <1>8, <2>1 DEF LoginInv
<1>10. CASE WaitsForRow
  <2>1. kicked'
    BY <1>1, <1>10 DEF WaitsForRow
  <2>2. Insertless' /\ ByName(orm'[ormId])
    BY <1>1, <1>4, <1>10 DEF WaitsForRow, Insertless
  <2>3. \A i \in DOMAIN finished' : Current(finished[i])' =>
           /\ i = Len(finished') /\ finished'[i].orm = ormId' /\ pending' = <<>>
           /\ finished'[i].ok => Answer(finished[i])'
    BY <1>1, <1>10 DEF WaitsForRow, Current, Answer, NoRow
  <2>4. \A i \in DOMAIN pending' : Current(pending[i])' =>
             i = Len(pending') /\ pending'[i].orm = ormId' /\ pending'[i].keyValue = player'
    BY <1>1, <1>10 DEF WaitsForRow, Current
  <2>5. WaitsForRow'
    BY <1>1, <1>10, <2>1, <2>2, <2>3, <2>4 DEF WaitsForRow
  <2> QED
    BY <1>4, <1>5, <1>6, <1>8, <2>5 DEF LoginInv
<1> QED
  BY <1>3, <1>5, <1>9, <1>10

LEMMA LoadedStep ==
    ASSUME LoginInv, OnPlayerDataLoaded
    PROVE  LoginInv' /\ RowsKept
<1> DEFINE f == running[1]
<1>1. /\ running # <<>> /\ f.callback.public = "OnPlayerDataLoaded" /\ running' = <<>>
      /\ f.callback.race = raceCheck
      /\ dialog' = IF orm[ormId].error = "OK" THEN "login" ELSE "register"
      /\ orm' = [WithIdAsKey EXCEPT ![f.orm].error = "OK"]
      /\ UNCHANGED <<memory, loaded, pending, finished, table, lastId, defined, player, raceCheck,
                     ormId, isLoggedIn, kicked, saved, failed>>
  BY DEF OnPlayerDataLoaded, InCallback, databaseVars
<1>2. /\ DataInv /\ OrmType /\ SlotInv /\ InstancesInv /\ InFlightInv /\ TableInv /\ SavedInv
  BY DEF LoginInv
<1>3. /\ IsLoad(f) /\ f.orm \in Orm /\ f \in GoodResult
      /\ orm[f.orm].error = ResultError(f) /\ (Away \/ WaitsForRow)
  BY <1>1, LoadRuns
<1>4. Current(f)
  BY <1>1, <1>3 DEF Current, IsLoad
<1>5. WaitsForRow
  BY <1>1, <1>3, <1>4 DEF Away
<1>6. /\ pending = <<>> /\ finished = <<>> /\ f.orm = ormId /\ Answer(f)
      /\ IF f.rows = <<>> THEN kicked \/ Untouched
         ELSE /\ memory[AutoColumn] = f.rows[1][AutoColumn]
              /\ memory[KillsColumn] = f.rows[1][KillsColumn]
      /\ player # None /\ ~isLoggedIn /\ ormId \in Orm /\ ByName(orm[ormId])
      /\ memory[NameColumn] = player
  BY <1>1, <1>4, <1>5 DEF WaitsForRow
<1>7. f.type = "SELECT"
  BY <1>3 DEF IsLoad
<1> HIDE DEF f
<1>8. orm \in [Orm -> OrmRecord] /\ orm[ormId] \in OrmRecord
  BY <1>2, <1>6, RecordOf
<1>9. /\ SetKeyVariable(orm[ormId], AutoColumn) \in OrmRecord
      /\ ById(SetKeyVariable(orm[ormId], AutoColumn))
      /\ SetKeyVariable(orm[ormId], AutoColumn).state = "registered"
  BY <1>6, <1>8, Exchanged
<1>10. WithIdAsKey = [orm EXCEPT ![ormId] = SetKeyVariable(orm[ormId], AutoColumn)]
  <2>1. AutoColumn \in Names(orm[ormId])
    <3>1. orm[ormId].variables = <<AutoColumn, KillsColumn>>
      BY <1>6 DEF ByName
    <3>2. 1 \in DOMAIN orm[ormId].variables /\ orm[ormId].variables[1] = AutoColumn
      BY <3>1
    <3> QED
      BY <3>2 DEF Names
  <2>2. Registered(ormId) /\ ormId # None
    BY <1>6, LoginNoneAssumption DEF ByName, Registered
  <2> QED
    BY <2>1, <2>2 DEF WithIdAsKey
<1> DEFINE key == SetKeyVariable(orm[ormId], AutoColumn)
<1> HIDE DEF key
<1>11. orm' = [orm EXCEPT ![ormId] = [key EXCEPT !.error = "OK"]]
  <2>1. orm' = [[orm EXCEPT ![ormId] = key] EXCEPT ![ormId].error = "OK"]
    BY <1>1, <1>6, <1>10 DEF key
  <2> QED
    BY <1>6, <1>8, <2>1
<1>12. LET r == [key EXCEPT !.error = "OK"]
       IN  r \in OrmRecord /\ ById(r) /\ r.state = "registered"
  <2>1. key \in OrmRecord /\ ById(key) /\ key.state = "registered"
    BY <1>9 DEF key
  <2> QED
    BY <2>1 DEF OrmRecord, ById
<1>13. /\ orm' \in [Orm -> OrmRecord] /\ ById(orm'[ormId]) /\ orm'[ormId].state = "registered"
       /\ \A o \in Orm : o # ormId => orm'[o] = orm[o]
  BY <1>6, <1>8, <1>11, <1>12
<1>14. OrmType' /\ InstancesInv'
  <2>1. OrmType'
    BY <1>13 DEF OrmType, OrmRecord
  <2> QED
    BY <1>2, <1>6, <1>13, <2>1 DEF InstancesInv
<1>15. DataInv' /\ TableInv' /\ SavedInv' /\ RowsKept
  BY <1>1, <1>2, ReturnKeeps
<1>16. SlotInv'
  BY <1>1, <1>2 DEF SlotInv
<1>17. InFlightInv'
  BY <1>1, <1>6 DEF InFlightInv
<1>18. dialog' = "login" <=> f.rows # <<>>
  BY <1>1, <1>3, <1>6, <1>7 DEF ResultError
<1>19. dialog' = "login" =>
          /\ HasRow(memory[AutoColumn], player)
          /\ ~failed => memory[KillsColumn] = saved[player]
  <2> SUFFICES ASSUME f.rows # <<>>
               PROVE  /\ HasRow(memory[AutoColumn], player)
                      /\ ~failed => memory[KillsColumn] = saved[player]
    BY <1>18
  <2>1. PICK row \in table : /\ f.rows = <<row>> /\ row[NameColumn] = player
                             /\ ~failed => row[KillsColumn] = saved[player]
    BY <1>6 DEF Answer
  <2>2. f.rows[1] = row
    BY <2>1
  <2> QED
    BY <1>6, <2>1, <2>2 DEF HasRow
<1>20. dialog' = "register" => NoRow(player) /\ (kicked \/ Untouched)
  <2> SUFFICES ASSUME f.rows = <<>> PROVE NoRow(player) /\ (kicked \/ Untouched)
    BY <1>1, <1>18
  <2>1. \A row : <<>> # <<row>>
    OBVIOUS
  <2> QED
    BY <1>6, <2>1 DEF Answer
<1>21. Asked'
  <2>1. HasRow(memory[AutoColumn], player) => HasRow(memory[AutoColumn], player)'
    BY <1>1 DEF HasRow
  <2>2. NoRow(player) => NoRow(player)'
    BY <1>1 DEF NoRow
  <2>3. dialog' \in {"login", "register"} /\ NothingInFlight' /\ HasInstance'
    BY <1>1, <1>6, <1>13 DEF NothingInFlight, HasInstance
  <2>4. Untouched' <=> Untouched
    BY <1>1 DEF Untouched
  <2> QED
    BY <1>1, <1>6, <1>19, <1>20, <2>1, <2>2, <2>3, <2>4 DEF Asked
<1> QED
  BY <1>14, <1>15, <1>16, <1>17, <1>21 DEF LoginInv

LEMMA RegisteredStep ==
    ASSUME LoginInv, OnPlayerRegister
    PROVE  LoginInv' /\ RowsKept
<1> DEFINE f == running[1]
<1>1. /\ running # <<>> /\ f.callback.public = "OnPlayerRegister" /\ running' = <<>>
      /\ isLoggedIn' = TRUE
      /\ orm' = [orm EXCEPT ![f.orm].error = "OK"]
      /\ UNCHANGED <<memory, loaded, pending, finished, table, lastId, defined, player, raceCheck,
                     ormId, dialog, kicked, saved, failed>>
  BY DEF OnPlayerRegister, InCallback, databaseVars
<1>2. /\ DataInv /\ OrmType /\ SlotInv /\ InstancesInv /\ InFlightInv /\ TableInv /\ SavedInv
  BY DEF LoginInv
<1>3. /\ f.ok /\ f.orm \in Orm /\ IsInsert(f) /\ f.insertId # 0 /\ HasRow(f.insertId, player)
  <2>1. f.orm \in Orm /\ f.ok /\ ~IsLoad(f) /\ IsInsert(f) /\ ResultInv(f)
    BY <1>1, <1>2, InFlightTypes DEF InFlightInv, IsLoad
  <2>2. ~IsUpdate(f)
    BY <2>1 DEF IsInsert, IsUpdate
  <2> QED
    BY <2>1, <2>2 DEF ResultInv
<1>4. WaitsForInsert
  <2>1. f.type = "INSERT"
    BY <1>3 DEF IsInsert
  <2> QED
    BY <1>1, <2>1 DEF LoginInv, Away, WaitsForRow, Insertless, Asked, NothingInFlight,
                      Playing, OnlyUpdates
<1>5. pending = <<>> /\ finished = <<>> /\ memory[AutoColumn] = f.insertId
  <2>1. running \in Seq(GoodResult) /\ Len(running) = 1
    BY <1>1, <1>2 DEF DataInv, InFlightInv
  <2>2. Len(pending) \in Nat /\ Len(finished) \in Nat /\ Len(pending) + Len(finished) + 1 <= 1
    BY <1>2, <1>4, <2>1, InFlightTypes DEF WaitsForInsert
  <2>3. Len(pending) = 0 /\ Len(finished) = 0
    BY <2>2
  <2> QED
    BY <1>1, <1>2, <1>4, <2>3, EmptySeq DEF DataInv, WaitsForInsert
<1> HIDE DEF f
<1>6. /\ OrmType' /\ InstancesInv'
      /\ \A o \in Orm : (ById(orm[o]) => ById(orm'[o])) /\ orm'[o].state = orm[o].state
  BY <1>1, <1>2, <1>3, ErrorStep
<1>7. DataInv' /\ TableInv' /\ SavedInv' /\ RowsKept
  BY <1>1, <1>2, ReturnKeeps
<1>8. SlotInv' /\ InFlightInv'
  BY <1>1, <1>2, <1>5 DEF SlotInv, InFlightInv
<1>9. Playing'
  <2>1. HasInstance' /\ OnlyUpdates'
    BY <1>1, <1>4, <1>5, <1>6 DEF WaitsForInsert, HasInstance, OnlyUpdates
  <2>2. HasRow(memory[AutoColumn], player)'
    BY <1>1, <1>3, <1>5 DEF HasRow
  <2> QED
    BY <1>1, <1>4, <2>1, <2>2 DEF WaitsForInsert, Playing
<1> QED
  BY <1>6, <1>7, <1>8, <1>9 DEF LoginInv

-----------------------------------------------------------------------------
(***************************************************************************)
(* The worker executes the query at the front.                             *)
(***************************************************************************)
\* f is a result of query q.
ResultOf(f, q) ==
    f.orm = q.orm /\ f.type = q.type /\ f.callback = q.callback /\ f.columns = q.columns

\* The query at the front has become a result at the end.
Moved(f) ==
    /\ pending # <<>> /\ pending' = Tail(pending) /\ finished' = Append(finished, f)
    /\ ResultOf(f, pending[1])
    /\ UNCHANGED <<orm, memory, loaded, running, defined, scriptVars, saved>>

LEMMA ExecutedMoves ==
    ASSUME LoginInv, pending # <<>>, NEW ok \in BOOLEAN, NEW rows \in Seq(GoodRow),
           NEW id \in Number, ~ok => rows = <<>>, Executed(Head(pending), ok, rows, id),
           UNCHANGED <<scriptVars, saved>>
    PROVE  \E f \in GoodResult : Moved(f) /\ f.ok = ok /\ f.rows = rows /\ f.insertId = id
<1> DEFINE q == Head(pending)
           f == [orm |-> q.orm, type |-> q.type, callback |-> q.callback,
                 columns |-> q.columns, ok |-> ok, rows |-> rows, insertId |-> id]
<1>1. q \in GoodQuery /\ q = pending[1] /\ finished \in Seq(GoodResult)
  BY TailFacts DEF LoginInv, DataInv
<1>2. /\ q.orm \in Orm /\ q.type \in QueryType /\ q.callback \in Callback \union {None}
      /\ q.columns \in Seq(Column)
  BY <1>1 DEF GoodQuery, QueryRecord
<1>3. rows \in Seq(Row) /\ \A i \in DOMAIN rows : rows[i] \in GoodRow
  <2>1. \A i \in DOMAIN rows : rows[i] \in Row
    BY DEF GoodRow
  <2> QED
    BY <2>1
<1>4. pending' = Tail(pending) /\ finished' = Append(finished, f)
      /\ UNCHANGED <<orm, memory, loaded, running, defined>>
  BY DEF Executed
<1> HIDE DEF q
<1>5. f \in ResultRecord /\ f.rows = rows /\ f.ok = ok /\ f.insertId = id /\ ResultOf(f, q)
  BY <1>2, <1>3 DEF ResultRecord, ResultOf
<1> HIDE DEF f
<1>6. f \in GoodResult
  BY <1>3, <1>5 DEF GoodResult
<1> QED
  BY <1>1, <1>4, <1>5, <1>6 DEF Moved

LEMMA MovedInFlight ==
    ASSUME LoginInv, NEW f \in GoodResult, Moved(f), RowsKept, ResultInv(f)'
    PROVE  InFlightInv'
<1>1. /\ DataInv /\ InFlightInv /\ Stays
      /\ UNCHANGED <<orm, running, player, ormId>>
  <2>1. raceCheck \in Nat
    BY LoginBoundsAssumption DEF LoginInv, SlotInv
  <2> QED
    BY <2>1 DEF LoginInv, Stays, Moved, scriptVars
<1>2. /\ \A i \in 1 .. Len(finished) : finished'[i] = finished[i]
      /\ finished'[Len(finished) + 1] = f /\ DOMAIN finished = 1 .. Len(finished)
      /\ DOMAIN finished' = 1 .. Len(finished) + 1
      /\ \A i \in 1 .. Len(pending) - 1 : pending'[i] = pending[i + 1]
      /\ DOMAIN pending' = 1 .. Len(pending) - 1 /\ DOMAIN pending = 1 .. Len(pending)
      /\ Len(pending) \in Nat /\ Len(finished) \in Nat
  BY <1>1, InFlightTypes, AppendFacts, TailFacts DEF Moved
<1>3. ASSUME NEW i \in DOMAIN pending' PROVE QueryInv(pending[i])'
  <2>1. i + 1 \in DOMAIN pending /\ pending'[i] = pending[i + 1]
    BY <1>2
  <2>2. QueryInv(pending[i + 1]) /\ pending[i + 1].orm \in Orm
    BY <1>1, <2>1, InFlightTypes DEF InFlightInv
  <2> QED
    BY <1>1, <2>1, <2>2, QueryStays
<1>4. ASSUME NEW i \in DOMAIN finished' PROVE ResultInv(finished[i])'
  <2>1. CASE i = Len(finished) + 1
    BY <1>2, <2>1
  <2>2. CASE i \in DOMAIN finished
    <3>1. ResultInv(finished[i]) /\ finished[i].orm \in Orm /\ finished'[i] = finished[i]
      BY <1>1, <1>2, <2>2, InFlightTypes DEF InFlightInv
    <3> QED
      BY <1>1, <3>1, ResultStays
  <2> QED
    BY <1>2, <2>1, <2>2
<1>5. ASSUME running' # <<>>
      PROVE  /\ Len(running') = 1 /\ running'[1].ok
             /\ (IsLoad(running[1]) \/ (IsInsert(running[1]) /\ ResultInv(running[1])))'
             /\ IsLoad(running[1])' => orm'[running'[1].orm].error = ResultError(running'[1])
  <2>1. running[1].orm \in Orm /\ running'[1] = running[1] /\ running # <<>>
    BY <1>1, <1>5, InFlightTypes
  <2>2. CASE IsLoad(running[1])
    <3>1. IsLoad(running[1])'
      BY <1>1, <2>1, <2>2, LoadStays
    <3> QED
      BY <1>1, <2>1, <2>2, <3>1 DEF InFlightInv, ResultError
  <2>3. CASE IsInsert(running[1]) /\ ResultInv(running[1])
    <3>1. ResultInv(running[1])'
      BY <1>1, <2>1, <2>3, ResultStays
    <3>2. IsInsert(running[1])'
      BY <1>1, <2>1, <2>3 DEF IsInsert
    <3>3. ~IsLoad(running[1])'
      BY <3>2 DEF IsInsert, IsLoad
    <3> QED
      BY <1>1, <2>1, <3>1, <3>2, <3>3 DEF InFlightInv
  <2> QED
    BY <1>1, <2>1, <2>2, <2>3 DEF InFlightInv
<1> QED
  BY <1>3, <1>4, <1>5 DEF InFlightInv

\* The phase stays the same.
LEMMA MovedPhase ==
    ASSUME LoginInv, NEW f \in GoodResult, Moved(f), RowsKept,
           (WaitsForRow /\ Current(pending[1]) /\ f.ok) => Answer(f)'
    PROVE  (Away \/ WaitsForRow \/ Asked \/ WaitsForInsert \/ Playing)'
<1>1. /\ DataInv /\ InFlightInv /\ pending # <<>>
      /\ UNCHANGED <<orm, memory, running, player, raceCheck, ormId, isLoggedIn, dialog, kicked, saved>>
      /\ ResultOf(f, pending[1])
  BY DEF LoginInv, Moved, scriptVars
<1>2. /\ \A i \in 1 .. Len(finished) : finished'[i] = finished[i]
      /\ finished'[Len(finished) + 1] = f /\ DOMAIN finished = 1 .. Len(finished)
      /\ DOMAIN finished' = 1 .. Len(finished) + 1 /\ Len(finished') = Len(finished) + 1
      /\ \A i \in 1 .. Len(pending) - 1 : pending'[i] = pending[i + 1]
      /\ DOMAIN pending' = 1 .. Len(pending) - 1 /\ DOMAIN pending = 1 .. Len(pending)
      /\ Len(pending') = Len(pending) - 1
      /\ Len(pending) \in Nat \ {0} /\ Len(finished) \in Nat
      /\ Len(pending) = 1 => pending' = <<>>
  <2>1. /\ pending \in Seq(GoodQuery) /\ finished \in Seq(GoodResult)
        /\ pending' = Tail(pending) /\ finished' = Append(finished, f)
    BY <1>1, InFlightTypes DEF Moved
  <2>2. /\ \A i \in 1 .. Len(finished) : finished'[i] = finished[i]
        /\ finished'[Len(finished) + 1] = f /\ DOMAIN finished = 1 .. Len(finished)
        /\ DOMAIN finished' = 1 .. Len(finished) + 1 /\ Len(finished') = Len(finished) + 1
        /\ Len(finished) \in Nat
    BY <2>1, AppendFacts
  <2>3. /\ \A i \in 1 .. Len(pending) - 1 : pending'[i] = pending[i + 1]
        /\ DOMAIN pending' = 1 .. Len(pending) - 1 /\ DOMAIN pending = 1 .. Len(pending)
        /\ Len(pending') = Len(pending) - 1 /\ Len(pending) \in Nat \ {0}
        /\ Len(pending) = 1 => pending' = <<>>
    BY <1>1, <2>1, TailFacts
  <2> QED
    BY <2>2, <2>3
<1>3. 1 \in DOMAIN pending
  BY <1>2
<1>4. Insertless => Insertless'
  <2> SUFFICES ASSUME Insertless PROVE Insertless'
    OBVIOUS
  <2>1. \A i \in DOMAIN pending' : pending'[i].type # "INSERT"
    <3>1. \A i \in DOMAIN pending' : i + 1 \in DOMAIN pending /\ pending'[i] = pending[i + 1]
      BY <1>2
    <3> QED
      BY <3>1 DEF Insertless
  <2>2. f.type # "INSERT"
    BY <1>1, <1>3 DEF Insertless, ResultOf
  <2>3. \A i \in DOMAIN finished' : finished'[i].type # "INSERT"
    BY <1>2, <2>2 DEF Insertless
  <2> QED
    BY <1>1, <2>1, <2>3 DEF Insertless
<1>5. Current(f) <=> Current(pending[1])
  BY <1>1 DEF ResultOf, Current
<1>6. CASE Away
  <2>1. \A i \in DOMAIN pending' : ~Current(pending[i])'
    <3>1. \A i \in DOMAIN pending' : i + 1 \in DOMAIN pending /\ pending'[i] = pending[i + 1]
      BY <1>2
    <3> QED
      BY <1>1, <1>6, <3>1 DEF Away, Current
  <2>2. \A i \in DOMAIN finished' : ~Current(finished[i])'
    BY <1>1, <1>2, <1>3, <1>5, <1>6 DEF Away, Current
  <2>3. running' # <<>> => ~Current(running[1])'
    BY <1>1, <1>6 DEF Away, Current
  <2> QED
    BY <1>1, <1>4, <1>6, <2>1, <2>2, <2>3 DEF Away
<1>7. CASE WaitsForRow
  <2>1. ASSUME NEW i \in DOMAIN pending', Current(pending[i])'
        PROVE  i = Len(pending') /\ pending'[i].orm = ormId' /\ pending'[i].keyValue = player'
    <3>1. i + 1 \in DOMAIN pending /\ pending'[i] = pending[i + 1] /\ i \in Nat
      BY <1>2
    <3>2. Current(pending[i + 1])
      BY <1>1, <2>1, <3>1 DEF Current
    <3>3. i + 1 = Len(pending) /\ pending[i + 1].orm = ormId /\ pending[i + 1].keyValue = player
      BY <1>7, <3>1, <3>2 DEF WaitsForRow
    <3> QED
      BY <1>1, <1>2, <3>1, <3>3
  <2>2. ASSUME NEW i \in DOMAIN finished', Current(finished[i])'
        PROVE  /\ i = Len(finished') /\ finished'[i].orm = ormId' /\ pending' = <<>>
               /\ finished'[i].ok => Answer(finished[i])'
    <3>1. i \notin DOMAIN finished
      <4> SUFFICES ASSUME i \in DOMAIN finished PROVE FALSE
        OBVIOUS
      <4>1. Current(finished[i])
        BY <1>1, <1>2, <2>2 DEF Current
      <4> QED
        BY <1>1, <1>7, <4>1 DEF WaitsForRow
    <3>2. i = Len(finished) + 1 /\ finished'[i] = f
      BY <1>2, <3>1
    <3>3. Current(pending[1])
      BY <1>1, <1>5, <2>2, <3>2 DEF Current
    <3>4. 1 = Len(pending) /\ pending[1].orm = ormId
      BY <1>3, <1>7, <3>3 DEF WaitsForRow
    <3>5. f.ok => Answer(f)'
      BY <1>7, <3>3
    <3>6. f.orm = ormId'
      BY <1>1, <3>4 DEF ResultOf
    <3>7. pending' = <<>>
      BY <1>2, <3>4
    <3>8. finished'[i].ok => Answer(finished[i])'
      BY <3>2, <3>5 DEF Answer
    <3> QED
      BY <1>2, <3>2, <3>6, <3>7, <3>8
  <2>3. running' # <<>> => ~Current(running[1])'
    BY <1>1, <1>7 DEF WaitsForRow, Current
  <2>4. running' = <<>> => (kicked \/ Untouched)'
    BY <1>1, <1>7 DEF WaitsForRow, Untouched
  <2> QED
    BY <1>1, <1>4, <1>7, <2>1, <2>2, <2>3, <2>4 DEF WaitsForRow
<1>8. CASE WaitsForInsert
  <2>1. /\ \A i \in DOMAIN pending' : i + 1 \in DOMAIN pending /\ pending'[i] = pending[i + 1]
    BY <1>2
  <2>2. \A i \in DOMAIN pending' : IsInsert(pending[i])'
    BY <1>1, <1>8, <2>1 DEF WaitsForInsert, IsInsert
  <2>3. IsInsert(f)
    BY <1>1, <1>3, <1>8 DEF WaitsForInsert, IsInsert, ResultOf
  <2>4. \A i \in DOMAIN finished' : IsInsert(finished[i])'
    BY <1>1, <1>2, <1>8, <2>3 DEF WaitsForInsert, IsInsert
  <2>5. Len(pending') + Len(finished') + Len(running') <= 1
    <3>1. Len(running) \in Nat
      BY <1>1 DEF DataInv
    <3> QED
      BY <1>1, <1>2, <1>8, <3>1 DEF WaitsForInsert
  <2>6. running' # <<>> => (IsInsert(running[1]) /\ memory[AutoColumn] = running[1].insertId)'
    BY <1>1, <1>8 DEF WaitsForInsert, IsInsert
  <2> QED
    BY <1>1, <1>8, <2>2, <2>4, <2>5, <2>6 DEF WaitsForInsert, HasInstance
<1>9. CASE Playing
  <2>1. /\ \A i \in DOMAIN pending' : i + 1 \in DOMAIN pending /\ pending'[i] = pending[i + 1]
    BY <1>2
  <2>2. \A i \in DOMAIN pending' : IsUpdate(pending'[i])
    BY <1>1, <1>9, <2>1 DEF Playing, OnlyUpdates
  <2>3. IsUpdate(f)
    BY <1>1, <1>3, <1>9 DEF Playing, OnlyUpdates, IsUpdate, ResultOf
  <2>4. \A i \in DOMAIN finished' : IsUpdate(finished'[i])
    BY <1>1, <1>2, <1>9, <2>3 DEF Playing, OnlyUpdates
  <2>5. OnlyUpdates'
    BY <1>1, <1>9, <2>2, <2>4 DEF Playing, OnlyUpdates, IsUpdate
  <2>6. HasRow(memory[AutoColumn], player)'
    <3>1. HasRow(memory[AutoColumn], player)
      BY <1>9 DEF Playing
    <3> QED
      BY <1>1, <3>1 DEF HasRow, RowsKept
  <2> QED
    BY <1>1, <1>9, <2>5, <2>6 DEF Playing, HasInstance
<1>10. ~Asked
  BY <1>1 DEF Asked, NothingInFlight
<1> QED
  BY <1>6, <1>7, <1>8, <1>9, <1>10 DEF LoginInv

\* What was saved is still in the queue, or in the table.
LEMMA SavedTail ==
    ASSUME DataInv, pending # <<>>, pending' = Tail(pending), saved' = saved, NEW p, SavedOf(p),
           UpdateOf(pending[1], p) =>
              \A row \in table' : row[NameColumn] = p => row[KillsColumn] = pending[1].values[KillsColumn],
           ~UpdateOf(pending[1], p) =>
              \A row \in table' : row[NameColumn] = p => row \in table \/ row[KillsColumn] = saved[p],
           NoRow(p)' => NoRow(p)
    PROVE  SavedOf(p)'
<1>1. /\ \A i \in 1 .. Len(pending) - 1 : pending'[i] = pending[i + 1]
      /\ DOMAIN pending' = 1 .. Len(pending) - 1 /\ DOMAIN pending = 1 .. Len(pending)
      /\ Len(pending) \in Nat \ {0}
  BY InFlightTypes, TailFacts
<1>2. ASSUME NEW i \in DOMAIN pending', UpdateOf(pending'[i], p),
             \A j \in DOMAIN pending' : j > i => ~UpdateOf(pending'[j], p)
      PROVE  pending'[i].values[KillsColumn] = saved'[p]
  <2>1. i + 1 \in DOMAIN pending /\ pending'[i] = pending[i + 1] /\ i \in Nat \ {0}
    BY <1>1
  <2>2. ASSUME NEW j \in DOMAIN pending, j > i + 1 PROVE ~UpdateOf(pending[j], p)
    <3>1. j - 1 \in DOMAIN pending' /\ j - 1 > i /\ pending'[j - 1] = pending[j]
      BY <1>1, <2>1, <2>2
    <3> QED
      BY <1>2, <3>1
  <2> QED
    BY <1>2, <2>1, <2>2 DEF SavedOf
<1>3. ASSUME \A i \in DOMAIN pending' : ~UpdateOf(pending'[i], p), NEW row \in table',
             row[NameColumn] = p
      PROVE  row[KillsColumn] = saved'[p]
  <2>1. \A j \in DOMAIN pending : j > 1 => ~UpdateOf(pending[j], p)
    <3> SUFFICES ASSUME NEW j \in DOMAIN pending, j > 1 PROVE ~UpdateOf(pending[j], p)
      OBVIOUS
    <3>1. j - 1 \in DOMAIN pending' /\ pending'[j - 1] = pending[j]
      BY <1>1
    <3> QED
      BY <1>3, <3>1
  <2>2. CASE UpdateOf(pending[1], p)
    <3>1. pending[1].values[KillsColumn] = saved[p]
      BY <1>1, <2>1, <2>2 DEF SavedOf
    <3> QED
      BY <1>3, <2>2, <3>1
  <2>3. CASE ~UpdateOf(pending[1], p)
    <3>1. \A j \in DOMAIN pending : ~UpdateOf(pending[j], p)
      BY <1>1, <2>1, <2>3
    <3> QED
      BY <1>3, <2>3, <3>1 DEF SavedOf
  <2> QED
    BY <2>2, <2>3
<1>4. \A i \in DOMAIN pending' :
          UpdateOf(pending'[i], p) /\ (\A j \in DOMAIN pending' : j > i => ~UpdateOf(pending'[j], p))
             => pending'[i].values[KillsColumn] = saved'[p]
  BY <1>2
<1>5. (\A i \in DOMAIN pending' : ~UpdateOf(pending'[i], p)) =>
          \A row \in table' : row[NameColumn] = p => row[KillsColumn] = saved'[p]
  BY <1>3
<1>6. NoRow(p)' => saved'[p] = 0
  BY DEF SavedOf
<1> QED
  BY <1>4, <1>5, <1>6 DEF SavedOf, UpdateOf

\* What the execution of a query leaves to show, case by case.
LEMMA ExecutedStep ==
    ASSUME LoginInv, DataInv', NEW f \in GoodResult, Moved(f), RowsKept,
           ResultInv(f)', TableInv', failed' \in BOOLEAN,
           ~failed' => ~failed /\ \A p \in Text : SavedOf(p) => SavedOf(p)',
           (WaitsForRow /\ Current(pending[1]) /\ f.ok) => Answer(f)'
    PROVE  LoginInv'
<1>1. InFlightInv'
  BY MovedInFlight
<1>2. (Away \/ WaitsForRow \/ Asked \/ WaitsForInsert \/ Playing)'
  BY MovedPhase
<1>3. SavedInv'
  BY DEF LoginInv, SavedInv, Moved, scriptVars
<1>4. OrmType' /\ InstancesInv' /\ SlotInv'
  BY DEF LoginInv, OrmType, InstancesInv, SlotInv, Moved, scriptVars
<1> QED
  BY <1>1, <1>2, <1>3, <1>4 DEF LoginInv

LEMMA SelectStep ==
    ASSUME LoginInv, DataInv', pending # <<>>, ExecuteSelect(Head(pending)),
           UNCHANGED <<scriptVars, saved, failed>>
    PROVE  LoginInv' /\ RowsKept
<1>1. pending[1] = Head(pending) /\ pending[1] \in GoodQuery /\ pending \in Seq(GoodQuery)
      /\ DOMAIN pending = 1 .. Len(pending) /\ 1 \in DOMAIN pending
  BY TailFacts DEF LoginInv, DataInv
<1>2. PICK q \in GoodQuery : q = pending[1]
  BY <1>1
<1>3. q.type = "SELECT" /\ UNCHANGED <<table, lastId>> /\ IsLoad(q) /\ q.key = NameColumn /\ q.orm \in Orm
  BY <1>1, <1>2 DEF ExecuteSelect, LoginInv, InFlightInv, QueryInv, IsUpdate, IsInsert,
                    GoodQuery, QueryRecord
<1>4. PICK rows \in Seq(GoodRow) :
         /\ Executed(Head(pending), TRUE, rows, 0)
         /\ \/ rows = <<>> /\ Matching(q) = {}
            \/ \E row \in Matching(q) : rows = <<row>>
  <2>1. Matching(q) \subseteq GoodRow
    BY DEF LoginInv, DataInv, Matching
  <2>2. <<>> \in Seq(GoodRow) /\ \A row \in GoodRow : <<row>> \in Seq(GoodRow)
    OBVIOUS
  <2> QED
    BY <1>1, <1>2, <2>1, <2>2 DEF ExecuteSelect
<1>5. PICK f \in GoodResult : Moved(f) /\ f.ok = TRUE /\ f.rows = rows /\ f.insertId = 0
  BY <1>4, ExecutedMoves, ZeroIsNumber
<1>6. RowsKept /\ TableInv'
  BY <1>3 DEF LoginInv, RowsKept, TableInv, NoDuplicates
<1>7. IsLoad(f)'
  <2>1. f.orm \in Orm /\ IsLoad(f)
    BY <1>2, <1>3, <1>5 DEF Moved, ResultOf, IsLoad
  <2> QED
    BY <1>5, <2>1 DEF Moved, scriptVars, IsLoad
<1>8. ResultInv(f)'
  BY <1>7 DEF ResultInv
<1>9. ASSUME ~failed, NEW p \in Text, SavedOf(p) PROVE SavedOf(p)'
  <2>1. ~UpdateOf(pending[1], p)
    BY <1>2, <1>3 DEF UpdateOf
  <2>2. NoRow(p)' => NoRow(p)
    BY <1>3 DEF NoRow
  <2> QED
    BY <1>3, <1>5, <1>9, <2>1, <2>2, SavedTail DEF Moved, LoginInv
<1>10. ASSUME WaitsForRow, Current(pending[1]) PROVE Answer(f)'
  <2>1. Len(pending) = 1 /\ q.keyValue = player
    BY <1>1, <1>2, <1>10 DEF WaitsForRow
  <2>2. ~failed => SavedOf(player) /\ \A i \in DOMAIN pending : ~UpdateOf(pending[i], player)
    <3>1. \A i \in DOMAIN pending : pending[i] = q
      BY <1>1, <1>2, <2>1
    <3>2. player \in Text
      BY <1>10 DEF LoginInv, SlotInv, WaitsForRow
    <3> QED
      BY <1>3, <1>10, <3>1, <3>2 DEF LoginInv, SavedInv, WaitsForRow, UpdateOf
  <2>3. UNCHANGED <<table, player, failed, saved>>
    BY <1>3, <1>5 DEF Moved, scriptVars
  <2>4. CASE rows = <<>> /\ Matching(q) = {}
    <3>1. NoRow(player)
      BY <1>3, <2>1, <2>4 DEF NoRow, Matching
    <3> QED
      BY <1>5, <2>3, <2>4, <3>1 DEF Answer, NoRow
  <2>5. ASSUME NEW row \in Matching(q), rows = <<row>> PROVE Answer(f)'
    <3>1. row \in table /\ row[NameColumn] = player
      BY <1>3, <2>1 DEF Matching
    <3>2. ~failed => row[KillsColumn] = saved[player]
      BY <2>2, <3>1 DEF SavedOf
    <3> QED
      BY <1>5, <2>3, <2>5, <3>1, <3>2 DEF Answer
  <2> QED
    BY <1>4, <2>4, <2>5
<1> QED
  BY <1>5, <1>6, <1>8, <1>9, <1>10, ExecutedStep DEF LoginInv, SlotInv

LEMMA UpdateStep ==
    ASSUME LoginInv, DataInv', pending # <<>>, ExecuteUpdate(Head(pending)),
           UNCHANGED <<scriptVars, saved, failed>>
    PROVE  LoginInv' /\ RowsKept
<1>1. pending[1] = Head(pending) /\ pending[1] \in GoodQuery /\ pending \in Seq(GoodQuery)
      /\ DOMAIN pending = 1 .. Len(pending) /\ 1 \in DOMAIN pending
  BY TailFacts DEF LoginInv, DataInv
<1>2. PICK q \in GoodQuery : q = pending[1]
  BY <1>1
<1>3. /\ q.type = "UPDATE" /\ IsUpdate(q) /\ q.key = AutoColumn
      /\ DOMAIN q.values = {KillsColumn, NameColumn}
      /\ HasRow(q.keyValue, q.values[NameColumn])
  BY <1>1, <1>2 DEF ExecuteUpdate, LoginInv, InFlightInv, QueryInv, IsLoad, IsInsert
<1>4. Executed(Head(pending), TRUE, <<>>, 0)
  BY DEF ExecuteUpdate
<1>5. PICK f \in GoodResult : Moved(f) /\ f.ok = TRUE /\ f.rows = <<>> /\ f.insertId = 0
  <2>1. <<>> \in Seq(GoodRow)
    OBVIOUS
  <2> QED
    BY <1>4, <2>1, ExecutedMoves, ZeroIsNumber
<1>6. TableInv /\ table \subseteq GoodRow
  BY DEF LoginInv, DataInv
<1> DEFINE name == q.values[NameColumn]
           Changed(row) == [c \in Column |-> IF c \in DOMAIN q.values THEN q.values[c] ELSE row[c]]
<1>7. PICK row \in table :
         /\ row[AutoColumn] = q.keyValue /\ row[NameColumn] = name
         /\ table' = (table \ {row}) \union {Changed(row)}
         /\ NoDuplicates(table')
  <2>1. PICK own \in table : own[AutoColumn] = q.keyValue /\ own[NameColumn] = name
    BY <1>3 DEF HasRow
  <2>2. Matching(q) # {} /\ \A row \in Matching(q) : row = own
    BY <1>3, <1>6, <2>1, Columns DEF Matching, TableInv, NoDuplicates
  <2>3. PICK row \in Matching(q) :
           /\ table' = (table \ {row}) \union {Changed(row)}
           /\ NoDuplicates((table \ {row}) \union {Changed(row)})
    BY <1>1, <1>2, <2>2 DEF ExecuteUpdate
  <2>4. NoDuplicates(table')
    BY <2>3
  <2> QED
    BY <2>1, <2>2, <2>3, <2>4
<1>8. PICK new : /\ new = Changed(row) /\ new[AutoColumn] = row[AutoColumn] /\ new[NameColumn] = name
                 /\ new[KillsColumn] = q.values[KillsColumn]
  <2>1. /\ Changed(row)[AutoColumn] = row[AutoColumn] /\ Changed(row)[NameColumn] = name
        /\ Changed(row)[KillsColumn] = q.values[KillsColumn]
    BY <1>3, Columns
  <2> HIDE DEF Changed, name
  <2> QED
    BY <2>1
<1>9. table' = (table \ {row}) \union {new}
  BY <1>7, <1>8
<1> HIDE DEF name, Changed
<1>10. RowsKept
  <2> SUFFICES ASSUME NEW old \in table
               PROVE  \E x \in table' : x[AutoColumn] = old[AutoColumn] /\ x[NameColumn] = old[NameColumn]
    BY DEF RowsKept
  <2>1. CASE old = row
    BY <1>7, <1>8, <1>9, <2>1
  <2>2. CASE old # row
    BY <1>9, <2>2
  <2> QED
    BY <2>1, <2>2
<1>11. TableInv'
  <2>1. NoDuplicates(table)'
    BY <1>7 DEF NoDuplicates
  <2>2. \A x \in table' : x[AutoColumn] # 0 /\ x[NameColumn] \in Text
    BY <1>6, <1>7, <1>8, <1>9 DEF TableInv
  <2> QED
    BY <2>1, <2>2 DEF TableInv
<1>12. ResultInv(f)'
  BY <1>2, <1>3, <1>5 DEF ResultInv, IsUpdate, Moved, ResultOf
<1>13. ASSUME NEW p \in Text, SavedOf(p) PROVE SavedOf(p)'
  <2>1. UpdateOf(q, p) <=> p = name
    BY <1>3 DEF UpdateOf, name
  <2>2. UpdateOf(q, p) => \A x \in table' : x[NameColumn] = p => x[KillsColumn] = q.values[KillsColumn]
    <3> SUFFICES ASSUME p = name, NEW x \in table', x[NameColumn] = p
                 PROVE  x[KillsColumn] = q.values[KillsColumn]
      BY <2>1
    <3>1. x = new
      BY <1>6, <1>7, <1>9, Columns DEF TableInv, NoDuplicates
    <3> QED
      BY <1>8, <3>1
  <2>3. ~UpdateOf(q, p) => \A x \in table' : x[NameColumn] = p => x \in table \/ x[KillsColumn] = saved[p]
    BY <1>8, <1>9, <2>1
  <2>4. NoRow(p)' => NoRow(p)
    BY <1>10 DEF RowsKept, NoRow
  <2> QED
    BY <1>2, <1>5, <1>13, <2>2, <2>3, <2>4, SavedTail DEF Moved, LoginInv
<1>14. ~Current(pending[1])
  BY <1>2, <1>3 DEF Current
<1> QED
  BY <1>5, <1>10, <1>11, <1>12, <1>13, <1>14, ExecutedStep DEF LoginInv, SlotInv

LEMMA InsertStep ==
    ASSUME LoginInv, DataInv', pending # <<>>, ExecuteInsert(Head(pending)),
           UNCHANGED <<scriptVars, saved, failed>>
    PROVE  LoginInv' /\ RowsKept
<1>1. pending[1] = Head(pending) /\ pending[1] \in GoodQuery /\ pending \in Seq(GoodQuery)
      /\ DOMAIN pending = 1 .. Len(pending) /\ 1 \in DOMAIN pending
  BY TailFacts DEF LoginInv, DataInv
<1>2. PICK q \in GoodQuery : q = pending[1]
  BY <1>1
<1>3. /\ q.type = "INSERT" /\ IsInsert(q) /\ DOMAIN q.values = {KillsColumn, NameColumn}
      /\ q.values[KillsColumn] = 0 /\ q.values[NameColumn] = player
  BY <1>1, <1>2 DEF ExecuteInsert, LoginInv, InFlightInv, QueryInv, IsLoad, IsUpdate
<1>4. WaitsForInsert /\ player \in Text
  <2>1. WaitsForInsert
    BY <1>1, <1>2, <1>3 DEF LoginInv, Away, WaitsForRow, Insertless, Asked, NothingInFlight,
                            Playing, OnlyUpdates, IsUpdate
  <2> QED
    BY <2>1 DEF WaitsForInsert, LoginInv, SlotInv
<1> DEFINE id == lastId + 1
           New == [c \in Column |-> IF c = AutoColumn THEN id
                                    ELSE IF c \in DOMAIN q.values THEN q.values[c] ELSE 0]
<1>5. /\ id <= MaxNumber /\ NoDuplicates(table \union {New}) /\ New \notin table
      /\ table' = table \union {New}
      /\ Executed(Head(pending), TRUE, <<>>, id)
  <2>1. AutoColumn \notin DOMAIN q.values
    BY <1>3, Columns
  <2> QED
    BY <1>1, <1>2, <2>1 DEF ExecuteInsert
<1>6. PICK new : /\ new = New /\ new[AutoColumn] = id /\ new[NameColumn] = player
                 /\ new[KillsColumn] = 0
  <2>1. New[AutoColumn] = id /\ New[NameColumn] = player /\ New[KillsColumn] = 0
    BY <1>3, Columns
  <2> HIDE DEF New
  <2> QED
    BY <2>1
<1>7. id \in Number /\ id # 0
  BY <1>5, BoundAssumption DEF LoginInv, DataInv, Number
<1>8. /\ NoDuplicates(table \union {new}) /\ new \notin table
      /\ table' = table \union {new}
      /\ Executed(Head(pending), TRUE, <<>>, id)
  BY <1>5, <1>6
<1> HIDE DEF New, id
<1>9. PICK f \in GoodResult : Moved(f) /\ f.ok = TRUE /\ f.rows = <<>> /\ f.insertId = id
  <2>1. <<>> \in Seq(GoodRow)
    OBVIOUS
  <2> QED
    BY <1>7, <1>8, <2>1, ExecutedMoves
<1>10. RowsKept
  BY <1>8 DEF RowsKept
<1>11. TableInv'
  <2>1. NoDuplicates(table)'
    BY <1>8 DEF NoDuplicates
  <2>2. \A x \in table' : x[AutoColumn] # 0 /\ x[NameColumn] \in Text
    BY <1>4, <1>6, <1>7, <1>8 DEF LoginInv, TableInv
  <2> QED
    BY <2>1, <2>2 DEF TableInv
<1>12. ResultInv(f)'
  <2>1. IsInsert(f)'
    BY <1>2, <1>3, <1>9 DEF IsInsert, Moved, ResultOf, scriptVars
  <2>2. HasRow(f.insertId, player)'
    <3>1. \E row \in table' : row[AutoColumn] = f.insertId /\ row[NameColumn] = player'
      BY <1>6, <1>8, <1>9 DEF Moved, scriptVars
    <3> QED
      BY <3>1 DEF HasRow
  <2> QED
    BY <1>7, <1>9, <2>1, <2>2 DEF ResultInv
<1>13. ASSUME NEW p \in Text, SavedOf(p) PROVE SavedOf(p)'
  <2>1. ~UpdateOf(q, p)
    BY <1>3 DEF UpdateOf
  <2>2. \A x \in table' : x[NameColumn] = p => x \in table \/ x[KillsColumn] = saved[p]
    <3> SUFFICES ASSUME NEW x \in table', x[NameColumn] = p, x \notin table
                 PROVE  x[KillsColumn] = saved[p]
      OBVIOUS
    <3>1. x = new /\ p = player
      BY <1>6, <1>8
    <3>2. NoRow(p)
      BY <1>6, <1>8, <3>1, Columns DEF NoRow, NoDuplicates
    <3> QED
      BY <1>6, <1>13, <3>1, <3>2 DEF SavedOf
  <2>3. NoRow(p)' => NoRow(p)
    BY <1>8 DEF NoRow
  <2> QED
    BY <1>2, <1>9, <1>13, <2>1, <2>2, <2>3, SavedTail DEF Moved, LoginInv
<1>14. ~Current(pending[1])
  BY <1>2, <1>3 DEF Current
<1> QED
  BY <1>9, <1>10, <1>11, <1>12, <1>13, <1>14, ExecutedStep DEF LoginInv, SlotInv

\* MySQL refuses the query.
LEMMA FailsStep ==
    ASSUME LoginInv, DataInv', pending # <<>>, ExecuteFails(Head(pending)),
           failed' = TRUE, UNCHANGED <<scriptVars, saved>>
    PROVE  LoginInv' /\ RowsKept
<1>1. pending[1] = Head(pending) /\ pending[1] \in GoodQuery /\ pending \in Seq(GoodQuery)
      /\ DOMAIN pending = 1 .. Len(pending) /\ 1 \in DOMAIN pending
  BY TailFacts DEF LoginInv, DataInv
<1>2. PICK q \in GoodQuery : q = pending[1]
  BY <1>1
<1>3. Executed(Head(pending), FALSE, <<>>, 0) /\ UNCHANGED <<table, lastId>>
  BY DEF ExecuteFails
<1>4. PICK f \in GoodResult : Moved(f) /\ f.ok = FALSE /\ f.rows = <<>> /\ f.insertId = 0
  <2>1. <<>> \in Seq(GoodRow)
    OBVIOUS
  <2> QED
    BY <1>3, <2>1, ExecutedMoves, ZeroIsNumber
<1>5. RowsKept /\ TableInv'
  BY <1>3 DEF LoginInv, RowsKept, TableInv, NoDuplicates
<1>6. QueryInv(q)
  BY <1>1, <1>2 DEF LoginInv, InFlightInv
<1>7. ResultInv(f)'
  BY <1>2, <1>4, <1>6 DEF QueryInv, ResultInv, IsLoad, IsUpdate, IsInsert, Moved, ResultOf,
                          scriptVars
<1> QED
  BY <1>4, <1>5, <1>7, ExecutedStep

LEMMA LoginExecuteStep ==
    ASSUME LoginInv, LoginExecute
    PROVE  LoginInv' /\ RowsKept
<1>1. /\ Execute /\ pending # <<>>
      /\ failed' = (failed \/ ~finished'[Len(finished')].ok)
      /\ UNCHANGED <<scriptVars, saved>>
  BY DEF LoginExecute, Execute
<1>2. DataInv /\ DataInv' /\ failed \in BOOLEAN
  BY <1>1, ExecuteGood DEF LoginInv, SlotInv
<1> DEFINE q == Head(pending)
<1>3. ASSUME NEW ok \in BOOLEAN, NEW rows, NEW id, Executed(q, ok, rows, id)
      PROVE  failed' = (failed \/ ~ok)
  <2> DEFINE f == [orm |-> q.orm, type |-> q.type, callback |-> q.callback,
                   columns |-> q.columns, ok |-> ok, rows |-> rows, insertId |-> id]
  <2>1. finished' = Append(finished, f)
    BY <1>3 DEF Executed
  <2>2. f.ok = ok
    OBVIOUS
  <2> HIDE DEF f
  <2>3. finished \in Seq(GoodResult)
    BY <1>2 DEF DataInv
  <2>4. Append(finished, f)[Len(Append(finished, f))] = f
    <3>1. Len(Append(finished, f)) = Len(finished) + 1 /\ Append(finished, f)[Len(finished) + 1] = f
      BY <2>3
    <3> QED
      BY <3>1
  <2> QED
    BY <1>1, <2>1, <2>2, <2>4
<1>4. ExecuteSelect(q) \/ ExecuteUpdate(q) \/ ExecuteInsert(q) \/ ExecuteDelete(q) \/ ExecuteFails(q)
  BY <1>1 DEF Execute
<1>5. ~ExecuteDelete(q)
  <2>1. QueryInv(pending[1]) /\ pending[1] = q
    BY <1>1, <1>2, TailFacts DEF LoginInv, InFlightInv, DataInv
  <2>2. QueryInv(q)
    BY <2>1
  <2> QED
    BY <2>2 DEF ExecuteDelete, QueryInv, IsLoad, IsUpdate, IsInsert
<1>6. CASE ExecuteSelect(q)
  <2>1. failed' = failed
    BY <1>2, <1>3, <1>6 DEF ExecuteSelect
  <2> QED
    BY <1>1, <1>2, <1>6, <2>1, SelectStep
<1>7. CASE ExecuteUpdate(q)
  <2>1. failed' = failed
    BY <1>2, <1>3, <1>7 DEF ExecuteUpdate
  <2> QED
    BY <1>1, <1>2, <1>7, <2>1, UpdateStep
<1>8. CASE ExecuteInsert(q)
  <2>1. failed' = failed
    BY <1>2, <1>3, <1>8 DEF ExecuteInsert
  <2> QED
    BY <1>1, <1>2, <1>8, <2>1, InsertStep
<1>9. CASE ExecuteFails(q)
  <2>1. failed' = TRUE
    BY <1>2, <1>3, <1>9 DEF ExecuteFails
  <2> QED
    BY <1>1, <1>2, <1>9, <2>1, FailsStep
<1> QED
  BY <1>4, <1>5, <1>6, <1>7, <1>8, <1>9

-----------------------------------------------------------------------------
(***************************************************************************)
(* ProcessTick takes the result at the front.                              *)
(***************************************************************************)
LEMMA TakenFacts ==
    ASSUME LoginInv, running = <<>>, finished # <<>>, finished' = Tail(finished),
           UNCHANGED <<pending, table, lastId, loaded, defined, scriptVars, saved, failed>>,
           \A o \in Orm : /\ ByName(orm[o]) => ByName(orm'[o])
                          /\ ById(orm[o]) => ById(orm'[o])
                          /\ orm'[o].state = orm[o].state
    PROVE  /\ \A i \in DOMAIN finished' : i + 1 \in DOMAIN finished /\ finished'[i] = finished[i + 1]
                                          /\ i \in Nat
           /\ Len(finished') = Len(finished) - 1 /\ Len(finished) \in Nat \ {0}
           /\ 1 \in DOMAIN finished /\ finished[1] = Head(finished) /\ Head(finished) \in GoodResult
           /\ Len(finished) = 1 => finished' = <<>>
           /\ RowsKept /\ Stays /\ TableInv' /\ SavedInv'
           /\ \A i \in DOMAIN pending' : QueryInv(pending[i])'
           /\ \A i \in DOMAIN finished' : ResultInv(finished[i])'
           /\ Insertless => Insertless' \/ running' # <<>>
<1>1. DataInv /\ InFlightInv /\ raceCheck \in Nat
  BY LoginBoundsAssumption DEF LoginInv, SlotInv
<1>2. finished \in Seq(GoodResult)
  BY <1>1 DEF DataInv
<1>3. /\ \A i \in 1 .. Len(finished) - 1 : finished'[i] = finished[i + 1]
      /\ DOMAIN finished' = 1 .. Len(finished) - 1 /\ DOMAIN finished = 1 .. Len(finished)
      /\ Len(finished') = Len(finished) - 1 /\ Len(finished) \in Nat \ {0}
      /\ Len(finished) = 1 => finished' = <<>>
      /\ finished[1] = Head(finished) /\ Head(finished) \in GoodResult
  BY <1>2, TailFacts
<1>4. /\ \A i \in DOMAIN finished' : i + 1 \in DOMAIN finished /\ finished'[i] = finished[i + 1]
                                     /\ i \in Nat
      /\ 1 \in DOMAIN finished
  BY <1>3
<1>5. RowsKept /\ TableInv' /\ SavedInv'
  BY DEF LoginInv, RowsKept, TableInv, NoDuplicates, SavedInv, SavedOf, NoRow, UpdateOf, scriptVars
<1>6. Stays
  BY <1>1, <1>5 DEF Stays, scriptVars
<1>7. ASSUME NEW i \in DOMAIN pending' PROVE QueryInv(pending[i])'
  <2>1. QueryInv(pending[i]) /\ pending[i].orm \in Orm /\ pending'[i] = pending[i]
    BY <1>1, InFlightTypes DEF InFlightInv
  <2> QED
    BY <1>6, <2>1, QueryStays DEF scriptVars
<1>8. ASSUME NEW i \in DOMAIN finished' PROVE ResultInv(finished[i])'
  <2>1. ResultInv(finished[i + 1]) /\ finished[i + 1].orm \in Orm /\ finished'[i] = finished[i + 1]
    BY <1>1, <1>4, InFlightTypes DEF InFlightInv
  <2> QED
    BY <1>6, <2>1, ResultStays DEF scriptVars
<1>9. Insertless => Insertless' \/ running' # <<>>
  BY <1>4 DEF Insertless
<1> QED
  BY <1>3, <1>4, <1>5, <1>6, <1>7, <1>8, <1>9

\* No callback is run, and no variable of the script is written.
LEMMA DroppedStep ==
    ASSUME LoginInv, running = <<>>, finished # <<>>, finished' = Tail(finished),
           UNCHANGED <<pending, table, lastId, loaded, defined, scriptVars, saved, failed,
                       memory, running>>,
           OrmType', InstancesInv',
           \A o \in Orm : /\ ByName(orm[o]) => ByName(orm'[o])
                          /\ ById(orm[o]) => ById(orm'[o])
                          /\ orm'[o].state = orm[o].state
    PROVE  LoginInv' /\ RowsKept
<1>1. /\ \A i \in DOMAIN finished' : i + 1 \in DOMAIN finished /\ finished'[i] = finished[i + 1]
                                     /\ i \in Nat
      /\ Len(finished') = Len(finished) - 1 /\ Len(finished) \in Nat \ {0}
      /\ Len(finished) = 1 => finished' = <<>>
      /\ RowsKept /\ Stays /\ TableInv' /\ SavedInv'
      /\ \A i \in DOMAIN pending' : QueryInv(pending[i])'
      /\ \A i \in DOMAIN finished' : ResultInv(finished[i])'
      /\ Insertless => Insertless' \/ running' # <<>>
  BY TakenFacts
<1>2. DataInv' /\ SlotInv'
  <2>1. finished' \in Seq(GoodResult)
    BY TailFacts DEF LoginInv, DataInv
  <2> QED
    BY <2>1 DEF LoginInv, DataInv, SlotInv, scriptVars
<1>3. InFlightInv'
  BY <1>1 DEF InFlightInv
<1>4. UNCHANGED <<player, raceCheck, ormId, isLoggedIn, dialog, kicked>>
  BY DEF scriptVars
<1>5. ASSUME Away PROVE Away'
  <2>1. \A i \in DOMAIN finished' : ~Current(finished[i])'
    BY <1>1, <1>4, <1>5 DEF Away, Current
  <2>2. \A i \in DOMAIN pending' : ~Current(pending[i])'
    BY <1>4, <1>5 DEF Away, Current
  <2> QED
    BY <1>1, <1>4, <1>5, <2>1, <2>2 DEF Away
<1>6. ASSUME WaitsForRow PROVE WaitsForRow'
  <2>1. ASSUME NEW i \in DOMAIN finished', Current(finished[i])'
        PROVE  /\ i = Len(finished') /\ finished'[i].orm = ormId' /\ pending' = <<>>
               /\ finished'[i].ok => Answer(finished[i])'
    <3>1. i + 1 \in DOMAIN finished /\ finished'[i] = finished[i + 1] /\ i \in Nat
      BY <1>1
    <3>2. Current(finished[i + 1])
      BY <1>4, <2>1, <3>1 DEF Current
    <3>3. /\ i + 1 = Len(finished) /\ finished[i + 1].orm = ormId /\ pending = <<>>
          /\ finished[i + 1].ok => Answer(finished[i + 1])
      BY <1>6, <3>1, <3>2 DEF WaitsForRow
    <3>4. finished'[i].ok => Answer(finished[i])'
      BY <1>4, <3>1, <3>3 DEF Answer, NoRow
    <3> QED
      BY <1>1, <1>4, <3>1, <3>3, <3>4
  <2>2. \A i \in DOMAIN pending' : Current(pending[i])' =>
             i = Len(pending') /\ pending'[i].orm = ormId' /\ pending'[i].keyValue = player'
    BY <1>4, <1>6 DEF WaitsForRow, Current
  <2>3. (kicked \/ Untouched)' /\ running' = <<>> /\ ByName(orm'[ormId]) /\ Insertless'
    BY <1>1, <1>4, <1>6 DEF WaitsForRow, Untouched
  <2> QED
    BY <1>4, <1>6, <2>1, <2>2, <2>3 DEF WaitsForRow
<1>7. ASSUME WaitsForInsert PROVE WaitsForInsert'
  <2>1. \A i \in DOMAIN finished' : IsInsert(finished[i])'
    BY <1>1, <1>4, <1>7 DEF WaitsForInsert, IsInsert
  <2>2. \A i \in DOMAIN pending' : IsInsert(pending[i])'
    BY <1>4, <1>7 DEF WaitsForInsert, IsInsert
  <2>3. Len(pending') + Len(finished') + Len(running') <= 1
    <3>1. Len(pending) \in Nat /\ Len(running) \in Nat
      BY DEF LoginInv, DataInv
    <3> QED
      BY <1>1, <1>7, <3>1 DEF WaitsForInsert
  <2>4. HasInstance'
    BY <1>4, <1>7 DEF WaitsForInsert, HasInstance
  <2> QED
    BY <1>4, <1>7, <2>1, <2>2, <2>3, <2>4 DEF WaitsForInsert
<1>8. ASSUME Playing PROVE Playing'
  <2>1. OnlyUpdates'
    BY <1>1, <1>8 DEF Playing, OnlyUpdates, IsUpdate
  <2>2. HasInstance' /\ HasRow(memory[AutoColumn], player)'
    BY <1>4, <1>8 DEF Playing, HasInstance, HasRow
  <2> QED
    BY <1>4, <1>8, <2>1, <2>2 DEF Playing
<1>9. ~Asked
  BY DEF Asked, NothingInFlight
<1>10. (Away \/ WaitsForRow \/ Asked \/ WaitsForInsert \/ Playing)'
  BY <1>5, <1>6, <1>7, <1>8, <1>9 DEF LoginInv
<1> QED
  BY <1>1, <1>2, <1>3, <1>10 DEF LoginInv

LEMMA ApplyFacts ==
    ASSUME LoginInv, Apply, UNCHANGED <<scriptVars, saved, failed>>
    PROVE  /\ running = <<>> /\ finished # <<>> /\ finished' = Tail(finished)
           /\ finished[1] = Head(finished) /\ 1 \in DOMAIN finished
           /\ Head(finished) \in GoodResult /\ Head(finished).ok /\ Head(finished).orm \in Orm
           /\ ResultInv(Head(finished)) /\ ApplyResult(Head(finished))
           /\ UNCHANGED <<pending, table, lastId, loaded, defined>>
<1>1. /\ running = <<>> /\ finished # <<>> /\ finished' = Tail(finished)
      /\ Head(finished).ok /\ ApplyResult(Head(finished))
      /\ UNCHANGED <<loaded, pending, table, lastId>>
      /\ defined' = (loaded \/ Written(Head(finished)) = {})
  BY DEF Apply
<1>2. loaded /\ defined /\ loaded \in BOOLEAN /\ defined \in BOOLEAN
  BY DEF LoginInv, SlotInv, DataInv
<1>3. finished[1] = Head(finished) /\ 1 \in DOMAIN finished /\ Head(finished) \in GoodResult
  BY <1>1, TailFacts DEF LoginInv, DataInv
<1>4. ResultInv(Head(finished)) /\ Head(finished).orm \in Orm
  BY <1>3 DEF LoginInv, InFlightInv, GoodResult, ResultRecord
<1>5. defined' = defined
  BY <1>1, <1>2
<1> QED
  BY <1>1, <1>3, <1>4, <1>5

\* An UPDATE has been made: nothing to apply, nothing to call.
LEMMA ApplyOnlyLogin ==
    ASSUME LoginInv, ApplyOnly, UNCHANGED <<scriptVars, saved, failed>>
    PROVE  LoginInv' /\ RowsKept
<1> DEFINE f == Head(finished)
<1>1. /\ Apply /\ running' = running
      /\ orm' = [orm EXCEPT ![f.orm].error = "OK"]
      /\ ~loaded \/ f.callback = None
  BY DEF ApplyOnly
<1>2. /\ running = <<>> /\ finished # <<>> /\ finished' = Tail(finished)
      /\ f.orm \in Orm /\ ResultInv(f) /\ ApplyResult(f)
      /\ UNCHANGED <<pending, table, lastId, loaded, defined>>
  BY <1>1, ApplyFacts
<1> HIDE DEF f
<1>3. f.callback = None
  BY <1>1 DEF LoginInv, SlotInv
<1>4. IsUpdate(f)
  <2>1. None \notin LoginCallback
    BY LoginCallbackAssumption, NoneAssumption
  <2> QED
    BY <1>2, <1>3, <2>1 DEF ResultInv, IsLoad, IsInsert
<1>5. memory' = memory
  <2>1. Written(f) = {}
    BY <1>4 DEF Written, IsUpdate
  <2>2. memory' = [c \in Column |-> memory[c]]
    BY <1>2, <2>1 DEF ApplyResult
  <2> QED
    BY <2>2, InFlightTypes DEF LoginInv
<1>6. /\ OrmType' /\ InstancesInv'
      /\ \A o \in Orm : /\ ByName(orm[o]) => ByName(orm'[o])
                        /\ ById(orm[o]) => ById(orm'[o])
                        /\ orm'[o].state = orm[o].state
  BY <1>1, <1>2, ErrorStep DEF LoginInv
<1> QED
  BY <1>1, <1>2, <1>5, <1>6, DroppedStep

LEMMA DropFailedLogin ==
    ASSUME LoginInv, DropFailed, UNCHANGED <<scriptVars, saved, failed>>
    PROVE  LoginInv' /\ RowsKept
<1>1. /\ running = <<>> /\ finished # <<>> /\ finished' = Tail(finished)
      /\ UNCHANGED <<orm, memory, loaded, pending, running, table, lastId, defined>>
  BY DEF DropFailed
<1>2. OrmType' /\ InstancesInv'
  BY <1>1 DEF LoginInv, OrmType, InstancesInv
<1> QED
  BY <1>1, <1>2, DroppedStep

\* The result of a SELECT or an INSERT is applied, and its callback begins.
LEMMA CallFacts ==
    ASSUME LoginInv, ApplyAndCall, UNCHANGED <<scriptVars, saved, failed>>,
           NEW f \in GoodResult, f = Head(finished)
    PROVE  /\ running = <<>> /\ finished # <<>> /\ finished' = Tail(finished)
           /\ running' = <<f>> /\ f.ok /\ f.orm \in Orm /\ ResultInv(f) /\ ~IsUpdate(f)
           /\ ApplyResult(f) /\ 1 \in DOMAIN finished /\ finished[1] = f
           /\ UNCHANGED <<pending, table, lastId, loaded, defined, player, raceCheck, ormId,
                          isLoggedIn, dialog, kicked, saved, failed>>
           /\ DataInv' /\ OrmType' /\ InstancesInv' /\ TableInv' /\ SavedInv' /\ InFlightInv'
           /\ RowsKept
           /\ \A o \in Orm : /\ ByName(orm[o]) => ByName(orm'[o])
                             /\ ById(orm[o]) => ById(orm'[o])
                             /\ orm'[o].state = orm[o].state
<1>1. /\ Apply /\ f.callback # None /\ running' = <<f>>
      /\ orm' = [orm EXCEPT ![f.orm].error = ResultError(f)]
  BY DEF ApplyAndCall
<1>2. /\ running = <<>> /\ finished # <<>> /\ finished' = Tail(finished)
      /\ f.ok /\ f.orm \in Orm /\ ResultInv(f) /\ ApplyResult(f)
      /\ 1 \in DOMAIN finished /\ finished[1] = f
      /\ UNCHANGED <<pending, table, lastId, loaded, defined>>
  BY <1>1, ApplyFacts
<1>3. ResultError(f) \in {"OK", "NO_DATA"}
  BY DEF ResultError
<1>4. /\ OrmType' /\ InstancesInv'
      /\ \A o \in Orm : /\ ByName(orm[o]) => ByName(orm'[o])
                        /\ ById(orm[o]) => ById(orm'[o])
                        /\ orm'[o].state = orm[o].state
                        /\ orm'[o].error = IF o = f.orm THEN ResultError(f) ELSE orm[o].error
  BY <1>1, <1>2, <1>3, ErrorStep DEF LoginInv
<1>5. DataInv'
  <2>1. Next
    BY DEF Next
  <2> QED
    BY <2>1, NextGood DEF LoginInv
<1>6. /\ RowsKept /\ Stays /\ TableInv' /\ SavedInv'
      /\ \A i \in DOMAIN pending' : QueryInv(pending[i])'
      /\ \A i \in DOMAIN finished' : ResultInv(finished[i])'
  BY <1>2, <1>4, TakenFacts
<1>7. ~IsUpdate(f)
  BY <1>1 DEF IsUpdate
<1>8. ResultInv(f)'
  BY <1>2, <1>6, ResultStays DEF scriptVars
<1>9. InFlightInv'
  <2>1. running'[1] = f /\ Len(running') = 1
    BY <1>1
  <2>2. IsLoad(f)' \/ IsInsert(f)'
    BY <1>7, <1>8 DEF ResultInv, IsUpdate
  <2>3. orm'[f.orm].error = ResultError(f)
    BY <1>2, <1>4
  <2>4. ResultError(f)' = ResultError(f)
    BY DEF ResultError
  <2> QED
    BY <1>2, <1>6, <1>8, <2>1, <2>2, <2>3, <2>4 DEF InFlightInv
<1> QED
  BY <1>1, <1>2, <1>4, <1>5, <1>6, <1>7, <1>9 DEF scriptVars

\* What a SELECT writes: the id and the kills of the row, if there is one.
LEMMA LoadWrites ==
    ASSUME LoginInv, ApplyAndCall, UNCHANGED <<scriptVars, saved, failed>>,
           NEW f \in GoodResult, f = Head(finished), IsLoad(f)
    PROVE  /\ memory'[NameColumn] = memory[NameColumn]
           /\ f.rows = <<>> => memory' = memory
           /\ f.rows # <<>> => /\ memory'[AutoColumn] = f.rows[1][AutoColumn]
                               /\ memory'[KillsColumn] = f.rows[1][KillsColumn]
<1>1. ApplyResult(f) /\ finished # <<>> /\ finished' = Tail(finished)
  BY CallFacts
<1>2. f.type = "SELECT" /\ f.columns = <<AutoColumn, KillsColumn>>
      /\ orm[f.orm].variables = <<AutoColumn, KillsColumn>>
  BY DEF IsLoad, ByName
<1>3. f.rows = <<>> => memory' = memory
  <2> SUFFICES ASSUME f.rows = <<>> PROVE memory' = memory
    OBVIOUS
  <2>1. Written(f) = {}
    BY <1>2 DEF Written
  <2>2. memory' = [c \in Column |-> memory[c]]
    BY <1>1, <2>1 DEF ApplyResult
  <2> QED
    BY <2>2, InFlightTypes DEF LoginInv
<1>4. CASE f.rows # <<>>
  <2>1. LoadsSelected
    BY LoadStep DEF LoginInv, Next
  <2>2. \A c \in Column : memory'[c] = IF c \in Names(orm[f.orm]) THEN f.rows[1][c] ELSE memory[c]
    BY <1>1, <1>2, <1>4, <2>1 DEF LoadsSelected
  <2>3. Names(orm[f.orm]) = {AutoColumn, KillsColumn}
    <3>1. DOMAIN orm[f.orm].variables = {1, 2}
      BY <1>2
    <3>2. orm[f.orm].variables[1] = AutoColumn /\ orm[f.orm].variables[2] = KillsColumn
      BY <1>2
    <3> QED
      BY <3>1, <3>2 DEF Names
  <2> QED
    BY <1>4, <2>2, <2>3, Columns
<1> QED
  BY <1>3, <1>4

LEMMA CallLoad ==
    ASSUME LoginInv, ApplyAndCall, UNCHANGED <<scriptVars, saved, failed>>,
           NEW f \in GoodResult, f = Head(finished), IsLoad(f)
    PROVE  LoginInv' /\ RowsKept
<1>1. /\ running = <<>> /\ finished # <<>> /\ finished' = Tail(finished)
      /\ running' = <<f>> /\ f.ok /\ 1 \in DOMAIN finished /\ finished[1] = f
      /\ UNCHANGED <<pending, table, lastId, loaded, defined, player, raceCheck, ormId,
                     isLoggedIn, dialog, kicked, saved, failed>>
      /\ DataInv' /\ OrmType' /\ InstancesInv' /\ TableInv' /\ SavedInv' /\ InFlightInv'
      /\ RowsKept
      /\ \A o \in Orm : ByName(orm[o]) => ByName(orm'[o])
  BY CallFacts
<1>2. f.type = "SELECT" /\ running' # <<>> /\ running'[1] = f
  BY <1>1 DEF IsLoad
<1>3. /\ \A i \in DOMAIN finished' : i + 1 \in DOMAIN finished /\ finished'[i] = finished[i + 1]
                                     /\ i \in Nat
      /\ Len(finished') = Len(finished) - 1 /\ Len(finished) \in Nat \ {0}
      /\ Len(finished) = 1 => finished' = <<>>
  <2>1. finished \in Seq(GoodResult)
    BY DEF LoginInv, DataInv
  <2> QED
    BY <1>1, <2>1, TailFacts
<1>4. /\ memory'[NameColumn] = memory[NameColumn]
      /\ f.rows = <<>> => memory' = memory
      /\ f.rows # <<>> => /\ memory'[AutoColumn] = f.rows[1][AutoColumn]
                          /\ memory'[KillsColumn] = f.rows[1][KillsColumn]
  BY LoadWrites
<1>5. SlotInv'
  BY <1>1, <1>4 DEF LoginInv, SlotInv
<1>6. Insertless => Insertless'
  BY <1>1, <1>2, <1>3 DEF Insertless
<1>7. ~Asked /\ ~WaitsForInsert /\ ~Playing
  BY <1>1, <1>2 DEF Asked, NothingInFlight, WaitsForInsert, IsInsert, Playing, OnlyUpdates, IsUpdate
<1>8. ASSUME Away PROVE Away'
  <2>1. \A i \in DOMAIN finished' : ~Current(finished[i])'
    BY <1>1, <1>3, <1>8 DEF Away, Current
  <2>2. \A i \in DOMAIN pending' : ~Current(pending[i])'
    BY <1>1, <1>8 DEF Away, Current
  <2>3. ~Current(running[1])'
    BY <1>1, <1>2, <1>8 DEF Away, Current
  <2> QED
    BY <1>1, <1>6, <1>8, <2>1, <2>2, <2>3 DEF Away
<1>9. ASSUME WaitsForRow PROVE WaitsForRow'
  <2>1. ASSUME NEW i \in DOMAIN finished', Current(finished[i])'
        PROVE  /\ i = Len(finished') /\ finished'[i].orm = ormId' /\ pending' = <<>>
               /\ finished'[i].ok => Answer(finished[i])'
    <3>1. i + 1 \in DOMAIN finished /\ finished'[i] = finished[i + 1] /\ i \in Nat
      BY <1>3
    <3>2. Current(finished[i + 1])
      BY <1>1, <2>1, <3>1 DEF Current
    <3>3. /\ i + 1 = Len(finished) /\ finished[i + 1].orm = ormId /\ pending = <<>>
          /\ finished[i + 1].ok => Answer(finished[i + 1])
      BY <1>9, <3>1, <3>2 DEF WaitsForRow
    <3>4. finished'[i].ok => Answer(finished[i])'
      BY <1>1, <3>1, <3>3 DEF Answer, NoRow
    <3> QED
      BY <1>1, <1>3, <3>1, <3>3, <3>4
  <2>2. \A i \in DOMAIN pending' : Current(pending[i])' =>
             i = Len(pending') /\ pending'[i].orm = ormId' /\ pending'[i].keyValue = player'
    BY <1>1, <1>9 DEF WaitsForRow, Current
  <2>3. ASSUME Current(running[1])'
        PROVE  /\ pending' = <<>> /\ finished' = <<>>
               /\ running'[1].orm = ormId' /\ Answer(running[1])'
               /\ IF running'[1].rows = <<>> THEN (kicked \/ Untouched)'
                  ELSE /\ memory'[AutoColumn] = running'[1].rows[1][AutoColumn]
                       /\ memory'[KillsColumn] = running'[1].rows[1][KillsColumn]
    <3>1. Current(finished[1])
      BY <1>1, <1>2, <2>3 DEF Current
    <3>2. 1 = Len(finished) /\ f.orm = ormId /\ pending = <<>> /\ Answer(f)
      BY <1>1, <1>9, <3>1 DEF WaitsForRow
    <3>3. Answer(running[1])'
      BY <1>1, <1>2, <3>2 DEF Answer, NoRow
    <3>4. f.rows = <<>> => (kicked \/ Untouched)'
      BY <1>1, <1>4, <1>9 DEF WaitsForRow, Untouched
    <3> QED
      BY <1>1, <1>2, <1>3, <1>4, <3>2, <3>3, <3>4
  <2>4. ormId' \in Orm /\ ByName(orm'[ormId']) /\ Insertless' /\ memory'[NameColumn] = player'
    BY <1>1, <1>4, <1>6, <1>9 DEF WaitsForRow
  <2>5. player' # None /\ ~isLoggedIn' /\ dialog' = "none"
    BY <1>1, <1>9 DEF WaitsForRow
  <2> QED
    BY <1>2, <2>1, <2>2, <2>3, <2>4, <2>5 DEF WaitsForRow
<1> QED
  BY <1>1, <1>5, <1>7, <1>8, <1>9 DEF LoginInv

\* The number of the new row goes into the variable of the id.
LEMMA CallInsert ==
    ASSUME LoginInv, ApplyAndCall, UNCHANGED <<scriptVars, saved, failed>>,
           NEW f \in GoodResult, f = Head(finished), IsInsert(f)
    PROVE  LoginInv' /\ RowsKept
<1>1. /\ running = <<>> /\ finished # <<>> /\ finished' = Tail(finished)
      /\ running' = <<f>> /\ f.ok /\ f.orm \in Orm /\ ResultInv(f) /\ ~IsUpdate(f)
      /\ ApplyResult(f) /\ 1 \in DOMAIN finished /\ finished[1] = f
      /\ UNCHANGED <<pending, table, lastId, loaded, defined, player, raceCheck, ormId,
                     isLoggedIn, dialog, kicked, saved, failed>>
      /\ DataInv' /\ OrmType' /\ InstancesInv' /\ TableInv' /\ SavedInv' /\ InFlightInv'
      /\ RowsKept
      /\ \A o \in Orm : /\ ById(orm[o]) => ById(orm'[o])
                        /\ orm'[o].state = orm[o].state
  BY CallFacts
<1>2. f.type = "INSERT" /\ f.orm = ormId /\ f.insertId # 0
  BY <1>1 DEF ResultInv, IsInsert, IsLoad
<1>3. WaitsForInsert
  BY <1>1, <1>2 DEF LoginInv, Away, WaitsForRow, Insertless, Asked, NothingInFlight,
                    Playing, OnlyUpdates, IsUpdate
<1>4. Len(finished) = 1 /\ Len(pending) = 0 /\ finished' = <<>> /\ pending' = <<>>
  <2>1. finished \in Seq(GoodResult) /\ pending \in Seq(GoodQuery) /\ running = <<>>
    BY <1>1 DEF LoginInv, DataInv
  <2>2. Len(finished) \in Nat \ {0} /\ Len(pending) \in Nat /\ Len(running) = 0
    BY <1>1, <2>1
  <2>3. Len(pending) + Len(finished) + Len(running) <= 1
    BY <1>3 DEF WaitsForInsert
  <2>4. \A a, b \in Nat : (b # 0 /\ a + b + 0 <= 1) => (b = 1 /\ a = 0)
    OBVIOUS
  <2>5. Len(pending) \in Nat /\ Len(finished) \in Nat /\ Len(finished) # 0
        /\ Len(pending) + Len(finished) + 0 <= 1
    BY <2>2, <2>3
  <2>6. Len(finished) = 1 /\ Len(pending) = 0
    BY <2>4, <2>5
  <2> QED
    BY <1>1, <2>1, <2>6, TailFacts, EmptySeq
<1>5. Written(f) = {AutoColumn}
  <2>1. orm[f.orm].key = AutoColumn /\ orm[f.orm].key # None
    BY <1>2, <1>3, Columns DEF WaitsForInsert, HasInstance, ById
  <2> QED
    BY <1>2, <2>1 DEF Written
<1>6. memory'[AutoColumn] = f.insertId /\ memory'[NameColumn] = memory[NameColumn]
  BY <1>1, <1>2, <1>5, Columns DEF ApplyResult
<1>7. SlotInv'
  BY <1>1, <1>6 DEF LoginInv, SlotInv
<1>8. WaitsForInsert'
  <2>1. HasInstance'
    BY <1>1, <1>3 DEF WaitsForInsert, HasInstance
  <2>2. Len(pending') + Len(finished') + Len(running') <= 1
    <3>1. Len(pending') = 0 /\ Len(finished') = 0 /\ Len(running') = 1
      BY <1>1, <1>4
    <3> QED
      BY <3>1
  <2>3. IsInsert(running[1])' /\ memory'[AutoColumn] = running'[1].insertId
    <3>1. running'[1] = f
      BY <1>1
    <3>2. IsInsert(f)'
      BY <1>1 DEF IsInsert
    <3> QED
      BY <1>6, <3>1, <3>2
  <2> QED
    BY <1>1, <1>3, <1>4, <1>6, <2>1, <2>2, <2>3 DEF WaitsForInsert
<1> QED
  BY <1>1, <1>7, <1>8 DEF LoginInv

LEMMA LoginProcessStep ==
    ASSUME LoginInv, LoginProcess
    PROVE  LoginInv' /\ RowsKept
<1>1. UNCHANGED <<scriptVars, saved, failed>>
  BY DEF LoginProcess
<1>2. CASE ApplyAndCall
  <2>1. Apply
    BY <1>2 DEF ApplyAndCall
  <2>2. Head(finished) \in GoodResult
    BY <1>1, <2>1, ApplyFacts
  <2>3. PICK f \in GoodResult : f = Head(finished)
    BY <2>2
  <2>4. ResultInv(f) /\ ~IsUpdate(f)
    BY <1>1, <1>2, <2>3, CallFacts
  <2>5. IsLoad(f) \/ IsInsert(f)
    BY <2>4 DEF ResultInv
  <2> QED
    BY <1>1, <1>2, <2>3, <2>5, CallLoad, CallInsert
<1>3. CASE ApplyOnly
  BY <1>1, <1>3, ApplyOnlyLogin
<1>4. CASE DropFailed
  BY <1>1, <1>4, DropFailedLogin
<1> QED
  BY <1>2, <1>3, <1>4 DEF LoginProcess

-----------------------------------------------------------------------------
(***************************************************************************)
(* The invariant, and what follows from it.                                *)
(***************************************************************************)
LEMMA InitLogin == LoginInit => LoginInv
<1> SUFFICES ASSUME LoginInit PROVE LoginInv
  OBVIOUS
<1>1. Init /\ pending = <<>> /\ finished = <<>> /\ running = <<>> /\ table = {}
      /\ orm = [o \in Orm |-> NewOrm] /\ memory = [c \in Column |-> 0] /\ loaded /\ defined
  BY DEF LoginInit, Init
<1>2. DataInv
  BY <1>1, InitGood
<1>3. OrmType /\ InstancesInv
  BY <1>1 DEF OrmType, NewOrm, InstancesInv
<1>4. SlotInv
  <2>1. 0 \in 0 .. 2 * MaxSessions /\ 0 % 2 = 0
    BY LoginBoundsAssumption
  <2>2. saved \in [Text -> Number]
    BY ZeroIsNumber DEF LoginInit
  <2> QED
    BY <1>1, <2>1, <2>2, Columns DEF LoginInit, SlotInv
<1>5. InFlightInv /\ TableInv /\ SavedInv
  BY <1>1 DEF InFlightInv, TableInv, NoDuplicates, SavedInv, SavedOf, NoRow, LoginInit
<1>6. Away
  BY <1>1 DEF LoginInit, Away, Insertless
<1> QED
  BY <1>2, <1>3, <1>4, <1>5, <1>6 DEF LoginInv

\* Every step keeps the invariant, and the rows.
LEMMA NextLogin ==
    ASSUME ~LeaveEarly, LoginInv, [LoginNext]_loginVars
    PROVE  LoginInv' /\ RowsKept
<1>1. ASSUME NEW p \in Text, OnPlayerConnect(p) PROVE LoginInv' /\ RowsKept
  BY <1>1, ConnectStep
<1>2. CASE OnDialogResponseLogin
  BY <1>2, LoginStep
<1>3. CASE OnDialogResponseRegister
  BY <1>3, RegisterStep
<1>4. CASE OnPlayerDeath
  BY <1>4, DeathStep
<1>5. CASE OnPlayerDisconnect
  BY <1>5, DisconnectStep
<1>6. CASE ScriptCallback
  BY <1>6, LateStep, LoadedStep, RegisteredStep DEF ScriptCallback
<1>7. CASE LoginExecute
  BY <1>7, LoginExecuteStep
<1>8. CASE LoginProcess
  BY <1>8, LoginProcessStep
<1>9. CASE WorkerStep \/ UNCHANGED loginVars
  <2>1. UNCHANGED <<orm, memory, loaded, pending, finished, running, table, lastId, defined,
                    player, raceCheck, ormId, isLoggedIn, dialog, kicked, saved, failed>>
    BY <1>9 DEF WorkerStep, loginVars, vars, scriptVars
  <2>2. DataInv' /\ OrmType' /\ SlotInv' /\ InstancesInv' /\ TableInv' /\ RowsKept
    BY <2>1 DEF LoginInv, DataInv, OrmType, SlotInv, InstancesInv, TableInv, NoDuplicates, RowsKept
  <2>3. SavedInv'
    BY <2>1 DEF LoginInv, SavedInv, SavedOf, NoRow, UpdateOf
  <2>4. Stays
    BY <2>1, <2>2, LoginBoundsAssumption DEF LoginInv, SlotInv, Stays
  <2>5. \A i \in DOMAIN pending : QueryInv(pending[i])'
    <3> SUFFICES ASSUME NEW i \in DOMAIN pending PROVE QueryInv(pending[i])'
      OBVIOUS
    <3>1. QueryInv(pending[i]) /\ pending[i].orm \in Orm /\ pending'[i] = pending[i]
      BY <2>1, InFlightTypes DEF LoginInv, InFlightInv
    <3> QED
      BY <2>1, <2>4, <3>1, QueryStays
  <2>6. \A i \in DOMAIN finished : ResultInv(finished[i])'
    <3> SUFFICES ASSUME NEW i \in DOMAIN finished PROVE ResultInv(finished[i])'
      OBVIOUS
    <3>1. ResultInv(finished[i]) /\ finished[i].orm \in Orm /\ finished'[i] = finished[i]
      BY <2>1, InFlightTypes DEF LoginInv, InFlightInv
    <3> QED
      BY <2>1, <2>4, <3>1, ResultStays
  <2>7. running # <<>> => (IsInsert(running[1]) => IsInsert(running[1])')
                          /\ (IsLoad(running[1]) => IsLoad(running[1])')
                          /\ (ResultInv(running[1]) => ResultInv(running[1])')
    BY <2>1 DEF IsInsert, IsLoad, ByName, ResultInv, IsUpdate, HasRow
  <2>8. InFlightInv'
    BY <2>1, <2>5, <2>6, <2>7 DEF LoginInv, InFlightInv, IsLoad, IsInsert, ResultError
  <2>9. Away => Away'
    BY <2>1 DEF Away, Insertless, Current
  <2>10. WaitsForRow => WaitsForRow'
    BY <2>1 DEF WaitsForRow, Insertless, Current, Untouched, Answer, NoRow, ByName
  <2>11. Asked => Asked'
    BY <2>1 DEF Asked, HasInstance, NothingInFlight, HasRow, NoRow, Untouched
  <2>12. WaitsForInsert => WaitsForInsert'
    BY <2>1 DEF WaitsForInsert, HasInstance, IsInsert
  <2>13. Playing => Playing'
    BY <2>1 DEF Playing, HasInstance, OnlyUpdates, IsUpdate, HasRow
  <2> QED
    BY <2>2, <2>3, <2>8, <2>9, <2>10, <2>11, <2>12, <2>13 DEF LoginInv
<1> QED
  BY <1>1, <1>2, <1>3, <1>4, <1>5, <1>6, <1>7, <1>8, <1>9 DEF LoginNext, PlayerActs

\* Nothing else of the invariant depends on what the worker is doing.
WorkerInv == worker \in {"parking", "waiting", "popping"}

LEMMA WorkerInductive == LoginSpec => []WorkerInv
<1>1. LoginInit => WorkerInv
  BY DEF LoginInit, WorkerInv
<1>2. WorkerInv /\ [LoginNext]_loginVars => WorkerInv'
  <2> SUFFICES ASSUME WorkerInv, [LoginNext]_loginVars PROVE WorkerInv'
    OBVIOUS
  <2>1. Notify \/ UNCHANGED worker => WorkerInv'
    BY DEF Notify, WorkerInv
  <2>2. CASE PlayerActs \/ OnPlayerDisconnect
    BY <2>1, <2>2 DEF PlayerActs, OnPlayerConnect, OnDialogResponseLogin,
       OnDialogResponseRegister, OnPlayerDeath, OnPlayerDisconnect
  <2>3. CASE ScriptCallback \/ LoginExecute \/ LoginProcess \/ UNCHANGED loginVars
    BY <2>1, <2>3 DEF ScriptCallback, OnPlayerDataLoadedLate, OnPlayerDataLoaded,
       OnPlayerRegister, LoginExecute, LoginProcess, loginVars
  <2>4. CASE WorkerStep
    BY <2>4 DEF WorkerStep, WorkerInv
  <2> QED
    BY <2>2, <2>3, <2>4 DEF LoginNext
<1> QED
  BY <1>1, <1>2, PTL DEF LoginSpec

LEMMA LoginInductive == ASSUME ~LeaveEarly PROVE LoginSpec => []LoginInv
<1>1. LoginInit => LoginInv
  BY InitLogin
<1>2. LoginInv /\ [LoginNext]_loginVars => LoginInv'
  BY NextLogin
<1> QED
  BY <1>1, <1>2, PTL DEF LoginSpec

\* Who is logged in has a row, the variables of the slot name it, and the
\* instance is keyed by the id: whatever results of his predecessors come late,
\* his orm_save updates his own row.
THEOREM LoggedInCorrect == ASSUME ~LeaveEarly PROVE LoginSpec => []LoggedInHasRow
<1>1. LoginInv => LoggedInHasRow
  BY DEF LoginInv, LoggedInHasRow, Away, WaitsForRow, Asked, WaitsForInsert, Playing,
         HasInstance, ById, HasRow
<1> QED
  BY <1>1, LoginInductive, PTL

\* A player is asked for his password exactly if he has a row.
THEOREM DialogCorrect == ASSUME ~LeaveEarly PROVE LoginSpec => []RightDialog
<1>1. LoginInv => RightDialog
  BY DEF LoginInv, RightDialog, Away, WaitsForRow, Asked, WaitsForInsert, Playing,
         HasRow, NoRow
<1> QED
  BY <1>1, LoginInductive, PTL

\* Who comes back is asked for his password with the kills he left with, unless
\* MySQL has refused a query.
THEOREM ReadsCorrect == ASSUME ~LeaveEarly PROVE LoginSpec => []ReadsOwnWrites
<1>1. LoginInv => ReadsOwnWrites
  BY DEF LoginInv, ReadsOwnWrites, Away, WaitsForRow, Asked, WaitsForInsert, Playing
<1> QED
  BY <1>1, LoginInductive, PTL

\* No step of any player takes a row away, or gives it to somebody else.
THEOREM RowsCorrect == ASSUME ~LeaveEarly PROVE LoginSpec => RowsKeepTheirUser
<1>1. LoginInv /\ [LoginNext]_loginVars => [RowsKept]_loginVars
  BY NextLogin
<1>2. [RowsKept]_loginVars =>
        [\A row \in table : \E new \in table' :
            new[AutoColumn] = row[AutoColumn] /\ new[NameColumn] = row[NameColumn]]_loginVars
  BY DEF RowsKept
<1> QED
  BY <1>1, <1>2, LoginInductive, PTL DEF LoginSpec, RowsKeepTheirUser

\* Every variable has its type: numbers in the numeric columns, a user name in
\* the name column of every row.
THEOREM LoginTypeCorrect == ASSUME ~LeaveEarly PROVE LoginSpec => []LoginTypeOK
<1>1. LoginInv /\ WorkerInv => LoginTypeOK
  <2> SUFFICES ASSUME LoginInv, WorkerInv PROVE LoginTypeOK
    OBVIOUS
  <2>1. TypeOK
    <3>1. GoodQuery \subseteq QueryRecord /\ GoodResult \subseteq ResultRecord /\ GoodRow \subseteq Row
      BY DEF GoodQuery, GoodResult, GoodRow
    <3>2. ConnectionType
      BY <3>1 DEF ConnectionType, LoginInv, DataInv
    <3> QED
      BY <3>1, <3>2 DEF TypeOK, LoginInv, DataInv, GoodRow
  <2>2. dialog \in {"none", "login", "register"}
    BY DEF LoginInv, Away, WaitsForRow, Asked, WaitsForInsert, Playing
  <2> QED
    BY <2>1, <2>2 DEF LoginTypeOK, LoginInv, SlotInv, TableInv, WorkerInv
<1> QED
  BY <1>1, LoginInductive, WorkerInductive, PTL
=============================================================================
