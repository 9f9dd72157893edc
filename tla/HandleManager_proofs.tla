------------------------ MODULE HandleManager_proofs ------------------------
(***************************************************************************)
(* Proofs about HandleManager, for any number of handles, any size of the  *)
(* pools and any number of ids, and about Options, for any number of       *)
(* instances and whatever is said.                                         *)
(***************************************************************************)
EXTENDS HandleManager, Options, Induction

ObjectRecord ==
    [state : {"unused", "open", "closing", "deleted"}, id : 0 .. MaxId,
     database : Database \union {None}, size : 0 .. MaxPool,
     current : Slot \union {2}, agreed : BOOLEAN]

ConnRecord ==
    [charset : Charset, queued : 0 .. Capacity, inHand : {0, 1},
     given : 0 .. MaxGiven, started : BOOLEAN]

NativeRecord ==
    [op : {"none", "count", "counted", "charset", "close"},
     object : Object \union {None}, at : Slot, charset : Charset,
     sum : Nat, before : [Slot -> Nat]]

HandlesType ==
    /\ DOMAIN handles \subseteq HandleId
    /\ \A i \in DOMAIN handles : handles[i] \in Object

(***************************************************************************)
(* Where the server thread is, and where the ring is: what the types of    *)
(* the other variables rest on.                                            *)
(***************************************************************************)
NativeInv ==
    native.op # "none" =>
       /\ native.object \in Object
       /\ native.at \in Slots(native.object)
       /\ native.op \in {"count", "counted"} => native.at # Main
       /\ object[native.object].state = IF native.op = "close" THEN "closing"
                                                                ELSE "open"

RingInv ==
    \A o \in Object : object[o].size # 0 => object[o].current \in Ring(o)

TypeInv == TypeOK /\ NativeInv /\ RingInv

LEMMA Types ==
    TypeOK <=> /\ object \in [Object -> ObjectRecord]
               /\ conn \in [Object -> [Slot -> ConnRecord]]
               /\ native \in NativeRecord
               /\ HandlesType
               /\ duplicates \in BOOLEAN /\ created \in BOOLEAN
BY DEF TypeOK, ObjectType, ConnType, NativeType, HandlesType, ObjectRecord,
       ConnRecord, NativeRecord

LEMMA TypesNext ==
    ASSUME object' \in [Object -> ObjectRecord],
           conn' \in [Object -> [Slot -> ConnRecord]],
           native' \in NativeRecord, HandlesType',
           duplicates' \in BOOLEAN, created' \in BOOLEAN
    PROVE  TypeOK'
BY DEF TypeOK, ObjectType, ConnType, NativeType, HandlesType, ObjectRecord,
       ConnRecord, NativeRecord

LEMMA SlotFacts ==
    /\ Main \in Slot /\ Threaded \in Slot /\ Slot \subseteq Nat
    /\ Main # Threaded
BY PoolAssumption DEF Main, Threaded, Slot

LEMMA NewTypes ==
    /\ NewObject \in ObjectRecord
    /\ NewConn \in ConnRecord
    /\ [k \in Slot |-> NewConn] \in [Slot -> ConnRecord]
    /\ NoNative \in NativeRecord
<1>1. NewObject \in ObjectRecord
  BY IdAssumption, PoolAssumption DEF NewObject, ObjectRecord
<1>2. NewConn \in ConnRecord
  BY CharsetAssumption, QueueAssumption DEF NewConn, ConnRecord
<1>3. NoNative \in NativeRecord
  BY CharsetAssumption, SlotFacts DEF NoNative, NativeRecord
<1> QED
  BY <1>1, <1>2, <1>3

LEMMA InitTypes == Init => TypeInv
<1> SUFFICES ASSUME Init PROVE TypeInv
  OBVIOUS
<1>1. TypeOK
  BY NewTypes, Types DEF Init, HandleInit, HandlesType
<1>2. NativeInv
  BY DEF Init, HandleInit, NoNative, NativeInv
<1>3. RingInv
  BY DEF Init, HandleInit, NewObject, RingInv
<1> QED
  BY <1>1, <1>2, <1>3 DEF TypeInv

\* The slots of an object, and the ring.
LEMMA RingFacts ==
    ASSUME TypeOK, RingInv, NEW o \in Object
    PROVE  /\ Slots(o) \subseteq Slot /\ Workers(o) \subseteq Slots(o)
           /\ Main \in Slots(o) /\ Threaded \in Slots(o)
           /\ \A k \in Ring(o) : RingNext(o, k) \in Ring(o)
           /\ Ring(o) \subseteq Slots(o)
           /\ Slots(o) = {Main, Threaded} \union Ring(o)
           /\ Main \notin Ring(o) /\ Threaded \notin Ring(o)
           /\ object[o].size # 0 => object[o].current \in Ring(o)
           /\ object[o].size = 0 => Ring(o) = {}
<1>1. object[o].size \in 0 .. MaxPool
  BY Types DEF ObjectRecord
<1> QED
  BY <1>1, PoolAssumption
  DEF RingInv, Slots, Workers, Ring, Slot, Main, Threaded, RingNext

\* A native that is not at the last connection goes on to another one.
LEMMA FollowingFacts ==
    ASSUME TypeOK, RingInv, NEW o \in Object, NEW k \in Slots(o), ~IsLast(o, k)
    PROVE  /\ Following(o, k) \in Slots(o)
           /\ Following(o, k) # Main
BY RingFacts, SlotFacts DEF IsLast, Following

-----------------------------------------------------------------------------
(***************************************************************************)
(* Type correctness, action by action.                                     *)
(***************************************************************************)

\* A step of a native or a worker: the manager's variables stay as they are.
Inner ==
    /\ \/ \E i \in DOMAIN handles : HandleNative(handles[i])
       \/ NativeGoesOn
       \/ \E o \in Object : \E k \in Workers(o) : WorkerStep(o, k)
    /\ UNCHANGED managerVars

LEMMA ConnectType ==
    ASSUME TypeInv, NEW o \in Object, NEW database \in Database,
           NEW size \in 0 .. MaxPool, Connect(o, database, size)
    PROVE  TypeInv'
<1>1. PICK i \in HandleId :
         /\ object' = [object EXCEPT ![o] =
                          [NewObject EXCEPT !.state = "open", !.id = i,
                                            !.database = database, !.size = size]]
         /\ handles' = [x \in DOMAIN handles \union {i} |->
                           IF x \in DOMAIN handles THEN handles[x] ELSE o]
  BY DEF Connect
<1>2. /\ ScriptRuns /\ UNCHANGED <<conn, native, duplicates>>
      /\ created' = (created \/ duplicates)
  BY DEF Connect
<1> DEFINE new == [NewObject EXCEPT !.state = "open", !.id = i,
                                    !.database = database, !.size = size]
<1>3. new \in ObjectRecord /\ new.size = size /\ new.current = 2
  <2>1. i \in 0 .. MaxId
    BY IdAssumption DEF HandleId
  <2>2. NewObject \in ObjectRecord /\ NewObject.current = 2
    BY NewTypes DEF NewObject
  <2> QED
    BY <2>1, <2>2 DEF ObjectRecord
<1>4. object' = [object EXCEPT ![o] = new]
  BY <1>1
<1> HIDE DEF new
<1>5. object \in [Object -> ObjectRecord] /\ object' \in [Object -> ObjectRecord]
  BY <1>3, <1>4, Types DEF TypeInv
<1>6. HandlesType'
  BY <1>1, Types DEF TypeInv, HandlesType
<1>7. TypeOK'
  BY <1>2, <1>5, <1>6, Types, TypesNext DEF TypeInv
<1>8. NativeInv'
  BY <1>2 DEF ScriptRuns, NoNative, NativeInv
<1>9. RingInv'
  <2>1. ASSUME NEW x \in Object, object'[x].size # 0
        PROVE  object'[x].current \in 2 .. object'[x].size + 1
    <3>1. CASE x = o
      <4>1. object'[x].size = size /\ object'[x].current = 2
        BY <1>3, <1>4, <1>5, <3>1
      <4> QED
        BY <2>1, <4>1, PoolAssumption
    <3>2. CASE x # o
      BY <2>1, <3>2, <1>4, <1>5 DEF TypeInv, RingInv, Ring
    <3> QED
      BY <3>1, <3>2
  <2> QED
    BY <2>1 DEF RingInv, Ring
<1> QED
  BY <1>7, <1>8, <1>9 DEF TypeInv

LEMMA CloseType ==
    ASSUME TypeInv, NEW i \in HandleId, Close(i)
    PROVE  TypeInv'
<1> DEFINE o == handles[i]
           new == [object[o] EXCEPT !.state = "closing"]
<1>1. /\ i \in DOMAIN handles
      /\ handles' = [x \in DOMAIN handles \ {object[o].id} |-> handles[x]]
      /\ object' = [object EXCEPT ![o].state = "closing"]
      /\ Begin("close", o, Main, DefaultCharset)
      /\ UNCHANGED <<conn, duplicates, created>>
  BY DEF Close
<1>2. o \in Object
  BY <1>1, Types DEF TypeInv, HandlesType
<1>3. object \in [Object -> ObjectRecord] /\ object[o] \in ObjectRecord
  BY <1>2, Types DEF TypeInv
<1>4. /\ new \in ObjectRecord /\ new.size = object[o].size
      /\ new.current = object[o].current /\ new.state = "closing"
  BY <1>3 DEF ObjectRecord
<1>5. object' = [object EXCEPT ![o] = new]
  BY <1>1, <1>2, <1>3
<1>6. HandlesType'
  BY <1>1, Types DEF TypeInv, HandlesType
<1>7. /\ native' \in NativeRecord
      /\ native'.object = o /\ native'.at = Main /\ native'.op = "close"
  BY <1>1, <1>2, NewTypes, CharsetAssumption, SlotFacts
  DEF Begin, NativeRecord, NoNative
<1> HIDE DEF new, o
<1>8. TypeOK'
  <2>1. object' \in [Object -> ObjectRecord]
    BY <1>3, <1>4, <1>5
  <2> QED
    BY <1>1, <1>6, <1>7, <2>1, Types, TypesNext DEF TypeInv
<1>9. RingInv'
  BY <1>2, <1>3, <1>4, <1>5 DEF TypeInv, RingInv, Ring
<1>10. NativeInv'
  <2>1. object'[o].state = "closing"
    BY <1>2, <1>3, <1>4, <1>5
  <2>2. object'[o].size \in Nat
    BY <1>2, <1>3, <1>4, <1>5, PoolAssumption DEF ObjectRecord
  <2> QED
    BY <1>2, <1>7, <2>1, <2>2 DEF NativeInv, Slots, Main
<1> QED
  BY <1>8, <1>9, <1>10 DEF TypeInv

\* Only the connections change.
LEMMA ConnOnly ==
    ASSUME TypeInv, conn' \in [Object -> [Slot -> ConnRecord]],
           UNCHANGED <<object, native, managerVars>>
    PROVE  TypeInv'
<1>1. TypeOK'
  BY Types, TypesNext DEF TypeInv, managerVars, HandlesType
<1>2. NativeInv' /\ RingInv'
  BY DEF TypeInv, NativeInv, RingInv, Slots, Ring
<1> QED
  BY <1>1, <1>2 DEF TypeInv

\* Only what the server thread does changes.
LEMMA NativeOnly ==
    ASSUME TypeInv, native' \in NativeRecord, NativeInv',
           UNCHANGED <<object, conn, managerVars>>
    PROVE  TypeInv'
<1>1. TypeOK'
  BY Types, TypesNext DEF TypeInv, managerVars, HandlesType
<1>2. RingInv'
  BY DEF TypeInv, RingInv, Ring
<1> QED
  BY <1>1, <1>2 DEF TypeInv

LEMMA QueueTypes ==
    ASSUME TypeInv, NEW o \in Object, NEW k \in Slot, Queue(o, k)
    PROVE  conn' \in [Object -> [Slot -> ConnRecord]]
<1> DEFINE c == conn[o][k]
           new == [c EXCEPT !.given = @ + 1,
                            !.queued = IF @ < Capacity THEN @ + 1 ELSE @]
<1>1. conn \in [Object -> [Slot -> ConnRecord]] /\ c \in ConnRecord
  BY Types DEF TypeInv
<1>2. /\ c.given \in 0 .. MaxGiven /\ c.given < MaxGiven
      /\ c.queued \in 0 .. Capacity
  BY <1>1 DEF Queue, ConnRecord
<1>3. new \in ConnRecord
  <2>1. c.given + 1 \in 0 .. MaxGiven
    BY <1>2, QueueAssumption
  <2>2. (IF c.queued < Capacity THEN c.queued + 1 ELSE c.queued) \in 0 .. Capacity
    BY <1>2, QueueAssumption
  <2> QED
    BY <1>1, <2>1, <2>2 DEF ConnRecord
<1>4. conn' = [conn EXCEPT ![o] = [conn[o] EXCEPT ![k] = new]]
  BY <1>1 DEF Queue
<1> HIDE DEF new, c
<1> QED
  BY <1>1, <1>3, <1>4

LEMMA HandleNativeStep ==
    ASSUME TypeInv, NEW o \in Object, IsOpen(o), HandleNative(o),
           UNCHANGED managerVars
    PROVE  TypeInv'
<1>0. TypeOK /\ RingInv
  BY DEF TypeInv
<1>1. CASE TQuery(o)
  BY <1>1, QueueTypes, ConnOnly, SlotFacts DEF TQuery
<1>2. CASE PQuery(o)
  <2> DEFINE r == object[o]
             new == [r EXCEPT !.current = RingNext(o, @)]
  <2>1. /\ r.size # 0 /\ Queue(o, r.current) /\ native' = native
        /\ object' = [object EXCEPT ![o].current = RingNext(o, @)]
    BY <1>2 DEF PQuery
  <2>2. r.current \in Ring(o) /\ RingNext(o, r.current) \in Ring(o)
        /\ Ring(o) \subseteq Slot
    BY <1>0, <2>1, RingFacts
  <2>3. conn' \in [Object -> [Slot -> ConnRecord]]
    BY <2>1, <2>2, QueueTypes
  <2>4. object \in [Object -> ObjectRecord] /\ r \in ObjectRecord
    BY <1>0, Types
  <2>5. /\ new \in ObjectRecord /\ new.size = r.size /\ new.state = r.state
        /\ new.current = RingNext(o, r.current)
    BY <2>2, <2>4 DEF ObjectRecord
  <2>6. object' = [object EXCEPT ![o] = new]
    BY <2>1, <2>4
  <2>7. new.current \in Ring(o)
    BY <2>2, <2>5
  <2> HIDE DEF new
  <2>8. TypeOK'
    <3>1. object' \in [Object -> ObjectRecord]
      BY <2>4, <2>5, <2>6
    <3> QED
      BY <1>0, <2>1, <2>3, <3>1, Types, TypesNext DEF managerVars, HandlesType
  <2>9. RingInv'
    BY <1>0, <2>4, <2>5, <2>6, <2>7 DEF RingInv, Ring
  <2>10. NativeInv'
    BY <1>2 DEF PQuery, ScriptRuns, NoNative, NativeInv
  <2> QED
    BY <2>8, <2>9, <2>10 DEF TypeInv
<1>3. CASE CountBegin(o)
  <2> DEFINE before == Counters(o)
  <2>1. before \in [Slot -> Nat]
    <3>1. ASSUME NEW k \in Slot PROVE Unprocessed(o, k) \in Nat
      <4>1. conn[o][k] \in ConnRecord
        BY <1>0, Types
      <4> QED
        BY <4>1, QueueAssumption DEF ConnRecord, Unprocessed
    <3> QED
      BY <3>1 DEF Counters
  <2>2. native' = [NoNative EXCEPT !.op = "count", !.object = o, !.at = Threaded,
                                   !.before = before]
        /\ UNCHANGED <<object, conn>>
    BY <1>3 DEF CountBegin
  <2> HIDE DEF before
  <2>3. /\ native' \in NativeRecord /\ native'.op = "count"
        /\ native'.object = o /\ native'.at = Threaded
    BY <2>1, <2>2, NewTypes, SlotFacts DEF NoNative, NativeRecord
  <2>4. NativeInv'
    BY <1>0, <2>2, <2>3, RingFacts, SlotFacts DEF NativeInv, IsOpen, Slots
  <2> QED
    BY <2>2, <2>3, <2>4, NativeOnly
<1>4. ASSUME NEW charset \in Charset, CharsetBegin(o, charset)
      PROVE  TypeInv'
  <2>1. native' = [NoNative EXCEPT !.op = "charset", !.object = o, !.at = Main,
                                   !.charset = charset]
        /\ UNCHANGED <<object, conn>>
    BY <1>4 DEF CharsetBegin, Begin
  <2>2. /\ native' \in NativeRecord /\ native'.op = "charset"
        /\ native'.object = o /\ native'.at = Main
    BY <2>1, NewTypes, SlotFacts DEF NoNative, NativeRecord
  <2>3. NativeInv'
    BY <1>0, <2>1, <2>2, RingFacts, SlotFacts DEF NativeInv, IsOpen, Slots
  <2> QED
    BY <2>1, <2>2, <2>3, NativeOnly
<1> QED
  BY <1>1, <1>2, <1>3, <1>4 DEF HandleNative

LEMMA WorkerType ==
    ASSUME TypeInv, NEW o \in Object, NEW k \in Workers(o), WorkerStep(o, k),
           UNCHANGED managerVars
    PROVE  TypeInv'
<1> DEFINE c == conn[o][k]
<1>0. k \in Slot
  BY RingFacts DEF TypeInv
<1>1. conn \in [Object -> [Slot -> ConnRecord]] /\ c \in ConnRecord
  BY <1>0, Types DEF TypeInv
<1>2. CASE WorkerTake(o, k)
  <2> DEFINE new == [c EXCEPT !.queued = @ - 1, !.inHand = 1, !.started = TRUE]
  <2>1. c.queued - 1 \in 0 .. Capacity
    BY <1>1, <1>2, QueueAssumption DEF WorkerTake, ConnRecord
  <2>2. new \in ConnRecord
    BY <1>1, <2>1 DEF ConnRecord
  <2>3. conn' = [conn EXCEPT ![o] = [conn[o] EXCEPT ![k] = new]]
    BY <1>0, <1>1, <1>2 DEF WorkerTake
  <2> HIDE DEF new, c
  <2>4. conn' \in [Object -> [Slot -> ConnRecord]]
    BY <1>0, <1>1, <2>2, <2>3
  <2> QED
    BY <1>2, <2>4, ConnOnly DEF WorkerTake
<1>3. CASE WorkerFinish(o, k)
  <2> DEFINE new == [c EXCEPT !.inHand = 0]
  <2>2. new \in ConnRecord
    BY <1>1 DEF ConnRecord
  <2>3. conn' = [conn EXCEPT ![o] = [conn[o] EXCEPT ![k] = new]]
    BY <1>0, <1>1, <1>3 DEF WorkerFinish
  <2> HIDE DEF new, c
  <2>4. conn' \in [Object -> [Slot -> ConnRecord]]
    BY <1>0, <1>1, <2>2, <2>3
  <2> QED
    BY <1>3, <2>4, ConnOnly DEF WorkerFinish
<1> QED
  BY <1>2, <1>3 DEF WorkerStep

\* The members of one object become r; its ring keeps its size.
LEMMA ObjectUpdate ==
    ASSUME TypeInv, NEW o \in Object, NEW r \in ObjectRecord,
           object' = [object EXCEPT ![o] = r],
           conn' \in [Object -> [Slot -> ConnRecord]], native' \in NativeRecord,
           r.size # 0 => r.current \in 2 .. r.size + 1,
           UNCHANGED managerVars
    PROVE  /\ TypeOK' /\ RingInv'
           /\ object'[o] = r
           /\ \A x \in Object : x # o => object'[x] = object[x]
<1>1. object \in [Object -> ObjectRecord] /\ object' \in [Object -> ObjectRecord]
  BY Types DEF TypeInv
<1>2. TypeOK'
  BY <1>1, Types, TypesNext DEF TypeInv, managerVars, HandlesType
<1>3. object'[o] = r /\ \A x \in Object : x # o => object'[x] = object[x]
  BY <1>1
<1>4. RingInv'
  BY <1>3 DEF TypeInv, RingInv, Ring
<1> QED
  BY <1>2, <1>3, <1>4

\* The connection in one slot becomes c.
LEMMA ConnUpdate ==
    ASSUME TypeInv, NEW o \in Object, NEW k \in Slot, NEW c \in ConnRecord
    PROVE  [conn EXCEPT ![o] = [conn[o] EXCEPT ![k] = c]]
              \in [Object -> [Slot -> ConnRecord]]
BY Types DEF TypeInv

\* The native the server thread is in.
LEMMA NativeFacts ==
    ASSUME TypeInv, native.op # "none"
    PROVE  /\ native \in NativeRecord
           /\ native.object \in Object /\ native.at \in Slots(native.object)
           /\ native.at \in Slot
           /\ object[native.object] \in ObjectRecord
           /\ conn[native.object][native.at] \in ConnRecord
           /\ ~IsLast(native.object, native.at) =>
                 /\ Following(native.object, native.at) \in Slots(native.object)
                 /\ Following(native.object, native.at) \in Slot
                 /\ Following(native.object, native.at) # Main
<1>1. native.object \in Object /\ native.at \in Slots(native.object)
  BY DEF TypeInv, NativeInv
<1>2. Slots(native.object) \subseteq Slot
  BY <1>1, RingFacts DEF TypeInv
<1>3. ~IsLast(native.object, native.at) =>
         /\ Following(native.object, native.at) \in Slots(native.object)
         /\ Following(native.object, native.at) # Main
  BY <1>1, FollowingFacts DEF TypeInv
<1> QED
  BY <1>1, <1>2, <1>3, Types DEF TypeInv

\* NativeInv for a native that goes on, or ends.
LEMMA NativeGoesOnInv ==
    ASSUME NEW o \in Object,
           \/ native'.op = "none"
           \/ /\ native'.op \in {"count", "counted", "charset", "close"}
              /\ native'.object = o
              /\ native'.at \in 0 .. object'[o].size + 1
              /\ native'.op \in {"count", "counted"} => native'.at # Main
              /\ object'[o].state = IF native'.op = "close" THEN "closing" ELSE "open"
    PROVE  NativeInv'
BY DEF NativeInv, Slots

LEMMA GoesOnType ==
    ASSUME TypeInv, NativeGoesOn, UNCHANGED managerVars
    PROVE  TypeInv'
<1> DEFINE o == native.object
           k == native.at
           next == [native EXCEPT !.at = Following(o, k)]
<1>0. native.op # "none"
  BY DEF NativeGoesOn, CountNext, CountReturn, CharsetNext, CharsetFail, DestroyNext
<1>1. /\ native \in NativeRecord /\ o \in Object /\ k \in Slot
      /\ k \in 0 .. object[o].size + 1
      /\ object[o] \in ObjectRecord /\ conn[o][k] \in ConnRecord
      /\ object[o].size # 0 => object[o].current \in 2 .. object[o].size + 1
  BY <1>0, NativeFacts DEF TypeInv, RingInv, Ring, Slots
<1>2. object[o].state = IF native.op = "close" THEN "closing" ELSE "open"
  BY <1>0 DEF TypeInv, NativeInv
<1>3. ~IsLast(o, k) =>
         /\ next \in NativeRecord /\ next.op = native.op /\ next.object = o
         /\ next.at \in 0 .. object[o].size + 1 /\ next.at # Main
  BY <1>0, <1>1, NativeFacts DEF NativeRecord, Slots
<1>4. NoNative \in NativeRecord /\ NoNative.op = "none"
  BY NewTypes DEF NoNative
<1> HIDE DEF next
<1>5. CASE CountNext
  <2> DEFINE last == IsLast(o, k)
             sum == native.sum + Unprocessed(o, k)
             op == IF last THEN "counted" ELSE native.op
             at == IF last THEN native.at ELSE Following(o, k)
  <2>1. /\ native' = [native EXCEPT !.sum = sum, !.op = op, !.at = at]
        /\ native.op = "count" /\ UNCHANGED <<object, conn>>
    BY <1>1, <1>5 DEF CountNext, NativeRecord
  <2>2. sum \in Nat
    <3>1. Unprocessed(o, k) \in Nat
      BY <1>1, QueueAssumption DEF ConnRecord, Unprocessed
    <3>2. native.sum \in Nat
      BY <1>1 DEF NativeRecord
    <3> QED
      BY <3>1, <3>2
  <2>3. at \in Slot /\ at \in 0 .. object[o].size + 1 /\ at # Main
    <3>1. native.at # Main
      BY <2>1 DEF TypeInv, NativeInv
    <3>2. CASE last
      BY <1>1, <3>1, <3>2
    <3>3. CASE ~last
      BY <1>0, <3>3, NativeFacts DEF Slots
    <3> QED
      BY <3>2, <3>3
  <2>4. op \in {"count", "counted"}
    BY <2>1
  <2> HIDE DEF last, sum, op, at
  <2>5. /\ native' \in NativeRecord /\ native'.object = o
        /\ native'.op = op /\ native'.at = at
    BY <1>1, <2>1, <2>2, <2>3, <2>4 DEF NativeRecord
  <2>6. object[o].state = "open"
    BY <1>2, <2>1
  <2>7. NativeInv'
    BY <1>1, <2>1, <2>3, <2>4, <2>5, <2>6, NativeGoesOnInv
  <2> QED
    BY <2>1, <2>5, <2>7, NativeOnly
<1>6. CASE CountReturn
  <2>1. native' = NoNative /\ UNCHANGED <<object, conn>>
    BY <1>6 DEF CountReturn
  <2> QED
    BY <1>1, <1>4, <2>1, NativeGoesOnInv, NativeOnly
<1>7. CASE CharsetNext
  <2> DEFINE c == [conn[o][k] EXCEPT !.charset = native.charset]
             r == [object[o] EXCEPT !.agreed = IF IsLast(o, k) THEN TRUE ELSE @]
  <2>1. /\ conn' = [conn EXCEPT ![o][k].charset = native.charset]
        /\ object' = [object EXCEPT ![o].agreed = IF IsLast(o, k) THEN TRUE ELSE @]
        /\ native' = IF IsLast(o, k) THEN NoNative ELSE next
        /\ native.op = "charset"
    BY <1>7 DEF CharsetNext, next
  <2>2. c \in ConnRecord
    BY <1>1 DEF ConnRecord, NativeRecord
  <2>3. /\ r \in ObjectRecord /\ r.size = object[o].size
        /\ r.current = object[o].current /\ r.state = object[o].state
    <3> HIDE DEF k, o
    <3>1. (IF IsLast(o, k) THEN TRUE ELSE object[o].agreed) \in BOOLEAN
      BY <1>1 DEF ObjectRecord
    <3> QED
      BY <1>1, <3>1 DEF ObjectRecord
  <2>4. conn' = [conn EXCEPT ![o] = [conn[o] EXCEPT ![k] = c]]
    BY <1>1, <2>1, Types DEF TypeInv
  <2>5. object' = [object EXCEPT ![o] = r]
    BY <1>1, <2>1, Types DEF TypeInv
  <2> HIDE DEF c, r
  <2>6. conn' \in [Object -> [Slot -> ConnRecord]]
    BY <1>1, <2>2, <2>4, ConnUpdate
  <2>7. native' \in NativeRecord
    BY <1>3, <1>4, <2>1
  <2>8. TypeOK' /\ RingInv' /\ object'[o] = r
    BY <1>1, <2>3, <2>5, <2>6, <2>7, ObjectUpdate
  <2>9. NativeInv'
    BY <1>1, <1>2, <1>3, <1>4, <2>1, <2>3, <2>8, NativeGoesOnInv
  <2> QED
    BY <2>8, <2>9 DEF TypeInv
<1>8. CASE CharsetFail
  <2> DEFINE r == [object[o] EXCEPT !.agreed = @ /\ native.at = Main]
  <2>1. /\ object' = [object EXCEPT ![o].agreed = @ /\ native.at = Main]
        /\ native' = NoNative /\ conn' = conn
    BY <1>8 DEF CharsetFail
  <2>3. /\ r \in ObjectRecord /\ r.size = object[o].size
        /\ r.current = object[o].current
    <3> HIDE DEF k, o
    <3>1. (object[o].agreed /\ native.at = Main) \in BOOLEAN
      BY <1>1 DEF ObjectRecord
    <3> QED
      BY <1>1, <3>1 DEF ObjectRecord
  <2>5. object' = [object EXCEPT ![o] = r]
    BY <1>1, <2>1, Types DEF TypeInv
  <2> HIDE DEF r
  <2>8. TypeOK' /\ RingInv'
    BY <1>1, <1>4, <2>1, <2>3, <2>5, ObjectUpdate, Types DEF TypeInv
  <2>9. NativeInv'
    BY <1>1, <1>4, <2>1, NativeGoesOnInv
  <2> QED
    BY <2>8, <2>9 DEF TypeInv
<1>9. CASE DestroyNext
  <2> DEFINE r == IF IsLast(o, k) THEN [NewObject EXCEPT !.state = "deleted"]
                                  ELSE object[o]
  <2>1. /\ conn' = [conn EXCEPT ![o][k] = NewConn]
        /\ native' = IF IsLast(o, k) THEN NoNative ELSE next
        /\ object' = IF IsLast(o, k)
                     THEN [object EXCEPT ![o] = [NewObject EXCEPT !.state = "deleted"]]
                     ELSE object
        /\ native.op = "close"
    BY <1>9 DEF DestroyNext, next
  <2>2. conn' = [conn EXCEPT ![o] = [conn[o] EXCEPT ![k] = NewConn]]
    BY <1>1, <2>1, Types DEF TypeInv
  <2>3. conn' \in [Object -> [Slot -> ConnRecord]]
    BY <1>1, <2>2, NewTypes, ConnUpdate
  <2>4. [NewObject EXCEPT !.state = "deleted"] \in ObjectRecord
        /\ [NewObject EXCEPT !.state = "deleted"].size = 0
    <3>1. NewObject \in ObjectRecord /\ NewObject.size = 0
      BY NewTypes DEF NewObject
    <3> QED
      BY <3>1 DEF ObjectRecord
  <2>5. r \in ObjectRecord /\ (r.size # 0 => r.current \in 2 .. r.size + 1)
    BY <1>1, <2>4
  <2>6. object' = [object EXCEPT ![o] = r]
    BY <1>1, <2>1, Types DEF TypeInv
  <2>7. ~IsLast(o, k) => r = object[o]
    OBVIOUS
  <2> HIDE DEF r
  <2>8. TypeOK' /\ RingInv' /\ object'[o] = r
    BY <1>1, <1>3, <1>4, <2>1, <2>3, <2>5, <2>6, ObjectUpdate
  <2>9. NativeInv'
    BY <1>1, <1>2, <1>3, <1>4, <2>1, <2>7, <2>8, NativeGoesOnInv
  <2> QED
    BY <2>8, <2>9 DEF TypeInv
<1> QED
  BY <1>5, <1>6, <1>7, <1>8, <1>9 DEF NativeGoesOn

LEMMA NextType == TypeInv /\ [Next]_vars => TypeInv'
<1> SUFFICES ASSUME TypeInv, [Next]_vars PROVE TypeInv'
  OBVIOUS
<1>1. ASSUME NEW o \in Object, NEW database \in Database,
             NEW size \in 0 .. MaxPool, Connect(o, database, size)
      PROVE  TypeInv'
  BY <1>1, ConnectType
<1>2. ASSUME NEW i \in HandleId, Close(i) PROVE TypeInv'
  BY <1>2, CloseType
<1>3. ASSUME NEW value \in BOOLEAN, SetDuplicates(value) PROVE TypeInv'
  <2>1. TypeOK'
    BY <1>3, Types, TypesNext DEF TypeInv, SetDuplicates, handleVars, HandlesType
  <2> QED
    BY <1>3, <2>1
    DEF SetDuplicates, handleVars, TypeInv, NativeInv, RingInv, Slots, Ring
<1>4. CASE Inner
  <2>1. ASSUME NEW i \in DOMAIN handles, HandleNative(handles[i]) PROVE TypeInv'
    <3>1. handles[i] \in Object
      BY Types DEF TypeInv, HandlesType
    <3>2. IsOpen(handles[i])
      BY <2>1 DEF HandleNative, TQuery, PQuery, CountBegin, CharsetBegin
    <3> QED
      BY <1>4, <2>1, <3>1, <3>2, HandleNativeStep DEF Inner
  <2>2. CASE NativeGoesOn
    BY <1>4, <2>2, GoesOnType DEF Inner
  <2>3. ASSUME NEW o \in Object, NEW k \in Workers(o), WorkerStep(o, k)
        PROVE  TypeInv'
    BY <1>4, <2>3, WorkerType DEF Inner
  <2> QED
    BY <1>4, <2>1, <2>2, <2>3 DEF Inner
<1>5. CASE UNCHANGED vars
  BY <1>5, Types, TypesNext
  DEF vars, handleVars, managerVars, TypeInv, NativeInv, RingInv, Slots, Ring,
      HandlesType
<1> QED
  BY <1>1, <1>2, <1>3, <1>4, <1>5 DEF Next, Inner

\* Every variable has its type in every reachable state.
THEOREM TypeCorrect == Spec => []TypeOK
<1>1. TypeInv => TypeOK
  BY DEF TypeInv
<1> QED
  BY <1>1, InitTypes, NextType, PTL DEF Spec
-----------------------------------------------------------------------------
(***************************************************************************)
(* The ids.                                                                *)
(***************************************************************************)

\* What the steps of natives and workers leave alone.
LEMMA InnerFrame ==
    ASSUME TypeInv, Inner
    PROVE  /\ UNCHANGED <<handles, duplicates, created>>
           /\ \A o \in Object :
                 IF object[o].state = "closing"
                 THEN object'[o].state \in {"closing", "deleted"}
                 ELSE /\ object'[o].state = object[o].state
                      /\ object'[o].id = object[o].id
                      /\ object'[o].database = object[o].database
                      /\ object'[o].size = object[o].size
<1>1. object \in [Object -> ObjectRecord]
  BY Types DEF TypeInv
<1>2. UNCHANGED <<handles, duplicates, created>>
  BY DEF Inner, managerVars
<1> SUFFICES ASSUME NEW o \in Object
             PROVE  IF object[o].state = "closing"
                    THEN object'[o].state \in {"closing", "deleted"}
                    ELSE /\ object'[o].state = object[o].state
                         /\ object'[o].id = object[o].id
                         /\ object'[o].database = object[o].database
                         /\ object'[o].size = object[o].size
  BY <1>2
<1>3. CASE object' = object
  BY <1>3
<1>4. ASSUME NEW p \in Object, PQuery(p)
      PROVE  /\ object'[o].state = object[o].state
             /\ object'[o].id = object[o].id
             /\ object'[o].database = object[o].database
             /\ object'[o].size = object[o].size
  <2>1. object' = [object EXCEPT ![p].current = RingNext(p, @)]
    BY <1>4 DEF PQuery
  <2>2. object'[o] = IF o = p THEN [object[o] EXCEPT !.current = RingNext(p, @)]
                              ELSE object[o]
    BY <1>1, <2>1
  <2>3. object[o] \in ObjectRecord
    BY <1>1
  <2> QED
    BY <2>2, <2>3 DEF ObjectRecord
<1>5. CASE CharsetNext \/ CharsetFail
  <2>1. PICK b :
           object' = [object EXCEPT ![native.object] = [@ EXCEPT !.agreed = b]]
    <3>1. CASE CharsetNext
      BY <3>1 DEF CharsetNext
    <3>2. CASE CharsetFail
      BY <3>2 DEF CharsetFail
    <3> QED
      BY <1>5, <3>1, <3>2
  <2>2. object'[o] = IF o = native.object THEN [object[o] EXCEPT !.agreed = b]
                                          ELSE object[o]
    BY <1>1, <2>1
  <2>3. object[o] \in ObjectRecord
    BY <1>1
  <2> QED
    BY <2>2, <2>3 DEF ObjectRecord
<1>6. CASE DestroyNext
  <2>1. native.op = "close"
    BY <1>6 DEF DestroyNext
  <2>2. native.object \in Object /\ object[native.object].state = "closing"
    BY <2>1 DEF TypeInv, NativeInv
  <2>3. \/ object' = object
        \/ object' = [object EXCEPT ![native.object] =
                         [NewObject EXCEPT !.state = "deleted"]]
    BY <1>6 DEF DestroyNext
  <2>4. [NewObject EXCEPT !.state = "deleted"].state = "deleted"
    BY DEF NewObject
  <2> QED
    BY <1>1, <2>2, <2>3, <2>4
<1>7. \A i \in DOMAIN handles : handles[i] \in Object
  BY Types DEF TypeInv, HandlesType
<1> QED
  BY <1>3, <1>4, <1>5, <1>6, <1>7
  DEF Inner, HandleNative, NativeGoesOn, TQuery, CountBegin, CharsetBegin,
      CountNext, CountReturn, WorkerStep, WorkerTake, WorkerFinish

\* What mysql_connect does to the objects.
LEMMA ConnectFacts ==
    ASSUME TypeInv, NEW o \in Object, NEW database \in Database,
           NEW size \in 0 .. MaxPool, Connect(o, database, size)
    PROVE  \E i \in HandleId :
             /\ i \notin DOMAIN handles
             /\ handles' = [x \in DOMAIN handles \union {i} |->
                               IF x \in DOMAIN handles THEN handles[x] ELSE o]
             /\ object[o].state = "unused"
             /\ object'[o].state = "open" /\ object'[o].id = i
             /\ object'[o].database = database /\ object'[o].size = size
             /\ object'[o].current = 2 /\ object'[o].agreed = TRUE
             /\ \A p \in Object : p # o => object'[p] = object[p]
<1>1. PICK i \in HandleId :
         /\ IsNewId(i)
         /\ object' = [object EXCEPT ![o] =
                          [NewObject EXCEPT !.state = "open", !.id = i,
                                            !.database = database, !.size = size]]
         /\ handles' = [x \in DOMAIN handles \union {i} |->
                           IF x \in DOMAIN handles THEN handles[x] ELSE o]
  BY DEF Connect
<1>2. object \in [Object -> ObjectRecord] /\ object[o].state = "unused"
  BY Types DEF TypeInv, Connect
<1>3. object'[o] = [NewObject EXCEPT !.state = "open", !.id = i,
                                     !.database = database, !.size = size]
      /\ \A p \in Object : p # o => object'[p] = object[p]
  BY <1>1, <1>2
<1>4. /\ object'[o].state = "open" /\ object'[o].id = i
      /\ object'[o].database = database /\ object'[o].size = size
      /\ object'[o].current = 2 /\ object'[o].agreed = TRUE
  BY <1>3 DEF NewObject
<1> QED
  BY <1>1, <1>2, <1>3, <1>4 DEF IsNewId

\* What mysql_close does to them.
LEMMA CloseFacts ==
    ASSUME TypeInv, NEW i \in HandleId, Close(i)
    PROVE  /\ i \in DOMAIN handles /\ handles[i] \in Object
           /\ handles' = [x \in DOMAIN handles \ {object[handles[i]].id} |-> handles[x]]
           /\ object'[handles[i]].state = "closing"
           /\ \A p \in Object : p # handles[i] => object'[p] = object[p]
           /\ native'.op = "close" /\ native.op = "none"
<1>1. /\ i \in DOMAIN handles
      /\ handles' = [x \in DOMAIN handles \ {object[handles[i]].id} |-> handles[x]]
      /\ object' = [object EXCEPT ![handles[i]].state = "closing"]
      /\ native'.op = "close" /\ native.op = "none"
  BY DEF Close, Begin, ScriptRuns, NoNative
<1>2. object \in [Object -> ObjectRecord] /\ handles[i] \in Object
  BY <1>1, Types DEF TypeInv, HandlesType
<1>3. object'[handles[i]].state = "closing"
  <2>1. object[handles[i]] \in ObjectRecord
    BY <1>2
  <2>2. object'[handles[i]] = [object[handles[i]] EXCEPT !.state = "closing"]
    BY <1>1, <1>2
  <2> QED
    BY <2>1, <2>2 DEF ObjectRecord
<1> QED
  BY <1>1, <1>2, <1>3

\* The steps of a system whose types are correct.
LEMMA Steps ==
    ASSUME [Next]_vars
    PROVE  \/ \E o \in Object, database \in Database, size \in 0 .. MaxPool :
                 Connect(o, database, size)
           \/ \E i \in HandleId : Close(i)
           \/ Inner
           \/ UNCHANGED <<handleVars, handles>> /\ (created' = created)
BY DEF Next, Inner, SetDuplicates, vars, managerVars, handleVars

LEMMA IdsStep == TypeInv /\ IdsCorrect /\ [Next]_vars => IdsCorrect'
<1> SUFFICES ASSUME TypeInv, IdsCorrect, [Next]_vars PROVE IdsCorrect'
  OBVIOUS
<1>0. \A i \in DOMAIN handles : handles[i] \in Object
  BY Types DEF TypeInv, HandlesType
<1>1. ASSUME NEW o \in Object, NEW database \in Database,
             NEW size \in 0 .. MaxPool, Connect(o, database, size)
      PROVE  IdsCorrect'
  <2>1. PICK i \in HandleId :
           /\ i \notin DOMAIN handles
           /\ handles' = [x \in DOMAIN handles \union {i} |->
                             IF x \in DOMAIN handles THEN handles[x] ELSE o]
           /\ object[o].state = "unused"
           /\ object'[o].state = "open" /\ object'[o].id = i
           /\ \A p \in Object : p # o => object'[p] = object[p]
    BY <1>1, ConnectFacts
  <2>2. DOMAIN handles' = DOMAIN handles \union {i} /\ handles'[i] = o
    BY <2>1
  <2>3. \A x \in DOMAIN handles : handles[x] # o /\ handles'[x] = handles[x]
    BY <2>1 DEF IdsCorrect
  <2>4. \A x \in DOMAIN handles' :
           object'[handles'[x]].state = "open" /\ object'[handles'[x]].id = x
    BY <1>0, <2>1, <2>2, <2>3 DEF IdsCorrect
  <2>5. ASSUME NEW p \in Object, object'[p].state = "open"
        PROVE  object'[p].id \in DOMAIN handles' /\ handles'[object'[p].id] = p
    <3>1. CASE p = o
      BY <2>1, <2>2, <3>1
    <3>2. CASE p # o
      BY <2>1, <2>2, <2>3, <2>5, <3>2 DEF IdsCorrect
    <3> QED
      BY <3>1, <3>2
  <2> QED
    BY <2>4, <2>5 DEF IdsCorrect
<1>2. ASSUME NEW i \in HandleId, Close(i) PROVE IdsCorrect'
  <2>1. handles' = [x \in DOMAIN handles \ {i} |-> handles[x]]
    BY <1>2, CloseFacts DEF IdsCorrect
  <2>2. \A x \in DOMAIN handles' : handles[x] # handles[i] /\ handles'[x] = handles[x]
    BY <1>2, <2>1, CloseFacts DEF IdsCorrect
  <2> QED
    BY <1>0, <1>2, <2>1, <2>2, CloseFacts DEF IdsCorrect
<1>3. CASE Inner
  BY <1>0, <1>3, InnerFrame DEF IdsCorrect
<1>4. CASE UNCHANGED <<handleVars, handles>>
  BY <1>4 DEF IdsCorrect, handleVars
<1> QED
  BY <1>1, <1>2, <1>3, <1>4, Steps

\* An id in use leads to the open handle that has it, and every open handle is
\* reachable under its id: CHandleManager loses no handle and keeps no deleted
\* one, however often ids are given out again.
THEOREM IdsAreCorrect == Spec => []IdsCorrect
<1>1. Init => IdsCorrect
  BY DEF Init, HandleInit, NewObject, IdsCorrect
<1> QED
  BY <1>1, InitTypes, NextType, IdsStep, PTL DEF Spec

LEMMA OneHandleStep ==
    TypeInv /\ IdsCorrect /\ OneHandlePerDatabase /\ [Next]_vars
       => OneHandlePerDatabase'
<1> SUFFICES ASSUME TypeInv, IdsCorrect, OneHandlePerDatabase, [Next]_vars
             PROVE  OneHandlePerDatabase'
  OBVIOUS
<1>0. \A i \in DOMAIN handles : handles[i] \in Object
  BY Types DEF TypeInv, HandlesType
<1>1. ASSUME NEW o \in Object, NEW database \in Database,
             NEW size \in 0 .. MaxPool, Connect(o, database, size)
      PROVE  OneHandlePerDatabase'
  <2> SUFFICES ASSUME ~created' PROVE OneHandlePerDatabase'
    BY DEF OneHandlePerDatabase
  <2>1. ~created /\ ~duplicates /\ ~FindsDuplicate(database)
    BY <1>1 DEF Connect
  <2>2. \A i \in DOMAIN handles : object[handles[i]].database # database
    BY <2>1 DEF FindsDuplicate, SameDatabase
  <2>3. \A i \in DOMAIN handles : handles[i] # o
    BY <1>1, ConnectFacts DEF IdsCorrect
  <2>4. PICK i \in HandleId :
           /\ i \notin DOMAIN handles
           /\ handles' = [x \in DOMAIN handles \union {i} |->
                             IF x \in DOMAIN handles THEN handles[x] ELSE o]
           /\ object'[o].database = database
           /\ \A p \in Object : p # o => object'[p] = object[p]
    BY <1>1, ConnectFacts
  <2>5. \A x \in DOMAIN handles' :
           object'[handles'[x]].database =
              IF x = i THEN database ELSE object[handles[x]].database
    BY <1>0, <2>3, <2>4
  <2> QED
    BY <2>1, <2>2, <2>4, <2>5 DEF OneHandlePerDatabase
<1>2. ASSUME NEW i \in HandleId, Close(i) PROVE OneHandlePerDatabase'
  <2>1. handles' = [x \in DOMAIN handles \ {i} |-> handles[x]]
    BY <1>2, CloseFacts DEF IdsCorrect
  <2>2. \A x \in DOMAIN handles' : handles[x] # handles[i] /\ handles'[x] = handles[x]
    BY <1>2, <2>1, CloseFacts DEF IdsCorrect
  <2>3. created' = created
    BY <1>2 DEF Close
  <2> QED
    BY <1>0, <1>2, <2>1, <2>2, <2>3, CloseFacts DEF OneHandlePerDatabase
<1>3. CASE Inner
  <2>1. /\ UNCHANGED <<handles, created>>
        /\ \A o \in Object : object[o].state # "closing" =>
              object'[o].database = object[o].database
    BY <1>3, InnerFrame
  <2>2. \A i \in DOMAIN handles : object[handles[i]].state # "closing"
    BY DEF IdsCorrect
  <2> QED
    BY <1>0, <2>1, <2>2 DEF OneHandlePerDatabase
<1>4. CASE UNCHANGED <<handleVars, handles>> /\ created' = created
  BY <1>4 DEF OneHandlePerDatabase, handleVars
<1> QED
  BY <1>1, <1>2, <1>3, <1>4, Steps

\* Unless a handle has been made while DUPLICATE_CONNECTIONS was set, no two
\* handles in m_Handles have the same host, user and database.
THEOREM OneHandleForEachDatabase == Spec => []OneHandlePerDatabase
<1>1. Init => IdsCorrect /\ OneHandlePerDatabase
  BY DEF Init, HandleInit, NewObject, IdsCorrect, OneHandlePerDatabase
<1> QED
  BY <1>1, InitTypes, NextType, IdsStep, OneHandleStep, PTL DEF Spec
-----------------------------------------------------------------------------
(***************************************************************************)
(* The connections.                                                        *)
(***************************************************************************)

\* Nothing has been done with the connections of an object not created yet.
FreshInv ==
    \A o \in Object : object[o].state = "unused" =>
       \A k \in Slot : conn[o][k] = NewConn

LEMMA QueueFacts ==
    ASSUME TypeInv, NEW p \in Object, NEW k \in Slot, Queue(p, k)
    PROVE  \A o \in Object, l \in Slot :
              /\ conn'[o][l].charset = conn[o][l].charset
              /\ conn'[o][l].given = conn[o][l].given
                                        + (IF o = p /\ l = k THEN 1 ELSE 0)
              /\ (o = p /\ l = k) \/ conn'[o][l] = conn[o][l]
<1> DEFINE c == conn[p][k]
           new == [c EXCEPT !.given = @ + 1,
                            !.queued = IF @ < Capacity THEN @ + 1 ELSE @]
<1>1. conn \in [Object -> [Slot -> ConnRecord]] /\ c \in ConnRecord
  BY Types DEF TypeInv
<1>2. conn' = [conn EXCEPT ![p] = [conn[p] EXCEPT ![k] = new]]
  BY <1>1 DEF Queue
<1>3. new.charset = c.charset /\ new.given = c.given + 1
  BY <1>1 DEF ConnRecord
<1>4. \A o \in Object, l \in Slot : conn[o][l].given \in Nat
  BY <1>1, QueueAssumption DEF ConnRecord
<1> HIDE DEF new
<1>5. \A o \in Object, l \in Slot :
         conn'[o][l] = IF o = p /\ l = k THEN new ELSE conn[o][l]
  BY <1>1, <1>2
<1> QED
  BY <1>3, <1>4, <1>5

LEMMA WorkerFacts ==
    ASSUME TypeInv, NEW p \in Object, NEW k \in Workers(p), WorkerStep(p, k)
    PROVE  /\ UNCHANGED <<object, native>>
           /\ conn[p][k] # NewConn
           /\ \A o \in Object, l \in Slot :
                 /\ conn'[o][l].charset = conn[o][l].charset
                 /\ conn'[o][l].given = conn[o][l].given
                 /\ (o = p /\ l = k) \/ conn'[o][l] = conn[o][l]
<1> DEFINE c == conn[p][k]
<1>0. k \in Slot
  BY RingFacts DEF TypeInv
<1>1. conn \in [Object -> [Slot -> ConnRecord]] /\ c \in ConnRecord
  BY <1>0, Types DEF TypeInv
<1>2. PICK new :
         /\ conn' = [conn EXCEPT ![p] = [conn[p] EXCEPT ![k] = new]]
         /\ new.charset = c.charset /\ new.given = c.given
  <2>1. CASE WorkerTake(p, k)
    <3> DEFINE new == [c EXCEPT !.queued = @ - 1, !.inHand = 1, !.started = TRUE]
    <3>1. conn' = [conn EXCEPT ![p] = [conn[p] EXCEPT ![k] = new]]
      BY <1>0, <1>1, <2>1 DEF WorkerTake
    <3>2. new.charset = c.charset /\ new.given = c.given
      BY <1>1 DEF ConnRecord
    <3> QED
      BY <3>1, <3>2
  <2>2. CASE WorkerFinish(p, k)
    <3> DEFINE new == [c EXCEPT !.inHand = 0]
    <3>1. conn' = [conn EXCEPT ![p] = [conn[p] EXCEPT ![k] = new]]
      BY <1>0, <1>1, <2>2 DEF WorkerFinish
    <3>2. new.charset = c.charset /\ new.given = c.given
      BY <1>1 DEF ConnRecord
    <3> QED
      BY <3>1, <3>2
  <2> QED
    BY <2>1, <2>2 DEF WorkerStep
<1>3. \A o \in Object, l \in Slot :
         conn'[o][l] = IF o = p /\ l = k THEN new ELSE conn[o][l]
  BY <1>0, <1>1, <1>2
<1>4. c # NewConn
  BY DEF WorkerStep, WorkerTake, WorkerFinish, NewConn
<1>5. UNCHANGED <<object, native>>
  BY DEF WorkerStep, WorkerTake, WorkerFinish
<1> QED
  BY <1>2, <1>3, <1>4, <1>5

\* One connection takes the character set.
LEMMA CharsetNextFacts ==
    ASSUME TypeInv, CharsetNext
    PROVE  LET p == native.object
               k == native.at
           IN  /\ native.op = "charset" /\ p \in Object /\ k \in Slots(p)
               /\ object[p].state = "open"
               /\ \A o \in Object, l \in Slot :
                     /\ conn'[o][l].given = conn[o][l].given
                     /\ conn'[o][l].charset =
                           IF o = p /\ l = k THEN native.charset
                                             ELSE conn[o][l].charset
                     /\ (o = p /\ l = k) \/ conn'[o][l] = conn[o][l]
               /\ \A o \in Object :
                     /\ object'[o].size = object[o].size
                     /\ object'[o].current = object[o].current
                     /\ object'[o].state = object[o].state
                     /\ object'[o].agreed = IF o = p /\ IsLast(p, k)
                                            THEN TRUE ELSE object[o].agreed
<1> DEFINE p == native.object
           k == native.at
           c == conn[p][k]
           new == [c EXCEPT !.charset = native.charset]
<1>1. /\ native.op = "charset"
      /\ conn' = [conn EXCEPT ![p][k].charset = native.charset]
      /\ object' = [object EXCEPT ![p].agreed = IF IsLast(p, k) THEN TRUE ELSE @]
  BY DEF CharsetNext
<1>2. p \in Object /\ k \in Slots(p) /\ k \in Slot /\ c \in ConnRecord
  BY <1>1, NativeFacts
<1>3. /\ conn \in [Object -> [Slot -> ConnRecord]]
      /\ object \in [Object -> ObjectRecord]
  BY Types DEF TypeInv
<1>4. object[p].state = "open"
  BY <1>1 DEF TypeInv, NativeInv
<1>5. new.given = c.given /\ new.charset = native.charset
  BY <1>2 DEF ConnRecord
<1>6. conn' = [conn EXCEPT ![p] = [conn[p] EXCEPT ![k] = new]]
  BY <1>1, <1>2, <1>3
<1>7. PICK b : /\ object' = [object EXCEPT ![p] = [object[p] EXCEPT !.agreed = b]]
               /\ b = IF IsLast(p, k) THEN TRUE ELSE object[p].agreed
  BY <1>1, <1>2, <1>3
<1>8. \A o \in Object :
         object'[o] = IF o = p THEN [object[p] EXCEPT !.agreed = b] ELSE object[o]
  BY <1>3, <1>7
<1>9. object[p] \in ObjectRecord
  BY <1>2, <1>3
<1>10. LET r == [object[p] EXCEPT !.agreed = b]
       IN  /\ r.size = object[p].size /\ r.current = object[p].current
           /\ r.state = object[p].state /\ r.agreed = b
  BY <1>9 DEF ObjectRecord
<1> HIDE DEF new
<1>11. \A o \in Object, l \in Slot :
         conn'[o][l] = IF o = p /\ l = k THEN new ELSE conn[o][l]
  BY <1>2, <1>3, <1>6
<1>12. ASSUME NEW o \in Object
       PROVE  /\ object'[o].size = object[o].size
              /\ object'[o].current = object[o].current
              /\ object'[o].state = object[o].state
              /\ object'[o].agreed = IF o = p /\ IsLast(p, k)
                                     THEN TRUE ELSE object[o].agreed
  <2>1. CASE o = p
    BY <1>7, <1>8, <1>10, <2>1
  <2>2. CASE o # p
    BY <1>8, <2>2
  <2> QED
    BY <2>1, <2>2
<1>13. \A o \in Object, l \in Slot :
          /\ conn'[o][l].given = conn[o][l].given
          /\ conn'[o][l].charset = IF o = p /\ l = k THEN native.charset
                                                     ELSE conn[o][l].charset
          /\ (o = p /\ l = k) \/ conn'[o][l] = conn[o][l]
  BY <1>5, <1>11
<1> QED
  BY <1>1, <1>2, <1>4, <1>12, <1>13
\* One connection of an object that is being deleted is gone.
LEMMA DestroyFacts ==
    ASSUME TypeInv, DestroyNext
    PROVE  LET p == native.object
           IN  /\ native.op = "close" /\ native'.op \in {"close", "none"}
               /\ p \in Object /\ object[p].state = "closing"
               /\ object'[p].state \in {"closing", "deleted"}
               /\ \A o \in Object : o # p => object'[o] = object[o]
               /\ \A o \in Object, l \in Slot : o # p => conn'[o][l] = conn[o][l]
<1> DEFINE p == native.object
           k == native.at
<1>1. native.op = "close"
  BY DEF DestroyNext
<1>2. p \in Object /\ object[p].state = "closing"
  BY <1>1 DEF TypeInv, NativeInv
<1>3. /\ conn \in [Object -> [Slot -> ConnRecord]]
      /\ object \in [Object -> ObjectRecord]
  BY Types DEF TypeInv
<1>4. native'.op \in {"close", "none"}
  <2>1. native' = NoNative \/ native' = [native EXCEPT !.at = Following(p, k)]
    BY DEF DestroyNext
  <2>2. native \in NativeRecord
    BY Types DEF TypeInv
  <2> QED
    BY <1>1, <2>1, <2>2 DEF NoNative, NativeRecord
<1>5. \A o \in Object, l \in Slot : o # p => conn'[o][l] = conn[o][l]
  BY <1>3 DEF DestroyNext
<1>6. \/ object' = object
      \/ object' = [object EXCEPT ![p] = [NewObject EXCEPT !.state = "deleted"]]
  BY DEF DestroyNext
<1>7. [NewObject EXCEPT !.state = "deleted"].state = "deleted"
  BY DEF NewObject
<1>8. /\ object'[p].state \in {"closing", "deleted"}
      /\ \A o \in Object : o # p => object'[o] = object[o]
  BY <1>2, <1>3, <1>6, <1>7
<1> QED
  BY <1>1, <1>2, <1>4, <1>5, <1>8

\* The natives that read only, and those that fail or return.
LEMMA QuietFacts ==
    ASSUME TypeInv,
           \/ CountNext \/ CountReturn
           \/ \E o \in Object : CountBegin(o)
    PROVE  /\ UNCHANGED <<object, conn>>
           /\ native.op # "charset" /\ native'.op # "charset"
<1>1. native \in NativeRecord
  BY Types DEF TypeInv
<1>2. NoNative.op = "none" /\ NoNative \in NativeRecord
  BY NewTypes DEF NoNative
<1>3. CASE CountNext
  <2>1. PICK sum, op, at : /\ native' = [native EXCEPT !.sum = sum, !.op = op, !.at = at]
                           /\ op \in {"count", "counted"}
    BY <1>1, <1>3 DEF CountNext, NativeRecord
  <2>2. native'.op = op
    BY <1>1, <2>1 DEF NativeRecord
  <2> QED
    BY <1>3, <2>1, <2>2 DEF CountNext
<1>4. CASE CountReturn
  BY <1>2, <1>4 DEF CountReturn
<1>5. ASSUME NEW o \in Object, CountBegin(o)
      PROVE  UNCHANGED <<object, conn>> /\ native.op = "none" /\ native'.op = "count"
  BY <1>5 DEF CountBegin, ScriptRuns, NoNative
<1> QED
  BY <1>3, <1>4, <1>5

LEMMA FreshStep == TypeInv /\ FreshInv /\ [Next]_vars => FreshInv'
<1> SUFFICES ASSUME TypeInv, FreshInv, [Next]_vars PROVE FreshInv'
  OBVIOUS
<1>1. ASSUME NEW o \in Object, NEW database \in Database,
             NEW size \in 0 .. MaxPool, Connect(o, database, size)
      PROVE  FreshInv'
  <2>1. conn' = conn
    BY <1>1 DEF Connect
  <2>2. \A x \in Object : object'[x].state = "unused" => object[x].state = "unused"
    BY <1>1, ConnectFacts
  <2> QED
    BY <2>1, <2>2 DEF FreshInv
<1>2. ASSUME NEW i \in HandleId, Close(i) PROVE FreshInv'
  <2>1. conn' = conn
    BY <1>2 DEF Close
  <2> QED
    BY <1>2, <2>1, CloseFacts DEF FreshInv
<1>3. CASE Inner
  <2> SUFFICES ASSUME NEW o \in Object, object'[o].state = "unused",
                      NEW k \in Slot
               PROVE  conn'[o][k] = conn[o][k]
    BY <1>3, InnerFrame DEF FreshInv
  <2>1. object[o].state = "unused"
    BY <1>3, InnerFrame
  <2>2. ASSUME NEW i \in DOMAIN handles, HandleNative(handles[i])
        PROVE  conn'[o][k] = conn[o][k]
    <3> DEFINE p == handles[i]
    <3>1. p \in Object
      BY Types DEF TypeInv, HandlesType
    <3>2. IsOpen(p)
      BY <2>2 DEF HandleNative, TQuery, PQuery, CountBegin, CharsetBegin
    <3>3. o # p
      BY <2>1, <3>2 DEF IsOpen
    <3> HIDE DEF p
    <3>4. CASE TQuery(p)
      BY <3>1, <3>3, <3>4, QueueFacts, SlotFacts DEF TQuery
    <3>5. CASE PQuery(p)
      <4>1. object[p].current \in Slot
        BY <3>1, <3>5, RingFacts DEF TypeInv, PQuery
      <4> QED
        BY <3>1, <3>3, <3>5, <4>1, QueueFacts DEF PQuery
    <3> QED
      BY <2>2, <3>4, <3>5 DEF HandleNative, CountBegin, CharsetBegin, p
  <2>3. CASE CharsetNext
    BY <2>1, <2>3, CharsetNextFacts
  <2>4. CASE DestroyNext
    BY <2>1, <2>4, DestroyFacts
  <2>5. ASSUME NEW p \in Object, NEW l \in Workers(p), WorkerStep(p, l)
        PROVE  conn'[o][k] = conn[o][k]
    <3>1. l \in Slot
      BY RingFacts DEF TypeInv
    <3>2. p # o
      BY <2>1, <2>5, <3>1, WorkerFacts DEF FreshInv
    <3> QED
      BY <2>5, <3>2, WorkerFacts
  <2> QED
    BY <1>3, <2>2, <2>3, <2>4, <2>5
    DEF Inner, NativeGoesOn, CountNext, CountReturn, CharsetFail
<1>4. CASE UNCHANGED <<handleVars, handles>>
  BY <1>4 DEF FreshInv, handleVars
<1> QED
  BY <1>1, <1>2, <1>3, <1>4, Steps
-----------------------------------------------------------------------------
(***************************************************************************)
(* The ring.                                                               *)
(***************************************************************************)

\* Nothing that the ring's turns depend on changes.
LEMMA DealtSame ==
    ASSUME DealtInTurn, NEW o \in Object, object[o].state = "open",
           object'[o].size = object[o].size,
           object'[o].current = object[o].current,
           \A k \in Ring(o) : conn'[o][k].given = conn[o][k].given
    PROVE  /\ object'[o].size # 0 => object'[o].current \in Ring(o)'
           /\ \A k, l \in Ring(o)' :
                 conn'[o][k].given + (IF k < object'[o].current THEN 0 ELSE 1)
                    = conn'[o][l].given + (IF l < object'[o].current THEN 0 ELSE 1)
BY DEF DealtInTurn, Ring

LEMMA DealtStep ==
    TypeInv /\ FreshInv /\ DealtInTurn /\ [Next]_vars => DealtInTurn'
<1> SUFFICES ASSUME TypeInv, FreshInv, DealtInTurn, [Next]_vars,
                    NEW o \in Object, object'[o].state = "open"
             PROVE  /\ object'[o].size # 0 => object'[o].current \in Ring(o)'
                    /\ \A k, l \in Ring(o)' :
                          conn'[o][k].given
                                + (IF k < object'[o].current THEN 0 ELSE 1)
                             = conn'[o][l].given
                                + (IF l < object'[o].current THEN 0 ELSE 1)
  BY DEF DealtInTurn
<1> DEFINE Goal ==
              /\ object'[o].size # 0 => object'[o].current \in Ring(o)'
              /\ \A k, l \in Ring(o)' :
                    conn'[o][k].given + (IF k < object'[o].current THEN 0 ELSE 1)
                       = conn'[o][l].given + (IF l < object'[o].current THEN 0 ELSE 1)
<1>0. /\ conn \in [Object -> [Slot -> ConnRecord]]
      /\ object \in [Object -> ObjectRecord]
      /\ Ring(o) \subseteq Slot
  BY Types, RingFacts DEF TypeInv
<1>1. ASSUME NEW p \in Object, NEW database \in Database,
             NEW size \in 0 .. MaxPool, Connect(p, database, size)
      PROVE  Goal
  <2>1. conn' = conn
    BY <1>1 DEF Connect
  <2>2. /\ object[p].state = "unused" /\ object'[p].size = size
        /\ object'[p].current = 2
        /\ \A x \in Object : x # p => object'[x] = object[x]
    BY <1>1, ConnectFacts
  <2>3. CASE o = p
    <3>1. \A k \in 2 .. size + 1 : k \in Slot /\ ~(k < 2)
      BY PoolAssumption DEF Slot
    <3>2. \A k \in 2 .. size + 1 : conn'[o][k] = NewConn
      BY <2>1, <2>2, <2>3, <3>1 DEF FreshInv
    <3>3. Ring(o)' = 2 .. size + 1
      BY <2>2, <2>3 DEF Ring
    <3>4. size # 0 => 2 \in 2 .. size + 1
      BY PoolAssumption
    <3> QED
      BY <2>2, <2>3, <3>1, <3>2, <3>3, <3>4
  <2>4. CASE o # p
    BY <2>1, <2>2, <2>4, DealtSame
  <2> QED
    BY <2>3, <2>4
<1>2. ASSUME NEW i \in HandleId, Close(i) PROVE Goal
  <2>1. conn' = conn
    BY <1>2 DEF Close
  <2>2. object'[o] = object[o]
    BY <1>2, CloseFacts
  <2> QED
    BY <2>1, <2>2, DealtSame
<1>3. CASE Inner
  <2>1. object[o].state = "open" /\ object'[o].size = object[o].size
    BY <1>3, InnerFrame
  <2>2. ASSUME NEW i \in DOMAIN handles, HandleNative(handles[i])
        PROVE  Goal
    <3> DEFINE p == handles[i]
    <3>1. p \in Object
      BY Types DEF TypeInv, HandlesType
    <3> HIDE DEF p
    <3>2. CASE TQuery(p)
      <4>0. Queue(p, Threaded) /\ Threaded \in Slot /\ Threaded \notin Ring(o)
        BY <3>2, SlotFacts DEF TQuery, Threaded, Ring
      <4>1. \A k \in Ring(o) : conn'[o][k] = conn[o][k]
        BY <1>0, <3>1, <4>0, QueueFacts
      <4> QED
        BY <2>1, <3>2, <4>1, DealtSame DEF TQuery
    <3>3. CASE PQuery(p) /\ p # o
      <4>1. object[p].current \in Slot
        BY <3>1, <3>3, RingFacts DEF TypeInv, PQuery
      <4>2. \A k \in Ring(o) : conn'[o][k].given = conn[o][k].given
        BY <1>0, <3>1, <3>3, <4>1, QueueFacts DEF PQuery
      <4>3. object'[o] = object[o]
        BY <1>0, <3>3 DEF PQuery
      <4> QED
        BY <2>1, <4>2, <4>3, DealtSame
    <3>4. CASE PQuery(p) /\ p = o
      <4> DEFINE c == object[o].current
                 n == object[o].size
                 given == [k \in Ring(o) |-> conn[o][k].given]
      <4>1. n # 0 /\ Queue(o, c)
            /\ object' = [object EXCEPT ![o].current = RingNext(o, @)]
        BY <3>4 DEF PQuery
      <4>2. n \in Nat /\ Ring(o) = 2 .. n + 1 /\ c \in 2 .. n + 1 /\ c \in Slot
        BY <1>0, <4>1, RingFacts, PoolAssumption DEF TypeInv, Ring, ObjectRecord
      <4>3. object'[o].current = RingNext(o, c)
        <5>1. object'[o] = [object[o] EXCEPT !.current = RingNext(o, @)]
          BY <1>0, <4>1
        <5>2. object[o] \in ObjectRecord
          BY <1>0
        <5> QED
          BY <5>1, <5>2 DEF ObjectRecord
      <4>4. \A k \in 2 .. n + 1 :
               conn'[o][k].given = given[k] + (IF k = c THEN 1 ELSE 0)
        BY <1>0, <4>1, <4>2, QueueFacts
      <4>5. given \in [2 .. n + 1 -> Nat]
        BY <1>0, <4>2, QueueAssumption DEF ConnRecord
      <4>6. \A k, l \in 2 .. n + 1 : given[k] + (IF k < c THEN 0 ELSE 1)
                                        = given[l] + (IF l < c THEN 0 ELSE 1)
        BY <2>1, <4>2 DEF DealtInTurn
      <4>7. RingNext(o, c) = IF c = n + 1 THEN 2 ELSE c + 1
        BY DEF RingNext
      <4>8. Ring(o)' = 2 .. n + 1
        BY <2>1 DEF Ring
      <4> HIDE DEF c, n, given
      <4>9. ASSUME NEW k \in 2 .. n + 1, NEW l \in 2 .. n + 1
            PROVE  conn'[o][k].given + (IF k < RingNext(o, c) THEN 0 ELSE 1)
                      = conn'[o][l].given + (IF l < RingNext(o, c) THEN 0 ELSE 1)
        <5>1. /\ given[k] \in Nat /\ given[l] \in Nat /\ given[c] \in Nat
              /\ given[c] + 1 = given[k] + (IF k < c THEN 0 ELSE 1)
              /\ given[c] + 1 = given[l] + (IF l < c THEN 0 ELSE 1)
          BY <4>2, <4>5, <4>6
        <5> QED
          BY <4>2, <4>4, <4>7, <5>1
      <4>10. RingNext(o, c) \in 2 .. n + 1
        BY <4>2, <4>7
      <4> QED
        BY <4>3, <4>8, <4>9, <4>10
    <3> QED
      BY <2>1, <2>2, <3>2, <3>3, <3>4, DealtSame
      DEF HandleNative, CountBegin, CharsetBegin, p
  <2>3. CASE CharsetNext
    BY <1>0, <2>1, <2>3, CharsetNextFacts, DealtSame
  <2>4. CASE CharsetFail
    <3>1. object'[o].current = object[o].current
      <4>1. object[o] \in ObjectRecord
        BY <1>0
      <4>2. PICK b : object' = [object EXCEPT ![native.object] = [@ EXCEPT !.agreed = b]]
        BY <2>4 DEF CharsetFail
      <4>3. object'[o] = object[o] \/ object'[o] = [object[o] EXCEPT !.agreed = b]
        BY <1>0, <4>2
      <4> QED
        BY <4>1, <4>3 DEF ObjectRecord
    <3> QED
      BY <2>1, <2>4, <3>1, DealtSame DEF CharsetFail
  <2>5. CASE DestroyNext
    BY <1>0, <2>1, <2>5, DestroyFacts, DealtSame
  <2>6. ASSUME NEW p \in Object, NEW l \in Workers(p), WorkerStep(p, l)
        PROVE  Goal
    BY <1>0, <2>1, <2>6, WorkerFacts, DealtSame
  <2>7. CASE CountNext \/ CountReturn
    BY <2>1, <2>7, DealtSame DEF CountNext, CountReturn
  <2> QED
    BY <1>3, <2>2, <2>3, <2>4, <2>5, <2>6, <2>7 DEF Inner, NativeGoesOn
<1>4. CASE UNCHANGED <<handleVars, handles>>
  BY <1>4, DealtSame DEF handleVars
<1> QED
  BY <1>1, <1>2, <1>3, <1>4, Steps

\* Whatever the size of the pool and whichever queries the full queues refuse,
\* the connections the ring has passed since its last turn have been given
\* exactly one query more than the others.
THEOREM QueriesAreDealtInTurn == Spec => []DealtInTurn
<1>1. Init => FreshInv /\ DealtInTurn
  BY DEF Init, HandleInit, NewObject, FreshInv, DealtInTurn
<1> QED
  BY <1>1, InitTypes, NextType, FreshStep, DealtStep, PTL DEF Spec
-----------------------------------------------------------------------------
(***************************************************************************)
(* The character sets.                                                     *)
(***************************************************************************)

\* Slot x of the ring comes before slot k in a round that starts at the
\* current one.
Passed(o, x, k) ==
    LET c == object[o].current
    IN  IF c <= k THEN c <= x /\ x < k ELSE c <= x \/ x < k

\* The connections a native has been to before it gets to slot k.
Visited(o, k) ==
    IF k = Main THEN {}
    ELSE IF k = Threaded THEN {Main}
    ELSE {Main, Threaded} \union {x \in Ring(o) : Passed(o, x, k)}

Uniform(o) == \A k \in Slots(o) : conn[o][k].charset = conn[o][Main].charset

\* While mysql_set_charset is under way the connections visited have the new
\* character set, and until the main one has it, nothing has changed.
CharsetInv ==
    \A o \in Object : IsOpen(o) =>
       IF native.op = "charset" /\ native.object = o
       THEN /\ \A x \in Visited(o, native.at) : conn[o][x].charset = native.charset
            /\ native.at = Main /\ object[o].agreed => Uniform(o)
       ELSE object[o].agreed => Uniform(o)

\* A native goes around the whole ring, and visits no connection twice.
LEMMA VisitedFacts ==
    ASSUME TypeInv, NEW o \in Object, NEW k \in Slots(o)
    PROVE  IF IsLast(o, k) THEN Slots(o) = Visited(o, k) \union {k}
           ELSE Visited(o, Following(o, k)) = Visited(o, k) \union {k}
<1> DEFINE n == object[o].size
           c == object[o].current
<1>1. n \in Nat /\ (n # 0 => c \in 2 .. n + 1)
  <2>1. object[o].size \in 0 .. MaxPool
    BY Types DEF TypeInv, ObjectRecord
  <2> QED
    BY <2>1, PoolAssumption DEF TypeInv, RingInv, Ring
<1>2. Slots(o) = 0 .. n + 1 /\ Ring(o) = 2 .. n + 1
  BY DEF Slots, Ring
<1>3. CASE k = Main
  BY <1>3 DEF IsLast, Following, Visited, Main, Threaded
<1>4. CASE k = Threaded
  <2>1. CASE n = 0
    BY <1>2, <1>4, <2>1 DEF IsLast, Visited, Main, Threaded
  <2>2. CASE n # 0
    <3>1. ~IsLast(o, k) /\ Following(o, k) = c
      BY <1>4, <2>2 DEF IsLast, Following, Main, Threaded
    <3>2. \A x \in Ring(o) : ~Passed(o, x, c)
      BY <1>1, <1>2, <2>2 DEF Passed
    <3>3. c # Main /\ c # Threaded
      BY <1>1, <2>2 DEF Main, Threaded
    <3> QED
      BY <1>4, <3>1, <3>2, <3>3 DEF Visited, Main, Threaded
  <2> QED
    BY <2>1, <2>2
<1>5. CASE k # Main /\ k # Threaded
  <2>1. n # 0 /\ k \in 2 .. n + 1 /\ c \in 2 .. n + 1
    BY <1>1, <1>2, <1>5 DEF Main, Threaded
  <2>2. RingNext(o, k) = IF k = n + 1 THEN 2 ELSE k + 1
    BY DEF RingNext
  <2>3. \A x \in 2 .. n + 1, j \in 2 .. n + 1 :
           Passed(o, x, j) <=> IF c <= j THEN c <= x /\ x < j ELSE c <= x \/ x < j
    BY DEF Passed
  <2>4. Visited(o, k) = {Main, Threaded} \union {x \in 2 .. n + 1 : Passed(o, x, k)}
    BY <1>2, <1>5 DEF Visited
  <2>5. CASE IsLast(o, k)
    <3>1. RingNext(o, k) = c
      BY <1>5, <2>5 DEF IsLast
    <3>2. \A x \in 2 .. n + 1 : Passed(o, x, k) \/ x = k
      BY <1>1, <2>1, <2>2, <2>3, <3>1
    <3>3. 0 .. n + 1 = {0, 1} \union (2 .. n + 1)
      BY <1>1
    <3> QED
      BY <1>2, <2>1, <2>4, <2>5, <3>2, <3>3 DEF Main, Threaded
  <2>6. CASE ~IsLast(o, k)
    <3> DEFINE m == RingNext(o, k)
    <3>1. m # c /\ Following(o, k) = m
      BY <1>5, <2>6 DEF IsLast, Following
    <3>2. m \in 2 .. n + 1
      BY <1>1, <2>1, <2>2
    <3>3. \A x \in 2 .. n + 1 : Passed(o, x, m) <=> Passed(o, x, k) \/ x = k
      BY <1>1, <2>1, <2>2, <2>3, <3>1, <3>2
    <3>4. Visited(o, m) = {Main, Threaded} \union {x \in 2 .. n + 1 : Passed(o, x, m)}
      BY <1>2, <3>2 DEF Visited, Main, Threaded
    <3> HIDE DEF m
    <3> QED
      BY <2>1, <2>4, <2>6, <3>1, <3>3, <3>4
  <2> QED
    BY <2>5, <2>6
<1> QED
  BY <1>3, <1>4, <1>5

\* A step that neither is a step of mysql_set_charset on object o nor gives
\* one of its connections another character set.
LEMMA CharsetsKept ==
    ASSUME TypeInv, NEW o \in Object,
           object'[o].size = object[o].size,
           \A k \in Slot : conn'[o][k].charset = conn[o][k].charset,
           Uniform(o)
    PROVE  Uniform(o)'
<1>1. Slots(o) \subseteq Slot /\ Main \in Slot
  BY RingFacts, SlotFacts DEF TypeInv
<1> QED
  BY <1>1 DEF Uniform, Slots

LEMMA CharsetStep ==
    TypeInv /\ FreshInv /\ CharsetInv /\ [Next]_vars => CharsetInv'
<1> SUFFICES ASSUME TypeInv, FreshInv, CharsetInv, [Next]_vars,
                    NEW o \in Object, IsOpen(o)'
             PROVE  IF native'.op = "charset" /\ native'.object = o
                    THEN /\ \A x \in Visited(o, native.at)' :
                               conn'[o][x].charset = native'.charset
                         /\ native'.at = Main /\ object'[o].agreed => Uniform(o)'
                    ELSE object'[o].agreed => Uniform(o)'
  BY DEF CharsetInv
<1> DEFINE Goal ==
              IF native'.op = "charset" /\ native'.object = o
              THEN /\ \A x \in Visited(o, native.at)' :
                         conn'[o][x].charset = native'.charset
                   /\ native'.at = Main /\ object'[o].agreed => Uniform(o)'
              ELSE object'[o].agreed => Uniform(o)'
<1>0. /\ conn \in [Object -> [Slot -> ConnRecord]]
      /\ object \in [Object -> ObjectRecord]
      /\ native \in NativeRecord
      /\ object'[o].state = "open"
  BY Types DEF TypeInv, IsOpen
\* The object was open, and no mysql_set_charset on it is or gets under way.
<1>1. ASSUME object[o].state = "open", object'[o].size = object[o].size,
             \A k \in Slot : conn'[o][k].charset = conn[o][k].charset,
             object'[o].agreed => object[o].agreed,
             ~(native'.op = "charset" /\ native'.object = o),
             \/ ~(native.op = "charset" /\ native.object = o)
             \/ native.at = Main \/ ~object'[o].agreed
      PROVE  Goal
  BY <1>1, CharsetsKept DEF CharsetInv, IsOpen
<1>2. ASSUME NEW p \in Object, NEW database \in Database,
             NEW size \in 0 .. MaxPool, Connect(p, database, size)
      PROVE  Goal
  <2>1. conn' = conn /\ native' = native /\ native.op = "none"
    BY <1>2 DEF Connect, ScriptRuns, NoNative
  <2>2. /\ object[p].state = "unused" /\ object'[p].size = size
        /\ \A x \in Object : x # p => object'[x] = object[x]
    BY <1>2, ConnectFacts
  <2>3. CASE o = p
    <3>1. \A k \in Slot : conn'[o][k] = NewConn
      BY <2>1, <2>2, <2>3 DEF FreshInv
    <3>2. Slots(o)' \subseteq Slot /\ Main \in Slot
      BY <2>2, <2>3, PoolAssumption DEF Slots, Slot, Main
    <3> QED
      BY <2>1, <3>1, <3>2 DEF Uniform
  <2>4. CASE o # p
    BY <1>0, <1>1, <2>1, <2>2, <2>4
  <2> QED
    BY <2>3, <2>4
<1>3. ASSUME NEW i \in HandleId, Close(i) PROVE Goal
  <2>1. conn' = conn
    BY <1>3 DEF Close
  <2>2. o # handles[i] /\ native'.op = "close" /\ native.op = "none"
    BY <1>0, <1>3, CloseFacts
  <2>3. object'[o] = object[o]
    BY <1>3, <2>2, CloseFacts
  <2> QED
    BY <1>0, <1>1, <2>1, <2>2, <2>3
<1>4. CASE Inner
  <2>1. object[o].state = "open" /\ object'[o].size = object[o].size
    BY <1>0, <1>4, InnerFrame
  <2>2. ASSUME NEW i \in DOMAIN handles, HandleNative(handles[i]) PROVE Goal
    <3> DEFINE p == handles[i]
    <3>1. p \in Object
      BY Types DEF TypeInv, HandlesType
    <3>2. native.op = "none"
      BY <2>2 DEF HandleNative, TQuery, PQuery, CountBegin, CharsetBegin,
                  ScriptRuns, NoNative
    <3> HIDE DEF p
    <3>3. CASE TQuery(p)
      BY <1>1, <2>1, <3>1, <3>2, <3>3, QueueFacts, SlotFacts DEF TQuery
    <3>4. CASE PQuery(p)
      <4>1. object[p].current \in Slot
        BY <3>1, <3>4, RingFacts DEF TypeInv, PQuery
      <4>2. \A k \in Slot : conn'[o][k].charset = conn[o][k].charset
        BY <3>1, <3>4, <4>1, QueueFacts DEF PQuery
      <4>3. object'[o].agreed = object[o].agreed
        <5>1. \/ object'[o] = object[o]
              \/ object'[o] = [object[o] EXCEPT !.current = RingNext(p, @)]
          BY <1>0, <3>4 DEF PQuery
        <5>2. object[o] \in ObjectRecord
          BY <1>0
        <5> QED
          BY <5>1, <5>2 DEF ObjectRecord
      <4> QED
        BY <1>1, <2>1, <3>2, <3>4, <4>2, <4>3 DEF PQuery
    <3>5. CASE CountBegin(p)
      BY <1>1, <2>1, <3>1, <3>5, QuietFacts
    <3>6. ASSUME NEW charset \in Charset, CharsetBegin(p, charset) PROVE Goal
      <4>1. /\ UNCHANGED <<object, conn>>
            /\ native' = [NoNative EXCEPT !.op = "charset", !.object = p,
                                          !.at = Main, !.charset = charset]
        BY <3>6 DEF CharsetBegin, Begin
      <4>2. native'.object = p /\ native'.at = Main
        BY <4>1 DEF NoNative
      <4>3. CASE p = o
        <5>1. Visited(o, native.at)' = {}
          BY <4>2 DEF Visited
        <5>2. object[o].agreed => Uniform(o)
          BY <2>1, <3>2 DEF CharsetInv, IsOpen
        <5>3. Uniform(o)' = Uniform(o)
          BY <4>1 DEF Uniform, Slots
        <5> QED
          BY <4>1, <5>1, <5>2, <5>3
      <4>4. CASE p # o
        BY <1>1, <2>1, <3>2, <4>1, <4>2, <4>4
      <4> QED
        BY <4>3, <4>4
    <3> QED
      BY <2>2, <3>3, <3>4, <3>5, <3>6 DEF HandleNative, p
  <2>3. CASE CharsetNext
    <3> DEFINE p == native.object
               k == native.at
    <3>1. /\ native.op = "charset" /\ p \in Object /\ k \in Slots(p)
          /\ \A x \in Object, l \in Slot :
                conn'[x][l].charset = IF x = p /\ l = k THEN native.charset
                                                        ELSE conn[x][l].charset
          /\ \A x \in Object :
                /\ object'[x].size = object[x].size
                /\ object'[x].current = object[x].current
                /\ x # p => object'[x].agreed = object[x].agreed
      BY <2>3, CharsetNextFacts
    <3>2. native' = IF IsLast(p, k) THEN NoNative
                    ELSE [native EXCEPT !.at = Following(p, k)]
      BY <2>3 DEF CharsetNext
    <3>3. IF IsLast(p, k) THEN native'.op = "none"
          ELSE /\ native'.op = "charset" /\ native'.object = p
               /\ native'.at = Following(p, k)
               /\ native'.charset = native.charset
      BY <1>0, <3>1, <3>2 DEF NoNative, NativeRecord
    <3>4. CASE o # p
      BY <1>1, <2>1, <3>1, <3>3, <3>4
    <3>5. CASE o = p
      <4>1. \A x \in Visited(o, k) : conn[o][x].charset = native.charset
        BY <2>1, <3>1, <3>5 DEF CharsetInv, IsOpen
      <4>2. Slots(o) \subseteq Slot /\ Main \in Slots(o)
        BY RingFacts DEF TypeInv
      <4>3. Visited(o, k) \subseteq Slots(o)
        BY RingFacts DEF TypeInv, Visited
      <4>4. \A x \in Visited(o, k) \union {k} :
               conn'[o][x].charset = native.charset
        BY <3>1, <3>5, <4>1, <4>2, <4>3
      <4>5. Slots(o)' = Slots(o)
        BY <3>1, <3>5 DEF Slots
      <4>6. CASE IsLast(o, k)
        <5>1. \A x \in Slots(o) : conn'[o][x].charset = native.charset
          BY <3>1, <3>5, <4>4, <4>6, VisitedFacts
        <5> QED
          BY <3>3, <3>5, <4>2, <4>5, <4>6, <5>1 DEF Uniform
      <4>7. CASE ~IsLast(o, k)
        <5>1. Visited(o, Following(o, k)) = Visited(o, k) \union {k}
          BY <3>1, <3>5, <4>7, VisitedFacts
        <5>2. native'.at = Following(o, k) /\ Following(o, k) # Main
          BY <3>1, <3>3, <3>5, <4>7, FollowingFacts DEF TypeInv
        <5>3. Visited(o, native.at)' = Visited(o, Following(o, k))
          BY <3>1, <3>5, <5>2 DEF Visited, Passed, Ring
        <5> QED
          BY <3>3, <3>5, <4>4, <4>7, <5>1, <5>2, <5>3
      <4> QED
        BY <4>6, <4>7
    <3> QED
      BY <3>4, <3>5
  <2>4. CASE CharsetFail
    <3>1. /\ conn' = conn /\ native'.op = "none" /\ native.op = "charset"
          /\ object' = [object EXCEPT ![native.object].agreed =
                                         @ /\ native.at = Main]
      BY <2>4 DEF CharsetFail, NoNative
    <3>2. object'[o].agreed = IF o = native.object
                              THEN object[o].agreed /\ native.at = Main
                              ELSE object[o].agreed
      <4>1. object[o] \in ObjectRecord
        BY <1>0
      <4>2. object'[o] = IF o = native.object
                         THEN [object[o] EXCEPT !.agreed = @ /\ native.at = Main]
                         ELSE object[o]
        BY <1>0, <3>1
      <4> QED
        BY <4>1, <4>2 DEF ObjectRecord
    <3> QED
      BY <1>1, <2>1, <3>1, <3>2
  <2>5. CASE DestroyNext
    <3>1. o # native.object /\ native.op = "close" /\ native'.op \in {"close", "none"}
      BY <1>0, <2>1, <2>5, DestroyFacts
    <3> QED
      BY <1>1, <2>1, <2>5, <3>1, DestroyFacts
  <2>6. ASSUME NEW p \in Object, NEW l \in Workers(p), WorkerStep(p, l)
        PROVE  Goal
    <3>1. /\ UNCHANGED <<object, native>>
          /\ \A k \in Slot : conn'[o][k].charset = conn[o][k].charset
      BY <2>6, WorkerFacts
    <3>2. CASE native.op = "charset" /\ native.object = o
      <4>1. Visited(o, native.at)' = Visited(o, native.at)
        BY <3>1 DEF Visited, Passed, Ring
      <4>2. Visited(o, native.at) \subseteq Slot
        BY RingFacts, SlotFacts DEF TypeInv, Visited
      <4>3. /\ \A x \in Visited(o, native.at) : conn[o][x].charset = native.charset
            /\ native.at = Main /\ object[o].agreed => Uniform(o)
        BY <2>1, <3>2 DEF CharsetInv, IsOpen
      <4>4. Uniform(o) => Uniform(o)'
        BY <2>1, <3>1, CharsetsKept
      <4> QED
        BY <3>1, <3>2, <4>1, <4>2, <4>3, <4>4
    <3>3. CASE ~(native.op = "charset" /\ native.object = o)
      BY <1>1, <2>1, <3>1, <3>3
    <3> QED
      BY <3>2, <3>3
  <2>7. CASE CountNext \/ CountReturn
    BY <1>1, <2>1, <2>7, QuietFacts
  <2> QED
    BY <1>4, <2>2, <2>3, <2>4, <2>5, <2>6, <2>7 DEF Inner, NativeGoesOn
<1>5. CASE UNCHANGED <<handleVars, handles>>
  <2>1. UNCHANGED <<object, conn, native>>
    BY <1>5 DEF handleVars
  <2> QED
    BY <2>1 DEF CharsetInv, IsOpen, Visited, Passed, Ring, Uniform, Slots
<1> QED
  BY <1>2, <1>3, <1>4, <1>5, Steps

\* Unless a mysql_set_charset has failed half-way, all connections of a handle
\* have the character set that mysql_get_charset reads from the main one,
\* wherever in the ring the native has started.
THEOREM CharsetsAreTheSame == Spec => []CharsetsAgree
<1>1. Init => FreshInv /\ CharsetInv
  BY DEF Init, HandleInit, NewObject, FreshInv, CharsetInv, IsOpen
<1>2. CharsetInv => CharsetsAgree
  BY DEF CharsetInv, CharsetsAgree, Uniform
<1> QED
  BY <1>1, <1>2, InitTypes, NextType, FreshStep, CharsetStep, PTL DEF Spec

-----------------------------------------------------------------------------
(***************************************************************************)
(* mysql_unprocessed_queries.                                              *)
(***************************************************************************)

\* The connections whose counter has been read.
Counted ==
    IF native.op = "counted" THEN Workers(native.object)
    ELSE Visited(native.object, native.at) \ {Main}

\* While the counters are read no query is given to anyone, and the workers
\* only count down: of the connections that have been read, what was read is
\* between what was open at the call and what is open now.
CountInv ==
    native.op \in {"count", "counted"} =>
       /\ \A k \in Slot : Counters(native.object)[k] <= native.before[k]
       /\ SumFunctionOnSet(Counters(native.object), Counted) <= native.sum
       /\ native.sum <= SumFunctionOnSet(native.before, Counted)

LEMMA CountersType ==
    ASSUME TypeInv, NEW o \in Object
    PROVE  /\ Counters(o) \in [Slot -> Nat]
           /\ \A k \in Slot : Counters(o)[k] = Unprocessed(o, k)
<1>1. ASSUME NEW k \in Slot PROVE Unprocessed(o, k) \in Nat
  <2>1. conn[o][k] \in ConnRecord
    BY Types DEF TypeInv
  <2> QED
    BY <2>1, QueueAssumption DEF ConnRecord, Unprocessed
<1> QED
  BY <1>1 DEF Counters

LEMMA WorkersFinite ==
    ASSUME TypeInv, NEW o \in Object
    PROVE  /\ Workers(o) = Slots(o) \ {Main} /\ Workers(o) \subseteq Slot
           /\ IsFiniteSet(Workers(o))
<1>1. object[o].size \in Nat
  BY Types, PoolAssumption DEF TypeInv, ObjectRecord
<1>2. IsFiniteSet(1 .. object[o].size + 1)
  <2>1. PICK n \in Int : n = object[o].size + 1
    BY <1>1
  <2>2. IsFiniteSet(1 .. n)
    BY FS_Interval
  <2> QED
    BY <2>1, <2>2
<1>3. 1 .. object[o].size + 1 = (0 .. object[o].size + 1) \ {0}
  BY <1>1
<1> QED
  BY <1>2, <1>3, RingFacts DEF TypeInv, Workers, Slots, Main

\* The round of the counters, one connection after the other.
LEMMA RoundFacts ==
    ASSUME TypeInv, native.op = "count"
    PROVE  LET o == native.object
               k == native.at
           IN  /\ o \in Object /\ k \in Workers(o) /\ k \in Slot
               /\ Counted \subseteq Workers(o) /\ k \notin Counted
               /\ IF IsLast(o, k) THEN Workers(o) = Counted \union {k}
                  ELSE Visited(o, Following(o, k)) \ {Main} = Counted \union {k}
<1> DEFINE o == native.object
           k == native.at
<1>1. o \in Object /\ k \in Slots(o) /\ k # Main /\ k \in Slot
  BY NativeFacts DEF TypeInv, NativeInv
<1>2. Workers(o) = Slots(o) \ {Main}
  BY <1>1, WorkersFinite
<1>3. k \notin Visited(o, k)
  <2>1. ~Passed(o, k, k)
    <3>1. object[o] \in ObjectRecord
      BY <1>1, Types DEF TypeInv
    <3>2. object[o].current \in Nat /\ k \in Nat
      BY <1>1, <3>1, SlotFacts DEF ObjectRecord
    <3> HIDE DEF o, k
    <3> QED
      BY <3>2 DEF Passed
  <2> QED
    BY <1>1, <2>1, SlotFacts DEF Visited
<1>4. Counted = Visited(o, k) \ {Main}
  BY DEF Counted
<1>5. Visited(o, k) \subseteq Slots(o)
  BY <1>1, RingFacts DEF TypeInv, Visited
<1>6. IF IsLast(o, k) THEN Slots(o) = Visited(o, k) \union {k}
      ELSE Visited(o, Following(o, k)) = Visited(o, k) \union {k}
  BY <1>1, VisitedFacts
<1> HIDE DEF o, k
<1>7. CASE IsLast(o, k)
  BY <1>1, <1>2, <1>3, <1>4, <1>5, <1>6, <1>7 DEF o, k
<1>8. CASE ~IsLast(o, k)
  BY <1>1, <1>2, <1>3, <1>4, <1>5, <1>6, <1>8 DEF o, k
<1> QED
  BY <1>7, <1>8

LEMMA CountedFinite ==
    ASSUME TypeInv, native.op \in {"count", "counted"}
    PROVE  /\ native.object \in Object
           /\ Counted \in SUBSET Slot /\ IsFiniteSet(Counted)
<1>1. native.object \in Object
  BY NativeFacts
<1>2. Counted \subseteq Workers(native.object)
  <2>1. CASE native.op = "count"
    BY <2>1, RoundFacts
  <2>2. CASE native.op = "counted"
    BY <2>2 DEF Counted
  <2> QED
    BY <2>1, <2>2
<1> QED
  BY <1>1, <1>2, WorkersFinite, FS_Subset

LEMMA CountBeginStep ==
    ASSUME TypeInv, NEW o \in Object, CountBegin(o)
    PROVE  CountInv'
<1>1. Counters(o) \in [Slot -> Nat]
  BY CountersType
<1>2. /\ native' = [NoNative EXCEPT !.op = "count", !.object = o, !.at = Threaded,
                                    !.before = Counters(o)]
      /\ UNCHANGED <<object, conn>>
  BY DEF CountBegin
<1>3. /\ native'.op = "count" /\ native'.object = o /\ native'.at = Threaded
      /\ native'.before = Counters(o) /\ native'.sum = 0
  BY <1>2 DEF NoNative
<1>4. Counted' = {}
  BY <1>3, SlotFacts DEF Counted, Visited
<1>5. Counters(native.object)' = Counters(o)
  BY <1>2, <1>3 DEF Counters, Unprocessed
<1>6. SumFunctionOnSet(Counters(o), {}) = 0
  BY <1>1, SumEmpty
<1>7. \A k \in Slot : Counters(o)[k] <= Counters(o)[k]
  BY <1>1
<1> QED
  BY <1>3, <1>4, <1>5, <1>6, <1>7 DEF CountInv

LEMMA CountNextStep ==
    ASSUME TypeInv, CountInv, CountNext
    PROVE  CountInv'
<1> DEFINE o == native.object
           k == native.at
           c == Counters(o)
           b == native.before
<1>1. /\ native.op = "count" /\ object' = object /\ conn' = conn
      /\ native' = [native EXCEPT !.sum = @ + Unprocessed(o, k),
                                  !.op = IF IsLast(o, k) THEN "counted" ELSE @,
                                  !.at = IF IsLast(o, k) THEN @ ELSE Following(o, k)]
  BY DEF CountNext
<1>2. native \in NativeRecord /\ b \in [Slot -> Nat] /\ native.sum \in Nat
  BY Types DEF TypeInv, NativeRecord
<1>3. /\ native'.sum = native.sum + Unprocessed(o, k)
      /\ native'.op = IF IsLast(o, k) THEN "counted" ELSE "count"
      /\ native'.at = IF IsLast(o, k) THEN k ELSE Following(o, k)
      /\ native'.object = o /\ native'.before = b
  BY <1>1, <1>2 DEF NativeRecord
<1>4. /\ o \in Object /\ k \in Slot
      /\ Counted \subseteq Workers(o) /\ k \notin Counted
      /\ IF IsLast(o, k) THEN Workers(o) = Counted \union {k}
         ELSE Visited(o, Following(o, k)) \ {Main} = Counted \union {k}
  BY <1>1, RoundFacts
<1>5. c \in [Slot -> Nat] /\ c[k] = Unprocessed(o, k)
  BY <1>4, CountersType
<1>6. Counted' = Counted \union {k}
  <2>1. /\ Workers(native.object)' = Workers(o)
        /\ Visited(native.object, native.at)' = Visited(o, native'.at)
    BY <1>1, <1>3 DEF Workers, Visited, Ring, Passed
  <2> QED
    BY <1>3, <1>4, <2>1 DEF Counted
<1>7. Counters(native.object)' = c
  BY <1>1, <1>3 DEF Counters, Unprocessed
<1>8. Counted \in SUBSET Slot /\ IsFiniteSet(Counted)
  BY <1>1, CountedFinite
<1>9. /\ \A x \in Slot : c[x] <= b[x]
      /\ SumFunctionOnSet(c, Counted) <= native.sum
      /\ native.sum <= SumFunctionOnSet(b, Counted)
  BY <1>1 DEF CountInv
<1> HIDE DEF c, b, o, k
<1>10. /\ SumFunctionOnSet(c, Counted \union {k}) = c[k] + SumFunctionOnSet(c, Counted)
       /\ SumFunctionOnSet(b, Counted \union {k}) = b[k] + SumFunctionOnSet(b, Counted)
  <2>1. k \in Slot \ Counted
    BY <1>4
  <2> QED
    BY <1>2, <1>5, <1>8, <2>1, SumAdd
<1>11. SumFunctionOnSet(c, Counted) \in Nat /\ SumFunctionOnSet(b, Counted) \in Nat
  BY <1>2, <1>5, <1>8, SumType
<1>12. c[k] \in Nat /\ b[k] \in Nat /\ c[k] <= b[k]
  BY <1>2, <1>4, <1>5, <1>9
<1>13. /\ SumFunctionOnSet(c, Counted \union {k}) <= native'.sum
       /\ native'.sum <= SumFunctionOnSet(b, Counted \union {k})
  <2>1. native'.sum = native.sum + c[k]
    BY <1>3, <1>5
  <2>2. \A s, t, u, v, w \in Nat : s <= u /\ u <= t /\ v <= w =>
                                      v + s <= u + v /\ u + v <= w + t
    OBVIOUS
  <2> QED
    BY <1>2, <1>9, <1>10, <1>11, <1>12, <2>1, <2>2
<1> QED
  BY <1>3, <1>6, <1>7, <1>9, <1>13 DEF CountInv

LEMMA CountWorkerStep ==
    ASSUME TypeInv, TypeInv', CountInv, NEW p \in Object, NEW j \in Workers(p),
           WorkerStep(p, j)
    PROVE  CountInv'
<1> SUFFICES ASSUME native'.op \in {"count", "counted"} PROVE CountInv'
  BY DEF CountInv
<1> DEFINE o == native.object
           c == Counters(o)
           d == Counters(o)'
           b == native.before
<1>1. object' = object /\ native' = native
  BY WorkerFacts
<1>2. native.op \in {"count", "counted"}
  BY <1>1
<1>3. native \in NativeRecord /\ b \in [Slot -> Nat] /\ native.sum \in Nat
  BY Types DEF TypeInv, NativeRecord
<1>4. o \in Object /\ Counted \in SUBSET Slot /\ IsFiniteSet(Counted)
  BY <1>2, CountedFinite
<1>5. c \in [Slot -> Nat] /\ \A k \in Slot : c[k] = Unprocessed(o, k)
  BY <1>4, CountersType
<1>6. \A k \in Slot : Unprocessed(o, k)' \in Nat /\ Unprocessed(o, k)' <= Unprocessed(o, k)
  <2> SUFFICES ASSUME NEW k \in Slot
               PROVE  Unprocessed(o, k)' \in Nat /\ Unprocessed(o, k)' <= Unprocessed(o, k)
    OBVIOUS
  <2>1. j \in Slot
    BY RingFacts DEF TypeInv
  <2>2. conn \in [Object -> [Slot -> ConnRecord]]
    BY Types DEF TypeInv
  <2>3. conn[p][j] \in ConnRecord /\ conn[o][k] \in ConnRecord
    BY <1>4, <2>1, <2>2
  <2>4. CASE o = p /\ k = j
    <3> DEFINE r == conn[p][j]
    <3>1. r.queued \in Nat /\ r.inHand \in {0, 1}
      BY <2>3, QueueAssumption DEF ConnRecord
    <3>2. CASE WorkerTake(p, j)
      <4>1. r.queued > 0 /\ r.inHand = 0
        BY <3>2 DEF WorkerTake
      <4>2. /\ conn'[p][j].queued = r.queued - 1 /\ conn'[p][j].inHand = 1
        BY <2>1, <2>2, <2>3, <3>2 DEF WorkerTake, ConnRecord
      <4> QED
        BY <1>1, <2>4, <3>1, <4>1, <4>2 DEF Unprocessed
    <3>3. CASE WorkerFinish(p, j)
      <4>1. r.inHand = 1
        BY <3>3 DEF WorkerFinish
      <4>2. conn'[p][j].queued = r.queued /\ conn'[p][j].inHand = 0
        BY <2>1, <2>2, <2>3, <3>3 DEF WorkerFinish, ConnRecord
      <4> QED
        BY <1>1, <2>4, <3>1, <4>1, <4>2 DEF Unprocessed
    <3> QED
      BY <3>2, <3>3 DEF WorkerStep
  <2>5. CASE ~(o = p /\ k = j)
    <3>1. conn'[o][k] = conn[o][k]
      BY <1>4, <2>5, WorkerFacts
    <3>2. Unprocessed(o, k)' = Unprocessed(o, k)
      BY <1>1, <3>1 DEF Unprocessed
    <3>3. Unprocessed(o, k) \in Nat
      BY <1>5
    <3> QED
      BY <3>2, <3>3
  <2> QED
    BY <2>4, <2>5
<1>7. d \in [Slot -> Nat] /\ \A k \in Slot : d[k] <= c[k]
  BY <1>5, <1>6 DEF Counters
<1>8. Counted' = Counted /\ Counters(native.object)' = d
  BY <1>1 DEF Counted, Workers, Visited, Ring, Passed
<1>9. /\ \A x \in Slot : c[x] <= b[x]
      /\ SumFunctionOnSet(c, Counted) <= native.sum
      /\ native.sum <= SumFunctionOnSet(b, Counted)
  BY <1>2 DEF CountInv
<1> HIDE DEF c, d, b, o
<1>10. SumFunctionOnSet(d, Counted) <= SumFunctionOnSet(c, Counted)
  BY <1>4, <1>5, <1>7, SumMonotone
<1>11. SumFunctionOnSet(c, Counted) \in Nat /\ SumFunctionOnSet(d, Counted) \in Nat
  BY <1>4, <1>5, <1>7, SumType
<1>12. SumFunctionOnSet(d, Counted) <= native.sum
  BY <1>3, <1>9, <1>10, <1>11
<1>13. \A x \in Slot : d[x] <= b[x]
  <2> TAKE x \in Slot
  <2>1. d[x] \in Nat /\ c[x] \in Nat /\ b[x] \in Nat
    BY <1>3, <1>5, <1>7
  <2> QED
    BY <1>7, <1>9, <2>1
<1> QED
  BY <1>1, <1>8, <1>9, <1>12, <1>13 DEF CountInv, b

\* What does not count.
LEMMA CountOther ==
    ASSUME native'.op \notin {"count", "counted"}
    PROVE  CountInv'
BY DEF CountInv

LEMMA CountStep == TypeInv /\ TypeInv' /\ CountInv /\ [Next]_vars => CountInv'
<1> SUFFICES ASSUME TypeInv, TypeInv', CountInv, [Next]_vars PROVE CountInv'
  OBVIOUS
<1>0. native \in NativeRecord /\ NoNative.op = "none"
  BY Types DEF TypeInv, NoNative
<1>1. ASSUME NEW p \in Object, NEW database \in Database,
             NEW size \in 0 .. MaxPool, Connect(p, database, size)
      PROVE  CountInv'
  BY <1>0, <1>1, CountOther DEF Connect, ScriptRuns
<1>2. ASSUME NEW i \in HandleId, Close(i) PROVE CountInv'
  <2>1. native'.op = "close"
    BY <1>2, CloseFacts
  <2> QED
    BY <2>1, CountOther
<1>3. CASE Inner
  <2>1. ASSUME NEW i \in DOMAIN handles, HandleNative(handles[i]) PROVE CountInv'
    <3> DEFINE p == handles[i]
    <3>1. p \in Object
      BY Types DEF TypeInv, HandlesType
    <3> HIDE DEF p
    <3>2. CASE TQuery(p) \/ PQuery(p)
      BY <1>0, <3>2, CountOther DEF TQuery, PQuery, ScriptRuns
    <3>3. CASE CountBegin(p)
      BY <3>1, <3>3, CountBeginStep
    <3>4. ASSUME NEW charset \in Charset, CharsetBegin(p, charset) PROVE CountInv'
      <4>1. native'.op = "charset"
        BY <3>4 DEF CharsetBegin, Begin, NoNative
      <4> QED
        BY <4>1, CountOther
    <3> QED
      BY <2>1, <3>2, <3>3, <3>4 DEF HandleNative, p
  <2>2. CASE CountNext
    BY <2>2, CountNextStep
  <2>3. CASE CountReturn \/ CharsetFail
    BY <1>0, <2>3, CountOther DEF CountReturn, CharsetFail
  <2>4. CASE CharsetNext
    <3>1. native.op = "charset"
      BY <2>4 DEF CharsetNext
    <3>2. native' = NoNative \/ native' = [native EXCEPT !.at = Following(native.object, native.at)]
      BY <2>4 DEF CharsetNext
    <3>3. native'.op \in {"none", "charset"}
      BY <1>0, <3>1, <3>2 DEF NativeRecord
    <3> QED
      BY <3>3, CountOther
  <2>5. CASE DestroyNext
    <3>1. native'.op \in {"close", "none"}
      BY <2>5, DestroyFacts
    <3> QED
      BY <3>1, CountOther
  <2>6. ASSUME NEW p \in Object, NEW k \in Workers(p), WorkerStep(p, k) PROVE CountInv'
    BY <2>6, CountWorkerStep
  <2> QED
    BY <1>3, <2>1, <2>2, <2>3, <2>4, <2>5, <2>6 DEF Inner, NativeGoesOn
<1>4. CASE UNCHANGED <<handleVars, handles>>
  BY <1>4 DEF handleVars, CountInv, Counted, Counters, Unprocessed, Workers, Visited,
              Ring, Passed
<1> QED
  BY <1>1, <1>2, <1>3, <1>4, Steps

\* What mysql_unprocessed_queries returns, for a pool of any size and however
\* far the workers get meanwhile, is at most what was open at the call and at
\* least what is open at the return.
THEOREM CountIsBounded == Spec => []UnprocessedBounds
<1>1. Init => TypeInv /\ CountInv
  <2>1. Init => CountInv
    BY DEF Init, HandleInit, NoNative, CountInv
  <2> QED
    BY <2>1, InitTypes
<1>2. TypeInv /\ CountInv /\ [Next]_vars => (TypeInv /\ CountInv)'
  BY NextType, CountStep
<1>3. CountInv => UnprocessedBounds
  BY DEF CountInv, UnprocessedBounds, Counted
<1> QED
  BY <1>1, <1>2, <1>3, PTL DEF Spec

-----------------------------------------------------------------------------
(***************************************************************************)
(* What the natives and the files have said, as a sequence.                *)
(***************************************************************************)
Word == (UNION {Values(o) : o \in Option}) \union {""}

Saying == [what : Option \union Login \union {"wrong"}, value : Word, file : BOOLEAN]

\* The places of what counts for o, and the last one.
Places(s, o) == {k \in DOMAIN s : s[k].what = o /\ Counts(s[k])}

Last0(s, o) == Max({0} \union Places(s, o))

\* What an option is after a word on it that counts.
Follows(held, o, x) ==
    CASE o = "text" -> x.file => held = x.value
      [] o = "flag" /\ x.value = "neither" -> held = "true"
      [] OTHER -> held = x.value

\* What an option is after what has been said.
AsTold(held, s, o) ==
    LET k == Last0(s, o)
    IN  IF k = 0 THEN held = Defaults[o] ELSE Follows(held, o, s[k])

LEMMA LastFacts ==
    ASSUME NEW s \in Seq(Saying), NEW o
    PROVE  /\ Last0(s, o) \in 0 .. Len(s)
           /\ Last0(s, o) \in {0} \union Places(s, o)
           /\ \A k \in Places(s, o) : k <= Last0(s, o)
<1> DEFINE S == {0} \union Places(s, o)
<1>1. S \in SUBSET (0 .. Len(s)) /\ S # {} /\ Len(s) \in Nat
  BY DEF Places
<1>2. Max(S) \in S /\ \A x \in S : x <= Max(S)
  <2> HIDE DEF S
  <2> QED
    BY <1>1, MaxFacts
<1>3. Last0(s, o) = Max(S)
  BY DEF Last0
<1> QED
  BY <1>1, <1>2, <1>3

LEMMA LastIs ==
    ASSUME NEW s \in Seq(Saying), NEW o, NEW m \in {0} \union Places(s, o),
           \A k \in {0} \union Places(s, o) : k <= m
    PROVE  Last0(s, o) = m
<1> DEFINE S == {0} \union Places(s, o)
<1>1. S \in SUBSET (0 .. Len(s)) /\ S # {} /\ Len(s) \in Nat /\ m \in S
  BY DEF Places
<1>2. \A x \in S : x <= m
  OBVIOUS
<1>3. Max(S) = m
  <2> HIDE DEF S
  <2> QED
    BY <1>1, <1>2, MaxFacts
<1> QED
  BY <1>3 DEF Last0

LEMMA LastOfNothing ==
    ASSUME NEW o
    PROVE  Last0(<<>>, o) = 0
<1>0. <<>> \in Seq(Saying)
  OBVIOUS
<1>1. PICK s \in Seq(Saying) : s = <<>>
  BY <1>0
<1>2. Last0(s, o) \in 0 .. Len(s) /\ Len(s) = 0
  BY <1>1, LastFacts
<1> QED
  BY <1>1, <1>2

LEMMA LastAppend ==
    ASSUME NEW s \in Seq(Saying), NEW x \in Saying, NEW o
    PROVE  Last0(Append(s, x), o) =
              IF x.what = o /\ Counts(x) THEN Len(s) + 1 ELSE Last0(s, o)
<1> DEFINE t == Append(s, x)
<1>1. /\ t \in Seq(Saying) /\ Len(t) = Len(s) + 1 /\ Len(s) \in Nat
      /\ DOMAIN s = 1 .. Len(s) /\ DOMAIN t = 1 .. Len(s) + 1
      /\ t[Len(s) + 1] = x /\ \A k \in 1 .. Len(s) : t[k] = s[k]
  OBVIOUS
<1> HIDE DEF t
<1>2. CASE x.what = o /\ Counts(x)
  <2>1. Len(s) + 1 \in Places(t, o)
    BY <1>1, <1>2 DEF Places
  <2>2. \A k \in {0} \union Places(t, o) : k <= Len(s) + 1
    BY <1>1 DEF Places
  <2>3. Last0(t, o) = Len(s) + 1
    <3> DEFINE m == Len(s) + 1
    <3>1. m \in {0} \union Places(t, o) /\ \A k \in {0} \union Places(t, o) : k <= m
      BY <2>1, <2>2
    <3> HIDE DEF m
    <3>2. Last0(t, o) = m
      BY <1>1, <3>1, LastIs
    <3> QED
      BY <3>2 DEF m
  <2> QED
    BY <1>2, <2>3 DEF t
<1>3. CASE ~(x.what = o /\ Counts(x))
  <2>1. Places(t, o) = Places(s, o)
    <3>1. ASSUME NEW k \in Places(t, o) PROVE k \in Places(s, o)
      <4>1. k # Len(s) + 1
        BY <1>1, <1>3, <3>1 DEF Places
      <4>2. k \in 1 .. Len(s) /\ t[k] = s[k]
        BY <1>1, <3>1, <4>1 DEF Places
      <4> QED
        BY <1>1, <3>1, <4>2 DEF Places
    <3>2. ASSUME NEW k \in Places(s, o) PROVE k \in Places(t, o)
      BY <1>1, <3>2 DEF Places
    <3> QED
      BY <3>1, <3>2
  <2>2. Last0(t, o) = Last0(s, o)
    BY <2>1 DEF Last0
  <2> QED
    BY <1>3, <2>2 DEF t
<1> QED
  BY <1>2, <1>3

\* What counts for another option, or not at all, leaves an option as told.
LEMMA ToldOther ==
    ASSUME NEW s \in Seq(Saying), NEW x \in Saying, NEW o, NEW held,
           AsTold(held, s, o), ~(x.what = o /\ Counts(x))
    PROVE  AsTold(held, Append(s, x), o)
<1> DEFINE k == Last0(s, o)
<1>1. Last0(Append(s, x), o) = k /\ k \in 0 .. Len(s)
  BY LastAppend, LastFacts
<1>2. k # 0 => Append(s, x)[k] = s[k]
  BY <1>1
<1> HIDE DEF k
<1>3. CASE k = 0
  BY <1>1, <1>3 DEF AsTold, k
<1>4. CASE k # 0
  <2> DEFINE t == Append(s, x)
  <2>1. t[k] = s[k] /\ Last0(t, o) = k /\ Last0(s, o) = k
    BY <1>1, <1>2, <1>4 DEF k
  <2> HIDE DEF t
  <2>2. AsTold(held, t, o)
    BY <1>4, <2>1 DEF AsTold
  <2> QED
    BY <2>2 DEF t
<1> QED
  BY <1>3, <1>4

LEMMA ToldNow ==
    ASSUME NEW s \in Seq(Saying), NEW x \in Saying, NEW o, NEW held,
           x.what = o, Counts(x), Follows(held, o, x)
    PROVE  AsTold(held, Append(s, x), o)
<1> DEFINE t == Append(s, x)
           k == Len(s) + 1
<1>1. Last0(t, o) = k /\ k # 0 /\ t[k] = x
  BY LastAppend
<1> HIDE DEF t, k
<1>2. AsTold(held, t, o)
  BY <1>1 DEF AsTold
<1> QED
  BY <1>2 DEF t

LEMMA ToldNothing ==
    ASSUME NEW o
    PROVE  AsTold(Defaults[o], <<>>, o)
BY LastOfNothing DEF AsTold

-----------------------------------------------------------------------------
(***************************************************************************)
(* The inductive invariant.                                                *)
(***************************************************************************)
InstancesInv ==
    /\ DOMAIN said = DOMAIN options
    /\ DOMAIN options \subseteq 0 .. MaxOptions
    /\ \A i \in DOMAIN options : said[i] \in Seq(Saying) /\ DOMAIN options[i] = Option

ToldInv ==
    \A i \in DOMAIN options, o \in Option : AsTold(options[i][o], said[i], o)

\* While a file is read: what is in it so far, and nothing wrong.
ReadingInv ==
    reading # NotReading =>
       /\ reading \in DOMAIN options
       /\ Last0(said[reading], "wrong") = 0
       /\ login = {l \in Login : Last0(said[reading], l) # 0}

\* Nothing more is said by the file of the outcome, and no native says a login.
OutcomeInv ==
    outcome.id # NotReading =>
       /\ outcome.id \in DOMAIN options /\ outcome.id # reading
       /\ outcome.connected <=>
             /\ Last0(said[outcome.id], "wrong") = 0
             /\ \A l \in Login : Last0(said[outcome.id], l) # 0

SaidInv == InstancesInv /\ ToldInv /\ ReadingInv /\ OutcomeInv

LEMMA LastIsLastWord ==
    ASSUME NEW i, NEW o
    PROVE  LastWord(i, o) = Last0(said[i], o)
BY DEF LastWord, Last0, Places

LEMMA SaidImplies == SaidInv => OptionsAreAsSaid
<1> SUFFICES ASSUME SaidInv PROVE OptionsAreAsSaid
  OBVIOUS
<1>1. \A i, o : LastWord(i, o) = Last0(said[i], o)
  BY LastIsLastWord
<1>2. ASSUME NEW i \in DOMAIN options, NEW o \in Option
      PROVE  LET k == LastWord(i, o)
                 s == said[i][k]
             IN  IF k = 0 THEN options[i][o] = Defaults[o]
                 ELSE CASE o = "text" -> s.file => options[i][o] = s.value
                        [] o = "flag" /\ s.value = "neither" -> options[i][o] = "true"
                        [] OTHER -> options[i][o] = s.value
  <2>1. AsTold(options[i][o], said[i], o)
    BY <1>2 DEF SaidInv, ToldInv
  <2> QED
    BY <1>1, <2>1 DEF AsTold, Follows
<1>3. outcome.id # NotReading =>
         (outcome.connected <=>
            /\ LastWord(outcome.id, "wrong") = 0
            /\ \A l \in Login : LastWord(outcome.id, l) # 0)
  BY <1>1 DEF SaidInv, OutcomeInv
<1> QED
  BY <1>2, <1>3 DEF OptionsAreAsSaid

LEMMA SaidInit == OptionsInit => SaidInv
<1> SUFFICES ASSUME OptionsInit PROVE SaidInv
  OBVIOUS
<1>1. /\ DOMAIN options = {0} /\ DOMAIN said = {0} /\ options[0] = Defaults
      /\ said[0] = <<>> /\ reading = NotReading /\ outcome = NoOutcome
  BY DEF OptionsInit
<1>2. InstancesInv
  <2>1. DOMAIN Defaults = Option
    BY DEF Defaults, Option
  <2>2. {0} \subseteq 0 .. MaxOptions /\ <<>> \in Seq(Saying)
    BY LimitAssumption
  <2>3. \A i \in {0} : said[i] \in Seq(Saying) /\ DOMAIN options[i] = Option
    BY <1>1, <2>1, <2>2
  <2> QED
    BY <1>1, <2>2, <2>3 DEF InstancesInv
<1>3. ToldInv
  BY <1>1, ToldNothing DEF ToldInv
<1>4. ReadingInv /\ OutcomeInv
  BY <1>1 DEF ReadingInv, OutcomeInv, NoOutcome
<1> QED
  BY <1>2, <1>3, <1>4 DEF SaidInv

\* COptionManager::Create: nothing has been said of the new instance.
LEMMA CreateFacts ==
    ASSUME SaidInv, NEW i \in 1 .. MaxOptions, CreateOptions(i)
    PROVE  /\ InstancesInv' /\ ToldInv'
           /\ i \in DOMAIN options' /\ said'[i] = <<>> /\ i \notin DOMAIN options
           /\ DOMAIN options' = DOMAIN options \union {i}
           /\ \A j \in DOMAIN options : said'[j] = said[j]
<1>1. /\ i \notin DOMAIN options
      /\ options' = Extended(options, i, Defaults) /\ said' = Extended(said, i, <<>>)
  BY DEF CreateOptions
<1>2. /\ DOMAIN options' = DOMAIN options \union {i}
      /\ options'[i] = Defaults
      /\ \A j \in DOMAIN options : options'[j] = options[j]
  BY <1>1 DEF Extended
<1>3. /\ DOMAIN said' = DOMAIN options \union {i}
      /\ said'[i] = <<>>
      /\ \A j \in DOMAIN options : said'[j] = said[j]
  BY <1>1 DEF Extended, SaidInv, InstancesInv
<1>4. InstancesInv'
  <2>1. DOMAIN Defaults = Option
    BY DEF Defaults, Option
  <2>2. DOMAIN options' \subseteq 0 .. MaxOptions
    BY <1>2, LimitAssumption DEF SaidInv, InstancesInv
  <2>3. ASSUME NEW j \in DOMAIN options'
        PROVE  said'[j] \in Seq(Saying) /\ DOMAIN options'[j] = Option
    <3>1. CASE j = i
      BY <1>2, <1>3, <2>1, <3>1
    <3>2. CASE j # i
      BY <1>2, <1>3, <3>2 DEF SaidInv, InstancesInv
    <3> QED
      BY <3>1, <3>2
  <2> QED
    BY <1>2, <1>3, <2>2, <2>3 DEF InstancesInv
<1>5. ToldInv'
  <2>1. ASSUME NEW j \in DOMAIN options', NEW o \in Option
        PROVE  AsTold(options'[j][o], said'[j], o)
    <3>1. CASE j = i
      BY <1>2, <1>3, <3>1, ToldNothing
    <3>2. CASE j # i
      <4>1. j \in DOMAIN options
        BY <1>2, <3>2
      <4>2. AsTold(options[j][o], said[j], o)
        BY <4>1 DEF SaidInv, ToldInv
      <4> QED
        BY <1>2, <1>3, <4>1, <4>2
    <3> QED
      BY <3>1, <3>2
  <2> QED
    BY <2>1 DEF ToldInv
<1> QED
  BY <1>1, <1>2, <1>3, <1>4, <1>5

LEMMA InitOptionsStep == SaidInv /\ InitOptions => SaidInv'
<1> SUFFICES ASSUME SaidInv, InitOptions PROVE SaidInv'
  OBVIOUS
<1>1. PICK i \in 1 .. MaxOptions : CreateOptions(i)
  BY DEF InitOptions
<1>2. /\ InstancesInv' /\ ToldInv'
      /\ i \notin DOMAIN options /\ DOMAIN options' = DOMAIN options \union {i}
      /\ \A j \in DOMAIN options : said'[j] = said[j]
  BY <1>1, CreateFacts
<1>3. reading = NotReading /\ reading' = reading /\ outcome' = outcome
  BY DEF InitOptions
<1>4. ReadingInv' /\ OutcomeInv'
  BY <1>2, <1>3 DEF SaidInv, ReadingInv, OutcomeInv
<1> QED
  BY <1>2, <1>4 DEF SaidInv

LEMMA FileOpenStep == SaidInv /\ FileOpen => SaidInv'
<1> SUFFICES ASSUME SaidInv, FileOpen PROVE SaidInv'
  OBVIOUS
<1>1. PICK i \in 1 .. MaxOptions : CreateOptions(i) /\ reading' = i
  BY DEF FileOpen
<1>2. /\ InstancesInv' /\ ToldInv'
      /\ i \in DOMAIN options' /\ said'[i] = <<>>
      /\ i \notin DOMAIN options /\ DOMAIN options' = DOMAIN options \union {i}
      /\ \A j \in DOMAIN options : said'[j] = said[j]
  BY <1>1, CreateFacts
<1>3. login' = {} /\ outcome' = outcome
  BY DEF FileOpen
<1>4. ReadingInv'
  <2>1. \A o : Last0(said'[i], o) = 0
    BY <1>2, LastOfNothing
  <2> QED
    BY <1>1, <1>2, <1>3, <2>1 DEF ReadingInv
<1>5. OutcomeInv'
  <2>1. SUFFICES ASSUME outcome.id # NotReading
        PROVE  /\ outcome.id \in DOMAIN options' /\ outcome.id # reading'
               /\ outcome.connected <=>
                     /\ Last0(said'[outcome.id], "wrong") = 0
                     /\ \A l \in Login : Last0(said'[outcome.id], l) # 0
    BY <1>3 DEF OutcomeInv
  <2>2. outcome.id \in DOMAIN options
    BY <2>1 DEF SaidInv, OutcomeInv
  <2>3. said'[outcome.id] = said[outcome.id] /\ outcome.id # i
    BY <1>2, <2>2
  <2> QED
    BY <1>1, <1>2, <2>1, <2>2, <2>3 DEF SaidInv, OutcomeInv
<1> QED
  BY <1>2, <1>4, <1>5 DEF SaidInv

\* What a file or a native says about one instance: the others keep what they
\* were told, and so do the other options of this one.
LEMMA SaysFacts ==
    ASSUME SaidInv, NEW i \in DOMAIN options, NEW what \in Option \union Login \union {"wrong"},
           NEW value \in Word, Says(i, what, value)
    PROVE  \E x \in Saying :
              /\ x.what = what /\ x.value = value /\ x.file = (reading = i)
              /\ said' = [said EXCEPT ![i] = Append(said[i], x)]
<1> DEFINE x == [what |-> what, value |-> value, file |-> reading = i]
<1>1. x \in Saying
  BY DEF Saying
<1>2. x.what = what /\ x.value = value /\ x.file = (reading = i)
  OBVIOUS
<1>3. said' = [said EXCEPT ![i] = Append(said[i], x)]
  BY DEF Says
<1> QED
  BY <1>1, <1>2, <1>3

LEMMA SaidKept ==
    ASSUME SaidInv, NEW i \in DOMAIN options, NEW x \in Saying,
           said' = [said EXCEPT ![i] = Append(said[i], x)],
           DOMAIN options' = DOMAIN options,
           \A j \in DOMAIN options : DOMAIN options'[j] = Option,
           \A j \in DOMAIN options \ {i} : options'[j] = options[j],
           \A o \in Option :
              \/ options'[i][o] = options[i][o] /\ ~(x.what = o /\ Counts(x))
              \/ x.what = o /\ Counts(x) /\ Follows(options'[i][o], o, x)
    PROVE  /\ InstancesInv' /\ ToldInv'
           /\ said'[i] = Append(said[i], x) /\ said[i] \in Seq(Saying)
           /\ \A j \in DOMAIN options \ {i} : said'[j] = said[j]
<1>1. DOMAIN said = DOMAIN options /\ said[i] \in Seq(Saying)
  BY DEF SaidInv, InstancesInv
<1>2. /\ DOMAIN said' = DOMAIN options' /\ said'[i] = Append(said[i], x)
      /\ \A j \in DOMAIN options \ {i} : said'[j] = said[j]
  BY <1>1
<1>3. InstancesInv'
  <2>1. said'[i] \in Seq(Saying)
    BY <1>1, <1>2
  <2>2. \A j \in DOMAIN options : said'[j] \in Seq(Saying)
    BY <1>2, <2>1 DEF SaidInv, InstancesInv
  <2> QED
    BY <1>2, <2>2 DEF SaidInv, InstancesInv
<1>4. ToldInv'
  <2>1. ASSUME NEW j \in DOMAIN options', NEW o \in Option
        PROVE  AsTold(options'[j][o], said'[j], o)
    <3>0. AsTold(options[j][o], said[j], o)
      BY <2>1 DEF SaidInv, ToldInv
    <3>1. CASE j # i
      BY <1>2, <3>0, <3>1
    <3>2. CASE j = i
      <4>1. ASSUME options'[i][o] = options[i][o], ~(x.what = o /\ Counts(x))
            PROVE  AsTold(options'[i][o], said'[i], o)
        BY <1>1, <1>2, <3>0, <3>2, <4>1, ToldOther
      <4>2. ASSUME x.what = o, Counts(x), Follows(options'[i][o], o, x)
            PROVE  AsTold(options'[i][o], said'[i], o)
        BY <1>1, <1>2, <4>2, ToldNow
      <4> QED
        BY <3>2, <4>1, <4>2
    <3> QED
      BY <3>1, <3>2
  <2> QED
    BY <2>1 DEF ToldInv
<1> QED
  BY <1>1, <1>2, <1>3, <1>4

\* What is said of one word: the last places of the other words stay.
LEMMA LastKept ==
    ASSUME NEW s \in Seq(Saying), NEW x \in Saying, NEW o, x.what # o
    PROVE  Last0(Append(s, x), o) = Last0(s, o)
BY LastAppend

\* A native does not speak of logins, and a file not of the last file.
LEMMA OutcomeKept ==
    ASSUME SaidInv, NEW i \in DOMAIN options, NEW x \in Saying,
           said'[i] = Append(said[i], x), said[i] \in Seq(Saying),
           \A j \in DOMAIN options \ {i} : said'[j] = said[j],
           x.what \in Option \/ i = reading,
           DOMAIN options' = DOMAIN options, reading' = reading, outcome' = outcome
    PROVE  OutcomeInv'
<1> SUFFICES ASSUME outcome.id # NotReading
             PROVE  /\ outcome.id \in DOMAIN options /\ outcome.id # reading
                    /\ outcome.connected <=>
                          /\ Last0(said'[outcome.id], "wrong") = 0
                          /\ \A l \in Login : Last0(said'[outcome.id], l) # 0
  BY DEF OutcomeInv
<1>1. /\ outcome.id \in DOMAIN options /\ outcome.id # reading
      /\ outcome.connected <=>
            /\ Last0(said[outcome.id], "wrong") = 0
            /\ \A l \in Login : Last0(said[outcome.id], l) # 0
  BY DEF SaidInv, OutcomeInv
<1>2. CASE outcome.id # i
  BY <1>1, <1>2
<1>3. CASE outcome.id = i
  <2>1. x.what \in Option
    BY <1>1, <1>3
  <2>2. x.what # "wrong" /\ x.what \notin Login
    BY <2>1 DEF Option, Login
  <2>3. Last0(said'[i], "wrong") = Last0(said[i], "wrong")
    BY <2>2, LastKept
  <2>4. \A l \in Login : Last0(said'[i], l) = Last0(said[i], l)
    BY <2>2, LastKept
  <2> QED
    BY <1>1, <1>3, <2>3, <2>4
<1> QED
  BY <1>2, <1>3

LEMMA SetOptionStep ==
    ASSUME SaidInv, NEW i \in 0 .. MaxOptions, NEW o \in Option, NEW value \in Values(o),
           SetOption(i, o, value)
    PROVE  SaidInv'
<1>1. i \in DOMAIN options /\ reading = NotReading /\ Says(i, o, value)
  BY DEF SetOption
<1>2. reading' = reading /\ login' = login /\ outcome' = outcome
  BY DEF SetOption
<1>3. PICK x \in Saying :
         /\ x.what = o /\ x.value = value /\ x.file = (reading = i)
         /\ said' = [said EXCEPT ![i] = Append(said[i], x)]
  <2>1. value \in Word
    BY DEF Word
  <2> QED
    BY <1>1, <2>1, SaysFacts
<1>4. x.file = FALSE
  <2>1. reading # i
    BY <1>1 DEF NotReading
  <2> QED
    BY <1>3, <2>1
<1>5. /\ DOMAIN options' = DOMAIN options
      /\ \A j \in DOMAIN options : DOMAIN options'[j] = Option
      /\ \A j \in DOMAIN options \ {i} : options'[j] = options[j]
      /\ \A q \in Option \ {o} : options'[i][q] = options[i][q]
  <2>0. \A j \in DOMAIN options : DOMAIN options[j] = Option
    BY DEF SaidInv, InstancesInv
  <2>1. options' = options \/ \E v : Assign(i, o, v)
    BY DEF SetOption
  <2>2. CASE options' = options
    BY <2>0, <2>2
  <2>3. ASSUME NEW v, Assign(i, o, v)
        PROVE  /\ DOMAIN options' = DOMAIN options
               /\ \A j \in DOMAIN options : DOMAIN options'[j] = Option
               /\ \A j \in DOMAIN options \ {i} : options'[j] = options[j]
               /\ \A q \in Option \ {o} : options'[i][q] = options[i][q]
    <3>1. options' = [options EXCEPT ![i] = [options[i] EXCEPT ![o] = v]]
      BY <2>3 DEF Assign
    <3>2. DOMAIN [options[i] EXCEPT ![o] = v] = Option
      BY <1>1, <2>0
    <3> QED
      BY <1>1, <2>0, <3>1, <3>2
  <2> QED
    BY <2>1, <2>2, <2>3
<1>6. \/ options'[i][o] = options[i][o] /\ ~(x.what = o /\ Counts(x))
      \/ x.what = o /\ Counts(x) /\ Follows(options'[i][o], o, x)
  <2>0. o \in {"number", "flag", "text"}
    BY DEF Option
  <2>1. \A v : Assign(i, o, v) => options'[i][o] = v
    <3>1. DOMAIN options[i] = Option
      BY <1>1 DEF SaidInv, InstancesInv
    <3> QED
      BY <1>1, <3>1 DEF Assign
  <2>2. CASE o = "number" /\ value \notin 0 .. PoolLimit
    <3>1. options' = options
      BY <2>2 DEF SetOption
    <3>2. ~Counts(x)
      BY <1>3, <1>4, <2>2 DEF Counts
    <3> QED
      BY <3>1, <3>2
  <2>3. CASE o = "number" /\ value \in 0 .. PoolLimit
    <3>1. options'[i][o] = value
      BY <2>1, <2>3 DEF SetOption
    <3>2. Counts(x)
      BY <1>3, <1>4, <2>3 DEF Counts
    <3>3. Follows(options'[i][o], o, x)
      BY <1>3, <2>3, <3>1 DEF Follows
    <3> QED
      BY <1>3, <3>2, <3>3
  <2>4. CASE o = "flag"
    <3>1. options'[i][o] = IF value = "neither" THEN "true" ELSE value
      BY <2>1, <2>4 DEF SetOption
    <3>2. Counts(x)
      BY <1>3, <1>4, <2>4 DEF Counts
    <3>3. Follows(options'[i][o], o, x)
      BY <1>3, <2>4, <3>1 DEF Follows
    <3> QED
      BY <1>3, <3>2, <3>3
  <2>5. CASE o = "text"
    <3>1. Counts(x) /\ Follows(options'[i][o], o, x)
      BY <1>3, <1>4, <2>5 DEF Counts, Follows
    <3> QED
      BY <1>3, <3>1
  <2> QED
    BY <2>0, <2>2, <2>3, <2>4, <2>5
<1>7. \A q \in Option :
         \/ options'[i][q] = options[i][q] /\ ~(x.what = q /\ Counts(x))
         \/ x.what = q /\ Counts(x) /\ Follows(options'[i][q], q, x)
  BY <1>3, <1>5, <1>6
<1>8. /\ InstancesInv' /\ ToldInv'
      /\ said'[i] = Append(said[i], x) /\ said[i] \in Seq(Saying)
      /\ \A j \in DOMAIN options \ {i} : said'[j] = said[j]
  BY <1>1, <1>3, <1>5, <1>7, SaidKept
<1>9. ReadingInv'
  BY <1>1, <1>2 DEF ReadingInv
<1>10. OutcomeInv'
  BY <1>1, <1>2, <1>3, <1>5, <1>8, OutcomeKept
<1> QED
  BY <1>8, <1>9, <1>10 DEF SaidInv

LEMMA FileOptionStep ==
    ASSUME SaidInv, NEW o \in Option, NEW value \in Values(o), FileOption(o, value)
    PROVE  SaidInv'
<1>1. /\ reading # NotReading /\ Says(reading, o, value)
      /\ reading' = reading /\ login' = login /\ outcome' = outcome
  BY DEF FileOption
<1>2. /\ reading \in DOMAIN options
      /\ Last0(said[reading], "wrong") = 0
      /\ login = {l \in Login : Last0(said[reading], l) # 0}
  BY <1>1 DEF SaidInv, ReadingInv
<1>3. PICK x \in Saying :
         /\ x.what = o /\ x.value = value /\ x.file = (reading = reading)
         /\ said' = [said EXCEPT ![reading] = Append(said[reading], x)]
  <2>1. value \in Word
    BY DEF Word
  <2> QED
    BY <1>1, <1>2, <2>1, SaysFacts
<1>4. x.file = TRUE
  BY <1>3
<1>5. Counts(x) <=> Converts(o, value)
  BY <1>3, <1>4 DEF Counts, Converts
<1>6. /\ DOMAIN options' = DOMAIN options
      /\ \A j \in DOMAIN options : DOMAIN options'[j] = Option
      /\ \A j \in DOMAIN options \ {reading} : options'[j] = options[j]
      /\ \A q \in Option \ {o} : options'[reading][q] = options[reading][q]
      /\ options'[reading][o] = IF Converts(o, value) THEN value ELSE options[reading][o]
  <2>0. \A j \in DOMAIN options : DOMAIN options[j] = Option
    BY DEF SaidInv, InstancesInv
  <2>1. CASE ~Converts(o, value)
    <3>1. options' = options
      BY <2>1 DEF FileOption
    <3> QED
      BY <2>0, <2>1, <3>1
  <2>2. CASE Converts(o, value)
    <3>1. options' = [options EXCEPT ![reading] = [options[reading] EXCEPT ![o] = value]]
      BY <2>2 DEF FileOption, Assign
    <3>2. /\ DOMAIN [options[reading] EXCEPT ![o] = value] = Option
          /\ [options[reading] EXCEPT ![o] = value][o] = value
      BY <1>2, <2>0
    <3> QED
      BY <1>2, <2>0, <2>2, <3>1, <3>2
  <2> QED
    BY <2>1, <2>2
<1>7. \A q \in Option :
         \/ options'[reading][q] = options[reading][q] /\ ~(x.what = q /\ Counts(x))
         \/ x.what = q /\ Counts(x) /\ Follows(options'[reading][q], q, x)
  <2>1. CASE Counts(x)
    <3>1. options'[reading][o] = value
      BY <1>5, <1>6, <2>1
    <3>2. ~(o = "flag" /\ value = "neither")
      BY <1>5, <2>1 DEF Converts
    <3>3. Follows(options'[reading][o], o, x)
      BY <1>3, <3>1, <3>2 DEF Follows
    <3> QED
      BY <1>3, <1>6, <2>1, <3>3
  <2>2. CASE ~Counts(x)
    BY <1>5, <1>6, <2>2
  <2> QED
    BY <2>1, <2>2
<1>8. /\ InstancesInv' /\ ToldInv'
      /\ said'[reading] = Append(said[reading], x) /\ said[reading] \in Seq(Saying)
      /\ \A j \in DOMAIN options \ {reading} : said'[j] = said[j]
  BY <1>2, <1>3, <1>6, <1>7, SaidKept
<1>9. ReadingInv'
  <2>1. x.what # "wrong" /\ x.what \notin Login
    BY <1>3 DEF Option, Login
  <2>2. Last0(said'[reading], "wrong") = Last0(said[reading], "wrong")
    BY <1>8, <2>1, LastKept
  <2>3. \A l \in Login : Last0(said'[reading], l) = Last0(said[reading], l)
    BY <1>8, <2>1, LastKept
  <2> QED
    BY <1>1, <1>2, <1>6, <2>2, <2>3 DEF ReadingInv
<1>10. OutcomeInv'
  BY <1>1, <1>2, <1>3, <1>6, <1>8, OutcomeKept
<1> QED
  BY <1>8, <1>9, <1>10 DEF SaidInv

\* A line of a file that is no option: all of them stay.
LEMMA NoOptionFacts ==
    ASSUME SaidInv, NEW what \in Login \union {"wrong"}, reading # NotReading,
           Says(reading, what, ""), options' = options
    PROVE  \E x \in Saying :
              /\ x.what = what /\ Counts(x)
              /\ InstancesInv' /\ ToldInv'
              /\ said'[reading] = Append(said[reading], x)
              /\ said[reading] \in Seq(Saying)
              /\ \A j \in DOMAIN options \ {reading} : said'[j] = said[j]
<1>1. reading \in DOMAIN options
  BY DEF SaidInv, ReadingInv
<1>2. PICK x \in Saying :
         /\ x.what = what /\ x.value = "" /\ x.file = (reading = reading)
         /\ said' = [said EXCEPT ![reading] = Append(said[reading], x)]
  <2>1. "" \in Word /\ what \in Option \union Login \union {"wrong"}
    BY DEF Word
  <2> DEFINE x == [what |-> what, value |-> "", file |-> reading = reading]
  <2>2. x \in Saying
    BY <2>1 DEF Saying
  <2>3. x.what = what /\ x.value = "" /\ x.file = (reading = reading)
    OBVIOUS
  <2>4. said' = [said EXCEPT ![reading] = Append(said[reading], x)]
    BY DEF Says
  <2> HIDE DEF x
  <2> QED
    BY <2>2, <2>3, <2>4
<1>3. x.what \notin Option /\ Counts(x)
  BY <1>2 DEF Option, Login, Counts
<1>4. \A j \in DOMAIN options : DOMAIN options[j] = Option
  BY DEF SaidInv, InstancesInv
<1>5. /\ InstancesInv' /\ ToldInv'
      /\ said'[reading] = Append(said[reading], x) /\ said[reading] \in Seq(Saying)
      /\ \A j \in DOMAIN options \ {reading} : said'[j] = said[j]
  <2>1. /\ DOMAIN options' = DOMAIN options
        /\ \A j \in DOMAIN options : DOMAIN options'[j] = Option
        /\ \A j \in DOMAIN options \ {reading} : options'[j] = options[j]
    BY <1>4
  <2>2. \A o \in Option : /\ options'[reading][o] = options[reading][o]
                          /\ ~(x.what = o /\ Counts(x))
    BY <1>3
  <2>3. PICK i \in DOMAIN options : i = reading
    BY <1>1
  <2>4. said' = [said EXCEPT ![i] = Append(said[i], x)]
    BY <1>2, <2>3
  <2>5. \A o \in Option : \/ options'[i][o] = options[i][o] /\ ~(x.what = o /\ Counts(x))
                          \/ x.what = o /\ Counts(x) /\ Follows(options'[i][o], o, x)
    BY <2>2, <2>3
  <2>6. \A j \in DOMAIN options \ {i} : options'[j] = options[j]
    BY <2>1
  <2>7. /\ InstancesInv' /\ ToldInv'
        /\ said'[i] = Append(said[i], x) /\ said[i] \in Seq(Saying)
        /\ \A j \in DOMAIN options \ {i} : said'[j] = said[j]
    BY <2>1, <2>4, <2>5, <2>6, SaidKept
  <2> QED
    BY <2>3, <2>7
<1> QED
  BY <1>2, <1>3, <1>5

LEMMA FileLoginStep ==
    ASSUME SaidInv, NEW l \in Login, FileLogin(l)
    PROVE  SaidInv'
<1>1. /\ reading # NotReading /\ Says(reading, l, "") /\ login' = login \union {l}
      /\ options' = options /\ reading' = reading /\ outcome' = outcome
  BY DEF FileLogin
<1>2. PICK x \in Saying :
         /\ x.what = l /\ Counts(x)
         /\ InstancesInv' /\ ToldInv'
         /\ said'[reading] = Append(said[reading], x) /\ said[reading] \in Seq(Saying)
         /\ \A j \in DOMAIN options \ {reading} : said'[j] = said[j]
  BY <1>1, NoOptionFacts
<1>3. /\ reading \in DOMAIN options
      /\ Last0(said[reading], "wrong") = 0
      /\ login = {q \in Login : Last0(said[reading], q) # 0}
  BY <1>1 DEF SaidInv, ReadingInv
<1>4. ReadingInv'
  <2>1. l # "wrong"
    BY DEF Login
  <2>2. Last0(said'[reading], "wrong") = 0
    BY <1>2, <1>3, <2>1, LastKept
  <2>3. Last0(said'[reading], l) # 0
    BY <1>2, LastAppend
  <2>4. \A q \in Login \ {l} : Last0(said'[reading], q) = Last0(said[reading], q)
    BY <1>2, LastKept
  <2>5. login' = {q \in Login : Last0(said'[reading], q) # 0}
    BY <1>1, <1>3, <2>3, <2>4
  <2> QED
    BY <1>1, <1>3, <2>2, <2>5 DEF ReadingInv
<1>5. OutcomeInv'
  BY <1>1, <1>2, <1>3, OutcomeKept
<1> QED
  BY <1>2, <1>4, <1>5 DEF SaidInv

LEMMA FileWrongStep == SaidInv /\ FileWrong => SaidInv'
<1> SUFFICES ASSUME SaidInv, FileWrong PROVE SaidInv'
  OBVIOUS
<1>1. /\ reading # NotReading /\ Says(reading, "wrong", "") /\ options' = options
      /\ reading' = NotReading /\ outcome' = [id |-> reading, connected |-> FALSE]
  BY DEF FileWrong
<1>2. PICK x \in Saying :
         /\ x.what = "wrong" /\ Counts(x)
         /\ InstancesInv' /\ ToldInv'
         /\ said'[reading] = Append(said[reading], x) /\ said[reading] \in Seq(Saying)
         /\ \A j \in DOMAIN options \ {reading} : said'[j] = said[j]
  BY <1>1, NoOptionFacts
<1>3. reading \in DOMAIN options
  BY <1>1 DEF SaidInv, ReadingInv
<1>4. Last0(said'[reading], "wrong") # 0
  BY <1>2, LastAppend
<1>5. ReadingInv' /\ OutcomeInv'
  BY <1>1, <1>3, <1>4 DEF ReadingInv, OutcomeInv
<1> QED
  BY <1>2, <1>5 DEF SaidInv

LEMMA FileConnectStep == SaidInv /\ FileConnect => SaidInv'
<1> SUFFICES ASSUME SaidInv, FileConnect PROVE SaidInv'
  OBVIOUS
<1>1. /\ reading # NotReading /\ reading' = NotReading
      /\ outcome' = [id |-> reading, connected |-> login = Login]
      /\ options' = options /\ said' = said
  BY DEF FileConnect
<1>2. /\ reading \in DOMAIN options
      /\ Last0(said[reading], "wrong") = 0
      /\ login = {l \in Login : Last0(said[reading], l) # 0}
  BY <1>1 DEF SaidInv, ReadingInv
<1>3. (login = Login) <=> \A l \in Login : Last0(said[reading], l) # 0
  BY <1>2
<1>4. ReadingInv' /\ OutcomeInv'
  BY <1>1, <1>2, <1>3 DEF ReadingInv, OutcomeInv
<1>5. InstancesInv' /\ ToldInv'
  BY <1>1 DEF SaidInv, InstancesInv, ToldInv
<1> QED
  BY <1>4, <1>5 DEF SaidInv

LEMMA SaidStep == SaidInv /\ [OptionsNext]_optionVars => SaidInv'
<1> SUFFICES ASSUME SaidInv, [OptionsNext]_optionVars PROVE SaidInv'
  OBVIOUS
<1>1. CASE InitOptions
  BY <1>1, InitOptionsStep
<1>2. CASE \E i \in 0 .. MaxOptions, o \in Option : \E value \in Values(o) :
              SetOption(i, o, value)
  BY <1>2, SetOptionStep
<1>3. CASE FileOpen
  BY <1>3, FileOpenStep
<1>4. CASE \E l \in Login : FileLogin(l)
  BY <1>4, FileLoginStep
<1>5. CASE \E o \in Option : \E value \in Values(o) : FileOption(o, value)
  BY <1>5, FileOptionStep
<1>6. CASE FileWrong
  BY <1>6, FileWrongStep
<1>7. CASE FileConnect
  BY <1>7, FileConnectStep
<1>8. CASE UNCHANGED optionVars
  BY <1>8 DEF optionVars, SaidInv, InstancesInv, ToldInv, ReadingInv, OutcomeInv
<1> QED
  BY <1>1, <1>2, <1>3, <1>4, <1>5, <1>6, <1>7, <1>8 DEF OptionsNext

\* Whatever the natives and the files say, in whatever order and on however
\* many instances: each option is what was last said of it and counts, and a
\* file connects exactly if its lines are right and name host, user and
\* database.
THEOREM OptionsCorrect == OptionsSpec => []OptionsAreAsSaid
<1>1. OptionsInit => SaidInv
  BY SaidInit
<1>2. SaidInv /\ [OptionsNext]_optionVars => SaidInv'
  BY SaidStep
<1>3. SaidInv => OptionsAreAsSaid
  BY SaidImplies
<1> QED
  BY <1>1, <1>2, <1>3, PTL DEF OptionsSpec

=============================================================================
