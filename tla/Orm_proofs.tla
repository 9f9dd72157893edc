---------------------------- MODULE Orm_proofs ----------------------------
(***************************************************************************)
(* Proofs about Orm, for any number of instances, columns and queries:     *)
(* columns are registered once, the key is exchanged without loss,         *)
(* orm_errno belongs to the running callback, and what is read from a row  *)
(* ends up in the variables it was selected for.                           *)
(***************************************************************************)
EXTENDS Orm, SequenceTheorems, TLAPS

\* No column is twice in v.
Once(v) == \A i, j \in DOMAIN v : v[i] = v[j] => i = j

\* No column is twice in the variables, and the key is not one of them.
Distinct(r) ==
    /\ Once(r.variables)
    /\ r.key \notin Names(r)

OrmRecord ==
    [state : {"unused", "registered", "destroyed"}, variables : Seq(Column),
     capacity : Nat, key : Column \union {None}, error : {"OK", "NO_DATA"}]

-----------------------------------------------------------------------------
(***************************************************************************)
(* The operations on one instance.                                         *)
(***************************************************************************)

\* w is v without its element at position p.
IsErased(v, p, w) ==
    /\ w \in [1 .. Len(v) - 1 -> Column]
    /\ \A i \in 1 .. Len(v) - 1 : w[i] = v[IF i < p THEN i ELSE i + 1]

\* m_Variables.erase(v), on the sequence itself: every other column stays,
\* once.
LEMMA EraseAt ==
    ASSUME NEW v \in Seq(Column), NEW p \in DOMAIN v, Once(v),
           NEW w, IsErased(v, p, w)
    PROVE  /\ w \in Seq(Column)
           /\ Once(w)
           /\ \A i \in DOMAIN w : \E k \in DOMAIN v : v[k] = w[i] /\ v[k] # v[p]
           /\ \A k \in DOMAIN v : v[k] # v[p] => \E i \in DOMAIN w : w[i] = v[k]
<1> USE DEF IsErased
<1>1. /\ Len(v) \in Nat /\ DOMAIN v = 1 .. Len(v)
      /\ \A i \in 1 .. Len(v) : v[i] \in Column
      /\ Len(v) - 1 \in Nat
      /\ p \in 1 .. Len(v)
  OBVIOUS
<1>2. \A i \in 1 .. Len(v) - 1 : (IF i < p THEN i ELSE i + 1) \in 1 .. Len(v)
  BY <1>1
<1>4. w \in Seq(Column)
  BY <1>1, SeqDef
<1>5. DOMAIN w = 1 .. Len(v) - 1
  OBVIOUS
<1>6. ASSUME NEW i \in DOMAIN w, NEW j \in DOMAIN w, w[i] = w[j]
      PROVE  i = j
  <2>1. (IF i < p THEN i ELSE i + 1) = (IF j < p THEN j ELSE j + 1)
    BY <1>1, <1>2, <1>5, <1>6 DEF Once
  <2> QED
    BY <2>1, <1>1, <1>5
<1>7. ASSUME NEW i \in DOMAIN w
      PROVE  \E k \in DOMAIN v : v[k] = w[i] /\ v[k] # v[p]
  <2>1. (IF i < p THEN i ELSE i + 1) # p
    BY <1>1, <1>5
  <2>2. w[i] = v[IF i < p THEN i ELSE i + 1]
    BY <1>5
  <2> DEFINE k == IF i < p THEN i ELSE i + 1
  <2>3. k \in DOMAIN v
    BY <1>1, <1>2, <1>5
  <2> HIDE DEF k
  <2>4. k # p /\ w[i] = v[k]
    BY <2>1, <2>2 DEF k
  <2>5. v[k] # v[p]
    BY <2>3, <2>4 DEF Once
  <2> QED
    BY <2>3, <2>4, <2>5
<1>8. ASSUME NEW k \in DOMAIN v, v[k] # v[p]
      PROVE  \E i \in DOMAIN w : w[i] = v[k]
  <2>1. CASE k < p
    <3>1. k \in DOMAIN w /\ w[k] = v[k]
      BY <2>1, <1>1, <1>5
    <3> QED
      BY <3>1
  <2>2. CASE k > p
    <3>1. k - 1 \in DOMAIN w /\ w[k - 1] = v[k]
      BY <2>2, <1>1, <1>5
    <3> QED
      BY <3>1
  <2> QED
    BY <2>1, <2>2, <1>8, <1>1
<1> QED
  BY <1>4, <1>6, <1>7, <1>8 DEF Once

\* Erase removes exactly the named variable.
LEMMA EraseLemma ==
    ASSUME NEW r \in OrmRecord, NEW name \in Names(r),
           Once(r.variables)
    PROVE  /\ Erase(r, name) \in OrmRecord
           /\ Erase(r, name).key = r.key
           /\ Erase(r, name).error = r.error
           /\ Names(Erase(r, name)) = Names(r) \ {name}
           /\ Once(Erase(r, name).variables)
<1> DEFINE v == r.variables
           p == Position(r, name)
           w == [i \in 1 .. Len(v) - 1 |-> v[IF i < p THEN i ELSE i + 1]]
<1>1. v \in Seq(Column)
  BY DEF OrmRecord
<1>2. p \in DOMAIN v /\ v[p] = name
  BY DEF Names, Position
<1>3. /\ w \in Seq(Column)
      /\ Once(w)
      /\ {w[i] : i \in DOMAIN w} = {v[i] : i \in DOMAIN v} \ {name}
  <2>1. Once(v)
    OBVIOUS
  <2>2. IsErased(v, p, w)
    <3> HIDE DEF p, v
    <3>1. \A i \in 1 .. Len(v) - 1 :
             v[IF i < p THEN i ELSE i + 1] \in Column
      BY <1>1, <1>2
    <3> QED
      BY <3>1 DEF IsErased
  <2> HIDE DEF p, v, w
  <2>3. /\ w \in Seq(Column)
        /\ Once(w)
        /\ \A i \in DOMAIN w : \E k \in DOMAIN v : v[k] = w[i] /\ v[k] # v[p]
        /\ \A k \in DOMAIN v : v[k] # v[p] => \E i \in DOMAIN w : w[i] = v[k]
    BY <1>1, <1>2, <2>1, <2>2, EraseAt
  <2> QED
    BY <1>2, <2>3
<1>4. Erase(r, name) = [r EXCEPT !.variables = w]
  BY DEF Erase
<1>5. Erase(r, name).variables = w
  <2> HIDE DEF w
  <2> QED
    BY <1>4 DEF OrmRecord
<1> HIDE DEF w, p
<1>6. Erase(r, name) \in OrmRecord /\ Erase(r, name).key = r.key
      /\ Erase(r, name).error = r.error
  BY <1>3, <1>4 DEF OrmRecord
<1>7. Names(Erase(r, name)) = Names(r) \ {name}
  BY <1>3, <1>5 DEF Names
<1> QED
  BY <1>3, <1>5, <1>6, <1>7

\* push_back adds the name at the end.
LEMMA PushBackLemma ==
    ASSUME NEW r \in OrmRecord, NEW name \in Column, name \notin Names(r),
           Once(r.variables)
    PROVE  /\ PushBack(r, name) \in OrmRecord
           /\ PushBack(r, name).key = r.key
           /\ PushBack(r, name).error = r.error
           /\ Names(PushBack(r, name)) = Names(r) \union {name}
           /\ Once(PushBack(r, name).variables)
<1> DEFINE v == r.variables
           w == Append(v, name)
           cap == IF Len(v) < r.capacity THEN r.capacity
                  ELSE IF r.capacity = 0 THEN 1 ELSE 2 * r.capacity
<1>1. v \in Seq(Column) /\ r.capacity \in Nat
  BY DEF OrmRecord
<1>2. /\ w \in Seq(Column) /\ Len(w) = Len(v) + 1
      /\ \A i \in 1 .. Len(v) : w[i] = v[i]
      /\ w[Len(v) + 1] = name
      /\ DOMAIN v = 1 .. Len(v) /\ DOMAIN w = 1 .. Len(v) + 1 /\ Len(v) \in Nat
  BY <1>1
<1>3. cap \in Nat
  BY <1>1
<1>4. PushBack(r, name) = [r EXCEPT !.variables = w, !.capacity = cap]
  BY DEF PushBack
<1> HIDE DEF w, cap
<1>5. /\ PushBack(r, name) \in OrmRecord /\ PushBack(r, name).key = r.key
      /\ PushBack(r, name).error = r.error
      /\ PushBack(r, name).variables = w
  BY <1>2, <1>3, <1>4 DEF OrmRecord
<1>6. {w[i] : i \in DOMAIN w} = {v[i] : i \in DOMAIN v} \union {name}
  <2>1. ASSUME NEW i \in DOMAIN w PROVE w[i] \in {v[k] : k \in DOMAIN v} \union {name}
    <3>1. CASE i = Len(v) + 1
      BY <3>1, <1>2
    <3>2. CASE i \in 1 .. Len(v)
      BY <3>2, <1>2
    <3> QED
      BY <3>1, <3>2, <1>2
  <2>2. ASSUME NEW k \in DOMAIN v PROVE v[k] \in {w[i] : i \in DOMAIN w}
    <3>1. k \in DOMAIN w /\ w[k] = v[k]
      BY <1>2
    <3> QED
      BY <3>1
  <2>3. name \in {w[i] : i \in DOMAIN w}
    <3>1. Len(v) + 1 \in DOMAIN w
      BY <1>2
    <3> QED
      BY <3>1, <1>2
  <2> QED
    BY <2>1, <2>2, <2>3
<1>7. ASSUME NEW i \in DOMAIN w, NEW j \in DOMAIN w, w[i] = w[j]
      PROVE  i = j
  <2>1. \A k \in 1 .. Len(v) : v[k] # name
    BY <1>2 DEF Names
  <2>2. i \in 1 .. Len(v) + 1 /\ j \in 1 .. Len(v) + 1
    BY <1>2
  <2>3. CASE i \in 1 .. Len(v) /\ j \in 1 .. Len(v)
    BY <2>3, <1>2, <1>7 DEF Once
  <2>4. CASE i = Len(v) + 1 \/ j = Len(v) + 1
    <3>1. i = Len(v) + 1 /\ j = Len(v) + 1
      BY <2>1, <2>2, <2>4, <1>2, <1>7
    <3> QED
      BY <3>1
  <2> QED
    BY <2>2, <2>3, <2>4, <1>2
<1> QED
  BY <1>5, <1>6, <1>7 DEF Names, Once

\* orm_setkey exchanges the key and one of the variables.
LEMMA SetKeyLemma ==
    ASSUME NEW r \in OrmRecord, Distinct(r), NEW name \in Names(r)
    PROVE  /\ SetKeyVariable(r, name) \in OrmRecord
           /\ Distinct(SetKeyVariable(r, name))
           /\ SetKeyVariable(r, name).key = name
           /\ SetKeyVariable(r, name).error = r.error
           /\ r.key # None =>
                 Names(SetKeyVariable(r, name)) \union {name}
                    = Names(r) \union {r.key}
<1> DEFINE old == IF r.key = None THEN r ELSE PushBack(r, r.key)
           new == [old EXCEPT !.key = name]
<1>1. name \in Column
  BY DEF Names, OrmRecord
<1>2. /\ old \in OrmRecord /\ old.error = r.error
      /\ Once(old.variables)
      /\ Names(old) = Names(r) \union ({r.key} \ {None})
  <2>1. CASE r.key = None
    BY <2>1 DEF Distinct
  <2>2. CASE r.key # None
    <3>1. r.key \in Column
      BY <2>2 DEF OrmRecord
    <3> QED
      BY <2>2, <3>1, PushBackLemma DEF Distinct
  <2> QED
    BY <2>1, <2>2
<1> HIDE DEF old
<1>3. /\ new \in OrmRecord /\ new.key = name /\ new.error = r.error
      /\ new.variables = old.variables
  BY <1>1, <1>2 DEF OrmRecord
<1>4. Names(new) = Names(old)
  BY <1>3 DEF Names
<1> HIDE DEF new
<1>5. Once(new.variables)
  BY <1>2, <1>3
<1>6. name \in Names(new)
  BY <1>2, <1>4
<1>7. /\ Erase(new, name) \in OrmRecord
      /\ Erase(new, name).key = name
      /\ Erase(new, name).error = r.error
      /\ Names(Erase(new, name)) = Names(new) \ {name}
      /\ Once(Erase(new, name).variables)
  BY <1>3, <1>5, <1>6, EraseLemma
<1>8. SetKeyVariable(r, name) = Erase(new, name)
  BY DEF SetKeyVariable, new, old
<1> QED
  BY <1>2, <1>4, <1>7, <1>8 DEF Distinct

-----------------------------------------------------------------------------
(***************************************************************************)
(* The inductive invariant.  Nothing about the queries is needed: whatever *)
(* result arrives, only the error of one instance depends on it.           *)
(***************************************************************************)
AllDistinct == defined => \A o \in Orm : Distinct(orm[o])

IInv == OrmType /\ AllDistinct /\ ErrnoOfOwnQuery

\* What one step may do to the keys.
Handover ==
    \A o \in Orm :
       (ReplacesKey(o) /\ defined') =>
          Names(orm'[o]) \union {orm'[o].key} = Names(orm[o]) \union {orm[o].key}

LEMMA RecordOf == OrmType <=> orm \in [Orm -> OrmRecord]
BY DEF OrmType, OrmRecord

LEMMA NotNone == ASSUME NEW r \in OrmRecord PROVE None \notin Names(r)
BY NoneAssumption DEF OrmRecord, Names

\* The members of one instance become r, which has the error of before.
LEMMA SetOrmStep ==
    ASSUME IInv, NEW o \in Orm, NEW r \in OrmRecord, SetOrm(o, r),
           r.error = orm[o].error, Distinct(r),
           (orm[o].key # None /\ r.key \notin {None, orm[o].key}) =>
              Names(r) \union {r.key} = Names(orm[o]) \union {orm[o].key}
    PROVE  IInv' /\ Handover
<1>1. orm \in [Orm -> OrmRecord]
  BY RecordOf DEF IInv
<1>2. /\ orm' = [orm EXCEPT ![o] = r]
      /\ running' = running /\ defined' = defined
  BY DEF SetOrm
<1>3. /\ orm' \in [Orm -> OrmRecord]
      /\ orm'[o] = r
      /\ \A x \in Orm : x # o => orm'[x] = orm[x]
      /\ \A x \in Orm : orm'[x].error = orm[x].error
  BY <1>1, <1>2
<1>4. OrmType'
  BY <1>3 DEF OrmType, OrmRecord
<1>5. AllDistinct'
  BY <1>2, <1>3 DEF IInv, AllDistinct
<1>6. ErrnoOfOwnQuery'
  BY <1>2, <1>3 DEF IInv, ErrnoOfOwnQuery
<1>7. Handover
  BY <1>3 DEF Handover, ReplacesKey
<1> QED
  BY <1>4, <1>5, <1>6, <1>7 DEF IInv

\* Only the error of one instance changes.
LEMMA SetErrorStep ==
    ASSUME OrmType, AllDistinct, NEW x, NEW e \in {"OK", "NO_DATA"},
           orm' = [orm EXCEPT ![x].error = e], defined' => defined
    PROVE  /\ OrmType' /\ AllDistinct' /\ Handover
           /\ \A o \in Orm : orm'[o].error = IF o = x THEN e ELSE orm[o].error
<1>1. orm \in [Orm -> OrmRecord]
  BY RecordOf
<1>2. ASSUME NEW o \in Orm
      PROVE  /\ orm'[o] \in OrmRecord
             /\ orm'[o].variables = orm[o].variables
             /\ orm'[o].key = orm[o].key
             /\ orm'[o].error = IF o = x THEN e ELSE orm[o].error
  <2>1. orm'[o] = IF o = x THEN [orm[o] EXCEPT !.error = e] ELSE orm[o]
    BY <1>1
  <2>2. orm[o] \in OrmRecord
    BY <1>1
  <2> QED
    BY <2>1, <2>2 DEF OrmRecord
<1>3. orm' = [o \in Orm |-> orm'[o]]
  BY <1>1
<1>4. OrmType'
  BY <1>2, <1>3 DEF OrmType, OrmRecord
<1>5. AllDistinct'
  BY <1>2 DEF AllDistinct, Distinct, Names
<1>6. Handover
  BY <1>2 DEF Handover, ReplacesKey
<1> QED
  BY <1>2, <1>4, <1>5, <1>6

\* Nothing about the instances changes.
LEMMA SameOrmStep ==
    ASSUME IInv, UNCHANGED <<orm, running>>, defined' => defined
    PROVE  IInv' /\ Handover
BY DEF IInv, OrmType, AllDistinct, ErrnoOfOwnQuery, Handover, ReplacesKey

-----------------------------------------------------------------------------
(***************************************************************************)
(* Natives that change an instance.                                        *)
(***************************************************************************)
LEMMA NativeStep ==
    ASSUME IInv, NEW o \in Orm, OrmNative(o)
    PROVE  IInv' /\ Handover
<1> DEFINE r == orm[o]
<1>0. r \in OrmRecord
  BY RecordOf DEF IInv
<1>1. CASE OrmCreate(o)
  <2> DEFINE new == [r EXCEPT !.state = "registered"]
  <2>1. /\ new \in OrmRecord /\ new.error = r.error
        /\ new.key = r.key /\ new.variables = r.variables
    BY <1>0 DEF OrmRecord
  <2>2. SetOrm(o, new) /\ Distinct(r)
    BY <1>1 DEF OrmCreate, ScriptRuns, IInv, AllDistinct
  <2> HIDE DEF new
  <2>3. Distinct(new)
    BY <2>1, <2>2 DEF Distinct, Names
  <2> QED
    BY <2>1, <2>2, <2>3, SetOrmStep
<1>2. CASE OrmDestroy(o)
  <2> DEFINE new == [r EXCEPT !.state = "destroyed"]
  <2>1. /\ new \in OrmRecord /\ new.error = r.error
        /\ new.key = r.key /\ new.variables = r.variables
    BY <1>0 DEF OrmRecord
  <2>2. SetOrm(o, new) /\ Distinct(r)
    BY <1>2 DEF OrmDestroy, ScriptRuns, IInv, AllDistinct
  <2> HIDE DEF new
  <2>3. Distinct(new)
    BY <2>1, <2>2 DEF Distinct, Names
  <2> QED
    BY <2>1, <2>2, <2>3, SetOrmStep
<1>3. CASE OrmClearVars(o)
  BY <1>3, SameOrmStep DEF OrmClearVars
<1>4. ASSUME NEW name \in Column, OrmAddVar(o, name)
      PROVE  IInv' /\ Handover
  <2>1. /\ SetOrm(o, PushBack(r, name)) /\ Distinct(r)
        /\ name \notin Names(r) /\ name # r.key
    BY <1>4 DEF OrmAddVar, ScriptRuns, CanAddVariable, IInv, AllDistinct
  <2>2. /\ PushBack(r, name) \in OrmRecord
        /\ PushBack(r, name).key = r.key
        /\ PushBack(r, name).error = r.error
        /\ Names(PushBack(r, name)) = Names(r) \union {name}
        /\ Once(PushBack(r, name).variables)
    BY <1>0, <2>1, PushBackLemma DEF Distinct
  <2>3. Distinct(PushBack(r, name))
    BY <2>1, <2>2 DEF Distinct
  <2> QED
    BY <2>1, <2>2, <2>3, SetOrmStep
<1>5. ASSUME NEW name \in Column, OrmDelVar(o, name)
      PROVE  IInv' /\ Handover
  <2>1. /\ SetOrm(o, RemoveVariable(r, name)) /\ Distinct(r)
        /\ name \in Names(r) \union {r.key}
    BY <1>5 DEF OrmDelVar, ScriptRuns, IInv, AllDistinct
  <2>2. CASE r.key = name
    <3> DEFINE new == [r EXCEPT !.key = None]
    <3>1. /\ new \in OrmRecord /\ new.error = r.error
          /\ new.key = None /\ new.variables = r.variables
      BY <1>0 DEF OrmRecord
    <3>2. SetOrm(o, new)
      BY <2>1, <2>2 DEF RemoveVariable
    <3> HIDE DEF new
    <3>3. Distinct(new)
      BY <1>0, <2>1, <3>1, NotNone DEF Distinct, Names
    <3> QED
      BY <3>1, <3>2, <3>3, SetOrmStep
  <2>3. CASE r.key # name
    <3>1. SetOrm(o, Erase(r, name)) /\ name \in Names(r)
      BY <2>1, <2>3 DEF RemoveVariable
    <3>2. /\ Erase(r, name) \in OrmRecord
          /\ Erase(r, name).key = r.key
          /\ Erase(r, name).error = r.error
          /\ Names(Erase(r, name)) = Names(r) \ {name}
          /\ Once(Erase(r, name).variables)
      BY <1>0, <2>1, <3>1, EraseLemma DEF Distinct
    <3>3. Distinct(Erase(r, name))
      BY <2>1, <3>2 DEF Distinct
    <3> QED
      BY <3>1, <3>2, <3>3, SetOrmStep
  <2> QED
    BY <2>2, <2>3
<1>6. ASSUME NEW name \in Column, OrmSetKey(o, name)
      PROVE  IInv' /\ Handover
  <2>1. /\ SetOrm(o, SetKeyVariable(r, name)) /\ Distinct(r)
        /\ name \in Names(r)
    BY <1>6 DEF OrmSetKey, ScriptRuns, IInv, AllDistinct
  <2>2. /\ SetKeyVariable(r, name) \in OrmRecord
        /\ Distinct(SetKeyVariable(r, name))
        /\ SetKeyVariable(r, name).key = name
        /\ SetKeyVariable(r, name).error = r.error
        /\ r.key # None =>
              Names(SetKeyVariable(r, name)) \union {name}
                 = Names(r) \union {r.key}
    BY <1>0, <2>1, SetKeyLemma
  <2> QED
    BY <2>1, <2>2, SetOrmStep
<1>7. ASSUME NEW name \in Column, OrmSetKeyDangling(o, name)
      PROVE  IInv' /\ Handover
  <2>1. /\ \/ orm' = [orm EXCEPT ![o].key = name, ![o].capacity = 2 * @]
           \/ orm' = orm
        /\ defined' = FALSE /\ running' = running
    BY <1>7 DEF OrmSetKeyDangling
  <2>2. orm \in [Orm -> OrmRecord]
    BY RecordOf DEF IInv
  <2>3. orm' \in [Orm -> OrmRecord] /\ \A x \in Orm : orm'[x].error = orm[x].error
    <3>1. CASE orm' = orm
      BY <3>1, <2>2
    <3>2. CASE orm' = [orm EXCEPT ![o].key = name, ![o].capacity = 2 * @]
      <4> DEFINE new == [r EXCEPT !.key = name, !.capacity = 2 * @]
      <4>1. r.capacity \in Nat /\ 2 * r.capacity \in Nat
        BY <1>0 DEF OrmRecord
      <4>2. new \in OrmRecord /\ new.error = r.error
        BY <1>0, <4>1 DEF OrmRecord
      <4>3. orm' = [orm EXCEPT ![o] = new]
        BY <3>2, <2>2
      <4> HIDE DEF new
      <4> QED
        BY <4>2, <4>3, <2>2
    <3> QED
      BY <2>1, <3>1, <3>2
  <2>4. OrmType' /\ AllDistinct' /\ Handover
    BY <2>1, <2>3 DEF OrmType, OrmRecord, AllDistinct, Handover
  <2>5. ErrnoOfOwnQuery'
    BY <2>1, <2>3 DEF ErrnoOfOwnQuery, IInv
  <2> QED
    BY <2>4, <2>5 DEF IInv
<1>8. ASSUME NEW callback \in Callback \union {None}, NEW type,
             OrmQuery(o, type, callback)
      PROVE  IInv' /\ Handover
  BY <1>8, SameOrmStep DEF OrmQuery
<1>9. ASSUME NEW row \in CacheRow, OrmApplyCache(o, row)
      PROVE  IInv' /\ Handover
  BY <1>9, SameOrmStep DEF OrmApplyCache
<1> QED
  BY <1>1, <1>2, <1>3, <1>4, <1>5, <1>6, <1>7, <1>8, <1>9
  DEF OrmNative, OrmSave

-----------------------------------------------------------------------------
(***************************************************************************)
(* ProcessTick.                                                            *)
(***************************************************************************)

\* No instance has an error while no callback runs.
LEMMA NoErrors ==
    ASSUME ErrnoOfOwnQuery, running = <<>>, NEW o \in Orm
    PROVE  orm[o].error # "NO_DATA"
BY DEF ErrnoOfOwnQuery

LEMMA ApplyAndCallStep ==
    ASSUME IInv, ApplyAndCall
    PROVE  IInv' /\ Handover
<1> DEFINE f == Head(finished)
<1>1. /\ defined /\ running = <<>> /\ running' = <<f>>
      /\ orm' = [orm EXCEPT ![f.orm].error = ResultError(f)]
  BY DEF ApplyAndCall, Apply
<1>2. /\ ResultError(f) \in {"OK", "NO_DATA"}
      /\ ResultError(f) = "NO_DATA" <=> f.type = "SELECT" /\ f.rows = <<>>
  BY DEF ResultError
<1>3. running'[1] = f /\ running' # <<>>
  BY <1>1
<1> HIDE DEF f
<1>4. /\ OrmType' /\ AllDistinct' /\ Handover
      /\ \A o \in Orm : orm'[o].error = IF o = f.orm THEN ResultError(f)
                                        ELSE orm[o].error
  BY <1>1, <1>2, SetErrorStep DEF IInv
<1>5. ErrnoOfOwnQuery'
  <2> SUFFICES ASSUME NEW o \in Orm
               PROVE  (orm'[o].error = "NO_DATA") <=>
                         /\ f.orm = o
                         /\ f.type = "SELECT"
                         /\ f.rows = <<>>
    BY <1>3 DEF ErrnoOfOwnQuery
  <2>1. orm[o].error # "NO_DATA"
    BY <1>1, NoErrors DEF IInv
  <2> QED
    BY <1>2, <1>4, <2>1
<1> QED
  BY <1>4, <1>5 DEF IInv

LEMMA ApplyOnlyStep ==
    ASSUME IInv, ApplyOnly
    PROVE  IInv' /\ Handover
<1>1. /\ defined /\ running = <<>> /\ running' = running
      /\ orm' = [orm EXCEPT ![Head(finished).orm].error = "OK"]
  BY DEF ApplyOnly, Apply
<1>2. /\ OrmType' /\ AllDistinct' /\ Handover
      /\ \A o \in Orm : orm'[o].error = IF o = Head(finished).orm THEN "OK"
                                        ELSE orm[o].error
  BY <1>1, SetErrorStep DEF IInv
<1>3. \A o \in Orm : orm'[o].error # "NO_DATA"
  BY <1>1, <1>2, NoErrors DEF IInv
<1>4. ErrnoOfOwnQuery'
  BY <1>1, <1>3 DEF ErrnoOfOwnQuery
<1> QED
  BY <1>2, <1>4 DEF IInv

LEMMA CallbackReturnsStep ==
    ASSUME IInv, CallbackReturns
    PROVE  IInv' /\ Handover
<1>1. /\ defined' = defined /\ running' = <<>>
      /\ orm' = [orm EXCEPT ![running[1].orm].error = "OK"]
  BY DEF CallbackReturns
<1>2. /\ OrmType' /\ AllDistinct' /\ Handover
      /\ \A o \in Orm : orm'[o].error = IF o = running[1].orm THEN "OK"
                                        ELSE orm[o].error
  BY <1>1, SetErrorStep DEF IInv
<1>3. \A o \in Orm : orm'[o].error # "NO_DATA"
  BY <1>2 DEF IInv, ErrnoOfOwnQuery
<1>4. ErrnoOfOwnQuery'
  BY <1>1, <1>3 DEF ErrnoOfOwnQuery
<1> QED
  BY <1>2, <1>4 DEF IInv

-----------------------------------------------------------------------------
(***************************************************************************)
(* The theorems.                                                           *)
(***************************************************************************)
LEMMA InitIInv == Init => IInv
<1> SUFFICES ASSUME Init PROVE IInv
  OBVIOUS
<1>1. <<>> \in Seq(Column) /\ 0 \in Nat
  OBVIOUS
<1>2. NewOrm \in OrmRecord
  BY <1>1 DEF NewOrm, OrmRecord
<1>3. \A o \in Orm : orm[o] = NewOrm
  BY DEF Init
<1>4. OrmType
  BY <1>2, RecordOf DEF Init
<1>5. Distinct(NewOrm)
  BY DEF Distinct, Once, Names, NewOrm
<1>6. AllDistinct
  BY <1>3, <1>5 DEF AllDistinct
<1>7. ErrnoOfOwnQuery
  BY <1>3 DEF Init, NewOrm, ErrnoOfOwnQuery
<1> QED
  BY <1>4, <1>6, <1>7 DEF IInv

LEMMA NextIInv ==
    ASSUME IInv, [Next]_vars
    PROVE  IInv' /\ (Handover \/ UNCHANGED vars)
<1>1. ASSUME NEW o \in Orm, OrmNative(o) PROVE IInv' /\ Handover
  BY <1>1, NativeStep
<1>2. ASSUME NEW c \in Column, NEW value \in Value, ScriptAssigns(c, value)
      PROVE  IInv' /\ Handover
  BY <1>2, SameOrmStep DEF ScriptAssigns
<1>3. CASE AmxUnload
  BY <1>3, SameOrmStep DEF AmxUnload
<1>4. CASE Execute
  <2>1. UNCHANGED <<orm, running, defined>>
    BY <1>4 DEF Execute, ExecuteSelect, ExecuteUpdate, ExecuteInsert,
                ExecuteDelete, ExecuteFails, Executed
  <2> QED
    BY <2>1, SameOrmStep
<1>5. CASE ApplyAndCall
  BY <1>5, ApplyAndCallStep
<1>6. CASE ApplyOnly
  BY <1>6, ApplyOnlyStep
<1>7. CASE CallbackReturns
  BY <1>7, CallbackReturnsStep
<1>8. CASE DropFailed
  BY <1>8, SameOrmStep DEF DropFailed
<1>9. CASE UNCHANGED vars
  BY <1>9, SameOrmStep DEF vars
<1> QED
  BY <1>1, <1>2, <1>3, <1>4, <1>5, <1>6, <1>7, <1>8, <1>9 DEF Next

\* The inductive invariant holds in every reachable state.
THEOREM InductiveInvariant == Spec => []IInv
<1>1. Init => IInv
  BY InitIInv
<1>2. IInv /\ [Next]_vars => IInv'
  BY NextIInv
<1> QED
  BY <1>1, <1>2, PTL DEF Spec

\* However orm_addvar, orm_delvar and orm_setkey follow each other, a column
\* is registered once, as a variable or as the key.
THEOREM ColumnsCorrect == Spec => []ColumnsDistinct
<1>1. IInv => ColumnsDistinct
  BY DEF IInv, AllDistinct, Distinct, Once, ColumnsDistinct
<1> QED
  BY <1>1, InductiveInvariant, PTL

\* orm_errno is the outcome of the query whose callback is running, and OK
\* when none of the instance is.
THEOREM ErrnoCorrect == Spec => []ErrnoOfOwnQuery
<1>1. IInv => ErrnoOfOwnQuery
  BY DEF IInv
<1> QED
  BY <1>1, InductiveInvariant, PTL

\* Choosing another key loses no column and adds none, as long as push_back
\* does not move the variables.
THEOREM HandoverCorrect == Spec => KeyHandover
<1>1. IInv /\ [Next]_vars => [Handover]_vars
  BY NextIInv
<1>2. [Handover]_vars =>
        [\A o \in Orm :
          (ReplacesKey(o) /\ defined') =>
             Names(orm'[o]) \union {orm'[o].key} = Names(orm[o]) \union {orm[o].key}]_vars
  BY DEF Handover
<1> QED
  BY <1>1, <1>2, InductiveInvariant, PTL DEF Spec, KeyHandover

-----------------------------------------------------------------------------
(***************************************************************************)
(* The data: rows, queries and results.  A column with numbers holds only  *)
(* numbers, on its whole way from a variable of the script through a query *)
(* into the table, and from there through a result back into a variable.   *)
(***************************************************************************)
GoodRow == {row \in Row : \A c \in Numeric : row[c] \in Number}

GoodQuery ==
    {q \in QueryRecord : \A c \in Numeric \intersect DOMAIN q.values : q.values[c] \in Number}

\* A query that has failed has no rows.
GoodResult ==
    {f \in ResultRecord : /\ \A i \in DOMAIN f.rows : f.rows[i] \in GoodRow
                          /\ ~f.ok => f.rows = <<>>}

DataInv ==
    /\ pending \in Seq(GoodQuery)
    /\ finished \in Seq(GoodResult)
    /\ running \in Seq(GoodResult)
    /\ table \subseteq GoodRow
    /\ memory \in GoodRow
    /\ lastId \in Number
    /\ loaded \in BOOLEAN /\ defined \in BOOLEAN

LEMMA ZeroIsNumber == 0 \in Number
BY BoundAssumption DEF Number

\* What is generated takes its values from a good row.
LEMMA GenerateGood ==
    ASSUME NEW o \in Orm, NEW r \in OrmRecord, r.key # None, NEW cells \in GoodRow,
           NEW type \in QueryType, NEW callback \in Callback \union {None}
    PROVE  GenerateQuery(o, r, cells, type, callback) \in GoodQuery
<1> DEFINE q == GenerateQuery(o, r, cells, type, callback)
           columns == IF type \in {"UPDATE", "INSERT"} THEN Names(r) ELSE {}
           values == [c \in columns |-> cells[c]]
<1>1. /\ r.variables \in Seq(Column) /\ r.key \in Column
      /\ cells \in [Column -> Value] /\ \A c \in Numeric : cells[c] \in Number
  BY DEF OrmRecord, GoodRow, Row
<1>2. columns \in SUBSET Column
  BY <1>1 DEF Names
<1>3. values \in [columns -> Value]
  BY <1>1, <1>2
<1>4. values \in UNION {[S -> Value] : S \in SUBSET Column}
  BY <1>2, <1>3
<1>5. \A c \in Numeric \intersect DOMAIN values : values[c] \in Number
  BY <1>1
<1>6. q = [orm |-> o, type |-> type, callback |-> callback, columns |-> r.variables,
           values |-> values, key |-> r.key, keyValue |-> cells[r.key]]
  BY DEF GenerateQuery
<1> HIDE DEF q, values
<1>7. q \in QueryRecord /\ q.values = values
  BY <1>1, <1>4, <1>6 DEF QueryRecord
<1> QED
  BY <1>5, <1>7 DEF GoodQuery, q

\* The worker has executed the query at the front.
LEMMA ExecutedGood ==
    ASSUME DataInv, pending # <<>>,
           NEW ok \in BOOLEAN, NEW rows \in Seq(GoodRow), NEW id \in Number,
           ~ok => rows = <<>>, Executed(Head(pending), ok, rows, id)
    PROVE  /\ pending' \in Seq(GoodQuery) /\ finished' \in Seq(GoodResult)
           /\ UNCHANGED <<orm, memory, loaded, running, defined>>
<1> DEFINE q == Head(pending)
           f == [orm |-> q.orm, type |-> q.type, callback |-> q.callback,
                 columns |-> q.columns, ok |-> ok, rows |-> rows, insertId |-> id]
<1>1. q \in GoodQuery /\ Tail(pending) \in Seq(GoodQuery)
  BY DEF DataInv
<1>2. /\ q.orm \in Orm /\ q.type \in QueryType /\ q.callback \in Callback \union {None}
      /\ q.columns \in Seq(Column)
  BY <1>1 DEF GoodQuery, QueryRecord
<1>3. rows \in Seq(Row) /\ \A i \in DOMAIN rows : rows[i] \in GoodRow
  <2>1. \A i \in DOMAIN rows : rows[i] \in Row
    BY DEF GoodRow
  <2> QED
    BY <2>1
<1>4. pending' = Tail(pending) /\ finished' = Append(finished, f)
      /\ UNCHANGED <<orm, memory, loaded, running, defined>>
  BY DEF Executed
<1> HIDE DEF q
<1>5. f \in ResultRecord /\ f.rows = rows /\ f.ok = ok
  BY <1>2, <1>3 DEF ResultRecord
<1> HIDE DEF f
<1>6. f \in GoodResult
  BY <1>3, <1>5 DEF GoodResult
<1> QED
  BY <1>1, <1>4, <1>6 DEF DataInv

LEMMA ExecuteGood ==
    ASSUME DataInv, Execute
    PROVE  DataInv' /\ UNCHANGED <<orm, memory, loaded, running, defined>>
<1> DEFINE q == Head(pending)
<1>1. pending # <<>> /\ q \in GoodQuery
  BY DEF Execute, DataInv
<1>2. <<>> \in Seq(GoodRow) /\ \A row \in GoodRow : <<row>> \in Seq(GoodRow)
  OBVIOUS
<1>3. q.values \in UNION {[S -> Value] : S \in SUBSET Column} /\ DOMAIN q.values \subseteq Column
      /\ \A c \in DOMAIN q.values : q.values[c] \in Value /\ (c \in Numeric => q.values[c] \in Number)
  <2>1. PICK S \in SUBSET Column : q.values \in [S -> Value]
    BY <1>1 DEF GoodQuery, QueryRecord
  <2> QED
    BY <1>1, <2>1 DEF GoodQuery
<1>4. CASE ExecuteSelect(q)
  <2>1. UNCHANGED <<table, lastId>>
    BY <1>4 DEF ExecuteSelect
  <2>2. PICK rows \in Seq(GoodRow) : Executed(q, TRUE, rows, 0)
    BY <1>2, <1>4 DEF ExecuteSelect, Matching, DataInv
  <2> QED
    BY <1>1, <2>1, <2>2, ZeroIsNumber, ExecutedGood DEF DataInv
<1>5. CASE ExecuteUpdate(q)
  <2>1. Executed(q, TRUE, <<>>, 0) /\ UNCHANGED lastId
    BY <1>5 DEF ExecuteUpdate
  <2>2. ASSUME NEW row \in table
        PROVE  [c \in Column |-> IF c \in DOMAIN q.values THEN q.values[c] ELSE row[c]] \in GoodRow
    <3>1. row \in [Column -> Value] /\ \A c \in Numeric : row[c] \in Number
      BY DEF DataInv, GoodRow, Row
    <3> QED
      BY <1>3, <3>1, ColumnAssumption DEF GoodRow, Row
  <2>3. table' \subseteq GoodRow
    <3>1. CASE UNCHANGED table
      BY <3>1 DEF DataInv
    <3>2. CASE ~UNCHANGED table
      <4>1. PICK row \in table :
               table' = (table \ {row})
                  \union {[c \in Column |-> IF c \in DOMAIN q.values THEN q.values[c] ELSE row[c]]}
        BY <1>5, <3>2 DEF ExecuteUpdate, Matching
      <4> QED
        BY <2>2, <4>1 DEF DataInv
    <3> QED
      BY <3>1, <3>2
  <2> QED
    BY <1>1, <1>2, <2>1, <2>3, ZeroIsNumber, ExecutedGood DEF DataInv
<1>6. CASE ExecuteInsert(q)
  <2> DEFINE given == IF AutoColumn \in DOMAIN q.values THEN q.values[AutoColumn] ELSE 0
             id == IF given = 0 THEN lastId + 1 ELSE given
             new == [c \in Column |-> IF c = AutoColumn THEN id
                                      ELSE IF c \in DOMAIN q.values THEN q.values[c] ELSE 0]
  <2>1. /\ id <= MaxNumber /\ table' = table \union {new}
        /\ lastId' = IF id > lastId THEN id ELSE lastId
        /\ Executed(q, TRUE, <<>>, id)
    BY <1>6 DEF ExecuteInsert
  <2>2. given \in Number
    BY <1>3, ColumnAssumption, ZeroIsNumber
  <2>3. id \in Number
    BY <2>1, <2>2, BoundAssumption DEF DataInv, Number
  <2> HIDE DEF id, given
  <2>4. new \in GoodRow
    BY <1>3, <2>3, ZeroIsNumber, ColumnAssumption DEF GoodRow, Row, Value
  <2>5. table' \subseteq GoodRow /\ lastId' \in Number
    BY <2>1, <2>3, <2>4 DEF DataInv
  <2> QED
    BY <1>1, <1>2, <2>1, <2>3, <2>5, ExecutedGood DEF DataInv
<1>7. CASE ExecuteDelete(q)
  <2>1. Executed(q, TRUE, <<>>, 0) /\ UNCHANGED lastId /\ table' \subseteq GoodRow
    BY <1>7 DEF ExecuteDelete, DataInv
  <2> QED
    BY <1>1, <1>2, <2>1, ZeroIsNumber, ExecutedGood DEF DataInv
<1>8. CASE ExecuteFails(q)
  <2>1. Executed(q, FALSE, <<>>, 0) /\ UNCHANGED <<table, lastId>>
    BY <1>8 DEF ExecuteFails
  <2> QED
    BY <1>1, <1>2, <2>1, ZeroIsNumber, ExecutedGood DEF DataInv
<1> QED
  BY <1>4, <1>5, <1>6, <1>7, <1>8 DEF Execute

\* The result of the query at the front has been applied.
LEMMA ApplyGood ==
    ASSUME DataInv, OrmType, Apply
    PROVE  /\ memory' \in GoodRow /\ finished' \in Seq(GoodResult) /\ defined' \in BOOLEAN
           /\ UNCHANGED <<loaded, pending, table, lastId>>
           /\ Head(finished) \in GoodResult
<1> DEFINE f == Head(finished)
           r == orm[f.orm]
<1>1. /\ finished # <<>> /\ f.ok /\ ApplyResult(f) /\ finished' = Tail(finished)
      /\ defined' = (loaded \/ Written(f) = {})
      /\ UNCHANGED <<loaded, pending, table, lastId>>
  BY DEF Apply
<1>2. f \in GoodResult /\ Tail(finished) \in Seq(GoodResult)
  BY <1>1 DEF DataInv
<1>3. /\ f.orm \in Orm /\ f.columns \in Seq(Column) /\ f.insertId \in Number /\ f.rows \in Seq(Row)
      /\ \A i \in DOMAIN f.rows : f.rows[i] \in GoodRow
  BY <1>2 DEF GoodResult, ResultRecord
<1>4. memory \in [Column -> Value] /\ \A c \in Numeric : memory[c] \in Number
  BY DEF DataInv, GoodRow, Row
<1> HIDE DEF f
<1>5. ASSUME NEW c \in Column
      PROVE  memory'[c] \in Value /\ (c \in Numeric => memory'[c] \in Number)
  <2>1. CASE c \notin Written(f)
    BY <1>1, <1>4, <2>1 DEF ApplyResult
  <2>2. CASE c \in Written(f) /\ f.type = "INSERT"
    BY <1>1, <1>3, <2>2 DEF ApplyResult, Value
  <2>3. CASE c \in Written(f) /\ f.type # "INSERT"
    <3> DEFINE field == f.columns[FieldOf(r, c)]
    <3>1. f.rows # <<>> /\ FieldOf(r, c) \in DOMAIN f.columns
      BY <2>3 DEF Written
    <3>2. field \in Column /\ f.rows[1] \in GoodRow
      BY <1>3, <3>1
    <3>3. f.rows[1][field] \in Value
      BY <3>2 DEF GoodRow, Row
    <3>4. memory'[c] = SetValue(c, f.rows[1][field])
      BY <1>1, <2>3 DEF ApplyResult
    <3> HIDE DEF field
    <3> QED
      BY <1>4, <3>3, <3>4 DEF SetValue, Value
  <2> QED
    BY <2>1, <2>2, <2>3
<1>6. memory' = [c \in Column |-> memory'[c]]
  BY <1>1 DEF ApplyResult
<1>7. memory' \in GoodRow
  BY <1>5, <1>6, ColumnAssumption DEF GoodRow, Row
<1> QED
  BY <1>1, <1>2, <1>7 DEF f, DataInv

-----------------------------------------------------------------------------
(***************************************************************************)
(* Every step keeps the data good.                                         *)
(***************************************************************************)
Same == UNCHANGED <<pending, finished, running, table, memory, lastId, loaded, defined>>

LEMMA SameGood == ASSUME DataInv, Same PROVE DataInv'
BY DEF DataInv, Same

LEMMA QueryGood ==
    ASSUME DataInv, OrmType, NEW o \in Orm, NEW type \in QueryType,
           NEW callback \in Callback \union {None}, OrmQuery(o, type, callback)
    PROVE  DataInv'
<1>1. orm[o] \in OrmRecord
  BY RecordOf
<1>2. memory \in GoodRow /\ orm[o].key # None
  BY DEF DataInv, OrmQuery, CanGenerate
<1>3. GenerateQuery(o, orm[o], memory, type, callback) \in GoodQuery
  BY <1>1, <1>2, GenerateGood
<1>4. pending' = Append(pending, GenerateQuery(o, orm[o], memory, type, callback))
      /\ UNCHANGED <<finished, running, table, memory, lastId, loaded, defined>>
  BY DEF OrmQuery, Queued
<1> QED
  BY <1>3, <1>4 DEF DataInv

LEMMA NativeGood ==
    ASSUME DataInv, OrmType, NEW o \in Orm, OrmNative(o)
    PROVE  DataInv'
<1>1. memory \in [Column -> Value] /\ \A c \in Numeric : memory[c] \in Number
  BY DEF DataInv, GoodRow, Row
<1>2. CASE OrmCreate(o) \/ OrmDestroy(o)
           \/ \E name \in Column : OrmAddVar(o, name) \/ OrmDelVar(o, name) \/ OrmSetKey(o, name)
  <2>1. Same
    BY <1>2 DEF Same, OrmCreate, OrmDestroy, OrmAddVar, OrmDelVar, OrmSetKey, SetOrm, databaseVars
  <2> QED
    BY <2>1, SameGood
<1>3. CASE \E name \in Column : OrmSetKeyDangling(o, name)
  BY <1>3 DEF OrmSetKeyDangling, databaseVars, DataInv
<1>4. CASE OrmClearVars(o)
  <2>1. memory' \in GoodRow
    BY <1>1, <1>4, ZeroIsNumber, ColumnAssumption DEF OrmClearVars, GoodRow, Row, Value
  <2> QED
    BY <1>4, <2>1 DEF OrmClearVars, databaseVars, DataInv
<1>5. CASE \E row \in CacheRow : OrmApplyCache(o, row)
  <2>1. PICK row \in CacheRow : OrmApplyCache(o, row)
    BY <1>5
  <2>2. \A c \in DOMAIN row : row[c] \in Value
    <3>1. PICK fields \in SUBSET Column : row \in [fields -> Value]
      BY DEF CacheRow
    <3> QED
      BY <3>1
  <2>3. \A c \in Column \intersect DOMAIN row :
           /\ SetValue(c, row[c]) \in Value
           /\ c \in Numeric => SetValue(c, row[c]) \in Number
    BY <1>1, <2>2 DEF SetValue, Value
  <2>4. memory' \in GoodRow
    BY <1>1, <2>1, <2>3, ColumnAssumption DEF OrmApplyCache, GoodRow, Row
  <2> QED
    BY <2>1, <2>4 DEF OrmApplyCache, databaseVars, DataInv
<1>6. CASE \E callback \in Callback \union {None} :
              (\E type \in QueryType : OrmQuery(o, type, callback)) \/ OrmSave(o, callback)
  <2>1. SaveQueryType(orm[o]) \in QueryType
    BY DEF SaveQueryType, QueryType
  <2> QED
    BY <1>6, <2>1, QueryGood DEF OrmSave
<1> QED
  BY <1>2, <1>3, <1>4, <1>5, <1>6 DEF OrmNative

LEMMA NextGood ==
    ASSUME DataInv, OrmType, [Next]_vars
    PROVE  DataInv'
<1>1. ASSUME NEW o \in Orm, OrmNative(o) PROVE DataInv'
  BY <1>1, NativeGood
<1>2. ASSUME NEW c \in Column, NEW value \in Value, ScriptAssigns(c, value)
      PROVE  DataInv'
  <2>1. memory \in [Column -> Value] /\ \A x \in Numeric : memory[x] \in Number
    BY DEF DataInv, GoodRow, Row
  <2>2. memory' = [memory EXCEPT ![c] = value] /\ (c \in Numeric => value \in Number)
    BY <1>2 DEF ScriptAssigns
  <2>3. memory' \in [Column -> Value] /\ \A x \in Column : x # c => memory'[x] = memory[x]
        /\ memory'[c] = value
    BY <2>1, <2>2
  <2>4. \A x \in Numeric : memory'[x] \in Number
    BY <2>1, <2>2, <2>3, ColumnAssumption
  <2>5. memory' \in GoodRow
    BY <2>3, <2>4 DEF GoodRow, Row
  <2> QED
    BY <1>2, <2>5 DEF ScriptAssigns, databaseVars, DataInv
<1>3. CASE AmxUnload
  BY <1>3 DEF AmxUnload, databaseVars, DataInv
<1>4. CASE Execute
  BY <1>4, ExecuteGood
<1>5. CASE ApplyAndCall
  <2>1. Apply /\ running' = <<Head(finished)>>
    BY <1>5 DEF ApplyAndCall
  <2>2. /\ memory' \in GoodRow /\ finished' \in Seq(GoodResult) /\ defined' \in BOOLEAN
        /\ UNCHANGED <<loaded, pending, table, lastId>>
        /\ Head(finished) \in GoodResult
    BY <2>1, ApplyGood
  <2>3. running' \in Seq(GoodResult)
    BY <2>1, <2>2
  <2> QED
    BY <2>2, <2>3 DEF DataInv
<1>6. CASE ApplyOnly
  BY <1>6, ApplyGood DEF ApplyOnly, DataInv
<1>7. CASE CallbackReturns
  BY <1>7 DEF CallbackReturns, databaseVars, DataInv
<1>8. CASE DropFailed
  BY <1>8 DEF DropFailed, DataInv
<1>9. CASE UNCHANGED vars
  BY <1>9 DEF vars, DataInv
<1> QED
  BY <1>1, <1>2, <1>3, <1>4, <1>5, <1>6, <1>7, <1>8, <1>9 DEF Next

LEMMA InitGood == Init => DataInv
<1> SUFFICES ASSUME Init PROVE DataInv
  OBVIOUS
<1>1. memory \in GoodRow
  BY ZeroIsNumber, ColumnAssumption DEF Init, GoodRow, Row, Value
<1> QED
  BY <1>1, ZeroIsNumber DEF Init, DataInv

LEMMA DataIsGood == Spec => [](IInv /\ DataInv)
<1>1. IInv /\ DataInv /\ [Next]_vars => DataInv'
  BY NextGood DEF IInv
<1> QED
  BY <1>1, InitGood, InductiveInvariant, PTL DEF Spec

\* Every variable has its type, and what a numeric column or variable holds is
\* always a number: no query and no late result brings a text there.
THEOREM TypeCorrect == Spec => []TypeOK
<1>1. IInv /\ DataInv => TypeOK
  <2> SUFFICES ASSUME IInv, DataInv PROVE TypeOK
    OBVIOUS
  <2>1. GoodQuery \subseteq QueryRecord /\ GoodResult \subseteq ResultRecord /\ GoodRow \subseteq Row
    BY DEF GoodQuery, GoodResult, GoodRow
  <2>2. ConnectionType
    BY <2>1 DEF ConnectionType, DataInv
  <2> QED
    BY <2>1, <2>2 DEF TypeOK, IInv, DataInv, GoodRow
<1> QED
  BY <1>1, DataIsGood, PTL

-----------------------------------------------------------------------------
(***************************************************************************)
(* Late rows.                                                              *)
(***************************************************************************)
\* What one step that takes a result from the queue may do to the variables of
\* the script.
LoadsSelected ==
    (finished # <<>> /\ finished' = Tail(finished))
      => LET f == Head(finished)
         IN  (/\ f.type = "SELECT" /\ f.rows # <<>>
              /\ orm[f.orm].variables = f.columns)
               => \A c \in Column :
                     memory'[c] = IF c \in Names(orm[f.orm])
                                  THEN f.rows[1][c] ELSE memory[c]

\* Only ProcessTick takes one.
LEMMA TakesResult ==
    ASSUME DataInv, finished # <<>>, finished' = Tail(finished), [Next]_vars
    PROVE  Apply \/ DropFailed
<1>1. Len(finished') # Len(finished)
  BY DEF DataInv
<1>2. ~Execute
  <2>1. \A x : Append(finished, x) # Tail(finished)
    <3> SUFFICES ASSUME NEW x, Append(finished, x) = Tail(finished) PROVE FALSE
      OBVIOUS
    <3>1. Len(Append(finished, x)) = Len(finished) + 1 /\ Len(Tail(finished)) = Len(finished) - 1
          /\ Len(finished) \in Nat
      BY DEF DataInv
    <3> QED
      BY <3>1
  <2> QED
    BY <2>1 DEF Execute, ExecuteSelect, ExecuteUpdate, ExecuteInsert, ExecuteDelete,
                ExecuteFails, Executed
<1>3. finished' # finished
  BY <1>1
<1>4. \A o \in Orm : ~OrmNative(o)
  BY <1>3 DEF OrmNative, OrmCreate, OrmDestroy, OrmClearVars, OrmAddVar, OrmDelVar, OrmSetKey,
              OrmSetKeyDangling, OrmQuery, OrmSave, OrmApplyCache, SetOrm, databaseVars
<1>5. ~(\E c \in Column, value \in Value : ScriptAssigns(c, value)) /\ ~AmxUnload
      /\ ~CallbackReturns /\ ~UNCHANGED vars
  BY <1>3 DEF ScriptAssigns, AmxUnload, CallbackReturns, vars, databaseVars
<1> QED
  BY <1>2, <1>4, <1>5 DEF Next, ApplyAndCall, ApplyOnly

LEMMA LoadStep ==
    ASSUME DataInv, OrmType, [Next]_vars
    PROVE  LoadsSelected
<1> DEFINE f == Head(finished)
           r == orm[f.orm]
<1> SUFFICES ASSUME finished # <<>>, finished' = Tail(finished),
                    f.type = "SELECT", f.rows # <<>>, r.variables = f.columns,
                    NEW c \in Column
             PROVE  memory'[c] = IF c \in Names(r) THEN f.rows[1][c] ELSE memory[c]
  BY DEF LoadsSelected
<1>1. f \in GoodResult
  BY DEF DataInv
<1>2. f.ok
  BY <1>1 DEF GoodResult
<1>3. ApplyResult(f)
  BY <1>2, TakesResult DEF Apply, DropFailed
<1>4. f.rows[1] \in GoodRow
  BY <1>1 DEF GoodResult, ResultRecord
<1> HIDE DEF f
<1>5. Written(f) = {x \in Names(r) : FieldOf(r, x) \in DOMAIN f.columns}
  BY DEF Written
<1>6. CASE c \in Names(r)
  <2>1. FieldOf(r, c) \in DOMAIN r.variables /\ r.variables[FieldOf(r, c)] = c
    BY <1>6 DEF Names, FieldOf, Position
  <2>2. memory'[c] = SetValue(c, f.rows[1][c])
    BY <1>3, <1>5, <1>6, <2>1 DEF ApplyResult
  <2>3. c \in Numeric => f.rows[1][c] \notin Text
    BY <1>4, TextAssumption DEF GoodRow, Number
  <2> QED
    BY <1>6, <2>2, <2>3 DEF SetValue
<1>7. CASE c \notin Names(r)
  BY <1>3, <1>5, <1>7 DEF ApplyResult
<1> QED
  BY <1>6, <1>7

\* A row that arrives late goes into the variables it was selected for, and no
\* other variable of the script changes, if the instance has the variables it
\* had.
THEOREM LoadCorrect == Spec => LoadsWhatItSelected
<1>1. IInv /\ DataInv /\ [Next]_vars => [LoadsSelected]_vars
  BY LoadStep DEF IInv
<1>2. [LoadsSelected]_vars =>
        [(finished # <<>> /\ finished' = Tail(finished))
           => LET f == Head(finished)
              IN  (/\ f.type = "SELECT" /\ f.rows # <<>>
                   /\ orm[f.orm].variables = f.columns)
                    => \A c \in Column :
                          memory'[c] = IF c \in Names(orm[f.orm])
                                       THEN f.rows[1][c] ELSE memory[c]]_vars
  BY DEF LoadsSelected
<1> QED
  BY <1>1, <1>2, DataIsGood, PTL DEF Spec, LoadsWhatItSelected
=============================================================================
