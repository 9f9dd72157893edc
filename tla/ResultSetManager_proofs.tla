------------------------ MODULE ResultSetManager_proofs ------------------------
(***************************************************************************)
(* Ids keep their results, callbacks read their own, no result has two     *)
(* owners, and a file's callback hangs on its last query, for any number   *)
(* of queries, files, result sets and ids; and the natives read what       *)
(* MySQL has sent, for results of any size.                                *)
(***************************************************************************)
EXTENDS ResultSetManager, ResultData, Induction

-----------------------------------------------------------------------------
(***************************************************************************)
(* A file whose callback is run.                                           *)
(***************************************************************************)
FileInv ==
    /\ DOMAIN files \subseteq 1 .. MaxOpen
    /\ running.kind # "file" => running.file = 0

LEMMA FileStep == FileInv /\ [Next]_vars => FileInv'
<1> SUFFICES ASSUME FileInv, [Next]_vars PROVE FileInv'
    OBVIOUS
<1> USE DEF FileInv
<1>1. CASE UNCHANGED vars
    BY <1>1 DEF vars
<1>2. CASE Script
    <2>1. UNCHANGED running
        BY <1>2 DEF Script, SendQuery, SendFile, Query, QueryFile, Read, Save, SetResult,
                    Delete, SetActive
    <2>2. DOMAIN files' \subseteq 1 .. MaxOpen
        BY <1>2 DEF Script, SendQuery, SendFile, Query, QueryFile, Read, Save, SetResult,
                    Delete, SetActive, With
    <2> QED
        BY <2>1, <2>2
<1>3. CASE Tick
    <2>1. DOMAIN files' \subseteq DOMAIN files
        BY <1>3 DEF Tick, QueryDone, FilePartDone, FileDone, QueryFailed, FilePartFailed,
                    CallbackReturns, Without
    <2>2. running'.kind # "file" => running'.file = 0
        <3>1. CASE \E n \in 0 .. MaxResults : QueryDone(n)
            <4>1. PICK n \in 0 .. MaxResults : QueryDone(n)
                BY <3>1
            <4>2. running'.file = 0
                BY <4>1 DEF QueryDone
            <4> QED
                BY <4>2
        <3>2. CASE \E f \in DOMAIN files, n \in 0 .. MaxResults : FilePartDone(f, n)
            <4>1. UNCHANGED running
                BY <3>2 DEF FilePartDone
            <4> QED
                BY <4>1
        <3>3. CASE \E f \in DOMAIN files, n \in 0 .. MaxResults : FileDone(f, n)
            <4>1. PICK f \in DOMAIN files, n \in 0 .. MaxResults : FileDone(f, n)
                BY <3>3
            <4>2. running'.kind = "file"
                BY <4>1 DEF FileDone
            <4> QED
                BY <4>2
        <3>4. CASE QueryFailed \/ \E f \in DOMAIN files : FilePartFailed(f)
            <4>1. running' = [Idle EXCEPT !.kind = "error"]
                BY <3>4 DEF QueryFailed, FilePartFailed
            <4> QED
                BY <4>1 DEF Idle
        <3>5. CASE CallbackReturns
            <4>1. running' = Idle
                BY <3>5 DEF CallbackReturns
            <4> QED
                BY <4>1 DEF Idle
        <3> QED
            BY <1>3, <3>1, <3>2, <3>3, <3>4, <3>5 DEF Tick
    <2> QED
        BY <2>1, <2>2
<1> QED
    BY <1>1, <1>2, <1>3 DEF Next

\* A file is forgotten when its callback has returned, or when nothing of it is
\* under way any more.
Missing(f) ==
    \/ running.kind = "file" /\ running.file = f
    \/ files[f].size \notin files[f].todo
    \/ files[f].todo = {files[f].size} /\ running'.kind = "error"

\* Whatever happens to the other queries of a file, its callback is run if its
\* last query was accepted and has succeeded.
THEOREM MissingCorrect == Spec => OnlyLastCanBeMissing
<1>1. Init => FileInv
    BY DEF Init, FileInv, Idle
<1>2. ASSUME FileInv, [Next]_vars, NEW f \in DOMAIN files \ DOMAIN files'
      PROVE  Missing(f)
    <2>1. CASE UNCHANGED vars
        BY <1>2, <2>1 DEF vars
    <2>2. CASE Script
        <3>1. DOMAIN files \subseteq DOMAIN files'
            BY <2>2 DEF Script, SendQuery, SendFile, Query, QueryFile, Read, Save, SetResult,
                        Delete, SetActive, With
        <3> QED
            BY <1>2, <3>1
    <2>3. CASE \E g \in DOMAIN files : \E n \in 0 .. MaxResults : FilePartDone(g, n)
        <3>1. PICK g \in DOMAIN files, n \in 0 .. MaxResults : FilePartDone(g, n)
            BY <2>3
        <3>2. f = g /\ files[g].todo = {NextOf(g)}
            BY <1>2, <3>1 DEF FilePartDone, Without
        <3> QED
            BY <3>1, <3>2 DEF FilePartDone, Missing
    <2>4. CASE \E g \in DOMAIN files : FilePartFailed(g)
        <3>1. PICK g \in DOMAIN files : FilePartFailed(g)
            BY <2>4
        <3>2. f = g /\ files[g].todo = {NextOf(g)}
            BY <1>2, <3>1 DEF FilePartFailed, Without
        <3>3. running'.kind = "error"
            BY <3>1 DEF FilePartFailed, Idle
        <3> QED
            BY <3>2, <3>3 DEF Missing
    <2>5. CASE CallbackReturns
        <3>1. f = running.file
            BY <1>2, <2>5 DEF CallbackReturns, Without
        <3>2. f # 0
            BY <1>2 DEF FileInv
        <3> QED
            BY <1>2, <3>1, <3>2 DEF FileInv, Missing
    <2>6. CASE \/ \E n \in 0 .. MaxResults : QueryDone(n)
               \/ \E g \in DOMAIN files, n \in 0 .. MaxResults : FileDone(g, n)
               \/ QueryFailed
        <3>1. DOMAIN files = DOMAIN files'
            BY <2>6 DEF QueryDone, FileDone, QueryFailed
        <3> QED
            BY <1>2, <3>1
    <2> QED
        BY <1>2, <2>1, <2>2, <2>3, <2>4, <2>5, <2>6 DEF Next, Tick
<1>3. FileInv /\ [Next]_vars =>
         [\A f \in DOMAIN files \ DOMAIN files' :
             \/ running.kind = "file" /\ running.file = f
             \/ files[f].size \notin files[f].todo
             \/ files[f].todo = {files[f].size} /\ running'.kind = "error"]_vars
    BY <1>2 DEF Missing
<1> QED
    BY <1>1, <1>3, FileStep, PTL DEF Spec, OnlyLastCanBeMissing

-----------------------------------------------------------------------------
(***************************************************************************)
(* Ids.  The heap `all' that a step is about to leave, m the result sets   *)
(* made so far, and what points to them: a the active one, r that of the   *)
(* running callback, st the stored ones and fs the files.                  *)
(***************************************************************************)
HeapGood(all, m) ==
    /\ m \in Nat /\ DOMAIN all \subseteq 1 .. m
    /\ \A s \in DOMAIN all :
          all[s] = [results |-> all[s].results, current |-> all[s].current]

PointersGood(all, a, r) ==
    /\ a \in DOMAIN all \union {None}
    /\ r \in DOMAIN all \union {None}

IdsGood(all, st, h) ==
    /\ DOMAIN h = DOMAIN st
    /\ \A i \in DOMAIN st : st[i] \in DOMAIN all /\ all[st[i]].results = h[i]

\* A result set that waits for the others of its file is not yet in the hands
\* of the scripts: the merge can empty it.
FilesGood(all, a, st, fs) ==
    \A f \in DOMAIN fs :
       /\ fs[f] = [size |-> fs[f].size, collected |-> fs[f].collected,
                   got |-> fs[f].got, todo |-> fs[f].todo]
       /\ fs[f].collected \in Seq(DOMAIN all)
       /\ \A k \in 1 .. Len(fs[f].collected) :
             /\ fs[f].collected[k] # a
             /\ \A i \in DOMAIN st : fs[f].collected[k] # st[i]

Linked(all, m, a, r, st, h, fs) ==
    /\ HeapGood(all, m) /\ PointersGood(all, a, r)
    /\ IdsGood(all, st, h) /\ FilesGood(all, a, st, fs)

IdInv == Linked(sets, made, active, running.set, stored, held, files)

\* What the scripts and the files point to is never deleted.
LEMMA HeapLinked ==
    ASSUME NEW all, Heap(all),
           Linked(all, made', active', running'.set, stored', held', files')
    PROVE  IdInv'
<1> USE DEF Linked
<1>1. Referenced' \subseteq DOMAIN all
    <2> SUFFICES ASSUME NEW s \in Referenced' PROVE s \in DOMAIN all
        OBVIOUS
    <2>1. CASE s \in {active', running'.set}
        BY <2>1 DEF Referenced, PointersGood
    <2>2. CASE s \in Range(stored')
        BY <2>2 DEF IdsGood, Range
    <2>3. CASE \E f \in DOMAIN files' : s \in Range(files'[f].collected)
        BY <2>3 DEF FilesGood, Range
    <2> QED
        BY <2>1, <2>2, <2>3 DEF Referenced
<1>2. DOMAIN sets' = Referenced' /\ \A s \in DOMAIN sets' : sets'[s] = all[s]
    BY <1>1 DEF Heap
<1>3. active' \in DOMAIN sets' \union {None} /\ running'.set \in DOMAIN sets' \union {None}
    BY <1>2 DEF Referenced
<1>4. \A i \in DOMAIN stored' : stored'[i] \in DOMAIN sets'
    <2>1. \A i \in DOMAIN stored' : stored'[i] # None
        BY DEF IdsGood, HeapGood, None
    <2> QED
        BY <1>2, <2>1 DEF Referenced, Range
<1>5. \A f \in DOMAIN files' : files'[f].collected \in Seq(DOMAIN sets')
    <2> SUFFICES ASSUME NEW f \in DOMAIN files'
                 PROVE  files'[f].collected \in Seq(DOMAIN sets')
        OBVIOUS
    <2>1. files'[f].collected \in Seq(DOMAIN all)
        BY DEF FilesGood
    <2>2. \A k \in DOMAIN files'[f].collected : files'[f].collected[k] # None
        BY <2>1 DEF HeapGood, None
    <2>3. \A k \in DOMAIN files'[f].collected : files'[f].collected[k] \in DOMAIN sets'
        BY <1>2, <2>2 DEF Referenced, Range
    <2> QED
        BY <2>1, <2>3
<1>6. HeapGood(sets', made')
    BY <1>1, <1>2 DEF HeapGood
<1>7. IdsGood(sets', stored', held')
    BY <1>2, <1>4 DEF IdsGood
<1>8. FilesGood(sets', active', stored', files')
    BY <1>5 DEF FilesGood
<1> QED
    BY <1>3, <1>6, <1>7, <1>8 DEF IdInv, PointersGood

-----------------------------------------------------------------------------
(***************************************************************************)
(* What the steps do to the links.                                         *)
(***************************************************************************)
Collected(fs) == UNION {Range(fs[f].collected) : f \in DOMAIN fs}

\* A result set that has just been made waits for no file.
LEMMA NewIsNotCollected ==
    ASSUME NEW all, NEW m, NEW a, NEW r, NEW st, NEW h, NEW fs,
           Linked(all, m, a, r, st, h, fs), NEW s, s \notin 1 .. m
    PROVE  s \notin Collected(fs)
<1> SUFFICES ASSUME NEW f \in DOMAIN fs, s \in Range(fs[f].collected) PROVE FALSE
    BY DEF Collected
<1>1. fs[f].collected \in Seq(DOMAIN all) /\ DOMAIN all \subseteq 1 .. m
    BY DEF Linked, FilesGood, HeapGood
<1> QED
    BY <1>1 DEF Range

LEMMA LinkedWith ==
    ASSUME NEW all, NEW m, NEW a, NEW r, NEW st, NEW h, NEW fs,
           Linked(all, m, a, r, st, h, fs),
           NEW s \in Nat, s > m, NEW results, NEW current
    PROVE  Linked(With(all, s, [results |-> results, current |-> current]),
                  s, a, r, st, h, fs)
<1> DEFINE new == With(all, s, [results |-> results, current |-> current])
<1>1. DOMAIN new = DOMAIN all \union {s} /\ s \notin DOMAIN all /\ m \in Nat
    BY DEF With, Linked, HeapGood
<1>2. \A x \in DOMAIN all : new[x] = all[x]
    BY <1>1 DEF With
<1>3. new[s] = [results |-> results, current |-> current]
    BY DEF With
<1> HIDE DEF new
<1>4. HeapGood(new, s)
    BY <1>1, <1>2, <1>3 DEF HeapGood, Linked
<1>5. PointersGood(new, a, r)
    BY <1>1 DEF PointersGood, Linked
<1>6. IdsGood(new, st, h)
    BY <1>1, <1>2 DEF IdsGood, Linked
<1>7. FilesGood(new, a, st, fs)
    <2>1. \A f \in DOMAIN fs : fs[f].collected \in Seq(DOMAIN new)
        BY <1>1 DEF FilesGood, Linked
    <2> QED
        BY <2>1 DEF FilesGood, Linked
<1> QED
    BY <1>4, <1>5, <1>6, <1>7 DEF new, Linked

LEMMA LinkedMerge ==
    ASSUME NEW all, NEW m, NEW a, NEW r, NEW st, NEW h, NEW fs,
           Linked(all, m, a, r, st, h, fs),
           NEW s \in Nat, s > m, NEW list,
           \A i \in DOMAIN st : st[i] \notin Range(list)
    PROVE  Linked(Merge(all, list, s), s, a, r, st, h, fs)
<1> DEFINE rest == [x \in DOMAIN all |->
                       IF x \in Range(list) THEN [all[x] EXCEPT !.results = <<>>]
                       ELSE all[x]]
<1>1. HeapGood(rest, m)
    <2>1. m \in Nat /\ DOMAIN rest \subseteq 1 .. m
        BY DEF Linked, HeapGood
    <2>2. ASSUME NEW x \in DOMAIN rest
          PROVE  rest[x] = [results |-> rest[x].results, current |-> rest[x].current]
        <3>1. all[x] = [results |-> all[x].results, current |-> all[x].current]
            BY DEF Linked, HeapGood
        <3>2. CASE x \in Range(list)
            <4>1. rest[x] = [[results |-> all[x].results, current |-> all[x].current]
                                EXCEPT !.results = <<>>]
                BY <3>1, <3>2
            <4> QED
                BY <4>1
        <3>3. CASE x \notin Range(list)
            BY <3>1, <3>3
        <3> QED
            BY <3>2, <3>3
    <2> QED
        BY <2>1, <2>2 DEF HeapGood
<1>2. IdsGood(rest, st, h)
    BY DEF IdsGood, Linked
<1>3. PointersGood(rest, a, r) /\ FilesGood(rest, a, st, fs)
    BY DEF PointersGood, FilesGood, Linked
<1>4. Linked(rest, m, a, r, st, h, fs)
    BY <1>1, <1>2, <1>3 DEF Linked
<1> HIDE DEF rest
<1>5. Linked(With(rest, s, [results |-> ResultsOf(all, list), current |-> NoResult]),
             s, a, r, st, h, fs)
    BY <1>4, LinkedWith
<1> QED
    BY <1>5 DEF Merge, rest

LEMMA LinkedActive ==
    ASSUME NEW all, NEW m, NEW a, NEW r, NEW st, NEW h, NEW fs,
           Linked(all, m, a, r, st, h, fs),
           NEW s \in DOMAIN all \union {None}, s \notin Collected(fs)
    PROVE  Linked(all, m, s, r, st, h, fs)
<1>1. FilesGood(all, s, st, fs)
    <2>1. ASSUME NEW f \in DOMAIN fs, NEW k \in 1 .. Len(fs[f].collected)
          PROVE  fs[f].collected[k] # s
        <3>1. k \in DOMAIN fs[f].collected
            BY DEF Linked, FilesGood
        <3> QED
            BY <3>1 DEF Collected, Range
    <2> QED
        BY <2>1 DEF FilesGood, Linked
<1> QED
    BY <1>1 DEF Linked, PointersGood

LEMMA LinkedId ==
    ASSUME NEW all, NEW m, NEW a, NEW r, NEW st, NEW h, NEW fs,
           Linked(all, m, a, r, st, h, fs),
           NEW s \in DOMAIN all, s \notin Collected(fs), NEW i
    PROVE  Linked(all, m, a, r, With(st, i, s), With(h, i, all[s].results), fs)
<1>1. FilesGood(all, a, With(st, i, s), fs)
    <2>1. ASSUME NEW f \in DOMAIN fs, NEW k \in 1 .. Len(fs[f].collected),
                 NEW j \in DOMAIN With(st, i, s)
          PROVE  fs[f].collected[k] # With(st, i, s)[j]
        <3>1. k \in DOMAIN fs[f].collected
            BY DEF Linked, FilesGood
        <3>2. fs[f].collected[k] # s
            BY <3>1 DEF Collected, Range
        <3>3. CASE j = i
            BY <3>2, <3>3 DEF With
        <3>4. CASE j # i
            BY <3>4 DEF With, Linked, FilesGood
        <3> QED
            BY <3>3, <3>4
    <2> QED
        BY <2>1 DEF FilesGood, Linked
<1>2. IdsGood(all, With(st, i, s), With(h, i, all[s].results))
    BY DEF IdsGood, Linked, With
<1> QED
    BY <1>1, <1>2 DEF Linked

\* An id, or a file, may go.
LEMMA LinkedLessIds ==
    ASSUME NEW all, NEW m, NEW a, NEW r, NEW st, NEW h, NEW fs,
           Linked(all, m, a, r, st, h, fs), NEW i
    PROVE  Linked(all, m, a, r, [x \in DOMAIN st \ {i} |-> st[x]],
                  [x \in DOMAIN h \ {i} |-> h[x]], fs)
BY DEF Linked, IdsGood, FilesGood

LEMMA LinkedLessFiles ==
    ASSUME NEW all, NEW m, NEW a, NEW r, NEW st, NEW h, NEW fs,
           Linked(all, m, a, r, st, h, fs), NEW f
    PROVE  Linked(all, m, a, r, st, h, [x \in DOMAIN fs \ {f} |-> fs[x]])
BY DEF Linked, FilesGood

-----------------------------------------------------------------------------
(***************************************************************************)
(* The answers.                                                            *)
(***************************************************************************)
\* A file goes on with fewer queries to come, and more results perhaps.
LEMMA LinkedFile ==
    ASSUME NEW all, NEW m, NEW a, NEW r, NEW st, NEW h, NEW fs,
           Linked(all, m, a, r, st, h, fs),
           NEW f \in DOMAIN fs, NEW todo, NEW got, NEW list \in Seq(DOMAIN all),
           \A k \in 1 .. Len(list) :
              list[k] # a /\ \A i \in DOMAIN st : list[k] # st[i],
           NEW new, DOMAIN new = DOMAIN fs,
           \A x \in DOMAIN fs \ {f} : new[x] = fs[x],
           new[f] = [size |-> fs[f].size, collected |-> list, got |-> got, todo |-> todo]
    PROVE  Linked(all, m, a, r, st, h, new)
<1> SUFFICES FilesGood(all, a, st, new)
    BY DEF Linked
<1> SUFFICES ASSUME NEW x \in DOMAIN new
             PROVE  /\ new[x] = [size |-> new[x].size, collected |-> new[x].collected,
                                 got |-> new[x].got, todo |-> new[x].todo]
                    /\ new[x].collected \in Seq(DOMAIN all)
                    /\ \A k \in 1 .. Len(new[x].collected) :
                          /\ new[x].collected[k] # a
                          /\ \A i \in DOMAIN st : new[x].collected[k] # st[i]
    BY DEF FilesGood
<1>1. CASE x = f
    <2>1. new[x].collected = list
        BY <1>1
    <2> QED
        BY <1>1, <2>1
<1>2. CASE x # f
    <2>1. x \in DOMAIN fs /\ new[x] = fs[x]
        BY <1>2
    <2>2. FilesGood(all, a, st, fs)
        BY DEF Linked
    <2>3. /\ fs[x] = [size |-> fs[x].size, collected |-> fs[x].collected,
                      got |-> fs[x].got, todo |-> fs[x].todo]
          /\ fs[x].collected \in Seq(DOMAIN all)
          /\ \A k \in 1 .. Len(fs[x].collected) :
                /\ fs[x].collected[k] # a
                /\ \A i \in DOMAIN st : fs[x].collected[k] # st[i]
        BY <2>1, <2>2 DEF FilesGood
    <2> QED
        BY <2>1, <2>3, Zenon
<1> QED
    BY <1>1, <1>2

LEMMA SuccessorOfMade == IdInv => made + 1 \in Nat /\ made + 1 > made /\ made + 1 \notin 1 .. made
BY DEF IdInv, Linked, HeapGood

LEMMA QueryDoneLinks ==
    ASSUME IdInv, NEW n, QueryDone(n) PROVE IdInv'
<1> DEFINE all == With(sets, made', NewSet(made', n))
<1>1. made' = made + 1 /\ active' = made' /\ running'.set = made'
      /\ UNCHANGED <<stored, held, files>> /\ Heap(all)
    BY DEF QueryDone
<1>2. Linked(all, made', active, running.set, stored, held, files)
    BY <1>1, LinkedWith, SuccessorOfMade DEF IdInv, NewSet
<1>3. made' \in DOMAIN all /\ made' \notin Collected(files)
    BY <1>1, NewIsNotCollected, SuccessorOfMade DEF IdInv, With
<1> HIDE DEF all
<1>4. Linked(all, made', active', running.set, stored, held, files)
    BY <1>1, <1>2, <1>3, LinkedActive
<1>5. Linked(all, made', active', running'.set, stored', held', files')
    BY <1>1, <1>3, <1>4 DEF Linked, PointersGood
<1> QED
    BY <1>1, <1>5, HeapLinked

LEMMA FilePartDoneLinks ==
    ASSUME IdInv, NEW f \in DOMAIN files, NEW n, FilePartDone(f, n) PROVE IdInv'
<1> DEFINE all == With(sets, made', NewSet(made', n))
<1>1. made' = made + 1 /\ UNCHANGED <<active, running, stored, held>> /\ Heap(all)
    BY DEF FilePartDone
<1>2. Linked(all, made', active, running.set, stored, held, files)
    BY <1>1, LinkedWith, SuccessorOfMade DEF IdInv, NewSet
<1>3. DOMAIN all = DOMAIN sets \union {made'}
    BY DEF With
<1>4. made' # active /\ \A i \in DOMAIN stored : made' # stored[i]
    <2>1. made + 1 \notin DOMAIN sets /\ made + 1 # None
        BY SuccessorOfMade DEF IdInv, Linked, HeapGood, None
    <2> QED
        BY <1>1, <2>1 DEF IdInv, Linked, PointersGood, IdsGood
<1> HIDE DEF all
<1>5. Linked(all, made', active, running.set, stored, held, files')
    <2>1. CASE files[f].todo = {NextOf(f)}
        <3>1. files' = [x \in DOMAIN files \ {f} |-> files[x]]
            BY <2>1 DEF FilePartDone, Without
        <3> QED
            BY <1>2, <3>1, LinkedLessFiles
    <2>2. CASE files[f].todo # {NextOf(f)}
        <3> DEFINE list == Append(files[f].collected, made')
                   got == files[f].got \o NewSet(made', n).results
                   todo == files[f].todo \ {NextOf(f)}
        <3>1. files' = [files EXCEPT ![f].todo = @ \ {NextOf(f)},
                                     ![f].collected = Append(@, made'),
                                     ![f].got = @ \o NewSet(made', n).results]
            BY <2>2 DEF FilePartDone
        <3>2. files[f] = [size |-> files[f].size, collected |-> files[f].collected,
                          got |-> files[f].got, todo |-> files[f].todo]
            BY <1>2 DEF Linked, FilesGood
        <3>3. files'[f] = [size |-> files[f].size, collected |-> list,
                           got |-> got, todo |-> todo]
            BY <3>1, <3>2
        <3>4. DOMAIN files' = DOMAIN files /\ \A x \in DOMAIN files \ {f} : files'[x] = files[x]
            BY <3>1
        <3>5. files[f].collected \in Seq(DOMAIN all)
            BY <1>2 DEF Linked, FilesGood
        <3>6. list \in Seq(DOMAIN all)
            BY <1>3, <3>5
        <3>7. \A k \in 1 .. Len(list) :
                 list[k] # active /\ \A i \in DOMAIN stored : list[k] # stored[i]
            BY <1>2, <1>4, <3>5 DEF Linked, FilesGood
        <3> HIDE DEF list, got, todo
        <3> QED
            BY <1>2, <3>3, <3>4, <3>6, <3>7, LinkedFile
    <2> QED
        BY <2>1, <2>2
<1> QED
    BY <1>1, <1>5, HeapLinked

LEMMA FileDoneLinks ==
    ASSUME IdInv, NEW f \in DOMAIN files, NEW n, FileDone(f, n) PROVE IdInv'
<1> DEFINE part == made + 1
           all == With(sets, part, NewSet(part, n))
           list == Append(files[f].collected, part)
<1>1. /\ made' = made + 2 /\ active' = made' /\ running'.set = part
      /\ UNCHANGED <<stored, held>> /\ Heap(Merge(all, list, made'))
      /\ files' = [files EXCEPT ![f].todo = {}, ![f].collected = list]
    BY DEF FileDone
<1>2. Linked(all, part, active, running.set, stored, held, files)
    BY LinkedWith, SuccessorOfMade DEF IdInv, NewSet
<1>3. DOMAIN all = DOMAIN sets \union {part}
    BY DEF With
<1>4. \A i \in DOMAIN stored : part # stored[i]
    BY SuccessorOfMade DEF IdInv, Linked, HeapGood, IdsGood
<1>5. files[f].collected \in Seq(DOMAIN all)
    BY <1>2 DEF Linked, FilesGood
<1>6. made \in Nat
    BY DEF IdInv, Linked, HeapGood
<1> HIDE DEF all
<1>7. list \in Seq(DOMAIN all)
    BY <1>3, <1>5
<1>8. \A i \in DOMAIN stored : stored[i] \notin Range(list)
    <2>1. \A i \in DOMAIN stored : \A k \in 1 .. Len(list) : list[k] # stored[i]
        BY <1>2, <1>4, <1>5 DEF Linked, FilesGood
    <2>2. DOMAIN list = 1 .. Len(list)
        BY <1>7
    <2> QED
        BY <2>1, <2>2 DEF Range
<1> DEFINE merged == Merge(all, list, made')
<1>9. Linked(merged, made', active, running.set, stored, held, files)
    <2>1. made' \in Nat /\ made' > part
        BY <1>1, <1>6
    <2> HIDE DEF list, part
    <2> QED
        BY <1>2, <1>8, <2>1, LinkedMerge
<1>10. DOMAIN merged = DOMAIN all \union {made'}
    BY DEF Merge, With
<1>11. made' \notin 1 .. part
    BY <1>1, <1>6
<1> HIDE DEF merged
<1>12. made' \notin Collected(files)
    BY <1>2, <1>11, NewIsNotCollected
<1>13. Linked(merged, made', active', running.set, stored, held, files)
    BY <1>1, <1>9, <1>10, <1>12, LinkedActive
<1>14. Linked(merged, made', active', running.set, stored, held, files')
    <2>1. files[f] = [size |-> files[f].size, collected |-> files[f].collected,
                      got |-> files[f].got, todo |-> files[f].todo]
        BY <1>2 DEF Linked, FilesGood
    <2>2. files'[f] = [size |-> files[f].size, collected |-> list,
                       got |-> files[f].got, todo |-> {}]
        BY <1>1, <2>1
    <2>3. DOMAIN files' = DOMAIN files /\ \A x \in DOMAIN files \ {f} : files'[x] = files[x]
        BY <1>1
    <2>4. list \in Seq(DOMAIN merged)
        BY <1>7, <1>10
    <2>5. \A k \in 1 .. Len(list) : list[k] # active'
        <3>1. \A k \in 1 .. Len(list) : list[k] \in DOMAIN all
            BY <1>7
        <3>2. DOMAIN all \subseteq 1 .. part
            BY <1>2 DEF Linked, HeapGood
        <3> QED
            BY <1>1, <1>11, <3>1, <3>2
    <2>6. \A k \in 1 .. Len(list) : \A i \in DOMAIN stored : list[k] # stored[i]
        BY <1>7, <1>8 DEF Range
    <2> HIDE DEF list
    <2> QED
        BY <1>13, <2>2, <2>3, <2>4, <2>5, <2>6, LinkedFile
<1>15. Linked(merged, made', active', running'.set, stored', held', files')
    BY <1>1, <1>3, <1>10, <1>14 DEF Linked, PointersGood
<1> QED
    BY <1>1, <1>15, HeapLinked DEF merged
LEMMA LessLinks ==
    ASSUME IdInv, (\E f \in DOMAIN files : FilePartFailed(f)) \/ CallbackReturns
    PROVE  IdInv'
<1>1. made' = made /\ UNCHANGED <<stored, held>> /\ Heap(sets)
    BY DEF FilePartFailed, CallbackReturns
<1>2. active' \in {active, None} /\ running'.set = None
    BY DEF FilePartFailed, CallbackReturns, Idle
<1>3. None \notin Collected(files)
    BY NewIsNotCollected DEF IdInv, None
<1>4. Linked(sets, made, active', running.set, stored, held, files)
    BY <1>2, <1>3, LinkedActive DEF IdInv
<1>5. Linked(sets, made, active', running'.set, stored, held, files)
    BY <1>2, <1>4 DEF Linked, PointersGood
<1>6. Linked(sets, made, active', running'.set, stored, held, files')
    <2>1. CASE \E f \in DOMAIN files : FilePartFailed(f)
        <3>1. PICK f \in DOMAIN files : FilePartFailed(f)
            BY <2>1
        <3>2. CASE files[f].todo = {NextOf(f)}
            <4>1. files' = [x \in DOMAIN files \ {f} |-> files[x]]
                BY <3>1, <3>2 DEF FilePartFailed, Without
            <4> QED
                BY <1>5, <4>1, LinkedLessFiles
        <3>3. CASE files[f].todo # {NextOf(f)}
            <4> DEFINE todo == files[f].todo \ {NextOf(f)}
            <4>1. files' = [files EXCEPT ![f].todo = todo]
                BY <3>1, <3>3 DEF FilePartFailed
            <4>2. files[f] = [size |-> files[f].size, collected |-> files[f].collected,
                              got |-> files[f].got, todo |-> files[f].todo]
                BY <1>5 DEF Linked, FilesGood
            <4>3. files'[f] = [size |-> files[f].size, collected |-> files[f].collected,
                               got |-> files[f].got, todo |-> todo]
                BY <4>1, <4>2
            <4>4. DOMAIN files' = DOMAIN files
                  /\ \A x \in DOMAIN files \ {f} : files'[x] = files[x]
                BY <4>1
            <4>5. /\ files[f].collected \in Seq(DOMAIN sets)
                  /\ \A k \in 1 .. Len(files[f].collected) :
                        /\ files[f].collected[k] # active'
                        /\ \A i \in DOMAIN stored : files[f].collected[k] # stored[i]
                BY <1>5 DEF Linked, FilesGood
            <4> HIDE DEF todo
            <4> QED
                BY <1>5, <4>3, <4>4, <4>5, LinkedFile
        <3> QED
            BY <3>2, <3>3
    <2>2. CASE CallbackReturns
        <3>1. PICK f : files' = [x \in DOMAIN files \ {f} |-> files[x]]
            BY <2>2 DEF CallbackReturns, Without
        <3>2. Linked(sets, made, active', running'.set, stored, held,
                     [x \in DOMAIN files \ {f} |-> files[x]])
            BY <1>5, LinkedLessFiles
        <3> QED
            BY <3>1, <3>2
    <2> QED
        BY <2>1, <2>2
<1> QED
    BY <1>1, <1>6, HeapLinked

-----------------------------------------------------------------------------
(***************************************************************************)
(* The natives.                                                            *)
(***************************************************************************)
\* mysql_query and mysql_query_file make a result set active and store it.
LEMMA StoreNewLinks ==
    ASSUME NEW all, made' \in DOMAIN all, made' \notin 1 .. made, IdInv,
           Linked(all, made', active, running.set, stored, held, files),
           active' = made', UNCHANGED <<files, running>>, Heap(all),
           Store(made', all[made'].results)
    PROVE  IdInv'
<1>1. made' \notin Collected(files)
    BY NewIsNotCollected DEF IdInv
<1>2. Linked(all, made', active', running.set, stored, held, files)
    BY <1>1, LinkedActive
<1>3. PICK i \in 1 .. MaxId : /\ stored' = With(stored, i, made')
                             /\ held' = With(held, i, all[made'].results)
    BY DEF Store, IsNewId
<1>4. Linked(all, made', active', running.set, stored', held', files)
    BY <1>1, <1>2, <1>3, LinkedId
<1> QED
    BY <1>4, HeapLinked

LEMMA QueryLinks ==
    ASSUME IdInv, NEW n, Query(n) PROVE IdInv'
<1> DEFINE all == With(sets, made', NewSet(made', n))
<1>1. made' = made + 1 /\ active' = made' /\ UNCHANGED <<files, running>> /\ Heap(all)
      /\ Store(made', NewSet(made', n).results)
    BY DEF Query
<1>2. Linked(all, made', active, running.set, stored, held, files)
    BY <1>1, LinkedWith, SuccessorOfMade DEF IdInv, NewSet
<1>3. made' \in DOMAIN all /\ all[made'] = NewSet(made', n)
    BY DEF With
<1> HIDE DEF all
<1> QED
    BY <1>1, <1>2, <1>3, SuccessorOfMade, StoreNewLinks

LEMMA QueryFileLinks ==
    ASSUME IdInv, NEW n \in Nat, NEW counts \in [1 .. n -> Nat], QueryFile(counts)
    PROVE  IdInv'
<1> DEFINE parts == [i \in 1 .. n |-> made + i]
           all == [s \in DOMAIN sets \union Range(parts) |->
                     IF s \in DOMAIN sets THEN sets[s] ELSE NewSet(s, counts[s - made])]
           last == made + n + 1
           merged == Merge(all, parts, last)
<1>1. Len(counts) = n
    OBVIOUS
<1>2. /\ made' = last /\ active' = last /\ UNCHANGED <<files, running>>
      /\ Heap(merged) /\ Store(last, ResultsOf(all, parts))
    BY <1>1 DEF QueryFile
<1>3. made \in Nat /\ DOMAIN sets \subseteq 1 .. made
    BY DEF IdInv, Linked, HeapGood
<1>4. Range(parts) = made + 1 .. made + n
    <2>1. \A s \in made + 1 .. made + n : s - made \in 1 .. n /\ parts[s - made] = s
        BY <1>3
    <2>2. \A i \in 1 .. n : parts[i] \in made + 1 .. made + n
        BY <1>3
    <2> QED
        BY <2>1, <2>2 DEF Range
<1> HIDE DEF parts
<1>5. Linked(all, made + n, active, running.set, stored, held, files)
    <2>1. DOMAIN all = DOMAIN sets \union (made + 1 .. made + n)
          /\ \A s \in DOMAIN sets : all[s] = sets[s]
        BY <1>4
    <2>2. \A s \in DOMAIN all \ DOMAIN sets : all[s] = NewSet(s, counts[s - made])
        OBVIOUS
    <2> HIDE DEF all
    <2>3. HeapGood(all, made + n)
        <3>1. made + n \in Nat /\ DOMAIN all \subseteq 1 .. made + n
            BY <1>3, <2>1
        <3>2. \A s \in DOMAIN all :
                 all[s] = [results |-> all[s].results, current |-> all[s].current]
            <4>1. ASSUME NEW s \in DOMAIN sets
                  PROVE  all[s] = [results |-> all[s].results, current |-> all[s].current]
                BY <2>1 DEF IdInv, Linked, HeapGood
            <4>2. ASSUME NEW s \in DOMAIN all \ DOMAIN sets
                  PROVE  all[s] = [results |-> all[s].results, current |-> all[s].current]
                BY <2>2 DEF NewSet
            <4> QED
                BY <4>1, <4>2
        <3> QED
            BY <3>1, <3>2 DEF HeapGood
    <2>4. PointersGood(all, active, running.set)
        BY <2>1 DEF IdInv, Linked, PointersGood
    <2>5. IdsGood(all, stored, held)
        BY <2>1 DEF IdInv, Linked, IdsGood
    <2>6. FilesGood(all, active, stored, files)
        <3>1. \A f \in DOMAIN files : files[f].collected \in Seq(DOMAIN all)
            BY <2>1 DEF IdInv, Linked, FilesGood
        <3> QED
            BY <3>1 DEF IdInv, Linked, FilesGood
    <2> QED
        BY <2>3, <2>4, <2>5, <2>6 DEF Linked
<1>6. \A i \in DOMAIN stored : stored[i] \notin Range(parts)
    BY <1>3, <1>4 DEF IdInv, Linked, IdsGood
<1>7. last \in Nat /\ last > made + n /\ last \notin 1 .. made
    BY <1>3
<1>8. last \in DOMAIN merged /\ merged[last].results = ResultsOf(all, parts)
    BY DEF Merge, With
<1> HIDE DEF all, last
<1>9. Linked(merged, last, active, running.set, stored, held, files)
    BY <1>5, <1>6, <1>7, LinkedMerge
<1> HIDE DEF merged
<1> QED
    BY <1>2, <1>7, <1>8, <1>9, StoreNewLinks

\* GetActiveResult and cache_set_result change the current result only.
LEMMA CurrentLinks ==
    ASSUME IdInv, Read \/ \E i \in Nat : SetResult(i) PROVE IdInv'
<1>1. PICK c : sets' = [sets EXCEPT ![active].current = c]
    BY DEF Read, SetResult
<1>2. UNCHANGED <<made, active, stored, files, running, held>>
    BY DEF Read, SetResult
<1>3. DOMAIN sets' = DOMAIN sets
    BY <1>1
<1>4. ASSUME NEW s \in DOMAIN sets
      PROVE  /\ sets'[s] = [results |-> sets'[s].results, current |-> sets'[s].current]
             /\ sets'[s].results = sets[s].results
    <2>1. sets[s] = [results |-> sets[s].results, current |-> sets[s].current]
        BY DEF IdInv, Linked, HeapGood
    <2>2. CASE s = active
        <3>1. sets'[s] = [sets[s] EXCEPT !.current = c]
            BY <1>1, <2>2
        <3>2. sets'[s] = [results |-> sets[s].results, current |-> c]
            BY <2>1, <3>1
        <3> QED
            BY <3>2
    <2>3. CASE s # active
        BY <1>1, <2>1, <2>3
    <2> QED
        BY <2>2, <2>3
<1>5. HeapGood(sets', made')
    BY <1>2, <1>3, <1>4 DEF HeapGood, IdInv, Linked
<1>6. IdsGood(sets', stored', held')
    BY <1>2, <1>3, <1>4 DEF IdsGood, IdInv, Linked
<1>7. PointersGood(sets', active', running'.set) /\ FilesGood(sets', active', stored', files')
    BY <1>2, <1>3 DEF PointersGood, FilesGood, IdInv, Linked
<1> QED
    BY <1>5, <1>6, <1>7 DEF IdInv, Linked

LEMMA SaveLinks ==
    ASSUME IdInv, Save PROVE IdInv'
<1>1. active \in DOMAIN sets
    BY DEF Save, IdInv, Linked, PointersGood
<1>2. active \notin Collected(files)
    BY DEF IdInv, Linked, FilesGood, Collected, Range
<1>3. PICK i \in 1 .. MaxId : /\ stored' = With(stored, i, active)
                             /\ held' = With(held, i, sets[active].results)
    BY DEF Save, Store, IsNewId
<1>4. UNCHANGED <<sets, made, active, files, running>>
    BY DEF Save
<1> QED
    BY <1>1, <1>2, <1>3, <1>4, LinkedId DEF IdInv

LEMMA DeleteLinks ==
    ASSUME IdInv, NEW i, Delete(i) PROVE IdInv'
<1>1. /\ active' \in {active, None} /\ made' = made /\ UNCHANGED <<files, running>>
      /\ stored' = [x \in DOMAIN stored \ {i} |-> stored[x]]
      /\ held' = [x \in DOMAIN held \ {i} |-> held[x]]
      /\ Heap(sets)
    BY DEF Delete
<1>2. None \notin Collected(files)
    BY NewIsNotCollected DEF IdInv, None
<1>3. Linked(sets, made, active', running.set, stored, held, files)
    BY <1>1, <1>2, LinkedActive DEF IdInv
<1>4. Linked(sets, made, active', running.set, stored', held', files)
    BY <1>1, <1>3, LinkedLessIds
<1> QED
    BY <1>1, <1>4, HeapLinked

LEMMA SetActiveLinks ==
    ASSUME IdInv, NEW s \in Range(stored) \union {None}, SetActive(s) PROVE IdInv'
<1>1. active' = s /\ UNCHANGED <<made, stored, held, files, running>> /\ Heap(sets)
    BY DEF SetActive
<1>2. s \in DOMAIN sets \union {None}
    BY DEF IdInv, Linked, IdsGood, Range
<1>3. s \notin Collected(files)
    <2>1. CASE s = None
        BY <2>1, NewIsNotCollected DEF IdInv, None
    <2>2. CASE s \in Range(stored)
        BY <2>2 DEF IdInv, Linked, FilesGood, Collected, Range
    <2> QED
        BY <2>1, <2>2
<1>4. Linked(sets, made, active', running.set, stored, held, files)
    BY <1>1, <1>2, <1>3, LinkedActive DEF IdInv
<1> QED
    BY <1>1, <1>4, HeapLinked

\* mysql_tquery and mysql_tquery_file, and a query that fails.
LEMMA SendLinks ==
    ASSUME IdInv,
           SendQuery \/ QueryFailed \/ \E n, accepted : SendFile(n, accepted)
    PROVE  IdInv'
<1>1. CASE SendQuery
    BY <1>1 DEF SendQuery, IdInv
<1>2. CASE QueryFailed
    <2>1. running'.set = None /\ UNCHANGED <<sets, made, active, stored, files, held>>
        BY <1>2 DEF QueryFailed, Idle
    <2> QED
        BY <2>1 DEF IdInv, Linked, PointersGood
<1>3. ASSUME NEW n, NEW accepted, SendFile(n, accepted) PROVE IdInv'
    <2>1. PICK f \in (1 .. MaxOpen) \ DOMAIN files :
             files' = With(files, f, [size |-> n, collected |-> <<>>, got |-> <<>>,
                                      todo |-> accepted])
        BY <1>3 DEF SendFile
    <2>2. UNCHANGED <<sets, made, active, stored, running, held>>
        BY <1>3 DEF SendFile
    <2>3. FilesGood(sets, active, stored, files')
        <3>1. files'[f] = [size |-> n, collected |-> <<>>, got |-> <<>>, todo |-> accepted]
            BY <2>1 DEF With
        <3>2. DOMAIN files' = DOMAIN files \union {f}
              /\ \A x \in DOMAIN files : files'[x] = files[x]
            BY <2>1 DEF With
        <3>3. files'[f].collected = <<>>
            BY <3>1
        <3>4. /\ files'[f] = [size |-> files'[f].size, collected |-> files'[f].collected,
                              got |-> files'[f].got, todo |-> files'[f].todo]
              /\ files'[f].collected \in Seq(DOMAIN sets)
              /\ Len(files'[f].collected) = 0
            BY <3>1, <3>3
        <3>5. FilesGood(sets, active, stored, files)
            BY DEF IdInv, Linked
        <3> QED
            BY <3>2, <3>4, <3>5 DEF FilesGood
    <2> QED
        BY <2>2, <2>3 DEF IdInv, Linked
<1> QED
    BY <1>1, <1>2, <1>3

LEMMA IdStep == IdInv /\ [Next]_vars => IdInv'
<1> SUFFICES ASSUME IdInv, [Next]_vars PROVE IdInv'
    OBVIOUS
<1>1. CASE UNCHANGED vars
    BY <1>1 DEF vars, IdInv
<1>2. CASE Script
    <2>1. ASSUME NEW n \in 0 .. MaxQueries, NEW counts \in [1 .. n -> 0 .. MaxResults],
                 QueryFile(counts)
          PROVE  IdInv'
        <3>1. counts \in [1 .. n -> Nat] /\ n \in Nat
            BY <2>1
        <3> QED
            BY <2>1, <3>1, QueryFileLinks
    <2> QED
        BY <1>2, <2>1, SendLinks, QueryLinks, CurrentLinks, SaveLinks, DeleteLinks,
           SetActiveLinks DEF Script
<1>3. CASE Tick
    BY <1>3, QueryDoneLinks, FilePartDoneLinks, FileDoneLinks, SendLinks, LessLinks DEF Tick
<1> QED
    BY <1>1, <1>2, <1>3 DEF Next

\* The id that cache_save or mysql_query has returned leads to the same results
\* until the script deletes it.
THEOREM IdsCorrect == Spec => []IdsKeepTheirResults
<1>1. Init => IdInv
    BY DEF Init, Idle, None, IdInv, Linked, HeapGood, PointersGood, IdsGood, FilesGood
<1>2. IdInv => IdsKeepTheirResults
    BY DEF IdInv, Linked, IdsGood, IdsKeepTheirResults
<1> QED
    BY <1>1, <1>2, IdStep, PTL DEF Spec

-----------------------------------------------------------------------------
(***************************************************************************)
(* Who owns the results.                                                   *)
(***************************************************************************)
ResultsUpTo(m) == [query : 1 .. m, index : 1 .. MaxResults]

\* No two result sets of the heap share a result, none has one of the deleted
\* results fr, and the current result of each is its own.  A result set that
\* waits for the others of its file has none: the merge cannot leave it with a
\* result that it does not own.
ResultsGood(all, m) ==
    \A s \in DOMAIN all :
       /\ all[s].results \in Seq(ResultsUpTo(m))
       /\ all[s].current \in Range(all[s].results) \union {NoResult}
       /\ \A t \in DOMAIN all \ {s} :
             Range(all[s].results) \intersect Range(all[t].results) = {}

DeletedGood(all, m, fr) ==
    /\ fr \subseteq ResultsUpTo(m)
    /\ \A s \in DOMAIN all : Range(all[s].results) \intersect fr = {}

WaitingGood(all, fs) == \A s \in Collected(fs) : all[s].current = NoResult

Owned(all, m, fr, fs) ==
    ResultsGood(all, m) /\ DeletedGood(all, m, fr) /\ WaitingGood(all, fs)

OwnInv == Owned(sets, made, freed, files)

\* What is left when the others are deleted.
LEMMA HeapKeeps ==
    ASSUME NEW all, Heap(all), IdInv'
    PROVE  /\ DOMAIN sets' = Referenced'
           /\ DOMAIN sets' \subseteq DOMAIN all
           /\ \A s \in DOMAIN sets' : sets'[s] = all[s]
           /\ Collected(files') \subseteq DOMAIN sets'
<1>1. Collected(files') \subseteq DOMAIN sets'
    BY DEF IdInv, Linked, FilesGood, Collected, Range
<1>2. {active', running'.set} \subseteq DOMAIN sets' \union {None}
    BY DEF IdInv, Linked, PointersGood
<1>3. Range(stored') \subseteq DOMAIN sets'
    BY DEF IdInv, Linked, IdsGood, Range
<1>4. Referenced' \subseteq DOMAIN sets'
    BY <1>1, <1>2, <1>3 DEF Referenced, Collected
<1> QED
    BY <1>1, <1>4 DEF Heap

LEMMA OwnedHeap ==
    ASSUME NEW all, Heap(all), IdInv', Owned(all, made', freed, files')
    PROVE  OwnInv'
<1>1. /\ DOMAIN sets' = Referenced' /\ DOMAIN sets' \subseteq DOMAIN all
      /\ \A s \in DOMAIN sets' : sets'[s] = all[s]
      /\ Collected(files') \subseteq DOMAIN sets'
    BY HeapKeeps
<1>2. freed' = freed \union UNION {Range(all[s].results) : s \in DOMAIN all \ DOMAIN sets'}
    BY <1>1 DEF Heap
<1>3. ResultsGood(sets', made')
    BY <1>1 DEF Owned, ResultsGood
<1>4. DeletedGood(sets', made', freed')
    <2>1. \A s \in DOMAIN all : Range(all[s].results) \subseteq ResultsUpTo(made')
        BY DEF Owned, ResultsGood, Range
    <2>2. freed' \subseteq ResultsUpTo(made')
        BY <1>2, <2>1 DEF Owned, DeletedGood
    <2>3. ASSUME NEW s \in DOMAIN sets' PROVE Range(sets'[s].results) \intersect freed' = {}
        <3>1. Range(all[s].results) \intersect freed = {}
            BY <1>1 DEF Owned, DeletedGood
        <3>2. \A t \in DOMAIN all \ DOMAIN sets' :
                 Range(all[s].results) \intersect Range(all[t].results) = {}
            BY <1>1 DEF Owned, ResultsGood
        <3> QED
            BY <1>1, <1>2, <3>1, <3>2
    <2> QED
        BY <2>2, <2>3 DEF DeletedGood
<1>5. WaitingGood(sets', files')
    BY <1>1 DEF Owned, WaitingGood
<1> QED
    BY <1>3, <1>4, <1>5 DEF OwnInv, Owned

\* Results are told apart by the number of their query.
LEMMA NewResults ==
    ASSUME NEW s \in Nat, s # 0, NEW n \in 0 .. MaxResults
    PROVE  /\ NewSet(s, n).results \in Seq(ResultsUpTo(s))
           /\ \A x \in Range(NewSet(s, n).results) : x.query = s
           /\ NewSet(s, n).current = NoResult
<1>1. NewSet(s, n).results = [i \in 1 .. n |-> [query |-> s, index |-> i]]
    BY DEF NewSet
<1>2. n \in Nat /\ \A i \in 1 .. n : [query |-> s, index |-> i] \in ResultsUpTo(s)
    BY BoundAssumption DEF ResultsUpTo
<1>3. NewSet(s, n).results \in Seq(ResultsUpTo(s))
    BY <1>1, <1>2
<1>4. \A x \in Range(NewSet(s, n).results) : x.query = s
    BY <1>1 DEF Range
<1> QED
    BY <1>3, <1>4 DEF NewSet

LEMMA MoreResults ==
    ASSUME NEW m \in Nat, NEW k \in Nat, m <= k
    PROVE  ResultsUpTo(m) \subseteq ResultsUpTo(k)
           /\ Seq(ResultsUpTo(m)) \subseteq Seq(ResultsUpTo(k))
<1>1. ResultsUpTo(m) \subseteq ResultsUpTo(k)
    BY DEF ResultsUpTo
<1> QED
    BY <1>1

\* Result sets with numbers above m are new, each with the results of its own
\* query.
LEMMA OwnedNew ==
    ASSUME NEW all, NEW m \in Nat, NEW fr, NEW fs, Owned(all, m, fr, fs),
           DOMAIN all \subseteq 1 .. m, Collected(fs) \subseteq DOMAIN all,
           NEW k \in Nat, m <= k, NEW more,
           DOMAIN all \subseteq DOMAIN more,
           \A s \in DOMAIN all : more[s] = all[s],
           \A s \in DOMAIN more \ DOMAIN all :
              s \in m + 1 .. k /\ \E n \in 0 .. MaxResults : more[s] = NewSet(s, n)
    PROVE  Owned(more, k, fr, fs)
<1>1. ResultsUpTo(m) \subseteq ResultsUpTo(k) /\ Seq(ResultsUpTo(m)) \subseteq Seq(ResultsUpTo(k))
    BY MoreResults
<1>2. ASSUME NEW s \in DOMAIN more \ DOMAIN all
      PROVE  /\ more[s].results \in Seq(ResultsUpTo(k))
             /\ more[s].current = NoResult
             /\ \A x \in Range(more[s].results) : x.query = s
             /\ s \in m + 1 .. k
    <2>1. s \in Nat /\ s # 0 /\ s \in m + 1 .. k /\ s <= k
        OBVIOUS
    <2>2. PICK n \in 0 .. MaxResults : more[s] = NewSet(s, n)
        OBVIOUS
    <2>3. Seq(ResultsUpTo(s)) \subseteq Seq(ResultsUpTo(k))
        BY <2>1, MoreResults
    <2> QED
        BY <2>1, <2>2, <2>3, NewResults
<1>3. \A x \in ResultsUpTo(m) : x.query \in 1 .. m
    BY DEF ResultsUpTo
<1>4. \A s \in DOMAIN all : \A x \in Range(more[s].results) : x.query \in 1 .. m
    BY <1>3 DEF Owned, ResultsGood, Range
<1>5. ASSUME NEW s \in DOMAIN more, NEW t \in DOMAIN more, s # t
      PROVE  Range(more[s].results) \intersect Range(more[t].results) = {}
    <2>1. CASE s \in DOMAIN all /\ t \in DOMAIN all
        BY <1>5, <2>1 DEF Owned, ResultsGood
    <2>2. CASE s \in DOMAIN all /\ t \notin DOMAIN all
        <3>1. \A x \in Range(more[s].results) : x.query \in 1 .. m
            BY <1>4, <2>2
        <3>2. \A x \in Range(more[t].results) : x.query = t /\ t \in m + 1 .. k
            BY <1>2, <2>2
        <3> QED
            BY <3>1, <3>2
    <2>3. CASE s \notin DOMAIN all /\ t \in DOMAIN all
        <3>1. \A x \in Range(more[t].results) : x.query \in 1 .. m
            BY <1>4, <2>3
        <3>2. \A x \in Range(more[s].results) : x.query = s /\ s \in m + 1 .. k
            BY <1>2, <2>3
        <3> QED
            BY <3>1, <3>2
    <2>4. CASE s \notin DOMAIN all /\ t \notin DOMAIN all
        BY <1>2, <1>5, <2>4
    <2> QED
        BY <2>1, <2>2, <2>3, <2>4
<1>6. ResultsGood(more, k)
    <2>1. ASSUME NEW s \in DOMAIN more
          PROVE  /\ more[s].results \in Seq(ResultsUpTo(k))
                 /\ more[s].current \in Range(more[s].results) \union {NoResult}
        <3>1. CASE s \in DOMAIN all
            BY <1>1, <3>1 DEF Owned, ResultsGood
        <3>2. CASE s \notin DOMAIN all
            BY <1>2, <3>2
        <3> QED
            BY <3>1, <3>2
    <2> QED
        BY <1>5, <2>1 DEF ResultsGood
<1>7. DeletedGood(more, k, fr)
    <2>1. fr \subseteq ResultsUpTo(m)
        BY DEF Owned, DeletedGood
    <2>2. ASSUME NEW s \in DOMAIN more PROVE Range(more[s].results) \intersect fr = {}
        <3>1. CASE s \in DOMAIN all
            BY <3>1 DEF Owned, DeletedGood
        <3>2. CASE s \notin DOMAIN all
            <4>1. \A x \in Range(more[s].results) : x.query = s /\ s \in m + 1 .. k
                BY <1>2, <3>2
            <4> QED
                BY <1>3, <2>1, <4>1
        <3> QED
            BY <3>1, <3>2
    <2> QED
        BY <1>1, <2>1, <2>2 DEF DeletedGood
<1>8. WaitingGood(more, fs)
    BY DEF Owned, WaitingGood
<1> QED
    BY <1>6, <1>7, <1>8 DEF Owned

\* The results of the listed result sets, one after the other.
LEMMA ResultsOfType ==
    ASSUME NEW all, NEW R, NEW list \in Seq(DOMAIN all),
           \A s \in DOMAIN all : all[s].results \in Seq(R)
    PROVE  /\ [i \in DOMAIN list |-> all[list[i]].results] \in Seq(Seq(R))
           /\ ResultsOf(all, list) \in Seq(R)
           /\ Range(ResultsOf(all, list)) = UNION {Range(all[s].results) : s \in Range(list)}
<1> DEFINE lists == [i \in DOMAIN list |-> all[list[i]].results]
<1>1. lists \in Seq(Seq(R)) /\ DOMAIN lists = DOMAIN list
    <2>1. DOMAIN list = 1 .. Len(list) /\ Len(list) \in Nat
        OBVIOUS
    <2>2. \A i \in DOMAIN list : all[list[i]].results \in Seq(R)
        OBVIOUS
    <2> QED
        BY <2>1, <2>2
<1>2. \A i \in DOMAIN list : lists[i] = all[list[i]].results
    OBVIOUS
<1>3. ResultsOf(all, list) = FlattenSeq(lists)
    BY DEF ResultsOf
<1> HIDE DEF lists
<1>4. FlattenSeq(lists) \in Seq(R)
    BY <1>1, FlattenType
<1>5. Range(FlattenSeq(lists)) = UNION {Range(lists[i]) : i \in DOMAIN lists}
    BY <1>1, FlattenRange
<1>6. {Range(lists[i]) : i \in DOMAIN lists} = {Range(all[s].results) : s \in Range(list)}
    <2>1. \A i \in DOMAIN lists : list[i] \in Range(list) /\ lists[i] = all[list[i]].results
        BY <1>1, <1>2 DEF Range
    <2>2. \A s \in Range(list) : \E i \in DOMAIN lists : list[i] = s
        BY <1>1 DEF Range
    <2> QED
        BY <2>1, <2>2
<1> QED
    BY <1>1, <1>3, <1>4, <1>5, <1>6 DEF lists

LEMMA ResultsOfAppend ==
    ASSUME NEW all, NEW R, NEW list \in Seq(DOMAIN all), NEW s \in DOMAIN all,
           \A x \in DOMAIN all : all[x].results \in Seq(R)
    PROVE  ResultsOf(all, Append(list, s)) = ResultsOf(all, list) \o all[s].results
<1> DEFINE lists == [i \in DOMAIN list |-> all[list[i]].results]
           longer == Append(list, s)
           more == [i \in DOMAIN longer |-> all[longer[i]].results]
<1>1. lists \in Seq(Seq(R)) /\ all[s].results \in Seq(R)
    BY ResultsOfType
<1>2. more = Append(lists, all[s].results)
    <2>1. /\ DOMAIN list = 1 .. Len(list) /\ Len(list) \in Nat
          /\ DOMAIN longer = 1 .. Len(list) + 1
          /\ \A i \in 1 .. Len(list) : longer[i] = list[i]
          /\ longer[Len(list) + 1] = s
        OBVIOUS
    <2>2. Len(lists) = Len(list) /\ \A i \in 1 .. Len(list) : lists[i] = all[list[i]].results
        BY <2>1
    <2>3. longer \in Seq(DOMAIN all)
        OBVIOUS
    <2>4. more \in Seq(Seq(R)) /\ Len(more) = Len(list) + 1
        <3>1. more \in Seq(Seq(R))
            BY <2>3, ResultsOfType
        <3>2. DOMAIN more = 1 .. Len(list) + 1
            BY <2>1
        <3> QED
            BY <2>1, <3>1, <3>2
    <2>5. \A i \in 1 .. Len(list) + 1 : more[i] = all[longer[i]].results
        BY <2>1
    <2> HIDE DEF lists, longer, more
    <2>6. /\ Append(lists, all[s].results) \in Seq(Seq(R))
          /\ Len(Append(lists, all[s].results)) = Len(list) + 1
          /\ \A i \in 1 .. Len(list) : Append(lists, all[s].results)[i] = lists[i]
          /\ Append(lists, all[s].results)[Len(list) + 1] = all[s].results
        BY <1>1, <2>2
    <2>7. \A i \in 1 .. Len(list) + 1 : more[i] = Append(lists, all[s].results)[i]
        <3> SUFFICES ASSUME NEW i \in 1 .. Len(list) + 1
                     PROVE  more[i] = Append(lists, all[s].results)[i]
            OBVIOUS
        <3>1. i \in 1 .. Len(list) \/ i = Len(list) + 1
            BY <2>1
        <3> QED
            BY <2>1, <2>2, <2>5, <2>6, <3>1
    <2> QED
        BY <2>4, <2>6, <2>7, SeqEqual
<1>3. FlattenSeq(Append(lists, all[s].results)) = FlattenSeq(lists) \o all[s].results
    <2> HIDE DEF lists
    <2> QED
        BY <1>1, FlattenAppend
<1>4. ResultsOf(all, list) = FlattenSeq(lists) /\ ResultsOf(all, longer) = FlattenSeq(more)
    BY DEF ResultsOf
<1> HIDE DEF lists, more
<1> QED
    BY <1>2, <1>3, <1>4

LEMMA ResultsOfSame ==
    ASSUME NEW all, NEW more, NEW list,
           \A s \in Range(list) : more[s].results = all[s].results
    PROVE  ResultsOf(more, list) = ResultsOf(all, list)
<1>1. \A i \in DOMAIN list : more[list[i]].results = all[list[i]].results
    BY DEF Range
<1>2. [i \in DOMAIN list |-> more[list[i]].results] = [i \in DOMAIN list |-> all[list[i]].results]
    BY <1>1
<1> QED
    BY <1>2 DEF ResultsOf

LEMMA ResultsOfNone == ASSUME NEW all PROVE ResultsOf(all, <<>>) = <<>>
<1>1. [i \in DOMAIN <<>> |-> all[<<>>[i]].results] = <<>>
    OBVIOUS
<1> QED
    BY <1>1, FlattenEmpty DEF ResultsOf

\* The merge moves results: none is lost, and none has two owners.
LEMMA OwnedMerge ==
    ASSUME NEW all, NEW m \in Nat, NEW fr, NEW fs, Owned(all, m, fr, fs),
           DOMAIN all \subseteq 1 .. m, Collected(fs) \subseteq DOMAIN all,
           \A x \in DOMAIN all :
              all[x] = [results |-> all[x].results, current |-> all[x].current],
           NEW list \in Seq(DOMAIN all),
           \A x \in Range(list) : all[x].current = NoResult,
           NEW s \in Nat, s > m
    PROVE  /\ Owned(Merge(all, list, s), s, fr, fs)
           /\ \A x \in Range(list) : Merge(all, list, s)[x].current = NoResult
<1> DEFINE merged == Merge(all, list, s)
           moved == ResultsOf(all, list)
           Had(x) == Range(all[x].results)
<1>1. DOMAIN merged = DOMAIN all \union {s} /\ s \notin DOMAIN all
    BY DEF Merge, With
<1>2. merged[s] = [results |-> moved, current |-> NoResult]
    BY DEF Merge, With
<1>3. ASSUME NEW x \in DOMAIN all
      PROVE  /\ x \in Range(list) => merged[x].results = <<>>
             /\ x \notin Range(list) => merged[x].results = all[x].results
             /\ merged[x].current = all[x].current
    <2>1. merged[x] = IF x \in Range(list) THEN [all[x] EXCEPT !.results = <<>>] ELSE all[x]
        BY <1>1 DEF Merge, With
    <2>2. all[x] = [results |-> all[x].results, current |-> all[x].current]
        OBVIOUS
    <2>3. CASE x \in Range(list)
        <3>1. merged[x] = [results |-> <<>>, current |-> all[x].current]
            BY <2>1, <2>2, <2>3
        <3> QED
            BY <2>3, <3>1
    <2>4. CASE x \notin Range(list)
        BY <2>1, <2>4
    <2> QED
        BY <2>3, <2>4
<1>4. /\ moved \in Seq(ResultsUpTo(m))
      /\ Range(moved) = UNION {Had(x) : x \in Range(list)}
    BY ResultsOfType DEF Owned, ResultsGood
<1>5. ResultsUpTo(m) \subseteq ResultsUpTo(s) /\ Seq(ResultsUpTo(m)) \subseteq Seq(ResultsUpTo(s))
    BY MoreResults
<1>6. Range(list) \subseteq DOMAIN all
    BY DEF Range
<1>7. Range(<<>>) = {} /\ <<>> \in Seq(ResultsUpTo(s))
    BY DEF Range
<1> HIDE DEF merged, moved
<1>8. ASSUME NEW x \in DOMAIN all
      PROVE  /\ x \in Range(list) => Range(merged[x].results) = {}
             /\ x \notin Range(list) => Range(merged[x].results) = Had(x)
             /\ Range(merged[x].results) \subseteq Had(x)
             /\ Range(merged[x].results) \intersect Range(moved) = {}
    <2>1. CASE x \in Range(list)
        BY <1>3, <1>7, <2>1
    <2>2. CASE x \notin Range(list)
        <3>1. Range(merged[x].results) = Had(x)
            BY <1>3, <2>2
        <3>2. \A y \in Range(list) : Had(x) \intersect Had(y) = {}
            BY <1>6, <2>2 DEF Owned, ResultsGood
        <3> QED
            BY <1>4, <2>2, <3>1, <3>2
    <2> QED
        BY <2>1, <2>2
<1>9. ResultsGood(merged, s)
    <2>1. ASSUME NEW x \in DOMAIN all
          PROVE  /\ merged[x].results \in Seq(ResultsUpTo(s))
                 /\ merged[x].current \in Range(merged[x].results) \union {NoResult}
        <3>1. CASE x \in Range(list)
            BY <1>3, <1>7, <3>1
        <3>2. CASE x \notin Range(list)
            BY <1>3, <1>5, <3>2 DEF Owned, ResultsGood
        <3> QED
            BY <3>1, <3>2
    <2>2. merged[s].results = moved /\ merged[s].current = NoResult
        BY <1>2
    <2>3. \A x \in DOMAIN all : \A y \in DOMAIN all \ {x} :
             Range(merged[x].results) \intersect Range(merged[y].results) = {}
        <3>1. \A x \in DOMAIN all : \A y \in DOMAIN all \ {x} : Had(x) \intersect Had(y) = {}
            BY DEF Owned, ResultsGood
        <3> HIDE DEF Had
        <3> QED
            BY <1>8, <3>1
    <2> QED
        BY <1>1, <1>4, <1>5, <1>8, <2>1, <2>2, <2>3 DEF ResultsGood
<1>10. DeletedGood(merged, s, fr)
    <2>1. fr \subseteq ResultsUpTo(s) /\ \A x \in DOMAIN all : Had(x) \intersect fr = {}
        BY <1>5 DEF Owned, DeletedGood
    <2>2. merged[s].results = moved
        BY <1>2
    <2> HIDE DEF Had
    <2>3. Range(moved) \intersect fr = {}
        BY <1>4, <1>6, <2>1
    <2> QED
        BY <1>1, <1>8, <2>1, <2>2, <2>3 DEF DeletedGood
<1>11. WaitingGood(merged, fs)
    BY <1>3 DEF Owned, WaitingGood
<1>12. \A x \in Range(list) : merged[x].current = NoResult
    BY <1>3, <1>6
<1> QED
    BY <1>9, <1>10, <1>11, <1>12 DEF Owned, merged

-----------------------------------------------------------------------------
(***************************************************************************)
(* What the steps do to the results.                                       *)
(***************************************************************************)
LEMMA IdFacts ==
    ASSUME IdInv
    PROVE  /\ made \in Nat /\ DOMAIN sets \subseteq 1 .. made
           /\ Collected(files) \subseteq DOMAIN sets
           /\ \A s \in DOMAIN sets :
                 sets[s] = [results |-> sets[s].results, current |-> sets[s].current]
<1>1. Collected(files) \subseteq DOMAIN sets
    BY DEF IdInv, Linked, FilesGood, Collected, Range
<1> QED
    BY <1>1 DEF IdInv, Linked, HeapGood

\* One result set is new, and may wait for the others of a file.
LEMMA NewOwned ==
    ASSUME IdInv, OwnInv, IdInv', NEW n \in 0 .. MaxResults, made' = made + 1,
           Heap(With(sets, made', NewSet(made', n))),
           Collected(files') \subseteq Collected(files) \union {made'}
    PROVE  OwnInv'
<1> DEFINE all == With(sets, made', NewSet(made', n))
<1>1. /\ made \in Nat /\ DOMAIN sets \subseteq 1 .. made
      /\ Collected(files) \subseteq DOMAIN sets
    BY IdFacts
<1>2. /\ DOMAIN all = DOMAIN sets \union {made'}
      /\ \A s \in DOMAIN sets : all[s] = sets[s]
      /\ all[made'] = NewSet(made', n)
    BY <1>1 DEF With
<1>3. made' \in Nat /\ made <= made' /\ made' \in made + 1 .. made'
    BY <1>1
<1> HIDE DEF all
<1>4. Owned(all, made', freed, files)
    BY <1>1, <1>2, <1>3, OwnedNew DEF OwnInv
<1>5. Owned(all, made', freed, files')
    <2>1. all[made'].current = NoResult
        BY <1>2 DEF NewSet
    <2> QED
        BY <1>4, <2>1 DEF Owned, WaitingGood
<1> QED
    BY <1>5, OwnedHeap DEF all

LEMMA FilePartDoneCollects ==
    ASSUME IdInv, NEW f \in DOMAIN files, NEW n, FilePartDone(f, n)
    PROVE  Collected(files') \subseteq Collected(files) \union {made'}
<1>1. CASE files[f].todo = {NextOf(f)}
    BY <1>1 DEF FilePartDone, Without, Collected
<1>2. CASE files[f].todo # {NextOf(f)}
    <2>1. files' = [files EXCEPT ![f].todo = @ \ {NextOf(f)},
                                 ![f].collected = Append(@, made'),
                                 ![f].got = @ \o NewSet(made', n).results]
        BY <1>2 DEF FilePartDone
    <2>2. files[f] = [size |-> files[f].size, collected |-> files[f].collected,
                      got |-> files[f].got, todo |-> files[f].todo]
          /\ files[f].collected \in Seq(DOMAIN sets)
        BY DEF IdInv, Linked, FilesGood
    <2>3. /\ DOMAIN files' = DOMAIN files
          /\ \A g \in DOMAIN files \ {f} : files'[g] = files[g]
          /\ files'[f].collected = Append(files[f].collected, made')
        BY <2>1, <2>2
    <2>4. Range(Append(files[f].collected, made')) = Range(files[f].collected) \union {made'}
        BY <2>2 DEF Range
    <2>5. ASSUME NEW g \in DOMAIN files
          PROVE  Range(files'[g].collected) \subseteq Collected(files) \union {made'}
        <3>1. CASE g = f
            BY <2>3, <2>4, <3>1 DEF Collected
        <3>2. CASE g # f
            BY <2>3, <3>2 DEF Collected
        <3> QED
            BY <3>1, <3>2
    <2> QED
        BY <2>3, <2>5 DEF Collected
<1> QED
    BY <1>1, <1>2

\* A file that is merged.
LEMMA FileDoneFacts ==
    ASSUME IdInv, NEW f \in DOMAIN files, NEW n, FileDone(f, n), NEW list,
           list = Append(files[f].collected, made + 1)
    PROVE  /\ DOMAIN files' = DOMAIN files
           /\ \A g \in DOMAIN files \ {f} : files'[g] = files[g]
           /\ files'[f].collected = list
           /\ files[f].collected \in Seq(DOMAIN sets)
           /\ Range(list) = Range(files[f].collected) \union {made + 1}
<1>1. files' = [files EXCEPT ![f].todo = {}, ![f].collected = list]
    BY DEF FileDone
<1>2. files[f] = [size |-> files[f].size, collected |-> files[f].collected,
                  got |-> files[f].got, todo |-> files[f].todo]
      /\ files[f].collected \in Seq(DOMAIN sets)
    BY DEF IdInv, Linked, FilesGood
<1>3. files'[f].collected = list
    BY <1>1, <1>2
<1>4. Range(list) = Range(files[f].collected) \union {made + 1}
    BY <1>2 DEF Range
<1> QED
    BY <1>1, <1>2, <1>3, <1>4

LEMMA FileDoneOwned ==
    ASSUME IdInv, OwnInv, IdInv', NEW f \in DOMAIN files, NEW n \in 0 .. MaxResults,
           FileDone(f, n)
    PROVE  OwnInv'
<1> DEFINE part == made + 1
           all == With(sets, part, NewSet(part, n))
<1>1. PICK list : list = Append(files[f].collected, part)
    OBVIOUS
<1>2. made' = made + 2 /\ Heap(Merge(all, list, made'))
    BY <1>1 DEF FileDone
<1>3. /\ DOMAIN files' = DOMAIN files
      /\ \A g \in DOMAIN files \ {f} : files'[g] = files[g]
      /\ files'[f].collected = list
      /\ files[f].collected \in Seq(DOMAIN sets)
      /\ Range(list) = Range(files[f].collected) \union {part}
    BY <1>1, FileDoneFacts
<1>4. /\ made \in Nat /\ DOMAIN sets \subseteq 1 .. made
      /\ Collected(files) \subseteq DOMAIN sets
      /\ \A s \in DOMAIN sets :
            sets[s] = [results |-> sets[s].results, current |-> sets[s].current]
    BY IdFacts
<1>5. /\ DOMAIN all = DOMAIN sets \union {part}
      /\ \A s \in DOMAIN sets : all[s] = sets[s]
      /\ all[part] = NewSet(part, n)
    BY <1>4 DEF With
<1>6. part \in Nat /\ made <= part /\ part \in made + 1 .. part /\ made' \in Nat /\ made' > part
      /\ DOMAIN all \subseteq 1 .. part
    BY <1>2, <1>4, <1>5
<1> HIDE DEF all, part
<1>7. Owned(all, part, freed, files)
    BY <1>4, <1>5, <1>6, OwnedNew DEF OwnInv, part
<1>8. list \in Seq(DOMAIN all)
    <2>1. files[f].collected \in Seq(DOMAIN all) /\ part \in DOMAIN all
        BY <1>3, <1>5
    <2> QED
        BY <1>1, <2>1
<1>9. \A x \in Range(list) : all[x].current = NoResult
    <2>1. all[part].current = NoResult
        BY <1>5 DEF NewSet
    <2>2. \A x \in Range(files[f].collected) : all[x].current = NoResult
        BY <1>7 DEF Owned, WaitingGood, Collected
    <2> QED
        BY <1>3, <2>1, <2>2
<1>10. \A x \in DOMAIN all : all[x] = [results |-> all[x].results, current |-> all[x].current]
    <2>1. all[part] = [results |-> all[part].results, current |-> all[part].current]
        BY <1>5 DEF NewSet
    <2> QED
        BY <1>4, <1>5, <2>1
<1>11. Collected(files) \subseteq DOMAIN all
    BY <1>4, <1>5
<1>12. /\ Owned(Merge(all, list, made'), made', freed, files)
       /\ \A x \in Range(list) : Merge(all, list, made')[x].current = NoResult
    BY <1>6, <1>7, <1>8, <1>9, <1>10, <1>11, OwnedMerge
<1>13. Owned(Merge(all, list, made'), made', freed, files')
    <2>1. Collected(files') \subseteq Collected(files) \union Range(list)
        BY <1>3 DEF Collected
    <2> QED
        BY <1>12, <2>1 DEF Owned, WaitingGood
<1> QED
    BY <1>2, <1>13, OwnedHeap

\* The result sets of a file that mysql_query_file sends.
Parts(n) == [i \in 1 .. n |-> made + i]
WithParts(n, counts) ==
    [s \in DOMAIN sets \union Range(Parts(n)) |->
        IF s \in DOMAIN sets THEN sets[s] ELSE NewSet(s, counts[s - made])]

PartsMade(n, counts, parts, all) ==
    /\ DOMAIN all = DOMAIN sets \union (made + 1 .. made + n)
    /\ \A s \in DOMAIN sets : all[s] = sets[s]
    /\ \A s \in DOMAIN all \ DOMAIN sets :
          s \in made + 1 .. made + n /\ all[s] = NewSet(s, counts[s - made])
    /\ parts \in Seq(DOMAIN all) /\ Range(parts) = made + 1 .. made + n

LEMMA QueryFileParts ==
    ASSUME IdInv, NEW n \in Nat, NEW counts
    PROVE  PartsMade(n, counts, Parts(n), WithParts(n, counts))
<1> DEFINE parts == Parts(n)
           all == WithParts(n, counts)
<1>3. made \in Nat
    BY IdFacts
<1>4. Range(parts) = made + 1 .. made + n
    <2>1. \A s \in made + 1 .. made + n : s - made \in 1 .. n /\ parts[s - made] = s
        BY <1>3 DEF Parts
    <2>2. \A i \in 1 .. n : parts[i] \in made + 1 .. made + n
        BY <1>3 DEF Parts
    <2>3. DOMAIN parts = 1 .. n
        BY DEF Parts
    <2> QED
        BY <2>1, <2>2, <2>3 DEF Range
<1>5. /\ DOMAIN all = DOMAIN sets \union (made + 1 .. made + n)
      /\ \A s \in DOMAIN all :
            all[s] = IF s \in DOMAIN sets THEN sets[s] ELSE NewSet(s, counts[s - made])
    BY <1>4 DEF WithParts
<1>6. parts \in Seq(DOMAIN all)
    <2>1. \A i \in 1 .. n : made + i \in DOMAIN all
        BY <1>3, <1>5
    <2> QED
        BY <2>1 DEF Parts
<1> QED
    BY <1>4, <1>5, <1>6 DEF PartsMade

LEMMA QueryFileFacts ==
    ASSUME NEW n \in Nat, NEW counts \in [1 .. n -> 0 .. MaxResults], QueryFile(counts)
    PROVE  /\ made' = made + n + 1 /\ active' = made'
           /\ Heap(Merge(WithParts(n, counts), Parts(n), made'))
           /\ Store(made', ResultsOf(WithParts(n, counts), Parts(n)))
           /\ UNCHANGED <<files, running, single>> /\ Activates
           /\ made + n < MaxSets
<1>1. Len(counts) = n
    OBVIOUS
<1> QED
    BY <1>1 DEF QueryFile, Parts, WithParts

LEMMA QueryFileOwned ==
    ASSUME IdInv, OwnInv, IdInv', NEW n \in Nat,
           NEW counts \in [1 .. n -> 0 .. MaxResults], QueryFile(counts)
    PROVE  OwnInv'
<1>1. PICK parts : parts = Parts(n)
    OBVIOUS
<1>2. PICK all : all = WithParts(n, counts)
    OBVIOUS
<1>3. PartsMade(n, counts, parts, all)
    BY <1>1, <1>2, QueryFileParts
<1>4. /\ made \in Nat /\ DOMAIN sets \subseteq 1 .. made
      /\ Collected(files) \subseteq DOMAIN sets
      /\ \A s \in DOMAIN sets :
            sets[s] = [results |-> sets[s].results, current |-> sets[s].current]
      /\ made' = made + n + 1 /\ Heap(Merge(all, parts, made')) /\ files' = files
    BY <1>1, <1>2, IdFacts, QueryFileFacts
<1>5. made + n \in Nat /\ made <= made + n /\ made' \in Nat /\ made' > made + n
      /\ DOMAIN all \subseteq 1 .. made + n
    BY <1>3, <1>4 DEF PartsMade
<1>6. \A s \in DOMAIN all \ DOMAIN sets :
         s \in made + 1 .. made + n /\ \E k \in 0 .. MaxResults : all[s] = NewSet(s, k)
    <2>1. \A s \in made + 1 .. made + n : s - made \in 1 .. n
        BY <1>4
    <2> QED
        BY <1>3, <2>1 DEF PartsMade
<1>7. Owned(all, made + n, freed, files)
    BY <1>3, <1>4, <1>5, <1>6, OwnedNew DEF OwnInv, PartsMade
<1>8. ASSUME NEW x \in DOMAIN all \ DOMAIN sets
      PROVE  /\ all[x].current = NoResult
             /\ all[x] = [results |-> all[x].results, current |-> all[x].current]
    <2>1. PICK k : all[x] = NewSet(x, k)
        BY <1>3 DEF PartsMade
    <2> QED
        BY <2>1 DEF NewSet
<1>9. /\ \A x \in Range(parts) : all[x].current = NoResult
      /\ \A x \in DOMAIN all : all[x] = [results |-> all[x].results, current |-> all[x].current]
    <2>1. \A x \in Range(parts) : x \in DOMAIN all \ DOMAIN sets
        BY <1>3, <1>4 DEF PartsMade
    <2> QED
        BY <1>3, <1>4, <1>8, <2>1 DEF PartsMade
<1>10. Owned(Merge(all, parts, made'), made', freed, files)
    BY <1>3, <1>4, <1>5, <1>7, <1>9, OwnedMerge DEF PartsMade
<1> QED
    BY <1>4, <1>10, OwnedHeap

\* Result sets may go, and files.
LEMMA LessOwned ==
    ASSUME OwnInv, IdInv', made' = made, Heap(sets),
           Collected(files') \subseteq Collected(files)
    PROVE  OwnInv'
<1>1. Owned(sets, made', freed, files')
    BY DEF OwnInv, Owned, WaitingGood
<1> QED
    BY <1>1, OwnedHeap

LEMMA CollectsLess ==
    ASSUME IdInv, \/ \E f \in DOMAIN files : FilePartFailed(f)
                  \/ CallbackReturns
                  \/ \E n, accepted : SendFile(n, accepted)
    PROVE  Collected(files') \subseteq Collected(files)
<1>1. CASE \E f \in DOMAIN files : FilePartFailed(f)
    <2>1. PICK f \in DOMAIN files : FilePartFailed(f)
        BY <1>1
    <2>2. files[f] = [size |-> files[f].size, collected |-> files[f].collected,
                      got |-> files[f].got, todo |-> files[f].todo]
        BY DEF IdInv, Linked, FilesGood
    <2>3. DOMAIN files' \subseteq DOMAIN files
          /\ \A g \in DOMAIN files' : files'[g].collected = files[g].collected
        <3>1. CASE files[f].todo = {NextOf(f)}
            BY <2>1, <3>1 DEF FilePartFailed, Without
        <3>2. CASE files[f].todo # {NextOf(f)}
            <4> DEFINE todo == files[f].todo \ {NextOf(f)}
            <4>1. files' = [files EXCEPT ![f].todo = todo]
                BY <2>1, <3>2 DEF FilePartFailed
            <4> HIDE DEF todo
            <4>2. files'[f].collected = files[f].collected
                BY <2>2, <4>1
            <4> QED
                BY <4>1, <4>2
        <3> QED
            BY <3>1, <3>2
    <2> QED
        BY <2>3 DEF Collected
<1>2. CASE CallbackReturns
    BY <1>2 DEF CallbackReturns, Without, Collected
<1>3. ASSUME NEW n, NEW accepted, SendFile(n, accepted)
      PROVE  Collected(files') \subseteq Collected(files)
    <2>1. PICK f \in (1 .. MaxOpen) \ DOMAIN files :
             files' = With(files, f, [size |-> n, collected |-> <<>>, got |-> <<>>,
                                      todo |-> accepted])
        BY <1>3 DEF SendFile
    <2>2. /\ DOMAIN files' = DOMAIN files \union {f}
          /\ \A g \in DOMAIN files : files'[g] = files[g]
          /\ files'[f].collected = <<>>
        BY <2>1 DEF With
    <2>3. Range(<<>>) = {}
        BY DEF Range
    <2> QED
        BY <2>2, <2>3 DEF Collected
<1> QED
    BY <1>1, <1>2, <1>3

\* GetActiveResult and cache_set_result choose one of the result set's own.
LEMMA CurrentOwned ==
    ASSUME IdInv, OwnInv, Read \/ \E i \in Nat : SetResult(i) PROVE OwnInv'
<1>1. active \in DOMAIN sets
    BY DEF Read, SetResult, IdInv, Linked, PointersGood
<1>2. sets[active].results \in Seq(ResultsUpTo(made))
    BY <1>1 DEF OwnInv, Owned, ResultsGood
<1>3. PICK c \in Range(sets[active].results) : sets' = [sets EXCEPT ![active].current = c]
    <2>1. CASE Read
        <3>1. Head(sets[active].results) \in Range(sets[active].results)
            BY <1>2, <2>1 DEF Read, Range
        <3> QED
            BY <2>1, <3>1 DEF Read
    <2>2. CASE \E i \in Nat : SetResult(i)
        BY <2>2 DEF SetResult, Range
    <2> QED
        BY <2>1, <2>2
<1>4. UNCHANGED <<made, freed, files>>
    BY DEF Read, SetResult
<1>5. active \notin Collected(files)
    BY DEF Read, SetResult, IdInv, Linked, FilesGood, Collected, Range
<1>6. /\ DOMAIN sets' = DOMAIN sets
      /\ \A s \in DOMAIN sets \ {active} : sets'[s] = sets[s]
      /\ sets'[active].results = sets[active].results
      /\ sets'[active].current = c
    <2>1. sets[active] = [results |-> sets[active].results, current |-> sets[active].current]
        BY <1>1, IdFacts
    <2>2. sets'[active] = [sets[active] EXCEPT !.current = c]
        BY <1>1, <1>3
    <2>3. sets'[active] = [results |-> sets[active].results, current |-> c]
        BY <2>1, <2>2
    <2> QED
        BY <1>3, <2>3
<1>7. \A s \in DOMAIN sets : sets'[s].results = sets[s].results
    BY <1>6
<1>8. ResultsGood(sets', made')
    <2>1. \A s \in DOMAIN sets : sets'[s].current \in Range(sets'[s].results) \union {NoResult}
        BY <1>3, <1>6 DEF OwnInv, Owned, ResultsGood
    <2> QED
        BY <1>4, <1>6, <1>7, <2>1 DEF OwnInv, Owned, ResultsGood
<1>9. DeletedGood(sets', made', freed')
    BY <1>4, <1>6, <1>7 DEF OwnInv, Owned, DeletedGood
<1>10. WaitingGood(sets', files')
    <2>1. \A s \in Collected(files) : s \in DOMAIN sets \ {active}
        BY <1>5, IdFacts
    <2> QED
        BY <1>4, <1>6, <2>1 DEF OwnInv, Owned, WaitingGood
<1> QED
    BY <1>8, <1>9, <1>10 DEF OwnInv, Owned

LEMMA OwnStep == IdInv /\ OwnInv /\ [Next]_vars => OwnInv'
<1> SUFFICES ASSUME IdInv, OwnInv, [Next]_vars PROVE OwnInv'
    OBVIOUS
<1>1. IdInv'
    BY IdStep
<1>2. CASE UNCHANGED <<sets, made, freed>> /\ Collected(files') \subseteq Collected(files)
    BY <1>2 DEF OwnInv, Owned, WaitingGood
<1>3. CASE UNCHANGED vars
    BY <1>2, <1>3 DEF vars
<1>4. CASE Script
    <2>1. CASE SendQuery \/ Save
        <3>1. UNCHANGED <<sets, made, freed, files>>
            BY <2>1 DEF SendQuery, Save
        <3> QED
            BY <1>2, <3>1
    <2>2. CASE \E n, accepted : SendFile(n, accepted)
        <3>1. UNCHANGED <<sets, made, freed>>
            BY <2>2 DEF SendFile
        <3> QED
            BY <1>2, <2>2, <3>1, CollectsLess
    <2>3. ASSUME NEW n \in 0 .. MaxResults, Query(n) PROVE OwnInv'
        <3>1. made' = made + 1 /\ files' = files /\ Heap(With(sets, made', NewSet(made', n)))
            BY <2>3 DEF Query
        <3> QED
            BY <1>1, <3>1, NewOwned
    <2>4. ASSUME NEW n \in 0 .. MaxQueries, NEW counts \in [1 .. n -> 0 .. MaxResults],
                 QueryFile(counts)
          PROVE  OwnInv'
        <3>1. n \in Nat
            BY BoundAssumption
        <3> QED
            BY <1>1, <2>4, <3>1, QueryFileOwned
    <2>5. CASE Read \/ \E i \in 1 .. MaxResults * MaxQueries : SetResult(i)
        BY <2>5, CurrentOwned
    <2>6. CASE (\E i \in 1 .. MaxId : Delete(i))
               \/ \E s \in Range(stored) \union {None} : SetActive(s)
        <3>1. made' = made /\ files' = files /\ Heap(sets)
            BY <2>6 DEF Delete, SetActive
        <3> QED
            BY <1>1, <3>1, LessOwned
    <2> QED
        BY <1>4, <2>1, <2>2, <2>3, <2>4, <2>5, <2>6 DEF Script
<1>5. CASE Tick
    <2>1. ASSUME NEW n \in 0 .. MaxResults, QueryDone(n) PROVE OwnInv'
        <3>1. made' = made + 1 /\ files' = files /\ Heap(With(sets, made', NewSet(made', n)))
            BY <2>1 DEF QueryDone
        <3> QED
            BY <1>1, <3>1, NewOwned
    <2>2. ASSUME NEW n \in 0 .. MaxResults, NEW f \in DOMAIN files, FilePartDone(f, n)
          PROVE  OwnInv'
        <3>1. made' = made + 1 /\ Heap(With(sets, made', NewSet(made', n)))
            BY <2>2 DEF FilePartDone
        <3> QED
            BY <1>1, <2>2, <3>1, NewOwned, FilePartDoneCollects
    <2>3. ASSUME NEW n \in 0 .. MaxResults, NEW f \in DOMAIN files, FileDone(f, n)
          PROVE  OwnInv'
        BY <1>1, <2>3, FileDoneOwned
    <2>4. CASE QueryFailed
        <3>1. UNCHANGED <<sets, made, freed, files>>
            BY <2>4 DEF QueryFailed
        <3> QED
            BY <1>2, <3>1
    <2>5. CASE (\E f \in DOMAIN files : FilePartFailed(f)) \/ CallbackReturns
        <3>1. made' = made /\ Heap(sets)
            BY <2>5 DEF FilePartFailed, CallbackReturns
        <3> QED
            BY <1>1, <2>5, <3>1, LessOwned, CollectsLess
    <2> QED
        BY <1>5, <2>1, <2>2, <2>3, <2>4, <2>5 DEF Tick
<1> QED
    BY <1>3, <1>4, <1>5 DEF Next

\* However result sets are merged, stored twice, replaced and deleted, no
\* result has two owners, none is deleted while a result set has it, and
\* m_ActiveResult is one of the result set's own.
THEOREM OwnedCorrect == Spec => []ResultsOwnedOnce
<1>1. Init => IdInv /\ OwnInv
    <2>1. Init => IdInv
        BY DEF Init, Idle, None, IdInv, Linked, HeapGood, PointersGood, IdsGood, FilesGood
    <2>2. Init => OwnInv
        BY DEF Init, OwnInv, Owned, ResultsGood, DeletedGood, WaitingGood, Collected
    <2> QED
        BY <2>1, <2>2
<1>2. OwnInv => ResultsOwnedOnce
    BY DEF OwnInv, Owned, ResultsGood, DeletedGood, ResultsOwnedOnce
<1> QED
    BY <1>1, <1>2, IdStep, OwnStep, PTL DEF Spec

-----------------------------------------------------------------------------
(***************************************************************************)
(* What the other variables are.                                           *)
(***************************************************************************)
Numbers ==
    /\ made <= MaxSets /\ single \in 0 .. MaxOpen /\ DOMAIN stored \subseteq 1 .. MaxId
    /\ running.kind \in {"none", "query", "file", "error"}
    /\ touched \in BOOLEAN /\ outside \in BOOLEAN

Sizes == \A f \in DOMAIN files : files[f].size \in 1 .. MaxQueries

NoneDangles == Referenced = DOMAIN sets

TypeInv == Numbers /\ Sizes /\ NoneDangles

LEMMA NumbersStep ==
    ASSUME IdInv, Numbers, [Next]_vars PROVE Numbers'
<1> USE DEF Numbers
<1>1. made \in Nat
    BY IdFacts
<1>2. ASSUME Activates PROVE touched' \in BOOLEAN /\ outside' \in BOOLEAN
    BY <1>2 DEF Activates
<1>3. ASSUME NEW s, NEW results, Store(s, results) PROVE DOMAIN stored' \subseteq 1 .. MaxId
    BY <1>3 DEF Store, With
<1>4. CASE UNCHANGED vars
    BY <1>4 DEF vars
<1>5. CASE Script
    <2>1. CASE SendQuery
        BY <2>1, BoundAssumption DEF SendQuery
    <2>2. CASE Read \/ \E i \in 1 .. MaxResults * MaxQueries : SetResult(i)
        BY <2>2 DEF Read, SetResult
    <2>3. CASE \E n \in 1 .. MaxQueries : \E accepted \in SUBSET (1 .. n) : SendFile(n, accepted)
        BY <2>3 DEF SendFile
    <2>4. ASSUME NEW n \in 0 .. MaxResults, Query(n) PROVE Numbers'
        <3>1. /\ made' = made + 1 /\ made < MaxSets /\ UNCHANGED <<running, single>>
              /\ Activates /\ Store(made', NewSet(made', n).results)
            BY <2>4 DEF Query
        <3>2. made' <= MaxSets
            BY <1>1, <3>1, BoundAssumption
        <3> QED
            BY <1>2, <1>3, <3>1, <3>2
    <2>5. ASSUME NEW n \in 0 .. MaxQueries, NEW counts \in [1 .. n -> 0 .. MaxResults],
                 QueryFile(counts)
          PROVE  Numbers'
        <3>1. n \in Nat
            BY BoundAssumption
        <3>2. /\ made' = made + n + 1 /\ made + n < MaxSets /\ UNCHANGED <<running, single>>
              /\ Activates /\ Store(made', ResultsOf(WithParts(n, counts), Parts(n)))
            BY <2>5, <3>1, QueryFileFacts
        <3>3. made' <= MaxSets
            BY <1>1, <3>1, <3>2, BoundAssumption
        <3> QED
            BY <1>2, <1>3, <3>2, <3>3
    <2>6. CASE Save
        <3>1. UNCHANGED <<made, running, single, touched, outside>>
              /\ Store(active, sets[active].results)
            BY <2>6 DEF Save
        <3> QED
            BY <1>3, <3>1
    <2>7. CASE (\E i \in 1 .. MaxId : Delete(i))
               \/ \E s \in Range(stored) \union {None} : SetActive(s)
        <3>1. UNCHANGED <<made, running, single>> /\ Activates
              /\ DOMAIN stored' \subseteq DOMAIN stored
            BY <2>7 DEF Delete, SetActive
        <3> QED
            BY <1>2, <3>1
    <2> QED
        BY <1>5, <2>1, <2>2, <2>3, <2>4, <2>5, <2>6, <2>7 DEF Script
<1>6. CASE Tick
    <2>1. ASSUME NEW n, QueryDone(n) PROVE Numbers'
        <3>1. /\ made' = made + 1 /\ made < MaxSets /\ single' = single - 1 /\ single > 0
              /\ running'.kind = "query" /\ stored' = stored
              /\ touched' = FALSE /\ outside' = FALSE
            BY <2>1 DEF QueryDone
        <3>2. made' <= MaxSets /\ single' \in 0 .. MaxOpen
            BY <1>1, <3>1, BoundAssumption
        <3> QED
            BY <3>1, <3>2
    <2>2. ASSUME NEW n, NEW f, FilePartDone(f, n) PROVE Numbers'
        <3>1. made' = made + 1 /\ made < MaxSets
              /\ UNCHANGED <<stored, running, single, touched, outside>>
            BY <2>2 DEF FilePartDone
        <3> QED
            BY <1>1, <3>1, BoundAssumption
    <2>3. ASSUME NEW n, NEW f, FileDone(f, n) PROVE Numbers'
        <3>1. /\ made' = made + 2 /\ made + 1 < MaxSets
              /\ running'.kind = "file" /\ UNCHANGED <<stored, single>>
              /\ touched' = FALSE /\ outside' = FALSE
            BY <2>3 DEF FileDone
        <3>2. made' <= MaxSets
            BY <1>1, <3>1, BoundAssumption
        <3> QED
            BY <3>1, <3>2
    <2>4. CASE QueryFailed
        <3>1. single' = single - 1 /\ single > 0 /\ running'.kind = "error"
              /\ UNCHANGED <<made, stored, touched, outside>>
            BY <2>4 DEF QueryFailed, Idle
        <3> QED
            BY <3>1, BoundAssumption
    <2>5. CASE (\E f \in DOMAIN files : FilePartFailed(f)) \/ CallbackReturns
        <3>1. running'.kind \in {"error", "none"}
              /\ UNCHANGED <<made, stored, single, touched, outside>>
            BY <2>5 DEF FilePartFailed, CallbackReturns, Idle
        <3> QED
            BY <3>1
    <2> QED
        BY <1>6, <2>1, <2>2, <2>3, <2>4, <2>5 DEF Tick
<1> QED
    BY <1>4, <1>5, <1>6 DEF Next

LEMMA SizesStep ==
    ASSUME IdInv, Sizes, [Next]_vars PROVE Sizes'
<1> USE DEF Sizes
<1>1. ASSUME NEW f \in DOMAIN files
      PROVE  files[f] = [size |-> files[f].size, collected |-> files[f].collected,
                         got |-> files[f].got, todo |-> files[f].todo]
    BY DEF IdInv, Linked, FilesGood
<1>2. ASSUME NEW f \in DOMAIN files, NEW todo, NEW collected, NEW got,
             files' = [files EXCEPT ![f].todo = todo, ![f].collected = collected, ![f].got = got]
      PROVE  Sizes'
    <2>1. files'[f].size = files[f].size
        BY <1>1, <1>2
    <2> QED
        BY <1>2, <2>1
<1>3. ASSUME DOMAIN files' \subseteq DOMAIN files,
             \A f \in DOMAIN files' : files'[f].size = files[f].size
      PROVE  Sizes'
    BY <1>3
<1>4. CASE UNCHANGED files
    BY <1>4
<1>5. CASE Script
    <2>1. CASE \E n \in 1 .. MaxQueries : \E accepted \in SUBSET (1 .. n) : SendFile(n, accepted)
        <3>1. PICK n \in 1 .. MaxQueries :
                 \E f, accepted :
                    files' = With(files, f, [size |-> n, collected |-> <<>>, got |-> <<>>,
                                             todo |-> accepted])
            BY <2>1 DEF SendFile
        <3> QED
            BY <3>1 DEF With
    <2>2. CASE UNCHANGED files
        BY <2>2
    <2> QED
        BY <1>5, <2>1, <2>2 DEF Script, SendQuery, Query, QueryFile, Read, Save, SetResult,
                                Delete, SetActive
<1>6. CASE Tick
    <2>1. CASE QueryFailed \/ \E n \in 0 .. MaxResults : QueryDone(n)
        BY <1>4, <2>1 DEF QueryFailed, QueryDone
    <2>2. ASSUME NEW n \in 0 .. MaxResults, NEW f \in DOMAIN files, FilePartDone(f, n)
          PROVE  Sizes'
        <3>1. CASE files[f].todo = {NextOf(f)}
            BY <2>2, <3>1 DEF FilePartDone, Without
        <3>2. CASE files[f].todo # {NextOf(f)}
            <4>1. files' = [files EXCEPT ![f].todo = files[f].todo \ {NextOf(f)},
                                         ![f].collected = Append(files[f].collected, made'),
                                         ![f].got = files[f].got \o NewSet(made', n).results]
                BY <1>1, <2>2, <3>2 DEF FilePartDone
            <4> QED
                BY <1>2, <4>1
        <3> QED
            BY <3>1, <3>2
    <2>3. ASSUME NEW n \in 0 .. MaxResults, NEW f \in DOMAIN files, FileDone(f, n)
          PROVE  Sizes'
        <3>1. PICK list : files' = [files EXCEPT ![f].todo = {}, ![f].collected = list]
            BY <2>3 DEF FileDone
        <3>2. files'[f].size = files[f].size
            BY <1>1, <3>1
        <3> QED
            BY <3>1, <3>2
    <2>4. ASSUME NEW f \in DOMAIN files, FilePartFailed(f) PROVE Sizes'
        <3>1. CASE files[f].todo = {NextOf(f)}
            BY <2>4, <3>1 DEF FilePartFailed, Without
        <3>2. CASE files[f].todo # {NextOf(f)}
            <4>1. PICK todo : files' = [files EXCEPT ![f].todo = todo]
                BY <1>1, <2>4, <3>2 DEF FilePartFailed
            <4>2. files'[f].size = files[f].size
                BY <1>1, <4>1
            <4> QED
                BY <4>1, <4>2
        <3> QED
            BY <3>1, <3>2
    <2>5. CASE CallbackReturns
        BY <2>5 DEF CallbackReturns, Without
    <2> QED
        BY <1>6, <2>1, <2>2, <2>3, <2>4, <2>5 DEF Tick
<1> QED
    BY <1>4, <1>5, <1>6 DEF Next, vars

LEMMA NoneDanglesStep ==
    ASSUME IdInv, IdInv', NoneDangles, [Next]_vars PROVE NoneDangles'
<1> USE DEF NoneDangles
<1>1. ASSUME NEW all, Heap(all) PROVE NoneDangles'
    BY <1>1, HeapKeeps
<1>2. Referenced = ({active, running.set} \union Range(stored) \union Collected(files)) \ {None}
    BY DEF Referenced, Collected
<1>3. Referenced' = ({active', running'.set} \union Range(stored') \union Collected(files'))
                       \ {None}
    BY DEF Referenced, Collected
<1>4. CASE UNCHANGED <<sets, active, running, stored, files>>
    BY <1>4 DEF Referenced
<1>5. CASE Script
    <2>1. CASE SendQuery
        BY <1>4, <2>1 DEF SendQuery
    <2>2. CASE \E n, accepted : SendFile(n, accepted)
        <3>1. PICK n, accepted : SendFile(n, accepted)
            BY <2>2
        <3>2. PICK f \in (1 .. MaxOpen) \ DOMAIN files :
                 files' = With(files, f, [size |-> n, collected |-> <<>>, got |-> <<>>,
                                          todo |-> accepted])
            BY <3>1 DEF SendFile
        <3>3. \A g \in DOMAIN files : g \in DOMAIN files' /\ files'[g] = files[g]
            BY <3>2 DEF With
        <3>4. Collected(files) \subseteq Collected(files')
            BY <3>3 DEF Collected
        <3>5. Collected(files') \subseteq Collected(files)
            BY <2>2, CollectsLess
        <3>6. UNCHANGED <<sets, active, running, stored>>
            BY <3>1 DEF SendFile
        <3> QED
            BY <1>2, <1>3, <3>4, <3>5, <3>6
    <2>3. CASE Read \/ \E i \in 1 .. MaxResults * MaxQueries : SetResult(i)
        <3>1. DOMAIN sets' = DOMAIN sets /\ UNCHANGED <<active, running, stored, files>>
            BY <2>3 DEF Read, SetResult
        <3> QED
            BY <1>2, <1>3, <3>1
    <2>4. CASE Save
        <3>1. UNCHANGED <<sets, active, running, files>>
            BY <2>4 DEF Save
        <3>2. PICK i : i \notin DOMAIN stored /\ stored' = With(stored, i, active)
            BY <2>4 DEF Save, Store, IsNewId
        <3>3. Range(stored') = Range(stored) \union {active}
            BY <3>2 DEF With, Range
        <3> QED
            BY <1>2, <1>3, <3>1, <3>3
    <2>5. CASE \E n \in 0 .. MaxResults : Query(n)
        BY <1>1, <2>5 DEF Query
    <2>6. CASE \E n \in 0 .. MaxQueries : \E counts \in [1 .. n -> 0 .. MaxResults] :
                  QueryFile(counts)
        BY <1>1, <2>6 DEF QueryFile
    <2>7. CASE (\E i \in 1 .. MaxId : Delete(i))
               \/ \E s \in Range(stored) \union {None} : SetActive(s)
        BY <1>1, <2>7 DEF Delete, SetActive
    <2> QED
        BY <1>5, <2>1, <2>2, <2>3, <2>4, <2>5, <2>6, <2>7 DEF Script
<1>6. CASE Tick
    <2>1. CASE QueryFailed
        <3>1. running.set = running'.set /\ UNCHANGED <<sets, active, stored, files>>
            BY <2>1 DEF QueryFailed, Idle
        <3> QED
            BY <1>2, <1>3, <3>1
    <2>2. CASE \/ \E n \in 0 .. MaxResults :
                     \/ QueryDone(n)
                     \/ \E f \in DOMAIN files : FilePartDone(f, n) \/ FileDone(f, n)
               \/ \E f \in DOMAIN files : FilePartFailed(f)
               \/ CallbackReturns
        BY <1>1, <2>2 DEF QueryDone, FilePartDone, FileDone, FilePartFailed, CallbackReturns
    <2> QED
        BY <1>6, <2>1, <2>2 DEF Tick
<1> QED
    BY <1>4, <1>5, <1>6 DEF Next, vars

\* Every variable has its type, and nothing points to a result set that has
\* been deleted.
THEOREM CachesTypeCorrect == Spec => []TypeOK
<1>1. Init => IdInv /\ OwnInv /\ TypeInv
    <2>1. Init => IdInv
        BY DEF Init, Idle, None, IdInv, Linked, HeapGood, PointersGood, IdsGood, FilesGood
    <2>2. Init => OwnInv
        BY DEF Init, OwnInv, Owned, ResultsGood, DeletedGood, WaitingGood, Collected
    <2>3. Init => TypeInv
        <3> SUFFICES ASSUME Init PROVE TypeInv
            OBVIOUS
        <3>1. Numbers
            <4>1. made = 0 /\ single = 0 /\ DOMAIN stored = {} /\ running.kind = "none"
                  /\ touched = FALSE /\ outside = FALSE
                BY DEF Init, Idle
            <4>2. made <= MaxSets /\ single \in 0 .. MaxOpen
                BY <4>1, BoundAssumption
            <4> QED
                BY <4>1, <4>2 DEF Numbers
        <3>2. Range(stored) = {} /\ DOMAIN files = {} /\ active = None /\ running.set = None
              /\ DOMAIN sets = {}
            BY DEF Init, Idle, Range
        <3> QED
            BY <3>1, <3>2 DEF TypeInv, NoneDangles, Referenced, Sizes
    <2> QED
        BY <2>1, <2>2, <2>3
<1>2. IdInv /\ TypeInv /\ [Next]_vars => TypeInv'
    BY IdStep, NumbersStep, SizesStep, NoneDanglesStep DEF TypeInv
<1>3. IdInv /\ OwnInv /\ TypeInv => TypeOK
    <2> SUFFICES ASSUME IdInv, OwnInv, TypeInv PROVE TypeOK
        OBVIOUS
    <2>1. made \in Nat /\ made <= MaxSets /\ DOMAIN sets \subseteq 1 .. made
        BY IdFacts DEF TypeInv, Numbers
    <2>2. ResultsUpTo(made) \subseteq Result /\ Seq(ResultsUpTo(made)) \subseteq Seq(Result)
        <3>1. ResultsUpTo(made) \subseteq Result
            BY <2>1, BoundAssumption DEF ResultsUpTo, Result
        <3> QED
            BY <3>1
    <2>3. ASSUME NEW s \in DOMAIN sets
          PROVE  sets[s] \in [results : Seq(Result), current : Result \union {NoResult}]
        <3>1. sets[s] = [results |-> sets[s].results, current |-> sets[s].current]
            BY IdFacts
        <3>2. sets[s].results \in Seq(ResultsUpTo(made))
              /\ sets[s].current \in Range(sets[s].results) \union {NoResult}
            BY DEF OwnInv, Owned, ResultsGood
        <3>3. Range(sets[s].results) \subseteq ResultsUpTo(made)
            BY <3>2 DEF Range
        <3>4. sets[s].results \in Seq(Result) /\ sets[s].current \in Result \union {NoResult}
            BY <2>2, <3>2, <3>3
        <3> QED
            BY <3>1, <3>4
    <2>4. DOMAIN sets \subseteq SetNumber /\ made \in 0 .. MaxSets
        BY <2>1, BoundAssumption DEF SetNumber
    <2>5. freed \subseteq Result
        BY <2>2 DEF OwnInv, Owned, DeletedGood
    <2>6. DOMAIN held = DOMAIN stored
        BY DEF IdInv, Linked, IdsGood
    <2> QED
        BY <2>3, <2>4, <2>5, <2>6 DEF TypeOK, TypeInv, Numbers, Sizes, NoneDangles
<1> QED
    BY <1>1, <1>2, <1>3, IdStep, OwnStep, PTL DEF Spec

-----------------------------------------------------------------------------
(***************************************************************************)
(* What a callback reads.  The history `got' of a file is what its waiting *)
(* result sets have, until they are merged; the files do not share them,   *)
(* so that one merge does not empty those of another file.                 *)
(***************************************************************************)
HasGot(all, fs, r) ==
    \A f \in DOMAIN fs : f # r => fs[f].got = ResultsOf(all, fs[f].collected)

Apart(fs) ==
    \A f \in DOMAIN fs : \A g \in DOMAIN fs \ {f} :
       Range(fs[f].collected) \intersect Range(fs[g].collected) = {}

GotInv == HasGot(sets, files, running.file) /\ Apart(files)

LEMMA FileDoneRuns ==
    ASSUME NEW f, NEW n, FileDone(f, n)
    PROVE  running.kind = "none" /\ running'.kind = "file" /\ running'.file = f
BY DEF FileDone, Idle

LEMMA RangeAppend ==
    ASSUME NEW S, NEW list \in Seq(S), NEW x
    PROVE  Range(Append(list, x)) = Range(list) \union {x}
<1>1. /\ DOMAIN Append(list, x) = DOMAIN list \union {Len(list) + 1}
      /\ \A i \in DOMAIN list : Append(list, x)[i] = list[i]
      /\ Append(list, x)[Len(list) + 1] = x
    OBVIOUS
<1> QED
    BY <1>1 DEF Range

\* Only the last query of a file takes results from a result set.
LEMMA StepKeeps ==
    ASSUME IdInv, IdInv', Next,
           NEW s \in DOMAIN sets, s \in DOMAIN sets',
           \A f \in DOMAIN files : \A n \in 0 .. MaxResults :
              FileDone(f, n) => s \notin Range(files'[f].collected)
    PROVE  sets'[s].results = sets[s].results
<1>1. made \in Nat /\ s \in 1 .. made
      /\ sets[s] = [results |-> sets[s].results, current |-> sets[s].current]
    BY IdFacts
<1>2. ASSUME NEW all, Heap(all) PROVE sets'[s] = all[s]
    BY <1>2, HeapKeeps
<1>3. ASSUME NEW n, Heap(With(sets, made', NewSet(made', n))), made' = made + 1
      PROVE  sets'[s] = sets[s]
    <2>1. With(sets, made', NewSet(made', n))[s] = sets[s]
        BY <1>1, <1>3 DEF With
    <2> QED
        BY <1>2, <1>3, <2>1
<1>4. CASE Script
    <2>1. CASE SendQuery \/ Save \/ \E n, accepted : SendFile(n, accepted)
        BY <2>1 DEF SendQuery, Save, SendFile
    <2>2. CASE Read \/ \E i \in 1 .. MaxResults * MaxQueries : SetResult(i)
        <3>1. PICK c : sets' = [sets EXCEPT ![active].current = c]
            BY <2>2 DEF Read, SetResult
        <3>2. CASE s = active
            <4>1. sets'[s] = [sets[s] EXCEPT !.current = c]
                BY <3>1, <3>2
            <4>2. sets'[s] = [results |-> sets[s].results, current |-> c]
                BY <1>1, <4>1
            <4> QED
                BY <4>2
        <3>3. CASE s # active
            BY <3>1, <3>3
        <3> QED
            BY <3>2, <3>3
    <2>3. ASSUME NEW n, Query(n) PROVE sets'[s] = sets[s]
        BY <1>3, <2>3 DEF Query
    <2>4. ASSUME NEW n \in 0 .. MaxQueries, NEW counts \in [1 .. n -> 0 .. MaxResults],
                 QueryFile(counts)
          PROVE  sets'[s] = sets[s]
        <3> DEFINE all == WithParts(n, counts)
                   parts == Parts(n)
        <3>1. n \in Nat
            BY BoundAssumption
        <3>2. made' = made + n + 1 /\ Heap(Merge(all, parts, made'))
            BY <2>4, <3>1, QueryFileFacts
        <3>3. PartsMade(n, counts, parts, all)
            BY <3>1, QueryFileParts
        <3> HIDE DEF all, parts
        <3>4. s \in DOMAIN all /\ all[s] = sets[s] /\ s \notin Range(parts) /\ s # made'
            BY <1>1, <3>1, <3>2, <3>3 DEF PartsMade
        <3>5. Merge(all, parts, made')[s] = sets[s]
            BY <3>4 DEF Merge, With
        <3> QED
            BY <1>2, <3>2, <3>5
    <2>5. CASE (\E i \in 1 .. MaxId : Delete(i))
               \/ \E t \in Range(stored) \union {None} : SetActive(t)
        BY <1>2, <2>5 DEF Delete, SetActive
    <2> QED
        BY <1>4, <2>1, <2>2, <2>3, <2>4, <2>5 DEF Script
<1>5. CASE Tick
    <2>1. ASSUME NEW n, QueryDone(n) PROVE sets'[s] = sets[s]
        BY <1>3, <2>1 DEF QueryDone
    <2>2. ASSUME NEW n, NEW f, FilePartDone(f, n) PROVE sets'[s] = sets[s]
        BY <1>3, <2>2 DEF FilePartDone
    <2>3. ASSUME NEW n \in 0 .. MaxResults, NEW f \in DOMAIN files, FileDone(f, n)
          PROVE  sets'[s] = sets[s]
        <3>1. PICK list : list = Append(files[f].collected, made + 1)
            OBVIOUS
        <3> DEFINE all == With(sets, made + 1, NewSet(made + 1, n))
        <3>2. made' = made + 2 /\ Heap(Merge(all, list, made'))
            BY <2>3, <3>1 DEF FileDone
        <3>3. s \notin Range(list)
            BY <2>3, <3>1, FileDoneFacts
        <3>4. s \in DOMAIN all /\ all[s] = sets[s] /\ s # made'
            BY <1>1, <3>2 DEF With
        <3> HIDE DEF all
        <3>5. Merge(all, list, made')[s] = sets[s]
            BY <3>3, <3>4 DEF Merge, With
        <3> QED
            BY <1>2, <3>2, <3>5
    <2>4. CASE QueryFailed
        BY <2>4 DEF QueryFailed
    <2>5. CASE (\E f \in DOMAIN files : FilePartFailed(f)) \/ CallbackReturns
        BY <1>2, <2>5 DEF FilePartFailed, CallbackReturns
    <2> QED
        BY <1>5, <2>1, <2>2, <2>3, <2>4, <2>5 DEF Tick
<1> QED
    BY <1>4, <1>5 DEF Next

\* A file that only waits keeps its results.
LEMMA GotKept ==
    ASSUME IdInv, IdInv', GotInv, Next, NEW f \in DOMAIN files, f \in DOMAIN files',
           f # running.file,
           files'[f].collected = files[f].collected, files'[f].got = files[f].got,
           \A g \in DOMAIN files : \A n \in 0 .. MaxResults :
              FileDone(g, n) =>
                 Range(files[f].collected) \intersect Range(files'[g].collected) = {}
    PROVE  files'[f].got = ResultsOf(sets', files'[f].collected)
<1>1. Range(files[f].collected) \subseteq DOMAIN sets
    BY IdFacts DEF Collected
<1>2. Range(files'[f].collected) \subseteq DOMAIN sets'
    BY DEF IdInv, Linked, FilesGood, Range
<1>3. \A s \in Range(files[f].collected) : sets'[s].results = sets[s].results
    BY <1>1, <1>2, StepKeeps
<1>4. ResultsOf(sets', files[f].collected) = ResultsOf(sets, files[f].collected)
    BY <1>3, ResultsOfSame
<1> QED
    BY <1>4 DEF GotInv, HasGot

LEMMA LessApart ==
    ASSUME Apart(files), DOMAIN files' \subseteq DOMAIN files,
           \A f \in DOMAIN files' : files'[f].collected = files[f].collected
    PROVE  Apart(files')
BY DEF Apart

LEMMA FilePartDoneGot ==
    ASSUME IdInv, IdInv', OwnInv, GotInv, FileInv,
           NEW f \in DOMAIN files, NEW n \in 0 .. MaxResults, FilePartDone(f, n)
    PROVE  GotInv'
<1>1. running.file = 0 /\ running' = running /\ made' = made + 1
      /\ Heap(With(sets, made', NewSet(made', n)))
    BY DEF FilePartDone, Idle
<1>2. Next /\ \A g \in DOMAIN files : \A k \in 0 .. MaxResults : ~FileDone(g, k)
    <2>1. Next
        BY DEF Next, Tick
    <2>2. running'.kind = "none"
        BY <1>1 DEF FilePartDone, Idle
    <2> QED
        BY <2>1, <2>2, FileDoneRuns
<1>3. \A g \in DOMAIN files : g # running.file
    BY <1>1 DEF FileInv
<1>4. files[f] = [size |-> files[f].size, collected |-> files[f].collected,
                  got |-> files[f].got, todo |-> files[f].todo]
      /\ files[f].collected \in Seq(DOMAIN sets)
    BY DEF IdInv, Linked, FilesGood
<1>5. CASE files[f].todo = {NextOf(f)}
    <2>1. DOMAIN files' \subseteq DOMAIN files /\ \A g \in DOMAIN files' : files'[g] = files[g]
        BY <1>5 DEF FilePartDone, Without
    <2> QED
        BY <1>2, <1>3, <2>1, GotKept, LessApart DEF GotInv, HasGot
<1>6. CASE files[f].todo # {NextOf(f)}
    <2> DEFINE results == NewSet(made', n).results
    <2>1. files' = [files EXCEPT ![f].todo = @ \ {NextOf(f)},
                                 ![f].collected = Append(@, made'),
                                 ![f].got = @ \o results]
        BY <1>6 DEF FilePartDone
    <2>2. /\ DOMAIN files' = DOMAIN files
          /\ \A g \in DOMAIN files \ {f} : files'[g] = files[g]
          /\ files'[f].collected = Append(files[f].collected, made')
          /\ files'[f].got = files[f].got \o results
        BY <1>4, <2>1
    <2>3. Range(files'[f].collected) = Range(files[f].collected) \union {made'}
        BY <1>4, <2>2, RangeAppend
    <2>4. Range(files'[f].collected) \subseteq DOMAIN sets'
        BY <2>2 DEF IdInv, Linked, FilesGood, Range
    <2>5. made' \in DOMAIN sets' /\ sets'[made'].results = results
        <3>1. made' \in DOMAIN sets'
            BY <2>3, <2>4
        <3>2. With(sets, made', NewSet(made', n))[made'] = NewSet(made', n)
            BY DEF With
        <3> QED
            BY <1>1, <3>1, <3>2, HeapKeeps
    <2>6. files'[f].got = ResultsOf(sets', files'[f].collected)
        <3>1. \A s \in Range(files[f].collected) : s \in DOMAIN sets /\ s \in DOMAIN sets'
            BY <2>3, <2>4, IdFacts DEF Collected
        <3>2. \A s \in Range(files[f].collected) : sets'[s].results = sets[s].results
            BY <1>2, <3>1, StepKeeps
        <3>3. ResultsOf(sets', files[f].collected) = files[f].got
            BY <1>3, <3>2, ResultsOfSame DEF GotInv, HasGot
        <3>4. files[f].collected \in Seq(DOMAIN sets')
            BY <1>4, <3>1 DEF Range
        <3>5. \A s \in DOMAIN sets' : sets'[s].results \in Seq(ResultsUpTo(made'))
            <4>1. OwnInv'
                BY <1>1, FilePartDoneCollects, NewOwned
            <4> QED
                BY <4>1 DEF OwnInv, Owned, ResultsGood
        <3> HIDE DEF results
        <3> QED
            BY <2>2, <2>5, <3>3, <3>4, <3>5, ResultsOfAppend
    <2>7. HasGot(sets', files', running'.file)
        <3>1. ASSUME NEW g \in DOMAIN files'
              PROVE  files'[g].got = ResultsOf(sets', files'[g].collected)
            <4>1. CASE g = f
                BY <2>6, <4>1
            <4>2. CASE g # f
                <5>1. g \in DOMAIN files /\ files'[g] = files[g] /\ g # running.file
                    BY <1>3, <2>2, <4>2
                <5> QED
                    BY <1>2, <5>1, GotKept
            <4> QED
                BY <4>1, <4>2
        <3> QED
            BY <3>1 DEF HasGot
    <2>8. Apart(files')
        <3>1. made' \notin Collected(files)
            BY <1>1, SuccessorOfMade, NewIsNotCollected DEF IdInv
        <3>2. \A g \in DOMAIN files \ {f} :
                 Range(files'[f].collected) \intersect Range(files'[g].collected) = {}
            <4>1. \A g \in DOMAIN files : made' \notin Range(files[g].collected)
                BY <3>1 DEF Collected
            <4>2. \A g \in DOMAIN files \ {f} :
                     Range(files[f].collected) \intersect Range(files[g].collected) = {}
                BY DEF GotInv, Apart
            <4> QED
                BY <2>2, <2>3, <4>1, <4>2
        <3> QED
            BY <2>2, <3>2 DEF GotInv, Apart
    <2> QED
        BY <2>7, <2>8 DEF GotInv
<1> QED
    BY <1>5, <1>6

LEMMA FileDoneGot ==
    ASSUME IdInv, IdInv', OwnInv, GotInv, FileInv,
           NEW f \in DOMAIN files, NEW n \in 0 .. MaxResults, FileDone(f, n)
    PROVE  /\ GotInv'
           /\ active' # None /\ sets'[active'].results = running'.results
<1>1. /\ running.file = 0 /\ running'.file = f
      /\ running'.results = files[f].got \o NewSet(made + 1, n).results
      /\ made' = made + 2 /\ active' = made'
    BY DEF FileDone, Idle
<1>2. Next /\ \A g \in DOMAIN files : \A k \in 0 .. MaxResults : FileDone(g, k) => g = f
    <2>1. Next
        BY DEF Next, Tick
    <2>2. \A g \in DOMAIN files : \A k \in 0 .. MaxResults : FileDone(g, k) => running'.file = g
        BY DEF FileDone
    <2> QED
        BY <1>1, <2>1, <2>2
<1>3. PICK list : list = Append(files[f].collected, made + 1)
    OBVIOUS
<1>4. /\ DOMAIN files' = DOMAIN files
      /\ \A g \in DOMAIN files \ {f} : files'[g] = files[g]
      /\ files'[f].collected = list
      /\ files[f].collected \in Seq(DOMAIN sets)
      /\ Range(list) = Range(files[f].collected) \union {made + 1}
    BY <1>3, FileDoneFacts
<1>5. made + 1 \notin Collected(files)
    BY SuccessorOfMade, NewIsNotCollected DEF IdInv
<1>6. \A g \in DOMAIN files \ {f} : Range(files[g].collected) \intersect Range(list) = {}
    <2>1. \A g \in DOMAIN files : made + 1 \notin Range(files[g].collected)
        BY <1>5 DEF Collected
    <2>2. \A g \in DOMAIN files \ {f} :
             Range(files[f].collected) \intersect Range(files[g].collected) = {}
        BY DEF GotInv, Apart
    <2> QED
        BY <1>4, <2>1, <2>2
<1>7. HasGot(sets', files', running'.file)
    <2>1. ASSUME NEW g \in DOMAIN files', g # f
          PROVE  files'[g].got = ResultsOf(sets', files'[g].collected)
        <3>1. g \in DOMAIN files /\ files'[g] = files[g] /\ g # running.file
            BY <1>1, <1>4, <2>1 DEF FileInv
        <3>2. \A h \in DOMAIN files : \A k \in 0 .. MaxResults :
                 FileDone(h, k) =>
                    Range(files[g].collected) \intersect Range(files'[h].collected) = {}
            BY <1>2, <1>4, <1>6, <2>1, <3>1
        <3> QED
            BY <1>2, <3>1, <3>2, GotKept
    <2> QED
        BY <1>1, <2>1 DEF HasGot
<1>8. Apart(files')
    BY <1>4, <1>6 DEF GotInv, Apart
<1> DEFINE part == made + 1
           all == With(sets, part, NewSet(part, n))
<1>9. /\ made \in Nat /\ DOMAIN sets \subseteq 1 .. made
      /\ Collected(files) \subseteq DOMAIN sets
    BY IdFacts
<1>10. /\ DOMAIN all = DOMAIN sets \union {part} /\ part \notin DOMAIN sets
       /\ \A s \in DOMAIN sets : all[s] = sets[s]
       /\ all[part] = NewSet(part, n)
    BY <1>9 DEF With
<1>11. ResultsOf(all, list) = files[f].got \o NewSet(part, n).results
    <2>1. part \in Nat /\ part # 0 /\ made <= part
        BY <1>9
    <2>2. \A s \in DOMAIN all : all[s].results \in Seq(ResultsUpTo(part))
        <3>1. Seq(ResultsUpTo(made)) \subseteq Seq(ResultsUpTo(part))
            BY <1>9, <2>1, MoreResults
        <3>2. NewSet(part, n).results \in Seq(ResultsUpTo(part))
            BY <2>1, NewResults
        <3> HIDE DEF all
        <3> QED
            BY <1>10, <3>1, <3>2 DEF OwnInv, Owned, ResultsGood
    <2>3. files[f].collected \in Seq(DOMAIN all) /\ part \in DOMAIN all
        BY <1>4, <1>10
    <2> HIDE DEF all, part
    <2>4. ResultsOf(all, list) = ResultsOf(all, files[f].collected) \o all[part].results
        BY <1>3, <2>2, <2>3, ResultsOfAppend DEF part
    <2>5. ResultsOf(all, files[f].collected) = ResultsOf(sets, files[f].collected)
        <3>1. \A s \in Range(files[f].collected) : all[s].results = sets[s].results
            BY <1>9, <1>10 DEF Collected
        <3> QED
            BY <3>1, ResultsOfSame
    <2>6. ResultsOf(sets, files[f].collected) = files[f].got
        BY <1>1 DEF GotInv, HasGot, FileInv
    <2> QED
        BY <1>10, <2>4, <2>5, <2>6
<1>12. Heap(Merge(all, list, made'))
    BY <1>3 DEF FileDone
<1> HIDE DEF all, part
<1>13. active' # None /\ active' \in DOMAIN sets'
    <2>1. active' # None
        BY <1>1, <1>9 DEF None
    <2> QED
        BY <2>1 DEF IdInv, Linked, PointersGood
<1>14. sets'[made'] = [results |-> ResultsOf(all, list), current |-> NoResult]
    <2>1. Merge(all, list, made')[made'] =
             [results |-> ResultsOf(all, list), current |-> NoResult]
        BY DEF Merge, With
    <2> QED
        BY <1>1, <1>12, <1>13, <2>1, HeapKeeps
<1>15. sets'[active'].results = running'.results
    <2>1. sets'[active'].results = ResultsOf(all, list)
        BY <1>1, <1>14
    <2>2. ResultsOf(all, list) = running'.results
        BY <1>1, <1>11 DEF part
    <2> QED
        BY <2>1, <2>2
<1> QED
    BY <1>7, <1>8, <1>13, <1>15 DEF GotInv

LEMMA GotStep ==
    ASSUME IdInv, OwnInv, GotInv, FileInv, [Next]_vars PROVE GotInv'
<1>1. IdInv'
    BY IdStep
<1>2. CASE UNCHANGED vars
    BY <1>2 DEF vars, GotInv
<1>3. CASE Script
    <2>1. Next /\ running' = running
        BY <1>3 DEF Next, Script, SendQuery, SendFile, Query, QueryFile, Read, Save, SetResult,
                    Delete, SetActive
    <2>2. \A g \in DOMAIN files : \A k \in 0 .. MaxResults : ~FileDone(g, k)
        BY <2>1, FileDoneRuns
    <2>3. CASE \E n, accepted : SendFile(n, accepted)
        <3>1. PICK n, accepted : SendFile(n, accepted)
            BY <2>3
        <3>2. PICK f \in (1 .. MaxOpen) \ DOMAIN files :
                 files' = With(files, f, [size |-> n, collected |-> <<>>, got |-> <<>>,
                                          todo |-> accepted])
            BY <3>1 DEF SendFile
        <3>3. /\ DOMAIN files' = DOMAIN files \union {f}
              /\ \A g \in DOMAIN files : files'[g] = files[g]
              /\ files'[f].collected = <<>> /\ files'[f].got = <<>>
            BY <3>2 DEF With
        <3>4. HasGot(sets', files', running'.file)
            <4>1. \A g \in DOMAIN files :
                     g # running.file => files'[g].got = ResultsOf(sets', files'[g].collected)
                BY <1>1, <2>1, <2>2, <3>3, GotKept
            <4> QED
                BY <2>1, <3>3, <4>1, ResultsOfNone DEF HasGot
        <3>5. Range(<<>>) = {}
            BY DEF Range
        <3>6. Apart(files')
            BY <3>3, <3>5 DEF GotInv, Apart
        <3> QED
            BY <3>4, <3>6 DEF GotInv
    <2>4. CASE UNCHANGED files
        <3>1. HasGot(sets', files', running'.file)
            BY <1>1, <2>1, <2>2, <2>4, GotKept DEF HasGot
        <3> QED
            BY <2>4, <3>1 DEF GotInv
    <2> QED
        BY <1>3, <2>3, <2>4 DEF Script, SendQuery, Query, QueryFile, Read, Save, SetResult,
                                Delete, SetActive
<1>4. CASE Tick
    <2>1. Next
        BY <1>4 DEF Next
    <2>2. ASSUME NEW n \in 0 .. MaxResults, NEW f \in DOMAIN files, FileDone(f, n)
          PROVE  GotInv'
        BY <1>1, <2>2, FileDoneGot
    <2>3. ASSUME NEW n \in 0 .. MaxResults, NEW f \in DOMAIN files, FilePartDone(f, n)
          PROVE  GotInv'
        BY <1>1, <2>3, FilePartDoneGot
    <2>4. ASSUME \A g \in DOMAIN files : \A k \in 0 .. MaxResults : ~FileDone(g, k),
                 DOMAIN files' \subseteq DOMAIN files,
                 \A g \in DOMAIN files' :
                    /\ g # running.file
                    /\ files'[g].collected = files[g].collected /\ files'[g].got = files[g].got
          PROVE  GotInv'
        <3>1. HasGot(sets', files', running'.file)
            BY <1>1, <2>1, <2>4, GotKept DEF HasGot
        <3> QED
            BY <2>4, <3>1, LessApart DEF GotInv
    <2>5. CASE QueryFailed \/ \E n \in 0 .. MaxResults : QueryDone(n)
        <3>1. files' = files /\ running.file = 0 /\ running'.kind # "file"
            BY <2>5 DEF QueryFailed, QueryDone, Idle
        <3>2. \A g \in DOMAIN files : \A k \in 0 .. MaxResults : ~FileDone(g, k)
            BY <3>1, FileDoneRuns
        <3> QED
            BY <2>4, <3>1, <3>2 DEF FileInv
    <2>6. ASSUME NEW f \in DOMAIN files, FilePartFailed(f) PROVE GotInv'
        <3>1. running.file = 0 /\ running'.kind # "file"
            BY <2>6 DEF FilePartFailed, Idle
        <3>2. \A g \in DOMAIN files : \A k \in 0 .. MaxResults : ~FileDone(g, k)
            BY <3>1, FileDoneRuns
        <3>3. files[f] = [size |-> files[f].size, collected |-> files[f].collected,
                          got |-> files[f].got, todo |-> files[f].todo]
            BY DEF IdInv, Linked, FilesGood
        <3>4. CASE files[f].todo = {NextOf(f)}
            <4>1. DOMAIN files' \subseteq DOMAIN files
                  /\ \A g \in DOMAIN files' : files'[g] = files[g]
                BY <2>6, <3>4 DEF FilePartFailed, Without
            <4> QED
                BY <2>4, <3>1, <3>2, <4>1 DEF FileInv
        <3>5. CASE files[f].todo # {NextOf(f)}
            <4>1. PICK todo : files' = [files EXCEPT ![f].todo = todo]
                BY <2>6, <3>5 DEF FilePartFailed
            <4>2. files'[f].collected = files[f].collected /\ files'[f].got = files[f].got
                BY <3>3, <4>1
            <4>3. DOMAIN files' = DOMAIN files /\ \A g \in DOMAIN files \ {f} : files'[g] = files[g]
                BY <4>1
            <4> QED
                BY <2>4, <3>1, <3>2, <4>2, <4>3 DEF FileInv
        <3> QED
            BY <3>4, <3>5
    <2>7. CASE CallbackReturns
        <3>1. running' = Idle /\ DOMAIN files' = DOMAIN files \ {running.file}
              /\ \A g \in DOMAIN files' : files'[g] = files[g]
            BY <2>7 DEF CallbackReturns, Without
        <3>2. \A g \in DOMAIN files : \A k \in 0 .. MaxResults : ~FileDone(g, k)
            BY <3>1, FileDoneRuns DEF Idle
        <3> QED
            BY <2>4, <3>1, <3>2
    <2> QED
        BY <1>4, <2>2, <2>3, <2>5, <2>6, <2>7 DEF Tick
<1> QED
    BY <1>2, <1>3, <1>4 DEF Next

LEMMA ActiveStep ==
    ASSUME IdInv, OwnInv, GotInv, FileInv, Numbers, ActiveIsOwn, [Next]_vars
    PROVE  ActiveIsOwn'
<1>1. IdInv'
    BY IdStep
<1>2. CASE UNCHANGED vars
    BY <1>2 DEF vars, ActiveIsOwn, InQueryCallback
<1>3. CASE Script
    <2>1. Next /\ running' = running
        BY <1>3 DEF Next, Script, SendQuery, SendFile, Query, QueryFile, Read, Save, SetResult,
                    Delete, SetActive
    <2>2. UNCHANGED <<active, touched, outside>> \/ Activates
        BY <1>3 DEF Script, SendQuery, SendFile, Query, QueryFile, Read, Save, SetResult,
                    Delete, SetActive
    <2>3. touched \in BOOLEAN /\ outside \in BOOLEAN
        BY DEF Numbers
    <2>4. \A g \in DOMAIN files : \A k \in 0 .. MaxResults : ~FileDone(g, k)
        BY <2>1, FileDoneRuns
    <2>5. CASE active' = active
        <3>1. ~touched' => ~touched
            BY <2>2, <2>3, <2>5 DEF Activates
        <3>2. outside' = outside
            BY <2>2, <2>5 DEF Activates
        <3>3. active # None => sets'[active].results = sets[active].results
            <4>1. active # None => active \in DOMAIN sets /\ active \in DOMAIN sets'
                BY <1>1, <2>5 DEF IdInv, Linked, PointersGood
            <4> QED
                BY <1>1, <2>1, <2>4, <4>1, StepKeeps
        <3> QED
            BY <2>1, <2>5, <3>1, <3>2, <3>3 DEF ActiveIsOwn, InQueryCallback
    <2>6. CASE active' # active
        <3>1. touched' /\ outside' = ~InQueryCallback
            BY <2>2, <2>3, <2>6 DEF Activates
        <3> QED
            BY <2>1, <3>1 DEF ActiveIsOwn, InQueryCallback
    <2> QED
        BY <2>5, <2>6
<1>4. CASE Tick
    <2>1. ASSUME NEW n \in 0 .. MaxResults, QueryDone(n) PROVE ActiveIsOwn'
        <3>1. /\ made' = made + 1 /\ active' = made' /\ running'.kind = "query"
              /\ running'.results = NewSet(made', n).results
              /\ Heap(With(sets, made', NewSet(made', n)))
            BY <2>1 DEF QueryDone
        <3>2. active' # None /\ active' \in DOMAIN sets'
            <4>1. active' # None
                BY <3>1, IdFacts DEF None
            <4> QED
                BY <1>1, <4>1 DEF IdInv, Linked, PointersGood
        <3>3. With(sets, made', NewSet(made', n))[made'] = NewSet(made', n)
            BY DEF With
        <3>4. sets'[active'] = NewSet(made', n)
            BY <1>1, <3>1, <3>2, <3>3, HeapKeeps
        <3> QED
            BY <3>1, <3>2, <3>4 DEF ActiveIsOwn, InQueryCallback
    <2>2. ASSUME NEW n \in 0 .. MaxResults, NEW f \in DOMAIN files, FilePartDone(f, n)
          PROVE  ActiveIsOwn'
        <3>1. running.kind = "none" /\ UNCHANGED <<running, active, outside>>
            BY <2>2 DEF FilePartDone, Idle
        <3> QED
            BY <3>1 DEF ActiveIsOwn, InQueryCallback
    <2>3. ASSUME NEW n \in 0 .. MaxResults, NEW f \in DOMAIN files, FileDone(f, n)
          PROVE  ActiveIsOwn'
        <3>1. running'.kind = "file"
            BY <2>3 DEF FileDone
        <3>2. active' # None /\ sets'[active'].results = running'.results
            BY <1>1, <2>3, FileDoneGot
        <3> QED
            BY <3>1, <3>2 DEF ActiveIsOwn, InQueryCallback
    <2>4. CASE QueryFailed \/ \E f \in DOMAIN files : FilePartFailed(f)
        <3>1. running.kind = "none" /\ running'.kind = "error" /\ UNCHANGED <<active, outside>>
            BY <2>4 DEF QueryFailed, FilePartFailed, Idle
        <3> QED
            BY <3>1 DEF ActiveIsOwn, InQueryCallback
    <2>5. CASE CallbackReturns
        <3>1. /\ running'.kind = "none" /\ UNCHANGED outside
              /\ active' = IF InQueryCallback THEN None ELSE active
            BY <2>5 DEF CallbackReturns, Idle
        <3> QED
            BY <3>1 DEF ActiveIsOwn, InQueryCallback
    <2> QED
        BY <1>4, <2>1, <2>2, <2>3, <2>4, <2>5 DEF Tick
<1> QED
    BY <1>2, <1>3, <1>4 DEF Next

\* Until it makes another cache active itself, a callback reads the results of
\* its own query, or of all queries of its file that have succeeded, in order;
\* and none of this is left active for the code that runs next.
THEOREM ActiveCorrect == Spec => []ActiveIsOwn
<1>1. Init => /\ IdInv /\ OwnInv /\ GotInv /\ FileInv /\ Numbers /\ ActiveIsOwn
    <2> SUFFICES ASSUME Init
                 PROVE  IdInv /\ OwnInv /\ GotInv /\ FileInv /\ Numbers /\ ActiveIsOwn
        OBVIOUS
    <2>1. IdInv
        BY DEF Init, Idle, None, IdInv, Linked, HeapGood, PointersGood, IdsGood, FilesGood
    <2>2. OwnInv
        BY DEF Init, OwnInv, Owned, ResultsGood, DeletedGood, WaitingGood, Collected
    <2>3. DOMAIN files = {} /\ running.kind = "none" /\ running.file = 0 /\ active = None
        BY DEF Init, Idle
    <2>4. Numbers
        <3>1. made = 0 /\ single = 0 /\ DOMAIN stored = {}
              /\ touched = FALSE /\ outside = FALSE
            BY DEF Init
        <3>2. made <= MaxSets /\ single \in 0 .. MaxOpen
            BY <3>1, BoundAssumption
        <3> QED
            BY <2>3, <3>1, <3>2 DEF Numbers
    <2> QED
        BY <2>1, <2>2, <2>3, <2>4 DEF GotInv, HasGot, Apart, FileInv, ActiveIsOwn, InQueryCallback
<1>2. /\ IdInv /\ OwnInv /\ GotInv /\ FileInv /\ Numbers /\ ActiveIsOwn
      /\ [Next]_vars
      => (/\ IdInv /\ OwnInv /\ GotInv /\ FileInv /\ Numbers /\ ActiveIsOwn)'
    BY IdStep, OwnStep, GotStep, FileStep, NumbersStep, ActiveStep
<1> QED
    BY <1>1, <1>2, PTL DEF Spec

-----------------------------------------------------------------------------
(***************************************************************************)
(* Places in a row.                                                        *)
(***************************************************************************)
\* Place, for any number of columns.
PlaceOf(n, row, f) ==
    PointerSize * (n + 1) + SumFunctionOnSet(Spaces(row), 1 .. f - 1)

LEMMA SpacesType ==
    ASSUME NEW n \in Nat, NEW row \in [1 .. n -> Datum]
    PROVE  /\ Spaces(row) \in [1 .. n -> Nat]
           /\ \A f \in 1 .. n : row[f] \in Int /\ Spaces(row)[f] = row[f] + 1
<1>1. \A f \in 1 .. n : row[f] \in Int /\ row[f] + 1 \in Nat
  BY SizesAssumption DEF Datum, Null
<1> QED
  BY <1>1 DEF Spaces

\* Behind a value there is the next one, or the end of the row.
LEMMA PlaceFacts ==
    ASSUME NEW n \in Nat, NEW row \in [1 .. n -> Datum]
    PROVE  /\ \A f \in 1 .. n + 1 : PlaceOf(n, row, f) \in Nat
           /\ \A f \in 1 .. n : PlaceOf(n, row, f + 1) = PlaceOf(n, row, f) + row[f] + 1
           /\ \A g \in 1 .. n + 1 : \A f \in 1 .. g : PlaceOf(n, row, f) <= PlaceOf(n, row, g)
<1> DEFINE a == Spaces(row)
<1>1. a \in [1 .. n -> Nat] /\ \A f \in 1 .. n : row[f] \in Int /\ a[f] = row[f] + 1
  BY SpacesType
<1> HIDE DEF a
<1>2. PICK head \in Nat : head = PointerSize * (n + 1)
  <2>1. PointerSize \in Nat /\ n + 1 \in Nat
    BY SizesAssumption
  <2>2. \A x, y \in Nat : x * y \in Nat
    OBVIOUS
  <2> QED
    BY <2>1, <2>2
<1>3. \A f : PlaceOf(n, row, f) = head + UpTo(a, f - 1)
  BY <1>2 DEF PlaceOf, UpTo, a
<1>4. ASSUME NEW f \in 1 .. n + 1 PROVE f - 1 \in 0 .. n
  OBVIOUS
<1>5. \A f \in 1 .. n + 1 : UpTo(a, f - 1) \in Nat
  BY <1>1, <1>4, UpToGrows
<1>6. ASSUME NEW f \in 1 .. n
      PROVE  PlaceOf(n, row, f + 1) = PlaceOf(n, row, f) + row[f] + 1
  <2>1. PICK k \in Nat : k = f - 1 /\ k < n /\ k + 1 = f /\ f + 1 - 1 = f
    OBVIOUS
  <2>2. UpTo(a, k) \in Nat /\ UpTo(a, f) = UpTo(a, k) + a[f]
    BY <1>1, <2>1, UpToNext
  <2>3. row[f] \in Int /\ a[f] = row[f] + 1
    BY <1>1
  <2>4. \A x, y, z \in Int : x + (y + (z + 1)) = x + y + z + 1
    OBVIOUS
  <2> QED
    BY <1>3, <2>1, <2>2, <2>3, <2>4
<1>7. ASSUME NEW g \in 1 .. n + 1, NEW f \in 1 .. g
      PROVE  PlaceOf(n, row, f) <= PlaceOf(n, row, g)
  <2>1. g - 1 \in 0 .. n /\ f - 1 \in 0 .. g - 1 /\ f \in 1 .. n + 1
    OBVIOUS
  <2>2. UpTo(a, f - 1) <= UpTo(a, g - 1)
    BY <1>1, <2>1, UpToGrows
  <2>3. UpTo(a, f - 1) \in Nat /\ UpTo(a, g - 1) \in Nat
    BY <1>5, <2>1
  <2>4. \A x, y \in Nat : x <= y => head + x <= head + y
    OBVIOUS
  <2> QED
    BY <1>3, <2>2, <2>3, <2>4
<1> QED
  BY <1>2, <1>3, <1>5, <1>6, <1>7

\* Only one value that is not NULL begins at a place.
LEMMA PlaceIsOne ==
    ASSUME NEW n \in Nat, NEW row \in [1 .. n -> Datum],
           NEW f \in 1 .. n, NEW g \in 1 .. n, row[f] # Null, row[g] # Null,
           PlaceOf(n, row, f) = PlaceOf(n, row, g)
    PROVE  f = g
<1>1. ASSUME NEW x \in 1 .. n, NEW y \in 1 .. n, row[x] # Null, x < y
      PROVE  PlaceOf(n, row, x) # PlaceOf(n, row, y)
  <2>1. x \in 1 .. n + 1 /\ y \in 1 .. n + 1 /\ x + 1 \in 1 .. y
    BY <1>1
  <2>2. row[x] \in Nat
    BY <1>1, SizesAssumption DEF Datum, Null
  <2>3. PICK p \in Nat : p = PlaceOf(n, row, x)
    BY <2>1, PlaceFacts
  <2>4. PICK q \in Nat : q = PlaceOf(n, row, y)
    BY <2>1, PlaceFacts
  <2>5. p + row[x] + 1 <= q
    BY <2>1, <2>3, <2>4, PlaceFacts
  <2> QED
    BY <2>2, <2>3, <2>4, <2>5
<1>2. f < g \/ g < f \/ f = g
  OBVIOUS
<1> QED
  BY <1>1, <1>2

-----------------------------------------------------------------------------
(***************************************************************************)
(* The space of a row.                                                     *)
(***************************************************************************)
DataType ==
    /\ copying \in {"none", "rows", "done"}
    /\ fields \in Seq(FieldName) /\ Len(fields) <= MaxFields
    /\ sent \in Seq([1 .. Len(fields) -> Datum]) /\ Len(sent) <= MaxRows
    /\ data \in Seq([1 .. Len(fields) -> Int]) /\ Len(data) <= Len(sent)
    /\ memOffset \in Nat
    /\ copying = "none" => sent = <<>> /\ fields = <<>>
    /\ copying = "done" => Len(data) = Len(sent)

LEMMA TypeFacts ==
    ASSUME DataType
    PROVE  /\ Len(fields) \in Nat /\ DOMAIN fields = 1 .. Len(fields)
           /\ Len(sent) \in Nat /\ DOMAIN sent = 1 .. Len(sent)
           /\ Len(data) \in Nat /\ DOMAIN data = 1 .. Len(data)
           /\ \A r \in 1 .. Len(sent) : sent[r] \in [1 .. Len(fields) -> Datum]
           /\ \A r \in 1 .. Len(data) : data[r] \in [1 .. Len(fields) -> Int]
           /\ \A r \in 1 .. Len(data) : r \in 1 .. Len(sent)
<1>1. /\ Len(fields) \in Nat /\ DOMAIN fields = 1 .. Len(fields)
      /\ Len(sent) \in Nat /\ DOMAIN sent = 1 .. Len(sent)
      /\ Len(data) \in Nat /\ DOMAIN data = 1 .. Len(data)
  BY DEF DataType
<1>2. /\ \A r \in 1 .. Len(sent) : sent[r] \in [1 .. Len(fields) -> Datum]
      /\ \A r \in 1 .. Len(data) : data[r] \in [1 .. Len(fields) -> Int]
  <2> DEFINE R == [1 .. Len(fields) -> Datum]
             D == [1 .. Len(fields) -> Int]
  <2>1. sent \in Seq(R) /\ data \in Seq(D)
    BY DEF DataType
  <2> HIDE DEF R, D
  <2>2. /\ \A r \in 1 .. Len(sent) : sent[r] \in R
        /\ \A r \in 1 .. Len(data) : data[r] \in D
    BY <2>1, ElementOfSeq
  <2> QED
    BY <2>2 DEF R, D
<1>3. \A r \in 1 .. Len(data) : r \in 1 .. Len(sent)
  <2>1. \A l, m \in Nat : l <= m => \A r \in 1 .. l : r \in 1 .. m
    OBVIOUS
  <2> QED
    BY <1>1, <2>1 DEF DataType
<1> QED
  BY <1>1, <1>2, <1>3

\* No value is wider than its column.
LEMMA WidthFacts ==
    ASSUME DataType
    PROVE  /\ Widths \in [1 .. Len(fields) -> Nat]
           /\ \A r \in 1 .. Len(sent), f \in 1 .. Len(fields) :
                 Spaces(sent[r])[f] <= Widths[f]
<1>0. MaxText \in Nat /\ Null = -1
  BY SizesAssumption DEF Null
<1>1. ASSUME NEW f \in 1 .. Len(fields)
      PROVE  /\ Width(f) \in Nat
             /\ \A r \in 1 .. Len(sent) : sent[r][f] \in Int /\ sent[r][f] <= Width(f)
  <2> DEFINE S == {0} \union {sent[r][f] : r \in DOMAIN sent}
  <2>1. \A r \in 1 .. Len(sent) : sent[r][f] \in Datum /\ sent[r][f] \in S
    BY TypeFacts
  <2>2. \A x \in S : x = -1 \/ x \in 0 .. MaxText
    BY <1>0, <2>1, TypeFacts DEF Datum
  <2>3. 0 \in S
    OBVIOUS
  <2> DEFINE P == S \cap (0 .. MaxText)
  <2>4. P \in SUBSET (0 .. MaxText) /\ 0 \in P
    BY <1>0, <2>3
  <2> HIDE DEF S
  <2>5. Max(P) \in P /\ \A x \in P : x <= Max(P)
    <3> HIDE DEF P
    <3> QED
      BY <1>0, <2>4, MaxFacts
  <2>6. PICK m \in P : \A x \in P : x <= m
    BY <2>5
  <2>7. m \in S /\ m \in Nat /\ \A x \in S : x \in Int /\ x <= m
    BY <1>0, <2>2, <2>6
  <2>8. Max(S) \in S /\ \A x \in S : x <= Max(S)
    BY <2>7 DEF Max
  <2>9. Width(f) = Max(S)
    BY DEF Width, S
  <2>10. Max(S) \in Nat
    BY <1>0, <2>2, <2>3, <2>8
  <2> QED
    BY <2>1, <2>7, <2>8, <2>9, <2>10
<1>2. Widths \in [1 .. Len(fields) -> Nat] /\ \A f \in 1 .. Len(fields) : Widths[f] = Width(f) + 1
  BY <1>1, TypeFacts DEF Widths
<1>3. ASSUME NEW r \in 1 .. Len(sent), NEW f \in 1 .. Len(fields)
      PROVE  Spaces(sent[r])[f] <= Widths[f]
  <2>1. Spaces(sent[r])[f] = sent[r][f] + 1
    BY TypeFacts, SpacesType
  <2> QED
    BY <1>1, <1>2, <2>1
<1> QED
  BY <1>2, <1>3

\* A row needs less than its space.
LEMMA RowFits ==
    ASSUME DataType, NEW r \in 1 .. Len(sent)
    PROVE  /\ RowSize \in Nat
           /\ PlaceOf(Len(fields), sent[r], Len(fields) + 1) < RowSize
<1> DEFINE n == Len(fields)
           a == Spaces(sent[r])
<1>0. n \in Nat /\ sent[r] \in [1 .. n -> Datum]
  BY TypeFacts
<1>1. a \in [1 .. n -> Nat] /\ Widths \in [1 .. n -> Nat] /\ \A f \in 1 .. n : a[f] <= Widths[f]
  BY <1>0, SpacesType, WidthFacts
<1>2. DOMAIN fields = 1 .. n
  BY TypeFacts
<1>3. PICK head \in Nat : head = PointerSize * (n + 1)
  <2>1. PointerSize \in Nat /\ n + 1 \in Nat
    BY <1>0, SizesAssumption
  <2>2. \A x, y \in Nat : x * y \in Nat
    OBVIOUS
  <2> QED
    BY <2>1, <2>2
<1>4. /\ SumFunctionOnSet(a, 1 .. n) \in Nat /\ SumFunctionOnSet(Widths, 1 .. n) \in Nat
      /\ SumFunctionOnSet(a, 1 .. n) <= SumFunctionOnSet(Widths, 1 .. n)
  <2> HIDE DEF n, a
  <2>1. PICK U : U = 1 .. n
    OBVIOUS
  <2>2. PICK b : b = a
    OBVIOUS
  <2>3. PICK w : w = Widths
    OBVIOUS
  <2>4. U \in SUBSET U /\ IsFiniteSet(U) /\ b \in [U -> Nat] /\ w \in [U -> Nat]
    <3>1. IsFiniteSet(1 .. n)
      <4>1. n \in Nat
        BY <1>0
      <4> QED
        BY <4>1, FS_Interval
    <3> QED
      BY <1>1, <2>1, <2>2, <2>3, <3>1
  <2>5. \A f \in U : b[f] <= w[f]
    BY <1>1, <2>1, <2>2, <2>3
  <2>6. /\ SumFunctionOnSet(b, U) \in Nat /\ SumFunctionOnSet(w, U) \in Nat
        /\ SumFunctionOnSet(b, U) <= SumFunctionOnSet(w, U)
    BY <2>4, <2>5, SumType, SumMonotone
  <2> QED
    BY <2>1, <2>2, <2>3, <2>6
<1>5. PlaceOf(n, sent[r], n + 1) = head + SumFunctionOnSet(a, 1 .. n)
  <2>1. n + 1 - 1 = n
    BY <1>0
  <2> QED
    BY <1>3, <2>1 DEF PlaceOf
<1>6. BytesOfRow = head + SumFunctionOnSet(Widths, 1 .. n)
  BY <1>2, <1>3 DEF BytesOfRow
<1>7. \A b \in Nat : b + (8 - (b % 8)) \in Nat /\ b < b + (8 - (b % 8))
  OBVIOUS
<1>8. PICK x \in Nat : x = SumFunctionOnSet(a, 1 .. n)
  BY <1>4
<1>9. PICK y \in Nat : y = SumFunctionOnSet(Widths, 1 .. n)
  BY <1>4
<1>10. x <= y /\ PlaceOf(n, sent[r], n + 1) = head + x /\ BytesOfRow = head + y
  BY <1>4, <1>5, <1>6, <1>8, <1>9
<1>11. head + y \in Nat /\ head + x \in Nat /\ head + x <= head + y
  BY <1>10
<1>12. RowSize \in Nat /\ BytesOfRow < RowSize
  BY <1>7, <1>10, <1>11 DEF RowSize
<1> HIDE DEF n
<1>13. PlaceOf(n, sent[r], n + 1) < RowSize
  BY <1>10, <1>11, <1>12
<1> QED
  BY <1>12, <1>13 DEF n

\* The division by the size of a pointer leaves no rest.
LEMMA RowStep ==
    ASSUME BytesOfRow \in Nat
    PROVE  PointerSize * (RowSize \div PointerSize) = RowSize
<1>1. PICK q \in Nat : RowSize = 8 * q
  <2>1. \A b \in Nat : b + (8 - (b % 8)) = 8 * (b \div 8 + 1) /\ b \div 8 + 1 \in Nat
    OBVIOUS
  <2> QED
    BY <2>1 DEF RowSize
<1>2. 8 * ((8 * q) \div 8) = 8 * q /\ 4 * ((8 * q) \div 4) = 8 * q
  OBVIOUS
<1> QED
  BY <1>1, <1>2, SizesAssumption

LEMMA BytesType ==
    ASSUME DataType
    PROVE  BytesOfRow \in Nat /\ RowSize \in Nat
<1> DEFINE n == Len(fields)
<1>0. n \in Nat /\ DOMAIN fields = 1 .. n /\ Widths \in [1 .. n -> Nat]
  BY TypeFacts, WidthFacts
<1>1. SumFunctionOnSet(Widths, 1 .. n) \in Nat
  <2> HIDE DEF n
  <2>1. PICK U : U = 1 .. n
    OBVIOUS
  <2>2. PICK w : w = Widths
    OBVIOUS
  <2>3. U \in SUBSET U /\ IsFiniteSet(U) /\ w \in [U -> Nat]
    <3>1. IsFiniteSet(1 .. n)
      BY <1>0, FS_Interval
    <3> QED
      BY <1>0, <2>1, <2>2, <3>1
  <2> QED
    BY <2>1, <2>2, <2>3, SumType
<1>2. PointerSize * (n + 1) \in Nat
  <2>1. PointerSize \in Nat /\ n + 1 \in Nat
    BY <1>0, SizesAssumption
  <2>2. \A x, y \in Nat : x * y \in Nat
    OBVIOUS
  <2> QED
    BY <2>1, <2>2
<1>3. BytesOfRow \in Nat
  BY <1>0, <1>1, <1>2 DEF BytesOfRow
<1>4. \A b \in Nat : b + (8 - (b % 8)) \in Nat
  OBVIOUS
<1> QED
  BY <1>3, <1>4 DEF RowSize

LEMMA SizeType == DataType => RowSize \in Nat
BY BytesType

LEMMA SizeTypeNext == (DataType => RowSize \in Nat)'
BY SizeType, PTL

-----------------------------------------------------------------------------
(***************************************************************************)
(* The inductive invariant: how far the rows have been copied.             *)
(***************************************************************************)
CopyInv ==
    IF copying = "none"
    THEN DOMAIN memory = {}
    ELSE /\ memOffset = PointerSize * Len(sent) + Len(data) * RowSize
         /\ DOMAIN memory \subseteq PointerSize * Len(sent) .. memOffset - 1

\* IsCopied, in terms of PlaceOf.
Copied(n, v, p, m, r, place) ==
    IF v = Null THEN p = Nullptr
    ELSE \A k \in 0 .. v : p + k \in DOMAIN m /\ m[p + k] = <<r, place + k>>

AllCopied ==
    \A r \in 1 .. Len(data), f \in 1 .. Len(fields) :
       Copied(Len(fields), sent[r][f], data[r][f], memory, r,
              PlaceOf(Len(fields), sent[r], f))

AnswerInv == answer # NoAnswer => copying = "done"

DataInv == DataType /\ CopyInv /\ AllCopied /\ AnswerInv /\ AnswerIsRight

\* No byte is written behind the block.
LEMMA InBlock ==
    ASSUME DataType, CopyInv, copying # "none"
    PROVE  DOMAIN memory \subseteq PointerSize * Len(sent) .. BlockSize - 1
<1>1. PICK s \in Nat : s = Len(sent)
  BY TypeFacts
<1>2. PICK d \in Nat : d = Len(data)
  BY TypeFacts
<1>3. d <= s
  BY <1>1, <1>2 DEF DataType
<1>4. PICK size \in Nat : size = RowSize
  BY BytesType
<1>5. PICK p \in Nat : p = PointerSize
  BY SizesAssumption
<1>6. PICK m \in Nat : m = memOffset
  BY DEF DataType
<1>7. m = p * s + d * size
  BY <1>1, <1>2, <1>4, <1>5, <1>6 DEF CopyInv
<1>8. BlockSize = s * (p + size)
  BY <1>1, <1>4, <1>5 DEF BlockSize
<1>9. m <= s * (p + size) /\ s * (p + size) \in Nat
  <2>1. PICK e \in Nat : s = d + e
    <3>1. s - d \in Nat /\ s = d + (s - d)
      BY <1>3
    <3> QED
      BY <3>1
  <2>2. s * (p + size) = p * s + d * size + e * size
    BY <2>1
  <2>3. e * size \in Nat /\ p * s \in Nat /\ d * size \in Nat
    OBVIOUS
  <2>4. \A x, y \in Nat : x <= x + y /\ x + y \in Nat
    OBVIOUS
  <2> QED
    BY <1>7, <2>2, <2>3, <2>4
<1>10. PICK a \in Nat : a = p * s
  OBVIOUS
<1>11. PICK b \in Nat : b = s * (p + size)
  BY <1>9
<1>12. a .. m - 1 \subseteq a .. b - 1
  BY <1>9, <1>11
<1>13. DOMAIN memory \subseteq a .. m - 1
  BY <1>1, <1>5, <1>6, <1>10 DEF CopyInv
<1> QED
  BY <1>1, <1>5, <1>8, <1>10, <1>11, <1>12, <1>13

LEMMA DataCorrect ==
    ASSUME DataInv
    PROVE  ReadsWhatWasSent
<1>1. DataType /\ CopyInv /\ AllCopied /\ AnswerIsRight
  BY DEF DataInv
<1>2. ASSUME NEW r \in DOMAIN data, NEW f \in DOMAIN fields PROVE IsCopied(r, f)
  <2>1. r \in 1 .. Len(data) /\ f \in 1 .. Len(fields)
    BY <1>1, TypeFacts
  <2>2. Copied(Len(fields), sent[r][f], data[r][f], memory, r, PlaceOf(Len(fields), sent[r], f))
    BY <1>1, <2>1 DEF AllCopied
  <2>3. Place(sent[r], f) = PlaceOf(Len(fields), sent[r], f)
    BY DEF Place, PlaceOf
  <2> QED
    BY <2>2, <2>3 DEF Copied, IsCopied
<1>3. copying # "none" => DOMAIN memory \subseteq PointerSize * Len(sent) .. BlockSize - 1
  BY <1>1, InBlock
<1> QED
  BY <1>1, <1>2, <1>3 DEF ReadsWhatWasSent, RowsAreCopied

LEMMA DataInitInv == DataInit => DataInv
<1> SUFFICES ASSUME DataInit PROVE DataInv
  OBVIOUS
<1>1. /\ copying = "none" /\ fields = <<>> /\ sent = <<>>
      /\ memOffset = 0 /\ memory = [x \in {} |-> NoByte] /\ data = <<>>
      /\ answer = NoAnswer
  BY DEF DataInit
<1>2. Len(<<>>) = 0 /\ 0 <= MaxFields /\ 0 <= MaxRows /\ 0 \in Nat
  BY SizesAssumption
<1>3. DataType
  BY <1>1, <1>2 DEF DataType
<1>4. CopyInv
  BY <1>1 DEF CopyInv
<1>5. AllCopied
  <2>1. \A r : r \notin 1 .. 0
    OBVIOUS
  <2> QED
    BY <1>1, <1>2, <2>1 DEF AllCopied
<1>6. AnswerInv /\ AnswerIsRight
  BY <1>1 DEF AnswerInv, AnswerIsRight
<1> QED
  BY <1>3, <1>4, <1>5, <1>6 DEF DataInv

LEMMA StoreStep ==
    ASSUME DataInv, NEW n \in 1 .. MaxFields, NEW m \in 0 .. MaxRows,
           NEW names \in [1 .. n -> FieldName], NEW rows \in [1 .. m -> Row(n)],
           StoreResult(names, rows)
    PROVE  DataInv'
<1>1. /\ copying = "none" /\ copying' = "rows" /\ fields' = names /\ sent' = rows
      /\ memOffset' = PointerSize * Len(rows) /\ memory' = memory /\ data' = data
      /\ answer' = answer
  BY DEF StoreResult
<1>2. DataType /\ CopyInv /\ AnswerInv
  BY DEF DataInv
<1>3. n \in Nat /\ n <= MaxFields /\ m \in Nat /\ m <= MaxRows
  BY SizesAssumption
<1>4. Len(names) = n /\ names \in Seq(FieldName) /\ Len(rows) = m /\ rows \in Seq(Row(n))
  BY <1>3
<1>5. data = <<>> /\ Len(data) = 0
  <2>1. Len(data) <= 0 /\ Len(data) \in Nat
    BY <1>1, <1>2, TypeFacts DEF DataType
  <2>2. Len(data) = 0
    BY <2>1
  <2> QED
    BY <1>2, <2>2, EmptySeq DEF DataType
<1>6. PointerSize * m \in Nat
  <2>1. PointerSize \in Nat
    BY SizesAssumption
  <2>2. \A x, y \in Nat : x * y \in Nat
    OBVIOUS
  <2> QED
    BY <1>3, <2>1, <2>2
<1>7. DataType'
  <2>1. rows \in Seq([1 .. n -> Datum])
    BY <1>4 DEF Row
  <2>2. data' \in Seq([1 .. n -> Int]) /\ Len(data') <= m
    BY <1>1, <1>3, <1>5
  <2> QED
    BY <1>1, <1>3, <1>4, <1>6, <2>1, <2>2 DEF DataType
<1>8. CopyInv'
  <2>1. DataType' => RowSize' \in Nat
    BY SizeTypeNext
  <2>2. 0 * RowSize' = 0
    BY <1>7, <2>1
  <2>3. \A x \in Nat : x + 0 = x
    OBVIOUS
  <2>4. DOMAIN memory' = {}
    BY <1>1, <1>2 DEF CopyInv
  <2>5. memOffset' = PointerSize * Len(sent') + Len(data') * RowSize'
    BY <1>1, <1>4, <1>5, <1>6, <2>2, <2>3
  <2> QED
    BY <1>1, <2>4, <2>5 DEF CopyInv
<1>9. AllCopied'
  <2>1. \A r : r \notin 1 .. 0
    OBVIOUS
  <2> QED
    BY <1>1, <1>5, <2>1 DEF AllCopied
<1>10. AnswerInv' /\ AnswerIsRight'
  BY <1>1, <1>2 DEF AnswerInv, AnswerIsRight
<1> QED
  BY <1>7, <1>8, <1>9, <1>10 DEF DataInv

\* A value and the zero at its end are within the row.
LEMMA ValueInRow ==
    ASSUME NEW n \in Nat, NEW row \in [1 .. n -> Datum], NEW f \in 1 .. n, row[f] # Null,
           NEW o \in Nat, NEW k \in 0 .. row[f]
    PROVE  /\ o + PlaceOf(n, row, f) \in Nat
           /\ o + PlaceOf(n, row, f) + k \in o .. o + PlaceOf(n, row, n + 1) - 1
           /\ (o + PlaceOf(n, row, f) + k) - o = PlaceOf(n, row, f) + k
<1>1. f \in 1 .. n + 1 /\ n + 1 \in 1 .. n + 1 /\ f + 1 \in 1 .. n + 1
  OBVIOUS
<1>2. PICK v \in Nat : v = row[f]
  BY SizesAssumption DEF Datum, Null
<1>3. PICK p \in Nat : p = PlaceOf(n, row, f)
  BY <1>1, PlaceFacts
<1>4. PICK e \in Nat : e = PlaceOf(n, row, n + 1)
  BY <1>1, PlaceFacts
<1>5. p + v + 1 <= e
  <2>1. PlaceOf(n, row, f + 1) = p + v + 1
    BY <1>2, <1>3, PlaceFacts
  <2> QED
    BY <1>1, <1>4, <2>1, PlaceFacts
<1>6. k \in 0 .. v
  BY <1>2
<1>7. /\ o + p \in Nat /\ o + p + k \in o .. o + e - 1 /\ (o + p + k) - o = p + k
  BY <1>5, <1>6
<1> QED
  BY <1>3, <1>4, <1>7

LEMMA CopyRowStep == DataInv /\ CopyRow => DataInv'
<1> SUFFICES ASSUME DataInv, CopyRow PROVE DataInv'
  OBVIOUS
<1>0. DataType /\ CopyInv /\ AllCopied /\ AnswerInv
  BY DEF DataInv
<1> DEFINE n == Len(fields)
           r == Len(data) + 1
           row == sent[r]
           width == Place(row, n + 1)
           target == memOffset .. memOffset + width - 1
           m == [x \in DOMAIN memory \union target |->
                    IF x \in target THEN <<r, x - memOffset>> ELSE memory[x]]
           d == [f \in DOMAIN fields |->
                    IF row[f] = Null THEN Nullptr ELSE memOffset + Place(row, f)]
<1>1. /\ copying = "rows" /\ Len(data) < Len(sent) /\ memory' = m /\ data' = Append(data, d)
      /\ memOffset' = memOffset + PointerSize * (RowSize \div PointerSize)
      /\ copying' = copying /\ fields' = fields /\ sent' = sent /\ answer' = answer
  BY DEF CopyRow
<1>2. n \in Nat /\ DOMAIN fields = 1 .. n /\ memOffset \in Nat
  BY <1>0, TypeFacts DEF DataType
<1>3. r \in 1 .. Len(sent) /\ Len(data) \in Nat /\ Len(sent) \in Nat
  <2>1. Len(data) \in Nat /\ Len(sent) \in Nat
    BY <1>0, TypeFacts
  <2> QED
    BY <1>1, <2>1
<1>4. row \in [1 .. n -> Datum]
  BY <1>0, <1>3, TypeFacts
<1>5. \A f : Place(row, f) = PlaceOf(n, row, f)
  BY DEF Place, PlaceOf
<1>6. width \in Nat /\ width < RowSize /\ RowSize \in Nat
  <2>1. n + 1 \in 1 .. n + 1
    BY <1>2
  <2>2. PlaceOf(n, row, n + 1) \in Nat
    BY <1>2, <1>4, <2>1, PlaceFacts
  <2> QED
    BY <1>0, <1>3, <1>5, <2>2, RowFits
<1>7. memOffset' = memOffset + RowSize
  BY <1>0, <1>1, BytesType, RowStep
<1>8. RowSize' = RowSize
  BY <1>1 DEF RowSize, BytesOfRow, Widths, Width
<1>9. /\ memOffset = PointerSize * Len(sent) + Len(data) * RowSize
      /\ DOMAIN memory \subseteq PointerSize * Len(sent) .. memOffset - 1
  BY <1>0, <1>1 DEF CopyInv
<1>10. PointerSize \in Nat /\ PointerSize * Len(sent) \in Nat /\ PointerSize * Len(sent) <= memOffset
  <2>1. PointerSize \in Nat
    BY SizesAssumption
  <2>2. \A x, y \in Nat : x * y \in Nat
    OBVIOUS
  <2>3. PointerSize * Len(sent) \in Nat /\ Len(data) * RowSize \in Nat
    BY <1>3, <1>6, <2>1, <2>2
  <2>4. \A x, y \in Nat : x <= x + y
    OBVIOUS
  <2> QED
    BY <1>9, <2>1, <2>3, <2>4
\* Where the new row is, there is nothing yet.
<1>11. \A x \in DOMAIN memory : x \in Int /\ x < memOffset
  BY <1>2, <1>9, <1>10
<1>12. ASSUME NEW f \in 1 .. n PROVE d[f] \in Int /\ (row[f] # Null => d[f] = memOffset + PlaceOf(n, row, f))
  <2>1. f \in 1 .. n + 1
    BY <1>2
  <2>2. PlaceOf(n, row, f) \in Nat
    BY <1>2, <1>4, <2>1, PlaceFacts
  <2>3. d[f] = IF row[f] = Null THEN Nullptr ELSE memOffset + PlaceOf(n, row, f)
    BY <1>2, <1>5
  <2> HIDE DEF d, n, row
  <2> QED
    BY <1>2, <2>2, <2>3 DEF Nullptr
<1>13. d \in [1 .. n -> Int]
  BY <1>2, <1>12
<1>14. \A x \in DOMAIN memory : x \in DOMAIN m /\ m[x] = memory[x]
  <2>1. \A x \in DOMAIN memory : x \notin target
    BY <1>2, <1>6, <1>11
  <2> HIDE DEF target
  <2> QED
    BY <2>1
<1>15. \A x \in target : x \in DOMAIN m /\ m[x] = <<r, x - memOffset>>
  <2> HIDE DEF target
  <2> QED
    OBVIOUS
<1>16. DOMAIN m = DOMAIN memory \union target
  <2> HIDE DEF target
  <2> QED
    OBVIOUS
<1>17. target = memOffset .. memOffset + PlaceOf(n, row, n + 1) - 1
  BY <1>5
<1>18. \A f \in 1 .. n : row[f] = Null => d[f] = Nullptr
  BY <1>2
<1> HIDE DEF m, d
\* The new row.
<1>19. ASSUME NEW f \in 1 .. n PROVE Copied(n, row[f], d[f], m, r, PlaceOf(n, row, f))
  <2>1. ASSUME row[f] # Null, NEW k \in 0 .. row[f]
        PROVE  d[f] + k \in DOMAIN m /\ m[d[f] + k] = <<r, PlaceOf(n, row, f) + k>>
    <3>1. d[f] = memOffset + PlaceOf(n, row, f)
      BY <1>12, <2>1
    <3>2. /\ memOffset + PlaceOf(n, row, f) + k \in target
          /\ (memOffset + PlaceOf(n, row, f) + k) - memOffset = PlaceOf(n, row, f) + k
      <4> HIDE DEF n, row, target
      <4> QED
        BY <1>2, <1>4, <1>17, <2>1, ValueInRow
    <3>3. PICK x : x = memOffset + PlaceOf(n, row, f) + k
      OBVIOUS
    <3> HIDE DEF target, n, row, r
    <3>4. x \in DOMAIN m /\ m[x] = <<r, x - memOffset>>
      BY <1>15, <3>2, <3>3
    <3>5. x - memOffset = PlaceOf(n, row, f) + k
      BY <3>2, <3>3
    <3>6. d[f] + k = x
      BY <3>1, <3>3
    <3> QED
      BY <3>4, <3>5, <3>6
  <2> QED
    BY <1>18, <2>1 DEF Copied
<1>20. /\ Len(data') = r /\ data'[r] = d /\ \A q \in 1 .. Len(data) : data'[q] = data[q]
       /\ data' \in Seq([1 .. n -> Int])
  <2> DEFINE D == [1 .. n -> Int]
  <2>1. data \in Seq(D) /\ d \in D
    BY <1>0, <1>13 DEF DataType
  <2> HIDE DEF D
  <2>2. /\ Append(data, d) \in Seq(D) /\ Len(Append(data, d)) = Len(data) + 1
        /\ \A q \in 1 .. Len(data) : Append(data, d)[q] = data[q]
        /\ Append(data, d)[Len(data) + 1] = d
    BY <2>1, AppendProperties
  <2> QED
    BY <1>1, <2>2 DEF D
<1>21. DataType'
  <2>1. memOffset' \in Nat
    BY <1>2, <1>6, <1>7
  <2>2. r <= Len(sent)
    BY <1>3
  <2> HIDE DEF r
  <2> QED
    BY <1>0, <1>1, <1>20, <2>1, <2>2 DEF DataType
<1>22. CopyInv'
  <2>1. memOffset' = PointerSize * Len(sent) + r * RowSize
    <3>1. PICK s \in Nat : s = RowSize
      BY <1>6
    <3>2. PICK l \in Nat : l = Len(data)
      BY <1>3
    <3>3. PICK h \in Nat : h = PointerSize * Len(sent)
      BY <1>10
    <3>4. memOffset' = (h + l * s) + s
      BY <1>7, <1>9, <3>1, <3>2, <3>3
    <3>5. (h + l * s) + s = h + (l + 1) * s
      OBVIOUS
    <3> QED
      BY <3>1, <3>2, <3>3, <3>4, <3>5
  <2>2. DOMAIN memory' \subseteq PointerSize * Len(sent) .. memOffset' - 1
    <3>1. PICK h \in Nat : h = PointerSize * Len(sent)
      BY <1>10
    <3>2. PICK o \in Nat : o = memOffset
      BY <1>2
    <3>3. PICK w \in Nat : w = width
      BY <1>6
    <3>4. PICK s \in Nat : s = RowSize
      BY <1>6
    <3>5. h <= o /\ w < s /\ memOffset' = o + s
      BY <1>6, <1>7, <1>10, <3>1, <3>2, <3>3, <3>4
    <3>6. h .. o - 1 \subseteq h .. o + s - 1 /\ o .. o + w - 1 \subseteq h .. o + s - 1
      BY <3>5
    <3>7. DOMAIN memory \subseteq h .. o - 1
      BY <1>9, <3>1, <3>2
    <3>8. target = o .. o + w - 1
      BY <3>2, <3>3
    <3> HIDE DEF target
    <3> QED
      BY <1>1, <1>16, <3>1, <3>5, <3>6, <3>7, <3>8
  <2> HIDE DEF r
  <2> QED
    BY <1>1, <1>8, <1>20, <2>1, <2>2 DEF CopyInv
<1>23. AllCopied'
  <2>1. ASSUME NEW q \in 1 .. Len(data), NEW f \in 1 .. n
        PROVE  Copied(n, sent[q][f], data[q][f], m, q, PlaceOf(n, sent[q], f))
    <3>1. Copied(n, sent[q][f], data[q][f], memory, q, PlaceOf(n, sent[q], f))
      BY <1>0 DEF AllCopied
    <3> QED
      BY <1>14, <3>1 DEF Copied
  <2>2. ASSUME NEW q \in 1 .. r, NEW f \in 1 .. n
        PROVE  Copied(n, sent[q][f], data'[q][f], m, q, PlaceOf(n, sent[q], f))
    <3>1. q \in 1 .. Len(data) \/ q = r
      BY <1>3
    <3> HIDE DEF n, r
    <3>2. q \in 1 .. Len(data) => Copied(n, sent[q][f], data'[q][f], m, q, PlaceOf(n, sent[q], f))
      BY <1>20, <2>1
    <3>3. q = r => Copied(n, sent[q][f], data'[q][f], m, q, PlaceOf(n, sent[q], f))
      BY <1>19, <1>20
    <3> QED
      BY <3>1, <3>2, <3>3
  <2> HIDE DEF r
  <2> QED
    BY <1>1, <1>20, <2>2 DEF AllCopied
<1>24. AnswerInv' /\ AnswerIsRight'
  <2>1. answer = NoAnswer
    BY <1>0, <1>1 DEF AnswerInv
  <2> QED
    BY <1>1, <2>1 DEF AnswerInv, AnswerIsRight
<1> QED
  BY <1>21, <1>22, <1>23, <1>24 DEF DataInv

LEMMA CopyEndStep == DataInv /\ (CopyEnd \/ UNCHANGED dataVars) => DataInv'
<1> SUFFICES ASSUME DataInv, CopyEnd \/ UNCHANGED dataVars PROVE DataInv'
  OBVIOUS
<1>0. DataType /\ CopyInv /\ AllCopied /\ AnswerInv /\ AnswerIsRight
  BY DEF DataInv
<1>1. /\ fields' = fields /\ sent' = sent /\ memOffset' = memOffset /\ memory' = memory
      /\ data' = data /\ answer' = answer
      /\ copying' = copying \/ (copying = "rows" /\ copying' = "done" /\ Len(data) = Len(sent))
  BY DEF CopyEnd, dataVars
<1>2. RowSize' = RowSize
  BY <1>1 DEF RowSize, BytesOfRow, Widths, Width
<1>3. DataType'
  BY <1>0, <1>1 DEF DataType
<1>4. CopyInv'
  BY <1>0, <1>1, <1>2 DEF CopyInv
<1>5. AllCopied'
  BY <1>0, <1>1 DEF AllCopied
<1>6. AnswerInv'
  BY <1>0, <1>1 DEF AnswerInv
<1>7. AnswerIsRight'
  BY <1>0, <1>1 DEF AnswerIsRight, AskedFor, Right, Place
<1> QED
  BY <1>3, <1>4, <1>5, <1>6, <1>7 DEF DataInv

-----------------------------------------------------------------------------
(***************************************************************************)
(* The natives.                                                            *)
(***************************************************************************)
\* An index below zero is too large.
LEMMA UnsignedFacts ==
    ASSUME NEW max \in Nat, max + 1 < UIntMod, NEW i \in -1 .. max, NEW n \in Nat, n <= max
    PROVE  /\ Unsigned(i) < n <=> i + 1 \in 1 .. n
           /\ i + 1 \in 1 .. n => Unsigned(i) + 1 = i + 1
<1>1. UIntMod \in Nat \ {0}
  BY SizesAssumption
<1>2. CASE i = -1
  <2>1. PICK u \in Nat \ {0} : u = UIntMod
    BY <1>1
  <2>2. -1 = u * (-1) + (u - 1) /\ u - 1 \in 0 .. u - 1
    BY <2>1
  <2>3. (-1) % u = u - 1
    BY <2>2
  <2>4. Unsigned(i) = u - 1
    BY <1>2, <2>1, <2>3 DEF Unsigned
  <2> QED
    BY <1>2, <2>1, <2>4
<1>3. CASE i # -1
  <2>1. i \in 0 .. UIntMod - 1
    BY <1>1, <1>3
  <2>2. i % UIntMod = i
    BY <1>1, <2>1
  <2> QED
    BY <1>3, <2>1, <2>2 DEF Unsigned
<1> QED
  BY <1>2, <1>3

\* What is made of a pointer is right.
LEMMA OutcomeRight ==
    ASSUME DataInv, copying = "done", NEW r \in 1 .. Len(sent), NEW f \in 1 .. Len(fields),
           NEW kind \in {"text", "number", "null"}
    PROVE  /\ Outcome(kind, data[r][f]) = Expected(kind, sent[r][f])
           /\ Outcome(kind, data[r][f]) = "value" =>
                 memory[data[r][f]] = <<r, Place(sent[r], f)>>
<1> DEFINE n == Len(fields)
           v == sent[r][f]
           p == data[r][f]
           place == PlaceOf(n, sent[r], f)
<1>0. DataType /\ CopyInv /\ AllCopied
  BY DEF DataInv
<1>1. r \in 1 .. Len(data) /\ DOMAIN fields = 1 .. n /\ n \in Nat
  BY <1>0, TypeFacts DEF DataType
<1>2. Copied(n, v, p, memory, r, place)
  BY <1>0, <1>1 DEF AllCopied
<1>3. \A g : Place(sent[r], g) = PlaceOf(n, sent[r], g)
  BY DEF Place, PlaceOf
<1>4. sent[r] \in [1 .. n -> Datum] /\ v \in Datum
  BY <1>0, TypeFacts
<1>5. NumberLength \subseteq Nat /\ Null = -1 /\ Nullptr = -1 /\ Null \notin NumberLength
  BY SizesAssumption DEF Null, Nullptr
<1> HIDE DEF v, p, place
<1>6. CASE v = Null
  <2>1. p = Nullptr
    BY <1>2, <1>6 DEF Copied
  <2> QED
    BY <1>5, <1>6, <2>1 DEF Outcome, Expected, AsText, AsNumber, AsNull, v, p
<1>7. CASE v # Null
  <2>1. v \in Nat
    BY <1>4, <1>5, <1>7, SizesAssumption DEF Datum
  <2>2. p \in Int
    BY <1>0, <1>1, TypeFacts DEF p
  <2>3. place \in Nat
    <3>1. f \in 1 .. n + 1
      BY <1>1
    <3> QED
      BY <1>1, <1>4, <3>1, PlaceFacts DEF place
  <2>4. p + 0 \in DOMAIN memory /\ memory[p + 0] = <<r, place + 0>>
    <3>1. 0 \in 0 .. v
      BY <2>1
    <3> QED
      BY <1>2, <1>7, <3>1 DEF Copied
  <2>5. p \in DOMAIN memory /\ memory[p] = <<r, place>>
    <3>1. p + 0 = p /\ place + 0 = place
      BY <2>2, <2>3
    <3> QED
      BY <2>4, <3>1
  <2>6. p # Nullptr
    <3>1. DOMAIN memory \subseteq PointerSize * Len(sent) .. memOffset - 1
      BY <1>0 DEF CopyInv
    <3>2. PointerSize * Len(sent) \in Nat
      <4>1. PointerSize \in Nat /\ Len(sent) \in Nat
        BY <1>0, TypeFacts, SizesAssumption
      <4>2. \A x, y \in Nat : x * y \in Nat
        OBVIOUS
      <4> QED
        BY <4>1, <4>2
    <3>3. p \in PointerSize * Len(sent) .. memOffset - 1
      BY <2>5, <3>1
    <3> QED
      BY <1>5, <2>2, <3>2, <3>3
  <2>7. IsNumber(p) <=> v \in NumberLength
    <3>1. IsNumber(p) <=> \E g \in 1 .. n : sent[r][g] \in NumberLength
                                            /\ PlaceOf(n, sent[r], g) = place
      BY <1>1, <1>3, <2>5 DEF IsNumber
    <3>2. ASSUME NEW g \in 1 .. n, sent[r][g] \in NumberLength, PlaceOf(n, sent[r], g) = place
          PROVE  g = f
      <4>1. sent[r][g] # Null /\ sent[r][f] # Null
        BY <1>5, <1>7, <3>2 DEF v
      <4> QED
        BY <1>1, <1>4, <3>2, <4>1, PlaceIsOne DEF place
    <3> QED
      BY <3>1, <3>2 DEF v, place
  <2>8. memory[p] = <<r, Place(sent[r], f)>>
    BY <1>3, <2>5 DEF place
  <2> QED
    BY <1>7, <2>6, <2>7, <2>8 DEF Outcome, Expected, AsText, AsNumber, AsNull, v, p
<1> QED
  BY <1>6, <1>7

\* An answer changes nothing else.
LEMMA AnswerKeeps ==
    ASSUME DataInv, copying = "done", AnswerIsRight',
           UNCHANGED <<copying, fields, sent, memOffset, memory, data>>
    PROVE  DataInv'
<1>0. DataType /\ CopyInv /\ AllCopied
  BY DEF DataInv
<1>1. RowSize' = RowSize
  BY DEF RowSize, BytesOfRow, Widths, Width
<1>2. DataType'
  BY <1>0 DEF DataType
<1>3. CopyInv'
  BY <1>0, <1>1 DEF CopyInv
<1>4. AllCopied'
  BY <1>0 DEF AllCopied
<1> QED
  BY <1>2, <1>3, <1>4 DEF DataInv, AnswerInv

\* An answer for a value that there is, and one for none.
LEMMA FoundIsRight ==
    ASSUME DataInv, copying = "done", UNCHANGED <<fields, sent>>,
           NEW r \in 1 .. Len(sent), NEW f \in 1 .. Len(fields),
           NEW kind \in {"text", "number", "null"},
           answer'.kind = kind, r = answer'.row + 1,
           \A g \in 1 .. Len(fields) : AskedFor(g)' <=> g = f,
           answer'.outcome = Outcome(kind, data[r][f]),
           answer'.outcome = "value" => answer'.at = memory[data[r][f]]
    PROVE  AnswerIsRight'
<1>1. DataType
  BY DEF DataInv
<1>2. DOMAIN sent = 1 .. Len(sent) /\ DOMAIN fields = 1 .. Len(fields)
  BY <1>1, TypeFacts
<1>3. Right(r, f)'
  <2>1. Place(sent[r], f)' = Place(sent[r], f)
    BY DEF Place
  <2>2. /\ Outcome(kind, data[r][f]) = Expected(kind, sent[r][f])
        /\ Outcome(kind, data[r][f]) = "value" => memory[data[r][f]] = <<r, Place(sent[r], f)>>
    BY OutcomeRight
  <2> QED
    BY <2>1, <2>2 DEF Right
<1>4. ASSUME NEW p \in (DOMAIN sent') \X (DOMAIN fields'), p[1] = answer'.row + 1, AskedFor(p[2])'
      PROVE  p[1] = r /\ p[2] = f
  <2>1. p[2] \in 1 .. Len(fields)
    BY <1>2
  <2> QED
    BY <1>4, <2>1
<1>5. <<r, f>> \in (DOMAIN sent') \X (DOMAIN fields') /\ AskedFor(f)'
  BY <1>2
<1> QED
  BY <1>3, <1>4, <1>5 DEF AnswerIsRight

LEMMA NoneIsRight ==
    ASSUME DataInv, UNCHANGED <<fields, sent>>, answer'.outcome = "refused",
           \A r \in 1 .. Len(sent), f \in 1 .. Len(fields) :
              ~(r = answer'.row + 1 /\ AskedFor(f)')
    PROVE  AnswerIsRight'
<1>1. DataType
  BY DEF DataInv
<1>2. DOMAIN sent = 1 .. Len(sent) /\ DOMAIN fields = 1 .. Len(fields)
  BY <1>1, TypeFacts
<1>3. ASSUME NEW p \in (DOMAIN sent') \X (DOMAIN fields'), p[1] = answer'.row + 1, AskedFor(p[2])'
      PROVE  FALSE
  <2>1. p[1] \in 1 .. Len(sent) /\ p[2] \in 1 .. Len(fields)
    BY <1>2
  <2> QED
    BY <1>3, <2>1
<1> QED
  BY <1>3 DEF AnswerIsRight

LEMMA IndexStep ==
    ASSUME DataInv, NEW kind \in {"text", "number", "null"}, NEW row \in -1 .. MaxRows,
           NEW field \in -1 .. MaxFields, GetValueIndex(kind, row, field)
    PROVE  DataInv'
<1> DEFINE asked == [NoAnswer EXCEPT !.kind = kind, !.row = row, !.field = field]
           r == row + 1
           f == field + 1
<1>0. copying = "done" /\ DataType
  BY DEF GetValueIndex, DataInv
<1>1. UNCHANGED <<copying, fields, sent, memOffset, memory, data>>
  BY DEF GetValueIndex, Answers
<1>2. /\ Len(sent) \in Nat /\ Len(sent) <= MaxRows /\ Len(fields) \in Nat /\ Len(fields) <= MaxFields
      /\ DOMAIN fields = 1 .. Len(fields)
  BY <1>0, TypeFacts DEF DataType
<1>3. /\ Unsigned(row) < Len(sent) <=> r \in 1 .. Len(sent)
      /\ Unsigned(field) < Len(fields) <=> f \in 1 .. Len(fields)
  <2>1. /\ MaxRows \in Nat /\ MaxRows + 1 < UIntMod /\ MaxFields \in Nat /\ MaxFields + 1 < UIntMod
    BY SizesAssumption
  <2> QED
    BY <1>2, <2>1, UnsignedFacts
<1>4. CASE r \in 1 .. Len(sent) /\ f \in 1 .. Len(fields)
  <2>1. Unsigned(row) + 1 = r /\ Unsigned(field) + 1 = f
    BY <1>4, SizesAssumption DEF Unsigned
  <2>2. Answers(asked, Outcome(kind, data[r][f]), data[r][f])
    BY <1>3, <1>4, <2>1 DEF GetValueIndex
  <2>3. /\ answer'.kind = kind /\ answer'.row = row /\ answer'.field = field /\ answer'.name = ""
        /\ answer'.outcome = Outcome(kind, data[r][f])
        /\ answer'.outcome = "value" => answer'.at = memory[data[r][f]]
    BY <2>2 DEF Answers, NoAnswer
  <2>4. \A g \in 1 .. Len(fields) : AskedFor(g)' <=> g = f
    BY <2>3 DEF AskedFor
  <2> HIDE DEF f
  <2>5. AnswerIsRight'
    BY <1>0, <1>1, <1>4, <2>3, <2>4, FoundIsRight
  <2> QED
    BY <1>0, <1>1, <2>5, AnswerKeeps
<1>5. CASE ~(r \in 1 .. Len(sent) /\ f \in 1 .. Len(fields))
  <2>1. Answers(asked, "refused", Nullptr)
    BY <1>3, <1>5 DEF GetValueIndex
  <2>2. /\ answer'.row = row /\ answer'.field = field /\ answer'.name = ""
        /\ answer'.outcome = "refused"
    BY <2>1 DEF Answers, NoAnswer
  <2>3. \A x \in 1 .. Len(sent), g \in 1 .. Len(fields) : ~(x = answer'.row + 1 /\ AskedFor(g)')
    BY <1>5, <2>2 DEF AskedFor
  <2>4. AnswerIsRight'
    BY <1>1, <2>2, <2>3, NoneIsRight
  <2> QED
    BY <1>0, <1>1, <2>4, AnswerKeeps
<1> QED
  BY <1>4, <1>5

LEMMA Below ==
    ASSUME NEW n \in Nat, NEW x \in 1 .. n
    PROVE  \A g \in 1 .. x - 1 : g \in 1 .. n /\ ~(x <= g)
OBVIOUS

\* The first column of a name.
LEMMA NamedFacts ==
    ASSUME DataType, NEW name, \E f \in DOMAIN fields : fields[f] = name
    PROVE  \E f \in 1 .. Len(fields) :
              /\ f = Named(name) /\ fields[f] = name
              /\ \A g \in 1 .. f - 1 : fields[g] # name
              /\ \A g \in 1 .. Len(fields) : fields[g] = name => f <= g
<1> DEFINE S == {f \in DOMAIN fields : fields[f] = name}
<1>1. PICK n \in Nat : n = Len(fields)
  BY TypeFacts
<1>2. DOMAIN fields = 1 .. n
  BY <1>1, TypeFacts
<1>3. S \in SUBSET Nat /\ S # {}
  BY <1>2
<1>4. PICK f : f = Min(S)
  OBVIOUS
<1>5. f \in S /\ \A g \in S : f <= g
  <2> HIDE DEF S
  <2> QED
    BY <1>3, <1>4, MinFacts
<1>6. f = Named(name)
  BY <1>4 DEF Named
<1>7. f \in 1 .. n /\ fields[f] = name
  BY <1>2, <1>5
<1>8. \A g \in 1 .. n : fields[g] = name => f <= g
  BY <1>2, <1>5
<1> HIDE DEF S
<1>9. \A g \in 1 .. f - 1 : g \in 1 .. n /\ ~(f <= g)
  BY <1>7, Below
<1> QED
  BY <1>1, <1>6, <1>7, <1>8, <1>9

LEMMA NotBelow ==
    ASSUME NEW n \in Nat, NEW x \in 1 .. n, NEW y \in 1 .. n, x <= y, ~(x \in 1 .. y - 1)
    PROVE  y = x
OBVIOUS

LEMMA NameStep ==
    ASSUME DataInv, NEW kind \in {"text", "number", "null"}, NEW row \in -1 .. MaxRows,
           NEW name \in FieldName \ {""}, GetValueName(kind, row, name)
    PROVE  DataInv'
<1> DEFINE asked == [NoAnswer EXCEPT !.kind = kind, !.row = row, !.name = name]
           r == row + 1
           Has == \E f \in DOMAIN fields : fields[f] = name
<1>0. copying = "done" /\ DataType
  BY DEF GetValueName, DataInv
<1>1. UNCHANGED <<copying, fields, sent, memOffset, memory, data>>
  BY DEF GetValueName, Answers
<1>2. /\ Len(sent) \in Nat /\ Len(sent) <= MaxRows /\ Len(fields) \in Nat
      /\ DOMAIN fields = 1 .. Len(fields)
  BY <1>0, TypeFacts DEF DataType
<1>3. MaxRows \in Nat /\ MaxRows + 1 < UIntMod /\ UIntMod \in Nat
  BY SizesAssumption
<1>4. Unsigned(row) < Len(sent) <=> r \in 1 .. Len(sent)
  BY <1>2, <1>3, UnsignedFacts
<1>5. CASE r \in 1 .. Len(sent) /\ Has
  <2>1. Unsigned(row) + 1 = r
    BY <1>2, <1>3, <1>5, UnsignedFacts
  <2>2. PICK f \in 1 .. Len(fields) :
              /\ f = Named(name) /\ fields[f] = name
              /\ \A g \in 1 .. f - 1 : fields[g] # name
              /\ \A g \in 1 .. Len(fields) : fields[g] = name => f <= g
    BY <1>0, <1>5, NamedFacts
  <2>3. Answers(asked, Outcome(kind, data[r][f]), data[r][f])
    BY <1>4, <1>5, <2>1, <2>2 DEF GetValueName
  <2>4. /\ answer'.kind = kind /\ answer'.row = row /\ answer'.name = name
        /\ answer'.outcome = Outcome(kind, data[r][f])
        /\ answer'.outcome = "value" => answer'.at = memory[data[r][f]]
    BY <2>3 DEF Answers, NoAnswer
  <2>5. ASSUME NEW g \in 1 .. Len(fields) PROVE AskedFor(g)' <=> g = f
    <3>1. AskedFor(g)' <=> fields[g] = name /\ \A h \in 1 .. g - 1 : fields[h] # name
      BY <1>1, <2>4 DEF AskedFor
    <3>2. ASSUME AskedFor(g)' PROVE g = f
      <4>1. f <= g /\ ~(f \in 1 .. g - 1)
        BY <2>2, <3>1, <3>2
      <4> QED
        BY <1>2, <4>1, NotBelow
    <3> QED
      BY <2>2, <3>1, <3>2
  <2>6. AnswerIsRight'
    BY <1>0, <1>1, <1>5, <2>4, <2>5, FoundIsRight
  <2> QED
    BY <1>0, <1>1, <2>6, AnswerKeeps
<1>6. CASE ~(r \in 1 .. Len(sent) /\ Has)
  <2>1. Answers(asked, "refused", Nullptr)
    BY <1>4, <1>6 DEF GetValueName
  <2>2. answer'.row = row /\ answer'.name = name /\ answer'.outcome = "refused"
    BY <2>1 DEF Answers, NoAnswer
  <2>3. \A x \in 1 .. Len(sent), g \in 1 .. Len(fields) : ~(x = answer'.row + 1 /\ AskedFor(g)')
    BY <1>1, <1>2, <1>6, <2>2 DEF AskedFor
  <2>4. AnswerIsRight'
    BY <1>1, <2>2, <2>3, NoneIsRight
  <2> QED
    BY <1>0, <1>1, <2>4, AnswerKeeps
<1> QED
  BY <1>5, <1>6

LEMMA DataStep == DataInv /\ [DataNext]_dataVars => DataInv'
<1> SUFFICES ASSUME DataInv, [DataNext]_dataVars PROVE DataInv'
  OBVIOUS
<1>1. ASSUME NEW n \in 1 .. MaxFields, NEW m \in 0 .. MaxRows,
             NEW names \in [1 .. n -> FieldName], NEW rows \in [1 .. m -> Row(n)],
             StoreResult(names, rows)
      PROVE  DataInv'
  BY <1>1, StoreStep
<1>2. CASE CopyRow
  BY <1>2, CopyRowStep
<1>3. CASE CopyEnd \/ UNCHANGED dataVars
  BY <1>3, CopyEndStep
<1>4. ASSUME NEW kind \in {"text", "number", "null"}, NEW row \in -1 .. MaxRows,
             NEW field \in -1 .. MaxFields, GetValueIndex(kind, row, field)
      PROVE  DataInv'
  BY <1>4, IndexStep
<1>5. ASSUME NEW kind \in {"text", "number", "null"}, NEW row \in -1 .. MaxRows,
             NEW name \in FieldName \ {""}, GetValueName(kind, row, name)
      PROVE  DataInv'
  BY <1>5, NameStep
<1> QED
  BY <1>1, <1>2, <1>3, <1>4, <1>5 DEF DataNext

\* Natives read what MySQL has sent, for any number of rows and columns, values
\* of any length and pointers of four or eight bytes: no row is copied into
\* another one or behind the block that is allocated for all of them, and the
\* cache_get_value natives answer with the value that was asked for, or refuse.
THEOREM ValuesCorrect == DataSpec => []ReadsWhatWasSent
<1>1. DataInv => ReadsWhatWasSent
  BY DataCorrect
<1> QED
  BY <1>1, DataInitInv, DataStep, PTL DEF DataSpec

================================================================================
