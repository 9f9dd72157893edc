---------------------------- MODULE Natives_proofs ----------------------------
(***************************************************************************)
(* What the natives that send queries make of what they are given: the     *)
(* arguments of a public, the queries of a file and the text of a format,  *)
(* whatever their lengths.                                                 *)
(***************************************************************************)
EXTENDS Callback, FileParser, Format, Induction

-----------------------------------------------------------------------------
(***************************************************************************)
(* CCallback: a public gets the arguments of its native.                   *)
(***************************************************************************)
Param == [spec : {"c", "s", "r", "a"}, arg : Nat, size : Nat]

CallbackType ==
    /\ callback \in CallbackState
    /\ expected \in Nat
    /\ format \in Seq(Letter)
    /\ positive \subseteq 1 .. Len(format)
    /\ array \in 0 .. Len(format)
    /\ params \in Seq(Param) /\ pushed \in Seq(Param)
    /\ heap \in Nat /\ before \in Nat /\ address \in Int

\* The letters whose parameters are listed.
Complete == IF array = 0 THEN Len(format) ELSE Len(format) - 1

\* An array waits for its size.
ArrayInv ==
    /\ array # 0 => array = Len(format)
    /\ Len(format) # 0 => (array # 0 <=> format[Len(format)] = "a")

\* What is listed is right, from the last letter to the first.
ListInv ==
    /\ Len(format) <= expected
    /\ Len(params) = Complete
    /\ \A i \in 1 .. Complete : ~Wrong(i) /\ params[Complete + 1 - i] = Value(i)

\* Create has not failed.
Going == callback \in {"creating", "created", "skipped", "pushing", "called"}

EndInv ==
    callback \in {"created", "skipped", "pushing", "called"} =>
       array = 0 /\ Len(format) = expected

\* The parameters are pushed one after the other, and the copies among them
\* are freed.
PushInv ==
    /\ Len(pushed) <= Len(params)
    /\ \A k \in 1 .. Len(pushed) : pushed[k] = params[k]
    /\ copies = {i \in 1 .. Complete - Len(pushed) : format[i] = "a"}
    /\ callback \in {"creating", "created", "skipped"} => pushed = <<>>
    /\ callback = "called" => Len(pushed) = Len(params)

\* amx_address is where the heap was, as soon as something is on it.
HeapInv ==
    /\ callback = "pushing" => IF address >= 0 THEN address = before ELSE heap = before
    /\ callback = "called" => heap = before
    /\ callback \in {"none", "creating", "created"} => address = NoAddress

NoneInv ==
    callback = "none" =>
       format = <<>> /\ array = 0 /\ params = <<>> /\ pushed = <<>> /\ copies = {}

RefusedInv == callback = "refused" => \E i \in DOMAIN format : Wrong(i)

CallbackInv ==
    /\ CallbackType /\ NoneInv /\ RefusedInv /\ HeapInv
    /\ Going => ArrayInv /\ ListInv /\ EndInv /\ PushInv

-----------------------------------------------------------------------------
(***************************************************************************)
(* Sequences.                                                              *)
(***************************************************************************)

\* std::list::push_front.
LEMMA PushFrontFacts ==
    \A list \in Seq(Param), p \in Param :
       /\ PushFront(list, p) \in Seq(Param)
       /\ Len(PushFront(list, p)) = Len(list) + 1
       /\ PushFront(list, p)[1] = p
       /\ \A k \in 1 .. Len(list) : PushFront(list, p)[k + 1] = list[k]
<1> TAKE list \in Seq(Param), p \in Param
<1> QED
    BY DEF PushFront

\* What an argument is listed as is a parameter.
LEMMA ParamType ==
    \A i, j \in Nat : /\ Cell(i) \in Param /\ String(i) \in Param /\ Reference(i) \in Param
                      /\ Array(i, j) \in Param
BY DEF Cell, String, Reference, Array, Param

LEMMA ListedType ==
    ASSUME CallbackType, NEW letter \in Letter, NEW i \in Nat
    PROVE  Listed(letter, i) \in Seq(Param)
<1>1. /\ Cell(i) \in Param /\ String(i) \in Param /\ Reference(i) \in Param
      /\ Array(array, i) \in Param
    BY ParamType DEF CallbackType
<1>2. params \in Seq(Param)
    BY DEF CallbackType
<1>3. \A p \in Param : PushFront(params, p) \in Seq(Param)
    BY <1>2, PushFrontFacts
<1>4. PushFront(PushFront(params, Array(array, i)), Cell(i)) \in Seq(Param)
    BY <1>1, <1>3, PushFrontFacts
<1> QED
    BY <1>1, <1>2, <1>3, <1>4 DEF Listed

-----------------------------------------------------------------------------
(***************************************************************************)
(* The steps.                                                              *)
(***************************************************************************)
LEMMA InitInv == CallbackInit => CallbackInv
<1> SUFFICES ASSUME CallbackInit PROVE CallbackInv
    OBVIOUS
<1> QED
    BY DEF CallbackInit, CallbackInv, CallbackType, CallbackState, NoneInv, RefusedInv,
           HeapInv, Going, NoAddress, Letter, Param

LEMMA BeginKeeps ==
    ASSUME CallbackInv, NEW length \in 0 .. MaxFormat, NEW count \in 0 .. MaxFormat,
           CreateBegin(length, count)
    PROVE  CallbackInv'
<1>1. length \in Nat
    BY FormatAssumption
<1>2. CallbackType'
    BY <1>1 DEF CallbackInv, CallbackType, CreateBegin, CallbackState
<1>3. HeapInv' /\ NoneInv' /\ RefusedInv'
    BY DEF CallbackInv, CallbackType, HeapInv, NoneInv, RefusedInv, CreateBegin
<1>4. Going' => ArrayInv' /\ ListInv' /\ EndInv' /\ PushInv'
    BY <1>1 DEF CallbackInv, NoneInv, CreateBegin, Going, ArrayInv, ListInv, EndInv,
                PushInv, Complete
<1> QED
    BY <1>2, <1>3, <1>4 DEF CallbackInv

\* What an appended letter leaves as it was.
LEMMA OldLetters ==
    ASSUME CallbackType, ArrayInv, NEW letter \in Letter, NEW isPositive \in BOOLEAN,
           Specifier(letter, isPositive)
    PROVE  /\ format' \in Seq(Letter) /\ Len(format') = Len(format) + 1
           /\ format'[Len(format) + 1] = letter
           /\ \A i \in 1 .. Len(format) : format'[i] = format[i] /\ Value(i)' = Value(i)
           /\ \A i \in 1 .. Complete : ~Wrong(i) => ~Wrong(i)'
           /\ positive' \subseteq 1 .. Len(format')
           /\ isPositive => Len(format) + 1 \in positive'
           /\ ~isPositive => Len(format) + 1 \notin positive'
<1>1. /\ format' \in Seq(Letter) /\ Len(format') = Len(format) + 1
      /\ format'[Len(format) + 1] = letter
      /\ \A i \in 1 .. Len(format) : format'[i] = format[i]
    BY DEF CallbackType, Specifier
<1>2. \A i \in 1 .. Len(format) : Value(i)' = Value(i)
    BY <1>1 DEF Value, String, Array, Reference, Cell
<1>3. /\ positive' \subseteq 1 .. Len(format')
      /\ isPositive => Len(format) + 1 \in positive'
      /\ ~isPositive => Len(format) + 1 \notin positive'
      /\ positive \subseteq positive'
    <2>1. /\ Len(format) \in Nat /\ positive \subseteq 1 .. Len(format)
          /\ Len(format) + 1 \notin positive
        BY DEF CallbackType
    <2>2. /\ isPositive => positive' = positive \union {Len(format) + 1}
          /\ ~isPositive => positive' = positive
        BY DEF Specifier
    <2>3. CASE isPositive
        <3>1. positive' = positive \union {Len(format) + 1}
            BY <2>2, <2>3
        <3>2. positive' \subseteq 1 .. Len(format')
            <4>1. SUFFICES ASSUME NEW p \in positive'
                           PROVE  p \in 1 .. Len(format) + 1
                BY <1>1
            <4>2. CASE p \in positive
                BY <2>1, <4>2
            <4>3. CASE p = Len(format) + 1
                BY <2>1, <4>3
            <4> QED
                BY <3>1, <4>2, <4>3
        <3>3. Len(format) + 1 \in positive' /\ positive \subseteq positive'
            BY <3>1
        <3> QED
            BY <2>3, <3>2, <3>3
    <2>4. CASE ~isPositive
        <3>1. positive' = positive
            BY <2>2, <2>4
        <3>2. positive' \subseteq 1 .. Len(format')
            BY <1>1, <2>1, <3>1
        <3> QED
            BY <2>1, <2>4, <3>1, <3>2
    <2> QED
        BY <2>3, <2>4
<1>4. ASSUME NEW i \in 1 .. Complete, ~Wrong(i)
      PROVE  ~Wrong(i)'
    <2>1. i \in 1 .. Len(format) /\ (format[i] = "a" => i # Len(format))
        BY DEF Complete, CallbackType, ArrayInv
    <2>2. CASE format[i] # "a"
        BY <1>1, <1>4, <2>1, <2>2 DEF Wrong
    <2>3. CASE format[i] = "a"
        <3>1. i + 1 \in 1 .. Len(format) /\ format[i + 1] \in {"d", "i"} /\ i + 1 \in positive
            BY <1>4, <2>1, <2>3 DEF Wrong, CallbackType
        <3>2. format'[i] = "a" /\ format'[i + 1] \in {"d", "i"} /\ i + 1 \in positive'
            BY <1>1, <1>3, <2>1, <2>3, <3>1
        <3>3. i # Len(format')
            BY <1>1, <2>1 DEF CallbackType
        <3> QED
            BY <3>2, <3>3 DEF Wrong
    <2> QED
        BY <2>2, <2>3
<1> QED
    BY <1>1, <1>2, <1>3, <1>4

LEMMA SpecifierKeeps ==
    ASSUME CallbackInv, NEW letter \in Letter, NEW isPositive \in BOOLEAN,
           Specifier(letter, isPositive)
    PROVE  CallbackInv'
<1>1. /\ CallbackType /\ ArrayInv /\ ListInv /\ PushInv
      /\ callback = "creating" /\ Len(format) < expected /\ pushed = <<>>
    BY DEF CallbackInv, Going, Specifier, PushInv
<1>2. PICK n \in Nat : n = Len(format)
    BY <1>1 DEF CallbackType
<1>3. PICK a \in 0 .. n : a = array
    BY <1>1, <1>2 DEF CallbackType
<1>4. /\ format' \in Seq(Letter) /\ Len(format') = n + 1 /\ format'[n + 1] = letter
      /\ \A i \in 1 .. n : format'[i] = format[i] /\ Value(i)' = Value(i)
      /\ \A i \in 1 .. Complete : ~Wrong(i) => ~Wrong(i)'
      /\ positive' \subseteq 1 .. n + 1
      /\ isPositive => n + 1 \in positive'
      /\ ~isPositive => n + 1 \notin positive'
    BY <1>1, <1>2, OldLetters
<1>5. UNCHANGED <<expected, pushed, heap, before, address>> /\ expected \in Nat
    BY <1>1 DEF Specifier, CallbackType
<1>6. /\ a # 0 => a = n /\ format[n] = "a" /\ format'[n] = "a"
      /\ Complete = IF a = 0 THEN n ELSE n - 1
    BY <1>1, <1>2, <1>3, <1>4 DEF ArrayInv, Complete
<1>7. CASE Refuses(letter, isPositive)
    <2>1. callback' = "refused" /\ UNCHANGED <<array, params, copies>>
        BY <1>7 DEF Specifier
    <2>2. CallbackType'
        BY <1>1, <1>2, <1>4, <1>5, <2>1 DEF CallbackType, CallbackState
    <2>3. \E i \in DOMAIN format' : Wrong(i)'
        <3>1. DOMAIN format' = 1 .. n + 1
            BY <1>4
        <3>2. CASE array # 0 /\ (letter \notin {"d", "i"} \/ ~isPositive)
            <4>1. n \in 1 .. n + 1 /\ format'[n] = "a" /\ n # Len(format')
                BY <1>3, <1>4, <1>6, <3>2
            <4>2. format'[n + 1] \notin {"d", "i"} \/ n + 1 \notin positive'
                BY <1>4, <3>2
            <4>3. Wrong(n)'
                BY <4>1, <4>2 DEF Wrong
            <4> QED
                BY <3>1, <4>1, <4>3
        <3>3. CASE letter \notin {"d", "i", "f", "b", "s", "a", "r"}
            <4>1. letter = "?" /\ n + 1 \in 1 .. n + 1
                BY <3>3 DEF Letter
            <4>2. Wrong(n + 1)'
                BY <1>4, <4>1 DEF Wrong
            <4> QED
                BY <3>1, <4>1, <4>2
        <3> QED
            BY <1>7, <3>2, <3>3 DEF Refuses
    <2> QED
        BY <1>1, <2>1, <2>2, <2>3, <1>5 DEF CallbackInv, NoneInv, RefusedInv, HeapInv, Going
<1>8. CASE ~Refuses(letter, isPositive)
    <2>1. /\ callback' = callback /\ params' = Listed(letter, n + 1)
          /\ array' = (IF letter = "a" THEN n + 1 ELSE 0)
          /\ copies' = (IF a # 0 THEN copies \union {n} ELSE copies)
        BY <1>2, <1>3, <1>6, <1>8 DEF Specifier
    <2>2. letter # "?" /\ (a # 0 => letter \in {"d", "i"} /\ isPositive)
        BY <1>3, <1>8 DEF Refuses, Letter
    <2>3. params' \in Seq(Param)
        BY <1>1, <1>2, <2>1, ListedType
    <2>4. CallbackType'
        BY <1>1, <1>4, <1>5, <2>1, <2>3 DEF CallbackType, CallbackState
    <2>5. ArrayInv'
        BY <1>4, <2>1 DEF ArrayInv
    <2>6. Complete' = IF letter = "a" THEN n ELSE n + 1
        BY <1>4, <2>1 DEF Complete
    <2>7. \A i \in 1 .. Complete : ~Wrong(i)' /\ params[Complete + 1 - i] = Value(i)'
        BY <1>1, <1>2, <1>4, <1>6 DEF ListInv
    <2>8. params \in Seq(Param) /\ Len(params) = Complete
        BY <1>1 DEF ListInv, CallbackType
    <2>9. /\ Len(params') = Complete'
          /\ \A i \in 1 .. Complete' : ~Wrong(i)' /\ params'[Complete' + 1 - i] = Value(i)'
        <3>1. CASE letter = "a"
            <4>1. a = 0 /\ Complete = n /\ Complete' = n /\ params' = params
                BY <1>3, <1>6, <2>1, <2>2, <2>6, <3>1 DEF Listed
            <4> QED
                BY <2>7, <2>8, <4>1
        <3>2. CASE letter # "a" /\ a # 0
            <4>1. /\ a = n /\ Complete = n - 1 /\ Complete' = n + 1
                  /\ params' = PushFront(PushFront(params, Array(n, n + 1)), Cell(n + 1))
                <5>1. a = n /\ array = n /\ array # 0 /\ letter # "a"
                    BY <1>3, <1>6, <3>2
                <5>2. params' = PushFront(PushFront(params, Array(array, n + 1)), Cell(n + 1))
                    BY <2>1, <2>2, <1>3, <5>1 DEF Listed
                <5> QED
                    BY <1>6, <2>6, <3>2, <5>1, <5>2
            <4>2. /\ Array(n, n + 1) \in Param /\ Cell(n + 1) \in Param
                BY ParamType
            <4>3. /\ PushFront(params, Array(n, n + 1)) \in Seq(Param)
                  /\ Len(PushFront(params, Array(n, n + 1))) = n
                  /\ PushFront(params, Array(n, n + 1))[1] = Array(n, n + 1)
                  /\ \A k \in 1 .. n - 1 :
                        PushFront(params, Array(n, n + 1))[k + 1] = params[k]
                <5>1. /\ PushFront(params, Array(n, n + 1)) \in Seq(Param)
                      /\ Len(PushFront(params, Array(n, n + 1))) = Len(params) + 1
                      /\ PushFront(params, Array(n, n + 1))[1] = Array(n, n + 1)
                      /\ \A k \in 1 .. Len(params) :
                            PushFront(params, Array(n, n + 1))[k + 1] = params[k]
                    BY <2>8, <4>2, PushFrontFacts, Zenon
                <5> QED
                    BY <2>8, <4>1, <5>1
            <4>4. /\ Len(params') = n + 1 /\ params'[1] = Cell(n + 1)
                  /\ \A k \in 1 .. n :
                        params'[k + 1] = PushFront(params, Array(n, n + 1))[k]
                <5> DEFINE with == PushFront(params, Array(n, n + 1))
                <5>1. /\ Len(PushFront(with, Cell(n + 1))) = Len(with) + 1
                      /\ PushFront(with, Cell(n + 1))[1] = Cell(n + 1)
                      /\ \A k \in 1 .. Len(with) :
                            PushFront(with, Cell(n + 1))[k + 1] = with[k]
                    BY <4>2, <4>3, PushFrontFacts, Zenon
                <5>2. params' = PushFront(with, Cell(n + 1)) /\ Len(with) = n
                    BY <4>1, <4>3
                <5> HIDE DEF with
                <5>3. /\ Len(params') = n + 1 /\ params'[1] = Cell(n + 1)
                      /\ \A k \in 1 .. n : params'[k + 1] = with[k]
                    BY <5>1, <5>2
                <5> QED
                    BY <5>3 DEF with
            <4>5. /\ params'[2] = Array(n, n + 1)
                  /\ \A k \in 1 .. n - 1 : params'[k + 2] = params[k]
                BY <1>3, <3>2, <4>3, <4>4
            <4>6. ~Wrong(n)' /\ Array(n, n + 1) = Value(n)'
                BY <1>4, <1>6, <2>2, <3>2 DEF Wrong, Value
            <4>7. ~Wrong(n + 1)' /\ Cell(n + 1) = Value(n + 1)'
                BY <1>4, <2>2, <3>2 DEF Wrong, Value
            <4>8. ASSUME NEW i \in 1 .. n + 1
                  PROVE  ~Wrong(i)' /\ params'[n + 2 - i] = Value(i)'
                <5>1. CASE i = n + 1
                    BY <4>4, <4>7, <5>1
                <5>2. CASE i = n
                    BY <4>5, <4>6, <5>2
                <5>3. CASE i \in 1 .. n - 1
                    <6>1. ~Wrong(i)' /\ params[n - i] = Value(i)'
                        BY <2>7, <4>1, <5>3
                    <6>2. n - i \in 1 .. n - 1 /\ n - i + 2 = n + 2 - i
                        BY <5>3
                    <6> QED
                        BY <4>5, <6>1, <6>2
                <5> QED
                    BY <5>1, <5>2, <5>3
            <4> QED
                BY <4>1, <4>4, <4>8
        <3>3. CASE letter # "a" /\ a = 0
            <4>1. /\ Complete = n /\ Complete' = n + 1
                  /\ params' = PushFront(params, Value(n + 1)')
                  /\ Value(n + 1)' \in {Cell(n + 1), String(n + 1), Reference(n + 1)}
                BY <1>3, <1>4, <1>6, <2>1, <2>6, <3>3 DEF Listed, Value
            <4>2. Value(n + 1)' \in Param
                BY <4>1, ParamType
            <4>3. /\ Len(params') = n + 1 /\ params'[1] = Value(n + 1)'
                  /\ \A k \in 1 .. n : params'[k + 1] = params[k]
                <5>1. /\ Len(PushFront(params, Value(n + 1)')) = Len(params) + 1
                      /\ PushFront(params, Value(n + 1)')[1] = Value(n + 1)'
                      /\ \A k \in 1 .. Len(params) :
                            PushFront(params, Value(n + 1)')[k + 1] = params[k]
                    BY <2>8, <4>2, PushFrontFacts, Zenon
                <5> QED
                    BY <2>8, <4>1, <5>1
            <4>4. ~Wrong(n + 1)'
                BY <1>4, <2>2, <3>3 DEF Wrong
            <4>5. ASSUME NEW i \in 1 .. n
                  PROVE  ~Wrong(i)' /\ params'[n + 2 - i] = Value(i)'
                <5>1. ~Wrong(i)' /\ params[n + 1 - i] = Value(i)'
                    BY <2>7, <4>1
                <5>2. n + 1 - i \in 1 .. n /\ n + 1 - i + 1 = n + 2 - i
                    OBVIOUS
                <5> QED
                    BY <4>3, <5>1, <5>2
            <4>6. \A i \in 1 .. n + 1 : ~Wrong(i)' /\ params'[n + 2 - i] = Value(i)'
                <5> SUFFICES ASSUME NEW i \in 1 .. n + 1
                             PROVE  ~Wrong(i)' /\ params'[n + 2 - i] = Value(i)'
                    OBVIOUS
                <5>1. CASE i = n + 1
                    <6>1. n + 2 - i = 1
                        BY <5>1
                    <6> QED
                        BY <4>3, <4>4, <5>1, <6>1
                <5>2. CASE i # n + 1
                    <6>1. i \in 1 .. n
                        BY <5>2
                    <6> QED
                        BY <4>5, <6>1
                <5> QED
                    BY <5>1, <5>2
            <4>7. \A i \in 1 .. n + 1 : n + 1 + 1 - i = n + 2 - i
                OBVIOUS
            <4> QED
                BY <4>1, <4>3, <4>6, <4>7
        <3> QED
            BY <3>1, <3>2, <3>3
    <2>10. ListInv'
        BY <1>1, <1>2, <1>4, <1>5, <2>9 DEF ListInv
    <2>11. copies' = {i \in 1 .. Complete' : format'[i] = "a"}
        <3>1. copies = {i \in 1 .. Complete : format[i] = "a"}
            BY <1>1, <1>6 DEF PushInv
        <3> QED
            BY <1>3, <1>4, <1>6, <2>1, <2>2, <2>6, <3>1
    <2>12. PushInv'
        BY <1>1, <1>5, <2>1, <2>3, <2>6, <2>11 DEF PushInv
    <2> QED
        BY <1>1, <2>1, <2>4, <2>5, <2>10, <2>12, <1>5
           DEF CallbackInv, NoneInv, RefusedInv, HeapInv, Going, EndInv
<1> QED
    BY <1>7, <1>8

\* What the letters and the parameters say stays as long as they do.
LEMMA SameList ==
    ASSUME ArrayInv, ListInv, UNCHANGED <<expected, format, positive, array, params>>
    PROVE  ArrayInv' /\ ListInv' /\ Complete' = Complete
BY DEF ArrayInv, ListInv, Complete, Wrong, Value, Cell, String, Reference, Array

LEMMA CreateEndKeeps ==
    ASSUME CallbackInv, CreateEnd
    PROVE  CallbackInv'
<1>1. /\ CallbackType /\ ArrayInv /\ ListInv /\ PushInv /\ HeapInv
      /\ callback = "creating" /\ Len(format) = expected
    BY DEF CallbackInv, Going, CreateEnd
<1>2. /\ callback' = IF array # 0 THEN "refused" ELSE "created"
      /\ UNCHANGED <<expected, format, positive, array, params, copies, pushed, heap,
                     before, address>>
    BY DEF CreateEnd
<1>3. CallbackType' /\ HeapInv' /\ NoneInv'
    BY <1>1, <1>2 DEF CallbackType, CallbackState, HeapInv, NoneInv
<1>4. CASE array # 0
    <2>1. PICK n \in DOMAIN format : n = Len(format) /\ format[n] = "a"
        BY <1>1, <1>4 DEF CallbackType, ArrayInv
    <2>2. Wrong(n)'
        BY <1>1, <1>2, <2>1 DEF Wrong
    <2> QED
        BY <1>2, <1>3, <1>4, <2>1, <2>2 DEF CallbackInv, RefusedInv, Going
<1>5. CASE array = 0
    <2>1. ArrayInv' /\ ListInv' /\ Complete' = Complete
        BY <1>1, <1>2, SameList
    <2>2. EndInv' /\ PushInv'
        BY <1>1, <1>2, <1>5, <2>1 DEF EndInv, PushInv
    <2> QED
        BY <1>2, <1>3, <1>5, <2>1, <2>2 DEF CallbackInv, RefusedInv
<1> QED
    BY <1>4, <1>5

LEMMA ExecuteInvalidKeeps ==
    ASSUME CallbackInv, ExecuteInvalid
    PROVE  CallbackInv'
<1>1. /\ CallbackType /\ ArrayInv /\ ListInv /\ PushInv /\ EndInv
      /\ callback = "created"
    BY DEF CallbackInv, Going, ExecuteInvalid
<1>2. /\ callback' = "skipped"
      /\ UNCHANGED <<expected, format, positive, array, params, copies, pushed, heap,
                     before, address>>
    BY DEF ExecuteInvalid
<1>3. CallbackType' /\ HeapInv' /\ NoneInv' /\ RefusedInv'
    BY <1>1, <1>2 DEF CallbackType, CallbackState, HeapInv, NoneInv, RefusedInv
<1>4. ArrayInv' /\ ListInv' /\ Complete' = Complete
    BY <1>1, <1>2, SameList
<1>5. EndInv' /\ PushInv'
    BY <1>1, <1>2, <1>4 DEF EndInv, PushInv
<1> QED
    BY <1>3, <1>4, <1>5 DEF CallbackInv

LEMMA ExecuteBeginKeeps ==
    ASSUME CallbackInv, NEW h \in 0 .. MaxHeap, ExecuteBegin(h)
    PROVE  CallbackInv'
<1>1. /\ CallbackType /\ ArrayInv /\ ListInv /\ PushInv /\ EndInv /\ HeapInv
      /\ callback = "created" /\ h \in Nat
    BY FormatAssumption DEF CallbackInv, Going, ExecuteBegin
<1>2. /\ callback' = "pushing" /\ heap' = h /\ before' = h
      /\ UNCHANGED <<expected, format, positive, array, params, copies, pushed, address>>
    BY DEF ExecuteBegin
<1>3. CallbackType' /\ HeapInv' /\ NoneInv' /\ RefusedInv'
    BY <1>1, <1>2 DEF CallbackType, CallbackState, HeapInv, NoneInv, RefusedInv, NoAddress
<1>4. ArrayInv' /\ ListInv' /\ Complete' = Complete
    BY <1>1, <1>2, SameList
<1>5. EndInv' /\ PushInv'
    BY <1>1, <1>2, <1>4 DEF EndInv, PushInv
<1> QED
    BY <1>3, <1>4, <1>5 DEF CallbackInv

LEMMA PushNextKeeps ==
    ASSUME CallbackInv, PushNext
    PROVE  CallbackInv'
<1>1. /\ CallbackType /\ ArrayInv /\ ListInv /\ PushInv /\ EndInv /\ HeapInv
      /\ callback = "pushing" /\ Len(pushed) < Len(params)
    BY DEF CallbackInv, Going, PushNext
<1>2. PICK k \in Nat : k = Len(pushed)
    BY <1>1 DEF CallbackType
<1>3. PICK n \in Nat : n = Len(format) /\ n = Len(params) /\ n = Complete
    BY <1>1 DEF CallbackType, EndInv, ListInv, Complete
<1>4. PICK p \in Param : p = params[k + 1]
    BY <1>1, <1>2 DEF CallbackType
<1>5. /\ pushed' = Append(pushed, p)
      /\ heap' = IF OnHeap(p) THEN heap + 1 ELSE heap
      /\ address' = AddressOfFirst(p)
      /\ copies' = IF p.spec = "a" THEN copies \ {p.arg} ELSE copies
      /\ UNCHANGED <<callback, expected, format, positive, array, params, before>>
    BY <1>2, <1>4 DEF PushNext
<1>6. ArrayInv' /\ ListInv' /\ Complete' = n
    BY <1>1, <1>3, <1>5, SameList
<1>7. /\ pushed' \in Seq(Param) /\ Len(pushed') = k + 1 /\ pushed'[k + 1] = params'[k + 1]
      /\ \A j \in 1 .. k : pushed'[j] = params'[j]
    BY <1>1, <1>2, <1>4, <1>5 DEF CallbackType, PushInv
<1>8. CallbackType' /\ HeapInv'
    <2>1. CASE OnHeap(p) /\ address < 0
        BY <1>1, <1>5, <1>7, <2>1 DEF CallbackType, HeapInv, AddressOfFirst
    <2>2. CASE OnHeap(p) /\ ~(address < 0)
        BY <1>1, <1>5, <1>7, <2>2 DEF CallbackType, HeapInv, AddressOfFirst
    <2>3. CASE ~OnHeap(p)
        BY <1>1, <1>5, <1>7, <2>3 DEF CallbackType, HeapInv, AddressOfFirst
    <2> QED
        BY <2>1, <2>2, <2>3
<1>9. copies' = {i \in 1 .. n - (k + 1) : format'[i] = "a"}
    <2>1. copies = {i \in 1 .. n - k : format[i] = "a"}
        BY <1>1, <1>2, <1>3 DEF PushInv
    <2>2. n - k \in 1 .. n /\ p = Value(n - k)
        <3>1. n - k \in 1 .. n /\ n + 1 - (n - k) = k + 1
            BY <1>1, <1>2, <1>3
        <3> QED
            BY <1>1, <1>3, <1>4, <3>1 DEF ListInv
    <2>3. CASE format[n - k] = "a"
        <3>1. p.spec = "a" /\ p.arg = n - k
            BY <2>2, <2>3 DEF Value, Array
        <3> QED
            BY <1>5, <2>1, <2>2, <3>1
    <2>4. CASE format[n - k] # "a"
        <3>1. p.spec # "a"
            BY <2>2, <2>4 DEF Value, String, Reference, Cell
        <3> QED
            BY <1>5, <2>1, <2>2, <2>4, <3>1
    <2> QED
        BY <2>3, <2>4
<1>10. PushInv'
    <2>1. ASSUME NEW j \in 1 .. k + 1
          PROVE  pushed'[j] = params'[j]
        <3>1. j \in 1 .. k \/ j = k + 1
            OBVIOUS
        <3> QED
            BY <1>7, <3>1
    <2>2. /\ Len(pushed') <= Len(params')
          /\ \A j \in 1 .. Len(pushed') : pushed'[j] = params'[j]
        <3>1. k < n /\ Len(pushed') = k + 1 /\ Len(params') = n
            BY <1>1, <1>2, <1>3, <1>5, <1>7
        <3> QED
            BY <2>1, <3>1
    <2>3. copies' = {i \in 1 .. Complete' - Len(pushed') : format'[i] = "a"}
        BY <1>6, <1>7, <1>9
    <2> QED
        BY <1>1, <1>5, <2>2, <2>3 DEF PushInv
<1> QED
    BY <1>1, <1>5, <1>6, <1>8, <1>10 DEF CallbackInv, NoneInv, RefusedInv, EndInv

LEMMA ExecuteEndKeeps ==
    ASSUME CallbackInv, ExecuteEnd
    PROVE  CallbackInv'
<1>1. /\ CallbackType /\ ArrayInv /\ ListInv /\ PushInv /\ EndInv /\ HeapInv
      /\ callback = "pushing" /\ Len(pushed) = Len(params)
    BY DEF CallbackInv, Going, ExecuteEnd
<1>2. /\ callback' = "called" /\ heap' = IF address >= 0 THEN address ELSE heap
      /\ UNCHANGED <<expected, format, positive, array, params, copies, pushed, before,
                     address>>
    BY DEF ExecuteEnd
<1>3. CallbackType' /\ HeapInv' /\ NoneInv' /\ RefusedInv'
    BY <1>1, <1>2 DEF CallbackType, CallbackState, HeapInv, NoneInv, RefusedInv
<1>4. ArrayInv' /\ ListInv' /\ Complete' = Complete
    BY <1>1, <1>2, SameList
<1>5. EndInv' /\ PushInv'
    BY <1>1, <1>2, <1>4 DEF EndInv, PushInv
<1> QED
    BY <1>3, <1>4, <1>5 DEF CallbackInv

-----------------------------------------------------------------------------
(***************************************************************************)
(* The theorem.                                                            *)
(***************************************************************************)
LEMMA StepKeeps == CallbackInv /\ [CallbackNext]_callbackVars => CallbackInv'
<1> SUFFICES ASSUME CallbackInv, [CallbackNext]_callbackVars
             PROVE  CallbackInv'
    OBVIOUS
<1>1. CASE UNCHANGED callbackVars
    <2>1. UNCHANGED <<callback, expected, format, positive, array, params, copies, pushed,
                      heap, before, address>>
        BY <1>1 DEF callbackVars
    <2>2. CallbackType' /\ NoneInv' /\ HeapInv' /\ RefusedInv' /\ (Going' <=> Going)
        BY <2>1 DEF CallbackInv, CallbackType, NoneInv, RefusedInv, HeapInv, Wrong, Going
    <2>3. CASE Going
        <3>1. ArrayInv' /\ ListInv' /\ Complete' = Complete
            BY <2>1, <2>3, SameList DEF CallbackInv
        <3> QED
            BY <2>1, <2>2, <2>3, <3>1 DEF CallbackInv, EndInv, PushInv
    <2>4. CASE ~Going
        BY <2>2, <2>4 DEF CallbackInv
    <2> QED
        BY <2>3, <2>4
<1>2. ASSUME NEW length \in 0 .. MaxFormat, NEW count \in 0 .. MaxFormat,
             CreateBegin(length, count)
      PROVE  CallbackInv'
    BY <1>2, BeginKeeps
<1>3. ASSUME NEW letter \in Letter, NEW isPositive \in BOOLEAN,
             Specifier(letter, isPositive)
      PROVE  CallbackInv'
    BY <1>3, SpecifierKeeps
<1>4. ASSUME NEW h \in 0 .. MaxHeap, ExecuteBegin(h)
      PROVE  CallbackInv'
    BY <1>4, ExecuteBeginKeeps
<1> QED
    BY <1>1, <1>2, <1>3, <1>4, CreateEndKeeps, ExecuteInvalidKeeps, PushNextKeeps,
       ExecuteEndKeeps DEF CallbackNext

\* What the invariant says of a callback that has been called.
LEMMA InvImplies == CallbackInv => PublicGetsItsArguments
<1> SUFFICES ASSUME CallbackInv PROVE PublicGetsItsArguments
    OBVIOUS
<1>1. CASE callback \in {"created", "called"}
    <2>1. /\ CallbackType /\ ListInv /\ PushInv /\ array = 0 /\ Len(format) = expected
          /\ Complete = expected /\ Len(params) = expected
        BY <1>1 DEF CallbackInv, Going, EndInv, ListInv, Complete
    <2>2. \A i \in 1 .. expected : ~Wrong(i) /\ params[expected + 1 - i] = Value(i)
        BY <2>1 DEF ListInv
    <2>3. ASSUME callback = "called"
          PROVE  /\ Len(pushed) = expected /\ copies = {} /\ heap = before
                 /\ \A i \in 1 .. expected : pushed[expected + 1 - i] = Value(i)
        <3>1. Len(pushed) = expected /\ heap = before /\ expected \in Nat
            BY <2>1, <2>3 DEF PushInv, CallbackInv, HeapInv, CallbackType
        <3>2. copies = {}
            BY <2>1, <3>1 DEF PushInv
        <3>3. ASSUME NEW i \in 1 .. expected
              PROVE  pushed[expected + 1 - i] = Value(i)
            <4>1. expected + 1 - i \in 1 .. expected
                BY <3>1
            <4> QED
                BY <2>1, <2>2, <3>1, <4>1 DEF PushInv
        <3> QED
            BY <3>1, <3>2, <3>3
    <2> QED
        BY <1>1, <2>2, <2>3 DEF PublicGetsItsArguments
<1>2. CASE callback \notin {"created", "called"}
    BY <1>2 DEF CallbackInv, RefusedInv, PublicGetsItsArguments
<1> QED
    BY <1>1, <1>2

\* A public gets what the native was given, for a format of any length and an
\* AMX with any heap: PublicGetsItsArguments.
THEOREM ArgumentsCorrect == CallbackSpec => []PublicGetsItsArguments
<1>1. CallbackSpec => []CallbackInv
    BY InitInv, StepKeeps, PTL DEF CallbackSpec
<1> QED
    BY <1>1, InvImplies, PTL

-----------------------------------------------------------------------------
(***************************************************************************)
(* Places and comments in a text.                                          *)
(***************************************************************************)
Chars == Seq(Char)

LEMMA TextFacts ==
    ASSUME NEW s \in Chars
    PROVE  /\ Len(s) \in Nat /\ DOMAIN s = 1 .. Len(s)
           /\ \A i \in 1 .. Len(s) : s[i] \in Char
BY DEF Chars

\* At i there are two dashes and a space.
IsDashes(s, i) == s[i] = "-" /\ s[i + 1] = "-" /\ s[i + 2] = " "

LEMMA DashesAt ==
    ASSUME NEW s \in Chars, NEW i
    PROVE  i \in Dashes(s) <=> i \in 1 .. Len(s) - 2 /\ IsDashes(s, i)
<1>0. SUFFICES ASSUME i \in 1 .. Len(s) - 2
               PROVE  SubSeq(s, i, i + 2) = <<"-", "-", " ">> <=>
                         s[i] = "-" /\ s[i + 1] = "-" /\ s[i + 2] = " "
  BY DEF Dashes, IsDashes
<1>1. Len(s) \in Nat /\ i \in Nat /\ i + 2 \in Nat
      /\ i \in 1 .. Len(s) /\ i + 1 \in 1 .. Len(s) /\ i + 2 \in 1 .. Len(s)
  BY <1>0, TextFacts
<1>2. \A j \in i .. i + 2 : s[j] \in Char
  BY <1>1, TextFacts
<1> DEFINE t == SubSeq(s, i, i + 2)
           d == <<"-", "-", " ">>
<1>3. t \in Seq(Char) /\ Len(t) = 3 /\ t[1] = s[i] /\ t[2] = s[i + 1] /\ t[3] = s[i + 2]
  <2>1. PICK n \in Nat : n = i + 2
    BY <1>1
  <2>2. \A j \in i .. n : s[j] \in Char
    BY <1>2, <2>1
  <2>3. /\ SubSeq(s, i, n) \in Seq(Char)
        /\ Len(SubSeq(s, i, n)) = IF i <= n THEN n - i + 1 ELSE 0
        /\ \A j \in 1 .. n - i + 1 : SubSeq(s, i, n)[j] = s[i + j - 1]
    BY <1>1, <2>2, SubSeqProperties
  <2>4. t = SubSeq(s, i, n)
    BY <2>1
  <2>5. i <= n /\ n - i + 1 = 3 /\ i + 1 - 1 = i /\ i + 2 - 1 = i + 1 /\ i + 3 - 1 = i + 2
    BY <1>1, <2>1
  <2> HIDE DEF t
  <2>6. t \in Seq(Char) /\ Len(t) = 3
    BY <2>3, <2>4, <2>5
  <2>7. \A j \in 1 .. 3 : t[j] = s[i + j - 1]
    BY <2>3, <2>4, <2>5
  <2>8. t[1] = s[i + 1 - 1] /\ t[2] = s[i + 2 - 1] /\ t[3] = s[i + 3 - 1]
    BY <2>7
  <2> QED
    BY <2>5, <2>6, <2>8
<1>4. d \in Seq(Char) /\ Len(d) = 3 /\ d[1] = "-" /\ d[2] = "-" /\ d[3] = " "
  BY DEF Char
<1> HIDE DEF t, d
<1>5. ASSUME s[i] = "-", s[i + 1] = "-", s[i + 2] = " " PROVE t = d
  <2>1. \A j \in 1 .. 3 : t[j] = d[j]
    <3>1. \A j \in 1 .. 3 : j = 1 \/ j = 2 \/ j = 3
      OBVIOUS
    <3> QED
      BY <1>3, <1>4, <1>5, <3>1
  <2> QED
    BY <1>3, <1>4, <2>1, SeqEqual
<1>6. t = d => s[i] = "-" /\ s[i + 1] = "-" /\ s[i + 2] = " "
  BY <1>3, <1>4
<1> QED
  BY <1>5, <1>6 DEF t, d

LEMMA JoinFacts ==
    ASSUME NEW s \in Chars, NEW t \in Chars
    PROVE  /\ s \o t \in Chars /\ Len(s \o t) = Len(s) + Len(t)
           /\ \A i \in 1 .. Len(s) + Len(t) :
                 (s \o t)[i] = IF i <= Len(s) THEN s[i] ELSE t[i - Len(s)]
BY ConcatProperties DEF Chars

\* Where two texts that are joined have a character.
LEMMA PlacesMoved ==
    ASSUME NEW s \in Chars, NEW t \in Chars, NEW c
    PROVE  Places(s \o t, c) = Places(s, c) \union {i + Len(s) : i \in Places(t, c)}
<1>1. /\ s \o t \in Chars /\ Len(s \o t) = Len(s) + Len(t)
      /\ \A i \in 1 .. Len(s) + Len(t) :
            (s \o t)[i] = IF i <= Len(s) THEN s[i] ELSE t[i - Len(s)]
  BY JoinFacts
<1>2. /\ Len(s) \in Nat /\ DOMAIN s = 1 .. Len(s)
      /\ Len(t) \in Nat /\ DOMAIN t = 1 .. Len(t)
      /\ DOMAIN (s \o t) = 1 .. Len(s) + Len(t)
  BY <1>1, TextFacts
<1>3. ASSUME NEW i \in Places(s, c) PROVE i \in Places(s \o t, c)
  BY <1>1, <1>2, <1>3 DEF Places
<1>4. ASSUME NEW i \in Places(t, c) PROVE i + Len(s) \in Places(s \o t, c)
  <2>1. /\ i \in 1 .. Len(t) /\ t[i] = c /\ i + Len(s) \in 1 .. Len(s) + Len(t)
        /\ ~(i + Len(s) <= Len(s)) /\ i + Len(s) - Len(s) = i
    BY <1>2, <1>4 DEF Places
  <2> QED
    BY <1>1, <1>2, <2>1 DEF Places
<1>5. ASSUME NEW i \in Places(s \o t, c)
      PROVE  i \in Places(s, c) \/ \E j \in Places(t, c) : i = j + Len(s)
  <2>1. i \in 1 .. Len(s) + Len(t) /\ (s \o t)[i] = c
    BY <1>2, <1>5 DEF Places
  <2>2. i <= Len(s) \/ (i - Len(s) \in 1 .. Len(t) /\ i = i - Len(s) + Len(s))
    BY <1>2, <2>1
  <2>3. i <= Len(s) \/ i - Len(s) \in Places(t, c)
    BY <1>1, <1>2, <2>1, <2>2 DEF Places
  <2> QED
    BY <1>1, <1>2, <2>1, <2>2, <2>3 DEF Places
<1> QED
  BY <1>3, <1>4, <1>5

\* What is in neither part is not in the whole, and what is not in the whole is
\* in neither part.
LEMMA PlacesJoin ==
    ASSUME NEW s \in Chars, NEW t \in Chars, NEW c
    PROVE  Places(s \o t, c) = {} <=> Places(s, c) = {} /\ Places(t, c) = {}
<1>1. Places(s \o t, c) = Places(s, c) \union {i + Len(s) : i \in Places(t, c)}
  BY PlacesMoved
<1>2. \A j \in Places(t, c) : j + Len(s) \in Places(s \o t, c)
  BY <1>1
<1> QED
  BY <1>1, <1>2

LEMMA DashesMoved ==
    ASSUME NEW s, NEW t, NEW i, NEW j,
           s[i] = t[j], s[i + 1] = t[j + 1], s[i + 2] = t[j + 2]
    PROVE  IsDashes(s, i) <=> IsDashes(t, j)
BY DEF IsDashes

\* Two texts, and what is where in the whole.
LEMMA JoinedAt ==
    ASSUME NEW s \in Chars, NEW t \in Chars
    PROVE  /\ \A i : i \in Dashes(s \o t) <=>
                       i \in 1 .. Len(s) + Len(t) - 2 /\ IsDashes(s \o t, i)
           /\ \A i \in 1 .. Len(s) - 2 : IsDashes(s \o t, i) <=> IsDashes(s, i)
           /\ \A i \in 1 .. Len(t) - 2 : IsDashes(s \o t, i + Len(s)) <=> IsDashes(t, i)
<1> DEFINE st == s \o t
           m == Len(s)
           n == Len(t)
<1>0. m \in Nat /\ n \in Nat
  BY TextFacts
<1>1. st \in Chars /\ Len(st) = m + n
  BY JoinFacts
<1>2. \A i \in 1 .. m + n : st[i] = IF i <= m THEN s[i] ELSE t[i - m]
  BY JoinFacts
<1> HIDE DEF st, m, n
<1>3. \A i : i \in Dashes(st) <=> i \in 1 .. m + n - 2 /\ IsDashes(st, i)
  <2>1. \A i : i \in Dashes(st) <=> i \in 1 .. Len(st) - 2 /\ IsDashes(st, i)
    BY <1>1, DashesAt
  <2>2. PICK k \in Nat : k = m + n
    BY <1>0
  <2>3. Len(st) = k
    BY <1>1, <2>2
  <2>4. k - 2 = m + n - 2
    BY <1>0, <2>2
  <2>5. \A i : i \in Dashes(st) <=> i \in 1 .. k - 2 /\ IsDashes(st, i)
    BY <2>1, <2>3
  <2> QED
    BY <2>4, <2>5
<1>4. ASSUME NEW i \in 1 .. m - 2 PROVE IsDashes(st, i) <=> IsDashes(s, i)
  <2>1. /\ i \in 1 .. m + n /\ i + 1 \in 1 .. m + n /\ i + 2 \in 1 .. m + n
        /\ i <= m /\ i + 1 <= m /\ i + 2 <= m
    BY <1>0
  <2>2. st[i] = s[i] /\ st[i + 1] = s[i + 1] /\ st[i + 2] = s[i + 2]
    BY <1>2, <2>1
  <2> QED
    BY <2>2, DashesMoved
<1>5. ASSUME NEW i \in 1 .. n - 2 PROVE IsDashes(st, i + m) <=> IsDashes(t, i)
  <2>1. PICK j \in Nat : j = i + m
    BY <1>0
  <2>2. /\ j \in 1 .. m + n /\ j + 1 \in 1 .. m + n /\ j + 2 \in 1 .. m + n
        /\ ~(j <= m) /\ ~(j + 1 <= m) /\ ~(j + 2 <= m)
        /\ j - m = i /\ j + 1 - m = i + 1 /\ j + 2 - m = i + 2
    BY <1>0, <2>1
  <2>3. \A x \in 1 .. m + n : ~(x <= m) => st[x] = t[x - m]
    BY <1>2
  <2>4. st[j] = t[j - m] /\ st[j + 1] = t[j + 1 - m] /\ st[j + 2] = t[j + 2 - m]
    <3>1. PICK x \in 1 .. m + n : x = j + 1
      BY <2>2
    <3>2. PICK y \in 1 .. m + n : y = j + 2
      BY <2>2
    <3>3. st[x] = t[x - m] /\ st[y] = t[y - m] /\ st[j] = t[j - m]
      BY <2>2, <2>3, <3>1, <3>2
    <3>4. x - m = j + 1 - m /\ y - m = j + 2 - m
      BY <1>0, <3>1, <3>2
    <3> QED
      BY <3>1, <3>2, <3>3, <3>4
  <2>5. st[j] = t[i] /\ st[j + 1] = t[i + 1] /\ st[j + 2] = t[i + 2]
    BY <2>2, <2>4
  <2> QED
    BY <2>1, <2>5, DashesMoved
<1> QED
  BY <1>3, <1>4, <1>5 DEF st, m, n

\* A part has the dashes that are in it.
LEMMA DashesJoin ==
    ASSUME NEW s \in Chars, NEW t \in Chars, Dashes(s) # {} \/ Dashes(t) # {}
    PROVE  Dashes(s \o t) # {}
<1>0. Len(s) \in Nat /\ Len(t) \in Nat
  BY TextFacts
<1>1. ASSUME NEW i \in Dashes(s) PROVE i \in Dashes(s \o t)
  <2>1. i \in 1 .. Len(s) - 2 /\ IsDashes(s, i)
    BY DashesAt
  <2>2. i \in 1 .. Len(s) + Len(t) - 2
    BY <1>0, <2>1
  <2> QED
    BY <2>1, <2>2, JoinedAt
<1>2. ASSUME NEW i \in Dashes(t) PROVE i + Len(s) \in Dashes(s \o t)
  <2>1. i \in 1 .. Len(t) - 2 /\ IsDashes(t, i)
    BY DashesAt
  <2>2. i + Len(s) \in 1 .. Len(s) + Len(t) - 2
    BY <1>0, <2>1
  <2> QED
    BY <2>1, <2>2, JoinedAt
<1> QED
  BY <1>1, <1>2

\* Dashes do not reach over the end of a line, which is a space.
EndsInSpace(s) == s = <<>> \/ s[Len(s)] = " "

\* Two texts that end in a space make one that does.
LEMMA SpaceJoin ==
    ASSUME NEW s \in Chars, NEW t \in Chars, EndsInSpace(s), EndsInSpace(t)
    PROVE  EndsInSpace(s \o t)
<1>1. CASE t = <<>>
  <2>1. s \o <<>> = s
    BY ConcatEmptySeq DEF Chars
  <2> QED
    BY <1>1, <2>1
<1>2. CASE t # <<>>
  <2> DEFINE n == Len(t)
             m == Len(s)
  <2>1. n \in Nat /\ n # 0 /\ m \in Nat
    BY <1>2, EmptySeq, TextFacts DEF Chars
  <2>2. Len(s \o t) = m + n
    BY JoinFacts
  <2>3. \A i \in 1 .. m + n : (s \o t)[i] = IF i <= m THEN s[i] ELSE t[i - m]
    BY JoinFacts
  <2>4. t[n] = " "
    BY <1>2 DEF EndsInSpace
  <2> HIDE DEF m, n
  <2>5. PICK k \in 1 .. m + n : k = m + n /\ ~(k <= m) /\ k - m = n
    BY <2>1
  <2>6. (s \o t)[k] = t[k - m]
    BY <2>3, <2>5
  <2>7. (s \o t)[Len(s \o t)] = " "
    BY <2>2, <2>4, <2>5, <2>6
  <2> QED
    BY <2>7 DEF EndsInSpace
<1> QED
  BY <1>1, <1>2

LEMMA DashesApart ==
    ASSUME NEW s \in Chars, NEW t \in Chars, EndsInSpace(s), Dashes(s \o t) # {}
    PROVE  Dashes(s) # {} \/ Dashes(t) # {}
<1> DEFINE m == Len(s)
           n == Len(t)
<1>0. m \in Nat /\ n \in Nat
  BY TextFacts
<1>1. PICK i : i \in Dashes(s \o t)
  OBVIOUS
<1>2. i \in 1 .. m + n - 2 /\ IsDashes(s \o t, i)
  BY <1>1, JoinedAt
<1>3. i \in 1 .. m + n - 2
  BY <1>2
<1>4. /\ \A j : j \in Dashes(s) <=> j \in 1 .. m - 2 /\ IsDashes(s, j)
      /\ \A j : j \in Dashes(t) <=> j \in 1 .. n - 2 /\ IsDashes(t, j)
  BY DashesAt
<1>5. /\ \A j \in 1 .. m - 2 : IsDashes(s \o t, j) <=> IsDashes(s, j)
      /\ \A j \in 1 .. n - 2 : IsDashes(s \o t, j + m) <=> IsDashes(t, j)
  BY JoinedAt
<1>6. m # 0 => s[m] = " "
  BY EmptySeq DEF EndsInSpace, Chars
<1>7. \A j \in 1 .. m + n : (s \o t)[j] = IF j <= m THEN s[j] ELSE t[j - m]
  BY JoinFacts
<1> HIDE DEF m, n
<1>8. CASE i <= m - 2
  <2>1. i \in 1 .. m - 2
    BY <1>0, <1>3, <1>8
  <2> QED
    BY <1>2, <1>4, <1>5, <2>1
<1>9. CASE ~(i <= m - 2) /\ i <= m
  <2>1. (m = i \/ m = i + 1) /\ m \in 1 .. m + n /\ m <= m /\ m # 0
    BY <1>0, <1>3, <1>9
  <2>2. (s \o t)[m] = " "
    BY <1>6, <1>7, <2>1
  <2>3. (s \o t)[i] # " " /\ (s \o t)[i + 1] # " "
    BY <1>2 DEF IsDashes
  <2> QED
    BY <2>1, <2>2, <2>3
<1>10. CASE ~(i <= m)
  <2>1. PICK j \in Nat : j = i - m
    BY <1>0, <1>3, <1>10
  <2>2. j \in 1 .. n - 2 /\ j + m = i
    BY <1>0, <1>3, <1>10, <2>1
  <2> QED
    BY <1>2, <1>4, <1>5, <2>2
<1> QED
  BY <1>0, <1>3, <1>8, <1>9, <1>10

LEMMA WithoutCommentFacts ==
    ASSUME NEW line \in Chars
    PROVE  /\ WithoutComment(line) \in Chars
           /\ Places(WithoutComment(line), "#") = {} /\ Dashes(WithoutComment(line)) = {}
<1> DEFINE starts == Dashes(line) \union Places(line, "#")
           n == Len(line)
<1>0. n \in Nat /\ DOMAIN line = 1 .. n /\ \A i \in 1 .. n : line[i] \in Char
  BY TextFacts
<1>1. CASE starts = {}
  BY <1>1 DEF WithoutComment
<1>2. CASE starts # {}
  <2> DEFINE m == Min(starts)
             left == SubSeq(line, 1, m - 1)
  <2>1. \A i \in Dashes(line) : i \in 1 .. n - 2
    BY DEF Dashes
  <2>2. \A i \in Places(line, "#") : i \in 1 .. n
    BY <1>0 DEF Places
  <2>3. starts \in SUBSET Nat /\ \A i \in starts : i \in 1 .. n
    BY <1>0, <2>1, <2>2
  <2>4. m \in starts /\ \A i \in starts : m <= i
    <3> HIDE DEF starts
    <3> QED
      BY <1>2, <2>3, MinFacts
  <2>5. m \in 1 .. n
    BY <2>3, <2>4
  <2> HIDE DEF m, n
  <2>6. /\ left \in Chars /\ Len(left) = m - 1
        /\ \A i \in 1 .. m - 1 : left[i] = line[i]
    <3>1. PICK k \in Nat : k = m - 1
      BY <2>5
    <3>2. k <= n
      BY <1>0, <2>5, <3>1
    <3>3. \A i \in 1 .. k : line[i] \in Char
      BY <1>0, <3>2
    <3>4. /\ SubSeq(line, 1, k) \in Seq(Char)
          /\ Len(SubSeq(line, 1, k)) = IF 1 <= k THEN k - 1 + 1 ELSE 0
          /\ \A i \in 1 .. k - 1 + 1 : SubSeq(line, 1, k)[i] = line[1 + i - 1]
      BY <3>3, SubSeqProperties
    <3> QED
      BY <3>1, <3>4 DEF Chars
  <2>7. WithoutComment(line) = left
    BY <1>2 DEF WithoutComment, m
  <2>8. DOMAIN left = 1 .. m - 1
    BY <2>6, TextFacts
  <2> HIDE DEF left
  <2>9. ASSUME NEW i \in Places(left, "#") PROVE FALSE
    <3>1. i \in 1 .. m - 1 /\ left[i] = "#"
      BY <2>8 DEF Places
    <3>2. i \in 1 .. n /\ ~(m <= i)
      BY <1>0, <2>5, <3>1
    <3>3. line[i] = "#"
      BY <2>6, <3>1
    <3>4. i \in Places(line, "#")
      BY <1>0, <3>2, <3>3 DEF Places
    <3> QED
      BY <2>4, <3>2, <3>4
  <2>10. ASSUME NEW i \in Dashes(left) PROVE FALSE
    <3>1. i \in 1 .. Len(left) - 2 /\ IsDashes(left, i)
      BY <2>6, DashesAt
    <3>2. i \in 1 .. m - 1 - 2
      BY <2>5, <2>6, <3>1
    <3>3. /\ i \in 1 .. n - 2 /\ ~(m <= i)
          /\ i \in 1 .. m - 1 /\ i + 1 \in 1 .. m - 1 /\ i + 2 \in 1 .. m - 1
      BY <1>0, <2>5, <3>2
    <3>4. left[i] = line[i] /\ left[i + 1] = line[i + 1] /\ left[i + 2] = line[i + 2]
      BY <2>6, <3>3
    <3>5. IsDashes(line, i)
      BY <3>1, <3>4, DashesMoved
    <3>6. i \in Dashes(line)
      BY <3>3, <3>5, DashesAt DEF n
    <3> QED
      BY <2>4, <3>3, <3>6
  <2> QED
    BY <2>6, <2>7, <2>9, <2>10
<1> QED
  BY <1>1, <1>2

LEMMA EndsInDashes ==
    ASSUME NEW s \in Chars, NEW n \in Nat, Len(s) = n + 2,
           s[n + 1] = "-", s[n + 2] = "-"
    PROVE  IsSuffix(<<"-", "-">>, s)
<1> DEFINE d == <<"-", "-">>
           a == Reverse(d)
           b == Reverse(s)
<1>1. /\ a = [i \in 1 .. 2 |-> d[(2 - i) + 1]]
      /\ b = [i \in 1 .. n + 2 |-> s[(n + 2 - i) + 1]]
  BY DEF Reverse
<1>2. a \in Seq(Char) /\ Len(a) = 2 /\ a[1] = "-" /\ a[2] = "-"
  <2>1. \A i \in 1 .. 2 : (2 - i) + 1 \in 1 .. 2
    OBVIOUS
  <2>2. \A i \in 1 .. 2 : d[i] = "-"
    OBVIOUS
  <2> HIDE DEF d
  <2>3. \A i \in 1 .. 2 : a[i] = "-"
    BY <1>1, <2>1, <2>2
  <2>4. "-" \in Char
    BY DEF Char
  <2>5. a = [i \in 1 .. 2 |-> a[i]]
    BY <1>1
  <2>6. a \in [1 .. 2 -> Char]
    BY <2>3, <2>4, <2>5
  <2>7. a \in Seq(Char) /\ Len(a) = 2
    <3>1. PICK k \in Nat : k = 2
      OBVIOUS
    <3>2. a \in [1 .. k -> Char]
      BY <2>6, <3>1
    <3> HIDE DEF a
    <3>3. a \in Seq(Char) /\ Len(a) = k
      BY <3>2
    <3> QED
      BY <3>1, <3>3
  <2>8. a[1] = "-" /\ a[2] = "-"
    BY <2>3
  <2> QED
    BY <2>7, <2>8
<1>3. \A i \in 1 .. n + 2 : s[i] \in Char
  BY TextFacts
<1>4. b \in Seq(Char) /\ Len(b) = n + 2 /\ b[1] = "-" /\ b[2] = "-"
  <2>1. \A i \in 1 .. n + 2 : (n + 2 - i) + 1 \in 1 .. n + 2
    OBVIOUS
  <2>2. b \in [1 .. n + 2 -> Char]
    BY <1>1, <1>3, <2>1
  <2>3. (n + 2 - 1) + 1 = n + 2 /\ (n + 2 - 2) + 1 = n + 1 /\ 1 \in 1 .. n + 2 /\ 2 \in 1 .. n + 2
    OBVIOUS
  <2>4. b[1] = s[n + 2] /\ b[2] = s[n + 1]
    BY <1>1, <2>3
  <2> QED
    BY <2>2, <2>4
<1> HIDE DEF d, a, b
<1>5. SubSeq(a, 1, 2) \in Seq(Char) /\ SubSeq(b, 1, 2) \in Seq(Char)
      /\ Len(SubSeq(a, 1, 2)) = 2 /\ Len(SubSeq(b, 1, 2)) = 2
      /\ \A i \in 1 .. 2 : SubSeq(a, 1, 2)[i] = a[i] /\ SubSeq(b, 1, 2)[i] = b[i]
  BY <1>2, <1>4
<1>6. \A i \in 1 .. 2 : a[i] = b[i]
  <2>1. \A i \in 1 .. 2 : i = 1 \/ i = 2
    OBVIOUS
  <2> QED
    BY <1>2, <1>4, <2>1
<1>7. SubSeq(a, 1, 2) = SubSeq(b, 1, 2)
  BY <1>5, <1>6, SeqEqual
<1>8. Len(a) <= Len(b)
  BY <1>2, <1>4
<1>9. IsPrefix(a, b)
  BY <1>2, <1>7, <1>8 DEF IsPrefix
<1> QED
  BY <1>9 DEF IsSuffix, a, b, d

\* tmp_query_str, when a line has been read.
LEMMA LineFacts ==
    ASSUME NEW left \in Chars, Places(left, "#") = {}, Dashes(left) = {}
    PROVE  /\ Append(left, " ") \in Chars /\ EndsInSpace(Append(left, " "))
           /\ Places(Append(left, " "), "#") = {}
           /\ Dashes(Append(left, " ")) # {} => IsSuffix(<<"-", "-">>, left)
<1> DEFINE n == Len(left)
           s == Append(left, " ")
<1>1. /\ s \in Chars /\ Len(s) = n + 1 /\ s[n + 1] = " "
      /\ \A i \in 1 .. n : s[i] = left[i]
  <2>1. PICK space \in Char : space = " "
    BY DEF Char
  <2> DEFINE t == Append(left, space)
  <2>2. /\ t \in Seq(Char) /\ Len(t) = n + 1 /\ t[n + 1] = space
        /\ \A i \in 1 .. n : t[i] = left[i]
    BY AppendProperties DEF Chars
  <2>3. s = t
    BY <2>1
  <2> HIDE DEF s, t, n
  <2> QED
    BY <2>1, <2>2, <2>3 DEF Chars
<1>2. n \in Nat /\ DOMAIN left = 1 .. n
  BY TextFacts
<1> HIDE DEF s, n
<1>3. DOMAIN s = 1 .. n + 1
  BY <1>1, TextFacts
<1>4. Places(s, "#") = {}
  <2>1. ASSUME NEW i \in Places(s, "#") PROVE i \in Places(left, "#")
    <3>1. i \in 1 .. n + 1 /\ s[i] = "#"
      BY <1>3 DEF Places
    <3>2. i # n + 1
      BY <1>1, <3>1
    <3>3. i \in 1 .. n
      BY <1>2, <3>1, <3>2
    <3> QED
      BY <1>1, <1>2, <3>1, <3>3 DEF Places
  <2> QED
    BY <2>1
<1>5. ASSUME NEW i \in Dashes(s) PROVE IsSuffix(<<"-", "-">>, left)
  <2>1. i \in 1 .. Len(s) - 2 /\ IsDashes(s, i)
    BY <1>1, DashesAt
  <2>2. i \in 1 .. n + 1 - 2
    <3>1. i \in 1 .. Len(s) - 2
      BY <2>1
    <3>2. Len(s) = n + 1
      BY <1>1
    <3>3. n + 1 \in Nat /\ n + 1 - 2 = (n + 1) - 2
      BY <1>2
    <3> QED
      BY <1>2, <3>1, <3>2, <3>3
  <2>3. CASE i \in 1 .. n - 2
    <3>1. i \in 1 .. n /\ i + 1 \in 1 .. n /\ i + 2 \in 1 .. n
      BY <1>2, <2>3
    <3>2. s[i] = left[i] /\ s[i + 1] = left[i + 1] /\ s[i + 2] = left[i + 2]
      BY <1>1, <3>1
    <3>3. IsDashes(left, i)
      BY <2>1, <3>2, DashesMoved
    <3>4. i \in Dashes(left)
      BY <2>3, <3>3, DashesAt DEF n
    <3> QED
      BY <3>4
  <2>4. CASE i \notin 1 .. n - 2
    <3>1. PICK m \in Nat : n = m + 2 /\ i = m + 1
      <4>1. n - 2 \in Nat /\ n = n - 2 + 2 /\ i = n - 2 + 1
        BY <1>2, <2>2, <2>4
      <4> QED
        BY <4>1
    <3>2. s[m + 1] = left[m + 1] /\ s[m + 2] = left[m + 2]
      <4>1. m + 1 \in 1 .. n /\ m + 2 \in 1 .. n
        BY <3>1
      <4> QED
        BY <1>1, <4>1
    <3>3. s[m + 1] = "-" /\ s[m + 2] = "-"
      <4>1. s[i] = "-" /\ s[i + 1] = "-"
        BY <2>1 DEF IsDashes
      <4>2. i + 1 = m + 2 /\ i = m + 1
        BY <3>1
      <4> QED
        BY <4>1, <4>2
    <3>4. Len(left) = m + 2
      BY <3>1 DEF n
    <3> QED
      BY <3>2, <3>3, <3>4, EndsInDashes
  <2> QED
    BY <2>3, <2>4
<1>6. EndsInSpace(s)
  BY <1>1 DEF EndsInSpace
<1> QED
  BY <1>1, <1>4, <1>5, <1>6 DEF s

\* A text, cut behind its place n.
LEMMA CutFacts ==
    ASSUME NEW s \in Chars, NEW n \in 1 .. Len(s)
    PROVE  LET head == SubSeq(s, 1, n)
               tail == SubSeq(s, n + 1, Len(s))
           IN  /\ head \in Chars /\ tail \in Chars /\ head \o tail = s
               /\ Len(head) = n /\ \A i \in 1 .. n : head[i] = s[i]
               /\ EndsInSpace(s) => EndsInSpace(tail)
<1> DEFINE l == Len(s)
           head == SubSeq(s, 1, n)
           tail == SubSeq(s, n + 1, l)
<1>0. l \in Nat /\ n \in Nat /\ n <= l /\ 1 <= n
  BY TextFacts
<1>1. \A i \in 1 .. l : s[i] \in Char
  BY TextFacts
<1>2. /\ head \in Seq(Char) /\ Len(head) = n
      /\ \A i \in 1 .. n : head[i] = s[i]
  <2>1. \A i \in 1 .. n : s[i] \in Char
    BY <1>0, <1>1
  <2>2. /\ head \in Seq(Char)
        /\ Len(head) = IF 1 <= n THEN n - 1 + 1 ELSE 0
        /\ \A i \in 1 .. n - 1 + 1 : head[i] = s[1 + i - 1]
    BY <1>0, <2>1, SubSeqProperties
  <2> HIDE DEF head
  <2> QED
    BY <1>0, <2>2
<1>3. PICK m \in Nat : m = n + 1
  BY <1>0
<1>4. /\ tail \in Seq(Char)
      /\ Len(tail) = IF m <= l THEN l - m + 1 ELSE 0
      /\ \A i \in 1 .. l - m + 1 : tail[i] = s[m + i - 1]
  <2>1. \A i \in m .. l : s[i] \in Char
    BY <1>0, <1>1, <1>3
  <2> HIDE DEF l
  <2>2. /\ SubSeq(s, m, l) \in Seq(Char)
        /\ Len(SubSeq(s, m, l)) = IF m <= l THEN l - m + 1 ELSE 0
        /\ \A i \in 1 .. l - m + 1 : SubSeq(s, m, l)[i] = s[m + i - 1]
    BY <1>0, <2>1, SubSeqProperties
  <2> QED
    BY <1>3, <2>2
<1>5. head \o tail = s
  <2>1. SubSeq(s, 1, l) = s
    BY SubSeqFull DEF Chars
  <2>2. SubSeq(s, 1, n) \o SubSeq(s, n + 1, l) = SubSeq(s, 1, l)
    <3>1. 1 \in 1 .. Len(s) + 1 /\ n \in 1 - 1 .. Len(s) /\ l \in n .. Len(s)
      BY <1>0
    <3> QED
      BY <3>1, ConcatAdjacentSubSeq DEF Chars
  <2> QED
    BY <2>1, <2>2
<1> HIDE DEF head, tail, l
<1>6. ASSUME EndsInSpace(s) PROVE EndsInSpace(tail)
  <2>1. CASE m <= l
    <3>1. PICK k \in Nat : k = l - m + 1 /\ k \in 1 .. l - m + 1 /\ m + k - 1 = l
      <4>1. l - m + 1 \in Nat /\ l - m + 1 \in 1 .. l - m + 1 /\ m + (l - m + 1) - 1 = l
        BY <1>0, <2>1
      <4> QED
        BY <4>1
    <3>2. Len(tail) = k /\ tail[k] = s[l]
      BY <1>4, <2>1, <3>1
    <3>3. s # <<>>
      BY <1>0, EmptySeq DEF l, Chars
    <3>4. s[l] = " "
      BY <1>6, <3>3 DEF EndsInSpace, l
    <3> QED
      BY <3>2, <3>4 DEF EndsInSpace
  <2>2. CASE ~(m <= l)
    <3>1. Len(tail) = 0
      BY <1>4, <2>2
    <3>2. tail = <<>>
      BY <1>4, <3>1, EmptySeq
    <3> QED
      BY <3>2 DEF EndsInSpace
  <2> QED
    BY <2>1, <2>2
<1> QED
  BY <1>2, <1>4, <1>5, <1>6 DEF head, tail, l, Chars

LEMMA PlusCommutes ==
    ASSUME NEW m \in Nat, NEW n \in Nat
    PROVE  m + n = n + m
OBVIOUS

\* A query ends at its only semicolon.
LEMMA QueryFacts ==
    ASSUME NEW s \in Chars, NEW t \in Chars,
           Places(s, ";") = {}, Places(t, ";") = {Len(t)}
    PROVE  Places(s \o t, ";") = {Len(s \o t)}
<1>1. PICK m \in Nat : m = Len(s)
  BY TextFacts
<1>2. PICK n \in Nat : n = Len(t)
  BY TextFacts
<1>3. Len(s \o t) = m + n
  BY <1>1, <1>2, JoinFacts
<1>4. m + n = n + m
  BY PlusCommutes
<1>5. Places(s \o t, ";") = Places(s, ";") \union {i + Len(s) : i \in Places(t, ";")}
  BY PlacesMoved
<1>6. Places(s \o t, ";") = {n + m}
  BY <1>1, <1>2, <1>5
<1> QED
  BY <1>3, <1>4, <1>6

-----------------------------------------------------------------------------
(***************************************************************************)
(* The inductive invariant: what the queries and the text that is left are *)
(* made of.                                                                *)
(***************************************************************************)
FileType ==
    /\ parse \in {"lines", "line", "done"} /\ read \in Nat
    /\ queryStr \in Chars /\ tmpStr \in Chars /\ text \in Chars
    /\ queries \in Seq(Chars)

\* What is left ends in a space, as every line does, so that the next line
\* makes no comment together with it.
LeftInv ==
    /\ parse # "line" => tmpStr = <<>>
    /\ EndsInSpace(queryStr) /\ EndsInSpace(tmpStr)
    /\ Places(queryStr \o tmpStr, "#") = {}
    /\ Dashes(queryStr \o tmpStr) # {} => dashesLeft

FileInv == FileType /\ LeftInv /\ SendsWhatTheFileSays

LEMMA TextEmpty ==
    /\ <<>> \in Chars /\ EndsInSpace(<<>>) /\ \A c : Places(<<>>, c) = {}
    /\ Dashes(<<>>) = {}
    /\ \A s \in Chars : s \o <<>> = s /\ <<>> \o s = s
<1>1. <<>> \in Chars /\ Len(<<>>) = 0
  BY DEF Chars
<1>2. \A i : i \notin Dashes(<<>>)
  <2>1. \A i : i \notin 1 .. 0 - 2
    OBVIOUS
  <2> QED
    BY <1>1, <2>1 DEF Dashes
<1>3. \A s \in Chars : s \o <<>> = s /\ <<>> \o s = s
  BY ConcatEmptySeq DEF Chars
<1> QED
  BY <1>1, <1>2, <1>3 DEF EndsInSpace, Places

LEMMA FileInitInv == FileInit => FileInv
<1> SUFFICES ASSUME FileInit PROVE FileInv
  OBVIOUS
<1>1. /\ parse = "lines" /\ read = 0 /\ queryStr = <<>> /\ tmpStr = <<>>
      /\ queries = <<>> /\ text = <<>>
  BY DEF FileInit
<1>2. FileType
  BY <1>1, TextEmpty DEF FileType
<1>3. <<>> \o <<>> = <<>>
  BY TextEmpty
<1>4. LeftInv
  BY <1>1, <1>3, TextEmpty DEF LeftInv
<1>5. SplitsAtSemicolons
  <2>1. DOMAIN queries = {}
    BY <1>1
  <2>2. FlattenSeq(queries) \o queryStr \o tmpStr = text
    BY <1>1, <1>3, FlattenEmpty
  <2> QED
    BY <1>1, <2>1, <2>2, TextEmpty DEF SplitsAtSemicolons
<1>6. CommentsAreCut
  BY <1>1 DEF CommentsAreCut
<1> QED
  BY <1>2, <1>4, <1>5, <1>6 DEF FileInv, SendsWhatTheFileSays

LEMMA LineType ==
    ASSUME NEW n \in Int, NEW line \in Lines(n)
    PROVE  line \in Chars /\ Len(line) \in Nat
<1>1. PICK k \in 0 .. n - 1 : line \in [1 .. k -> Char]
  BY DEF Lines
<1>2. k \in Nat
  BY <1>1
<1> QED
  BY <1>1, <1>2 DEF Chars

LEMMA FlatText ==
    ASSUME FileType
    PROVE  FlattenSeq(queries) \in Chars
BY FlattenType DEF FileType, Chars

LEMMA ReadLineStep ==
    ASSUME FileInv, NEW line \in Lines(MaxChars - read), ReadLine(line)
    PROVE  FileInv'
<1>0. FileType /\ LeftInv /\ SplitsAtSemicolons /\ CommentsAreCut
  BY DEF FileInv, SendsWhatTheFileSays
<1>1. /\ parse = "lines" /\ read' = read + Len(line) + 1
      /\ queryStr' = queryStr /\ queries' = queries
  BY DEF ReadLine
<1>2. line \in Chars /\ Len(line) \in Nat
  <2>1. MaxChars - read \in Int
    BY <1>0, FileAssumption DEF FileType
  <2> QED
    BY <2>1, LineType
<1>3. read' \in Nat
  BY <1>0, <1>1, <1>2 DEF FileType
<1>4. tmpStr = <<>>
  BY <1>0, <1>1 DEF LeftInv
<1>5. CASE line = <<>>
  <2>1. UNCHANGED <<parse, tmpStr, text, dashesLeft>>
    BY <1>5 DEF ReadLine
  <2> QED
    BY <1>0, <1>1, <1>3, <2>1
    DEF FileInv, FileType, LeftInv, SendsWhatTheFileSays, SplitsAtSemicolons, CommentsAreCut
<1>6. CASE line # <<>>
  <2> DEFINE left == WithoutComment(line)
             flat == FlattenSeq(queries)
  <2>1. left \in Chars /\ Places(left, "#") = {} /\ Dashes(left) = {}
    BY <1>2, WithoutCommentFacts
  <2>2. /\ parse' = "line" /\ tmpStr' = Append(left, " ") /\ text' = text \o tmpStr'
        /\ dashesLeft' = (dashesLeft \/ IsSuffix(<<"-", "-">>, left))
    BY <1>6 DEF ReadLine
  <2> HIDE DEF left
  <2>3. /\ tmpStr' \in Chars /\ EndsInSpace(tmpStr')
        /\ Places(tmpStr', "#") = {}
        /\ Dashes(tmpStr') # {} => IsSuffix(<<"-", "-">>, left)
    BY <2>1, <2>2, LineFacts
  <2>4. queryStr \in Chars /\ text \in Chars /\ EndsInSpace(queryStr)
    BY <1>0 DEF FileType, LeftInv
  <2>5. queryStr \o tmpStr = queryStr
    BY <1>4, <2>4, TextEmpty
  <2>6. FileType'
    BY <1>0, <1>1, <1>3, <2>2, <2>3, <2>4, JoinFacts DEF FileType
  <2>7. Places(queryStr, "#") = {} /\ (Dashes(queryStr) # {} => dashesLeft)
    BY <1>0, <2>5 DEF LeftInv
  <2>8. LeftInv'
    <3>1. Places(queryStr \o tmpStr', "#") = {}
      BY <2>3, <2>4, <2>7, PlacesJoin
    <3>2. Dashes(queryStr \o tmpStr') # {} => Dashes(queryStr) # {} \/ Dashes(tmpStr') # {}
      BY <2>3, <2>4, DashesApart
    <3> QED
      BY <1>1, <2>2, <2>3, <2>4, <2>7, <3>1, <3>2 DEF LeftInv
  <2>9. SplitsAtSemicolons'
    <3>1. flat \in Chars /\ flat \o queryStr \in Chars
      BY <1>0, <2>4, FlatText, JoinFacts
    <3>2. (flat \o queryStr) \o tmpStr = text
      BY <1>0 DEF SplitsAtSemicolons
    <3>3. flat \o queryStr = text
      BY <1>4, <3>1, <3>2, TextEmpty
    <3> QED
      BY <1>0, <1>1, <2>2, <3>3 DEF SplitsAtSemicolons
  <2>10. CommentsAreCut'
    BY <1>0, <1>1, <2>2 DEF CommentsAreCut
  <2> QED
    BY <2>6, <2>8, <2>9, <2>10 DEF FileInv, SendsWhatTheFileSays
<1> QED
  BY <1>5, <1>6

LEMMA KeepRestStep == FileInv /\ KeepRest => FileInv'
<1> SUFFICES ASSUME FileInv, KeepRest PROVE FileInv'
  OBVIOUS
<1>0. FileType /\ LeftInv /\ SplitsAtSemicolons /\ CommentsAreCut
  BY DEF FileInv, SendsWhatTheFileSays
<1>1. /\ Places(tmpStr, ";") = {} /\ queryStr' = queryStr \o tmpStr /\ tmpStr' = <<>>
      /\ parse' = "lines" /\ read' = read /\ queries' = queries /\ text' = text
      /\ dashesLeft' = dashesLeft
  BY DEF KeepRest
<1>2. /\ queryStr \in Chars /\ tmpStr \in Chars /\ EndsInSpace(queryStr)
      /\ EndsInSpace(tmpStr)
  BY <1>0 DEF FileType, LeftInv
<1> DEFINE rest == queryStr \o tmpStr
           flat == FlattenSeq(queries)
<1>3. rest \in Chars /\ rest \o <<>> = rest
  BY <1>2, JoinFacts, TextEmpty
<1>4. FileType'
  BY <1>0, <1>1, <1>3, TextEmpty DEF FileType
<1>5. EndsInSpace(rest)
  BY <1>2, SpaceJoin
<1>6. LeftInv'
  BY <1>0, <1>1, <1>3, <1>5, TextEmpty DEF LeftInv
<1>7. SplitsAtSemicolons'
  <2>1. flat \in Chars
    BY <1>0, FlatText
  <2>2. (flat \o queryStr) \o tmpStr = flat \o rest
    BY <1>2, <2>1, ConcatAssociative DEF Chars
  <2>3. (flat \o rest) \o <<>> = flat \o rest
    BY <1>3, <2>1, JoinFacts, TextEmpty
  <2>4. Places(rest, ";") = {}
    BY <1>0, <1>1, <1>2, PlacesJoin DEF SplitsAtSemicolons
  <2> QED
    BY <1>0, <1>1, <2>2, <2>3, <2>4 DEF SplitsAtSemicolons
<1>8. CommentsAreCut'
  BY <1>0, <1>1 DEF CommentsAreCut
<1> QED
  BY <1>4, <1>6, <1>7, <1>8 DEF FileInv, SendsWhatTheFileSays

LEMMA TakeQueryStep == FileInv /\ TakeQuery => FileInv'
<1> SUFFICES ASSUME FileInv, TakeQuery PROVE FileInv'
  OBVIOUS
<1>0. FileType /\ LeftInv /\ SplitsAtSemicolons /\ CommentsAreCut
  BY DEF FileInv, SendsWhatTheFileSays
<1> DEFINE sem == Min(Places(tmpStr, ";"))
           head == SubSeq(tmpStr, 1, sem)
           tail == SubSeq(tmpStr, sem + 1, Len(tmpStr))
           query == queryStr \o head
           flat == FlattenSeq(queries)
<1>1. /\ parse = "line" /\ Places(tmpStr, ";") # {}
      /\ queries' = Append(queries, query) /\ tmpStr' = tail /\ queryStr' = <<>>
      /\ parse' = parse /\ read' = read /\ text' = text /\ dashesLeft' = dashesLeft
  BY DEF TakeQuery
<1>2. /\ queryStr \in Chars /\ tmpStr \in Chars /\ EndsInSpace(tmpStr)
      /\ queries \in Seq(Chars) /\ flat \in Chars
  BY <1>0, FlatText DEF FileType, LeftInv
<1>3. /\ sem \in Places(tmpStr, ";") /\ \A i \in Places(tmpStr, ";") : sem <= i
      /\ Places(tmpStr, ";") \subseteq 1 .. Len(tmpStr)
  <2>1. Places(tmpStr, ";") \subseteq 1 .. Len(tmpStr)
    BY <1>2, TextFacts DEF Places
  <2>2. Places(tmpStr, ";") \in SUBSET Nat
    <3>1. Len(tmpStr) \in Nat
      BY <1>2, TextFacts
    <3>2. 1 .. Len(tmpStr) \subseteq Nat
      BY <3>1
    <3> QED
      BY <2>1, <3>2
  <2> QED
    BY <1>1, <2>1, <2>2, MinFacts
<1>4. sem \in 1 .. Len(tmpStr) /\ tmpStr[sem] = ";"
  <2> HIDE DEF sem
  <2> QED
    BY <1>3 DEF Places
<1> HIDE DEF sem
<1>5. /\ head \in Chars /\ tail \in Chars /\ head \o tail = tmpStr
      /\ Len(head) = sem /\ \A i \in 1 .. sem : head[i] = tmpStr[i]
      /\ EndsInSpace(tail)
  BY <1>2, <1>4, CutFacts
<1> HIDE DEF head, tail
<1>6. query \in Chars
  BY <1>2, <1>5, JoinFacts
<1>7. Places(query, ";") = {Len(query)}
  <2>1. Places(queryStr, ";") = {}
    BY <1>0 DEF SplitsAtSemicolons
  <2>2. PICK n \in Nat : n = Len(tmpStr)
    BY <1>2, TextFacts
  <2>3. PICK m \in 1 .. n : m = sem
    BY <1>4, <2>2
  <2>4. m \in Nat /\ m \in 1 .. m /\ \A j \in 1 .. m : j \in 1 .. n /\ (m <= j => j = m)
    OBVIOUS
  <2>5. DOMAIN head = 1 .. m /\ Len(head) = m
    BY <1>5, <2>3, TextFacts
  <2>6. m \in Places(head, ";")
    BY <1>4, <1>5, <2>3, <2>4, <2>5 DEF Places
  <2>7. ASSUME NEW i \in Places(head, ";") PROVE i = m
    <3>1. i \in 1 .. m /\ head[i] = ";"
      BY <2>5 DEF Places
    <3>2. i \in 1 .. n /\ (m <= i => i = m)
      BY <2>4, <3>1
    <3>3. DOMAIN tmpStr = 1 .. n
      BY <1>2, <2>2, TextFacts
    <3>4. tmpStr[i] = ";"
      BY <1>5, <2>3, <3>1
    <3>5. i \in Places(tmpStr, ";")
      BY <3>2, <3>3, <3>4 DEF Places
    <3> QED
      BY <1>3, <2>3, <3>2, <3>5
  <2>8. Places(head, ";") = {Len(head)}
    BY <2>5, <2>6, <2>7
  <2> QED
    BY <1>2, <1>5, <2>1, <2>8, QueryFacts
<1>8. queryStr \o tmpStr = query \o tail
  <2> HIDE DEF query
  <2>1. queryStr \in Seq(Char) /\ head \in Seq(Char) /\ tail \in Seq(Char)
    BY <1>2, <1>5 DEF Chars
  <2>2. (queryStr \o head) \o tail = queryStr \o (head \o tail)
    BY <2>1, ConcatAssociative
  <2> QED
    BY <1>5, <2>2 DEF query
<1>9. /\ Places(query, "#") = {} /\ Places(tail, "#") = {}
      /\ Dashes(query) # {} => dashesLeft
      /\ Dashes(tail) # {} => dashesLeft
  BY <1>0, <1>5, <1>6, <1>8, PlacesJoin, DashesJoin DEF LeftInv
<1>10. \A k \in DOMAIN queries' : queries'[k] = query \/ (k \in DOMAIN queries /\ queries'[k] = queries[k])
  <2> HIDE DEF query
  <2>1. /\ Len(Append(queries, query)) = Len(queries) + 1
        /\ \A k \in 1 .. Len(queries) : Append(queries, query)[k] = queries[k]
        /\ Append(queries, query)[Len(queries) + 1] = query
        /\ Append(queries, query) \in Seq(Chars)
    BY <1>2, <1>6, AppendProperties
  <2>2. PICK n \in Nat : n = Len(queries)
    BY <1>2
  <2>3. DOMAIN queries = 1 .. n /\ DOMAIN Append(queries, query) = 1 .. n + 1
    BY <1>2, <2>1, <2>2
  <2>4. \A k \in 1 .. n + 1 : k = n + 1 \/ k \in 1 .. n
    OBVIOUS
  <2> QED
    BY <1>1, <2>1, <2>2, <2>3, <2>4
<1>11. FileType'
  <2> HIDE DEF query
  <2>1. queries' \in Seq(Chars)
    BY <1>1, <1>2, <1>6, AppendProperties
  <2> QED
    BY <1>0, <1>1, <1>2, <1>5, <2>1, TextEmpty DEF FileType
<1>12. LeftInv'
  <2>1. <<>> \o tail = tail
    BY <1>5, TextEmpty
  <2> QED
    BY <1>1, <1>5, <1>9, <2>1, TextEmpty DEF LeftInv
<1>13. SplitsAtSemicolons'
  <2>1. FlattenSeq(queries') = flat \o query
    BY <1>1, <1>2, <1>6, FlattenAppend DEF Chars
  <2>2. ((flat \o query) \o <<>>) \o tail = (flat \o query) \o tail
    BY <1>2, <1>6, JoinFacts, TextEmpty
  <2>3. (flat \o query) \o tail = flat \o (query \o tail)
    <3> HIDE DEF query, flat
    <3>1. flat \in Seq(Char) /\ query \in Seq(Char) /\ tail \in Seq(Char)
      BY <1>2, <1>5, <1>6 DEF Chars
    <3> QED
      BY <3>1, ConcatAssociative
  <2>4. (flat \o queryStr) \o tmpStr = flat \o (queryStr \o tmpStr)
    BY <1>2, ConcatAssociative DEF Chars
  <2>5. (flat \o queryStr) \o tmpStr = text
    BY <1>0 DEF SplitsAtSemicolons
  <2>6. FlattenSeq(queries') \o queryStr' \o tmpStr' = text'
    BY <1>1, <1>8, <2>1, <2>2, <2>3, <2>4, <2>5
  <2>7. \A k \in DOMAIN queries' : Places(queries'[k], ";") = {Len(queries'[k])}
    BY <1>0, <1>7, <1>10 DEF SplitsAtSemicolons
  <2> QED
    BY <1>1, <2>6, <2>7, TextEmpty DEF SplitsAtSemicolons
<1>14. CommentsAreCut'
  BY <1>0, <1>1, <1>9, <1>10 DEF CommentsAreCut
<1> QED
  BY <1>11, <1>12, <1>13, <1>14 DEF FileInv, SendsWhatTheFileSays

LEMMA FileStep == FileInv /\ [FileNext]_fileVars => FileInv'
<1> SUFFICES ASSUME FileInv, [FileNext]_fileVars PROVE FileInv'
  OBVIOUS
<1>1. ASSUME NEW line \in Lines(MaxChars - read), ReadLine(line) PROVE FileInv'
  BY <1>1, ReadLineStep
<1>2. CASE TakeQuery
  BY <1>2, TakeQueryStep
<1>3. CASE KeepRest
  BY <1>3, KeepRestStep
<1>4. CASE FileEnd \/ UNCHANGED fileVars
  <2>1. /\ UNCHANGED <<read, queryStr, tmpStr, queries, text, dashesLeft>>
        /\ (parse' = parse \/ (parse = "lines" /\ parse' = "done"))
    BY <1>4 DEF FileEnd, fileVars
  <2> QED
    BY <2>1 DEF FileInv, FileType, LeftInv, SendsWhatTheFileSays, SplitsAtSemicolons,
                CommentsAreCut
<1> QED
  BY <1>1, <1>2, <1>3, <1>4 DEF FileNext

\* For a file of any length: the queries that mysql_tquery_file and
\* mysql_query_file send are the text of the file, without its comments, cut
\* behind each semicolon and nowhere else.
THEOREM FileCorrect == FileSpec => []SendsWhatTheFileSays
<1>1. FileInv => SendsWhatTheFileSays
  BY DEF FileInv
<1> QED
  BY <1>1, FileInitInv, FileStep, PTL DEF FileSpec

-----------------------------------------------------------------------------
(***************************************************************************)
(* What tokens ask for, and the text that they stand for.                  *)
(***************************************************************************)
Asks == {"d", "e", "!", "?"}

\* Asked, Lengths and TextLength, for any tokens and values.
AskedOf(t, i) == Cardinality({j \in 1 .. i : t[j] \in Asks})

LengthAt(t, v, i) ==
    CASE t[i] \in {"c", "%%"} -> 1
      [] t[i] \in {"d", "e"} -> v[AskedOf(t, i)]
      [] OTHER -> 0

LengthsOf(t, v, n) == [i \in 1 .. n |-> LengthAt(t, v, i)]

TextOf(t, v, n) == SumFunctionOnSet(LengthsOf(t, v, n), 1 .. n)

LEMMA SameOperators ==
    /\ \A i : Asked(i) = AskedOf(tokens, i)
    /\ \A n : TextLength(n) = TextOf(tokens, values, n)
<1>1. \A i : Asked(i) = AskedOf(tokens, i)
  BY DEF Asked, AskedOf, Asks
<1>2. ASSUME NEW n PROVE Lengths(n) = LengthsOf(tokens, values, n)
  <2>1. ASSUME NEW i \in 1 .. n
        PROVE  LengthAt(tokens, values, i) =
                  CASE tokens[i] \in {"c", "%%"} -> 1
                    [] tokens[i] \in {"d", "e"} -> values[Asked(i)]
                    [] OTHER -> 0
    BY <1>1 DEF LengthAt
  <2> QED
    BY <2>1 DEF Lengths, LengthsOf
<1> QED
  BY <1>1, <1>2 DEF TextLength, TextOf

LEMMA AskedNext ==
    ASSUME NEW t, NEW i \in Nat
    PROVE  /\ AskedOf(t, i) \in Nat
           /\ AskedOf(t, i + 1) = IF t[i + 1] \in Asks THEN AskedOf(t, i) + 1 ELSE AskedOf(t, i)
<1> DEFINE A == {j \in 1 .. i : t[j] \in Asks}
           B == {j \in 1 .. i + 1 : t[j] \in Asks}
           k == i + 1
<1>1. IsFiniteSet(A) /\ Cardinality(A) \in Nat
  <2>1. IsFiniteSet(1 .. i)
    BY FS_Interval
  <2> QED
    BY <2>1, FS_Subset, FS_CardinalityType
<1>2. \A j : j \in 1 .. i + 1 <=> j \in 1 .. i \/ j = k
  OBVIOUS
<1>3. k \notin A
  OBVIOUS
<1>4. B = IF t[k] \in Asks THEN A \union {k} ELSE A
  BY <1>2
<1>5. Cardinality(A \union {k}) = Cardinality(A) + 1
  <2> HIDE DEF A, k
  <2> QED
    BY <1>1, <1>3, FS_AddElement
<1> QED
  BY <1>1, <1>4, <1>5 DEF AskedOf

LEMMA AskedNone ==
    ASSUME NEW t
    PROVE  AskedOf(t, 0) = 0
<1>1. {j \in 1 .. 0 : t[j] \in Asks} = {}
  OBVIOUS
<1> QED
  BY <1>1, FS_EmptySet DEF AskedOf

\* Tokens that follow change nothing.
LEMMA AskedSame ==
    ASSUME NEW s, NEW t, NEW i \in Nat, \A j \in 1 .. i : s[j] = t[j]
    PROVE  AskedOf(s, i) = AskedOf(t, i)
<1>1. {j \in 1 .. i : s[j] \in Asks} = {j \in 1 .. i : t[j] \in Asks}
  OBVIOUS
<1> QED
  BY <1>1 DEF AskedOf

\* The values that the first n tokens ask for are there.
Given(t, v, n) == \A i \in 1 .. n : t[i] \in {"d", "e"} => AskedOf(t, i) <= Len(v)

LEMMA LengthsType ==
    ASSUME NEW t, NEW v \in Seq(Nat), NEW n \in Nat, Given(t, v, n)
    PROVE  /\ LengthsOf(t, v, n) \in [1 .. n -> Nat]
           /\ \A i \in 1 .. n : LengthsOf(t, v, n)[i] = LengthAt(t, v, i)
<1>1. ASSUME NEW i \in 1 .. n PROVE LengthAt(t, v, i) \in Nat
  <2>1. ASSUME t[i] \in {"d", "e"} PROVE v[AskedOf(t, i)] \in Nat
    <3>1. PICK k \in Nat : k + 1 = i
      <4>1. i - 1 \in Nat /\ i - 1 + 1 = i
        OBVIOUS
      <4> QED
        BY <4>1
    <3>2. AskedOf(t, k) \in Nat /\ AskedOf(t, i) = AskedOf(t, k) + 1
      BY <2>1, <3>1, AskedNext DEF Asks
    <3>3. AskedOf(t, i) <= Len(v)
      BY <2>1 DEF Given
    <3>4. AskedOf(t, i) \in 1 .. Len(v)
      BY <3>2, <3>3
    <3> QED
      BY <3>4, ElementOfSeq
  <2> QED
    BY <2>1 DEF LengthAt
<1> QED
  BY <1>1 DEF LengthsOf

LEMMA TextNone ==
    ASSUME NEW t, NEW v \in Seq(Nat)
    PROVE  TextOf(t, v, 0) = 0
<1>1. Given(t, v, 0)
  BY DEF Given
<1>2. LengthsOf(t, v, 0) \in [1 .. 0 -> Nat]
  BY <1>1, LengthsType
<1> QED
  BY <1>2, UpToZero DEF TextOf, UpTo

LEMMA TextNext ==
    ASSUME NEW t, NEW v \in Seq(Nat), NEW n \in Nat, Given(t, v, n + 1)
    PROVE  /\ TextOf(t, v, n) \in Nat
           /\ TextOf(t, v, n + 1) = TextOf(t, v, n) + LengthAt(t, v, n + 1)
<1>1. \A i \in 1 .. n : i \in 1 .. n + 1
  OBVIOUS
<1>2. Given(t, v, n)
  BY <1>1 DEF Given
<1>3. PICK m \in Nat : m = n + 1
  OBVIOUS
<1>4. PICK a : a = LengthsOf(t, v, n)
  OBVIOUS
<1>5. PICK b : b = LengthsOf(t, v, m)
  OBVIOUS
<1>6. /\ a \in [1 .. n -> Nat] /\ \A i \in 1 .. n : a[i] = LengthAt(t, v, i)
      /\ b \in [1 .. m -> Nat] /\ \A i \in 1 .. m : b[i] = LengthAt(t, v, i)
  BY <1>2, <1>3, <1>4, <1>5, LengthsType
<1>7. n <= n /\ n <= m /\ n < m /\ m \in 1 .. m
  BY <1>3
<1>8. \A i \in 1 .. n : a[i] = b[i]
  BY <1>1, <1>3, <1>6
<1>9. UpTo(a, n) = UpTo(b, n)
  BY <1>6, <1>7, <1>8, UpToSame
<1>10. UpTo(b, n) \in Nat /\ UpTo(b, n + 1) = UpTo(b, n) + b[n + 1]
  BY <1>6, <1>7, UpToNext
<1>11. b[n + 1] = LengthAt(t, v, n + 1)
  BY <1>3, <1>6, <1>7
<1> QED
  BY <1>3, <1>4, <1>5, <1>9, <1>10, <1>11 DEF TextOf, UpTo

LEMMA TextType ==
    ASSUME NEW t, NEW v \in Seq(Nat), NEW n \in Nat, Given(t, v, n)
    PROVE  TextOf(t, v, n) \in Nat
<1>1. PICK a : a = LengthsOf(t, v, n)
  OBVIOUS
<1>2. a \in [1 .. n -> Nat]
  BY <1>1, LengthsType
<1>3. n \in 0 .. n
  OBVIOUS
<1>4. UpTo(a, n) \in Nat
  BY <1>2, <1>3, UpToGrows
<1> QED
  BY <1>1, <1>4 DEF TextOf, UpTo

LEMMA TextSame ==
    ASSUME NEW s, NEW t, NEW v, NEW n \in Nat, \A j \in 1 .. n : s[j] = t[j]
    PROVE  TextOf(s, v, n) = TextOf(t, v, n)
<1>1. ASSUME NEW i \in 1 .. n PROVE LengthAt(s, v, i) = LengthAt(t, v, i)
  <2>1. i \in Nat /\ \A j \in 1 .. i : s[j] = t[j]
    OBVIOUS
  <2>2. AskedOf(s, i) = AskedOf(t, i)
    BY <2>1, AskedSame
  <2> QED
    BY <2>2 DEF LengthAt
<1>2. LengthsOf(s, v, n) = LengthsOf(t, v, n)
  BY <1>1 DEF LengthsOf
<1> QED
  BY <1>2 DEF TextOf

-----------------------------------------------------------------------------
(***************************************************************************)
(* The inductive invariant.                                                *)
(***************************************************************************)
\* FailsAt and a piece of the text, for any tokens.
Fails(t, v, size, i) ==
    \/ t[i] \in {"!", "?"}
    \/ AskedOf(t, i) > Len(v)
    \/ TextOf(t, v, i - 1) >= size

Piece(t, i) == [token |-> i, value |-> IF t[i] \in {"d", "e"} THEN AskedOf(t, i) ELSE 0]

FormatType ==
    /\ loop \in {"none", "turn", "percent", "done"}
    /\ destSize \in Nat /\ values \in Seq(Nat) /\ tokens \in Seq(Token)
    /\ counter \in Nat /\ textSize \in Nat
    /\ written \in Seq([token : Nat, value : Nat])

\* What the first n tokens have become.
Done(t, v, size, w, n) ==
    \A i \in 1 .. n :
       /\ t[i] \in {"c", "%%", "d", "e"} /\ ~Fails(t, v, size, i)
       /\ w[i] = Piece(t, i)

TurnInv ==
    loop # "done" =>
       /\ result = 0 /\ output = Untouched
       /\ loop = "none" => tokens = <<>> /\ counter = 0
       /\ loop # "none" => destSize # 0
       /\ loop = "percent" => textSize < destSize
       /\ counter = AskedOf(tokens, Len(tokens)) /\ counter <= Len(values)
       /\ textSize = TextOf(tokens, values, Len(tokens))
       /\ Len(written) = Len(tokens)
       /\ Done(tokens, values, destSize, written, Len(tokens))

\* TextIsFilledIn, in terms of these.
FilledIn(t, v, size, w, res, out) ==
    IF t = <<>> \/ \E i \in DOMAIN t : Fails(t, v, size, i)
    THEN res = 0 /\ out = Untouched
    ELSE LET pieces == {i \in DOMAIN t : t[i] # "%"}
         IN  /\ res = TextOf(t, v, Len(t))
             /\ Len(w) = Cardinality(pieces)
             /\ \A i \in pieces : w[i] = Piece(t, i)
             /\ out = IF res < size THEN res ELSE size - 1

DoneInv == loop = "done" => FilledIn(tokens, values, destSize, written, result, output)

FormatInv == FormatType /\ TurnInv /\ DoneInv

LEMMA FormatCorrect == FormatInv => TextIsFilledIn
<1> SUFFICES ASSUME FormatInv, loop = "done" PROVE TextIsFilledIn
  BY DEF TextIsFilledIn
<1>1. FilledIn(tokens, values, destSize, written, result, output)
  BY DEF FormatInv, DoneInv
<1>2. \A i : FailsAt(i) <=> Fails(tokens, values, destSize, i)
  BY SameOperators DEF FailsAt, Fails
<1>3. \A i : Piece(tokens, i) = [token |-> i, value |-> IF tokens[i] \in {"d", "e"} THEN Asked(i) ELSE 0]
  BY SameOperators DEF Piece
<1> QED
  BY <1>1, <1>2, <1>3, SameOperators DEF FilledIn, TextIsFilledIn

LEMMA FormatInitInv == FormatInit => FormatInv
<1> SUFFICES ASSUME FormatInit PROVE FormatInv
  OBVIOUS
<1>1. /\ loop = "none" /\ destSize = 0 /\ values = <<>> /\ counter = 0
      /\ tokens = <<>> /\ written = <<>> /\ textSize = 0
      /\ result = 0 /\ output = Untouched
  BY DEF FormatInit
<1>2. Len(<<>>) = 0
  OBVIOUS
<1>3. FormatType
  BY <1>1 DEF FormatType
<1>4. AskedOf(<<>>, 0) = 0 /\ TextOf(<<>>, <<>>, 0) = 0
  <2>1. <<>> \in Seq(Nat)
    OBVIOUS
  <2> QED
    BY <2>1, AskedNone, TextNone
<1>5. TurnInv
  <2>1. Done(<<>>, <<>>, 0, <<>>, 0)
    BY DEF Done
  <2> QED
    BY <1>1, <1>2, <1>4, <2>1 DEF TurnInv
<1> QED
  BY <1>1, <1>3, <1>5 DEF FormatInv, DoneInv

LEMMA FormatBeginStep ==
    ASSUME FormatInv, NEW size \in 0 .. MaxSize, NEW n \in 0 .. MaxValues, NEW isEmpty \in BOOLEAN,
           NEW lengths \in [1 .. n -> 0 .. MaxLength], FormatBegin(size, lengths, isEmpty)
    PROVE  FormatInv'
<1>1. /\ loop = "none" /\ loop' = IF isEmpty \/ size = 0 THEN "done" ELSE "turn"
      /\ destSize' = size /\ values' = lengths
      /\ counter' = counter /\ tokens' = tokens /\ written' = written /\ textSize' = textSize
      /\ result' = result /\ output' = output
  BY DEF FormatBegin
<1>2. FormatType /\ TurnInv
  BY DEF FormatInv
<1>3. size \in Nat /\ n \in Nat /\ lengths \in Seq(Nat) /\ Len(lengths) = n
  <2>1. size \in Nat /\ n \in Nat /\ \A i \in 0 .. MaxLength : i \in Nat
    BY SizeAssumption
  <2>2. lengths \in [1 .. n -> Nat]
    BY <2>1
  <2> QED
    BY <2>1, <2>2
<1>4. tokens = <<>> /\ Len(tokens) = 0 /\ Len(written) = 0 /\ counter = 0
      /\ result = 0 /\ output = Untouched
  BY <1>1, <1>2 DEF TurnInv
<1>5. textSize = 0
  <2>1. textSize = TextOf(tokens, values, 0)
    BY <1>1, <1>2, <1>4 DEF TurnInv
  <2> QED
    BY <1>2, <2>1, TextNone DEF FormatType
<1>6. FormatType'
  BY <1>1, <1>2, <1>3 DEF FormatType
<1>7. TurnInv'
  <2>1. AskedOf(tokens, 0) = 0 /\ TextOf(tokens, lengths, 0) = 0
    BY <1>3, AskedNone, TextNone
  <2>2. Done(tokens, lengths, size, written, 0)
    BY DEF Done
  <2>3. 0 <= Len(lengths)
    BY <1>3
  <2>4. loop' # "none" /\ loop' # "percent" /\ (loop' # "done" => size # 0)
    BY <1>1
  <2> QED
    BY <1>1, <1>4, <1>5, <2>1, <2>2, <2>3, <2>4 DEF TurnInv
<1>8. DoneInv'
  BY <1>1, <1>4 DEF DoneInv, FilledIn
<1> QED
  BY <1>6, <1>7, <1>8 DEF FormatInv

-----------------------------------------------------------------------------
\* One more token, and what was there before.
Extends(u, t, x, v, size, n) ==
    /\ u \in Seq(Token) /\ Len(u) = n + 1 /\ u[n + 1] = x
    /\ DOMAIN u = 1 .. n + 1 /\ u # <<>>
    /\ \A i \in 1 .. n : /\ u[i] = t[i] /\ Piece(u, i) = Piece(t, i)
                         /\ AskedOf(u, i) = AskedOf(t, i)
                         /\ Fails(u, v, size, i) <=> Fails(t, v, size, i)
    /\ AskedOf(u, n) = AskedOf(t, n) /\ TextOf(u, v, n) = TextOf(t, v, n)

LEMMA OneMore ==
    ASSUME NEW t \in Seq(Token), NEW x \in Token, NEW v, NEW size
    PROVE  Extends(Append(t, x), t, x, v, size, Len(t))
<1>a. PICK u : u = Append(t, x)
  OBVIOUS
<1>b. PICK n \in Nat : n = Len(t)
  OBVIOUS
<1>1. /\ u \in Seq(Token) /\ Len(u) = n + 1 /\ u[n + 1] = x /\ u # <<>>
      /\ \A i \in 1 .. n : u[i] = t[i]
  BY <1>a, <1>b, AppendProperties
<1>2. DOMAIN u = 1 .. n + 1
  BY <1>1
<1>3. ASSUME NEW i \in 0 .. n PROVE AskedOf(u, i) = AskedOf(t, i) /\ TextOf(u, v, i) = TextOf(t, v, i)
  <2>1. i \in Nat /\ \A j \in 1 .. i : j \in 1 .. n
    OBVIOUS
  <2>2. \A j \in 1 .. i : u[j] = t[j]
    BY <1>1, <2>1
  <2> QED
    BY <2>1, <2>2, AskedSame, TextSame
<1>4. \A i \in 1 .. n : i \in 0 .. n /\ i - 1 \in 0 .. n
  OBVIOUS
<1>5. ASSUME NEW i \in 1 .. n
      PROVE  /\ Piece(u, i) = Piece(t, i) /\ AskedOf(u, i) = AskedOf(t, i)
             /\ Fails(u, v, size, i) <=> Fails(t, v, size, i)
  <2>1. u[i] = t[i] /\ AskedOf(u, i) = AskedOf(t, i) /\ TextOf(u, v, i - 1) = TextOf(t, v, i - 1)
    BY <1>1, <1>3, <1>4
  <2> QED
    BY <2>1 DEF Piece, Fails
<1>6. n \in 0 .. n
  OBVIOUS
<1>7. Extends(u, t, x, v, size, n)
  BY <1>1, <1>2, <1>3, <1>5, <1>6 DEF Extends
<1> QED
  BY <1>a, <1>b, <1>7

\* A piece of the text is written.
LEMMA WriteStep ==
    ASSUME FormatInv, loop \in {"turn", "percent"}, textSize < destSize,
           NEW x \in {"c", "%%", "d", "e"}, NEW value \in Nat, NEW length \in Nat,
           Writes(x, value, length),
           \/ x \in {"c", "%%"} /\ value = 0 /\ length = 1 /\ counter' = counter
           \/ /\ x \in {"d", "e"} /\ counter < Len(values) /\ value = counter + 1
              /\ length = values[counter + 1] /\ counter' = counter + 1
    PROVE  FormatInv'
<1>0. FormatType /\ TurnInv
  BY DEF FormatInv
<1>1. /\ tokens' = Append(tokens, x)
      /\ written' = Append(written, [token |-> Len(tokens'), value |-> value])
      /\ textSize' = textSize + length /\ loop' = "turn" /\ destSize' = destSize
      /\ values' = values /\ result' = result /\ output' = output
  BY DEF Writes
<1>2. PICK n \in Nat : n = Len(tokens)
  BY <1>0 DEF FormatType
<1>3. PICK u : u = tokens'
  OBVIOUS
<1>4. x \in Token /\ tokens \in Seq(Token) /\ destSize \in Nat /\ values \in Seq(Nat) /\ counter \in Nat
      /\ textSize \in Nat /\ written \in Seq([token : Nat, value : Nat])
  BY <1>0 DEF FormatType, Token
<1>5. /\ u \in Seq(Token) /\ Len(u) = n + 1 /\ u[n + 1] = x
      /\ \A i \in 1 .. n : /\ u[i] = tokens[i] /\ Piece(u, i) = Piece(tokens, i)
                           /\ AskedOf(u, i) = AskedOf(tokens, i)
                           /\ Fails(u, values, destSize, i) <=> Fails(tokens, values, destSize, i)
      /\ AskedOf(u, n) = AskedOf(tokens, n) /\ TextOf(u, values, n) = TextOf(tokens, values, n)
  <2>1. Extends(Append(tokens, x), tokens, x, values, destSize, Len(tokens))
    BY <1>4, OneMore
  <2>2. Extends(u, tokens, x, values, destSize, n)
    BY <1>1, <1>2, <1>3, <2>1
  <2> QED
    BY <2>2 DEF Extends
<1>6. /\ result = 0 /\ output = Untouched /\ destSize # 0
      /\ counter = AskedOf(tokens, n) /\ counter <= Len(values)
      /\ textSize = TextOf(tokens, values, n)
      /\ Len(written) = n /\ Done(tokens, values, destSize, written, n)
  BY <1>0, <1>2 DEF TurnInv
<1>7. AskedOf(u, n + 1) = counter' /\ counter' <= Len(values) /\ counter' \in Nat
  <2>1. AskedOf(u, n + 1) = IF x \in Asks THEN counter + 1 ELSE counter
    BY <1>5, <1>6, AskedNext
  <2>2. x \in Asks <=> x \in {"d", "e"}
    BY DEF Asks
  <2>3. Len(values) \in Nat
    BY <1>4
  <2> QED
    BY <1>4, <1>6, <2>1, <2>2, <2>3
<1>8. Given(u, values, n + 1)
  <2>1. ASSUME NEW i \in 1 .. n + 1 PROVE AskedOf(u, i) <= Len(values)
    <3>1. CASE i = n + 1
      BY <1>7, <3>1
    <3>2. CASE i \in 1 .. n
      <4>1. ~Fails(u, values, destSize, i)
        BY <1>5, <1>6, <3>2 DEF Done
      <4>2. ~(AskedOf(u, i) > Len(values))
        BY <4>1 DEF Fails
      <4>3. AskedOf(u, i) \in Nat /\ Len(values) \in Nat
        BY <1>4, <3>2, AskedNext
      <4> QED
        BY <4>2, <4>3
    <3> QED
      BY <3>1, <3>2
  <2> QED
    BY <2>1 DEF Given
<1>9. TextOf(u, values, n + 1) = textSize'
  <2>1. TextOf(u, values, n + 1) = TextOf(u, values, n) + LengthAt(u, values, n + 1)
    BY <1>4, <1>8, TextNext
  <2>2. LengthAt(u, values, n + 1) = length
    BY <1>5, <1>7 DEF LengthAt
  <2> QED
    BY <1>1, <1>5, <1>6, <2>1, <2>2
<1>10. ~Fails(u, values, destSize, n + 1)
  <2>1. n + 1 - 1 = n
    OBVIOUS
  <2>2. ~(AskedOf(u, n + 1) > Len(values))
    BY <1>4, <1>7
  <2>3. ~(TextOf(u, values, n) >= destSize)
    BY <1>4, <1>5, <1>6
  <2> QED
    BY <1>5, <2>1, <2>2, <2>3 DEF Fails
<1>11. Piece(u, n + 1) = [token |-> n + 1, value |-> value]
  <2>1. value = IF x \in {"d", "e"} THEN AskedOf(u, n + 1) ELSE 0
    BY <1>7
  <2> QED
    BY <1>5, <2>1 DEF Piece
<1>12. /\ Len(written') = n + 1 /\ written'[n + 1] = Piece(u, n + 1)
       /\ \A i \in 1 .. n : written'[i] = written[i]
       /\ written' \in Seq([token : Nat, value : Nat])
  <2> DEFINE P == [token : Nat, value : Nat]
             p == [token |-> n + 1, value |-> value]
  <2>1. p \in P /\ written \in Seq(P) /\ written' = Append(written, p)
    BY <1>1, <1>3, <1>4, <1>5
  <2> HIDE DEF P, p
  <2>2. /\ Append(written, p) \in Seq(P) /\ Len(Append(written, p)) = Len(written) + 1
        /\ \A i \in 1 .. Len(written) : Append(written, p)[i] = written[i]
        /\ Append(written, p)[Len(written) + 1] = p
    BY <2>1, AppendProperties
  <2> QED
    BY <1>6, <1>11, <2>1, <2>2 DEF P, p
<1>13. Done(u, values, destSize, written', n + 1)
  <2>1. ASSUME NEW i \in 1 .. n + 1
        PROVE  /\ u[i] \in {"c", "%%", "d", "e"} /\ ~Fails(u, values, destSize, i)
               /\ written'[i] = Piece(u, i)
    <3>1. CASE i = n + 1
      BY <1>5, <1>10, <1>12, <3>1
    <3>2. CASE i \in 1 .. n
      BY <1>5, <1>6, <1>12, <3>2 DEF Done
    <3> QED
      BY <3>1, <3>2
  <2>2. PICK w : w = written'
    OBVIOUS
  <2> QED
    BY <2>1, <2>2 DEF Done
<1>14. FormatType'
  <2>1. textSize' \in Nat
    BY <1>1, <1>4
  <2> QED
    BY <1>1, <1>3, <1>4, <1>5, <1>7, <1>12, <2>1 DEF FormatType
<1>15. TurnInv'
  BY <1>1, <1>3, <1>5, <1>6, <1>7, <1>9, <1>12, <1>13 DEF TurnInv
<1> QED
  BY <1>1, <1>14, <1>15 DEF FormatInv, DoneInv

\* The loop is left because of a token.
LEMMA BreakStep ==
    ASSUME FormatInv, loop \in {"turn", "percent"}, NEW x \in Token, Breaks(x),
           \/ x \in {"!", "?"}
           \/ x \in {"d", "e"} /\ counter >= Len(values)
           \/ textSize >= destSize
    PROVE  FormatInv'
<1>0. FormatType /\ TurnInv
  BY DEF FormatInv
<1>1. /\ tokens' = Append(tokens, x) /\ loop' = "done" /\ result' = 0
      /\ destSize' = destSize /\ values' = values /\ counter' = counter /\ written' = written
      /\ textSize' = textSize /\ output' = output
  BY DEF Breaks
<1>2. PICK n \in Nat : n = Len(tokens)
  BY <1>0 DEF FormatType
<1>3. PICK u : u = tokens'
  OBVIOUS
<1>4. tokens \in Seq(Token) /\ values \in Seq(Nat) /\ counter \in Nat
  BY <1>0 DEF FormatType
<1>5. /\ u \in Seq(Token) /\ Len(u) = n + 1 /\ u[n + 1] = x /\ DOMAIN u = 1 .. n + 1
      /\ AskedOf(u, n) = AskedOf(tokens, n) /\ TextOf(u, values, n) = TextOf(tokens, values, n)
  <2>1. Extends(Append(tokens, x), tokens, x, values, destSize, Len(tokens))
    BY <1>4, OneMore
  <2>2. Extends(u, tokens, x, values, destSize, n)
    BY <1>1, <1>2, <1>3, <2>1
  <2> QED
    BY <2>2 DEF Extends
<1>6. output = Untouched /\ counter = AskedOf(tokens, n) /\ textSize = TextOf(tokens, values, n)
  BY <1>0, <1>2 DEF TurnInv
<1>7. Fails(u, values, destSize, n + 1)
  <2>1. n + 1 - 1 = n
    OBVIOUS
  <2>2. ASSUME x \in {"d", "e"}, counter >= Len(values) PROVE AskedOf(u, n + 1) > Len(values)
    <3>1. AskedOf(u, n + 1) = counter + 1
      BY <1>5, <1>6, <2>2, AskedNext DEF Asks
    <3>2. Len(values) \in Nat
      BY <1>4
    <3> QED
      BY <1>4, <2>2, <3>1, <3>2
  <2> QED
    BY <1>5, <1>6, <2>1, <2>2 DEF Fails
<1>8. n + 1 \in DOMAIN u
  BY <1>5
<1>9. FormatType'
  BY <1>0, <1>1, <1>3, <1>5 DEF FormatType
<1>10. DoneInv'
  BY <1>1, <1>3, <1>6, <1>7, <1>8 DEF DoneInv, FilledIn
<1> QED
  BY <1>1, <1>9, <1>10 DEF FormatInv, TurnInv

\* The format ends, with a "%" or without.
LEMMA EndStep ==
    ASSUME FormatInv, FormatEnd
    PROVE  FormatInv'
<1>0. FormatType /\ TurnInv
  BY DEF FormatInv
<1>1. /\ loop = "turn" /\ tokens # <<>> /\ tokens' = tokens /\ loop' = "done" /\ result' = textSize
      /\ output' = IF textSize < destSize THEN textSize ELSE destSize - 1
      /\ destSize' = destSize /\ values' = values /\ counter' = counter /\ written' = written
      /\ textSize' = textSize
  BY DEF FormatEnd, Ends
<1>2. PICK n \in Nat : n = Len(tokens)
  BY <1>0 DEF FormatType
<1>3. DOMAIN tokens = 1 .. n
  BY <1>0, <1>2 DEF FormatType
<1>4. /\ textSize = TextOf(tokens, values, n) /\ Len(written) = n
      /\ Done(tokens, values, destSize, written, n)
  BY <1>0, <1>1, <1>2 DEF TurnInv
<1>5. \A i \in 1 .. n : /\ tokens[i] # "%" /\ ~Fails(tokens, values, destSize, i)
                        /\ written[i] = Piece(tokens, i)
  BY <1>4 DEF Done
<1>6. Cardinality({i \in DOMAIN tokens : tokens[i] # "%"}) = n
  <2>1. {i \in DOMAIN tokens : tokens[i] # "%"} = 1 .. n
    BY <1>3, <1>5
  <2>2. Cardinality(1 .. n) = n
    BY FS_Interval
  <2> QED
    BY <2>1, <2>2
<1>7. FormatType'
  BY <1>0, <1>1 DEF FormatType
<1>8. DoneInv'
  <2>1. ~(tokens = <<>> \/ \E i \in DOMAIN tokens : Fails(tokens, values, destSize, i))
    BY <1>1, <1>3, <1>5
  <2>2. FilledIn(tokens, values, destSize, written, textSize,
                 IF textSize < destSize THEN textSize ELSE destSize - 1)
    BY <1>2, <1>3, <1>4, <1>5, <1>6, <2>1 DEF FilledIn
  <2> QED
    BY <1>1, <2>2 DEF DoneInv
<1> QED
  BY <1>1, <1>7, <1>8 DEF FormatInv, TurnInv

LEMMA PercentEndStep ==
    ASSUME FormatInv, loop = "percent", counter >= Len(values), Ends, tokens' = Append(tokens, "%")
    PROVE  FormatInv'
<1>0. FormatType /\ TurnInv
  BY DEF FormatInv
<1>1. /\ loop' = "done" /\ result' = textSize
      /\ output' = IF textSize < destSize THEN textSize ELSE destSize - 1
      /\ destSize' = destSize /\ values' = values /\ counter' = counter /\ written' = written
      /\ textSize' = textSize
  BY DEF Ends
<1>2. PICK n \in Nat : n = Len(tokens)
  BY <1>0 DEF FormatType
<1>3. PICK u : u = tokens'
  OBVIOUS
<1>4. tokens \in Seq(Token) /\ values \in Seq(Nat) /\ counter \in Nat /\ "%" \in Token
      /\ textSize \in Nat /\ destSize \in Nat
  BY <1>0 DEF FormatType, Token
<1>5. /\ u \in Seq(Token) /\ Len(u) = n + 1 /\ u[n + 1] = "%" /\ DOMAIN u = 1 .. n + 1 /\ u # <<>>
      /\ \A i \in 1 .. n : /\ u[i] = tokens[i] /\ Piece(u, i) = Piece(tokens, i)
                           /\ AskedOf(u, i) = AskedOf(tokens, i)
                           /\ Fails(u, values, destSize, i) <=> Fails(tokens, values, destSize, i)
      /\ AskedOf(u, n) = AskedOf(tokens, n) /\ TextOf(u, values, n) = TextOf(tokens, values, n)
  <2>1. Extends(Append(tokens, "%"), tokens, "%", values, destSize, Len(tokens))
    BY <1>4, OneMore
  <2>2. Extends(u, tokens, "%", values, destSize, n)
    BY <1>2, <1>3, <2>1
  <2> QED
    BY <2>2 DEF Extends
<1>6. /\ textSize < destSize /\ counter = AskedOf(tokens, n) /\ counter <= Len(values)
      /\ textSize = TextOf(tokens, values, n) /\ Len(written) = n
      /\ Done(tokens, values, destSize, written, n)
  BY <1>0, <1>2 DEF TurnInv
<1>7. \A i \in 1 .. n : /\ u[i] # "%" /\ ~Fails(u, values, destSize, i)
                        /\ written[i] = Piece(u, i)
  BY <1>5, <1>6 DEF Done
<1>8. AskedOf(u, n + 1) = counter
  BY <1>5, <1>6, AskedNext DEF Asks
<1>9. ~Fails(u, values, destSize, n + 1)
  <2>1. n + 1 - 1 = n /\ Len(values) \in Nat
    BY <1>4
  <2>2. ~(AskedOf(u, n + 1) > Len(values)) /\ ~(TextOf(u, values, n) >= destSize)
    BY <1>4, <1>5, <1>6, <1>8, <2>1
  <2> QED
    BY <1>5, <2>1, <2>2 DEF Fails
<1>10. \A i \in 1 .. n + 1 : i \in 1 .. n \/ i = n + 1
  OBVIOUS
<1>11. {i \in DOMAIN u : u[i] # "%"} = 1 .. n
  <2>1. \A i \in 1 .. n : i \in 1 .. n + 1
    OBVIOUS
  <2> QED
    BY <1>5, <1>7, <1>10, <2>1
<1>12. Cardinality(1 .. n) = n
  BY FS_Interval
<1>13. TextOf(u, values, n + 1) = textSize
  <2>1. Given(u, values, n + 1)
    <3>1. ASSUME NEW i \in 1 .. n PROVE AskedOf(u, i) <= Len(values)
      <4>1. ~(AskedOf(u, i) > Len(values))
        BY <1>7 DEF Fails
      <4>2. AskedOf(u, i) \in Nat /\ Len(values) \in Nat
        BY <1>4, AskedNext
      <4> QED
        BY <4>1, <4>2
    <3> QED
      BY <1>5, <1>10, <3>1 DEF Given
  <2>2. TextOf(u, values, n + 1) = TextOf(u, values, n) + LengthAt(u, values, n + 1)
    BY <1>4, <2>1, TextNext
  <2>3. LengthAt(u, values, n + 1) = 0
    BY <1>5 DEF LengthAt
  <2> QED
    BY <1>4, <1>5, <1>6, <2>2, <2>3
<1>14. FormatType'
  BY <1>0, <1>1, <1>3, <1>5 DEF FormatType
<1>15. DoneInv'
  <2>1. ~(u = <<>> \/ \E i \in DOMAIN u : Fails(u, values, destSize, i))
    BY <1>5, <1>7, <1>9, <1>10
  <2>2. FilledIn(u, values, destSize, written, textSize,
                 IF textSize < destSize THEN textSize ELSE destSize - 1)
    BY <1>5, <1>6, <1>7, <1>11, <1>12, <1>13, <2>1 DEF FilledIn
  <2> QED
    BY <1>1, <1>3, <2>2 DEF DoneInv
<1> QED
  BY <1>1, <1>14, <1>15 DEF FormatInv, TurnInv

LEMMA FormatStep == FormatInv /\ [FormatNext]_formatVars => FormatInv'
<1> SUFFICES ASSUME FormatInv, [FormatNext]_formatVars PROVE FormatInv'
  OBVIOUS
<1>0. FormatType /\ TurnInv
  BY DEF FormatInv
<1>1. textSize \in Nat /\ destSize \in Nat /\ counter \in Nat /\ values \in Seq(Nat) /\ Len(values) \in Nat
  BY <1>0 DEF FormatType
<1>2. ASSUME NEW size \in 0 .. MaxSize, NEW n \in 0 .. MaxValues, NEW isEmpty \in BOOLEAN,
             NEW lengths \in [1 .. n -> 0 .. MaxLength], FormatBegin(size, lengths, isEmpty)
      PROVE  FormatInv'
  BY <1>2, FormatBeginStep
<1>3. CASE Character
  <2>1. loop = "turn" /\ textSize < destSize /\ Writes("c", 0, 1) /\ counter' = counter
    BY <1>1, <1>3 DEF Character, Full
  <2> QED
    BY <2>1, WriteStep
<1>4. CASE PercentPercent
  <2>1. loop = "percent" /\ Writes("%%", 0, 1) /\ counter' = counter
    BY <1>4 DEF PercentPercent
  <2>2. textSize < destSize
    BY <1>0, <2>1 DEF TurnInv
  <2> QED
    BY <2>1, <2>2, WriteStep
<1>5. CASE Percent
  <2>1. /\ loop = "turn" /\ textSize < destSize /\ loop' = "percent"
        /\ UNCHANGED <<destSize, values, counter, tokens, written, textSize, result, output>>
    BY <1>1, <1>5 DEF Percent, Full
  <2>2. FormatType'
    BY <1>0, <2>1 DEF FormatType
  <2>3. TurnInv'
    BY <1>0, <2>1 DEF TurnInv
  <2> QED
    BY <2>1, <2>2, <2>3 DEF FormatInv, DoneInv
<1>6. ASSUME NEW x \in Token, TooSmall(x) PROVE FormatInv'
  BY <1>6, BreakStep DEF TooSmall, Full
<1>7. ASSUME NEW x \in Token, NoValue(x) PROVE FormatInv'
  <2>1. CASE x = "%"
    BY <1>7, <2>1, PercentEndStep DEF NoValue
  <2>2. CASE x # "%"
    <3>1. loop = "percent" /\ counter >= Len(values) /\ x \in {"d", "e", "?"} /\ Breaks(x)
      BY <1>7, <2>2 DEF NoValue
    <3> QED
      BY <3>1, BreakStep
  <2> QED
    BY <2>1, <2>2
<1>8. ASSUME NEW x \in Token, ValueOf(x) PROVE FormatInv'
  <2>1. loop = "percent" /\ counter < Len(values) /\ textSize < destSize
    BY <1>0, <1>8 DEF ValueOf, TurnInv
  <2>2. CASE x \in {"d", "e"} /\ Writes(x, counter + 1, values[counter + 1]) /\ counter' = counter + 1
    <3>1. PICK value \in Nat : value = counter + 1
      BY <1>1
    <3>2. value \in 1 .. Len(values)
      BY <1>1, <2>1, <3>1
    <3>3. PICK length \in Nat : length = values[value]
      BY <1>1, <3>2, ElementOfSeq
    <3> QED
      BY <2>1, <2>2, <3>1, <3>3, WriteStep
  <2>3. CASE x \in {"!", "?"} /\ Breaks(x)
    BY <2>1, <2>3, BreakStep
  <2> QED
    BY <1>8, <2>2, <2>3 DEF ValueOf
<1>9. CASE FormatEnd
  BY <1>9, EndStep
<1>10. CASE UNCHANGED formatVars
  BY <1>10 DEF formatVars, FormatInv, FormatType, TurnInv, DoneInv
<1> QED
  BY <1>2, <1>3, <1>4, <1>5, <1>6, <1>7, <1>8, <1>9, <1>10 DEF FormatNext

\* What mysql_format returns and writes is the format with its values filled in,
\* cut where the destination ends, or nothing, for a format of any length.
THEOREM TextCorrect == FormatSpec => []TextIsFilledIn
<1> QED
  BY FormatCorrect, FormatInitInv, FormatStep, PTL DEF FormatSpec

=============================================================================
