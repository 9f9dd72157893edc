------------------------------- MODULE Callback -------------------------------
(***************************************************************************)
(* CCallback: the arguments of a callback, from the native that gets them  *)
(* with a format string to the public that is called with them later.      *)
(*                                                                         *)
(* The loops of Create and Execute take a step for each turn, so that all  *)
(* formats are looked at letter by letter.  An argument is known by its    *)
(* position.  All a native sees of it is the cell its address leads to,    *)
(* and all that matters of this cell is whether it is a positive number,   *)
(* when it is the size of an array.  Each string and array takes one unit  *)
(* of the heap of the AMX.                                                 *)
(***************************************************************************)
EXTENDS Integers, Sequences

CONSTANTS
    MaxFormat,  \* bound: letters of a format string, and arguments
    MaxHeap     \* bound: units of the AMX's heap in use before the call

ASSUME FormatAssumption == MaxFormat \in Nat /\ MaxHeap \in Nat

VARIABLES
    callback,  \* how far the callback has come: see CallbackState
    expected,  \* num_params
    format,    \* the letters that have been processed
    positive,  \* history: the arguments among them that are positive numbers
    array,     \* the argument of array_addr_ptr, or 0 for nullptr
    params,    \* param_list, m_Params
    copies,    \* the arrays that have been copied and not freed yet
    pushed,    \* what Execute has pushed onto the stack of the AMX
    heap,      \* the units of the heap in use
    before,    \* history: those that were in use before the call
    address    \* amx_address

callbackVars == <<callback, expected, format, positive, array, params, copies,
                  pushed, heap, before, address>>

Letter == {"d", "i", "f", "b", "s", "a", "r", "?"}  \* "?": any other

CallbackState == {"none", "miscounted", "creating", "refused", "created", "skipped",
                  "pushing", "called"}

NoAddress == -1  \* cell amx_address = -1

CallbackInit ==
    /\ callback = "none" /\ expected = 0
    /\ format = <<>> /\ positive = {} /\ array = 0 /\ params = <<>> /\ copies = {}
    /\ pushed = <<>> /\ heap = 0 /\ before = 0 /\ address = NoAddress

-----------------------------------------------------------------------------
(***************************************************************************)
(* CCallback::Create, for a public that exists.                            *)
(***************************************************************************)
Cell(i) == [spec |-> "c", arg |-> i, size |-> 0]
String(i) == [spec |-> "s", arg |-> i, size |-> 0]
Reference(i) == [spec |-> "r", arg |-> i, size |-> 0]
Array(i, size) == [spec |-> "a", arg |-> i, size |-> size]

PushFront(list, p) == <<p>> \o list

\* A format of `length' letters and `count' arguments after it.
CreateBegin(length, count) ==
    /\ callback = "none"
    /\ callback' = CASE count # length -> "miscounted"  \* INVALID_PARAM_COUNT
                     [] length = 0 -> "created"
                     [] OTHER -> "creating"
    /\ expected' = length
    /\ UNCHANGED <<format, positive, array, params, copies, pushed, heap, before, address>>

\* EXPECTED_ARRAY_SIZE, INVALID_ARRAY_SIZE and INVALID_FORMAT_SPECIFIER
Refuses(letter, isPositive) ==
    \/ array # 0 /\ (letter \notin {"d", "i"} \/ ~isPositive)
    \/ letter \notin {"d", "i", "f", "b", "s", "a", "r"}

\* Mutant: the array is pushed behind its size.
ListedSizeFirst(letter, i) ==
    CASE letter = "a" -> params
      [] array # 0 -> PushFront(PushFront(params, Cell(i)), Array(array, i))
      [] letter = "s" -> PushFront(params, String(i))
      [] letter = "r" -> PushFront(params, Reference(i))
      [] OTHER -> PushFront(params, Cell(i))

\* An array is listed together with its size.
Listed(letter, i) ==
    CASE letter = "a" -> params
      [] array # 0 -> PushFront(PushFront(params, Array(array, i)), Cell(i))
      [] letter = "s" -> PushFront(params, String(i))
      [] letter = "r" -> PushFront(params, Reference(i))
      [] OTHER -> PushFront(params, Cell(i))

\* One turn of the loop.
Specifier(letter, isPositive) ==
    LET i == Len(format) + 1
    IN  /\ callback = "creating" /\ Len(format) < expected
        /\ format' = Append(format, letter)
        /\ positive' = IF isPositive THEN positive \union {i} ELSE positive
        /\ IF Refuses(letter, isPositive)
           THEN callback' = "refused" /\ UNCHANGED <<array, params, copies>>
           ELSE /\ params' = Listed(letter, i)
                /\ array' = IF letter = "a" THEN i ELSE 0
                /\ copies' = IF array # 0 THEN copies \union {array} ELSE copies
                /\ UNCHANGED callback
        /\ UNCHANGED <<expected, pushed, heap, before, address>>

\* Behind the loop: NO_ARRAY_SIZE, or the callback is returned.
CreateEnd ==
    /\ callback = "creating" /\ Len(format) = expected
    /\ callback' = IF array # 0 THEN "refused" ELSE "created"
    /\ UNCHANGED <<expected, format, positive, array, params, copies, pushed, heap,
                   before, address>>

-----------------------------------------------------------------------------
(***************************************************************************)
(* CCallback::Execute.                                                     *)
(***************************************************************************)

\* The AMX is not loaded any more.
ExecuteInvalid ==
    /\ callback = "created"
    /\ callback' = "skipped"
    /\ UNCHANGED <<expected, format, positive, array, params, copies, pushed, heap,
                   before, address>>

\* The server calls the public in an AMX with h units of its heap in use.
ExecuteBegin(h) ==
    /\ callback = "created"
    /\ callback' = "pushing"
    /\ heap' = h /\ before' = h
    /\ UNCHANGED <<expected, format, positive, array, params, copies, pushed, address>>

OnHeap(p) == p.spec \in {"s", "a"}

\* if (amx_address < 0) amx_address = tmp_addr;
AddressOfFirst(p) == IF OnHeap(p) /\ address < 0 THEN heap ELSE address

\* One turn of the loop.
PushNext ==
    /\ callback = "pushing" /\ Len(pushed) < Len(params)
    /\ LET p == params[Len(pushed) + 1]
       IN  /\ pushed' = Append(pushed, p)
           /\ heap' = IF OnHeap(p) THEN heap + 1 ELSE heap
           /\ address' = AddressOfFirst(p)
           /\ copies' = IF p.spec = "a" THEN copies \ {p.arg} ELSE copies
    /\ UNCHANGED <<callback, expected, format, positive, array, params, before>>

\* amx_Exec, whose public leaves the heap as it was, and amx_Release.
ExecuteEnd ==
    /\ callback = "pushing" /\ Len(pushed) = Len(params)
    /\ callback' = "called"
    /\ heap' = IF address >= 0 THEN address ELSE heap
    /\ UNCHANGED <<expected, format, positive, array, params, copies, pushed, before,
                   address>>

CallbackNext ==
    \/ \E length, count \in 0 .. MaxFormat : CreateBegin(length, count)
    \/ \E letter \in Letter, isPositive \in BOOLEAN : Specifier(letter, isPositive)
    \/ CreateEnd
    \/ ExecuteInvalid
    \/ \E h \in 0 .. MaxHeap : ExecuteBegin(h)
    \/ PushNext
    \/ ExecuteEnd

CallbackSpec == CallbackInit /\ [][CallbackNext]_callbackVars

-----------------------------------------------------------------------------
(***************************************************************************)
(* Properties.                                                             *)
(***************************************************************************)

\* Something is wrong with the argument at position i.
Wrong(i) ==
    \/ format[i] = "?"
    \/ /\ format[i] = "a"
       /\ IF i = Len(format) THEN i = expected
          ELSE format[i + 1] \notin {"d", "i"} \/ i + 1 \notin positive

\* The value the public should get for it.
Value(i) ==
    CASE format[i] = "s" -> String(i)
      [] format[i] = "a" -> Array(i, i + 1)
      [] format[i] = "r" -> Reference(i)
      [] OTHER -> Cell(i)

\* A public gets all arguments the native was given, each the way its letter
\* says and in the same order, an array with the size behind it - although
\* parameters are listed from the last to the first, the AMX takes the last
\* value pushed as the first, and an array is listed only when its size comes.
\* Afterwards every copy of an array is freed, and the heap of the AMX is as it
\* was before.  A native refuses exactly the formats for which this cannot be.
PublicGetsItsArguments ==
    /\ callback = "called" =>
          /\ Len(pushed) = expected
          /\ \A i \in 1 .. expected : pushed[expected + 1 - i] = Value(i)
          /\ copies = {}
          /\ heap = before
    /\ callback \in {"created", "called"} => \A i \in 1 .. expected : ~Wrong(i)
    /\ callback = "refused" => \E i \in DOMAIN format : Wrong(i)
=============================================================================
