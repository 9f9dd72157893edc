------------------------------ MODULE ResultData ------------------------------
(***************************************************************************)
(* CResult: how CResultSet::Create copies the rows of a SELECT into one    *)
(* block of memory, and how the cache_get_value_* natives read it.         *)
(*                                                                         *)
(* The block begins with a pointer to each row.  A row is copied with all  *)
(* that the client library has put into it: a pointer to each value, one   *)
(* more behind them, and the values, each with a zero at its end.  All     *)
(* rows get the same space, which is computed before the first is seen,    *)
(* and each begins where the one before it has ended.                      *)
(*                                                                         *)
(* A byte of the block is the byte of the client's row that was copied     *)
(* there.  Of a value only its length matters, which also says whether it  *)
(* begins with a number.                                                   *)
(***************************************************************************)
EXTENDS Integers, Sequences, FiniteSetsExt, Functions

CONSTANTS
    PointerSize,  \* sizeof(char *)
    UIntMod,      \* unsigned integers are modulo this
    FieldName,    \* names of columns
    MaxRows,      \* bound: rows of a result
    MaxFields,    \* bound: columns
    MaxText,      \* bound: characters of a value
    NumberLength  \* the lengths of the values that begin with a number

ASSUME SizesAssumption ==
    /\ PointerSize \in {4, 8}
    /\ MaxRows \in Nat /\ MaxFields \in Nat /\ MaxText \in Nat
    /\ NumberLength \subseteq 1 .. MaxText
    /\ UIntMod \in Nat /\ MaxRows + 1 < UIntMod /\ MaxFields + 1 < UIntMod

VARIABLES
    copying,    \* "none", "rows" or "done": where Create is
    fields,     \* m_Fields: the names of the columns
    sent,       \* the rows of the MYSQL_RES, whose number is m_NumRows
    memOffset,  \* mem_offset
    memory,     \* what has been written to the block: <<row, byte of the row>>
    data,       \* m_Data[r][f], for the rows copied so far
    answer      \* what a native was asked, and what it has answered

dataVars == <<copying, fields, sent, memOffset, memory, data, answer>>

\* A value is the length of its text, or NULL.  A text has a zero at its end,
\* and NULL has no place in a row.
Null == -1
Datum == 0 .. MaxText \union {Null}
Spaces(row) == [f \in DOMAIN row |-> row[f] + 1]

Nullptr == -1
NoByte == <<0, 0>>
NoAnswer == [kind |-> "none", row |-> 0, field |-> 0, name |-> "", outcome |-> "none",
             at |-> NoByte]

DataInit ==
    /\ copying = "none" /\ fields = <<>> /\ sent = <<>>
    /\ memOffset = 0 /\ memory = [x \in {} |-> NoByte] /\ data = <<>>
    /\ answer = NoAnswer

-----------------------------------------------------------------------------
(***************************************************************************)
(* CResultSet::Create                                                      *)
(***************************************************************************)

\* mysql_store_result.
StoreResult(names, rows) ==
    /\ copying = "none"
    /\ copying' = "rows"
    /\ fields' = names /\ sent' = rows
    /\ memOffset' = PointerSize * Len(rows)
    /\ UNCHANGED <<memory, data, answer>>

\* max_length of a column
Width(f) == Max({0} \union {sent[r][f] : r \in DOMAIN sent})

Widths == [f \in DOMAIN fields |-> Width(f) + 1]

BytesOfRow == PointerSize * (Len(fields) + 1) + SumFunctionOnSet(Widths, DOMAIN fields)

\* Mutant: the size of a row is not rounded up.
ExactRowSize == BytesOfRow

\* mem_row_size
RowSize == BytesOfRow + (8 - (BytesOfRow % 8))

BlockSize == Len(sent) * (PointerSize + RowSize)

\* Where the client library has put value f of a row, or what comes behind.
Place(row, f) ==
    PointerSize * (Len(fields) + 1) + SumFunctionOnSet(Spaces(row), 1 .. f - 1)

\* One row: memcpy, and the correction of its pointers.
CopyRow ==
    /\ copying = "rows" /\ Len(data) < Len(sent)
    /\ LET r == Len(data) + 1
           row == sent[r]
           target == memOffset .. memOffset + Place(row, Len(fields) + 1) - 1
       IN  /\ memory' = [x \in DOMAIN memory \union target |->
                            IF x \in target THEN <<r, x - memOffset>> ELSE memory[x]]
           /\ data' = Append(data, [f \in DOMAIN fields |->
                                       IF row[f] = Null THEN Nullptr
                                       ELSE memOffset + Place(row, f)])
    /\ memOffset' = memOffset + PointerSize * (RowSize \div PointerSize)
    /\ UNCHANGED <<copying, fields, sent, answer>>

CopyEnd ==
    /\ copying = "rows" /\ Len(data) = Len(sent)
    /\ copying' = "done"
    /\ UNCHANGED <<fields, sent, memOffset, memory, data, answer>>

-----------------------------------------------------------------------------
(***************************************************************************)
(* The natives.  Rows and columns are counted from zero, in signed cells.  *)
(* None changes what another one reads, so one is looked at.               *)
(***************************************************************************)
Unsigned(i) == i % UIntMod

\* ConvertStrToData, for the text at p.
IsNumber(p) ==
    LET row == sent[memory[p][1]]
    IN  \E f \in DOMAIN fields : /\ row[f] \in NumberLength
                                 /\ Place(row, f) = memory[p][2]

\* What the natives for texts, numbers and NULLs make of a pointer.
AsText(p) == IF p = Nullptr THEN "NULL" ELSE "value"
AsNumber(p) == IF p # Nullptr /\ IsNumber(p) THEN "value" ELSE "refused"
AsNull(p) == IF p = Nullptr THEN "true" ELSE "false"

Outcome(kind, p) ==
    CASE kind = "text" -> AsText(p)
      [] kind = "number" -> AsNumber(p)
      [] kind = "null" -> AsNull(p)

Answers(asked, outcome, p) ==
    /\ answer' = [asked EXCEPT !.outcome = outcome,
                               !.at = IF outcome = "value" THEN memory[p] ELSE NoByte]
    /\ UNCHANGED <<copying, fields, sent, memOffset, memory, data>>

\* cache_get_value_index, cache_get_value_index_int and _float,
\* cache_is_value_index_null: CResult::GetRowData.
GetValueIndex(kind, row, field) ==
    /\ copying = "done" /\ answer = NoAnswer
    /\ LET asked == [NoAnswer EXCEPT !.kind = kind, !.row = row, !.field = field]
           r == Unsigned(row)
           f == Unsigned(field)
       IN  IF r < Len(sent) /\ f < Len(fields)
           THEN Answers(asked, Outcome(kind, data[r + 1][f + 1]), data[r + 1][f + 1])
           ELSE Answers(asked, "refused", Nullptr)

\* Mutant: the last column of that name is read.
NamedLast(name) == Max({f \in DOMAIN fields : fields[f] = name})

\* The loop of CResult::GetRowDataByName.
Named(name) == Min({f \in DOMAIN fields : fields[f] = name})

\* cache_get_value_name, cache_get_value_name_int and _float,
\* cache_is_value_name_null, for a name that is not empty.
GetValueName(kind, row, name) ==
    /\ copying = "done" /\ answer = NoAnswer
    /\ LET asked == [NoAnswer EXCEPT !.kind = kind, !.row = row, !.name = name]
           r == Unsigned(row)
       IN  IF r < Len(sent) /\ \E f \in DOMAIN fields : fields[f] = name
           THEN LET p == data[r + 1][Named(name)] IN Answers(asked, Outcome(kind, p), p)
           ELSE Answers(asked, "refused", Nullptr)

Row(n) == [1 .. n -> Datum]

DataNext ==
    \/ \E n \in 1 .. MaxFields, m \in 0 .. MaxRows :
          \E names \in [1 .. n -> FieldName], rows \in [1 .. m -> Row(n)] :
             StoreResult(names, rows)
    \/ CopyRow \/ CopyEnd
    \/ \E kind \in {"text", "number", "null"}, row \in -1 .. MaxRows :
          \/ \E field \in -1 .. MaxFields : GetValueIndex(kind, row, field)
          \/ \E name \in FieldName \ {""} : GetValueName(kind, row, name)

DataSpec == DataInit /\ [][DataNext]_dataVars

-----------------------------------------------------------------------------
(***************************************************************************)
(* Properties.                                                             *)
(***************************************************************************)

\* The copy of value f of row r, its zero included, is where its pointer leads.
IsCopied(r, f) ==
    IF sent[r][f] = Null THEN data[r][f] = Nullptr
    ELSE \A k \in 0 .. sent[r][f] :
            /\ data[r][f] + k \in DOMAIN memory
            /\ memory[data[r][f] + k] = <<r, Place(sent[r], f) + k>>

\* The column a native was asked for: by index, or the first of the name.
AskedFor(f) ==
    IF answer.name = "" THEN f = answer.field + 1
    ELSE fields[f] = answer.name /\ \A g \in 1 .. f - 1 : fields[g] # answer.name

\* What a native should say of a value.
Expected(kind, v) ==
    CASE kind = "null" -> IF v = Null THEN "true" ELSE "false"
      [] kind = "number" -> IF v \in NumberLength THEN "value" ELSE "refused"
      [] OTHER -> IF v = Null THEN "NULL" ELSE "value"

Right(r, f) ==
    LET v == sent[r][f]
    IN  /\ answer.outcome = Expected(answer.kind, v)
        /\ answer.outcome = "value" => answer.at = <<r, Place(sent[r], f)>>

\* The rows are in the block, each value where its pointer leads.
RowsAreCopied ==
    /\ \A r \in DOMAIN data, f \in DOMAIN fields : IsCopied(r, f)
    /\ copying # "none" => DOMAIN memory \subseteq PointerSize * Len(sent) .. BlockSize - 1

AnswerIsRight ==
    answer # NoAnswer =>
       LET found == {p \in (DOMAIN sent) \X (DOMAIN fields) :
                       p[1] = answer.row + 1 /\ AskedFor(p[2])}
       IN  IF found = {} THEN answer.outcome = "refused"
           ELSE \A p \in found : Right(p[1], p[2])

\* Natives read what MySQL has sent.  Although the space of a row is computed
\* from the widths of the columns, rounded up and divided again, no row reaches
\* into another one, or over the end of the block; and a native that names a
\* value gets this value, or learns that it is NULL or no number, and is refused
\* when there is none, for indices below zero, too.
ReadsWhatWasSent == RowsAreCopied /\ AnswerIsRight
=============================================================================
