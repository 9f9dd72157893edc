-------------------------------- MODULE Format --------------------------------
(***************************************************************************)
(* mysql_format: how a format and values become the text of a query.       *)
(*                                                                         *)
(* The loop takes a step for each turn, so that all formats are looked at  *)
(* token by token.  Of a value only the length of its text matters, which  *)
(* decides whether the destination is large enough.  A format must not end *)
(* within a specifier for which there is a value: the code would read on   *)
(* behind its end.                                                         *)
(***************************************************************************)
EXTENDS Integers, SequencesExt

CONSTANTS
    MaxTokens,  \* bound: characters and specifiers of a format
    MaxValues,  \* bound: values after it
    MaxLength,  \* bound: characters of a value's text
    MaxSize     \* bound: the destination size

ASSUME SizeAssumption ==
    /\ MaxTokens \in Nat /\ MaxValues \in Nat /\ MaxLength \in Nat /\ MaxSize \in Nat

VARIABLES
    loop,      \* "none", "turn", "percent" or "done": where mysql_format is
    destSize,  \* dest_maxsize
    values,    \* the lengths of the values' texts
    counter,   \* param_counter
    tokens,    \* history: what has been read of the format
    written,   \* dest_writer, piece by piece
    textSize,    \* dest_writer.size()
    result,    \* ret_val
    output     \* how many characters the destination has got, or Untouched

formatVars == <<loop, destSize, values, counter, tokens, written, textSize, result, output>>

\* A character, "%%", a specifier, "%e", "%e" with a value that cannot be
\* escaped, a specifier that does not exist, and a "%" that ends the format.
Token == {"c", "%%", "d", "e", "!", "?", "%"}

Untouched == -1

FormatInit ==
    /\ loop = "none" /\ destSize = 0 /\ values = <<>> /\ counter = 0
    /\ tokens = <<>> /\ written = <<>> /\ textSize = 0
    /\ result = 0 /\ output = Untouched

-----------------------------------------------------------------------------
\* An empty format, or no destination, is an error at once.
FormatBegin(size, lengths, isEmpty) ==
    /\ loop = "none"
    /\ loop' = IF isEmpty \/ size = 0 THEN "done" ELSE "turn"
    /\ destSize' = size /\ values' = lengths
    /\ UNCHANGED <<counter, tokens, written, textSize, result, output>>

\* Reads a token and writes n characters for it, of value v or of none.
Writes(token, v, n) ==
    /\ tokens' = Append(tokens, token)
    /\ written' = Append(written, [token |-> Len(tokens'), value |-> v])
    /\ textSize' = textSize + n
    /\ loop' = "turn"
    /\ UNCHANGED <<destSize, values, result, output>>

\* Reads a token and leaves the loop before the format's end.
Breaks(token) ==
    /\ tokens' = Append(tokens, token)
    /\ loop' = "done" /\ result' = 0
    /\ UNCHANGED <<destSize, values, counter, written, textSize, output>>

\* if (*format_str == '\0'): the text goes to the destination, as far as it
\* fits.
Ends ==
    /\ loop' = "done"
    /\ result' = textSize
    /\ output' = IF textSize < destSize THEN textSize ELSE destSize - 1
    /\ UNCHANGED <<destSize, values, counter, written, textSize>>

\* Mutant: only a text that is already too long is noticed.
FullTooLate == textSize > destSize

\* if (dest_writer.size() >= dest_maxsize)
Full == textSize >= destSize

\* One more turn is too much.
TooSmall(token) == loop = "turn" /\ Full /\ Breaks(token)

Character ==
    /\ loop = "turn" /\ ~Full
    /\ Writes("c", 0, 1)
    /\ UNCHANGED counter

Percent ==
    /\ loop = "turn" /\ ~Full
    /\ loop' = "percent"
    /\ UNCHANGED <<destSize, values, counter, tokens, written, textSize, result, output>>

PercentPercent ==
    /\ loop = "percent"
    /\ Writes("%%", 0, 1)
    /\ UNCHANGED counter

\* if (param_counter >= num_dyn_args).  If there is no letter any more, the
\* loop is left at the end of the format, as if it were complete.
NoValue(token) ==
    /\ loop = "percent" /\ counter >= Len(values)
    /\ token \in {"d", "e", "?", "%"}
    /\ IF token = "%" THEN Ends /\ tokens' = Append(tokens, token) ELSE Breaks(token)

\* The specifier, with its flags, and its value; or break_loop.
ValueOf(token) ==
    /\ loop = "percent" /\ counter < Len(values)
    /\ \/ /\ token \in {"d", "e"}
          /\ Writes(token, counter + 1, values[counter + 1])
          /\ counter' = counter + 1
       \/ token \in {"!", "?"} /\ Breaks(token)

FormatEnd ==
    /\ loop = "turn" /\ tokens # <<>>
    /\ Ends /\ UNCHANGED tokens

FormatNext ==
    \/ \E size \in 0 .. MaxSize, n \in 0 .. MaxValues, isEmpty \in BOOLEAN :
          \E lengths \in [1 .. n -> 0 .. MaxLength] : FormatBegin(size, lengths, isEmpty)
    \/ /\ Len(tokens) < MaxTokens
       /\ \/ Character \/ PercentPercent \/ Percent
          \/ \E token \in Token : TooSmall(token) \/ NoValue(token) \/ ValueOf(token)
    \/ FormatEnd

FormatSpec == FormatInit /\ [][FormatNext]_formatVars

-----------------------------------------------------------------------------
(***************************************************************************)
(* Properties.                                                             *)
(***************************************************************************)

\* How many values the first i tokens ask for.
Asked(i) == Cardinality({j \in 1 .. i : tokens[j] \in {"d", "e", "!", "?"}})

\* How long the texts are that the first n tokens stand for, and the whole.
Lengths(n) ==
    [i \in 1 .. n |-> CASE tokens[i] \in {"c", "%%"} -> 1
                        [] tokens[i] \in {"d", "e"} -> values[Asked(i)]
                        [] OTHER -> 0]

TextLength(n) == SumFunctionOnSet(Lengths(n), 1 .. n)

\* The format cannot be filled in: its token i is wrong, asks for a value that
\* is missing, or comes when the destination is full.
FailsAt(i) ==
    \/ tokens[i] \in {"!", "?"}
    \/ Asked(i) > Len(values)
    \/ TextLength(i - 1) >= destSize

\* What mysql_format returns is the length of the format's text, every
\* specifier with its own value, or 0, and then the destination is as it was.
\* A destination that is too small is an error only if the format goes on when
\* it is full: if its last piece does not fit the text is cut, and that shows
\* in nothing but a result that is as large as the destination, or larger.
TextIsFilledIn ==
    loop = "done" =>
       IF tokens = <<>> \/ \E i \in DOMAIN tokens : FailsAt(i)
       THEN result = 0 /\ output = Untouched
       ELSE LET pieces == {i \in DOMAIN tokens : tokens[i] # "%"}
            IN  /\ result = TextLength(Len(tokens))
                /\ Len(written) = Cardinality(pieces)
                /\ \A i \in pieces :
                      written[i] = [token |-> i,
                                    value |-> IF tokens[i] \in {"d", "e"} THEN Asked(i)
                                              ELSE 0]
                /\ output = IF result < destSize THEN result ELSE destSize - 1
=============================================================================
