------------------------------ MODULE FileParser ------------------------------
(***************************************************************************)
(* ParseQueriesFromFile: how the natives mysql_tquery_file and             *)
(* mysql_query_file split a file into queries.                             *)
(*                                                                         *)
(* The file is read line by line, and each line is searched for            *)
(* semicolons until none is left.  Of the characters, only those that      *)
(* begin a comment or end a query matter: "x" stands for all others.       *)
(***************************************************************************)
EXTENDS Naturals, SequencesExt

CONSTANTS
    MaxChars  \* bound: characters of a file, the ends of its lines included

ASSUME FileAssumption == MaxChars \in Nat

VARIABLES
    parse,      \* "lines", "line" or "done": where ParseQueriesFromFile is
    read,       \* how many characters have been read
    queryStr,   \* query_str
    tmpStr,     \* tmp_query_str
    queries,    \* queries
    text,       \* history: the lines read, without their comments
    dashesLeft  \* history: such a line ended in two dashes

fileVars == <<parse, read, queryStr, tmpStr, queries, text, dashesLeft>>

Char == {"x", ";", "#", "-", " "}

\* The lines for which n characters are left.
Lines(n) == UNION {[1 .. k -> Char] : k \in 0 .. n - 1}

FileInit ==
    /\ parse = "lines" /\ read = 0
    /\ queryStr = <<>> /\ tmpStr = <<>> /\ queries = <<>>
    /\ text = <<>> /\ dashesLeft = FALSE

-----------------------------------------------------------------------------
\* Where str has "-- "
Dashes(str) == {i \in 1 .. Len(str) - 2 : SubSeq(str, i, i + 2) = <<"-", "-", " ">>}

\* Where it has the character c.
Places(str, c) == {i \in DOMAIN str : str[i] = c}

\* Mutant: a line is searched for "#" only if it has no "-- ".
WithoutCommentOfDashes(line) ==
    LET starts == IF Dashes(line) # {} THEN Dashes(line) ELSE Places(line, "#")
    IN  IF starts = {} THEN line ELSE SubSeq(line, 1, Min(starts) - 1)

\* std::min of the two places, and tmp_query_str.erase(comment_pos).
WithoutComment(line) ==
    LET starts == Dashes(line) \union Places(line, "#")
    IN  IF starts = {} THEN line ELSE SubSeq(line, 1, Min(starts) - 1)

\* std::getline.  An empty line is skipped, and any other ends in a space.
ReadLine(line) ==
    /\ parse = "lines"
    /\ read' = read + Len(line) + 1
    /\ IF line = <<>>
       THEN UNCHANGED <<parse, tmpStr, text, dashesLeft>>
       ELSE LET left == WithoutComment(line)
            IN  /\ parse' = "line"
                /\ tmpStr' = Append(left, " ")
                /\ text' = text \o tmpStr'
                /\ dashesLeft' = (dashesLeft \/ IsSuffix(<<"-", "-">>, left))
    /\ UNCHANGED <<queryStr, queries>>

\* while ((sem_pos = tmp_query_str.find(';')) != string::npos)
TakeQuery ==
    /\ parse = "line" /\ Places(tmpStr, ";") # {}
    /\ LET sem == Min(Places(tmpStr, ";"))
       IN  /\ queries' = Append(queries, queryStr \o SubSeq(tmpStr, 1, sem))
           /\ tmpStr' = SubSeq(tmpStr, sem + 1, Len(tmpStr))
    /\ queryStr' = <<>>
    /\ UNCHANGED <<parse, read, text, dashesLeft>>

\* query_str.append(tmp_query_str)
KeepRest ==
    /\ parse = "line" /\ Places(tmpStr, ";") = {}
    /\ queryStr' = queryStr \o tmpStr
    /\ tmpStr' = <<>>
    /\ parse' = "lines"
    /\ UNCHANGED <<read, queries, text, dashesLeft>>

\* The end of the file.  What no semicolon has ended is no query.
FileEnd ==
    /\ parse = "lines"
    /\ parse' = "done"
    /\ UNCHANGED <<read, queryStr, tmpStr, queries, text, dashesLeft>>

FileNext ==
    \/ \E line \in Lines(MaxChars - read) : ReadLine(line)
    \/ TakeQuery \/ KeepRest \/ FileEnd

FileSpec == FileInit /\ [][FileNext]_fileVars

-----------------------------------------------------------------------------
(***************************************************************************)
(* Properties.                                                             *)
(***************************************************************************)

\* However queries and lines overlap: the queries are the parts of the text
\* that end at a semicolon, all of them, in order and complete, and none has a
\* semicolon before its end.
SplitsAtSemicolons ==
    /\ FlattenSeq(queries) \o queryStr \o tmpStr = text
    /\ \A k \in DOMAIN queries : Places(queries[k], ";") = {Len(queries[k])}
    /\ Places(queryStr, ";") = {}

\* No query has a comment in it, but for one that the plugin itself makes: where
\* a line ends in two dashes, a space is appended and "-- " comes together.
CommentsAreCut ==
    \A k \in DOMAIN queries :
       Places(queries[k], "#") = {} /\ (Dashes(queries[k]) # {} => dashesLeft)

\* mysql_tquery_file and mysql_query_file send the queries of the file.
SendsWhatTheFileSays == SplitsAtSemicolons /\ CommentsAreCut
=============================================================================
