------------------------- MODULE MCResultSetManager -------------------------
(***************************************************************************)
(* What the natives that send queries are given and what they give back,   *)
(* for TLC: formats of callbacks and of queries, files of queries, and     *)
(* caches and the values in them.  They share no variable, so TLC looks at *)
(* one at a time.                                                          *)
(***************************************************************************)
EXTENDS ResultSetManager, Callback, FileParser, Format, ResultData

VARIABLE part  \* the one that is looked at

MCInit ==
    /\ Init /\ CallbackInit /\ FileInit /\ FormatInit /\ DataInit
    /\ part \in {"caches", "callback", "file", "format", "data"}

\* The native has returned, or its callback.
Ended ==
    \/ callback \in {"miscounted", "refused", "skipped", "called"}
    \/ parse = "done"
    \/ loop = "done"
    \/ answer # NoAnswer

MCVars == <<vars, callbackVars, fileVars, formatVars, dataVars, part>>

MCNext ==
    \/ /\ part = "caches" /\ Next
       /\ UNCHANGED <<callbackVars, fileVars, formatVars, dataVars, part>>
    \/ /\ part = "callback" /\ CallbackNext
       /\ UNCHANGED <<vars, fileVars, formatVars, dataVars, part>>
    \/ /\ part = "file" /\ FileNext
       /\ UNCHANGED <<vars, callbackVars, formatVars, dataVars, part>>
    \/ /\ part = "format" /\ FormatNext
       /\ UNCHANGED <<vars, callbackVars, fileVars, dataVars, part>>
    \/ /\ part = "data" /\ DataNext
       /\ UNCHANGED <<vars, callbackVars, fileVars, formatVars, part>>
    \/ Ended /\ UNCHANGED MCVars

MCSpec == MCInit /\ [][MCNext]_MCVars
=============================================================================
