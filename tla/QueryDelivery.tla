--------------------------- MODULE QueryDelivery ---------------------------
(***************************************************************************)
(* What the threaded half of the plugin promises to a Pawn script, without *)
(* threads, locks or a condition variable.                                 *)
(*                                                                         *)
(* A script hands queries to a connection (mysql_tquery and mysql_pquery). *)
(* The n-th query a connection accepts is known here by its number n.  The *)
(* connection completes its queries one after another, in the order it     *)
(* accepted them, and the server thread runs the callback of every         *)
(* completed query exactly once, in the order of completion.  A closed     *)
(* connection accepts nothing more.                                        *)
(***************************************************************************)
EXTENDS Naturals, Sequences

CONSTANTS
    Conn,       \* the threaded connections a server ever opens
    ErrorCode   \* what mysql_errno can report (see ThreadedConnection)

VARIABLES
    handle,     \* handle[c]: "unused", "open" or "closed"
    accepted,   \* accepted[c]: how many queries c has accepted
    completed,  \* completed[c]: how many of them c is done with
    answered,   \* answered[c]: how many callbacks of c have been run
    ready       \* the completed queries whose callback has not returned yet

vars == <<handle, accepted, completed, answered, ready>>

Answer == [conn : Conn, num : Nat, ok : BOOLEAN, error : ErrorCode]

Init ==
    /\ handle = [c \in Conn |-> "unused"]
    /\ accepted = [c \in Conn |-> 0]
    /\ completed = [c \in Conn |-> 0]
    /\ answered = [c \in Conn |-> 0]
    /\ ready = <<>>

Open(c) ==
    /\ handle[c] = "unused"
    /\ handle' = [handle EXCEPT ![c] = "open"]
    /\ UNCHANGED <<accepted, completed, answered, ready>>

Close(c) ==
    /\ handle[c] = "open"
    /\ handle' = [handle EXCEPT ![c] = "closed"]
    /\ UNCHANGED <<accepted, completed, answered, ready>>

Accept(c) ==
    /\ handle[c] = "open"
    /\ accepted' = [accepted EXCEPT ![c] = @ + 1]
    /\ UNCHANGED <<handle, completed, answered, ready>>

\* The next query of c, and no other, is completed, with any outcome.
Complete(c) ==
    /\ completed[c] < accepted[c]
    /\ completed' = [completed EXCEPT ![c] = @ + 1]
    /\ \E ok \in BOOLEAN, error \in ErrorCode :
          ready' = Append(ready, [conn |-> c, num |-> completed[c] + 1,
                                  ok |-> ok, error |-> error])
    /\ UNCHANGED <<handle, accepted, answered>>

\* The callback at the front has run: it is that of the first query of its
\* connection that had not been answered.
Deliver ==
    /\ ready # <<>>
    /\ LET c == Head(ready).conn
       IN  /\ Head(ready).num = answered[c] + 1
           /\ answered' = [answered EXCEPT ![c] = @ + 1]
    /\ ready' = Tail(ready)
    /\ UNCHANGED <<handle, accepted, completed>>

Next ==
    \/ \E c \in Conn : Open(c) \/ Close(c) \/ Accept(c) \/ Complete(c)
    \/ Deliver

Spec == Init /\ [][Next]_vars
=============================================================================
