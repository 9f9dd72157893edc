-------------------------- MODULE MCHandleManager --------------------------
(***************************************************************************)
(* HandleManager and Options for TLC.  Handles share nothing but           *)
(* m_Handles: ids are explored with handles whose connections do nothing,  *)
(* and connections with a single handle.  Options share no variable with   *)
(* either, so they are looked at apart.                                    *)
(***************************************************************************)
EXTENDS HandleManager, Options, TLC

CONSTANTS h1, h2, h3, accounts, houses, latin1, utf8, one, MaxTogether

VARIABLE part  \* what is looked at

MCInit == Init /\ OptionsInit /\ part \in {"handles", "options"}

MCNext ==
    \/ part = "handles" /\ Next /\ UNCHANGED <<optionVars, part>>
    \/ part = "options" /\ OptionsNext /\ UNCHANGED <<vars, part>>

MCSpec == MCInit /\ [][MCNext]_<<vars, optionVars, part>>

Symmetric == Permutations(Object) \union Permutations(Database)

Untouched(o) == conn[o] = [k \in Slot |-> NewConn] /\ object[o].agreed

IdsOnly == \A o \in Object : Untouched(o)

ConnectionsOnly ==
    /\ ~duplicates
    /\ \E o \in Object :
          /\ \A x \in Object \ {o} : object[x].state = "unused"
          /\ MapThenSumSet(LAMBDA k : conn[o][k].given, Slot) <= MaxTogether

OneAtATime == IdsOnly \/ ConnectionsOnly
=============================================================================
