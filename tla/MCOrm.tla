------------------------------- MODULE MCOrm -------------------------------
(***************************************************************************)
(* Orm for TLC: a table with a number and a name, both UNIQUE, and one     *)
(* instance.                                                               *)
(***************************************************************************)
EXTENDS Orm

CONSTANTS o1, userId, name, alice, loadedCallback
=============================================================================
