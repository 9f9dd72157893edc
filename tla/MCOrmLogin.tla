----------------------------- MODULE MCOrmLogin -----------------------------
(***************************************************************************)
(* OrmLogin for TLC: two players take turns in one slot.                   *)
(***************************************************************************)
EXTENDS OrmLogin

CONSTANTS o1, o2, o3, o4, userId, username, kills, alice, bob
=============================================================================
