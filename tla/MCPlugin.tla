------------------------------- MODULE MCPlugin -------------------------------
(***************************************************************************)
(* Plugin for TLC: two workers, and scripts at two addresses.              *)
(***************************************************************************)
EXTENDS Plugin

CONSTANTS w1, w2, server, a1, a2
=============================================================================
