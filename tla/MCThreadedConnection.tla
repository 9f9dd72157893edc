----------------------- MODULE MCThreadedConnection -----------------------
(***************************************************************************)
(* ThreadedConnection for TLC.  The connections are model values and       *)
(* interchangeable; symmetry is used for safety only.                      *)
(***************************************************************************)
EXTENDS ThreadedConnection, FiniteSetsExt, TLC

ConnSymmetry == Permutations(Conn)

\* The connections accept MaxAccepted + 1 queries between them: one of them
\* can be used up while another has a query under way.
AcceptedTogether == MapThenSumSet(LAMBDA c : accepted[c], Conn) <= MaxAccepted + 1
=============================================================================
