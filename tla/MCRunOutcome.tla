---------------------------- MODULE MCRunOutcome ----------------------------
(* RunOutcome for TLC.                                                     *)
EXTENDS RunOutcome

CONSTANTS r1, t1, p1, p2

MCTaskOf == [r \in Runs |-> t1]
=============================================================================
