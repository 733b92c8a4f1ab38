----------------------------- MODULE MCJobTable -----------------------------
(* Instances of JobTable for TLC. *)
EXTENDS JobTable, TLC

FourPids == 1 .. 4
=============================================================================
