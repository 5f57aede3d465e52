---------------------------- MODULE MCSessionReports ----------------------------
(***************************************************************************)
(* Instances of SessionReports for TLC.                                    *)
(***************************************************************************)
EXTENDS SessionReports, TLC

\* Backend processes are interchangeable.
Interchangeable == Permutations(Backends)
===============================================================================
