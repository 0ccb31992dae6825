---------------------------- MODULE MCScanDispatch ----------------------------
(* Constant values for the runs of ScanDispatch. *)
EXTENDS ScanDispatch, TLC

CONSTANTS f1, f2, f3, t1, t2

\* Every token and every job has a pair of its own.
OwnToken == [t \in Tokens |-> IF t = t1 THEN f1 ELSE f2]
OwnJob == [j \in 1 .. NumJobs |-> IF j = 1 THEN f2 ELSE f3]

\* Two payload variants of one attack on one route.
SameJob == [j \in 1 .. NumJobs |-> f2]
=============================================================================
