------------------------------ MODULE MCJobRun ------------------------------
(* An instance of JobRun for TLC: a job with two output files. *)
EXTENDS JobRun
CONSTANTS f1, f2
TwoFiles == <<f1, f2>>
=============================================================================
