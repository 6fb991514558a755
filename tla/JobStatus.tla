----------------------------- MODULE JobStatus ------------------------------
(***************************************************************************)
(* What an image job promises to whoever watches it at the rBuilder.  The  *)
(* job runs, and ends FINISHED or FAILED; it is FINISHED only with its     *)
(* output listed; a FAILED job stays so.  A FINISHED job may still become  *)
(* FAILED: its slave does not know it was FINISHED if the answer was lost. *)
(***************************************************************************)
VARIABLES
  status,    \* status of the image at the rBuilder
  listed     \* the image lists its output files

vars == <<status, listed>>

Init == status = "none" /\ listed = FALSE

Work == status \in {"none", "RUNNING"} /\ status' = "RUNNING" /\ UNCHANGED listed

List == status \in {"none", "RUNNING"} /\ listed' = TRUE /\ UNCHANGED status

Finish ==
  /\ status \in {"none", "RUNNING"} /\ listed
  /\ status' = "FINISHED"
  /\ UNCHANGED listed

Fail == status' = "FAILED" /\ UNCHANGED listed

Next == Work \/ List \/ Finish \/ Fail

Spec == Init /\ [][Next]_vars
=============================================================================
