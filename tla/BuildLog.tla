------------------------------ MODULE BuildLog ------------------------------
(***************************************************************************)
(* What the log relay of jobslave/response.py promises, whatever its       *)
(* threads do: the records of a job are numbered in the order in which the *)
(* job logs them; they leave the slave in that order, in batches, each     *)
(* once; and a batch is in the build log as a whole or not at all.         *)
(***************************************************************************)
EXTENDS Naturals, Sequences

VARIABLES
  logged,    \* records the job has logged: 1 .. logged
  relayed,   \* records that have left the slave: 1 .. relayed
  log        \* the build log at the rBuilder

vars == <<logged, relayed, log>>

\* The records first .. last, in order.
Batch(first, last) == [i \in 1 .. last - first + 1 |-> first + i - 1]

Init == logged = 0 /\ relayed = 0 /\ log = <<>>

Record == logged' = logged + 1 /\ UNCHANGED <<relayed, log>>

Relay ==
  \E last \in relayed + 1 .. logged :
    /\ relayed' = last
    /\ log' \in {log, log \o Batch(relayed + 1, last)}
    /\ UNCHANGED logged

Next == Record \/ Relay

Spec == Init /\ [][Next]_vars
=============================================================================
