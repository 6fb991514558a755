---------------------------- MODULE DockerBuild -----------------------------
(***************************************************************************)
(* DockerImage.write (jobslave/generators/docker.py): one job builds a     *)
(* list of images, reports each of them to the rBuilder on its own, and    *)
(* installs the contents of each in a forked child process.                *)
(*                                                                         *)
(* The child is a copy of the job inside write().  os._exit(0) ends it     *)
(* only if the install returns.  If the install raises, the child goes on  *)
(* as the job would: through the except clause of write(), the rest of its *)
(* loop, the except clause of Generator.run, and out of the slave's main,  *)
(* which ends the process with exit code 0 unless run itself raised.       *)
(***************************************************************************)
EXTENDS Naturals

CONSTANTS
  N,             \* images to build, in build order 1 .. N
  BaseIsBuilt    \* image 1 is the job's own image; if not, its parent is
                 \* downloaded and the job's own image (0) has no output

ASSUME DockerAssumption ==
  /\ N \in Nat \ {0}
  /\ BaseIsBuilt \in BOOLEAN

Images == 1 .. N
Main == IF BaseIsBuilt THEN 1 ELSE 0
Processes == {"job", "child"}
Final == {"FINISHED", "FAILED"}

VARIABLES
  pc,         \* where each process is
  at,         \* the image each process has taken from its stack, 0 at first
  exc,        \* each process: excRaised
  code,       \* how the child ended
  installed,  \* images whose contents are complete
  status,     \* rBuilder: status of the images and of the job
  listed,     \* rBuilder: images with their output
  fault,      \* history: a call that raises on failure has failed
  strayed     \* history: an install has raised in a child

vars == <<pc, at, exc, code, installed, status, listed, fault, strayed>>

Places ==
  {"none", "loop", "build", "fork", "install", "wait", "package", "post", "failed",
   "done", "finish", "except", "exited"}

\* The types; in particular an image is never installed by the job's own
\* process, whose rpm library keeps the root of its first transaction.
TypeOK ==
  /\ pc \in [Processes -> Places] /\ pc["job"] # "install"
  /\ at \in [Processes -> 0 .. N]
  /\ \A p \in Processes : pc[p] \notin {"none", "loop"} => at[p] # 0
  /\ exc \in [Processes -> BOOLEAN]
  /\ code \in {"none", "zero", "nonzero", "signal"}
  /\ installed \subseteq Images
  /\ status \in [0 .. N -> {"none", "RUNNING"} \cup Final]
  /\ listed \subseteq Images
  /\ fault \in BOOLEAN /\ strayed \in BOOLEAN

Init ==
  /\ pc = [p \in Processes |-> IF p = "job" THEN "loop" ELSE "none"]
  /\ at = [p \in Processes |-> 0]
  /\ exc = [p \in Processes |-> FALSE]
  /\ code = "none"
  /\ installed = {} /\ listed = {}
  /\ status = [i \in 0 .. N |-> "none"]
  /\ fault = FALSE /\ strayed = FALSE

-----------------------------------------------------------------------------
(* Calls to the rBuilder: recorded or not, answered or not *)

Call(effect, idle, fails) ==
  /\ effect \/ (idle /\ fails)
  /\ fault' = (fault \/ fails)

\* A final status; its failure raises.
Tell(image, value, fails) ==
  Call(status' = [status EXCEPT ![image] = value], status' = status, fails)

\* RUNNING statuses go to the job's own image; their failure does not raise.
Progress ==
  /\ status' = [status EXCEPT ![Main] = "RUNNING"] \/ UNCHANGED status
  /\ UNCHANGED fault

Goto(p, place) == pc' = [pc EXCEPT ![p] = place]

GotoIf(p, raises, failed, passed) == Goto(p, IF raises THEN failed ELSE passed)

-----------------------------------------------------------------------------
(* The loop of write(), in either process *)

\* Mutant of Take: the images left are built after a failure, too.
TakeAnyway(p) ==
  /\ p = "job" /\ pc[p] = "loop" /\ at[p] < N
  /\ at' = [at EXCEPT ![p] = at[p] + 1]
  /\ Goto(p, "build")
  /\ UNCHANGED <<exc, code, installed, status, listed, fault, strayed>>

\* The next image is built.
Take(p) ==
  /\ pc[p] = "loop" /\ at[p] < N /\ ~exc[p]
  /\ at' = [at EXCEPT ![p] = at[p] + 1]
  /\ Goto(p, "build")
  /\ UNCHANGED <<exc, code, installed, status, listed, fault, strayed>>

\* After a failure the images left are not built, but told.
Skip(p) ==
  /\ pc[p] = "loop" /\ at[p] < N /\ exc[p]
  /\ at' = [at EXCEPT ![p] = at[p] + 1]
  /\ \E fails \in BOOLEAN :
       Tell(at[p] + 1, "FAILED", fails) /\ GotoIf(p, fails, "except", "loop")
  /\ UNCHANGED <<exc, code, installed, listed, strayed>>

LoopEnd(p) ==
  /\ pc[p] = "loop" /\ at[p] = N
  /\ GotoIf(p, exc[p], "except", "finish")
  /\ UNCHANGED <<at, exc, code, installed, status, listed, fault, strayed>>

\* The except clause of the loop.
Failed(p) ==
  /\ pc[p] = "failed"
  /\ exc' = [exc EXCEPT ![p] = TRUE]
  /\ \E fails \in BOOLEAN :
       Tell(at[p], "FAILED", fails) /\ GotoIf(p, fails, "except", "loop")
  /\ UNCHANGED <<at, code, installed, listed, strayed>>

\* The except clause of Generator.run; a process whose run raises exits with 1.
Except(p) ==
  /\ pc[p] = "except"
  /\ \E fails \in BOOLEAN :
       /\ Tell(Main, "FAILED", fails)
       /\ code' = IF p = "job" THEN code ELSE IF fails THEN "nonzero" ELSE "zero"
  /\ Goto(p, "exited")
  /\ UNCHANGED <<at, exc, installed, listed, strayed>>

-----------------------------------------------------------------------------
(* Building one image *)

\* writeBase and writeChild up to the install.
Prepare ==
  /\ pc["job"] = "build"
  /\ \E raises \in BOOLEAN : GotoIf("job", raises, "failed", "fork")
  /\ Progress
  /\ UNCHANGED <<at, exc, code, installed, listed, strayed>>

Fork ==
  /\ pc["job"] = "fork"
  /\ pc' = [pc EXCEPT !["job"] = "wait", !["child"] = "install"]
  /\ at' = [at EXCEPT !["child"] = at["job"]]
  /\ exc' = [exc EXCEPT !["child"] = FALSE]
  /\ code' = "none"
  /\ UNCHANGED <<installed, status, listed, fault, strayed>>

\* The child installs the image, and exits 0.
Install ==
  /\ pc["child"] = "install"
  /\ installed' = installed \cup {at["child"]}
  /\ code' = "zero"
  /\ Goto("child", "exited")
  /\ Progress
  /\ UNCHANGED <<at, exc, listed, strayed>>

InstallRaises ==
  /\ pc["child"] = "install"
  /\ strayed' = TRUE
  /\ Goto("child", "failed")
  /\ Progress
  /\ UNCHANGED <<at, exc, code, installed, listed>>

\* The child is killed, by the kernel if memory is short.
Killed ==
  /\ pc["child"] = "install"
  /\ code' = "signal"
  /\ Goto("child", "exited")
  /\ UNCHANGED <<at, exc, installed, status, listed, fault, strayed>>

\* Mutant of WaitRaises: a child that was killed counts as success.
WaitRaisesExit == code = "nonzero"

\* A child that exited with an error; or one that was killed, for which the
\* second waitpid finds no child any more.
WaitRaises == code # "zero"

\* Mutant of Wait: a killed child is waited for again and again.
WaitAgain ==
  /\ pc["job"] = "wait" /\ pc["child"] = "exited"
  /\ IF code = "signal" THEN UNCHANGED pc
     ELSE GotoIf("job", WaitRaises, "failed", "package")
  /\ UNCHANGED <<at, exc, code, installed, status, listed, fault, strayed>>

Wait ==
  /\ pc["job"] = "wait" /\ pc["child"] = "exited"
  /\ GotoIf("job", WaitRaises, "failed", "package")
  /\ UNCHANGED <<at, exc, code, installed, status, listed, fault, strayed>>

\* Mutant of AfterPost: a failed upload is not an error.
AfterPostQuiet(fails) == "done"

AfterPost(fails) == IF fails THEN "failed" ELSE "done"

\* The layer and the archive are written; then postOutput.
WriteLayer ==
  /\ pc["job"] = "package"
  /\ \E raises \in BOOLEAN : GotoIf("job", raises, "failed", "post")
  /\ Progress
  /\ UNCHANGED <<at, exc, code, installed, listed, strayed>>

Post ==
  /\ pc["job"] = "post"
  /\ \E fails \in BOOLEAN :
       /\ Call(listed' = listed \cup {at["job"]}, listed' = listed, fails)
       /\ Goto("job", AfterPost(fails))
  /\ UNCHANGED <<at, exc, code, installed, status, strayed>>

\* Mutant of Done: the status is sent inside the try.
DoneInTry ==
  /\ pc["job"] = "done"
  /\ \E fails \in BOOLEAN :
       Tell(at["job"], "FINISHED", fails) /\ GotoIf("job", fails, "failed", "loop")
  /\ UNCHANGED <<at, exc, code, installed, listed, strayed>>

\* The else clause: outside the try, so a failure leaves the loop.
Done ==
  /\ pc["job"] = "done"
  /\ \E fails \in BOOLEAN :
       Tell(at["job"], "FINISHED", fails) /\ GotoIf("job", fails, "except", "loop")
  /\ UNCHANGED <<at, exc, code, installed, listed, strayed>>

\* Generator.run: write() has returned.
Finish ==
  /\ pc["job"] = "finish"
  /\ \E fails \in BOOLEAN :
       Tell(Main, "FINISHED", fails) /\ GotoIf("job", fails, "except", "exited")
  /\ UNCHANGED <<at, exc, code, installed, listed, strayed>>

Step(p) == Take(p) \/ Skip(p) \/ LoopEnd(p) \/ Failed(p) \/ Except(p)

JobStep == Step("job") \/ Prepare \/ Fork \/ Wait \/ WriteLayer \/ Post \/ Done \/ Finish

ChildStep == Step("child") \/ Install \/ InstallRaises \/ Killed

Ended == pc["job"] = "exited" /\ UNCHANGED vars

Next == JobStep \/ ChildStep \/ Ended

\* Both processes are scheduled; calls and installs end.
Spec == Init /\ [][Next]_vars /\ WF_vars(JobStep) /\ WF_vars(ChildStep)

-----------------------------------------------------------------------------
(* Properties *)

\* An image is FINISHED at the rBuilder only if its contents were installed:
\* "raise RuntimeError('Failed to install')" (docker.py:62).
FinishedIsInstalled ==
  \A i \in Images : status[i] = "FINISHED" => i \in installed

\* installFilesInExistingTree: an image is FINISHED only if its contents were
\* installed, whichever children were killed, as long as none had its install raise.
InstalledUnlessStrayed == strayed \/ FinishedIsInstalled

\* write(): an image is FINISHED only with its output listed, whichever calls
\* failed before, in whichever process.
FinishedIsListed == \A i \in Images : status[i] = "FINISHED" => i \in listed

\* write(): no image is FINISHED after one before it in the build order, which
\* may be its parent, has FAILED.
NoneAfterFailure ==
  strayed \/
    \A i, j \in Images \ {Main} :
      i < j /\ status[i] = "FAILED" => status[j] # "FINISHED"

\* write(): the final status of an image is sent once, even if sending it
\* fails; only the job's own image may change its verdict.
VerdictIsFinal ==
  [][strayed' \/
       \A i \in Images \ {Main} : status[i] \in Final => status'[i] = status[i]]_vars

\* write() and installFilesInExistingTree: the job ends, whatever becomes of
\* its children; and unless a call that is not allowed to fail did, each image
\* and the job have a final status then, wherever it failed.
JobEnds ==
  <>(/\ pc["job"] = "exited"
     /\ fault \/ \A i \in Images \cup {Main} : status[i] \in Final)
=============================================================================
