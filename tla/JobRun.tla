------------------------------- MODULE JobRun -------------------------------
(***************************************************************************)
(* Generator.run (jobslave/imagegen.py) and the calls it makes through     *)
(* ResponseProxy (jobslave/response.py), composed with the log relay.      *)
(*                                                                         *)
(* The job is the main thread of LogRelay while that is "running".  It may *)
(* log at any point, so LogRelay!Log is an action of its own here.  What a *)
(* generator does in write() before it uploads its files is a step that    *)
(* may report progress, succeed or raise.                                  *)
(*                                                                         *)
(* Every call to the rBuilder has the outcomes of an unreliable network:   *)
(* the request is recorded and answered; it is lost; or it is recorded but *)
(* its answer is lost, which raises as if it had not been.                 *)
(***************************************************************************)
EXTENDS LogRelay

CONSTANTS
  FileList,   \* the files a generator passes to postOutput, in order
  Trace       \* the stack trace of a failed job

Files == {FileList[i] : i \in 1 .. Len(FileList)}

ASSUME JobAssumption ==
  /\ FileList \in Seq(Files) /\ FileList # <<>>
  /\ Trace \notin Files

VARIABLES
  job,       \* where Generator.run is
  next,      \* loop index of postOutput
  error,     \* what raised: "none", "write" or "finish"
  status,    \* rBuilder: status of the image
  uploaded,  \* rBuilder: files it holds
  listing,   \* rBuilder: files the image lists
  fault      \* history: sending a final status has raised

jobVars == <<job, next, error, status, uploaded, listing, fault>>
allVars == <<vars, jobVars>>

JobStates ==
  {"begin", "write", "upload", "list", "finish", "trace", "fail", "close",
   "returned", "raised"}
Final == {"FINISHED", "FAILED"}

\* The types; in particular what an image lists is its output and never the
\* stack trace, which is uploaded "but don't update the image file listing".
JobTypeOK ==
  /\ TypeOK
  /\ job \in JobStates
  /\ next \in 1 .. Len(FileList) + 1
  /\ error \in {"none", "write", "finish"}
  /\ status \in {"none", "RUNNING"} \cup Final
  /\ uploaded \subseteq Files \cup {Trace}
  /\ listing \in {{}, Files}
  /\ fault \in BOOLEAN

JobInit ==
  /\ Init
  /\ job = "begin" /\ next = 1 /\ error = "none"
  /\ status = "none" /\ uploaded = {} /\ listing = {}
  /\ fault = FALSE

-----------------------------------------------------------------------------
(* Calls to the rBuilder *)

\* One call; effect holds if the rBuilder records it, idle if it does not.
Call(effect, idle, fails) == effect \/ (idle /\ fails)

\* sendStatus: "Don't eat errors from sending a final status".
Raises(code, fails) == fails /\ code \in Final

SendStatus(code, fails) ==
  /\ Call(status' = code, status' = status, fails)
  /\ fault' = (fault \/ Raises(code, fails))

\* The end of a job step that goes on at one place or, on error, another.
Goto(raises, failed, passed) == job' = IF raises THEN failed ELSE passed

\* An exception is caught by run's except clause with its origin.
Catch(raises, origin) == error' = IF raises THEN origin ELSE error

-----------------------------------------------------------------------------
(* Generator.run *)

Begin ==
  /\ job = "begin"
  /\ \E fails \in BOOLEAN :
       SendStatus("RUNNING", fails) /\ Goto(Raises("RUNNING", fails), "trace", "write")
  /\ UNCHANGED <<vars, next, error, uploaded, listing>>

\* write() reports progress.
Progress ==
  /\ job = "write"
  /\ \E fails \in BOOLEAN :
       SendStatus("RUNNING", fails) /\ Goto(Raises("RUNNING", fails), "trace", "write")
  /\ UNCHANGED <<vars, next, error, uploaded, listing>>

\* write() has made its files and calls postOutput.
WriteDone ==
  /\ job = "write"
  /\ job' = "upload"
  /\ UNCHANGED <<vars, next, error, status, uploaded, listing, fault>>

\* write() raises, in its own work or on a file it is about to upload.
WriteRaises ==
  /\ job \in {"write", "upload"}
  /\ job' = "trace" /\ error' = "write"
  /\ UNCHANGED <<vars, next, status, uploaded, listing, fault>>

\* postOutput: the loop over the files.
Upload ==
  /\ job = "upload" /\ next <= Len(FileList)
  /\ \E fails \in BOOLEAN :
       /\ Call(uploaded' = uploaded \cup {FileList[next]}, uploaded' = uploaded, fails)
       /\ Goto(fails, "trace", "upload")
       /\ Catch(fails, "write")
       /\ next' = IF fails THEN next ELSE next + 1
  /\ UNCHANGED <<vars, status, listing, fault>>

\* Mutant of UploadsDone: off by one.
UploadsDoneEarly ==
  /\ job = "upload" /\ next >= Len(FileList)
  /\ job' = "list"
  /\ UNCHANGED <<vars, next, error, status, uploaded, listing, fault>>

UploadsDone ==
  /\ job = "upload" /\ next > Len(FileList)
  /\ job' = "list"
  /\ UNCHANGED <<vars, next, error, status, uploaded, listing, fault>>

\* Mutant of List: a failed listing does not raise.
ListQuietly ==
  /\ job = "list"
  /\ \E fails \in BOOLEAN : Call(listing' = Files, listing' = listing, fails)
  /\ job' = "finish"
  /\ UNCHANGED <<vars, next, error, status, uploaded, fault>>

\* postOutput: with all files up, their metadata.
List ==
  /\ job = "list"
  /\ \E fails \in BOOLEAN :
       /\ Call(listing' = Files, listing' = listing, fails)
       /\ Goto(fails, "trace", "finish")
       /\ Catch(fails, "write")
  /\ UNCHANGED <<vars, next, status, uploaded, fault>>

Finish ==
  /\ job = "finish"
  /\ \E fails \in BOOLEAN :
       /\ SendStatus("FINISHED", fails)
       /\ Goto(Raises("FINISHED", fails), "trace", "close")
       /\ Catch(Raises("FINISHED", fails), "finish")
  /\ UNCHANGED <<vars, next, uploaded, listing>>

\* Mutants of AfterTrace: the final status is forgotten; the success status is
\* sent on the failure path too.
AfterTraceClose == "close"
AfterTraceFinish == "finish"

AfterTrace == "fail"

\* withMetadata=False: the listing stays as it is.
Listed(stored) == listing

\* The except clause: the trace, whose upload may fail quietly.
SendStackTrace ==
  /\ job = "trace"
  /\ \E fails, stored \in BOOLEAN :
       /\ Call(stored, ~stored, fails)
       /\ uploaded' = IF stored THEN uploaded \cup {Trace} ELSE uploaded
       /\ listing' = Listed(stored)
  /\ job' = AfterTrace
  /\ UNCHANGED <<vars, next, error, status, fault>>

\* The except clause: the FAILED status; if it cannot be sent, run raises.  A
\* message that cannot be encoded raises like a request that is lost.
SendFailed ==
  /\ job = "fail"
  /\ \E fails \in BOOLEAN :
       SendStatus("FAILED", fails) /\ Goto(Raises("FAILED", fails), "raised", "close")
  /\ UNCHANGED <<vars, next, error, uploaded, listing>>

Return ==
  /\ job = "close" /\ CloseFromRun
  /\ job' = "returned"
  /\ UNCHANGED <<next, error, status, uploaded, listing, fault>>

Leave == job = "raised" /\ LeaveRun /\ UNCHANGED jobVars

JobStep ==
  \/ Begin \/ WriteDone \/ WriteRaises \/ Upload \/ UploadsDone \/ List
  \/ Finish \/ SendStackTrace \/ SendFailed \/ Return \/ Leave

\* The job logs anywhere between its start and its end.
JobLog == Log /\ job \notin {"close", "returned", "raised"} /\ UNCHANGED jobVars

Threads == (MainExit \/ RelayStep \/ Gone) /\ UNCHANGED jobVars

JobNext == Progress \/ JobStep \/ JobLog \/ Threads

\* As for the relay; and write() ends, that is, it does not report progress
\* for ever.
JobFairness ==
  /\ WF_allVars(JobStep)
  /\ WF_allVars(RelayStep /\ UNCHANGED jobVars)
  /\ SF_allVars(Collect /\ UNCHANGED jobVars)
  /\ WF_allVars(MainExit /\ UNCHANGED jobVars)

JobSpec == JobInit /\ [][JobNext]_allVars /\ JobFairness

-----------------------------------------------------------------------------
(* Properties *)

\* postOutput: the rBuilder has every file an image lists, whichever uploads
\* failed on the way.
ListedIsUploaded == listing \subseteq uploaded

\* sendStatus and run: a run that returns has told the rBuilder how it ended.
NoSilentReturn == job = "returned" => status \in Final

\* run: a job whose write() raised is never seen FINISHED.
Truthful == error = "write" => status # "FINISHED"

\* run closes the relay last: when a job ends after a clean close, everything
\* it logged is in the build log unless a POST was lost.
ReportComplete ==
  LastWindowDrains /\ job = "returned" /\ relay = "done" =>
    RecordsOf(buildLog) \cup dropped = 1 .. emitted

\* run: the rBuilder gets a final status unless sending one raised, whatever
\* else failed.
VerdictReported == []~fault => <>(status \in Final)

\* The status the rBuilder shows follows the abstract life of a job.
Watched == INSTANCE JobStatus WITH listed <- (listing # {})
ImplementsJobStatus == Watched!Spec
=============================================================================
