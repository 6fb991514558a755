------------------------- MODULE DockerBuildProofs --------------------------
(***************************************************************************)
(* Theorems about DockerBuild, for every number of images and every        *)
(* failure of the network and of the children; and about ForkedLog, for    *)
(* every number of records and of forks, and every place in the relay      *)
(* thread's rounds a fork may come at.                                     *)
(***************************************************************************)
EXTENDS DockerBuild, ForkedLog, SequenceTheorems, TLAPS

USE DockerAssumption DEF DockerAssumption

LEMMA MainIsImage == Main \in 0 .. N
BY DEF Main

\* Type correctness: one case per action, in either process.
LEMMA TypeStep == TypeOK /\ [Next]_vars => TypeOK'
<1> SUFFICES ASSUME TypeOK, [Next]_vars PROVE TypeOK'
  OBVIOUS
<1> USE MainIsImage
    DEF TypeOK, Processes, Places, Final, Images, Goto, GotoIf, Tell, Call, Progress
<1>1. ASSUME NEW p \in Processes, Take(p) PROVE TypeOK'
  BY <1>1 DEF Take
<1>2. ASSUME NEW p \in Processes, Skip(p) PROVE TypeOK'
  BY <1>2 DEF Skip
<1>3. ASSUME NEW p \in Processes, LoopEnd(p) PROVE TypeOK'
  BY <1>3 DEF LoopEnd
<1>4. ASSUME NEW p \in Processes, Failed(p) PROVE TypeOK'
  BY <1>4 DEF Failed
<1>5. ASSUME NEW p \in Processes, Except(p) PROVE TypeOK'
  BY <1>5 DEF Except
<1>6. CASE Prepare
  BY <1>6 DEF Prepare
<1>7. CASE Fork
  BY <1>7 DEF Fork
<1>8. CASE Wait
  BY <1>8 DEF Wait
<1>9. CASE WriteLayer
  BY <1>9 DEF WriteLayer
<1>10. CASE Post
  <2>1. pc["job"] = "post" /\ at["job"] \in Images
    BY <1>10 DEF Post
  <2> QED BY <1>10, <2>1 DEF Post, AfterPost
<1>11. CASE Done
  BY <1>11 DEF Done
<1>12. CASE Finish
  BY <1>12 DEF Finish
<1>13. CASE Install
  <2>1. pc["child"] = "install" /\ at["child"] \in Images
    BY <1>13 DEF Install
  <2> QED BY <1>13, <2>1 DEF Install
<1>14. CASE InstallRaises
  BY <1>14 DEF InstallRaises
<1>15. CASE Killed
  BY <1>15 DEF Killed
<1>16. CASE Ended \/ UNCHANGED vars
  BY <1>16 DEF Ended, vars
<1> QED
  BY <1>1, <1>2, <1>3, <1>4, <1>5, <1>6, <1>7, <1>8, <1>9, <1>10, <1>11, <1>12,
     <1>13, <1>14, <1>15, <1>16
  DEF Next, JobStep, ChildStep, Step

LEMMA TypeInit == Init => TypeOK
<1> SUFFICES ASSUME Init PROVE TypeOK
  OBVIOUS
<1>1. FALSE \in BOOLEAN /\ 0 \in 0 .. N
  OBVIOUS
<1>2. exc \in [Processes -> BOOLEAN] /\ fault \in BOOLEAN
  BY <1>1, Zenon DEF Init
<1> QED BY <1>1, <1>2 DEF Init, TypeOK, Processes, Places, Final, Images

\* Every reachable state is well typed; the job never installs in its own
\* process.
THEOREM TypeCorrect == Spec => []TypeOK
BY TypeInit, TypeStep, PTL DEF Spec

-----------------------------------------------------------------------------

Building == {"build", "fork", "wait", "package", "post", "done"}

\* What the job's place in its loop says about the images before it.
JobInv ==
  /\ pc["job"] \in Building =>
       ~exc["job"] /\ \A i \in 1 .. at["job"] - 1 : i \in listed
  /\ pc["job"] = "done" => at["job"] \in listed
  /\ pc["job"] = "loop" /\ ~exc["job"] => \A i \in 1 .. at["job"] : i \in listed
  /\ pc["job"] = "finish" => Images \subseteq listed

\* A child has no part in the loop but its except clauses.
ChildInv ==
  /\ pc["child"] \in {"none", "install", "failed", "loop", "except", "exited"}
  /\ pc["child"] = "loop" => exc["child"]

ListInv == TypeOK /\ JobInv /\ ChildInv /\ FinishedIsListed

LEMMA ListStep == ListInv /\ [Next]_vars => ListInv'
<1> SUFFICES ASSUME ListInv, [Next]_vars PROVE ListInv'
  OBVIOUS
<1>t. TypeOK /\ TypeOK'
  BY TypeStep DEF ListInv
<1> SUFFICES JobInv' /\ ChildInv' /\ FinishedIsListed'
  BY <1>t DEF ListInv
<1> USE <1>t, MainIsImage
    DEF TypeOK, Processes, Places, Final, Images, Goto, GotoIf, Tell, Call, Progress,
        ListInv, JobInv, ChildInv, FinishedIsListed, Building
<1>1. CASE Take("job")
  BY <1>1 DEF Take
<1>2. CASE Skip("job")
  BY <1>2 DEF Skip
<1>3. CASE LoopEnd("job")
  BY <1>3 DEF LoopEnd
<1>4. CASE Failed("job")
  BY <1>4 DEF Failed
<1>5. CASE Except("job")
  BY <1>5 DEF Except
<1>6. CASE Step("child")
  BY <1>6 DEF Step, Take, Skip, LoopEnd, Failed, Except
<1>7. CASE Prepare
  BY <1>7 DEF Prepare
<1>8. CASE Fork
  BY <1>8 DEF Fork
<1>9. CASE Wait
  BY <1>9 DEF Wait
<1>10. CASE WriteLayer
  BY <1>10 DEF WriteLayer
<1>11. CASE Post
  BY <1>11 DEF Post, AfterPost
<1>12. CASE Done
  BY <1>12 DEF Done
<1>13. CASE Finish
  BY <1>13 DEF Finish, Main
<1>14. CASE Install \/ InstallRaises \/ Killed
  BY <1>14 DEF Install, InstallRaises, Killed
<1>15. CASE Ended \/ UNCHANGED vars
  BY <1>15 DEF Ended, vars
<1> QED
  BY <1>1, <1>2, <1>3, <1>4, <1>5, <1>6, <1>7, <1>8, <1>9, <1>10, <1>11, <1>12,
     <1>13, <1>14, <1>15
  DEF Next, JobStep, ChildStep, Step

\* Whatever fails, and in whichever process, an image is FINISHED only with its
\* output listed.
THEOREM FinishedIsListedHolds == Spec => []FinishedIsListed
<1>1. Init => ListInv
  BY TypeInit
  DEF Init, ListInv, JobInv, ChildInv, FinishedIsListed, Building, Processes, Images
<1>2. ListInv => FinishedIsListed
  BY DEF ListInv
<1> QED BY <1>1, <1>2, ListStep, PTL DEF Spec

-----------------------------------------------------------------------------
(* As long as no install has raised in a child: the child never comes back  *)
(* into the loop, and what the job concludes from its exit code is true.   *)

QuietChild ==
  /\ pc["child"] \in {"none", "install", "exited"}
  /\ pc["child"] = "install" => pc["job"] = "wait"
  /\ pc["job"] = "wait" =>
       /\ at["child"] = at["job"]
       /\ pc["child"] = "exited" /\ code = "zero" => at["job"] \in installed

\* What the job's place in its loop says about the contents of the images.
Installed ==
  /\ pc["job"] \in Building =>
       ~exc["job"] /\ \A i \in 1 .. at["job"] - 1 : i \in installed
  /\ pc["job"] \in {"package", "post", "done"} => at["job"] \in installed
  /\ pc["job"] = "loop" /\ ~exc["job"] => \A i \in 1 .. at["job"] : i \in installed
  /\ pc["job"] = "finish" => Images \subseteq installed

\* The images with a verdict are those the loop has passed.
Verdicts ==
  \A i \in Images \ {Main} :
    /\ status[i] \in Final => i <= at["job"]
    /\ status[i] \in Final /\ pc["job"] \in Building \cup {"failed"} => i < at["job"]
    /\ status[i] = "FAILED" => exc["job"]

Quiet == QuietChild /\ Installed /\ Verdicts /\ FinishedIsInstalled /\ NoneAfterFailure

QuietInv == TypeOK /\ (strayed \/ Quiet)

LEMMA QuietInit == Init => QuietInv
<1> SUFFICES ASSUME Init PROVE QuietInv
  OBVIOUS
<1>1. TypeOK
  BY TypeInit
<1>2. QuietChild /\ Installed
  BY DEF Init, QuietChild, Installed, Building, Processes
<1>3. Verdicts /\ FinishedIsInstalled /\ NoneAfterFailure
  BY DEF Init, Verdicts, FinishedIsInstalled, NoneAfterFailure, Final, Images
<1> QED BY <1>1, <1>2, <1>3 DEF QuietInv, Quiet

\* An install that raises has been noted.
LEMMA StrayedStep ==
  ASSUME QuietInv, [Next]_vars, ~strayed'
  PROVE  ~strayed /\ ~InstallRaises
<1> QED
  BY DEF QuietInv, TypeOK, vars, Next, JobStep, ChildStep, Step, Take, Skip, LoopEnd, Failed,
         Except, Prepare, Fork, Wait, WriteLayer, Post, Done, Finish, Install, InstallRaises,
         Killed, Ended

LEMMA QuietStep ==
  ASSUME QuietInv, [Next]_vars
  PROVE  QuietInv'
<1>t. TypeOK /\ TypeOK'
  BY TypeStep DEF QuietInv
<1> SUFFICES ASSUME ~strayed' PROVE Quiet'
  BY <1>t DEF QuietInv
<1>s. ~strayed /\ ~InstallRaises /\ Quiet
  BY StrayedStep DEF QuietInv
<1> USE <1>t, <1>s, MainIsImage
    DEF TypeOK, Processes, Places, Final, Images, Goto, GotoIf, Tell, Call, Progress,
        Quiet, QuietChild, Installed, Verdicts, FinishedIsInstalled, NoneAfterFailure,
        Building
<1>1. CASE Take("job")
  BY <1>1 DEF Take
<1>2. CASE Skip("job")
  BY <1>2 DEF Skip
<1>3. CASE LoopEnd("job")
  BY <1>3 DEF LoopEnd
<1>4. CASE Failed("job")
  BY <1>4 DEF Failed
<1>5. CASE Except("job")
  BY <1>5 DEF Except
<1>6. ~Step("child")
  BY DEF Step, Take, Skip, LoopEnd, Failed, Except
<1>7. CASE Prepare
  BY <1>7 DEF Prepare
<1>8. CASE Fork
  BY <1>8 DEF Fork
<1>9. CASE Wait
  BY <1>9 DEF Wait, WaitRaises
<1>10. CASE WriteLayer
  BY <1>10 DEF WriteLayer
<1>11. CASE Post
  BY <1>11 DEF Post, AfterPost
<1>12. CASE Done
  BY <1>12 DEF Done
<1>13. CASE Finish
  BY <1>13 DEF Finish
<1>14. CASE Install
  BY <1>14 DEF Install
<1>16. CASE Killed
  BY <1>16 DEF Killed
<1>17. CASE Ended \/ UNCHANGED vars
  BY <1>17 DEF Ended, vars
<1> QED
  BY <1>1, <1>2, <1>3, <1>4, <1>5, <1>6, <1>7, <1>8, <1>9, <1>10, <1>11, <1>12,
     <1>13, <1>14, <1>16, <1>17
  DEF Next, JobStep, ChildStep, Step

\* An image is FINISHED only if its contents were installed, although children
\* may be killed and any call may fail, as long as no install has raised.
THEOREM InstalledUnlessStrayedHolds == Spec => []InstalledUnlessStrayed
<1>1. QuietInv /\ [Next]_vars => QuietInv'
  BY QuietStep
<1>2. QuietInv => InstalledUnlessStrayed
  BY DEF QuietInv, Quiet, InstalledUnlessStrayed
<1> QED BY <1>1, <1>2, QuietInit, PTL DEF Spec

\* No image is FINISHED once one before it has FAILED, as long as no install
\* has raised.
THEOREM NoneAfterFailureHolds == Spec => []NoneAfterFailure
<1>1. QuietInv /\ [Next]_vars => QuietInv'
  BY QuietStep
<1>2. QuietInv => NoneAfterFailure
  BY DEF QuietInv, Quiet, NoneAfterFailure
<1> QED BY <1>1, <1>2, QuietInit, PTL DEF Spec

Kept == \A i \in Images \ {Main} : status[i] \in Final => status'[i] = status[i]

LEMMA KeptStep ==
  ASSUME QuietInv, [Next]_vars, ~strayed'
  PROVE  Kept
<1> SUFFICES ASSUME NEW i \in Images \ {Main}, status[i] \in Final
             PROVE  status'[i] = status[i]
  BY DEF Kept
<1>s. ~strayed /\ ~InstallRaises /\ Quiet
  BY StrayedStep DEF QuietInv
<1>1. /\ i <= at["job"]
      /\ pc["job"] \in Building \cup {"failed"} => i < at["job"]
  BY <1>s DEF Quiet, Verdicts
<1>2. pc["child"] \in {"none", "install", "exited"}
  BY <1>s DEF Quiet, QuietChild
<1>3. at["job"] \in 0 .. N
  BY DEF QuietInv, TypeOK, Processes
<1>4. status \in [0 .. N -> {"none", "RUNNING"} \cup Final]
  BY DEF QuietInv, TypeOK
<1> USE <1>1, <1>2, <1>3, <1>4, MainIsImage DEF Tell, Call, Progress, Building, Images
<1>5. CASE Skip("job")
  BY <1>5 DEF Skip
<1>6. CASE Failed("job")
  BY <1>6 DEF Failed
<1>7. CASE Done
  BY <1>7 DEF Done
<1>8. CASE Except("job")
  BY <1>8 DEF Except
<1>9. CASE Finish
  BY <1>9 DEF Finish
<1>10. CASE Take("job") \/ LoopEnd("job") \/ Fork \/ Wait \/ Post
  BY <1>10 DEF Take, LoopEnd, Fork, Wait, Post
<1>11. CASE Prepare \/ WriteLayer
  BY <1>11 DEF Prepare, WriteLayer
<1>12. CASE ChildStep
  BY <1>12 DEF ChildStep, Step, Take, Skip, LoopEnd, Failed, Except, Install,
               InstallRaises, Killed
<1>13. CASE Ended \/ UNCHANGED vars
  BY <1>13 DEF Ended, vars
<1> QED
  BY <1>5, <1>6, <1>7, <1>8, <1>9, <1>10, <1>11, <1>12, <1>13 DEF Next, JobStep, Step

\* The final status of an image is sent once, as long as no install has raised.
THEOREM VerdictIsFinalHolds == Spec => VerdictIsFinal
<1>1. QuietInv /\ [Next]_vars => QuietInv' /\ (strayed' \/ Kept)
  BY QuietStep, KeptStep
<1>2. Spec => [][strayed' \/ Kept]_vars
  BY <1>1, QuietInit, PTL DEF Spec
<1> QED BY <1>2 DEF VerdictIsFinal, Kept

-----------------------------------------------------------------------------
(* The log handler of a job that forks.                                    *)

LEMMA Bounds == MaxRecords \in Nat /\ MaxChild \in Nat /\ MaxForks \in Nat
BY ForkedAssumption DEF ForkedAssumption

LEMMA JobRecords == \A n \in 1 .. MaxRecords : JobRecord(n) \in Records
BY DEF Records

\* A record that is in none of the queues yet: its number is taken when it is logged.
Queued == IF main = "put" THEN emitted - 1 ELSE emitted

\* What was sent, what the thread has collected and what waits in the queue are
\* the records of the job, one after the other, and none of a child.
Order ==
  /\ Len(buildLog) + Len(items) + Len(queue) = Queued
  /\ \A i \in DOMAIN buildLog : buildLog[i] = JobRecord(i)
  /\ \A i \in DOMAIN items : items[i] = JobRecord(Len(buildLog) + i)
  /\ \A i \in DOMAIN queue : queue[i] = JobRecord(Len(buildLog) + Len(items) + i)

\* A child exists only after a fork, a record is being put in the queue only
\* after it was logged, and the relay thread holds the handler's lock exactly
\* while it looks at the stop flag.
Started ==
  /\ lock = "relay" <=> relay = "checking"
  /\ child = "install" => forks \in 1 .. MaxForks
  /\ main = "put" => emitted >= 1

IInv == ForkTypeOK /\ Started /\ Order

LEMMA AppendFacts ==
  ASSUME NEW S, NEW seq \in Seq(S), NEW e \in S
  PROVE  /\ Append(seq, e) \in Seq(S)
         /\ Len(Append(seq, e)) = Len(seq) + 1
         /\ \A i \in 1 .. Len(seq) : Append(seq, e)[i] = seq[i]
         /\ Append(seq, e)[Len(seq) + 1] = e
BY AppendProperties

LEMMA TailFacts ==
  ASSUME NEW S, NEW seq \in Seq(S), seq # <<>>
  PROVE  /\ Head(seq) \in S
         /\ Head(seq) = seq[1]
         /\ Tail(seq) \in Seq(S)
         /\ Len(Tail(seq)) = Len(seq) - 1
         /\ \A i \in 1 .. Len(Tail(seq)) : Tail(seq)[i] = seq[i + 1]
         /\ Len(seq) \in Nat /\ Len(seq) >= 1
BY HeadTailProperties, LenProperties, EmptySeq

LEMMA Lengths ==
  ASSUME ForkTypeOK
  PROVE  /\ Len(buildLog) \in Nat /\ DOMAIN buildLog = 1 .. Len(buildLog)
         /\ Len(items) \in Nat /\ DOMAIN items = 1 .. Len(items)
         /\ Len(queue) \in Nat /\ DOMAIN queue = 1 .. Len(queue)
         /\ emitted \in 0 .. MaxRecords /\ emitted \in Nat
BY Bounds, LenProperties DEF ForkTypeOK

LEMMA InitIInv == InitFork => IInv
<1> SUFFICES ASSUME InitFork PROVE IInv
  OBVIOUS
<1>1. <<>> \in Seq(Records) /\ Len(<<>>) = 0 /\ DOMAIN <<>> = {}
  BY EmptySeq
<1>2. ForkTypeOK
  <2>1. 0 \in 0 .. MaxRecords /\ 0 \in 0 .. MaxForks /\ 0 \in 0 .. MaxChild
    BY Bounds
  <2> QED BY <1>1, <2>1, Zenon DEF InitFork, ForkTypeOK
<1>3. Started /\ Order
  BY <1>1 DEF InitFork, Started, Order, Queued
<1> QED BY <1>2, <1>3 DEF IInv

\* The types and Started.
LEMMA ForkTypeStep == ForkTypeOK /\ Started /\ [NextFork]_forkVars => (ForkTypeOK /\ Started)'
<1> SUFFICES ASSUME ForkTypeOK, Started, [NextFork]_forkVars PROVE (ForkTypeOK /\ Started)'
  OBVIOUS
<1> USE Bounds DEF ForkTypeOK, Started
<1>1. CASE Log
  BY <1>1 DEF Log, relayVars, childVars
<1>2. CASE Put
  <2>1. JobRecord(emitted) \in Records
    BY <1>2, JobRecords DEF Put
  <2>2. queue' \in Seq(Records)
    BY <1>2, <2>1, AppendFacts DEF Put
  <2> QED BY <1>2, <2>2 DEF Put, relayVars, childVars
<1>3. CASE ForkChild
  BY <1>3 DEF ForkChild, HeldByRelay, handlerVars, relayVars
<1>4. CASE WaitChild
  BY <1>4 DEF WaitChild, handlerVars, relayVars, childVars
<1>5. CASE Close
  BY <1>5 DEF Close, relayVars, childVars
<1>6. CASE Join
  BY <1>6 DEF Join, handlerVars, relayVars, childVars
<1>7. CASE Check
  BY <1>7 DEF Check, jobVars, childVars
<1>8. CASE Checked
  <2>1. seen' \in BOOLEAN
    BY <1>8, Zenon DEF Checked
  <2>2. /\ lock' = "none" /\ relay' = "collect"
        /\ UNCHANGED <<jobVars, mutex, queue, stopped, items, buildLog, childVars>>
    BY <1>8 DEF Checked
  <2>3. main # "put"
    BY <1>8 DEF Checked
  <2> QED BY <2>1, <2>2, <2>3 DEF jobVars, childVars
<1>9. CASE Get
  BY <1>9 DEF Get, jobVars, childVars
<1>10. CASE Got
  <2>1. queue' \in Seq(Records) /\ items' \in Seq(Records)
    <3>1. CASE queue = <<>>
      BY <1>10, <3>1 DEF Got
    <3>2. CASE queue # <<>>
      <4>1. Head(queue) \in Records /\ Tail(queue) \in Seq(Records)
        BY <3>2, TailFacts
      <4>2. Append(items, Head(queue)) \in Seq(Records)
        BY <4>1, AppendFacts
      <4> QED BY <1>10, <3>2, <4>1, <4>2 DEF Got
    <3> QED BY <3>1, <3>2
  <2> QED BY <1>10, <2>1 DEF Got, jobVars, childVars
<1>11. CASE Send
  <2>1. buildLog \o items \in Seq(Records) /\ <<>> \in Seq(Records)
    BY ConcatProperties, EmptySeq
  <2> QED BY <1>11, <2>1 DEF Send, jobVars, handlerVars, childVars
<1>12. CASE ChildLog
  <2>1. ChildRecord(spoken + 1) \in Records
    BY <1>12 DEF ChildLog, ChildRecord, Records
  <2>2. copy' \in Seq(Records)
    BY <1>12, <2>1, AppendFacts DEF ChildLog
  <2> QED BY <1>12, <2>2 DEF ChildLog, jobVars, handlerVars, relayVars
<1>13. CASE ChildExit
  BY <1>13 DEF ChildExit, jobVars, handlerVars, relayVars
<1>14. CASE EndedFork \/ UNCHANGED forkVars
  <2>1. UNCHANGED <<jobVars, handlerVars, relayVars, childVars>>
    BY <1>14 DEF EndedFork, forkVars
  <2> QED BY <2>1 DEF jobVars, handlerVars, relayVars, childVars
<1> QED
  BY <1>1, <1>2, <1>3, <1>4, <1>5, <1>6, <1>7, <1>8, <1>9, <1>10, <1>11, <1>12, <1>13, <1>14
  DEF NextFork, MainStep, RelayStep, ForkedStep

LEMMA OrderStep == IInv /\ [NextFork]_forkVars => Order'
<1> SUFFICES ASSUME IInv, [NextFork]_forkVars PROVE Order'
  OBVIOUS
<1>t. ForkTypeOK /\ Started /\ Order
  BY DEF IInv
<1>l. /\ Len(buildLog) \in Nat /\ DOMAIN buildLog = 1 .. Len(buildLog)
      /\ Len(items) \in Nat /\ DOMAIN items = 1 .. Len(items)
      /\ Len(queue) \in Nat /\ DOMAIN queue = 1 .. Len(queue)
      /\ emitted \in 0 .. MaxRecords /\ emitted \in Nat
  BY <1>t, Lengths
<1>s. buildLog \in Seq(Records) /\ items \in Seq(Records) /\ queue \in Seq(Records)
  BY <1>t DEF ForkTypeOK
<1>1. CASE Log
  BY <1>1, <1>t, <1>l DEF Log, relayVars, childVars, Order, Queued
<1>2. CASE Put
  <2>1. JobRecord(emitted) \in Records
    BY <1>2, <1>t, <1>l, JobRecords, Bounds DEF Put, Started
  <2>2. /\ Len(queue') = Len(queue) + 1 /\ queue' \in Seq(Records)
        /\ \A i \in 1 .. Len(queue) : queue'[i] = queue[i]
        /\ queue'[Len(queue) + 1] = JobRecord(emitted)
    BY <1>2, <1>s, <2>1, AppendFacts DEF Put
  <2>3. DOMAIN queue' = 1 .. Len(queue) + 1
    BY <2>2, LenProperties
  <2>4. /\ buildLog' = buildLog /\ items' = items /\ main' = "running"
        /\ emitted' = emitted /\ main = "put"
    BY <1>2 DEF Put, relayVars
  <2>5. emitted = Len(buildLog) + Len(items) + Len(queue) + 1
    BY <1>t, <1>l, <2>4 DEF Order, Queued
  <2>6. \A i \in DOMAIN queue' : queue'[i] = JobRecord(Len(buildLog) + Len(items) + i)
    BY <2>2, <2>3, <2>5, <1>l, <1>t DEF Order
  <2> QED BY <2>2, <2>4, <2>5, <2>6, <1>t, <1>l DEF Order, Queued
<1>3. CASE ForkChild
  BY <1>3, <1>t DEF ForkChild, handlerVars, relayVars, Order, Queued
<1>4. CASE WaitChild
  BY <1>4, <1>t DEF WaitChild, handlerVars, relayVars, Order, Queued
<1>5. CASE Close
  BY <1>5, <1>t DEF Close, relayVars, Order, Queued
<1>6. CASE Join
  BY <1>6, <1>t DEF Join, handlerVars, relayVars, Order, Queued
<1>7. CASE Check
  BY <1>7, <1>t DEF Check, jobVars, Order, Queued
<1>8. CASE Checked
  BY <1>8, <1>t DEF Checked, jobVars, Order, Queued
<1>9. CASE Get
  BY <1>9, <1>t DEF Get, jobVars, Order, Queued
<1>10. CASE Got
  <2>0. buildLog' = buildLog /\ main' = main /\ emitted' = emitted
    BY <1>10 DEF Got, jobVars
  <2>1. CASE queue = <<>>
    BY <1>10, <1>t, <2>0, <2>1 DEF Got, Order, Queued
  <2>2. CASE queue # <<>>
    <3>0. items' = Append(items, Head(queue)) /\ queue' = Tail(queue)
      BY <1>10, <2>2 DEF Got
    <3>1. /\ Head(queue) \in Records /\ Head(queue) = queue[1]
          /\ queue' \in Seq(Records) /\ Len(queue') = Len(queue) - 1
          /\ \A i \in 1 .. Len(queue') : queue'[i] = queue[i + 1]
          /\ Len(queue) >= 1
      BY <1>s, <2>2, <3>0, TailFacts
    <3>2. /\ items' \in Seq(Records) /\ Len(items') = Len(items) + 1
          /\ \A i \in 1 .. Len(items) : items'[i] = items[i]
          /\ items'[Len(items) + 1] = queue[1]
      BY <1>s, <3>0, <3>1, AppendFacts
    <3>3. DOMAIN queue' = 1 .. Len(queue) - 1 /\ DOMAIN items' = 1 .. Len(items) + 1
      BY <3>1, <3>2, LenProperties
    <3>4. queue[1] = JobRecord(Len(buildLog) + Len(items) + 1)
      BY <1>t, <1>l, <3>1 DEF Order
    <3>5. \A i \in DOMAIN items' : items'[i] = JobRecord(Len(buildLog) + i)
      <4> SUFFICES ASSUME NEW i \in DOMAIN items'
                   PROVE  items'[i] = JobRecord(Len(buildLog) + i)
        OBVIOUS
      <4>1. CASE i \in 1 .. Len(items)
        BY <4>1, <1>t, <1>l, <3>2 DEF Order
      <4>2. CASE i = Len(items) + 1
        <5>1. Len(buildLog) + i = Len(buildLog) + Len(items) + 1
          BY <4>2, <1>l
        <5> QED BY <4>2, <3>2, <3>4, <5>1
      <4> QED BY <4>1, <4>2, <3>3, <1>l
    <3>6. \A i \in DOMAIN queue' : queue'[i] = JobRecord(Len(buildLog) + Len(items') + i)
      <4> SUFFICES ASSUME NEW i \in DOMAIN queue'
                   PROVE  queue'[i] = JobRecord(Len(buildLog) + Len(items') + i)
        OBVIOUS
      <4>1. i + 1 \in DOMAIN queue /\ queue'[i] = queue[i + 1] /\ i \in Nat
        BY <3>1, <3>3, <1>l
      <4>2. queue[i + 1] = JobRecord(Len(buildLog) + Len(items) + (i + 1))
        BY <4>1, <1>t DEF Order
      <4>3. Len(buildLog) + Len(items) + (i + 1) = Len(buildLog) + Len(items') + i
        BY <4>1, <3>2, <1>l
      <4> QED BY <4>1, <4>2, <4>3
    <3>7. Len(buildLog) + Len(items') + Len(queue') = Queued
      BY <1>t, <1>l, <3>1, <3>2 DEF Order
    <3> QED BY <2>0, <3>5, <3>6, <3>7, <1>t DEF Order, Queued
  <2> QED BY <2>1, <2>2
<1>11. CASE Send
  <2>0. queue' = queue /\ main' = main /\ emitted' = emitted
    BY <1>11 DEF Send, jobVars, handlerVars
  <2>1. items' = <<>> /\ Len(items') = 0 /\ DOMAIN items' = {}
    BY <1>11, EmptySeq DEF Send
  <2>2. /\ buildLog' \in Seq(Records) /\ Len(buildLog') = Len(buildLog) + Len(items)
        /\ \A i \in 1 .. Len(buildLog) + Len(items) :
             buildLog'[i] = IF i <= Len(buildLog) THEN buildLog[i]
                            ELSE items[i - Len(buildLog)]
    BY <1>11, <1>s, ConcatProperties DEF Send
  <2>3. DOMAIN buildLog' = 1 .. Len(buildLog) + Len(items)
    BY <2>2, LenProperties
  <2>4. \A i \in DOMAIN buildLog' : buildLog'[i] = JobRecord(i)
    <3> SUFFICES ASSUME NEW i \in DOMAIN buildLog' PROVE buildLog'[i] = JobRecord(i)
      OBVIOUS
    <3>1. CASE i <= Len(buildLog)
      BY <3>1, <1>t, <1>l, <2>2, <2>3 DEF Order
    <3>2. CASE ~(i <= Len(buildLog))
      <4>1. i - Len(buildLog) \in DOMAIN items /\ Len(buildLog) + (i - Len(buildLog)) = i
        BY <3>2, <1>l, <2>3
      <4>2. items[i - Len(buildLog)] = JobRecord(Len(buildLog) + (i - Len(buildLog)))
        BY <4>1, <1>t DEF Order
      <4> QED BY <3>2, <4>1, <4>2, <2>2, <2>3
    <3> QED BY <3>1, <3>2
  <2> QED BY <2>0, <2>1, <2>2, <2>4, <1>t, <1>l DEF Order, Queued
<1>12. CASE ChildLog
  BY <1>12, <1>t DEF ChildLog, jobVars, handlerVars, relayVars, Order, Queued
<1>13. CASE ChildExit
  BY <1>13, <1>t DEF ChildExit, jobVars, handlerVars, relayVars, Order, Queued
<1>14. CASE EndedFork \/ UNCHANGED forkVars
  BY <1>14, <1>t DEF EndedFork, forkVars, jobVars, handlerVars, relayVars, childVars, Order, Queued
<1> QED
  BY <1>1, <1>2, <1>3, <1>4, <1>5, <1>6, <1>7, <1>8, <1>9, <1>10, <1>11, <1>12, <1>13, <1>14
  DEF NextFork, MainStep, RelayStep, ForkedStep

(* Whatever section of the relay thread a fork falls in, the build log is  *)
(* the records of the job in their order, a prefix of what it logged, and  *)
(* no record of a child is in it.                                          *)
THEOREM OrderHolds == SpecFork => []IInv
<1>1. IInv /\ [NextFork]_forkVars => IInv'
  BY ForkTypeStep, OrderStep DEF IInv
<1> QED BY InitIInv, <1>1, PTL DEF SpecFork

(* LogHandler and os.fork: although a child inherits the queue, no record  *)
(* is sent twice.                                                          *)
THEOREM SentOnceHolds == SpecFork => []SentOnce
<1>1. IInv => SentOnce
  BY DEF IInv, Order, SentOnce, IsInjective, JobRecord
<1> QED BY <1>1, OrderHolds, PTL
=============================================================================
