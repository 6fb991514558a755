---------------------------- MODULE JobRunProofs ----------------------------
(***************************************************************************)
(* Theorems about LogRelay, for every number of records and every timing,  *)
(* and about JobRun, for every list of output files and every behaviour of *)
(* the network.                                                            *)
(***************************************************************************)
EXTENDS JobRun, SequenceTheorems, TLAPS

USE RelayAssumption DEF RelayAssumption

LEMMA AppendFacts ==
  ASSUME NEW S, NEW seq \in Seq(S), NEW e \in S
  PROVE  /\ Append(seq, e) \in Seq(S)
         /\ Len(Append(seq, e)) = Len(seq) + 1
         /\ \A i \in 1 .. Len(seq) : Append(seq, e)[i] = seq[i]
         /\ Append(seq, e)[Len(seq) + 1] = e
BY AppendProperties

LEMMA TailFacts ==
  ASSUME NEW S, NEW seq \in Seq(S), seq # <<>>
  PROVE  /\ Head(seq) \in S
         /\ Head(seq) = seq[1]
         /\ Tail(seq) \in Seq(S)
         /\ Len(Tail(seq)) = Len(seq) - 1
         /\ \A i \in 1 .. Len(Tail(seq)) : Tail(seq)[i] = seq[i + 1]
         /\ Len(seq) \in Nat /\ Len(seq) >= 1
BY HeadTailProperties, LenProperties, EmptySeq

\* Type correctness: the handler's queue, batch and build log hold records of
\* the job only, so a record of the proxy's own logger is never relayed.
LEMMA TypeStep == TypeOK /\ [Next]_vars => TypeOK'
<1> SUFFICES ASSUME TypeOK, [Next]_vars PROVE TypeOK'
  OBVIOUS
<1> USE DEF TypeOK, MainStates, RelayStates, Records
<1>1. CASE Log
  <2>1. emitted + 1 \in Records
    BY <1>1 DEF Log
  <2>2. buffer' \in Seq(Records)
    BY <1>1, <2>1, AppendFacts DEF Log, Emit
  <2> QED BY <1>1, <2>2 DEF Log, Emit, threadVars, logVars
<1>2. CASE CloseFromRun
  BY <1>2 DEF CloseFromRun, SetStopped, threadVars, logVars
<1>3. CASE LeaveRun
  BY <1>3 DEF LeaveRun, handlerVars, threadVars, logVars
<1>4. CASE Shutdown
  BY <1>4 DEF Shutdown, threadVars, logVars
<1>5. CASE CloseFromShutdown
  BY <1>5 DEF CloseFromShutdown, SetStopped, threadVars, logVars
<1>6. CASE Join
  BY <1>6 DEF Join, threadVars, logVars
<1>7. CASE Start
  BY <1>7 DEF Start, At, mainVars, logVars
<1>8. CASE CheckStopped
  BY <1>8 DEF CheckStopped, At, mainVars, handlerVars, logVars
<1>9. CASE Collect
  <2>1. Head(buffer) \in Records /\ buffer' \in Seq(Records)
    BY <1>9, TailFacts DEF Collect
  <2>2. items' \in Seq(Records)
    BY <1>9, <2>1, AppendFacts DEF Collect
  <2> QED BY <1>9, <2>1, <2>2 DEF Collect, At, mainVars, logVars
<1>10. CASE WindowEnd
  BY <1>10 DEF WindowEnd, RoundEnd, At, mainVars, handlerVars, logVars
<1>11. CASE SendLog
  <2>1. RecordsOf(items) \subseteq Records
    BY ElementOfSeq DEF RecordsOf
  <2>2. buildLog \o items \in Seq(Records) /\ <<>> \in Seq(Records)
    BY ConcatProperties, EmptySeq
  <2>3. sent + Len(items) \in Nat
    BY LenProperties
  <2> QED BY <1>11, <2>1, <2>2, <2>3
        DEF SendLog, Post, Received, SendEnd, RoundEnd, At, mainVars, handlerVars
<1>12. CASE ReportFailure
  BY <1>12 DEF ReportFailure, Emit, RoundEnd, At, mainVars, logVars
<1>13. CASE Gone \/ UNCHANGED vars
  BY <1>13 DEF Gone, vars, mainVars, handlerVars, threadVars, logVars
<1> QED
  BY <1>1, <1>2, <1>3, <1>4, <1>5, <1>6, <1>7, <1>8, <1>9, <1>10, <1>11, <1>12, <1>13
  DEF Next, MainExit, RelayStep

\* Every reachable state is well typed.
THEOREM TypeCorrect == Spec => []TypeOK
<1>1. Init => TypeOK
  <2>1. <<>> \in Seq(Records)
    BY EmptySeq
  <2>2. 0 \in Nat /\ 0 \in 0 .. MaxRecords
    OBVIOUS
  <2>3. FALSE \in BOOLEAN /\ {} \in SUBSET Records
    OBVIOUS
  <2> QED BY <2>1, <2>2, <2>3, Zenon DEF Init, TypeOK, MainStates, RelayStates
<1> QED BY <1>1, TypeStep, PTL DEF Spec, SafeSpec

-----------------------------------------------------------------------------

\* What the thread's position says about its flag, its batch and the queue:
\* once it has seen the stop flag nobody adds to the queue, so the batch it
\* closes is the last one.
Rounds ==
  /\ main = "running" => ~stopped
  /\ sawStopped => stopped
  /\ relay \notin {"collect", "send"} => items = <<>>
  /\ relay = "done" => sawStopped
  /\ LastWindowDrains /\ sawStopped /\ relay \in {"send", "report", "done"}
       => buffer = <<>>

IInv == TypeOK /\ Fifo /\ LogInOrder /\ Accounted /\ Rounds

LEMMA IInvDrained == IInv => Drained
BY EmptySeq DEF IInv, TypeOK, Fifo, Rounds, Drained

LEMMA InitIInv == Init => IInv
<1> SUFFICES ASSUME Init PROVE IInv
  OBVIOUS
<1>1. TypeOK
  <2>1. <<>> \in Seq(Records)
    BY EmptySeq
  <2>2. 0 \in Nat /\ 0 \in 0 .. MaxRecords
    OBVIOUS
  <2>3. FALSE \in BOOLEAN /\ {} \in SUBSET Records
    OBVIOUS
  <2> QED BY <2>1, <2>2, <2>3, Zenon DEF Init, TypeOK, MainStates, RelayStates
<1>2. Len(buffer) = 0 /\ Len(items) = 0 /\ Len(buildLog) = 0
  BY EmptySeq DEF Init
<1>3. Fifo /\ LogInOrder
  BY <1>2 DEF Init, Fifo, LogInOrder
<1>4. Accounted
  BY <1>2 DEF Init, Accounted, RecordsOf
<1>5. Rounds
  BY DEF Init, Rounds
<1> QED BY <1>1, <1>3, <1>4, <1>5 DEF IInv

LEMMA FifoStep == IInv /\ [Next]_vars => Fifo'
<1> SUFFICES ASSUME IInv, [Next]_vars PROVE Fifo'
  OBVIOUS
<1> USE DEF IInv, TypeOK
<1>l. Len(items) \in Nat /\ Len(buffer) \in Nat /\ sent \in Nat /\ emitted \in Nat
  BY LenProperties
<1>f. sent + Len(items) + Len(buffer) = emitted
  BY DEF Fifo
<1>1. CASE Log
  <2>1. emitted + 1 \in Records
    BY <1>1 DEF Log, Records
  <2>2. /\ Len(buffer') = Len(buffer) + 1
        /\ \A i \in 1 .. Len(buffer) : buffer'[i] = buffer[i]
        /\ buffer'[Len(buffer) + 1] = emitted + 1
    BY <1>1, <2>1, AppendFacts DEF Log, Emit
  <2>3. \A i \in 1 .. Len(buffer') : buffer'[i] = sent + Len(items) + i
    <3> SUFFICES ASSUME NEW i \in 1 .. Len(buffer')
                 PROVE  buffer'[i] = sent + Len(items) + i
      OBVIOUS
    <3>1. CASE i \in 1 .. Len(buffer)
      BY <2>2, <3>1 DEF Fifo
    <3>2. CASE i = Len(buffer) + 1
      <4>1. buffer'[i] = emitted + 1
        BY <2>2, <3>2
      <4>2. emitted + 1 = sent + Len(items) + i
        BY <1>l, <1>f, <3>2
      <4> QED BY <4>1, <4>2
    <3> QED BY <1>l, <2>2, <3>1, <3>2
  <2>4. UNCHANGED <<items, sent>> /\ emitted' = emitted + 1
    BY <1>1 DEF Log, threadVars, logVars
  <2>5. sent + Len(items) + Len(buffer') = emitted + 1
    BY <1>l, <2>2 DEF Fifo
  <2> QED BY <2>3, <2>4, <2>5 DEF Fifo
<1>2. CASE Collect
  <2> DEFINE n == Len(items)
  <2>1. /\ Head(buffer) \in Records /\ Head(buffer) = buffer[1]
        /\ Len(buffer') = Len(buffer) - 1 /\ Len(buffer) >= 1
        /\ \A i \in 1 .. Len(buffer') : buffer'[i] = buffer[i + 1]
    BY <1>2, TailFacts DEF Collect
  <2>2. /\ Len(items') = n + 1
        /\ \A i \in 1 .. n : items'[i] = items[i]
        /\ items'[n + 1] = buffer[1]
    BY <1>2, <2>1, AppendFacts DEF Collect
  <2>3. sent' = sent /\ emitted' = emitted
    BY <1>2 DEF Collect, mainVars, logVars
  <2>4. \A i \in 1 .. Len(items') : items'[i] = sent + i
    <3> SUFFICES ASSUME NEW i \in 1 .. Len(items')
                 PROVE  items'[i] = sent + i
      OBVIOUS
    <3>1. CASE i \in 1 .. n
      BY <2>2, <3>1 DEF Fifo
    <3>2. CASE i = n + 1
      BY <1>l, <2>1, <2>2, <3>2 DEF Fifo
    <3> QED BY <1>l, <2>2, <3>1, <3>2
  <2>5. \A i \in 1 .. Len(buffer') : buffer'[i] = sent + Len(items') + i
    BY <1>l, <2>1, <2>2 DEF Fifo
  <2>6. sent + Len(items') + Len(buffer') = emitted
    BY <1>l, <1>f, <2>1, <2>2
  <2> QED BY <2>3, <2>4, <2>5, <2>6 DEF Fifo
<1>3. CASE SendLog
  <2>1. Len(items') = 0 /\ sent' = sent + Len(items)
    BY <1>3, EmptySeq DEF SendLog
  <2>2. buffer' = buffer /\ emitted' = emitted
    BY <1>3 DEF SendLog, mainVars, handlerVars
  <2> QED BY <1>l, <2>1, <2>2 DEF Fifo
<1>4. CASE \/ CloseFromRun \/ LeaveRun \/ MainExit
           \/ Start \/ CheckStopped \/ WindowEnd \/ ReportFailure
           \/ Gone \/ UNCHANGED vars
  <2>1. UNCHANGED <<buffer, items, sent, emitted>>
    BY <1>4
    DEF CloseFromRun, LeaveRun, MainExit, Shutdown, CloseFromShutdown, Join, Start,
        CheckStopped, WindowEnd, ReportFailure, Emit, Gone, vars, mainVars,
        handlerVars, threadVars, logVars
  <2> QED BY <2>1 DEF Fifo
<1> QED BY <1>1, <1>2, <1>3, <1>4 DEF Next, RelayStep

LEMMA LogStep == IInv /\ [Next]_vars => LogInOrder' /\ Accounted'
<1> SUFFICES ASSUME IInv, [Next]_vars PROVE LogInOrder' /\ Accounted'
  OBVIOUS
<1> USE DEF IInv, TypeOK
<1>1. CASE SendLog
  <2> DEFINE m == Len(buildLog)
             n == Len(items)
  <2>1. m \in Nat /\ n \in Nat /\ sent \in Nat
    BY LenProperties
  <2>2. sent' = sent + n
    BY <1>1 DEF SendLog
  <2>3. \A i \in 1 .. n : items[i] = sent + i
    BY DEF Fifo
  <2>4. RecordsOf(items) = sent + 1 .. sent + n
    <3>1. \A k \in sent + 1 .. sent + n : k = items[k - sent] /\ k - sent \in 1 .. n
      BY <2>1, <2>3
    <3>2. \A i \in 1 .. n : items[i] \in sent + 1 .. sent + n
      BY <2>1, <2>3
    <3> QED BY <3>1, <3>2 DEF RecordsOf
  <2>5. CASE buildLog' = buildLog \o items /\ dropped' = dropped
    <3>1. /\ Len(buildLog') = m + n
          /\ \A i \in 1 .. m : buildLog'[i] = buildLog[i]
          /\ \A i \in m + 1 .. m + n : buildLog'[i] = items[i - m]
      BY <2>1, <2>5, ConcatProperties
    <3>2. \A i \in m + 1 .. m + n : buildLog'[i] = sent + (i - m)
      BY <2>1, <2>3, <3>1
    <3>3. \A i \in 1 .. m : buildLog'[i] \in 1 .. sent
      BY <3>1 DEF LogInOrder
    <3>4. \A i \in 1 .. m + n : buildLog'[i] \in 1 .. sent + n
      BY <2>1, <3>2, <3>3
    <3>5. \A i, j \in 1 .. m + n : i < j => buildLog'[i] < buildLog'[j]
      <4> SUFFICES ASSUME NEW i \in 1 .. m + n, NEW j \in 1 .. m + n, i < j
                   PROVE  buildLog'[i] < buildLog'[j]
        OBVIOUS
      <4>1. CASE j <= m
        BY <2>1, <3>1, <4>1 DEF LogInOrder
      <4>2. CASE i <= m /\ j > m
        BY <2>1, <3>2, <3>3, <4>2
      <4>3. CASE i > m
        <5>1. i \in m + 1 .. m + n /\ j \in m + 1 .. m + n
          BY <2>1, <4>3
        <5>2. buildLog'[i] = sent + (i - m) /\ buildLog'[j] = sent + (j - m)
          BY <3>2, <5>1
        <5> QED BY <2>1, <5>2
      <4> QED BY <2>1, <4>1, <4>2, <4>3
    <3>6. RecordsOf(buildLog') = RecordsOf(buildLog) \cup RecordsOf(items)
      <4>1. \A i \in 1 .. n : items[i] = buildLog'[m + i] /\ m + i \in 1 .. m + n
        BY <2>1, <3>1
      <4>2. \A i \in 1 .. m + n : i \in 1 .. m \/ (i \in m + 1 .. m + n /\ i - m \in 1 .. n)
        BY <2>1
      <4>3. \A i \in 1 .. m : i \in 1 .. m + n
        BY <2>1
      <4>4. ASSUME NEW i \in 1 .. m + n
            PROVE  buildLog'[i] \in RecordsOf(buildLog) \cup RecordsOf(items)
        BY <3>1, <4>2 DEF RecordsOf
      <4>5. ASSUME NEW i \in 1 .. m PROVE buildLog[i] \in RecordsOf(buildLog')
        BY <3>1, <4>3 DEF RecordsOf
      <4>6. ASSUME NEW i \in 1 .. n PROVE items[i] \in RecordsOf(buildLog')
        BY <3>1, <4>1 DEF RecordsOf
      <4> QED BY <3>1, <4>4, <4>5, <4>6 DEF RecordsOf
    <3>7. Accounted'
      BY <2>1, <2>2, <2>4, <2>5, <3>6 DEF Accounted
    <3> QED BY <2>2, <3>1, <3>4, <3>5, <3>7 DEF LogInOrder
  <2>6. CASE buildLog' = buildLog /\ dropped' = dropped \cup RecordsOf(items)
    <3>1. RecordsOf(buildLog') = RecordsOf(buildLog)
      BY <2>6
    <3>2. Accounted'
      BY <2>1, <2>2, <2>4, <2>6, <3>1 DEF Accounted
    <3>3. \A i \in 1 .. m : buildLog[i] \in 1 .. sent + n
      BY <2>1 DEF LogInOrder
    <3> QED BY <2>2, <2>6, <3>2, <3>3 DEF LogInOrder
  <2> QED BY <1>1, <2>5, <2>6 DEF SendLog, Post, Received
<1>2. CASE ~SendLog
  <2>1. UNCHANGED logVars
    BY <1>2
    DEF Next, RelayStep, Log, CloseFromRun, LeaveRun, MainExit, Shutdown,
        CloseFromShutdown, Join, Start, CheckStopped, Collect, WindowEnd,
        ReportFailure, Gone, vars
  <2> QED BY <2>1 DEF logVars, LogInOrder, Accounted, RecordsOf
<1> QED BY <1>1, <1>2

LEMMA RoundsStep == IInv /\ [Next]_vars => Rounds'
<1> SUFFICES ASSUME IInv, [Next]_vars PROVE Rounds'
  OBVIOUS
<1> USE DEF IInv, TypeOK, Rounds
<1>1. CASE Log
  BY <1>1 DEF Log, threadVars
<1>2. CASE CloseFromRun \/ LeaveRun \/ Shutdown \/ CloseFromShutdown \/ Join
  BY <1>2
  DEF CloseFromRun, LeaveRun, Shutdown, CloseFromShutdown, Join, SetStopped,
      handlerVars, threadVars
<1>3. CASE Start
  BY <1>3 DEF Start, At, mainVars
<1>4. CASE CheckStopped
  BY <1>4 DEF CheckStopped, At, mainVars, handlerVars
<1>5. CASE Collect
  BY <1>5 DEF Collect, At, mainVars
<1>6. CASE WindowEnd
  BY <1>6 DEF WindowEnd, RoundEnd, At, mainVars, handlerVars
<1>7. CASE SendLog
  BY <1>7 DEF SendLog, Post, SendEnd, RoundEnd, At, mainVars, handlerVars
<1>8. CASE ReportFailure
  BY <1>8 DEF ReportFailure, Emit, RoundEnd, At, mainVars
<1>9. CASE Gone \/ UNCHANGED vars
  BY <1>9 DEF Gone, vars, mainVars, handlerVars, threadVars
<1> QED BY <1>1, <1>2, <1>3, <1>4, <1>5, <1>6, <1>7, <1>8, <1>9
        DEF Next, MainExit, RelayStep

\* The inductive invariant of the handler.
LEMMA Invariance == Spec => []IInv
<1>1. IInv /\ [Next]_vars => IInv'
  BY TypeStep, FifoStep, LogStep, RoundsStep DEF IInv
<1> QED BY InitIInv, <1>1, PTL DEF Spec, SafeSpec

\* No interleaving of the job with the thread, and no failure of a POST,
\* duplicates or reorders a record on its way to the build log.
THEOREM FifoHolds == Spec => []Fifo
<1>1. IInv => Fifo
  BY DEF IInv
<1> QED BY Invariance, <1>1, PTL

THEOREM LogInOrderHolds == Spec => []LogInOrder
<1>1. IInv => LogInOrder
  BY DEF IInv
<1> QED BY Invariance, <1>1, PTL

\* A record that left the slave is missing from the build log only if its
\* POST was lost.
THEOREM AccountedHolds == Spec => []Accounted
<1>1. IInv => Accounted
  BY DEF IInv
<1> QED BY Invariance, <1>1, PTL

\* If the last one-second window empties the queue, a close() that joined the
\* thread has left no record behind.
THEOREM DrainedHolds == Spec => []Drained
BY Invariance, IInvDrained, PTL

-----------------------------------------------------------------------------

LEMMA AbstractStep == IInv /\ [Next]_vars => [Abstract!Next]_(Abstract!vars)
<1> SUFFICES ASSUME IInv, [Next]_vars PROVE [Abstract!Next]_(Abstract!vars)
  OBVIOUS
<1> USE DEF IInv, TypeOK, Abstract!vars
<1>1. CASE Log
  BY <1>1 DEF Log, logVars, Abstract!Next, Abstract!Record
<1>2. CASE SendLog
  <2> DEFINE n == Len(items)
             last == sent + n
  <2>1. n \in Nat /\ sent \in Nat /\ emitted \in Nat /\ Len(buffer) \in Nat
    BY LenProperties
  <2>2. sent' = last /\ emitted' = emitted
    BY <1>2 DEF SendLog, mainVars
  <2>3. sent + n + Len(buffer) = emitted
    BY DEF Fifo
  <2>4. CASE n = 0
    <3>1. items = <<>>
      BY <2>4, EmptySeq
    <3>2. buildLog \o items = buildLog
      BY <3>1, ConcatEmptySeq
    <3>3. buildLog' = buildLog
      BY <1>2, <3>2 DEF SendLog, Post, Received
    <3> QED BY <2>1, <2>2, <2>4, <3>3
  <2>5. CASE n > 0
    <3>1. last \in sent + 1 .. emitted
      BY <2>1, <2>3, <2>5
    <3>2. items = Abstract!Batch(sent + 1, last)
      <4>1. last - (sent + 1) + 1 = n
        BY <2>1
      <4>2. items = [i \in 1 .. n |-> items[i]]
        BY LenProperties
      <4>3. \A i \in 1 .. n : items[i] = sent + i /\ (sent + 1) + i - 1 = sent + i
        BY <2>1 DEF Fifo
      <4> QED BY <4>1, <4>2, <4>3 DEF Abstract!Batch
    <3>3. buildLog' \in {buildLog, buildLog \o Abstract!Batch(sent + 1, last)}
      BY <1>2, <3>2 DEF SendLog, Post, Received
    <3> QED BY <2>2, <3>1, <3>3 DEF Abstract!Next, Abstract!Relay
  <2> QED BY <2>1, <2>4, <2>5
<1>3. CASE ~Log /\ ~SendLog
  <2>1. UNCHANGED <<emitted, sent, buildLog>>
    BY <1>3
    DEF Next, RelayStep, CloseFromRun, LeaveRun, MainExit, Shutdown,
        CloseFromShutdown, Join, Start, CheckStopped, Collect, WindowEnd,
        ReportFailure, Gone, vars, mainVars, logVars
  <2> QED BY <2>1
<1> QED BY <1>1, <1>2, <1>3

\* The handler implements the abstract build log: records leave in batches, in
\* order, each batch recorded as a whole or not at all.
THEOREM Refinement == Spec => ImplementsBuildLog
<1>1. Init => Abstract!Init
  BY DEF Init, Abstract!Init
<1> QED BY <1>1, Invariance, AbstractStep, PTL
    DEF Spec, SafeSpec, ImplementsBuildLog, Abstract!Spec

----------------------------------------------------------------------------
(* The job's life around the relay. *)

USE JobAssumption DEF JobAssumption

LEMMA FileListFacts ==
  /\ Len(FileList) \in Nat /\ Len(FileList) >= 1
  /\ \A i \in 1 .. Len(FileList) : FileList[i] \in Files
  /\ Files # {}
<1>1. Len(FileList) \in Nat /\ Len(FileList) # 0
  BY LenProperties, EmptySeq
<1>2. \A i \in 1 .. Len(FileList) : FileList[i] \in Files
  BY DEF Files
<1>3. 1 \in 1 .. Len(FileList)
  BY <1>1
<1> QED BY <1>1, <1>2, <1>3

JobTypes ==
  /\ job \in JobStates
  /\ next \in 1 .. Len(FileList) + 1
  /\ error \in {"none", "write", "finish"}
  /\ status \in {"none", "RUNNING"} \cup Final
  /\ uploaded \subseteq Files \cup {Trace}
  /\ listing \in {{}, Files}
  /\ fault \in BOOLEAN

\* How far the job is, and what the rBuilder then has.
Progressed ==
  /\ \A i \in 1 .. next - 1 : FileList[i] \in uploaded
  /\ job \in {"list", "finish"} => Files \subseteq uploaded
  /\ job = "finish" => listing = Files
  /\ listing \subseteq uploaded
  /\ job \in {"begin", "write", "upload", "list", "finish"} =>
       error = "none" /\ status \notin Final
  /\ job \in {"trace", "fail"} => status # "FAILED"
  /\ error = "write" => status # "FINISHED"
  /\ status = "FINISHED" => listing = Files
  /\ job \in {"close", "returned"} => status \in Final

JobInv == JobTypes /\ Progressed

\* Each step of the job is a step of the relay's environment.
LEMMA Composition == JobSpec => SafeSpec
<1>1. JobInit => Init
  BY DEF JobInit
<1>2. [JobNext]_allVars => [Next]_vars
  BY DEF JobNext, allVars, Progress, JobStep, Begin, WriteDone, WriteRaises, Upload,
         UploadsDone, List, Finish, SendStackTrace, SendFailed, Return, Leave, JobLog,
         Threads, Next
<1> QED BY <1>1, <1>2, PTL DEF JobSpec, SafeSpec

LEMMA JobInvInit == JobInit => JobInv
<1> SUFFICES ASSUME JobInit PROVE JobInv
  OBVIOUS
<1>1. 1 \in 1 .. Len(FileList) + 1
  BY FileListFacts
<1>2. {} \in {{}, Files} /\ FALSE \in BOOLEAN
  OBVIOUS
<1>3. JobTypes
  BY <1>1, <1>2, Zenon DEF JobInit, JobTypes, JobStates, Final
<1>4. Progressed
  BY DEF JobInit, Progressed, Final
<1> QED BY <1>3, <1>4 DEF JobInv

LEMMA JobInvStep == JobInv /\ [JobNext]_allVars => JobInv'
<1> SUFFICES ASSUME JobInv, [JobNext]_allVars PROVE JobInv'
  OBVIOUS
<1> USE FileListFacts DEF JobInv, JobTypes, Progressed, JobStates, Final
<1>1. CASE Begin \/ Progress
  BY <1>1 DEF Begin, Progress, SendStatus, Call, Goto, Raises
<1>2. CASE WriteDone
  BY <1>2 DEF WriteDone
<1>3. CASE WriteRaises
  BY <1>3 DEF WriteRaises
<1>4. CASE Upload
  BY <1>4 DEF Upload, Call, Goto, Catch
<1>5. CASE UploadsDone
  <2>1. next = Len(FileList) + 1
    BY <1>5 DEF UploadsDone
  <2>2. Files \subseteq uploaded
    <3> SUFFICES ASSUME NEW i \in 1 .. Len(FileList) PROVE FileList[i] \in uploaded
      BY DEF Files
    <3>1. i \in 1 .. next - 1
      BY <2>1
    <3> QED BY <3>1
  <2> QED BY <1>5, <2>2 DEF UploadsDone
<1>6. CASE List
  BY <1>6 DEF List, Call, Goto, Catch
<1>7. CASE Finish
  BY <1>7 DEF Finish, SendStatus, Call, Goto, Catch, Raises
<1>8. CASE SendStackTrace
  BY <1>8 DEF SendStackTrace, Call, Listed, AfterTrace
<1>9. CASE SendFailed
  BY <1>9 DEF SendFailed, SendStatus, Call, Goto, Raises
<1>10. CASE Return
  BY <1>10 DEF Return
<1>11. CASE Leave \/ JobLog \/ Threads \/ UNCHANGED allVars
  BY <1>11 DEF Leave, JobLog, Threads, allVars, jobVars
<1> QED
  BY <1>1, <1>2, <1>3, <1>4, <1>5, <1>6, <1>7, <1>8, <1>9, <1>10, <1>11
  DEF JobNext, JobStep

LEMMA JobInvariance == JobSpec => []JobInv
BY JobInvInit, JobInvStep, PTL DEF JobSpec

LEMMA RelayInvariance == JobSpec => []IInv
<1>1. Init => IInv
  BY InitIInv
<1>2. IInv /\ [Next]_vars => IInv'
  BY TypeStep, FifoStep, LogStep, RoundsStep DEF IInv
<1> QED BY Composition, <1>1, <1>2, PTL DEF SafeSpec

\* Every reachable state of a job is well typed; in particular the stack trace
\* of a failed job is never listed as its output.
THEOREM JobTypeCorrect == JobSpec => []JobTypeOK
<1>1. JobInv /\ IInv => JobTypeOK
  BY DEF JobInv, JobTypes, IInv, JobTypeOK
<1> QED BY JobInvariance, RelayInvariance, <1>1, PTL

\* An image lists only files the rBuilder holds.
THEOREM ListedIsUploadedHolds == JobSpec => []ListedIsUploaded
<1>1. JobInv => ListedIsUploaded
  BY DEF JobInv, Progressed, ListedIsUploaded
<1> QED BY JobInvariance, <1>1, PTL

\* A run that returns has told the rBuilder how the job ended, whatever calls
\* failed.
THEOREM NoSilentReturnHolds == JobSpec => []NoSilentReturn
<1>1. JobInv => NoSilentReturn
  BY DEF JobInv, Progressed, NoSilentReturn
<1> QED BY JobInvariance, <1>1, PTL

\* A job whose write() raised is never FINISHED.
THEOREM TruthfulHolds == JobSpec => []Truthful
<1>1. JobInv => Truthful
  BY DEF JobInv, Progressed, Truthful
<1> QED BY JobInvariance, <1>1, PTL

\* After a clean close the build log is complete but for lost POSTs.
THEOREM ReportCompleteHolds == JobSpec => []ReportComplete
<1>1. IInv => ReportComplete
  <2> SUFFICES ASSUME IInv PROVE ReportComplete
    OBVIOUS
  <2>1. Drained /\ Accounted
    BY IInvDrained DEF IInv
  <2> QED BY <2>1 DEF Drained, Accounted, ReportComplete
<1> QED BY RelayInvariance, <1>1, PTL

\* What the rBuilder shows of a job follows the abstract life of a job.
THEOREM JobRefinement == JobSpec => ImplementsJobStatus
<1>1. JobInit => Watched!Init
  BY DEF JobInit, Watched!Init
<1>2. JobInv /\ [JobNext]_allVars => [Watched!Next]_(Watched!vars)
  <2> SUFFICES ASSUME JobInv, [JobNext]_allVars PROVE [Watched!Next]_(Watched!vars)
    OBVIOUS
  <2> USE FileListFacts
      DEF JobInv, JobTypes, Progressed, JobStates, Final, Watched!vars, Watched!Next
  <2>1. CASE Begin \/ Progress
    BY <2>1 DEF Begin, Progress, SendStatus, Call, Watched!Work
  <2>2. CASE List
    BY <2>2 DEF List, Call, Watched!List
  <2>3. CASE Finish
    BY <2>3 DEF Finish, SendStatus, Call, Watched!Finish
  <2>4. CASE SendFailed
    BY <2>4 DEF SendFailed, SendStatus, Call, Watched!Fail
  <2>5. CASE WriteDone \/ WriteRaises \/ Upload \/ UploadsDone \/ SendStackTrace
             \/ Return \/ Leave \/ JobLog \/ Threads \/ UNCHANGED allVars
    <3>1. UNCHANGED <<status, listing>>
      BY <2>5
      DEF WriteDone, WriteRaises, Upload, UploadsDone, SendStackTrace, Listed, Return,
          Leave, JobLog, Threads, allVars, jobVars
    <3> QED BY <3>1
  <2> QED BY <2>1, <2>2, <2>3, <2>4, <2>5 DEF JobNext, JobStep
<1> QED BY <1>1, <1>2, JobInvariance, PTL
    DEF JobSpec, ImplementsJobStatus, Watched!Spec
=============================================================================
