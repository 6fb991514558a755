------------------------------ MODULE LogRelay ------------------------------
(***************************************************************************)
(* LogHandler (jobslave/response.py): the thread that sends the log        *)
(* records of a job to the rBuilder, and the main thread of the slave as   *)
(* far as the handler sees it: it logs, closes the handler at the end of   *)
(* Generator.run or leaves run by an exception, and ends the process, when *)
(* the interpreter's logging.shutdown closes every handler once more.      *)
(*                                                                         *)
(* A record is the number of its logging call.  A critical section under   *)
(* the handler's lock is one step; a step that needs the lock waits while  *)
(* the other thread holds it.                                              *)
(***************************************************************************)
EXTENDS Naturals, Sequences

CONSTANTS
  MaxRecords,        \* bound: records the job logs
  LastWindowDrains,  \* one second is enough to empty a queue nobody adds to
  ShutdownLocks      \* logging.shutdown holds the handler's lock around
                     \* close() (the Python 2.7 library) or not (2.6)

ASSUME RelayAssumption ==
  /\ MaxRecords \in Nat
  /\ LastWindowDrains \in BOOLEAN
  /\ ShutdownLocks \in BOOLEAN

VARIABLES
  \* the main thread
  main,        \* where it is, see MainStates
  emitted,     \* number of records it has logged
  \* LogHandler: fields shared by the threads
  lock,        \* holder of the handler's RLock across steps
  buffer,      \* the Queue of records
  started,
  stopped,
  \* locals of LogHandler.run
  relay,       \* where it is, see RelayStates
  sawStopped,  \* its local "stopped"
  items,       \* the records collected in this round
  \* the rBuilder, and history
  buildLog,    \* records in the job's build_log
  dropped,     \* records whose POST was not recorded
  sent         \* number of records handed to sendLog

mainVars == <<main, emitted>>
handlerVars == <<lock, buffer, started, stopped>>
threadVars == <<relay, sawStopped, items>>
logVars == <<buildLog, dropped, sent>>
vars == <<mainVars, handlerVars, threadVars, logVars>>

MainStates == {"running", "joining", "exiting", "shutdown", "shutJoin", "gone"}
RelayStates == {"new", "check", "collect", "send", "report", "done"}

\* The records of the job, and the one the proxy's own logger makes when a
\* sendLog has failed.
Records == 1 .. MaxRecords
OwnRecord == 0

\* The types; in particular the proxy's own record is never in the queue, in a
\* batch or in the build log (NonSendingLogger).
TypeOK ==
  /\ main \in MainStates
  /\ emitted \in 0 .. MaxRecords
  /\ lock \in {"none", "main"}
  /\ buffer \in Seq(Records)
  /\ started \in BOOLEAN
  /\ stopped \in BOOLEAN
  /\ relay \in RelayStates
  /\ sawStopped \in BOOLEAN
  /\ items \in Seq(Records)
  /\ buildLog \in Seq(Records)
  /\ dropped \in SUBSET Records
  /\ sent \in Nat

Init ==
  /\ main = "running" /\ emitted = 0
  /\ lock = "none" /\ buffer = <<>> /\ started = FALSE /\ stopped = FALSE
  /\ relay = "new" /\ sawStopped = FALSE /\ items = <<>>
  /\ buildLog = <<>> /\ dropped = {} /\ sent = 0

-----------------------------------------------------------------------------
(* The main thread *)

\* LogHandler.emit: records marked dontSend stay on the slave.
Emit(record, dontSend) ==
  buffer' = IF dontSend THEN buffer ELSE Append(buffer, record)

Log ==
  /\ main = "running" /\ emitted < MaxRecords
  /\ emitted' = emitted + 1
  /\ Emit(emitted + 1, FALSE)
  /\ UNCHANGED <<main, lock, started, stopped, threadVars, logVars>>

\* Mutant of SetStopped: the flag is not set.
JoinOnly(ifStarted, otherwise) ==
  /\ stopped' = stopped
  /\ main' = IF started THEN ifStarted ELSE otherwise

\* The critical section of LogHandler.close, and its decision to join.
SetStopped(ifStarted, otherwise) ==
  /\ stopped' = TRUE
  /\ main' = IF started THEN ifStarted ELSE otherwise

\* Generator.run closes the handler as its last step.
CloseFromRun ==
  /\ main = "running"
  /\ SetStopped("joining", "exiting")
  /\ UNCHANGED <<emitted, lock, buffer, started, threadVars, logVars>>

\* Sending the FAILED status raised: run ends without closing the handler.
LeaveRun ==
  /\ main = "running"
  /\ main' = "exiting"
  /\ UNCHANGED <<emitted, handlerVars, threadVars, logVars>>

\* The process ends: logging.shutdown turns to the handler.
Shutdown ==
  /\ main = "exiting"
  /\ main' = "shutdown"
  /\ lock' = IF ShutdownLocks THEN "main" ELSE "none"
  /\ UNCHANGED <<emitted, buffer, started, stopped, threadVars, logVars>>

CloseFromShutdown ==
  /\ main = "shutdown"
  /\ SetStopped("shutJoin", "gone")
  /\ lock' = IF started THEN lock ELSE "none"
  /\ UNCHANGED <<emitted, buffer, started, threadVars, logVars>>

\* self.join() returns once the thread has ended.
Join ==
  /\ main \in {"joining", "shutJoin"} /\ relay = "done"
  /\ main' = IF main = "joining" THEN "exiting" ELSE "gone"
  /\ lock' = "none"
  /\ UNCHANGED <<emitted, buffer, started, stopped, threadVars, logVars>>

MainExit == Shutdown \/ CloseFromShutdown \/ Join

-----------------------------------------------------------------------------
(* The relay thread: a daemon, it dies with the process *)

At(state) == relay = state /\ main # "gone"

\* Mutant of RoundEnd: the flag is read after the batch, not before.
RoundEndLate == IF stopped THEN "done" ELSE "check"

\* "if stopped: return", with the value read before the batch was collected.
RoundEnd == IF sawStopped THEN "done" ELSE "check"

Start ==
  /\ At("new") /\ lock = "none"
  /\ started' = TRUE
  /\ relay' = "check"
  /\ UNCHANGED <<mainVars, lock, buffer, stopped, sawStopped, items, logVars>>

CheckStopped ==
  /\ At("check") /\ lock = "none"
  /\ sawStopped' = stopped
  /\ relay' = "collect"
  /\ UNCHANGED <<mainVars, handlerVars, items, logVars>>

Collect ==
  /\ At("collect") /\ buffer # <<>>
  /\ items' = Append(items, Head(buffer))
  /\ buffer' = Tail(buffer)
  /\ UNCHANGED <<mainVars, lock, started, stopped, relay, sawStopped, logVars>>

\* The second is over.
WindowEnd ==
  /\ At("collect")
  /\ LastWindowDrains /\ sawStopped => buffer = <<>>
  /\ relay' = IF items # <<>> THEN "send" ELSE RoundEnd
  /\ UNCHANGED <<mainVars, handlerVars, sawStopped, items, logVars>>

RecordsOf(seq) == {seq[i] : i \in 1 .. Len(seq)}

\* Mutant of SendEnd: a failed POST ends the thread.
SendEndFatal(fails) == IF fails THEN "done" ELSE RoundEnd

\* sendLog swallows a failure, and logs it.
SendEnd(fails) == IF fails THEN "report" ELSE RoundEnd

\* Mutant of Received: only the first record of a batch is posted.
ReceivedFirst(batch) == Append(buildLog, Head(batch))

Received(batch) == buildLog \o batch

\* ResponseProxy.sendLog: the POST is recorded or not, and fails or not.
Post(recorded, fails) ==
  /\ recorded \/ fails
  /\ buildLog' = IF recorded THEN Received(items) ELSE buildLog
  /\ dropped' = IF recorded THEN dropped ELSE dropped \cup RecordsOf(items)
  /\ relay' = SendEnd(fails)

\* Mutant of SendLog: a failed batch is sent again.
SendLogAgain ==
  /\ At("send")
  /\ \E recorded, fails \in BOOLEAN :
       /\ Post(recorded, fails)
       /\ items' = IF fails THEN items ELSE <<>>
       /\ sent' = IF fails THEN sent ELSE sent + Len(items)
  /\ UNCHANGED <<mainVars, handlerVars, sawStopped>>

SendLog ==
  /\ At("send")
  /\ \E recorded, fails \in BOOLEAN : Post(recorded, fails)
  /\ items' = <<>>
  /\ sent' = sent + Len(items)
  /\ UNCHANGED <<mainVars, handlerVars, sawStopped>>

\* The failure is logged, through a logger whose records are not relayed.
ReportFailure ==
  /\ At("report") /\ lock = "none"
  /\ Emit(OwnRecord, TRUE)
  /\ relay' = RoundEnd
  /\ UNCHANGED <<mainVars, lock, started, stopped, sawStopped, items, logVars>>

RelayStep ==
  Start \/ CheckStopped \/ Collect \/ WindowEnd \/ SendLog \/ ReportFailure

-----------------------------------------------------------------------------

\* The process is over.
Gone == main = "gone" /\ UNCHANGED vars

Next == Log \/ CloseFromRun \/ LeaveRun \/ MainExit \/ RelayStep \/ Gone

\* The operating system schedules both threads, and a call to the rBuilder
\* returns; nothing makes the job log, or end.  Queue.get returns at once when
\* a record waits, so windows do not go by for ever without collecting it.
Fairness == WF_vars(RelayStep) /\ SF_vars(Collect) /\ WF_vars(MainExit)

SafeSpec == Init /\ [][Next]_vars
Spec == SafeSpec /\ Fairness

-----------------------------------------------------------------------------
(* Properties *)

\* LogHandler.run: the records that wait, in the queue or in the batch being
\* collected, are the ones not yet sent, each once and in logging order.
Fifo ==
  /\ sent + Len(items) + Len(buffer) = emitted
  /\ \A i \in 1 .. Len(items) : items[i] = sent + i
  /\ \A i \in 1 .. Len(buffer) : buffer[i] = sent + Len(items) + i

\* LogHandler.run and sendLog: the build log has no record twice and none
\* out of order, whichever POSTs failed or were recorded without an answer.
LogInOrder ==
  /\ \A i \in 1 .. Len(buildLog) : buildLog[i] \in 1 .. sent
  /\ \A i, j \in 1 .. Len(buildLog) : i < j => buildLog[i] < buildLog[j]

\* sendLog: a record that was sent is in the build log exactly if its POST
\* was not lost.
Accounted ==
  /\ RecordsOf(buildLog) \cup dropped = 1 .. sent
  /\ RecordsOf(buildLog) \cap dropped = {}

\* LogHandler.run reads the stop flag before it empties the queue: once the
\* thread has ended, nothing the job logged before close() is left behind.
Drained == LastWindowDrains /\ relay = "done" => sent = emitted

\* LogHandler.close, called by run or by the interpreter, returns: "All sending
\* is done from a separate thread to avoid blocking the caller"
\* (response.py:150).
CallerNotBlocked == main \in {"joining", "shutJoin"} ~> main \in {"exiting", "gone"}

\* LogHandler.run: a record leaves the slave unless the process ends first.
EventuallySent ==
  \A n \in 1 .. MaxRecords : (emitted >= n) ~> (sent >= n \/ main = "gone")

\* The relay implements the build log it promises.
Abstract == INSTANCE BuildLog WITH logged <- emitted, relayed <- sent, log <- buildLog
ImplementsBuildLog == Abstract!Spec
=============================================================================
