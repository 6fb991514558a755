----------------------------- MODULE ForkedLog ------------------------------
(***************************************************************************)
(* The log handler of jobslave/response.py when the job forks              *)
(* (installFilesInExistingTree, jobslave/generators/docker.py).  The child *)
(* gets a copy of the handler: the records still in its queue, and its two *)
(* locks as they were at the fork, but not the thread that sends the       *)
(* records and may have held one of them.                                  *)
(*                                                                         *)
(* LogRelay takes each critical section as one step, since its two threads *)
(* always leave them; here a section of the relay thread is two steps, and *)
(* the fork may come in between.                                           *)
(***************************************************************************)
EXTENDS Naturals, Sequences, SequencesExt

CONSTANTS
  MaxRecords,   \* bound: records of the job
  MaxChild,     \* bound: records of each child
  MaxForks      \* bound: installs

ASSUME ForkedAssumption == {MaxRecords, MaxChild, MaxForks} \subseteq Nat

VARIABLES
  main,      \* the job's main thread
  emitted,   \* records logged by it
  forks,     \* children forked by it
  lock,      \* holder of the handler's lock in the job
  mutex,     \* holder of its queue's lock in the job
  queue,     \* LogHandler.buffer in the job
  stopped,
  relay,     \* the relay thread
  seen,      \* its local "stopped"
  items,     \* its local "items"
  buildLog,  \* records sent to the rBuilder
  child,     \* the child
  held,      \* the locks that were held in it when it was forked
  copy,      \* its queue
  spoken     \* records logged by it

jobVars == <<main, emitted, forks>>
handlerVars == <<lock, mutex, queue, stopped>>
relayVars == <<relay, seen, items, buildLog>>
childVars == <<child, held, copy, spoken>>
forkVars == <<jobVars, handlerVars, relayVars, childVars>>

JobRecord(n) == <<"job", n>>
ChildRecord(n) == <<"child", forks, n>>
Records ==
  {JobRecord(n) : n \in 1 .. MaxRecords} \cup
  {<<"child", f, n>> : f \in 1 .. MaxForks, n \in 1 .. MaxChild}

\* The types; in particular the main thread holds no lock when it forks or waits.
ForkTypeOK ==
  /\ main \in {"running", "put", "wait", "joining", "gone"}
  /\ emitted \in 0 .. MaxRecords /\ forks \in 0 .. MaxForks
  /\ lock \in {"none", "main", "relay"} /\ mutex \in {"none", "relay"}
  /\ lock = "main" <=> main = "put"
  /\ queue \in Seq(Records) /\ copy \in Seq(Records)
  /\ stopped \in BOOLEAN /\ seen \in BOOLEAN
  /\ relay \in {"check", "checking", "collect", "getting", "done"}
  /\ items \in Seq(Records) /\ buildLog \in Seq(Records)
  /\ child \in {"none", "install", "exited"}
  /\ held \subseteq {"lock", "mutex"}
  /\ spoken \in 0 .. MaxChild

InitFork ==
  /\ main = "running" /\ emitted = 0 /\ forks = 0
  /\ lock = "none" /\ mutex = "none" /\ queue = <<>> /\ stopped = FALSE
  /\ relay = "check" /\ seen = FALSE /\ items = <<>> /\ buildLog = <<>>
  /\ child = "none" /\ held = {} /\ copy = <<>> /\ spoken = 0

-----------------------------------------------------------------------------
(* The main thread *)

\* Handler.handle takes the handler's lock; emit puts the record in the queue.
Log ==
  /\ main = "running" /\ emitted < MaxRecords /\ lock = "none"
  /\ lock' = "main"
  /\ main' = "put" /\ emitted' = emitted + 1
  /\ UNCHANGED <<forks, mutex, queue, stopped, relayVars, childVars>>

Put ==
  /\ main = "put" /\ mutex = "none"
  /\ queue' = Append(queue, JobRecord(emitted))
  /\ lock' = "none"
  /\ main' = "running"
  /\ UNCHANGED <<emitted, forks, mutex, stopped, relayVars, childVars>>

HeldByRelay ==
  {l \in {"lock", "mutex"} : [lock |-> lock, mutex |-> mutex][l] = "relay"}

ForkChild ==
  /\ main = "running" /\ forks < MaxForks
  /\ main' = "wait" /\ forks' = forks + 1
  /\ child' = "install" /\ held' = HeldByRelay /\ copy' = queue /\ spoken' = 0
  /\ UNCHANGED <<emitted, handlerVars, relayVars>>

\* os.waitpid
WaitChild ==
  /\ main = "wait" /\ child = "exited"
  /\ main' = "running"
  /\ UNCHANGED <<emitted, forks, handlerVars, relayVars, childVars>>

\* LogHandler.close
Close ==
  /\ main = "running" /\ lock = "none"
  /\ stopped' = TRUE
  /\ main' = "joining"
  /\ UNCHANGED <<emitted, forks, lock, mutex, queue, relayVars, childVars>>

Join ==
  /\ main = "joining" /\ relay = "done"
  /\ main' = "gone"
  /\ UNCHANGED <<emitted, forks, handlerVars, relayVars, childVars>>

-----------------------------------------------------------------------------
(* The relay thread *)

Check ==
  /\ relay = "check" /\ lock = "none"
  /\ lock' = "relay" /\ relay' = "checking"
  /\ UNCHANGED <<jobVars, mutex, queue, stopped, seen, items, buildLog, childVars>>

Checked ==
  /\ relay = "checking"
  /\ seen' = stopped
  /\ lock' = "none" /\ relay' = "collect"
  /\ UNCHANGED <<jobVars, mutex, queue, stopped, items, buildLog, childVars>>

\* Queue.get takes the queue's lock, and takes it again each time it wakes up.
Get ==
  /\ relay = "collect" /\ mutex = "none"
  /\ mutex' = "relay" /\ relay' = "getting"
  /\ UNCHANGED <<jobVars, lock, queue, stopped, seen, items, buildLog, childVars>>

Got ==
  /\ relay = "getting"
  /\ IF queue = <<>> THEN UNCHANGED <<queue, items>>
     ELSE items' = Append(items, Head(queue)) /\ queue' = Tail(queue)
  /\ mutex' = "none" /\ relay' = "collect"
  /\ UNCHANGED <<jobVars, lock, stopped, seen, buildLog, childVars>>

\* The second is over: what was collected is sent.
Send ==
  /\ relay = "collect"
  /\ buildLog' = buildLog \o items
  /\ items' = <<>>
  /\ relay' = IF seen THEN "done" ELSE "check"
  /\ UNCHANGED <<jobVars, handlerVars, seen, childVars>>

-----------------------------------------------------------------------------
(* The child *)

\* A record of the install needs both locks, and ends in the child's queue.
ChildLog ==
  /\ child = "install" /\ spoken < MaxChild /\ held = {}
  /\ copy' = Append(copy, ChildRecord(spoken + 1))
  /\ spoken' = spoken + 1
  /\ UNCHANGED <<jobVars, handlerVars, relayVars, child, held>>

\* Mutants of ChildExit: the child closes its handler, and sends what is in its
\* queue, or waits for the thread.
ChildExitFlush ==
  /\ child = "install" /\ spoken = MaxChild
  /\ child' = "exited"
  /\ buildLog' = buildLog \o copy
  /\ UNCHANGED <<jobVars, handlerVars, relay, seen, items, held, copy, spoken>>
ChildExitJoin ==
  /\ child = "install" /\ spoken = MaxChild /\ relay = "done"
  /\ child' = "exited"
  /\ UNCHANGED <<jobVars, handlerVars, relayVars, held, copy, spoken>>

\* os._exit(0): no handler is closed.
ChildExit ==
  /\ child = "install" /\ spoken = MaxChild
  /\ child' = "exited"
  /\ UNCHANGED <<jobVars, handlerVars, relayVars, held, copy, spoken>>

MainStep == Log \/ Put \/ ForkChild \/ WaitChild \/ Close \/ Join
RelayStep == Check \/ Checked \/ Get \/ Got \/ Send
ForkedStep == ChildLog \/ ChildExit

EndedFork == main = "gone" /\ UNCHANGED forkVars

NextFork == MainStep \/ RelayStep \/ ForkedStep \/ EndedFork

\* Every thread is scheduled, the second of a round passes, and a thread that
\* waits for a lock gets it if the lock is free again and again.
SpecFork ==
  /\ InitFork /\ [][NextFork]_forkVars
  /\ SF_forkVars(MainStep) /\ WF_forkVars(ForkedStep)
  /\ SF_forkVars(RelayStep) /\ SF_forkVars(Send)

-----------------------------------------------------------------------------
(* Properties *)

\* LogHandler and os.fork: records that are in the queue when a child is
\* forked are in two queues, but none is sent twice.
SentOnce == ForkTypeOK /\ IsInjective(buildLog)

\* installFilesInExistingTree and LogHandler: the job that logs and installs
\* ends, unless a fork came while the relay thread was in a critical section:
\* then the child's first record waits for ever, and the job for the child.
JobEndsUnlessHeld == <>(main = "gone" \/ held # {})
=============================================================================
