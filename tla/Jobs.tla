-------------------------------- MODULE Jobs --------------------------------
(***************************************************************************)
(* The daemon's job registry with its one worker thread (daemon.py,        *)
(* JobRegistry) and the manager's handles, tick and worker thread          *)
(* (manager/__init__.py).  A lifecycle job queues a handle for the         *)
(* manager's tick and waits for it; reconcile takes the tick lock in the   *)
(* job thread; an image build runs in the job thread alone.  Job j is the  *)
(* j-th job ever registered; on the wire its name is its number in its     *)
(* daemon process, j - base.                                               *)
(***************************************************************************)
EXTENDS Integers, Sequences, FiniteSets

CONSTANTS Clients,      \* each submits one job and polls it
          MaxJobs,      \* max_jobs: finished jobs retained
          MaxRestarts,  \* bound: how often the daemon process is replaced
          Nothing       \* no job

JobsAssumption ==
    /\ IsFiniteSet(Clients)
    /\ MaxJobs \in Nat \ {0}
    /\ MaxRestarts \in Nat
    /\ Nothing \notin Nat

Jobs == 1..Cardinality(Clients)
Sentinel == 0

Kinds == {"lifecycle", "reconcile", "build"}

VARIABLES
    base,      \* jobs registered by earlier daemon processes
    made,      \* jobs registered so far
    kind,      \* what each job is
    state,     \* Job.state, of every job registered
    retained,  \* the jobs the registry still has
    queue,     \* all it put in its queue; the sentinel stops its worker
    taken,     \* how much of the queue its worker took
    entering,  \* the job each client's handler registered and has not queued yet
    jobAt,     \* where the job worker is
    jobNow,    \* the job it took
    pending,   \* the manager's queue of handles
    done,      \* jobs whose handle is done
    tick,      \* the thread that holds the tick lock
    tickAt,    \* where that tick is
    tickJob,   \* the handle it runs
    workerAt,  \* where the manager's worker is
    main,      \* how far shutdown() has come
    ran,       \* how often a job's operation was executed
    held,      \* the job a client was given an id of, and its name
    seen,      \* the job whose end a client's poll reported
    restarts

regVars  == <<base, made, kind, state, retained, queue, taken, entering>>
tickVars == <<tick, tickAt, tickJob, pending, done>>
userVars == <<held, seen, restarts>>
jobsVars == <<regVars, jobAt, jobNow, tickVars, workerAt, main, ran, userVars>>

JobsTypeOK ==
    /\ made \in 0..Cardinality(Clients)
    /\ base \in 0..made
    /\ kind \in [Jobs -> Kinds \cup {"none"}]
    /\ state \in [Jobs -> {"none", "pending", "done", "error"}]
    /\ retained \subseteq Jobs
    /\ queue \in Seq(Jobs \cup {Sentinel})
    /\ taken \in 0..Len(queue)
    /\ entering \in [Clients -> Jobs \cup {Nothing}]
    /\ jobAt \in {"get", "run", "reconciling", "wait", "finish", "ended"}
    /\ jobNow \in Jobs \cup {Nothing}
    /\ pending \in Seq(Jobs)
    /\ done \subseteq Jobs
    /\ tick \in {"free", "worker", "jobs"}
    /\ tickAt \in {"none", "pump", "drain", "exec", "reconcile"}
    /\ tickJob \in Jobs \cup {Nothing}
    /\ workerAt \in {"loop", "tick", "idle", "ended"}
    /\ main \in {"serving", "jobs_stop", "manager_stop", "stopped"}
    /\ ran \in [Jobs -> Nat]
    /\ held \in [Clients -> [job: Jobs, name: Jobs] \cup {Nothing}]
    /\ seen \in [Clients -> Jobs \cup {Nothing}]
    /\ restarts \in 0..MaxRestarts

JobsInit ==
    /\ retained = {} /\ queue = <<>> /\ taken = 0
    /\ entering = [c \in Clients |-> Nothing]
    /\ jobAt = "get" /\ jobNow = Nothing
    /\ pending = <<>> /\ done = {}
    /\ tick = "free" /\ tickAt = "none" /\ tickJob = Nothing
    /\ workerAt = "loop" /\ main = "serving"
    /\ base = 0 /\ made = 0
    /\ kind = [j \in Jobs |-> "none"]
    /\ state = [j \in Jobs |-> "none"]
    /\ ran = [j \in Jobs |-> 0]
    /\ held = [c \in Clients |-> Nothing]
    /\ seen = [c \in Clients |-> Nothing]
    /\ restarts = 0

\* _running is cleared at the end of stop(), _stop is set at its start.
ManagerRunning == main # "stopped"
ManagerStop == main \in {"manager_stop", "stopped"}

-----------------------------------------------------------------------------
(***************************************************************************)
(* The registry.                                                           *)
(***************************************************************************)
\* Mutant: the oldest go, finished or not.
PruneAny(kept, st) ==
    kept \ {j \in kept : Cardinality({i \in kept : i <= j}) <= Cardinality(kept) - MaxJobs}

\* _prune_locked: oldest first, finished jobs go until max_jobs are left.
Prune(kept, st) ==
    LET finished == {j \in kept : st[j] # "pending"}
    IN  kept \ {j \in finished : Cardinality({i \in finished : i <= j}) <= Cardinality(kept) - MaxJobs}

\* submit, from a connection handler, up to the end of its critical section.  The
\* number is drawn before the lock is taken; only that it is new matters.
Submit(c) ==
    /\ held[c] = Nothing /\ entering[c] = Nothing
    /\ made < Cardinality(Clients)
    /\ made' = made + 1
    /\ \E k \in Kinds : kind' = [kind EXCEPT ![made'] = k]
    /\ state' = [state EXCEPT ![made'] = "pending"]
    /\ retained' = Prune(retained \cup {made'}, state')
    /\ entering' = [entering EXCEPT ![c] = made']
    /\ UNCHANGED <<base, queue, taken, jobAt, jobNow, tickVars, workerAt, main, ran, userVars>>

\* The job is queued after the lock was released, so jobs may be queued in another
\* order than they were registered.  A client whose connection was shut down
\* never learns the id.
Enqueue(c) ==
    /\ entering[c] # Nothing
    /\ queue' = Append(queue, entering[c])
    /\ entering' = [entering EXCEPT ![c] = Nothing]
    /\ held' = IF main = "serving"
               THEN [held EXCEPT ![c] = [job |-> entering[c], name |-> entering[c] - base]]
               ELSE held
    /\ UNCHANGED <<base, made, kind, state, retained, taken, jobAt, jobNow, tickVars, workerAt,
                   main, ran, seen, restarts>>

\* Mutant: the sentinel is taken for a job.
TakeJobUnguarded ==
    /\ jobAt = "get"
    /\ taken < Len(queue)
    /\ taken' = taken + 1
    /\ jobAt' = "run" /\ jobNow' = queue[taken']
    /\ UNCHANGED <<base, made, kind, state, retained, queue, entering, tickVars, workerAt,
                   main, ran, userVars>>

\* _worker takes the next of the queue; the sentinel ends it.
TakeJob ==
    /\ jobAt = "get"
    /\ taken < Len(queue)
    /\ taken' = taken + 1
    /\ IF queue[taken'] = Sentinel
       THEN jobAt' = "ended" /\ UNCHANGED jobNow
       ELSE jobAt' = "run" /\ jobNow' = queue[taken']
    /\ UNCHANGED <<base, made, kind, state, retained, queue, entering, tickVars, workerAt,
                   main, ran, userVars>>

\* A lifecycle job: Manager._submit, then Handle.result().
SubmitHandle ==
    /\ jobAt = "run"
    /\ kind[jobNow] = "lifecycle"
    /\ pending' = Append(pending, jobNow)
    /\ jobAt' = "wait"
    /\ UNCHANGED <<regVars, jobNow, tick, tickAt, tickJob, done, workerAt, main, ran, userVars>>

RunBuild ==
    /\ jobAt = "run"
    /\ kind[jobNow] = "build"
    /\ ran' = [ran EXCEPT ![jobNow] = @ + 1]
    /\ jobAt' = "finish"
    /\ UNCHANGED <<regVars, jobNow, tickVars, workerAt, main, userVars>>

\* Manager.reconcile, under the tick lock.
BeginReconcile ==
    /\ jobAt = "run"
    /\ kind[jobNow] = "reconcile"
    /\ tick = "free"
    /\ tick' = "jobs" /\ tickAt' = "reconcile"
    /\ jobAt' = "reconciling"
    /\ UNCHANGED <<regVars, jobNow, tickJob, pending, done, workerAt, main, ran, userVars>>

EndReconcile ==
    /\ jobAt = "reconciling"
    /\ ran' = [ran EXCEPT ![jobNow] = @ + 1]
    /\ tick' = "free" /\ tickAt' = "none"
    /\ jobAt' = "finish"
    /\ UNCHANGED <<regVars, jobNow, tickJob, pending, done, workerAt, main, userVars>>

\* Mutant: the wait ends before the handle is done.
HandleAbandoned ==
    /\ jobAt = "wait"
    /\ tick # "jobs"
    /\ jobAt' = "finish"
    /\ UNCHANGED <<regVars, jobNow, tickVars, workerAt, main, ran, userVars>>

\* _wait_for_handle returns once the handle is done ...
HandleDone ==
    /\ jobAt = "wait"
    /\ tick # "jobs"
    /\ jobNow \in done
    /\ jobAt' = "finish"
    /\ UNCHANGED <<regVars, jobNow, tickVars, workerAt, main, ran, userVars>>

\* ... and runs the tick itself when the manager is not running.
TickWhileWaiting ==
    /\ jobAt = "wait"
    /\ jobNow \notin done
    /\ ~ManagerRunning
    /\ tick = "free"
    /\ tick' = "jobs" /\ tickAt' = "pump"
    /\ UNCHANGED <<regVars, jobAt, jobNow, tickJob, pending, done, workerAt, main, ran, userVars>>

\* The result, or the error that was raised, is stored and the history pruned.
FinishJob ==
    /\ jobAt = "finish"
    /\ \E o \in {"done", "error"} : state' = [state EXCEPT ![jobNow] = o]
    /\ retained' = Prune(retained, state')
    /\ jobAt' = "get" /\ jobNow' = Nothing
    /\ UNCHANGED <<base, made, kind, queue, taken, entering, tickVars, workerAt, main, ran, userVars>>

-----------------------------------------------------------------------------
(***************************************************************************)
(* The manager: one tick at a time, by whichever thread holds the lock.    *)
(***************************************************************************)
WorkerTick ==
    /\ workerAt = "loop"
    /\ IF ManagerStop
       THEN workerAt' = "ended" /\ UNCHANGED <<tick, tickAt>>
       ELSE /\ tick = "free"
            /\ tick' = "worker" /\ tickAt' = "pump"
            /\ workerAt' = "tick"
    /\ UNCHANGED <<regVars, jobAt, jobNow, tickJob, pending, done, main, ran, userVars>>

WorkerIdle ==
    /\ workerAt = "idle"
    /\ workerAt' = IF ManagerStop THEN "ended" ELSE "loop"
    /\ UNCHANGED <<regVars, jobAt, jobNow, tickVars, main, ran, userVars>>

\* The scheduler's pass; a failure is recorded and the jobs still drained.
TickPump ==
    /\ tickAt = "pump"
    /\ tickAt' = "drain"
    /\ UNCHANGED <<regVars, jobAt, jobNow, tick, tickJob, pending, done, workerAt, main, ran, userVars>>

TickPop ==
    /\ tickAt = "drain"
    /\ pending # <<>>
    /\ pending' = Tail(pending)
    /\ IF Head(pending) \in done
       THEN UNCHANGED <<tickAt, tickJob>>
       ELSE tickAt' = "exec" /\ tickJob' = Head(pending)
    /\ UNCHANGED <<regVars, jobAt, jobNow, tick, done, workerAt, main, ran, userVars>>

\* Mutant: a failed handle is not marked done.
TickExecSilent ==
    /\ tickAt = "exec"
    /\ ran' = [ran EXCEPT ![tickJob] = @ + 1]
    /\ done' \in {done, done \cup {tickJob}}
    /\ tickAt' = "drain" /\ tickJob' = Nothing
    /\ UNCHANGED <<regVars, jobAt, jobNow, tick, pending, workerAt, main, userVars>>

TickExec ==
    /\ tickAt = "exec"
    /\ ran' = [ran EXCEPT ![tickJob] = @ + 1]
    /\ done' = done \cup {tickJob}
    /\ tickAt' = "drain" /\ tickJob' = Nothing
    /\ UNCHANGED <<regVars, jobAt, jobNow, tick, pending, workerAt, main, userVars>>

TickEnd ==
    /\ tickAt = "drain"
    /\ pending = <<>>
    /\ tick' = "free" /\ tickAt' = "none"
    /\ workerAt' = IF tick = "worker" THEN "idle" ELSE workerAt
    /\ UNCHANGED <<regVars, jobAt, jobNow, tickJob, pending, done, main, ran, userVars>>

-----------------------------------------------------------------------------
(***************************************************************************)
(* shutdown(): every join gives up after five seconds, so a step may be    *)
(* taken while the thread it waits for still runs.                         *)
(***************************************************************************)
StopJobs ==
    /\ main = "serving"
    /\ main' = "jobs_stop"
    /\ queue' = Append(queue, Sentinel)
    /\ UNCHANGED <<base, made, kind, state, retained, taken, entering, jobAt, jobNow, tickVars,
                   workerAt, ran, userVars>>

StopManager ==
    /\ main = "jobs_stop"
    /\ main' = "manager_stop"
    /\ UNCHANGED <<regVars, jobAt, jobNow, tickVars, workerAt, ran, userVars>>

ManagerStopped ==
    /\ main = "manager_stop"
    /\ main' = "stopped"
    /\ UNCHANGED <<regVars, jobAt, jobNow, tickVars, workerAt, ran, userVars>>

\* The process ends, after its shutdown or by a crash, and another one
\* starts: its registry is empty and counts its jobs from one.
Restart ==
    /\ restarts < MaxRestarts
    /\ restarts' = restarts + 1
    /\ base' = made
    /\ retained' = {} /\ queue' = <<>> /\ taken' = 0
    /\ entering' = [c \in Clients |-> Nothing]
    /\ jobAt' = "get" /\ jobNow' = Nothing
    /\ pending' = <<>> /\ done' = {}
    /\ tick' = "free" /\ tickAt' = "none" /\ tickJob' = Nothing
    /\ workerAt' = "loop" /\ main' = "serving"
    /\ UNCHANGED <<made, kind, state, ran, held, seen>>

\* A client asks for the job by the name it was given; an unknown name is
\* not_found, a pending job is polled again.
Poll(c) ==
    /\ held[c] # Nothing
    /\ seen[c] = Nothing
    /\ LET found == base + held[c].name IN
       /\ found \in retained
       /\ state[found] # "pending"
       /\ seen' = [seen EXCEPT ![c] = found]
    /\ UNCHANGED <<regVars, jobAt, jobNow, tickVars, workerAt, main, ran, held, restarts>>

HandlerStep == \E c \in Clients : Enqueue(c)
TickStep == TickPump \/ TickPop \/ TickExec \/ TickEnd
JobStep == TakeJob \/ SubmitHandle \/ RunBuild \/ BeginReconcile \/ EndReconcile
           \/ HandleDone \/ TickWhileWaiting \/ FinishJob
WorkerStep == WorkerTick \/ WorkerIdle

JobsNext ==
    \/ \E c \in Clients : Submit(c) \/ Poll(c)
    \/ HandlerStep
    \/ JobStep
    \/ WorkerStep
    \/ TickStep
    \/ StopJobs \/ StopManager \/ ManagerStopped \/ Restart

\* The tick lock is free for a while after every tick (tick_s), so a thread
\* that waits for it gets it.  A handler that registered a job waits for nothing.
JobsFairness == SF_jobsVars(JobStep) /\ SF_jobsVars(WorkerStep) /\ WF_jobsVars(TickStep) /\ WF_jobsVars(HandlerStep)

JobsSpec == JobsInit /\ [][JobsNext]_jobsVars /\ JobsFairness

-----------------------------------------------------------------------------
\* A job of this daemon that has not ended.
Waiting(j) == base < j /\ state[j] = "pending"

(* No operation is executed twice, although its handle may be drained by   *)
(* the manager's worker or by the job thread itself, a job that is         *)
(* reported finished was executed, and a daemon executes its jobs in the   *)
(* order they were queued, reconcile and builds included, and none after   *)
(* the sentinel.                                                           *)
RunsOnceInOrder ==
    /\ \A j \in Jobs : ran[j] <= 1 /\ (state[j] \in {"done", "error"} => ran[j] = 1)
    /\ \A b \in DOMAIN queue : queue[b] # Sentinel /\ ran[queue[b]] = 1 =>
           \A a \in 1..b : queue[a] # Sentinel /\ ran[queue[a]] = 1

(* A pending job is never evicted, and once the registry has grown past    *)
(* max_jobs it holds nothing but pending jobs (JobRegistry: "pending jobs  *)
(* are never dropped", "Finished job history is bounded").                 *)
HistoryBounded ==
    /\ \A j \in Jobs : Waiting(j) => j \in retained
    /\ Cardinality(retained) > MaxJobs => \A j \in retained : state[j] = "pending"

(* Every job is finished, unless the daemon is stopped first: no thread    *)
(* waits for a handle nobody drains or for a lock nobody releases.         *)
JobsFinish == \A j \in Jobs : Waiting(j) ~> (~Waiting(j) \/ main # "serving")

(* A poll reports the end of the job its client submitted, or not_found    *)
(* (JobHandle: "A daemon-side long operation; poll or wait for its         *)
(* result").                                                               *)
PollIsOwn == \A c \in Clients : seen[c] = Nothing \/ seen[c] = held[c].job
=============================================================================
