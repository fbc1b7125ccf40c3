----------------------------- MODULE JobsProofs -----------------------------
(***************************************************************************)
(* The jobs of the daemon, for any number of clients, any bound on the     *)
(* history and any restarts: each runs once and in the order it was        *)
(* queued, although two threads may drain its handle, and the history is   *)
(* bounded without losing a job that is pending.                           *)
(***************************************************************************)
EXTENDS Jobs, FiniteSetTheorems, TLAPS

\* A job has a record once its number is given out.
Registered ==
    \A j \in Jobs : IF j <= made THEN state[j] # "none" /\ kind[j] \in Kinds
                                 ELSE state[j] = "none" /\ kind[j] = "none" /\ ran[j] = 0

Fresh(j) == base < j /\ j <= made /\ state[j] = "pending" /\ ran[j] = 0

\* What a handler is about to queue is new, and nobody else queues it.
EnteringIsFresh ==
    \A c \in Clients : entering[c] # Nothing =>
        /\ Fresh(entering[c])
        /\ \A a \in DOMAIN queue : queue[a] # entering[c]
        /\ \A d \in Clients : entering[d] = entering[c] => d = c

\* A job of this daemon is queued once.
QueuedOnce ==
    /\ \A a \in DOMAIN queue : queue[a] # Sentinel => base < queue[a] /\ queue[a] <= made
    /\ \A a, b \in DOMAIN queue : queue[a] = queue[b] /\ queue[a] # Sentinel => a = b

\* What the worker has not taken is new.
RestIsFresh == \A a \in DOMAIN queue : taken < a /\ queue[a] # Sentinel => Fresh(queue[a])

\* What it has taken has run, but for the one at hand; a sentinel is the last it takes.
TakenHasRun ==
    \A a \in DOMAIN queue : a <= taken =>
        IF queue[a] = Sentinel THEN a = taken /\ jobAt = "ended"
                               ELSE ran[queue[a]] = 1 \/ queue[a] = jobNow

\* The job at hand is the last that was taken.
AtHand ==
    /\ jobNow = Nothing <=> jobAt \in {"get", "ended"}
    /\ jobNow # Nothing => /\ taken > 0 /\ jobNow = queue[taken]
                           /\ base < jobNow /\ jobNow <= made /\ state[jobNow] = "pending"

\* It has run exactly when the worker thread knows so.
RunIsKnown ==
    /\ jobAt \in {"run", "reconciling"} => ran[jobNow] = 0
    /\ jobAt = "wait" /\ jobNow \notin done => ran[jobNow] = 0
    /\ jobAt = "finish" => ran[jobNow] = 1
    /\ \A j \in done : ran[j] = 1

\* The manager has one handle at most: queued, at hand in a tick, or done.
OneHandle ==
    /\ tick = "free" => tickAt = "none"
    /\ tickAt = "exec" <=> tickJob # Nothing
    /\ \/ pending = <<>> /\ tickJob = Nothing
          /\ (jobAt = "wait" => jobNow \in done)
       \/ jobAt = "wait" /\ jobNow \notin done /\ pending = <<jobNow>> /\ tickJob = Nothing
       \/ jobAt = "wait" /\ jobNow \notin done /\ pending = <<>> /\ tickJob = jobNow

\* What ended has run, and nothing ran twice.
EndedHasRun == \A j \in Jobs : ran[j] <= 1 /\ (state[j] \in {"done", "error"} => ran[j] = 1)

Once == EnteringIsFresh /\ QueuedOnce /\ RestIsFresh /\ TakenHasRun /\ AtHand /\ RunIsKnown
        /\ OneHandle /\ EndedHasRun

JobsInv == JobsTypeOK /\ Registered /\ Once

-----------------------------------------------------------------------------
(* Eviction.                                                               *)

\* Eviction takes finished jobs only.
LEMMA PruneKeeps ==
    ASSUME NEW kept, NEW st
    PROVE  /\ Prune(kept, st) \subseteq kept
           /\ \A j \in kept : st[j] = "pending" => j \in Prune(kept, st)
BY DEF Prune

\* The n oldest of a finite set of numbers are n of them.
LEMMA OldestCount ==
    ASSUME NEW F \in SUBSET Nat, IsFiniteSet(F), NEW n \in Nat, n <= Cardinality(F)
    PROVE  LET E == {j \in F : Cardinality({i \in F : i <= j}) <= n}
           IN  IsFiniteSet(E) /\ Cardinality(E) = n
<1> DEFINE upto(j) == {i \in F : i <= j}
           size(j) == Cardinality(upto(j))
           E == {j \in F : size(j) <= n}
           rank == [j \in F |-> size(j)]
           r == [j \in E |-> size(j)]
           N == Cardinality(F)
<1>1. N \in Nat /\ IsFiniteSet(1..N) /\ Cardinality(1..N) = N
  BY FS_CardinalityType, FS_Interval
<1>2. \A j \in F : IsFiniteSet(upto(j)) /\ size(j) \in Nat /\ size(j) \in 1..N
  <2> TAKE j \in F
  <2>1. upto(j) \in SUBSET F /\ j \in upto(j)
    OBVIOUS
  <2>2. IsFiniteSet(upto(j)) /\ Cardinality(upto(j)) <= N
    BY <2>1, FS_Subset
  <2>3. Cardinality(upto(j)) \in Nat /\ Cardinality(upto(j)) # 0
    BY <2>1, <2>2, FS_CardinalityType, FS_EmptySet
  <2> QED BY <1>1, <2>2, <2>3
<1>3. \A i, j \in F : i < j => size(i) < size(j)
  <2> SUFFICES ASSUME NEW i \in F, NEW j \in F, i < j PROVE size(i) < size(j)
    OBVIOUS
  <2>1. i \in Nat /\ j \in Nat /\ \A k \in F : k \in Nat
    OBVIOUS
  <2>2. upto(i) \in SUBSET upto(j)
    <3> SUFFICES ASSUME NEW k \in F, k <= i PROVE k <= j
      OBVIOUS
    <3> QED BY <2>1
  <2>3. j \in upto(j) /\ j \notin upto(i)
    BY <2>1
  <2>4. IsFiniteSet(upto(j)) /\ size(i) \in Nat /\ size(j) \in Nat
    BY <1>2
  <2> HIDE DEF upto
  <2>5. size(i) <= size(j) /\ size(i) # size(j)
    BY <2>2, <2>3, <2>4, FS_Subset
  <2> QED BY <2>4, <2>5
<1> HIDE DEF size
<1>4. \A i, j \in F : size(i) = size(j) => i = j
  <2> SUFFICES ASSUME NEW i \in F, NEW j \in F, i # j PROVE size(i) # size(j)
    OBVIOUS
  <2>1. i < j \/ j < i
    OBVIOUS
  <2>2. size(i) \in Nat /\ size(j) \in Nat
    BY <1>2
  <2> QED BY <1>3, <2>1, <2>2
<1>5. rank \in Injection(F, 1..N)
  BY <1>2, <1>4 DEF Injection, IsInjective
<1>6. rank \in Surjection(F, 1..N)
  BY <1>1, <1>5, FS_Injection
<1>7. IsFiniteSet(E) /\ E \subseteq F
  BY FS_Subset
<1>8. r \in [E -> 1..n]
  <2> SUFFICES ASSUME NEW j \in E PROVE size(j) \in 1..n
    OBVIOUS
  <2>1. size(j) \in 1..N /\ size(j) <= n
    BY <1>2
  <2> QED BY <2>1
<1>9. \A t \in 1..n : \E j \in E : r[j] = t
  <2> TAKE t \in 1..n
  <2>1. t \in 1..N /\ t <= n
    <3>1. t \in Int /\ 1 <= t /\ t <= n /\ n <= N /\ n \in Int /\ N \in Int
      BY <1>1
    <3> QED BY <3>1
  <2>2. PICK j \in F : rank[j] = t
    BY <1>6, <2>1 DEF Surjection
  <2>3. size(j) = t
    BY <2>2
  <2>4. j \in E
    BY <2>1, <2>3
  <2> QED BY <2>3, <2>4
<1>10. \A i, j \in E : r[i] = r[j] => i = j
  BY <1>4
<1>11. r \in Bijection(E, 1..n)
  BY <1>8, <1>9, <1>10 DEF Bijection, Injection, Surjection, IsInjective
<1>12. ExistsBijection(E, 1..n)
  BY <1>11 DEF ExistsBijection
<1>13. Cardinality(1..n) = n
  BY FS_Interval, n >= 1 \/ n = 0
<1>14. Cardinality(E) = n
  BY <1>7, <1>12, <1>13, FS_Bijection
<1> QED BY <1>7, <1>14 DEF size

\* What is left after an eviction fits, or nothing of it is finished.
LEMMA PruneBounds ==
    ASSUME JobsAssumption, NEW kept \in SUBSET Nat, IsFiniteSet(kept), NEW st,
           Cardinality(Prune(kept, st)) > MaxJobs
    PROVE  \A j \in Prune(kept, st) : st[j] = "pending"
<1> DEFINE F == {j \in kept : st[j] # "pending"}
           n == Cardinality(kept) - MaxJobs
           upto(j) == {i \in F : i <= j}
           E == {j \in F : Cardinality(upto(j)) <= n}
<1> SUFFICES ASSUME NEW j \in kept, j \notin E, st[j] # "pending" PROVE FALSE
  BY DEF Prune
<1>1. Prune(kept, st) = kept \ E
  BY DEF Prune
<1>2. IsFiniteSet(F) /\ F \in SUBSET Nat
  BY FS_Subset
<1>3. Cardinality(kept) \in Nat /\ Cardinality(F) \in Nat /\ MaxJobs \in Nat
  BY <1>2, FS_CardinalityType DEF JobsAssumption
<1>4. Cardinality(upto(j)) <= Cardinality(F) /\ Cardinality(upto(j)) \in Nat
  <2>1. upto(j) \in SUBSET F
    OBVIOUS
  <2>2. IsFiniteSet(upto(j)) /\ Cardinality(upto(j)) <= Cardinality(F)
    BY <1>2, <2>1, FS_Subset
  <2> QED BY <2>2, FS_CardinalityType
<1>5. Cardinality(upto(j)) > n
  BY <1>3, <1>4
<1>6. IsFiniteSet(E) /\ E \subseteq kept
  BY <1>2, FS_Subset
<1>7. Cardinality(kept \ E) = Cardinality(kept) - Cardinality(E) /\ Cardinality(E) \in Nat
  <2>1. kept \cap E = E
    BY <1>6
  <2> QED BY <1>6, <2>1, FS_Difference, FS_CardinalityType
<1>8. n \in Nat
  BY <1>1, <1>3, <1>7
<1>9. Cardinality(E) = n
  <2>1. n <= Cardinality(F)
    BY <1>3, <1>4, <1>5, <1>8
  <2> HIDE DEF F, n
  <2> QED BY <1>2, <1>8, <2>1, OldestCount
<1> QED BY <1>1, <1>3, <1>7, <1>9

-----------------------------------------------------------------------------
(* Types.                                                                  *)

\* How many jobs there are, and what is not one.
LEMMA Constants ==
    ASSUME JobsAssumption
    PROVE  /\ Cardinality(Clients) \in Nat
           /\ Jobs \subseteq Nat /\ \A j \in Jobs : j # Sentinel /\ j # Nothing
           /\ Nothing # Sentinel
BY FS_CardinalityType DEF JobsAssumption, Jobs, Sentinel

LEMMA JobsInitInv == ASSUME JobsAssumption, JobsInit PROVE JobsInv
<1> USE Constants DEF JobsInit
<1>1. JobsTypeOK
  BY DEF JobsTypeOK, Kinds, JobsAssumption
<1>2. Registered
  BY DEF Registered, Jobs
<1>3. Once
  BY DEF Once, EnteringIsFresh, QueuedOnce, RestIsFresh, TakenHasRun, AtHand, RunIsKnown, OneHandle, EndedHasRun
<1> QED BY <1>1, <1>2, <1>3 DEF JobsInv

LEMMA TypeNext == ASSUME JobsAssumption, JobsInv, [JobsNext]_jobsVars PROVE JobsTypeOK'
<1> USE Constants DEF JobsTypeOK, regVars, tickVars, userVars
<1>1. ASSUME NEW c \in Clients, Submit(c) PROVE JobsTypeOK'
  <2>1. made' \in Jobs /\ made' \in 0..Cardinality(Clients) /\ base' \in 0..made'
    <3>1. made \in Nat /\ base \in Nat /\ made < Cardinality(Clients) /\ base <= made
          /\ made' = made + 1 /\ base' = base
      BY <1>1 DEF JobsInv, Submit
    <3> QED BY <3>1 DEF Jobs
  <2>2. retained' \subseteq Jobs
    <3>1. Prune(retained \cup {made'}, state') \subseteq retained \cup {made'}
      BY PruneKeeps
    <3> QED BY <1>1, <2>1, <3>1 DEF JobsInv, Submit
  <2>3. /\ kind' \in [Jobs -> Kinds \cup {"none"}]
        /\ state' \in [Jobs -> {"none", "pending", "done", "error"}]
        /\ entering' \in [Clients -> Jobs \cup {Nothing}]
    BY <1>1, <2>1 DEF JobsInv, Submit, Kinds
  <2>4. UNCHANGED <<queue, taken, jobAt, jobNow, tickVars, workerAt, main, ran, userVars>>
    BY <1>1 DEF Submit
  <2> QED BY SMTT(30), <2>1, <2>2, <2>3, <2>4 DEF JobsInv
<1>2. ASSUME NEW c \in Clients, Enqueue(c) PROVE JobsTypeOK'
  <2>1. entering[c] \in Jobs /\ entering[c] - base \in Jobs
    BY <1>2 DEF JobsInv, Once, EnteringIsFresh, Fresh, Enqueue, Jobs
  <2>2. queue' \in Seq(Jobs \cup {Sentinel}) /\ Len(queue') = Len(queue) + 1
    BY <1>2, <2>1 DEF JobsInv, Enqueue
  <2>3. taken' \in 0..Len(queue')
    BY <1>2, <2>2 DEF JobsInv, Enqueue
  <2>4. held' \in [Clients -> [job: Jobs, name: Jobs] \cup {Nothing}]
        /\ entering' \in [Clients -> Jobs \cup {Nothing}]
    BY <1>2, <2>1 DEF JobsInv, Enqueue
  <2>5. UNCHANGED <<base, made, kind, state, retained, jobAt, jobNow, tickVars, workerAt, main, ran,
                    seen, restarts>>
    BY <1>2 DEF Enqueue
  <2> QED BY SMTT(20), <2>2, <2>3, <2>4, <2>5 DEF JobsInv
<1>3. ASSUME NEW c \in Clients, Poll(c) PROVE JobsTypeOK'
  <2>1. seen' \in [Clients -> Jobs \cup {Nothing}]
    <3> DEFINE found == base + held[c].name
    <3>1. found \in Jobs /\ seen' = [seen EXCEPT ![c] = found]
      BY <1>3 DEF JobsInv, Poll
    <3> HIDE DEF found
    <3> QED BY <3>1 DEF JobsInv
  <2>2. UNCHANGED <<regVars, jobAt, jobNow, tickVars, workerAt, main, ran, held, restarts>>
    BY <1>3 DEF Poll
  <2> QED BY SMTT(30), <2>1, <2>2 DEF JobsInv
<1>4. CASE TakeJob
  <2>1. taken' \in 1..Len(queue) /\ queue[taken'] \in Jobs \cup {Sentinel}
    BY <1>4 DEF JobsInv, TakeJob
  <2>2. UNCHANGED <<base, made, kind, state, retained, queue, entering, tickVars, workerAt, main, ran,
                    userVars>>
    BY <1>4 DEF TakeJob
  <2>3. jobNow' \in Jobs \cup {Nothing} /\ jobAt' \in {"run", "ended"}
    BY <1>4, <2>1 DEF JobsInv, TakeJob
  <2> QED BY SMTT(30), <1>4, <2>1, <2>2, <2>3 DEF JobsInv, TakeJob
<1>5. CASE SubmitHandle
  <2>1. jobNow \in Jobs
    BY <1>5 DEF JobsInv, Once, AtHand, SubmitHandle
  <2> QED BY SMTT(20), <1>5, <2>1 DEF JobsInv, SubmitHandle
<1>6. CASE RunBuild \/ EndReconcile
  BY SMTT(20), <1>6 DEF JobsInv, RunBuild, EndReconcile
<1>7. CASE BeginReconcile \/ HandleDone \/ TickWhileWaiting
  BY <1>7 DEF JobsInv, BeginReconcile, HandleDone, TickWhileWaiting
<1>8. CASE FinishJob
  <2>1. Prune(retained, state') \subseteq retained
    BY PruneKeeps
  <2>2. state' \in [Jobs -> {"none", "pending", "done", "error"}]
    BY <1>8 DEF JobsInv, FinishJob
  <2> QED BY <1>8, <2>1, <2>2 DEF JobsInv, FinishJob
<1>9. CASE WorkerStep
  BY SMTT(20), <1>9 DEF JobsInv, WorkerStep, WorkerTick, WorkerIdle
<1>10. CASE TickPump \/ TickEnd
  BY SMTT(20), <1>10 DEF JobsInv, TickPump, TickEnd
<1>11. CASE TickPop
  <2>1. Head(pending) \in Jobs /\ Tail(pending) \in Seq(Jobs)
    BY <1>11 DEF JobsInv, TickPop
  <2> QED BY <1>11, <2>1 DEF JobsInv, TickPop
<1>12. CASE TickExec
  <2>1. tickJob \in Jobs
    BY <1>12 DEF JobsInv, Once, OneHandle, TickExec
  <2> QED BY <1>12, <2>1 DEF JobsInv, TickExec
<1>13. CASE StopJobs
  BY <1>13 DEF JobsInv, StopJobs
<1>14. CASE StopManager \/ ManagerStopped
  BY SMTT(20), <1>14 DEF JobsInv, StopManager, ManagerStopped
<1>15. CASE Restart
  BY <1>15 DEF JobsInv, Restart, JobsAssumption
<1>16. CASE UNCHANGED jobsVars
  BY <1>16 DEF JobsInv, jobsVars
<1> QED BY <1>1, <1>2, <1>3, <1>4, <1>5, <1>6, <1>7, <1>8, <1>9, <1>10, <1>11, <1>12, <1>13, <1>14,
           <1>15, <1>16 DEF JobsNext, JobStep, HandlerStep, TickStep

-----------------------------------------------------------------------------
(* Each runs once.                                                         *)

\* What the steps of the manager and of shutdown that run nothing leave alone.
onceVars == <<base, made, kind, state, ran, entering, queue, taken, jobNow, done, pending, tickJob>>

LEMMA RegisteredNext == ASSUME JobsAssumption, JobsInv, [JobsNext]_jobsVars PROVE Registered'
<1> USE Constants DEF JobsTypeOK
<1>1. ASSUME NEW c \in Clients, Submit(c) PROVE Registered'
  <2>1. made \in Nat /\ made' = made + 1 /\ ran' = ran
    BY <1>1 DEF JobsInv, Submit
  <2>2. PICK k \in Kinds : kind' = [kind EXCEPT ![made'] = k]
    BY <1>1 DEF Submit
  <2>3. state' = [state EXCEPT ![made'] = "pending"]
    BY <1>1 DEF Submit
  <2> QED BY <2>1, <2>2, <2>3 DEF JobsInv, Registered
<1>2. CASE RunBuild \/ EndReconcile
  <2>1. jobNow \in Jobs /\ jobNow <= made
    BY <1>2 DEF JobsInv, Once, AtHand, RunBuild, EndReconcile
  <2> QED BY <1>2, <2>1 DEF JobsInv, RunBuild, EndReconcile, Registered, regVars
<1>3. CASE TickExec
  <2>1. tickJob = jobNow /\ jobNow \in Jobs /\ jobNow <= made
    BY <1>3 DEF JobsInv, Once, OneHandle, AtHand, TickExec
  <2> QED BY <1>3, <2>1 DEF JobsInv, TickExec, Registered, regVars
<1>4. CASE FinishJob
  <2>1. jobNow \in Jobs /\ jobNow <= made
    BY <1>4 DEF JobsInv, Once, AtHand, FinishJob
  <2> QED BY <1>4, <2>1 DEF JobsInv, FinishJob, Registered
<1>5. ASSUME UNCHANGED <<made, kind, state, ran>> PROVE Registered'
  BY <1>5 DEF JobsInv, Registered
<1> QED BY <1>1, <1>2, <1>3, <1>4, <1>5 DEF JobsNext, JobStep, HandlerStep, TickStep, WorkerStep, regVars, jobsVars,
        Enqueue, Poll, TakeJob, SubmitHandle, BeginReconcile, HandleDone, TickWhileWaiting, WorkerTick,
        WorkerIdle, TickPump, TickPop, TickEnd, StopJobs, StopManager, ManagerStopped, Restart

\* The job at hand, if any.
LEMMA NowFacts ==
    ASSUME JobsAssumption, JobsInv, jobAt \notin {"get", "ended"}
    PROVE  /\ jobNow \in Jobs /\ jobNow \in Nat /\ base < jobNow /\ jobNow <= made
           /\ state[jobNow] = "pending" /\ taken \in DOMAIN queue /\ queue[taken] = jobNow
           /\ \A a \in DOMAIN queue : a # taken => queue[a] # jobNow
           /\ \A c \in Clients : entering[c] # jobNow
           /\ \A a \in DOMAIN queue : a <= taken => queue[a] # Sentinel
<1>1. jobNow \in Jobs /\ jobNow \in Nat /\ base < jobNow /\ jobNow <= made
      /\ state[jobNow] = "pending" /\ taken > 0 /\ queue[taken] = jobNow
  BY Constants DEF JobsInv, JobsTypeOK, Once, AtHand
<1>2. taken \in DOMAIN queue
  BY <1>1 DEF JobsInv, JobsTypeOK
<1>3. \A a \in DOMAIN queue : a # taken => queue[a] # jobNow
  BY <1>1, <1>2, Constants DEF JobsInv, Once, QueuedOnce
<1>4. \A c \in Clients : entering[c] # jobNow
  BY <1>1, <1>2, Constants DEF JobsInv, Once, EnteringIsFresh
<1>5. \A a \in DOMAIN queue : a <= taken => queue[a] # Sentinel
  BY DEF JobsInv, Once, TakenHasRun
<1> QED BY <1>1, <1>2, <1>3, <1>4, <1>5

LEMMA SubmitOnce == ASSUME JobsAssumption, JobsInv, NEW c \in Clients, Submit(c) PROVE Once'
<1>1. /\ made \in Nat /\ base \in Nat /\ base <= made /\ made' = made + 1 /\ made' \in Jobs
      /\ \A j \in Jobs : j \in Nat
      /\ state' = [state EXCEPT ![made'] = "pending"]
      /\ entering' = [entering EXCEPT ![c] = made'] /\ entering[c] = Nothing
  <2>1. made \in Nat /\ base \in Nat /\ base <= made /\ made' = made + 1 /\ made < Cardinality(Clients)
    BY Constants DEF JobsInv, JobsTypeOK, Submit
  <2>2. made' \in Jobs
    BY <2>1, Constants DEF Jobs
  <2> QED BY <2>1, <2>2, Constants DEF Submit
<1>2. UNCHANGED <<base, queue, taken, jobAt, jobNow, tick, tickAt, tickJob, pending, done, ran>>
  BY DEF Submit, tickVars
<1>3. \A j \in Jobs : j <= made => j # made' /\ state'[j] = state[j]
  BY <1>1 DEF JobsInv, JobsTypeOK
<1>4. state'[made'] = "pending" /\ ran[made'] = 0 /\ made' # Nothing
  BY <1>1, Constants DEF JobsInv, JobsTypeOK, Registered
<1>5. \A a \in DOMAIN queue : queue[a] # Sentinel => queue[a] \in Jobs /\ queue[a] <= made
  BY Constants DEF JobsInv, JobsTypeOK, Once, QueuedOnce
<1> DEFINE New(j) == base < j /\ j <= made' /\ state'[j] = "pending" /\ ran[j] = 0
<1>6. \A j \in Jobs : Fresh(j) => New(j)
  BY <1>1, <1>2, <1>3 DEF Fresh
<1>7. EnteringIsFresh'
  <2> SUFFICES ASSUME NEW d \in Clients, entering'[d] # Nothing
               PROVE  /\ New(entering'[d])
                      /\ \A a \in DOMAIN queue : queue[a] # entering'[d]
                      /\ \A e \in Clients : entering'[e] = entering'[d] => e = d
    BY <1>2 DEF EnteringIsFresh, Fresh
  <2>1. \A e \in Clients \ {c} : entering'[e] = entering[e]
                                 /\ (entering[e] # Nothing => entering[e] \in Jobs /\ entering[e] <= made)
    BY <1>1 DEF JobsInv, JobsTypeOK, Once, EnteringIsFresh, Fresh
  <2>2. entering'[c] = made'
    BY <1>1 DEF JobsInv, JobsTypeOK
  <2>3. CASE d = c
    <3>1. New(made')
      BY <1>1, <1>4
    <3> HIDE DEF New
    <3> QED BY <1>1, <1>4, <1>5, <2>1, <2>2, <2>3, <3>1, Constants
  <2>4. CASE d # c
    <3>1. entering'[d] = entering[d] /\ entering[d] \in Jobs /\ entering[d] # made'
      BY <1>1, <2>1, <2>4
    <3>2. New(entering'[d])
      BY <1>6, <3>1, Constants DEF JobsInv, Once, EnteringIsFresh
    <3> HIDE DEF New
    <3> QED BY <2>1, <2>2, <2>4, <3>1, <3>2 DEF JobsInv, Once, EnteringIsFresh
  <2> QED BY <2>3, <2>4
<1>8. QueuedOnce'
  <2>1. \A a \in DOMAIN queue : queue[a] # Sentinel => base < queue[a] /\ queue[a] <= made'
    <3>1. \A a \in DOMAIN queue : queue[a] # Sentinel =>
              queue[a] \in Nat /\ base < queue[a] /\ queue[a] <= made
      BY <1>1, <1>5 DEF JobsInv, Once, QueuedOnce
    <3> QED BY <1>1, <3>1
  <2> QED BY <1>2, <2>1 DEF JobsInv, Once, QueuedOnce
<1>9. RestIsFresh'
  <2>1. \A a \in DOMAIN queue : taken < a /\ queue[a] # Sentinel => New(queue[a])
    BY <1>5, <1>6 DEF JobsInv, Once, RestIsFresh
  <2> QED BY <1>2, <2>1 DEF RestIsFresh, Fresh
<1>10. TakenHasRun' /\ RunIsKnown' /\ OneHandle'
  BY <1>2 DEF JobsInv, Once, TakenHasRun, RunIsKnown, OneHandle
<1>11. AtHand'
  BY <1>1, <1>2, <1>3 DEF JobsInv, JobsTypeOK, Once, AtHand
<1>12. EndedHasRun'
  BY <1>1, <1>2, <1>4 DEF JobsInv, JobsTypeOK, Once, EndedHasRun
<1> QED BY <1>7, <1>8, <1>9, <1>10, <1>11, <1>12 DEF Once

\* Something is put at the end of the queue: a sentinel or the job of a handler.
LEMMA QueueOnce ==
    ASSUME JobsAssumption, JobsInv, NEW x \in Jobs \cup {Sentinel},
           queue' = Append(queue, x),
           UNCHANGED <<base, made, state, ran, taken, jobAt, jobNow, done, pending, tick, tickAt, tickJob>>,
           x # Sentinel => Fresh(x) /\ \A a \in DOMAIN queue : queue[a] # x,
           EnteringIsFresh'
    PROVE  Once'
<1>1. /\ Len(queue) \in Nat /\ Len(queue') = Len(queue) + 1 /\ queue'[Len(queue')] = x
      /\ DOMAIN queue = 1..Len(queue) /\ DOMAIN queue' = 1..Len(queue')
      /\ \A a \in DOMAIN queue : queue'[a] = queue[a]
      /\ taken \in Nat /\ taken <= Len(queue)
  BY DEF JobsInv, JobsTypeOK
<1>2. \A a \in DOMAIN queue' : a \in DOMAIN queue \/ a = Len(queue')
  BY <1>1
<1>4. QueuedOnce'
  BY <1>1, <1>2 DEF JobsInv, Once, QueuedOnce, Fresh
<1>5. RestIsFresh'
  <2>1. \A a \in DOMAIN queue' : taken < a /\ queue'[a] # Sentinel => Fresh(queue'[a])
    BY <1>1, <1>2 DEF JobsInv, Once, RestIsFresh
  <2> QED BY <2>1 DEF RestIsFresh, Fresh
<1>6. TakenHasRun'
  BY <1>1, <1>2 DEF JobsInv, Once, TakenHasRun
<1>7. AtHand'
  BY <1>1 DEF JobsInv, Once, AtHand
<1>8. RunIsKnown' /\ OneHandle' /\ EndedHasRun'
  BY DEF JobsInv, Once, RunIsKnown, OneHandle, EndedHasRun
<1> QED BY <1>4, <1>5, <1>6, <1>7, <1>8 DEF Once

LEMMA EnqueueOnce == ASSUME JobsAssumption, JobsInv, NEW c \in Clients, Enqueue(c) PROVE Once'
<1>1. UNCHANGED <<base, made, state, ran, taken, jobAt, jobNow, done, pending, tick, tickAt, tickJob>>
  BY DEF Enqueue, tickVars
<1>2. entering[c] \in Jobs /\ Fresh(entering[c]) /\ \A a \in DOMAIN queue : queue[a] # entering[c]
  BY DEF Enqueue, JobsInv, JobsTypeOK, Once, EnteringIsFresh
<1>3. /\ queue' = Append(queue, entering[c]) /\ entering' = [entering EXCEPT ![c] = Nothing]
      /\ \A a \in DOMAIN queue' : a \in DOMAIN queue \/ queue'[a] = entering[c]
      /\ \A a \in DOMAIN queue : queue'[a] = queue[a]
  BY <1>2 DEF Enqueue, JobsInv, JobsTypeOK
<1>4. EnteringIsFresh'
  <2>1. \A d \in Clients : entering'[d] # Nothing => d # c /\ entering'[d] = entering[d]
    BY <1>3 DEF JobsInv, JobsTypeOK
  <2>2. \A d \in Clients : entering'[d] # Nothing => entering[d] # entering[c]
    BY <1>2, <2>1 DEF JobsInv, Once, EnteringIsFresh, Enqueue
  <2> QED BY <1>1, <1>3, <2>1, <2>2 DEF JobsInv, Once, EnteringIsFresh, Fresh
<1> QED BY <1>1, <1>2, <1>3, <1>4, QueueOnce

LEMMA StopOnce == ASSUME JobsAssumption, JobsInv, StopJobs PROVE Once'
<1>1. /\ UNCHANGED <<base, made, state, ran, taken, jobAt, jobNow, done, pending, tick, tickAt, tickJob>>
      /\ entering' = entering /\ queue' = Append(queue, Sentinel)
  BY DEF StopJobs, tickVars
<1>2. /\ \A a \in DOMAIN queue' : a \in DOMAIN queue \/ queue'[a] = Sentinel
      /\ \A a \in DOMAIN queue : queue'[a] = queue[a]
  BY <1>1 DEF JobsInv, JobsTypeOK
<1>3. \A c \in Clients : entering[c] # Nothing => entering[c] # Sentinel
  BY Constants DEF JobsInv, JobsTypeOK
<1>4. EnteringIsFresh'
  BY <1>1, <1>2, <1>3 DEF JobsInv, Once, EnteringIsFresh, Fresh
<1> QED BY <1>1, <1>4, QueueOnce

LEMMA TakeOnce == ASSUME JobsAssumption, JobsInv, TakeJob PROVE Once'
<1> DEFINE x == queue[taken + 1]
<1>1. /\ taken \in Nat /\ taken + 1 \in DOMAIN queue /\ taken' = taken + 1
      /\ jobAt = "get" /\ jobNow = Nothing
      /\ DOMAIN queue \subseteq Nat /\ x \in Jobs \cup {Sentinel}
  <2>1. taken \in Nat /\ Len(queue) \in Nat /\ taken < Len(queue) /\ DOMAIN queue = 1..Len(queue)
        /\ taken' = taken + 1 /\ jobAt = "get" /\ queue \in Seq(Jobs \cup {Sentinel})
    BY DEF TakeJob, JobsInv, JobsTypeOK
  <2>2. taken + 1 \in DOMAIN queue /\ DOMAIN queue \subseteq Nat
    BY <2>1
  <2>3. jobNow = Nothing
    BY <2>1 DEF JobsInv, Once, AtHand
  <2>4. x \in Jobs \cup {Sentinel}
    BY <2>1, <2>2
  <2> QED BY <2>1, <2>2, <2>3, <2>4
<1>2. UNCHANGED <<base, made, state, ran, queue, entering, tick, tickAt, tickJob, pending, done>>
  BY DEF TakeJob, tickVars
<1>3. \A a \in DOMAIN queue : a <= taken => queue[a] # Sentinel /\ ran[queue[a]] = 1
  BY <1>1, Constants DEF JobsInv, JobsTypeOK, Once, TakenHasRun
<1>4. \A a \in DOMAIN queue : a <= taken' => a <= taken \/ a = taken'
  BY <1>1
<1>5. EnteringIsFresh' /\ QueuedOnce' /\ EndedHasRun'
  BY <1>2 DEF JobsInv, Once, EnteringIsFresh, QueuedOnce, EndedHasRun, Fresh
<1>6. RestIsFresh'
  <2>1. \A a \in DOMAIN queue : taken' < a => taken < a
    BY <1>1
  <2> QED BY <1>2, <2>1 DEF JobsInv, Once, RestIsFresh, Fresh
<1>7. CASE x = Sentinel
  <2>1. jobAt' = "ended" /\ jobNow' = Nothing
    BY <1>1, <1>7 DEF TakeJob
  <2>2. TakenHasRun'
    BY <1>1, <1>2, <1>3, <1>4, <1>7, <2>1 DEF TakenHasRun
  <2>3. AtHand' /\ RunIsKnown' /\ OneHandle'
    BY <1>1, <1>2, <2>1 DEF JobsInv, Once, AtHand, RunIsKnown, OneHandle
  <2> QED BY <1>5, <1>6, <2>2, <2>3 DEF Once
<1>8. CASE x # Sentinel
  <2>1. jobAt' = "run" /\ jobNow' = x /\ x \in Jobs /\ x # Nothing
    BY <1>1, <1>8, Constants DEF TakeJob
  <2>2. Fresh(x)
    BY <1>1, <1>8 DEF JobsInv, Once, RestIsFresh
  <2>3. TakenHasRun'
    BY <1>1, <1>2, <1>3, <1>4, <1>8, <2>1 DEF TakenHasRun
  <2>4. AtHand'
    BY <1>1, <1>2, <2>1, <2>2 DEF AtHand, Fresh
  <2>5. RunIsKnown' /\ OneHandle'
    BY <1>1, <1>2, <2>1, <2>2 DEF JobsInv, Once, RunIsKnown, OneHandle, Fresh
  <2> QED BY <1>5, <1>6, <2>3, <2>4, <2>5 DEF Once
<1> QED BY <1>7, <1>8

\* The job at hand is run: by its own thread, or by a tick through its handle.
LEMMA RunOnce ==
    ASSUME JobsAssumption, JobsInv, jobAt \notin {"get", "ended"}, ran[jobNow] = 0,
           ran' = [ran EXCEPT ![jobNow] = @ + 1],
           UNCHANGED <<base, made, state, queue, taken, entering, jobNow, pending>>,
           jobAt' \notin {"get", "ended"},
           RunIsKnown', OneHandle'
    PROVE  Once'
<1>1. /\ jobNow \in Jobs /\ ran'[jobNow] = 1
      /\ \A j \in Jobs : j # jobNow => ran'[j] = ran[j]
  BY NowFacts, Constants DEF JobsInv, JobsTypeOK
<1>2. /\ \A a \in DOMAIN queue : taken < a => queue[a] # jobNow
      /\ \A c \in Clients : entering[c] # jobNow
      /\ \A a \in DOMAIN queue : a <= taken => queue[a] # Sentinel
      /\ jobNow # Nothing
  BY SMTT(30), NowFacts, Constants DEF JobsInv, JobsTypeOK
<1>3. EnteringIsFresh'
  BY <1>1, <1>2, Constants DEF JobsInv, JobsTypeOK, Once, EnteringIsFresh, Fresh
<1>4. QueuedOnce' /\ AtHand'
  BY <1>2 DEF JobsInv, Once, QueuedOnce, AtHand
<1>5. RestIsFresh'
  BY <1>1, <1>2, Constants DEF JobsInv, JobsTypeOK, Once, RestIsFresh, Fresh
<1>6. TakenHasRun'
  BY <1>1, <1>2, Constants DEF JobsInv, JobsTypeOK, Once, TakenHasRun
<1>7. EndedHasRun'
  BY <1>1 DEF JobsInv, Once, EndedHasRun
<1> QED BY <1>3, <1>4, <1>5, <1>6, <1>7 DEF Once

LEMMA RunsOnce == ASSUME JobsAssumption, JobsInv, RunBuild \/ EndReconcile \/ TickExec PROVE Once'
<1>1. CASE RunBuild \/ EndReconcile
  <2>1. /\ jobAt \in {"run", "reconciling"} /\ jobAt' = "finish"
        /\ ran' = [ran EXCEPT ![jobNow] = @ + 1]
        /\ UNCHANGED <<base, made, state, queue, taken, entering, jobNow, pending, tickJob, done>>
        /\ \/ UNCHANGED <<tick, tickAt>>
           \/ tick' = "free" /\ tickAt' = "none"
    <3>1. CASE RunBuild
      BY <3>1 DEF RunBuild, regVars, tickVars
    <3>2. CASE EndReconcile
      BY <3>2 DEF EndReconcile, regVars
    <3> QED BY <1>1, <3>1, <3>2
  <2>2. ran[jobNow] = 0 /\ jobNow \in Jobs /\ ran'[jobNow] = 1
    BY <2>1, NowFacts DEF JobsInv, JobsTypeOK, Once, RunIsKnown
  <2>3. RunIsKnown'
    BY <2>1, <2>2 DEF JobsInv, JobsTypeOK, Once, RunIsKnown
  <2>4. OneHandle'
    BY <2>1 DEF JobsInv, Once, OneHandle
  <2> QED BY <2>1, <2>2, <2>3, <2>4, RunOnce
<1>2. CASE TickExec
  <2>1. /\ tickAt = "exec" /\ tickAt' = "drain" /\ tickJob' = Nothing /\ done' = done \cup {tickJob}
        /\ ran' = [ran EXCEPT ![tickJob] = @ + 1]
        /\ UNCHANGED <<base, made, state, queue, taken, entering, jobAt, jobNow, pending, tick>>
    BY <1>2 DEF TickExec, regVars
  <2>2. jobAt = "wait" /\ jobNow \notin done /\ pending = <<>> /\ tickJob = jobNow
    BY <2>1 DEF JobsInv, Once, OneHandle
  <2>3. ran[jobNow] = 0 /\ jobNow \in Jobs /\ ran'[jobNow] = 1
    BY <2>1, <2>2, NowFacts DEF JobsInv, JobsTypeOK, Once, RunIsKnown
  <2>4. RunIsKnown'
    BY <2>1, <2>2, <2>3 DEF JobsInv, JobsTypeOK, Once, RunIsKnown
  <2>5. OneHandle'
    BY <2>1, <2>2 DEF JobsInv, Once, OneHandle
  <2> QED BY <2>1, <2>2, <2>3, <2>4, <2>5, RunOnce
<1> QED BY <1>1, <1>2

\* A step that only moves the threads and the handle of the job at hand.
LEMMA MoveOnce ==
    ASSUME JobsAssumption, JobsInv,
           UNCHANGED <<base, made, state, ran, queue, taken, entering, jobNow, done>>,
           jobAt' = jobAt \/ (jobAt \notin {"get", "ended"} /\ jobAt' \notin {"get", "ended"}),
           RunIsKnown', OneHandle'
    PROVE  Once'
<1>1. EnteringIsFresh' /\ QueuedOnce' /\ RestIsFresh' /\ EndedHasRun'
  BY DEF JobsInv, Once, EnteringIsFresh, QueuedOnce, RestIsFresh, EndedHasRun, Fresh
<1>2. TakenHasRun'
  BY DEF JobsInv, Once, TakenHasRun
<1>3. AtHand'
  BY DEF JobsInv, Once, AtHand
<1> QED BY <1>1, <1>2, <1>3 DEF Once

LEMMA MovesOnce ==
    ASSUME JobsAssumption, JobsInv,
           SubmitHandle \/ BeginReconcile \/ HandleDone \/ TickWhileWaiting \/ WorkerStep
               \/ TickPump \/ TickPop \/ TickEnd
    PROVE  Once'
<1> DEFINE Kept == UNCHANGED <<base, made, state, ran, queue, taken, entering, jobNow, done>>
           Moved == jobAt' = jobAt \/ (jobAt \notin {"get", "ended"} /\ jobAt' \notin {"get", "ended"})
<1> SUFFICES Kept /\ Moved /\ RunIsKnown' /\ OneHandle'
  BY MoveOnce
<1>1. CASE SubmitHandle
  <2>1. /\ Kept /\ UNCHANGED <<tick, tickAt, tickJob>>
        /\ jobAt = "run" /\ jobAt' = "wait" /\ pending' = Append(pending, jobNow)
    BY <1>1 DEF SubmitHandle, regVars
  <2>2. pending = <<>> /\ tickJob = Nothing /\ ran[jobNow] = 0
    BY <2>1 DEF JobsInv, Once, OneHandle, RunIsKnown
  <2>3. jobNow \notin done
    BY <2>2 DEF JobsInv, Once, RunIsKnown
  <2>4. pending' = <<jobNow>>
    BY <2>1, <2>2
  <2>5. RunIsKnown'
    BY <2>1, <2>2 DEF JobsInv, Once, RunIsKnown
  <2>6. OneHandle'
    BY <2>1, <2>2, <2>3, <2>4 DEF JobsInv, Once, OneHandle
  <2> QED BY <2>1, <2>5, <2>6
<1>2. CASE BeginReconcile
  <2>1. /\ Kept /\ UNCHANGED <<tickJob, pending>>
        /\ jobAt = "run" /\ jobAt' = "reconciling" /\ tick = "free" /\ tick' = "jobs" /\ tickAt' = "reconcile"
    BY <1>2 DEF BeginReconcile, regVars
  <2> QED BY <2>1 DEF JobsInv, Once, OneHandle, RunIsKnown
<1>3. CASE HandleDone
  <2>1. /\ Kept /\ UNCHANGED <<tick, tickAt, tickJob, pending>>
        /\ jobAt = "wait" /\ jobAt' = "finish" /\ jobNow \in done
    BY <1>3 DEF HandleDone, regVars, tickVars
  <2> QED BY <2>1 DEF JobsInv, Once, OneHandle, RunIsKnown
<1>4. CASE TickWhileWaiting
  <2>1. /\ Kept /\ UNCHANGED <<tickJob, pending, jobAt>>
        /\ tick = "free" /\ tick' = "jobs" /\ tickAt' = "pump"
    BY <1>4 DEF TickWhileWaiting, regVars
  <2> QED BY <2>1 DEF JobsInv, Once, OneHandle, RunIsKnown
<1>5. CASE WorkerStep
  <2>1. /\ Kept /\ UNCHANGED <<tickJob, pending, jobAt>>
        /\ \/ UNCHANGED <<tick, tickAt>>
           \/ tick = "free" /\ tick' = "worker" /\ tickAt' = "pump"
    <3>1. CASE WorkerTick
      BY <3>1 DEF WorkerTick, regVars
    <3>2. CASE WorkerIdle
      BY <3>2 DEF WorkerIdle, regVars, tickVars
    <3> QED BY <1>5, <3>1, <3>2 DEF WorkerStep
  <2> QED BY <2>1 DEF JobsInv, Once, OneHandle, RunIsKnown
<1>6. CASE TickPump
  <2>1. /\ Kept /\ UNCHANGED <<tick, tickJob, pending, jobAt>>
        /\ tickAt = "pump" /\ tickAt' = "drain"
    BY <1>6 DEF TickPump, regVars
  <2> QED BY <2>1 DEF JobsInv, Once, OneHandle, RunIsKnown
<1>7. CASE TickPop
  <2>1. /\ Kept /\ UNCHANGED <<tick, jobAt>>
        /\ tickAt = "drain" /\ pending # <<>> /\ pending' = Tail(pending)
        /\ Head(pending) \notin done => tickAt' = "exec" /\ tickJob' = Head(pending)
    BY <1>7 DEF TickPop, regVars
  <2>2. jobAt = "wait" /\ jobNow \notin done /\ pending = <<jobNow>> /\ tick # "free" /\ jobNow # Nothing
    BY <2>1 DEF JobsInv, Once, OneHandle, AtHand
  <2>3. Head(pending) = jobNow /\ pending' = <<>>
    BY <2>1, <2>2
  <2>4. tickAt' = "exec" /\ tickJob' = jobNow
    BY <2>1, <2>2, <2>3
  <2>5. RunIsKnown'
    BY <2>1 DEF JobsInv, Once, RunIsKnown
  <2> QED BY <2>1, <2>2, <2>3, <2>4, <2>5 DEF OneHandle
<1>8. CASE TickEnd
  <2>1. /\ Kept /\ UNCHANGED <<tickJob, pending, jobAt>>
        /\ tickAt = "drain" /\ tick' = "free" /\ tickAt' = "none"
    BY <1>8 DEF TickEnd, regVars
  <2> QED BY <2>1 DEF JobsInv, Once, OneHandle, RunIsKnown
<1> QED BY <1>1, <1>2, <1>3, <1>4, <1>5, <1>6, <1>7, <1>8

LEMMA FinishOnce == ASSUME JobsAssumption, JobsInv, FinishJob PROVE Once'
<1>1. /\ jobAt = "finish" /\ jobAt' = "get" /\ jobNow' = Nothing
      /\ UNCHANGED <<base, made, queue, taken, entering, ran, tick, tickAt, tickJob, pending, done>>
  BY DEF FinishJob, tickVars
<1>2. /\ jobNow \in Jobs /\ jobNow # Nothing /\ ran[jobNow] = 1
      /\ \A a \in DOMAIN queue : taken < a => queue[a] # jobNow
      /\ \A c \in Clients : entering[c] # jobNow
      /\ \A a \in DOMAIN queue : a <= taken => queue[a] # Sentinel
  BY SMTT(30), <1>1, NowFacts, Constants DEF JobsInv, JobsTypeOK, Once, RunIsKnown
<1>3. \A j \in Jobs : j # jobNow => state'[j] = state[j]
  BY DEF FinishJob, JobsInv, JobsTypeOK
<1>4. EnteringIsFresh'
  BY <1>1, <1>2, <1>3, Constants DEF JobsInv, JobsTypeOK, Once, EnteringIsFresh, Fresh
<1>5. QueuedOnce' /\ RunIsKnown' /\ AtHand'
  BY <1>1 DEF JobsInv, Once, QueuedOnce, RunIsKnown, AtHand
<1>6. RestIsFresh'
  BY <1>1, <1>2, <1>3, Constants DEF JobsInv, JobsTypeOK, Once, RestIsFresh, Fresh
<1>7. TakenHasRun'
  BY <1>1, <1>2, Constants DEF JobsInv, JobsTypeOK, Once, TakenHasRun
<1>8. OneHandle'
  BY <1>1 DEF JobsInv, Once, OneHandle
<1>9. EndedHasRun'
  BY <1>1, <1>2, <1>3 DEF JobsInv, Once, EndedHasRun
<1> QED BY <1>4, <1>5, <1>6, <1>7, <1>8, <1>9 DEF Once

LEMMA RestartOnce == ASSUME JobsAssumption, JobsInv, Restart PROVE Once'
<1>1. /\ queue' = <<>> /\ taken' = 0 /\ entering' = [c \in Clients |-> Nothing]
      /\ jobAt' = "get" /\ jobNow' = Nothing /\ pending' = <<>> /\ done' = {}
      /\ tick' = "free" /\ tickAt' = "none" /\ tickJob' = Nothing
      /\ UNCHANGED <<state, ran>>
  BY DEF Restart
<1> QED BY <1>1 DEF JobsInv, Once, EnteringIsFresh, QueuedOnce, RestIsFresh, TakenHasRun, AtHand, RunIsKnown,
        OneHandle, EndedHasRun

LEMMA OnceNext == ASSUME JobsAssumption, JobsInv, [JobsNext]_jobsVars PROVE Once'
<1>1. CASE \E c \in Clients : Poll(c)
  <2>1. UNCHANGED <<regVars, jobAt, jobNow, tickVars, ran>>
    BY <1>1 DEF Poll
  <2> QED BY <2>1 DEF regVars, tickVars, JobsInv, Once, EnteringIsFresh, QueuedOnce, RestIsFresh, TakenHasRun,
          AtHand, RunIsKnown, OneHandle, EndedHasRun, Fresh
<1>2. CASE StopManager \/ ManagerStopped \/ UNCHANGED jobsVars
  <2>1. UNCHANGED <<regVars, jobAt, jobNow, tickVars, ran>>
    BY <1>2 DEF StopManager, ManagerStopped, jobsVars
  <2> QED BY <2>1 DEF regVars, tickVars, JobsInv, Once, EnteringIsFresh, QueuedOnce, RestIsFresh, TakenHasRun,
          AtHand, RunIsKnown, OneHandle, EndedHasRun, Fresh
<1> QED BY <1>1, <1>2, SubmitOnce, EnqueueOnce, StopOnce, TakeOnce, RunsOnce, MovesOnce, FinishOnce, RestartOnce
        DEF JobsNext, JobStep, HandlerStep, TickStep

\* The invariant, in every state.
LEMMA JobsInvNext == ASSUME JobsAssumption, JobsInv, [JobsNext]_jobsVars PROVE JobsInv'
BY TypeNext, RegisteredNext, OnceNext DEF JobsInv

LEMMA InvAlways == ASSUME JobsAssumption PROVE JobsSpec => []JobsInv
BY JobsInvNext, JobsInitInv, PTL DEF JobsSpec

\* Every variable of the registry and the manager keeps its type.
THEOREM JobTypes == ASSUME JobsAssumption PROVE JobsSpec => []JobsTypeOK
<1>1. JobsInv => JobsTypeOK
  BY DEF JobsInv
<1> QED BY <1>1, InvAlways, PTL

LEMMA JobsInvOnce == ASSUME JobsAssumption, JobsInv PROVE RunsOnceInOrder
<1>1. \A j \in Jobs : ran[j] <= 1 /\ (state[j] \in {"done", "error"} => ran[j] = 1)
  BY DEF JobsInv, Once, EndedHasRun
<1>2. ASSUME NEW b \in DOMAIN queue, queue[b] # Sentinel, ran[queue[b]] = 1, NEW a \in 1..b
      PROVE  queue[a] # Sentinel /\ ran[queue[a]] = 1
  <2>0. /\ queue \in Seq(Jobs \cup {Sentinel}) /\ taken \in Nat
        /\ jobNow \in Jobs \cup {Nothing}
    BY DEF JobsInv, JobsTypeOK
  <2>1. b <= taken /\ a \in DOMAIN queue /\ a <= b /\ b \in Nat /\ a \in Nat /\ taken \in Nat
    <3>1. b \in Nat /\ a \in Nat /\ a \in DOMAIN queue /\ a <= b
      BY <1>2, <2>0
    <3>2. b <= taken
      BY <1>2, <2>0, <3>1 DEF JobsInv, Once, RestIsFresh, Fresh
    <3> QED BY <2>0, <3>1, <3>2
  <2>2. CASE a = b
    BY <1>2, <2>2
  <2>3. CASE a < b
    <3>1. a < taken
      BY <2>1, <2>3
    <3>2. queue[a] # Sentinel
      BY <2>1, <3>1 DEF JobsInv, Once, TakenHasRun
    <3>3. queue[a] # jobNow
      <4> SUFFICES ASSUME queue[a] = jobNow PROVE FALSE
        OBVIOUS
      <4>0. queue[a] \in Jobs
        BY <2>0, <2>1, <3>2
      <4>1. jobNow # Nothing /\ jobNow = queue[taken]
        BY <4>0, Constants DEF JobsInv, Once, AtHand
      <4>2. a = taken
        <5>1. taken \in DOMAIN queue
          BY <2>0, <2>1, <3>1 DEF JobsInv, JobsTypeOK
        <5> QED BY <2>1, <3>2, <4>1, <5>1 DEF JobsInv, Once, QueuedOnce
      <4> QED BY <2>1, <3>1, <4>2
    <3> QED BY <2>1, <3>1, <3>2, <3>3 DEF JobsInv, Once, TakenHasRun
  <2> QED BY <2>1, <2>2, <2>3
<1> QED BY <1>1, <1>2 DEF RunsOnceInOrder

\* A daemon executes each job once and in the order it was queued (JobRegistry),
\* although the handle of a job may be drained by the manager's worker or by the
\* job thread itself (_wait_for_handle), and whenever it is stopped or crashes.
THEOREM JobsRunOnce == ASSUME JobsAssumption PROVE JobsSpec => []RunsOnceInOrder
<1>1. JobsInv => RunsOnceInOrder
  BY JobsInvOnce
<1> QED BY <1>1, InvAlways, PTL

-----------------------------------------------------------------------------
(* The history.                                                            *)

LEMMA HistoryNext == ASSUME JobsAssumption, JobsInv, HistoryBounded, [JobsNext]_jobsVars PROVE HistoryBounded'
<1> USE Constants
<1>1. ASSUME NEW c \in Clients, Submit(c) PROVE HistoryBounded'
  <2> DEFINE kept == retained \cup {made'}
  <2>1. /\ retained' = Prune(kept, state') /\ base' = base
        /\ state' = [state EXCEPT ![made'] = "pending"] /\ made' = made + 1
    BY <1>1 DEF Submit
  <2>2. \A j \in Jobs : Waiting(j)' => j \in kept
    <3>1. \A j \in Jobs : j # made' => state'[j] = state[j]
      BY <2>1 DEF JobsInv, JobsTypeOK
    <3> QED BY <2>1, <3>1 DEF HistoryBounded, Waiting
  <2>3. \A j \in Jobs : Waiting(j)' => j \in retained'
    BY <2>1, <2>2, PruneKeeps DEF Waiting
  <2>4. kept \in SUBSET Nat /\ IsFiniteSet(kept)
    <3>1. made' \in Nat /\ retained \in SUBSET Jobs
      BY <2>1 DEF JobsInv, JobsTypeOK
    <3>2. IsFiniteSet(Jobs)
      BY FS_Interval DEF Jobs
    <3>3. IsFiniteSet(retained)
      BY <3>1, <3>2, FS_Subset
    <3> QED BY <3>1, <3>3, FS_AddElement
  <2>5. Cardinality(retained') > MaxJobs => \A j \in retained' : state'[j] = "pending"
    <3> HIDE DEF kept
    <3> QED BY <2>1, <2>4, PruneBounds
  <2> QED BY <2>3, <2>5 DEF HistoryBounded
<1>2. CASE FinishJob
  <2>1. /\ retained' = Prune(retained, state') /\ base' = base /\ jobAt = "finish"
        /\ \E o \in {"done", "error"} : state' = [state EXCEPT ![jobNow] = o]
    BY <1>2 DEF FinishJob
  <2>2. \A j \in Jobs : Waiting(j)' => j \in retained /\ state'[j] = "pending"
    <3>1. jobNow \in Jobs
      BY <2>1, NowFacts
    <3> QED BY <2>1, <3>1 DEF JobsInv, JobsTypeOK, HistoryBounded, Waiting
  <2>3. \A j \in Jobs : Waiting(j)' => j \in retained'
    BY <2>1, <2>2, PruneKeeps
  <2>4. retained \in SUBSET Nat /\ IsFiniteSet(retained)
    <3>1. retained \in SUBSET Jobs /\ IsFiniteSet(Jobs)
      BY SMTT(20), FS_Interval DEF JobsInv, JobsTypeOK, Jobs
    <3> QED BY <3>1, FS_Subset
  <2>5. Cardinality(retained') > MaxJobs => \A j \in retained' : state'[j] = "pending"
    BY <2>1, <2>4, PruneBounds
  <2> QED BY <2>3, <2>5 DEF HistoryBounded
<1>3. CASE Restart
  <2>1. retained' = {} /\ base' = made /\ state' = state
    BY <1>3 DEF Restart
  <2>2. \A j \in Jobs : ~Waiting(j)'
    BY <2>1 DEF JobsInv, JobsTypeOK, Registered, Waiting
  <2>3. ~(Cardinality(retained') > MaxJobs)
    BY <2>1, FS_EmptySet DEF JobsAssumption
  <2> QED BY <2>2, <2>3 DEF HistoryBounded
<1>4. ASSUME UNCHANGED <<base, state, retained>> PROVE HistoryBounded'
  BY <1>4 DEF HistoryBounded, Waiting
<1> QED BY <1>1, <1>2, <1>3, <1>4 DEF JobsNext, JobStep, HandlerStep, TickStep, WorkerStep, regVars, jobsVars,
        Enqueue, Poll, TakeJob, SubmitHandle, RunBuild, BeginReconcile, EndReconcile, HandleDone,
        TickWhileWaiting, WorkerTick, WorkerIdle, TickPump, TickPop, TickExec, TickEnd, StopJobs, StopManager,
        ManagerStopped

LEMMA HistoryInit == ASSUME JobsAssumption, JobsInit PROVE HistoryBounded
<1>1. retained = {} /\ \A j \in Jobs : state[j] = "none"
  BY DEF JobsInit
<1>2. ~(Cardinality(retained) > MaxJobs)
  BY <1>1, FS_EmptySet DEF JobsAssumption
<1> QED BY <1>1, <1>2 DEF HistoryBounded, Waiting

\* No job that is pending is evicted (_prune_locked), and the registry is never
\* above max_jobs but with jobs that are all pending.
THEOREM HistoryStaysBounded == ASSUME JobsAssumption PROVE JobsSpec => []HistoryBounded
<1>1. JobsInv /\ HistoryBounded /\ [JobsNext]_jobsVars => HistoryBounded'
  BY HistoryNext
<1> QED BY <1>1, HistoryInit, InvAlways, PTL DEF JobsSpec
=============================================================================
