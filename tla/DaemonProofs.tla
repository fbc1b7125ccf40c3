---------------------------- MODULE DaemonProofs ----------------------------
(***************************************************************************)
(* Whatever number of processes starts, stops and dies at the same time:   *)
(* a daemon that began to listen without a rival keeps the socket path and *)
(* acts alone until it is told to stop.  With the jobs it runs             *)
(* (JobsProofs): the daemon as a service.                                  *)
(***************************************************************************)
EXTENDS MCService, JobsProofs, TLAPS

\* Past bind, and not told to stop.
InService(d) == pc[d] \in {"starting", "reconciling", "serving"} /\ d \notin stopped

\* The daemon in service has the path, and no other daemon is past the
\* probe that would refuse it.
Rules(d) ==
    /\ path = d
    /\ d \in listening
    /\ \A e \in Daemons \ {d} : ~Claims(e) /\ e \notin active

\* Where a daemon is that has begun to listen; run_daemon binds once.
Listened == {"starting", "reconciling", "serving", "closing", "draining", "unbinding",
             "leaving", "exited"}

\* A manager starts after bind only.
BoundFirst ==
    \A d \in Daemons : pc[d] \in {"starting", "reconciling", "serving"} => d \in bound

Inv ==
    /\ DOMAIN pc = Daemons
    /\ active \subseteq Daemons
    /\ undisputed \subseteq Daemons
    /\ BoundFirst
    /\ \A d \in undisputed : pc[d] \in Listened
    /\ \A d \in undisputed : InService(d) => Rules(d)

-----------------------------------------------------------------------------
LEMMA InitInv == ASSUME Init PROVE Inv
  BY DEF Init, Inv, BoundFirst

LEMMA EnvironmentKeepsInv ==
    ASSUME Inv, NEW d \in Daemons, Arm(d) \/ Signal(d) \/ Crash(d)
    PROVE  Inv'
<1> USE DEF Goto, Inv, BoundFirst, Listened, InService, Rules, Claims
<1>1. CASE Arm(d)
  BY <1>1 DEF Arm
<1>2. CASE Signal(d)
  BY <1>2 DEF Signal
<1>3. CASE Crash(d)
  BY <1>3 DEF Crash
<1> QED BY <1>1, <1>2, <1>3

\* A start that meets a daemon in service is refused at its probe, or when
\* it binds; a stop unlinks the path of nobody else.
LEMMA MainKeepsInv ==
    ASSUME Inv, NEW d \in Daemons, MainStep(d)
    PROVE  Inv'
<1> USE DEF Goto, Inv, BoundFirst, Listened, InService, Rules, Claims
<1>1. CASE Start(d)
  BY <1>1 DEF Start
<1>2. CASE CheckPath(d)
  BY <1>2 DEF CheckPath
<1>3. CASE ProbePath(d)
  BY <1>3 DEF ProbePath, Live
<1>4. CASE UnlinkStale(d)
  BY <1>4 DEF UnlinkStale
<1>5. CASE BindSocket(d)
  BY <1>5, DaemonAssumption DEF BindSocket
<1>6. CASE SetMode(d)
  BY <1>6 DEF SetMode
<1>7. CASE SetModeFails(d)
  BY <1>7 DEF SetModeFails
<1>8. CASE Listen(d)
  <2>1. \A e \in undisputed : InService(e) => e = d
    BY <1>8 DEF Listen
  <2>2. pc' = [pc EXCEPT ![d] = "starting"] /\ bound' = bound \cup {d} /\ UNCHANGED <<path, active, stopped>>
    BY <1>8 DEF Listen
  <2>3. BoundFirst' /\ DOMAIN pc' = Daemons /\ active' \subseteq Daemons /\ undisputed' \subseteq Daemons
    BY <1>8, <2>2 DEF Listen
  <2>4. \A e \in undisputed' : InService(e)' => e = d
    BY <1>8, <2>1, <2>2 DEF Listen
  <2>5. InService(d)' /\ d \in undisputed' => Rules(d)'
    BY <1>8, <2>2 DEF Listen, Listened
  <2>6. \A e \in undisputed' : pc'[e] \in Listened
    BY <1>8, <2>2 DEF Listen
  <2> QED BY <2>3, <2>4, <2>5, <2>6
<1>9. CASE StartManager(d)
  BY <1>9 DEF StartManager
<1>10. CASE Serve(d)
  BY <1>10 DEF Serve
<1>11. CASE StopServing(d)
  BY <1>11 DEF StopServing
<1>12. CASE CloseSocket(d)
  BY <1>12 DEF CloseSocket
<1>13. CASE Drain(d)
  BY <1>13 DEF Drain
<1>14. CASE Unbind(d)
  BY <1>14 DEF Unbind
<1>15. CASE Exit(d)
  BY <1>15 DEF Exit
<1> QED BY <1>1, <1>2, <1>3, <1>4, <1>5, <1>6, <1>7, <1>8, <1>9, <1>10, <1>11, <1>12, <1>13,
           <1>14, <1>15
        DEF MainStep

LEMMA NextInv ==
    ASSUME Inv, [Next]_vars
    PROVE  Inv'
<1>1. CASE DaemonStep
  <2>1. PICK d \in Daemons : Arm(d) \/ MainStep(d) \/ Signal(d) \/ Crash(d)
    BY <1>1 DEF DaemonStep
  <2> QED BY <2>1, MainKeepsInv, EnvironmentKeepsInv
<1>2. CASE UNCHANGED daemonVars
  BY <1>2 DEF daemonVars, Inv, BoundFirst, Listened, InService, Rules, Claims
<1>3. ASSUME NEW l \in Launchers, SpawnDaemon(l)
      PROVE  Inv'
  <2>1. PICK d \in Daemons : Arm(d)
    BY <1>3 DEF SpawnDaemon
  <2> QED BY <2>1, EnvironmentKeepsInv
<1> QED BY <1>1, <1>2, <1>3 DEF Next, LauncherStep, LookUp, SeeExit, SeeSocket, StartTimeout, vars

LEMMA InvIsReachable == ASSUME Inv PROVE UndisputedIsReachable
  BY DEF Inv, InService, Rules, UndisputedIsReachable, Live

LEMMA InvActsAlone == ASSUME Inv PROVE UndisputedActsAlone
  BY DEF Inv, InService, Rules, UndisputedActsAlone

-----------------------------------------------------------------------------
(* Nothing takes the socket path from a daemon that began to listen        *)
(* without a rival: not a start, refused or racing another one, nor the    *)
(* file a crash left, nor another daemon's shutdown (bind, shutdown).      *)
THEOREM ServiceIsKept == Spec => []UndisputedIsReachable
<1>1. Init => Inv
  BY InitInv
<1>2. Inv /\ [Next]_vars => Inv'
  BY NextInv
<1>3. Inv => UndisputedIsReachable
  BY InvIsReachable
<1> QED BY <1>1, <1>2, <1>3, PTL DEF Spec

(* While it serves, its manager is the only one that acts on the VMs and   *)
(* the database, however many processes start and stop beside it.          *)
THEOREM OneManagerActs == Spec => []UndisputedActsAlone
<1>1. Init => Inv
  BY InitInv
<1>2. Inv /\ [Next]_vars => Inv'
  BY NextInv
<1>3. Inv => UndisputedActsAlone
  BY InvActsAlone
<1> QED BY <1>1, <1>2, <1>3, PTL DEF Spec

LEMMA MainKeepsTypes ==
    ASSUME TypeOK, NEW d \in Daemons, MainStep(d), UNCHANGED launchVars
    PROVE  TypeOK'
<1> USE DEF Goto, TypeOK, Stages, Refuse, launchVars
<1>1. CASE Start(d) \/ CheckPath(d) \/ ProbePath(d) \/ UnlinkStale(d)
  BY <1>1 DEF Start, CheckPath, ProbePath, UnlinkStale
<1>2. CASE BindSocket(d) \/ SetMode(d) \/ SetModeFails(d) \/ Listen(d) \/ StartManager(d) \/ Serve(d)
  BY <1>2 DEF BindSocket, SetMode, SetModeFails, Listen, StartManager, Serve
<1>3. CASE StopServing(d) \/ CloseSocket(d) \/ Drain(d) \/ Unbind(d)
  BY <1>3 DEF StopServing, CloseSocket, Drain, Unbind
<1>4. CASE Exit(d)
  BY <1>4 DEF Exit
<1> QED BY <1>1, <1>2, <1>3, <1>4 DEF MainStep

LEMMA InitTypes == ASSUME Init PROVE TypeOK
BY DEF Init, TypeOK, Stages

LEMMA NextTypes == ASSUME TypeOK, [Next]_vars PROVE TypeOK'
<1>1. ASSUME NEW d \in Daemons, Arm(d) \/ Signal(d) \/ Crash(d), UNCHANGED launchVars
      PROVE  TypeOK'
  BY <1>1 DEF Arm, Signal, Crash, Goto, launchVars, TypeOK, Stages
<1>2. ASSUME NEW l \in Launchers, LookUp(l) \/ SeeExit(l) \/ SeeSocket(l) \/ StartTimeout(l)
      PROVE  TypeOK'
  BY <1>2 DEF LookUp, SeeExit, SeeSocket, StartTimeout, daemonVars, TypeOK
<1>3. ASSUME NEW l \in Launchers, SpawnDaemon(l)
      PROVE  TypeOK'
  BY <1>3 DEF SpawnDaemon, Arm, Goto, TypeOK, Stages
<1>4. CASE UNCHANGED vars
  BY <1>4 DEF vars, daemonVars, launchVars, TypeOK
<1> QED BY <1>1, <1>2, <1>3, <1>4, MainKeepsTypes DEF Next, DaemonStep, LauncherStep

(* Every variable of the daemons and their launchers keeps its type,       *)
(* whatever overlaps: a process goes through the stages of run_daemon      *)
(* only, and the path names a daemon or nothing.                           *)
THEOREM DaemonTypes == Spec => []TypeOK
BY InitTypes, NextTypes, PTL DEF Spec

-----------------------------------------------------------------------------
(* The daemon and its jobs together (MCService): a step of one leaves the  *)
(* variables of the other alone, so the invariants hold side by side.      *)

\* A step of the service is a step of each part, or leaves it alone.
LEMMA ServiceParts ==
    ASSUME [ServiceNext]_<<vars, jobsVars, part>>
    PROVE  [Next]_vars /\ [JobsNext]_jobsVars
BY DEF ServiceNext, DaemonRuns, JobsRun

(* Every variable of the service keeps its type, whichever part the        *)
(* behaviour is about: the processes that run_daemon goes through and the  *)
(* jobs, their queue and the manager's handles (JobRegistry).              *)
THEOREM ServiceTypes == ASSUME JobsAssumption PROVE ServiceSpec => []ServiceTypeOK
<1>1. ServiceInit => TypeOK /\ JobsInv
  BY InitTypes, JobsInitInv DEF ServiceInit
<1>2. TypeOK /\ JobsInv /\ [ServiceNext]_<<vars, jobsVars, part>> => (TypeOK /\ JobsInv)'
  BY ServiceParts, NextTypes, JobsInvNext
<1>3. TypeOK /\ JobsInv => ServiceTypeOK
  BY DEF JobsInv, ServiceTypeOK
<1> QED BY <1>1, <1>2, <1>3, PTL DEF ServiceSpec

(* What each part promises, it promises in the service too: a daemon that  *)
(* began without a rival is reachable and acts alone (run_daemon), a job   *)
(* runs once and in its turn, and the registry evicts no job that is       *)
(* pending (JobRegistry).                                                  *)
THEOREM ServiceIsSafe ==
    ASSUME JobsAssumption
    PROVE  ServiceSpec =>
             [](UndisputedIsReachable /\ UndisputedActsAlone /\ RunsOnceInOrder /\ HistoryBounded)
<1> DEFINE I == Inv /\ JobsInv /\ HistoryBounded
<1>1. ServiceInit => I
  BY InitInv, JobsInitInv, HistoryInit DEF ServiceInit
<1>2. I /\ [ServiceNext]_<<vars, jobsVars, part>> => I'
  BY ServiceParts, NextInv, JobsInvNext, HistoryNext
<1>3. I => UndisputedIsReachable /\ UndisputedActsAlone /\ RunsOnceInOrder /\ HistoryBounded
  BY InvIsReachable, InvActsAlone, JobsInvOnce
<1> QED BY <1>1, <1>2, <1>3, PTL DEF ServiceSpec
=============================================================================
