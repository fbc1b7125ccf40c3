----------------------------- MODULE MCService -----------------------------
(***************************************************************************)
(* The daemon process as a service, for TLC: who owns its socket (Daemon)  *)
(* and how it runs the jobs it accepts (Jobs).  The two components share   *)
(* no variable, so a behaviour of one run is a behaviour of one of them,   *)
(* chosen by part; interleaving them would only multiply the states.       *)
(***************************************************************************)
EXTENDS Daemon, Jobs

VARIABLE part       \* the component this behaviour is about

ASSUME ServiceAssumption == JobsAssumption

ServiceInit ==
    /\ Init /\ JobsInit
    /\ part \in {"daemon", "jobs"}
    /\ part = "jobs" => path = NoFile

DaemonRuns == part = "daemon" /\ Next /\ UNCHANGED <<jobsVars, part>>

JobsRun == part = "jobs" /\ JobsNext /\ UNCHANGED <<vars, part>>

ServiceNext == DaemonRuns \/ JobsRun

\* The fairness of each module, in the behaviours that are about it; no
\* daemon ever starts in the others.
ServiceFairness ==
    /\ Fairness
    /\ SF_jobsVars(part = "jobs" /\ JobStep)
    /\ SF_jobsVars(part = "jobs" /\ WorkerStep)
    /\ WF_jobsVars(part = "jobs" /\ TickStep)
    /\ WF_jobsVars(part = "jobs" /\ HandlerStep)

ServiceSpec == ServiceInit /\ [][ServiceNext]_<<vars, jobsVars, part>> /\ ServiceFairness

-----------------------------------------------------------------------------
(* Every variable of both components keeps its type.                       *)
ServiceTypeOK == TypeOK /\ JobsTypeOK
=============================================================================
