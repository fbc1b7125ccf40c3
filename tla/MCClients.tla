----------------------------- MODULE MCClients -----------------------------
(***************************************************************************)
(* What a client process keeps, for TLC: the leases of its seats           *)
(* (Heartbeats), its connection to the daemon (Rpc) and, in the GUI, the   *)
(* stream of the enlarged seat (LiveView).  The components share no        *)
(* variable, so a behaviour of the run is a behaviour of one of them,      *)
(* chosen by part.                                                         *)
(***************************************************************************)
EXTENDS Heartbeats, Rpc, LiveView

VARIABLE part  \* the component this behaviour is about

\* A wall with a seat in every slot: which one it is makes no difference.
Full == CHOOSE w \in [Slots -> Desktops] : \A k, l \in Slots : w[k] = w[l] => k = l

ClientsInit ==
    /\ Init /\ RpcInit /\ LiveInit
    /\ part \in {"heartbeats", "rpc", "live"}
    /\ pool = IF part = "live" THEN Full ELSE Bare
    /\ part = "live" \/ gui.mode = "stills"

HeartbeatsRun == part = "heartbeats" /\ Next /\ UNCHANGED <<rpcVars, liveVars, part>>

RpcRuns == part = "rpc" /\ RpcNext /\ UNCHANGED <<vars, liveVars, part>>

LiveRuns == part = "live" /\ LiveNext /\ UNCHANGED <<vars, rpcVars, part>>

ClientsNext == HeartbeatsRun \/ RpcRuns \/ LiveRuns

\* The fairness of each module, in the behaviours that are about it.
ClientsFairness ==
    /\ WF_vars(part = "heartbeats" /\ Tick)
    /\ WF_vars(part = "heartbeats" /\ WakeBackground)
    /\ \A t \in Threads : WF_vars(part = "heartbeats" /\ BeatStep(t))
    /\ WF_rpcVars(part = "rpc" /\ ClientStep)
    /\ WF_liveVars(part = "live" /\ GuiSignal) /\ WF_liveVars(part = "live" /\ PollLive)
    /\ WF_liveVars(part = "live" /\ HandleSignal) /\ WF_liveVars(part = "live" /\ WallTimer)
    /\ \A s \in Desktops : WF_liveVars(part = "live" /\ StreamStep(s))

ClientsSpec == ClientsInit /\ [][ClientsNext]_<<vars, rpcVars, liveVars, part>> /\ ClientsFairness

-----------------------------------------------------------------------------
(* Every variable of the components keeps its type.                        *)
ClientsTypeOK == TypeOK /\ RpcTypeOK /\ LiveTypeOK
=============================================================================
