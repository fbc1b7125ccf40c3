------------------------------ MODULE Scheduler ------------------------------
(***************************************************************************)
(* omavroom/manager/scheduler.py as the Manager's worker runs it.          *)
(*                                                                         *)
(* One thread, under the tick lock, runs pump() and then the queued jobs,  *)
(* for ever: `phase' is the pump method (or the job drain, or a pass of    *)
(* reconcile) it is in, `todo' the seats that method still has to visit    *)
(* from the snapshot it took, and `op' the operation that is between two   *)
(* of its transactions or provisioner calls.  Every transaction and every  *)
(* provisioner call is one step, so the steps of the connection threads    *)
(* (submit, heartbeat, begin_work, finish_work), of the host (a VM stops)  *)
(* and a crash of the daemon fall between them.                            *)
(*                                                                         *)
(* A queued job is a closure over an id: it reads nothing until it runs.   *)
(* The queue is therefore not kept: when the worker drains jobs, any job   *)
(* of JobKinds may be the next one.                                        *)
(***************************************************************************)
EXTENDS SeatStore

CONSTANTS
    MaxSeats,    \* seats.T.max_seats
    MinSeats,    \* seats.T.min_seats, the prewarm floor
    MaxRetries,  \* prewarm.max_retries
    HeldTtl,     \* leases.held_ttl_s > 0
    Refusals,    \* admission may refuse below max_seats: admission.dynamic, or "deny"
    JobKinds,    \* the jobs clients submit
    Faults,      \* the calls and the parts of the host that may fail
    MaxCrashes   \* bound: daemon crashes

AllJobs == {"release", "drop", "reset", "cancel", "export", "retry", "discard", "reconcile"}

AllFaults == {"create", "boot", "reset", "export", "teardown",
              "probe", "list", "vmstop", "vmvanish"}

ASSUME SchedulerAssumption ==
    /\ MaxSeats \in Nat
    /\ MinSeats \in Nat
    /\ MaxRetries \in Nat
    /\ HeldTtl \in BOOLEAN
    /\ Refusals \in BOOLEAN
    /\ JobKinds \subseteq AllJobs
    /\ Faults \subseteq AllFaults
    /\ MaxCrashes \in Nat

VARIABLES
    vm,         \* the domain named after each seat: none, off or running
    work,       \* the agent's work on the seat's overlay
    wish,       \* what the last decision about the seat's work was
    phase,
    todo,
    op,
    seen,       \* list_vms() as reconcile read it
    suspended,  \* the type is in _prewarm_suspended
    crashes

host == <<vm, work>>
worker == <<phase, todo, op, seen>>
vars == <<tables, vm, work, wish, phase, todo, op, seen, suspended, crashes>>

VmStates == {"none", "off", "running"}

\* What the provisioner may report of a VM: domstate can fail on its own.
Reports == VmStates \cup {"unknown"}

\* What is on the overlay.  "clean": nothing of an agent's; "unpushed": commits
\* that were not pushed; "abandoned": commits somebody decided to discard, by a
\* plain release, a cancel, a reset, a TTL, an eviction or a force_discard;
\* "lost": unpushed work the code destroyed although it had decided to export or
\* to preserve it.
WorkStates == {"clean", "unpushed", "abandoned", "pushed", "lost"}

\* "export": a release or a stasis with an export was begun; "preserve": a
\* stasis without one; "discard": any of the decisions that abandon the work.
Wishes == {"keep", "export", "preserve", "discard"}

Follow == [reconcile_orphans  |-> "reconcile_rows",
           reconcile_rows     |-> "reconcile_resume",
           reconcile_resume   |-> "resume_interrupted",
           resume_interrupted |-> "reap_errors",
           reap_errors        |-> "reap_held",
           reap_held          |-> "reclaim_expired",
           reclaim_expired    |-> "evict_idle",
           evict_idle         |-> "assign_idle",
           assign_idle        |-> "admit_waiting",
           admit_waiting      |-> "ensure_min",
           ensure_min         |-> "provision_queued",
           provision_queued   |-> "drain_jobs",
           drain_jobs         |-> "resume_interrupted"]

Phases == {"down", "reconcile_orphans", "reconcile_rows", "reconcile_resume",
           "resume_interrupted", "reap_errors", "reap_held", "reclaim_expired",
           "evict_idle", "assign_idle", "admit_waiting", "ensure_min",
           "provision_queued", "drain_jobs"}

\* From a start until the first resume_interrupted of the pump is over.
Starting == {"down", "reconcile_orphans", "reconcile_rows", "reconcile_resume",
             "resume_interrupted"}

Steps == {"idle", "claim", "export", "hold", "stop", "destroy", "close",
          "rebuild", "reboot", "reset_ok", "reset_failed", "discard",
          "create", "boot", "ready", "create_failed", "boot_failed", "reaped", "defined"}

Operation == [step   : Steps,
              seat   : Seats \cup {NoSeat},
              req    : Requests \cup {0},
              next   : Steps,                        \* what a teardown or an export returns to
              status : TerminalStatuses \cup {"null"},
              resume : BOOLEAN]                      \* reset_seat called by _resume_reset

Idle == [step |-> "idle", seat |-> NoSeat, req |-> 0, next |-> "idle",
         status |-> "null", resume |-> FALSE]

OpAt(step, s) == [Idle EXCEPT !.step = step, !.seat = s]

Claiming(r, s) == [Idle EXCEPT !.step = "claim", !.seat = s, !.req = r]

Closing(s, status) == [Idle EXCEPT !.step = "close", !.seat = s, !.status = status]

\* An export that a teardown follows if it succeeds.
Exporting(s, status) ==
    [Idle EXCEPT !.step = "export", !.seat = s, !.next = "stop", !.status = status]

Rebuilding(s, resume) == [Idle EXCEPT !.step = "rebuild", !.seat = s, !.resume = resume]

MoveTo(step) == [op EXCEPT !.step = step]

NoVms == [s \in Seats |-> "none"]

TypeOK ==
    /\ StoreTypeOK
    /\ vm \in [Seats -> VmStates]
    /\ work \in [Seats -> WorkStates]
    /\ wish \in [Seats -> Wishes]
    /\ phase \in Phases
    /\ todo \in SUBSET Seats
    /\ op \in Operation
    /\ op.step # "idle" => op.seat \in Seats
    /\ seen \in [Seats -> Reports]
    /\ suspended \in BOOLEAN
    /\ crashes \in Nat

Init ==
    /\ StoreInit
    /\ vm = NoVms
    /\ work = [s \in Seats |-> "clean"]
    /\ wish = [s \in Seats |-> "keep"]
    /\ phase = "down"
    /\ todo = {}
    /\ op = Idle
    /\ seen = NoVms
    /\ suspended = FALSE
    /\ crashes = 0

-----------------------------------------------------------------------------
(* Connection threads and the host. *)

\* submit_request: enqueue at the tail.
Submit(r, image) ==
    /\ phase # "down"
    /\ NextRequestId(r)
    /\ request' = [request EXCEPT ![r] = [AbsentRequest EXCEPT !.status = "waiting",
                                                               !.image = image]]
    /\ UNCHANGED <<seat, lease, host, wish, worker, suspended, crashes>>

\* heartbeat: touch the active lease, however stale it already is.
Heartbeat(r) ==
    /\ phase # "down"
    /\ lease[r] = "stale"
    /\ lease' = [lease EXCEPT ![r] = "fresh"]
    /\ UNCHANGED <<seat, request, host, wish, worker, suspended, crashes>>

\* Time: the heartbeat window passes without a heartbeat.
LeaseLapses(r) ==
    /\ lease[r] = "fresh"
    /\ lease' = [lease EXCEPT ![r] = "stale"]
    /\ UNCHANGED <<seat, request, host, wish, worker, suspended, crashes>>

\* begin_work: the first live exec of a ready seat; the agent leaves work
\* behind on a VM that runs.
BeginWork(s) ==
    /\ phase # "down"
    /\ seat[s].state = "ready"
    /\ UpdateSeat(s, [seat[s] EXCEPT !.state = "busy"])
    /\ work' = [work EXCEPT ![s] = IF vm[s] = "running" THEN "unpushed" ELSE @]
    /\ UNCHANGED <<request, lease, vm, wish, worker, suspended, crashes>>

\* finish_work: the last live exec is over, the lease is kept.
FinishWork(s) ==
    /\ phase # "down"
    /\ seat[s].state = "busy"
    /\ UpdateSeat(s, [seat[s] EXCEPT !.state = "ready"])
    /\ UNCHANGED <<request, lease, host, wish, worker, suspended, crashes>>

\* clear_prewarm_backoff: the operator re-enables prewarm after a suspension.
ClearPrewarmBackoff ==
    /\ phase # "down"
    /\ suspended
    /\ suspended' = FALSE
    /\ UNCHANGED <<tables, host, wish, worker, crashes>>

\* A guest shuts down, or the host rebooted: the domain is defined, not running.
VmStops(s) ==
    /\ "vmstop" \in Faults
    /\ vm[s] = "running"
    /\ vm' = [vm EXCEPT ![s] = "off"]
    /\ UNCHANGED <<tables, work, wish, worker, suspended, crashes>>

\* Someone removes the domain behind the daemon's back, its overlay with it.
VmVanishes(s) ==
    /\ "vmvanish" \in Faults
    /\ vm[s] # "none"
    /\ vm' = [vm EXCEPT ![s] = "none"]
    /\ work' = [work EXCEPT ![s] = "clean"]
    /\ UNCHANGED <<tables, wish, worker, suspended, crashes>>

\* The daemon dies: the tables and the VMs stay, the worker's place is lost.
Crash ==
    /\ phase # "down"
    /\ crashes < MaxCrashes
    /\ crashes' = crashes + 1
    /\ phase' = "down"
    /\ todo' = {}
    /\ op' = Idle
    /\ seen' = NoVms
    /\ suspended' = FALSE
    /\ UNCHANGED <<tables, host, wish>>

-----------------------------------------------------------------------------
(* The worker's loop. *)

\* Mutant: a VM a row references counts as an orphan.
OrphansByName(vms) == {s \in Seats : /\ vms[s] # "none"
                                     /\ seat[s].state \notin {"queued", "provisioning"}}

\* VMs list_vms() reports that no row references and no in-flight row names.
Orphans(vms) == {s \in Seats : /\ vms[s] # "none"
                               /\ ~seat[s].vm
                               /\ seat[s].state \notin {"queued", "provisioning"}}

\* Mutants: only one of the two interrupted operations is resumed.
InterruptedReleaseOnly(s) == seat[s].state = "releasing" /\ seat[s].pending = "release"

InterruptedResetOnly(s) == seat[s].state = "resetting" /\ seat[s].vm

\* What a dead daemon left half done.
Interrupted(s) ==
    \/ seat[s].state = "releasing" /\ seat[s].pending = "release"
    \/ seat[s].state = "resetting" /\ seat[s].vm

\* A ready seat nobody leases, made from the image.
IdleSeats == {s \in Seats : seat[s].state = "ready" /\ ActiveLease(s) = {}}

Lowest(S) == {s \in S : \A t \in S : s <= t}

\* Mutant: eviction only when an idle seat of the head's image exists.
VictimsInverted ==
    IF \E r \in Requests : /\ NextWaiting(r)
                           /\ \E s \in IdleSeats : seat[s].image = request[r].image
    THEN Lowest(IdleSeats) ELSE {}

\* The idle seat to evict: there are idle seats, none of the head's image.
Victims ==
    IF \E r \in Requests : /\ NextWaiting(r)
                           /\ \A s \in IdleSeats : seat[s].image # request[r].image
    THEN Lowest(IdleSeats) ELSE {}

\* The seats a phase's first read selects.
Snapshot(p) ==
    CASE p \in {"resume_interrupted", "reconcile_resume"} -> {s \in Seats : Interrupted(s)}
      [] p = "reconcile_rows"   -> InState(SeatStates)
      [] p = "reap_errors"      -> InState({"error"})
      [] p = "reap_held"        -> IF HeldTtl THEN InState({"held"}) ELSE {}
      [] p = "reclaim_expired"  -> {s \in Seats : \E r \in ActiveLease(s) : lease[r] = "stale"}
      [] p = "evict_idle"       -> Victims
      [] p = "provision_queued" -> InState({"queued"})
      [] OTHER                  -> {}

Enter(p) == phase' = p /\ todo' = Snapshot(p)

\* The head and the first idle seat of its image.
Assignable(r, s) ==
    /\ NextWaiting(r)
    /\ s \in Lowest({t \in IdleSeats : seat[t].image = request[r].image})

\* Mutant: off by one.
AdmittedOneMore == CountOccupying <= MaxSeats

\* _admission_conn, the static bound.  The override and the free-RAM reading
\* can refuse a seat below it.
Admitted == CountOccupying < MaxSeats

Admissible(r, s) == Admitted /\ NextWaiting(r) /\ NextSeatId(s)

\* error rows count against the floor.
Prewarmable(s) ==
    /\ ~suspended
    /\ Cardinality(InState(Occupying \cup {"error"})) < MinSeats
    /\ Admitted
    /\ NextSeatId(s)

\* The loop of a phase goes on as long as it finds something to do, unless
\* admission refuses.
LoopOver(p) ==
    CASE p = "assign_idle"   -> ~\E r \in Requests, s \in Seats : Assignable(r, s)
      [] p = "admit_waiting" -> Refusals \/ ~\E r \in Requests, s \in Seats : Admissible(r, s)
      [] p = "ensure_min"    -> Refusals \/ ~\E s \in Seats : Prewarmable(s)
      [] OTHER               -> todo = {}

\* A phase with nothing left to do hands over to the next one.
Advance ==
    /\ phase # "down"
    /\ op = Idle
    /\ LoopOver(phase)
    /\ Enter(Follow[phase])
    /\ seen' = IF phase = "reconcile_resume" THEN NoVms ELSE seen
    /\ UNCHANGED <<tables, host, wish, op, suspended, crashes>>

\* s is the next seat of the snapshot of phase p.
Turn(p, s) == phase = p /\ op = Idle /\ s \in Lowest(todo)

Visited(s) == todo' = todo \ {s} /\ UNCHANGED <<phase, seen>>

\* A row that does not qualify any more, or not yet, is passed over.
PassOver(p, s) ==
    /\ Turn(p, s)
    /\ Visited(s)
    /\ UNCHANGED <<tables, host, wish, op, suspended, crashes>>

\* A worker step inside an operation: the phase and its snapshot stand still.
Within(step) == op.step = step /\ UNCHANGED <<phase, todo, seen, crashes>>

-----------------------------------------------------------------------------
(* Teardown and export, shared by every operation. *)

\* Mutant: a teardown that does not say of which seat.
TeardownOfNoSeat(s, next, status) ==
    [Idle EXCEPT !.step = "stop", !.next = next, !.status = status]

\* _safe_stop_destroy of seat s, then the step `next'.
Teardown(s, next, status) ==
    [Idle EXCEPT !.step = "stop", !.seat = s, !.next = next, !.status = status]

\* What becomes of the work on an overlay that is deleted.
Erased(s) ==
    CASE work[s] = "unpushed" /\ wish[s] \in {"export", "preserve"} -> "lost"
      [] work[s] \in {"pushed", "lost"} -> work[s]
      [] OTHER -> "clean"

Decide(s, decision) ==
    /\ wish' = [wish EXCEPT ![s] = decision]
    /\ work' = [work EXCEPT ![s] = IF decision = "discard" /\ @ = "unpushed"
                                   THEN "abandoned" ELSE @]

Continue == op' = IF op.next = "idle" THEN Idle ELSE MoveTo(op.next)

\* provisioner.stop; its failure is logged and ignored.
StopVm ==
    /\ Within("stop")
    /\ \/ vm' = [vm EXCEPT ![op.seat] = IF @ = "running" THEN "off" ELSE @]
       \/ "teardown" \in Faults /\ UNCHANGED vm
    /\ op' = MoveTo("destroy")
    /\ UNCHANGED <<tables, work, wish, suspended>>

\* provisioner.destroy: undefine the domain, then delete the overlay; a failure
\* of either half is ignored too.
DestroyVm ==
    /\ Within("destroy")
    /\ \/ /\ vm' = [vm EXCEPT ![op.seat] = "none"]
          /\ work' = [work EXCEPT ![op.seat] = Erased(op.seat)]
       \/ /\ "teardown" \in Faults
          /\ work' \in {work, [work EXCEPT ![op.seat] = Erased(op.seat)]}
          /\ UNCHANGED vm
    /\ Continue
    /\ UNCHANGED <<tables, wish, suspended>>

\* Mutant: the outcome of the export is not looked at.
ExportUnchecked ==
    /\ Within("export")
    /\ \E landed \in BOOLEAN :
        /\ landed => vm[op.seat] = "running"
        /\ ~landed => "export" \in Faults \/ vm[op.seat] # "running"
        /\ work' = [work EXCEPT ![op.seat] = IF landed /\ @ \in {"unpushed", "abandoned"}
                                            THEN "pushed" ELSE @]
        /\ op' = IF op.next # "stop" THEN Idle ELSE Teardown(op.seat, "close", op.status)
    /\ UNCHANGED <<tables, vm, wish, suspended>>

\* _export_locked: fetch, gate, push.  A failure may follow a push that landed.
Export ==
    /\ Within("export")
    /\ \E ok, landed \in BOOLEAN :
        /\ ok => landed
        /\ landed => vm[op.seat] = "running"
        /\ ~ok => "export" \in Faults \/ vm[op.seat] # "running"
        /\ work' = [work EXCEPT ![op.seat] = IF landed /\ @ \in {"unpushed", "abandoned"}
                                            THEN "pushed" ELSE @]
        /\ op' = IF op.next # "stop" THEN Idle
                 ELSE IF ok THEN Teardown(op.seat, "close", op.status)
                 ELSE MoveTo("hold")
    /\ UNCHANGED <<tables, vm, wish, suspended>>

-----------------------------------------------------------------------------
(* Release: intent, export or hold, teardown, close. *)

\* First transaction of _release_seat_locked.
BeginRelease(s, export, status, decision) ==
    IF seat[s].state = "off"
    THEN /\ CloseLease(s, status)
         /\ op' = Idle
         /\ UNCHANGED <<seat, wish, work>>
    ELSE /\ UpdateSeat(s, [seat[s] EXCEPT !.state = "releasing", !.pending = "release",
                                          !.export = export, !.status = status])
         /\ Decide(s, decision)
         /\ op' = CASE ~seat[s].vm -> Closing(s, status)
                    [] seat[s].vm /\ export -> Exporting(s, status)
                    [] OTHER -> Teardown(s, "close", status)
         /\ UNCHANGED <<request, lease>>

\* The export failed: the seat is held with its intent, the request failed.
Hold ==
    /\ Within("hold")
    /\ UpdateSeat(op.seat, [seat[op.seat] EXCEPT !.state = "held"])
    /\ CloseLease(op.seat, "failed")
    /\ op' = Idle
    /\ UNCHANGED <<host, wish, suspended>>

\* Last transaction of a release and of force_discard.
Close ==
    /\ Within("close")
    /\ UpdateSeat(op.seat, ClosedRow(seat[op.seat]))
    /\ CloseLease(op.seat, op.status)
    /\ wish' = [wish EXCEPT ![op.seat] = "keep"]
    /\ op' = Idle
    /\ UNCHANGED <<host, suspended>>

\* First transaction of force_discard: any state, the recorded intent is left alone.
BeginDiscard(s) ==
    /\ UpdateSeat(s, [seat[s] EXCEPT !.state = "releasing"])
    /\ Decide(s, "discard")
    /\ op' = IF seat[s].vm THEN Teardown(s, "close", "failed")
             ELSE Closing(s, "failed")
    /\ UNCHANGED <<request, lease>>

\* _resume_reset falls back to force_discard.
Discard ==
    /\ Within("discard")
    /\ BeginDiscard(op.seat)
    /\ UNCHANGED <<vm, suspended>>

-----------------------------------------------------------------------------
(* Reset: rebuild the overlay, boot, revalidate the reservation. *)

\* Mutant: no lease is read as no reservation to lose.
ReservationLiveUnleased(s) == \A r \in ActiveLease(s) : request[r].status \notin TerminalStatuses

\* _reservation_live
ReservationLive(s) ==
    IF ActiveLease(s) = {} THEN RequestsForSeat(s) = {}
    ELSE \A r \in ActiveLease(s) : request[r].status \notin TerminalStatuses

\* Mutant: a reset of a seat without a VM is not refused.
BeginResetUnchecked(s, resume) ==
    /\ seat[s].state # "absent"
    /\ UpdateSeat(s, [seat[s] EXCEPT !.state = "resetting", !.pending = "reset"])
    /\ Decide(s, "discard")
    /\ op' = Rebuilding(s, resume)
    /\ UNCHANGED <<request, lease>>

\* First transaction of reset_seat.
BeginReset(s, resume) ==
    /\ seat[s].vm
    /\ UpdateSeat(s, [seat[s] EXCEPT !.state = "resetting", !.pending = "reset"])
    /\ Decide(s, "discard")
    /\ op' = Rebuilding(s, resume)
    /\ UNCHANGED <<request, lease>>

\* First half of provisioner.reset: power off, discard the overlay, make a new one.
Rebuild ==
    /\ Within("rebuild")
    /\ \/ /\ vm[op.seat] # "none"
          /\ vm' = [vm EXCEPT ![op.seat] = "off"]
          /\ work' = [work EXCEPT ![op.seat] = Erased(op.seat)]
          /\ op' = MoveTo("reboot")
       \/ /\ "reset" \in Faults \/ vm[op.seat] = "none"
          /\ vm' \in {vm, [vm EXCEPT ![op.seat] = IF @ = "running" THEN "off" ELSE @]}
          /\ work' \in {work, [work EXCEPT ![op.seat] = Erased(op.seat)]}
          /\ op' = MoveTo("reset_failed")
    /\ UNCHANGED <<tables, wish, suspended>>

\* Second half: start and wait_ready.
Reboot ==
    /\ Within("reboot")
    /\ \/ /\ vm[op.seat] # "none"
          /\ vm' = [vm EXCEPT ![op.seat] = "running"]
          /\ op' = MoveTo("reset_ok")
       \/ /\ "reset" \in Faults \/ vm[op.seat] = "none"
          /\ vm' \in {vm, [vm EXCEPT ![op.seat] = IF @ = "off" THEN "running" ELSE @]}
          /\ op' = MoveTo("reset_failed")
    /\ UNCHANGED <<tables, work, wish, suspended>>

\* Final transaction of reset_seat: not resurrected unless still reserved.
ResetOk ==
    /\ Within("reset_ok")
    /\ IF seat[op.seat].state = "resetting" /\ ReservationLive(op.seat)
       THEN /\ UpdateSeat(op.seat, [seat[op.seat] EXCEPT !.state = "ready", !.pending = "none"])
            /\ op' = Idle
            /\ UNCHANGED <<request, lease>>
       ELSE /\ UpdateSeat(op.seat, [OffRow(seat[op.seat]) EXCEPT !.pending = "none"])
            /\ CloseLease(op.seat, "null")
            /\ op' = Teardown(op.seat, "idle", "null")
    /\ UNCHANGED <<host, wish, suspended>>

ResetFailed ==
    /\ Within("reset_failed")
    /\ UpdateSeat(op.seat, [seat[op.seat] EXCEPT !.state = "error", !.pending = "none"])
    /\ CloseLease(op.seat, "failed")
    /\ op' = IF op.resume THEN OpAt("discard", op.seat) ELSE Idle
    /\ UNCHANGED <<host, wish, suspended>>

-----------------------------------------------------------------------------
(* resume_interrupted. *)

\* _vm_state_for: reconcile passes its list; the pump probes with attach.  When
\* libvirt does not answer, dominfo fails and attach says absent; when only
\* domstate fails, or attach raises, the state is "unknown".
Probe(s) ==
    IF ~seat[s].vm THEN {"none"}
    ELSE IF phase = "reconcile_resume" THEN {seen[s]}
    ELSE {vm[s]} \cup (IF "probe" \in Faults THEN {"none", "unknown"} ELSE {})

\* A release whose VM looks gone or stopped is finalized, its VM destroyed;
\* one whose VM runs is run again from its export.
ResumeRelease(p, s) ==
    /\ Turn(p, s)
    /\ seat[s].state = "releasing"
    /\ \/ /\ \E state \in Probe(s) : state \notin {"running", "unknown"}
          /\ UpdateSeat(s, ClosedRow(seat[s]))
          /\ CloseLease(s, seat[s].status)
          /\ op' = IF seat[s].vm THEN Teardown(s, "idle", "null") ELSE Idle
          /\ UNCHANGED <<work, wish>>
       \/ /\ \E state \in Probe(s) : state \in {"running", "unknown"}
          /\ BeginRelease(s, seat[s].export, seat[s].status, wish[s])
    /\ Visited(s)
    /\ UNCHANGED <<vm, suspended, crashes>>

ResumeReset(p, s) ==
    /\ Turn(p, s)
    /\ seat[s].state = "resetting"
    /\ BeginReset(s, TRUE)
    /\ Visited(s)
    /\ UNCHANGED <<vm, suspended, crashes>>

-----------------------------------------------------------------------------
(* The other methods of pump(). *)

\* _reap_errors, up to its second transaction.
ReapError(s) ==
    /\ Turn("reap_errors", s)
    /\ op' = IF seat[s].vm THEN Teardown(s, "reaped", "null") ELSE OpAt("reaped", s)
    /\ Visited(s)
    /\ UNCHANGED <<tables, host, wish, suspended, crashes>>

\* Mutant: only a prewarm seat is ever closed.
ReapedPrewarmOnly ==
    LET s == op.seat
        prewarm == RequestsForSeat(s) = {}
        exhausted == prewarm /\ seat[s].attempts > MaxRetries
    IN
    /\ Within("reaped")
    /\ \/ /\ exhausted
          /\ UpdateSeat(s, OffRow(seat[s]))
          /\ CloseLease(s, "failed")
          /\ suspended' = TRUE
       \/ /\ prewarm /\ ~exhausted
          /\ UpdateSeat(s, [seat[s] EXCEPT !.state = "queued", !.vm = FALSE])
          /\ UNCHANGED <<request, lease, suspended>>
       \/ /\ ~exhausted
          /\ UNCHANGED <<tables, suspended>>
    /\ op' = Idle
    /\ UNCHANGED <<host, wish>>

\* Its second transaction.  A prewarm seat no request ever claimed is retried
\* once its backoff is over, until its attempts run out; any other is closed.
Reaped ==
    LET s == op.seat
        prewarm == RequestsForSeat(s) = {}
        exhausted == prewarm /\ seat[s].attempts > MaxRetries
    IN
    /\ Within("reaped")
    /\ \/ /\ exhausted \/ ~prewarm
          /\ UpdateSeat(s, OffRow(seat[s]))
          /\ CloseLease(s, "failed")
          /\ suspended' = (suspended \/ exhausted)
       \/ /\ prewarm /\ ~exhausted
          /\ UpdateSeat(s, [seat[s] EXCEPT !.state = "queued", !.vm = FALSE])
          /\ UNCHANGED <<request, lease, suspended>>
       \/ /\ prewarm /\ ~exhausted   \* still inside the backoff window
          /\ UNCHANGED <<tables, suspended>>
    /\ op' = Idle
    /\ UNCHANGED <<host, wish>>

\* _reap_held: the TTL of a held seat is over.
ReapHeld(s) ==
    /\ Turn("reap_held", s)
    /\ BeginRelease(s, FALSE, "expired", "discard")
    /\ Visited(s)
    /\ UNCHANGED <<vm, suspended, crashes>>

\* Mutant: a seat that runs execs is not reclaimed.
LeaseDeadUnlessBusy(s) ==
    seat[s].state # "busy" /\ \A r \in ActiveLease(s) : lease[r] = "stale"

\* _stasis_seat_locked: liveness is read again inside the transaction.
LeaseDead(s) == \A r \in ActiveLease(s) : lease[r] = "stale"

Reclaim(s) ==
    /\ Turn("reclaim_expired", s)
    /\ seat[s].state \notin {"off", "held"}
    /\ LeaseDead(s)
    /\ IF seat[s].vm
       THEN /\ UpdateSeat(s, [seat[s] EXCEPT !.state = "held", !.pending = "release",
                                             !.export = seat[s].intent,
                                             !.status = "expired"])
            /\ wish' = [wish EXCEPT ![s] = IF seat[s].intent THEN "export" ELSE "preserve"]
            /\ op' = IF seat[s].intent THEN OpAt("export", s) ELSE Idle
       ELSE /\ UpdateSeat(s, [ClosedRow(seat[s]) EXCEPT !.intent = FALSE])
            /\ UNCHANGED <<wish, op>>
    /\ CloseLease(s, "expired")
    /\ Visited(s)
    /\ UNCHANGED <<host, suspended, crashes>>

\* _evict_idle_for_head: the victim is checked again before its release.
Evict(s) ==
    /\ Turn("evict_idle", s)
    /\ s \in IdleSeats
    /\ BeginRelease(s, FALSE, "null", "discard")
    /\ Visited(s)
    /\ UNCHANGED <<vm, suspended, crashes>>

\* _assign_idle reads the head and an idle seat in one transaction ...
PickIdle(r, s) ==
    /\ phase = "assign_idle"
    /\ op = Idle
    /\ Assignable(r, s)
    /\ op' = Claiming(r, s)
    /\ UNCHANGED <<tables, host, wish, phase, todo, seen, suspended, crashes>>

\* ... and claims in a second one, which checks the seat again; a seat that
\* changed ends the loop.
AssignIdle ==
    /\ op.step = "claim"
    /\ IF op.seat \in IdleSeats
       THEN /\ ClaimFor(op.req, op.seat)
            /\ UNCHANGED <<phase, todo>>
       ELSE /\ Enter("admit_waiting")
            /\ UNCHANGED <<request, lease>>
    /\ op' = Idle
    /\ UNCHANGED <<seat, host, wish, seen, suspended, crashes>>

\* _admit_waiting: a new queued row, claimed and leased in one transaction.
AdmitWaiting(r, s) ==
    /\ phase = "admit_waiting"
    /\ op = Idle
    /\ Admissible(r, s)
    /\ UpdateSeat(s, NewRow(request[r].image))
    /\ ClaimFor(r, s)
    /\ UNCHANGED <<host, wish, worker, suspended, crashes>>

\* _ensure_min.
Prewarm(s) ==
    /\ phase = "ensure_min"
    /\ op = Idle
    /\ Prewarmable(s)
    /\ UpdateSeat(s, NewRow(DefaultImage))
    /\ UNCHANGED <<request, lease, host, wish, worker, suspended, crashes>>

\* _provision_queued and _do_provision.
Provision(s) ==
    /\ Turn("provision_queued", s)
    /\ UpdateSeat(s, [seat[s] EXCEPT !.state = "provisioning"])
    /\ op' = OpAt("create", s)
    /\ Visited(s)
    /\ UNCHANGED <<request, lease, host, wish, suspended, crashes>>

\* create_from_image refuses a domain that exists; a failure after the define
\* leaves the domain behind without a vm_ref.
Create ==
    /\ Within("create")
    /\ \/ /\ vm[op.seat] = "none"
          /\ vm' = [vm EXCEPT ![op.seat] = "off"]
          /\ op' = MoveTo("boot")
       \/ /\ "create" \in Faults \/ vm[op.seat] # "none"
          /\ vm' \in {vm, [vm EXCEPT ![op.seat] = IF @ = "none" THEN "off" ELSE @]}
          /\ op' = MoveTo("create_failed")
    /\ UNCHANGED <<tables, work, wish, suspended>>

\* apply_resource_limits, start, wait_ready.
Boot ==
    /\ Within("boot")
    /\ \/ /\ vm[op.seat] # "none"
          /\ vm' = [vm EXCEPT ![op.seat] = "running"]
          /\ op' = MoveTo("ready")
       \/ /\ "boot" \in Faults \/ vm[op.seat] = "none"
          /\ vm' \in {vm, [vm EXCEPT ![op.seat] = IF @ = "off" THEN "running" ELSE @]}
          /\ op' = Teardown(op.seat, "boot_failed", "null")
    /\ UNCHANGED <<tables, work, wish, suspended>>

\* The VM is up: ready, unless the reservation is gone.
Provisioned ==
    /\ Within("ready")
    /\ IF seat[op.seat].state = "provisioning" /\ ReservationLive(op.seat)
       THEN /\ UpdateSeat(op.seat, [seat[op.seat] EXCEPT !.state = "ready", !.vm = TRUE])
            /\ op' = Idle
       ELSE /\ UpdateSeat(op.seat, OffRow(seat[op.seat]))
            /\ op' = Teardown(op.seat, "idle", "null")
    /\ UNCHANGED <<request, lease, host, wish, suspended>>

\* vm_ref is known once create_from_image returned.
ProvisionFailed ==
    \E step \in {"create_failed", "boot_failed"} :
        /\ Within(step)
        /\ UpdateSeat(op.seat, [seat[op.seat] EXCEPT !.state = "error",
                                                     !.vm = (step = "boot_failed"),
                                                     !.attempts = @ + 1])
        /\ CloseLease(op.seat, "failed")
        /\ op' = Idle
        /\ UNCHANGED <<host, wish, suspended>>

-----------------------------------------------------------------------------
(* Jobs the worker drains after a pump. *)

Draining(kind) == phase = "drain_jobs" /\ op = Idle /\ kind \in JobKinds

Job == UNCHANGED <<vm, phase, todo, seen, suspended, crashes>>

Inserted(s) == seat[s].state # "absent"

\* release_seat with an export to a repo.
JobRelease(s) ==
    Draining("release") /\ Inserted(s) /\ BeginRelease(s, TRUE, "done", "export") /\ Job

\* release_seat without an export, or without a repo to export to.
JobDrop(s) ==
    Draining("drop") /\ Inserted(s) /\ BeginRelease(s, FALSE, "done", "discard") /\ Job

JobReset(s) == Draining("reset") /\ BeginReset(s, FALSE) /\ Job

\* cancel_request: a claimed request takes the release path.
JobCancel(r) ==
    /\ Draining("cancel")
    /\ \/ /\ request[r].status = "waiting"
          /\ request' = [request EXCEPT ![r].status = "cancelled"]
          /\ UNCHANGED <<seat, lease, work, wish, op>>
       \/ /\ request[r].status = "claimed"
          /\ request[r].seat # NoSeat
          /\ BeginRelease(request[r].seat, FALSE, "cancelled", "discard")
    /\ Job

\* export_seat: the destination becomes the seat's durable export intent.
JobExport(s) ==
    /\ Draining("export")
    /\ seat[s].vm
    /\ UpdateSeat(s, [seat[s] EXCEPT !.intent = TRUE])
    /\ wish' = [wish EXCEPT ![s] = IF @ = "discard" THEN "keep" ELSE @]
    /\ op' = OpAt("export", s)
    /\ UNCHANGED <<request, lease, work>>
    /\ Job

\* retry_release: the persisted intent is run again.
JobRetry(s) ==
    /\ Draining("retry")
    /\ seat[s].pending = "release"
    /\ BeginRelease(s, seat[s].export, seat[s].status,
                    IF seat[s].export THEN "export" ELSE "discard")
    /\ Job

JobDiscard(s) == Draining("discard") /\ Inserted(s) /\ BeginDiscard(s) /\ Job

-----------------------------------------------------------------------------
(* reconcile: on start, and as a job. *)

\* list_vms: domains that exist are listed, each with its own domstate.
Listed(s) == {vm[s]} \cup (IF "probe" \in Faults /\ vm[s] # "none" THEN {"unknown"} ELSE {})

BeginReconcile ==
    /\ seen' \in {f \in [Seats -> Reports] : \A s \in Seats : f[s] \in Listed(s)}
    /\ phase' = "reconcile_orphans"
    /\ todo' = Orphans(vm)
    /\ UNCHANGED <<tables, host, wish, op, suspended, crashes>>

Start == phase = "down" /\ BeginReconcile

\* list_vms raised: the start goes on without a reconcile.
StartUnreconciled ==
    /\ phase = "down"
    /\ "list" \in Faults
    /\ Enter("resume_interrupted")
    /\ UNCHANGED <<tables, host, wish, op, seen, suspended, crashes>>

JobReconcile == Draining("reconcile") /\ BeginReconcile

DestroyOrphan(s) ==
    /\ Turn("reconcile_orphans", s)
    /\ op' = Teardown(s, "idle", "null")
    /\ Visited(s)
    /\ UNCHANGED <<tables, host, wish, suspended, crashes>>

\* The state of the VM a row references.
Known(s) == IF seat[s].vm THEN seen[s] ELSE "none"

\* A running in-flight VM is adopted.
Adopts(s) == seat[s].state = "provisioning" /\ seen[s] = "running"

\* A crash between create_from_image and start.
DefinedOnly(s) ==
    seat[s].state = "provisioning" /\ ~seat[s].vm /\ seen[s] \notin {"none", "running"}

\* An interrupted reset with its VM is left to resume_interrupted.
IsDead(s) ==
    \/ seat[s].state \in {"ready", "busy", "provisioning"} /\ seat[s].vm /\ seen[s] # "running"
    \/ seat[s].state = "resetting" /\ seat[s].vm /\ seen[s] = "none"
    \/ seat[s].state = "provisioning" /\ ~seat[s].vm /\ seen[s] = "none"

IsGone(s) ==
    \/ seat[s].state \in {"releasing", "held"} /\ Known(s) = "none"
    \/ seat[s].state = "resetting" /\ ~seat[s].vm

AdoptRunning(s) ==
    /\ Turn("reconcile_rows", s)
    /\ Adopts(s)
    /\ UpdateSeat(s, [seat[s] EXCEPT !.state = "ready", !.vm = TRUE])
    /\ Visited(s)
    /\ UNCHANGED <<request, lease, host, wish, op, suspended, crashes>>

DestroyDefined(s) ==
    /\ Turn("reconcile_rows", s)
    /\ DefinedOnly(s)
    /\ op' = Teardown(s, "defined", "null")
    /\ Visited(s)
    /\ UNCHANGED <<tables, host, wish, suspended, crashes>>

DefinedDestroyed ==
    /\ Within("defined")
    /\ UpdateSeat(op.seat, [seat[op.seat] EXCEPT !.state = "error", !.vm = TRUE])
    /\ CloseLease(op.seat, "failed")
    /\ op' = Idle
    /\ UNCHANGED <<host, wish, suspended>>

ErrorDead(s) ==
    /\ Turn("reconcile_rows", s)
    /\ IsDead(s)
    /\ UpdateSeat(s, [seat[s] EXCEPT !.state = "error"])
    /\ CloseLease(s, "failed")
    /\ Visited(s)
    /\ UNCHANGED <<host, wish, op, suspended, crashes>>

CloseGone(s) ==
    /\ Turn("reconcile_rows", s)
    /\ IsGone(s)
    /\ UpdateSeat(s, ClosedRow(seat[s]))
    /\ CloseLease(s, "failed")
    /\ Visited(s)
    /\ UNCHANGED <<host, wish, op, suspended, crashes>>

-----------------------------------------------------------------------------
(* Passing over: the conditions under which a phase skips a seat. *)

SkipReconciled(s) ==
    ~(Adopts(s) \/ DefinedOnly(s) \/ IsDead(s) \/ IsGone(s)) /\ PassOver("reconcile_rows", s)

\* The TTL is not over yet.
SkipHeld(s) == PassOver("reap_held", s)

\* A heartbeat landed between the scan and the transaction.
SkipReclaim(s) ==
    (~LeaseDead(s) \/ seat[s].state \in {"off", "held"}) /\ PassOver("reclaim_expired", s)

\* An exec made the victim busy between the scan and the lock.
SkipEvict(s) == s \notin IdleSeats /\ PassOver("evict_idle", s)

Skip(s) == SkipReconciled(s) \/ SkipHeld(s) \/ SkipReclaim(s) \/ SkipEvict(s)

-----------------------------------------------------------------------------

ClientNext ==
    \/ \E r \in Requests, image \in Images : Submit(r, image)
    \/ \E r \in Requests : Heartbeat(r)
    \/ \E s \in Seats : BeginWork(s) \/ FinishWork(s)
    \/ ClearPrewarmBackoff

HostNext ==
    \/ \E r \in Requests : LeaseLapses(r)
    \/ \E s \in Seats : VmStops(s) \/ VmVanishes(s)
    \/ Crash

\* The steps of an operation that is under way.
OpNext ==
    \/ StopVm \/ DestroyVm \/ Export \/ Hold \/ Close \/ Discard
    \/ Rebuild \/ Reboot \/ ResetOk \/ ResetFailed
    \/ Create \/ Boot \/ Provisioned \/ ProvisionFailed
    \/ Reaped \/ AssignIdle \/ DefinedDestroyed

ReconcileNext ==
    \/ Start \/ StartUnreconciled
    \/ \E s \in Seats : \/ DestroyOrphan(s) \/ AdoptRunning(s) \/ DestroyDefined(s)
                        \/ ErrorDead(s) \/ CloseGone(s)

PumpNext ==
    \/ Advance
    \/ \E p \in {"resume_interrupted", "reconcile_resume"}, s \in Seats :
           ResumeRelease(p, s) \/ ResumeReset(p, s)
    \/ \E s \in Seats : \/ ReapError(s) \/ ReapHeld(s) \/ Reclaim(s) \/ Evict(s)
                        \/ Provision(s) \/ Prewarm(s) \/ Skip(s)
    \/ \E r \in Requests, s \in Seats : PickIdle(r, s) \/ AdmitWaiting(r, s)

JobNext ==
    \/ \E s \in Seats : \/ JobRelease(s) \/ JobDrop(s) \/ JobReset(s)
                        \/ JobExport(s) \/ JobRetry(s) \/ JobDiscard(s)
    \/ \E r \in Requests : JobCancel(r)
    \/ JobReconcile

WorkerNext == OpNext \/ ReconcileNext \/ PumpNext

Next == ClientNext \/ HostNext \/ WorkerNext \/ JobNext

Spec == Init /\ [][Next]_vars

-----------------------------------------------------------------------------
(* Invariants. *)

\* A request is claimed exactly while its lease is active: whatever closes one
\* closes the other in the same transaction, so that no request is left dangling.
ClaimedIffLeased ==
    \A r \in Requests : request[r].status = "claimed" <=> lease[r] \in {"fresh", "stale"}

\* A lease never outlives the seat: only a seat that is being prepared, is in
\* use or is being released carries one, and never two.
LeasedSeatLives ==
    \A s \in Seats : ActiveLease(s) # {} =>
        /\ seat[s].state \in {"queued", "provisioning", "ready", "busy",
                             "resetting", "releasing"}
        /\ \A q, r \in ActiveLease(s) : q = r

\* A VM one agent worked on is never handed to another: a seat serves at most
\* one request over its whole life, whatever resets and retries it goes through.
SeatServesOneRequest ==
    \A q, r \in Requests : request[q].seat = request[r].seat /\ request[q].seat # NoSeat => q = r

\* A row an agent or an operator acts on still names its VM.
UsableSeatHasVm ==
    \A s \in Seats : seat[s].state \in {"ready", "busy", "resetting", "held"} => seat[s].vm

\* A seat that served a request and is still usable is leased: it is in use, or
\* being prepared for the request it was claimed for.
ServedSeatIsLeased ==
    \A s \in Seats :
        /\ seat[s].state \in {"queued", "provisioning", "ready", "busy"}
        /\ RequestsForSeat(s) # {}
        => ActiveLease(s) # {}

\* Rows nobody inserted are referenced by nobody, and ids go up.
IdsGoUp ==
    /\ \A s \in Seats : seat[s].state = "absent" => RequestsForSeat(s) = {}
    /\ \A r, q \in Requests : request[r].status = "absent" /\ r <= q => request[q].status = "absent"
    /\ \A r \in Requests : request[r].status = "absent" => request[r].seat = NoSeat

\* The head picked for an idle seat is still the head when it is claimed.
PickedIsHead == op.step = "claim" => op.req \in Requests /\ NextWaiting(op.req)

\* What an operation under way will still do to the row of its seat.
Stage == CASE op.step \in {"stop", "destroy"} -> op.next
           [] op.step = "export" -> IF op.next = "stop" THEN "close" ELSE "idle"
           [] OTHER -> op.step

\* Between two steps of an operation nobody else writes the row it works on, and
\* one that will close the row leaving the request as it is finds no lease there.
OperationOwnsRow ==
    /\ op.step \in {"stop", "destroy"} =>
           op.next \in {"idle", "close", "boot_failed", "reaped", "defined"}
    /\ Stage \in {"create", "boot", "ready", "create_failed", "boot_failed", "defined"} =>
           seat[op.seat].state = "provisioning"
    /\ Stage \in {"rebuild", "reboot", "reset_ok", "reset_failed"} =>
           seat[op.seat].state = "resetting"
    /\ Stage = "reaped" => seat[op.seat].state = "error"
    /\ Stage \in {"close", "hold"} =>
           /\ seat[op.seat].state = "releasing"
           /\ op.status = "null" => ActiveLease(op.seat) = {}

\* A snapshot is not stale when a seat's turn comes: what the pump selected the
\* seat for still holds, though operations on other seats ran in between.
SnapshotStands ==
    /\ phase = "down" => op = Idle
    /\ op.step # "idle" => op.seat \notin todo
    /\ phase \in {"assign_idle", "admit_waiting", "ensure_min", "drain_jobs"} => todo = {}
    /\ phase = "reap_errors" => \A s \in todo : seat[s].state = "error"
    /\ phase = "provision_queued" => \A s \in todo : seat[s].state = "queued"
    /\ phase \in {"resume_interrupted", "reconcile_resume"} =>
           \A s \in todo : seat[s].state = "releasing" => seat[s].pending = "release"

\* A recorded release belongs to a seat nobody can be assigned to, and one that
\* keeps its request's status (an eviction) to a seat nobody leases.
PendingReleaseStands ==
    \A s \in Seats : seat[s].pending = "release" =>
        /\ seat[s].state \in {"releasing", "held"}
        /\ seat[s].status = "null" => ActiveLease(s) = {}

\* What makes the claims of the scheduler right, as one inductive invariant.
ReservationInv ==
    /\ ClaimedIffLeased
    /\ LeasedSeatLives
    /\ SeatServesOneRequest
    /\ ServedSeatIsLeased
    /\ IdsGoUp
    /\ PickedIsHead
    /\ OperationOwnsRow
    /\ SnapshotStands
    /\ PendingReleaseStands

\* Work that a release or a stasis decided to export or to preserve is never
\* destroyed before it was pushed or the operator decided otherwise.
NoDecidedWorkLost == \A s \in Seats : work[s] # "lost"

\* attention_seat_ids
NeedsAttention(s) ==
    \/ seat[s].state = "held"
    \/ seat[s].state \in {"releasing", "resetting"} /\ seat[s].pending = "none" /\ seat[s].vm

\* Once the worker is past its recovery, a seat in a transient state is the one
\* it is working on, or it is surfaced to the operator: nothing is stuck silently.
NothingStuckSilently ==
    phase \notin Starting =>
        \A s \in Seats : seat[s].state \in {"provisioning", "resetting", "releasing"} =>
            op.seat = s \/ NeedsAttention(s)

\* What PoolStatus.needs_attention promises: past the recovery, a release or a
\* reset nobody is working on, whose intent was not recovered, is surfaced.
UnrecoveredSurfaced ==
    phase \notin Starting =>
        \A s \in Seats : seat[s].state \in {"resetting", "releasing"} =>
            op.seat = s \/ NeedsAttention(s)

\* The static bound of admission.
WithinCapacity == CountOccupying <= MaxSeats

-----------------------------------------------------------------------------
(* Action properties. *)

\* A discard destroys, it never exports.
DiscardNeverExports ==
    [][\A s \in Seats : work[s] = "abandoned" /\ work'[s] = "pushed" => wish[s] # "discard"]_vars

\* Stasis keeps the VM for the operator: a held seat only leaves by a release,
\* a discard or its TTL, or because its VM is gone.
HeldUntilReleased ==
    [][\A s \in Seats : seat[s].state = "held" =>
            seat'[s].state \in {"held", "releasing", "off"}]_vars

\* The worker destroys a VM only when its row is condemned or never was ready: a
\* list or a scan that is out of date never costs a live or a held seat its VM.
OnlyCondemnedVmsDestroyed ==
    [][\A s \in Seats : op' # op /\ vm[s] # "none" /\ vm'[s] = "none" =>
            seat[s].state \in {"releasing", "off", "error", "provisioning"}]_vars

-----------------------------------------------------------------------------
(* What the pool promises, and liveness. *)

Pool == INSTANCE Reservations WITH
            Finals <- TerminalStatuses,
            status <- [r \in Requests |-> request[r].status],
            holder <- [r \in Requests |-> request[r].seat],
            leased <- {r \in Requests : lease[r] \in {"fresh", "stale"}}

\* The scheduler's tables implement the pool's promise to the agents: FIFO
\* claims of seats nobody used before, a lease and its request that end together.
Promise == Pool!Spec

\* The worker thread ticks for ever; agents, operators and the host owe nothing.
FairSpec == Spec /\ WF_vars(WorkerNext)

\* A seat that is being prepared, reset or released reaches a state somebody
\* can act on, whatever fails on the way: capacity is never held for ever.
TransientSettles ==
    \A s \in Seats :
        seat[s].state \in {"queued", "provisioning", "resetting", "releasing"}
            ~> seat[s].state \in {"off", "ready", "busy", "held", "error"}

\* A lease whose heartbeats stopped is closed, unless a heartbeat comes after all.
DeadLeaseReclaimed == \A r \in Requests : lease[r] = "stale" ~> lease[r] # "stale"

\* A prewarm seat of another image does not block the head of the queue for
\* ever, unless somebody runs execs on that seat without a lease, or the bound on
\* the history of rows is reached.
HeadServed ==
    \A r \in Requests :
        NextWaiting(r) /\ MaxSeats > Cardinality({q \in Requests : request[q].status = "claimed"})
            ~> \/ request[r].status # "waiting"
               \/ \E s \in Seats : seat[s].state = "busy" /\ ActiveLease(s) = {}
               \/ InState({"absent"}) = {}

\* A failed seat somebody had claimed is closed out: it is never handed out again.
FailedSeatClosed ==
    \A s \in Seats :
        seat[s].state = "error" /\ RequestsForSeat(s) # {}
            ~> seat[s].state \in {"off", "held", "releasing"}

=============================================================================
