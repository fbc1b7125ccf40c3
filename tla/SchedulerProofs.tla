--------------------------- MODULE SchedulerProofs --------------------------
(***************************************************************************)
(* Type correctness of Scheduler.tla: one lemma per group of actions, and  *)
(* lemmas about the row and operation values the actions write.  Then      *)
(* ReservationInv, which is inductive relative to TypeOK, and from it the  *)
(* refinement of Reservations.                                             *)
(***************************************************************************)
EXTENDS Scheduler, TLAPS

\* Every operation the scheduler starts is an Operation on the seat it names.
LEMMA OpTypes ==
    /\ Idle \in Operation
    /\ \A step \in Steps, s \in Seats : OpAt(step, s) \in Operation /\ OpAt(step, s).seat = s
    /\ \A s \in Seats, status \in TerminalStatuses \cup {"null"} :
           /\ Closing(s, status) \in Operation /\ Closing(s, status).seat = s
           /\ Exporting(s, status) \in Operation /\ Exporting(s, status).seat = s
    /\ \A s \in Seats, resume \in BOOLEAN :
           Rebuilding(s, resume) \in Operation /\ Rebuilding(s, resume).seat = s
    /\ \A s \in Seats, r \in Requests :
           Claiming(r, s) \in Operation /\ Claiming(r, s).seat = s
    /\ \A next \in Steps, s \in Seats, status \in TerminalStatuses \cup {"null"} :
           Teardown(s, next, status) \in Operation /\ Teardown(s, next, status).seat = s
<1> USE DEF Operation, NoSeat, Idle
<1>1. {"idle", "stop", "close", "claim", "export", "rebuild"} \subseteq Steps
  BY DEF Steps
<1>2. Idle \in Operation
  BY <1>1
<1>3. ASSUME NEW step \in Steps, NEW s \in Seats
      PROVE  OpAt(step, s) \in Operation /\ OpAt(step, s).seat = s
  BY <1>1 DEF OpAt
<1>4. ASSUME NEW s \in Seats, NEW status \in TerminalStatuses \cup {"null"}
      PROVE  /\ Closing(s, status) \in Operation /\ Closing(s, status).seat = s
             /\ Exporting(s, status) \in Operation /\ Exporting(s, status).seat = s
  BY <1>1 DEF Closing, Exporting
<1>5. ASSUME NEW s \in Seats, NEW resume \in BOOLEAN
      PROVE  Rebuilding(s, resume) \in Operation /\ Rebuilding(s, resume).seat = s
  BY <1>1 DEF Rebuilding
<1>6. ASSUME NEW s \in Seats, NEW r \in Requests
      PROVE  Claiming(r, s) \in Operation /\ Claiming(r, s).seat = s
  BY <1>1 DEF Claiming
<1>7. ASSUME NEW next \in Steps, NEW s \in Seats, NEW status \in TerminalStatuses \cup {"null"}
      PROVE  Teardown(s, next, status) \in Operation /\ Teardown(s, next, status).seat = s
  BY <1>1 DEF Teardown
<1> HIDE DEF Operation, NoSeat, Idle
<1> QED BY <1>2, <1>3, <1>4, <1>5, <1>6, <1>7

\* A step of an operation moves on to another step of the same seat.
LEMMA MoveToType ==
    ASSUME op \in Operation, NEW step \in Steps
    PROVE  MoveTo(step) \in Operation /\ MoveTo(step).seat = op.seat
BY DEF Operation, MoveTo

\* The row values the closing paths write are seat rows.
LEMMA RowTypes ==
    ASSUME NEW row \in SeatRow
    PROVE  /\ OffRow(row) \in SeatRow
           /\ ClosedRow(row) \in SeatRow
           /\ \A x \in SeatStates : [row EXCEPT !.state = x] \in SeatRow
           /\ [row EXCEPT !.intent = TRUE] \in SeatRow
           /\ [OffRow(row) EXCEPT !.pending = "none"] \in SeatRow
           /\ [ClosedRow(row) EXCEPT !.intent = FALSE] \in SeatRow
<1>1. OffRow(row) \in SeatRow /\ ClosedRow(row) \in SeatRow
  BY DEF SeatRow, OffRow, ClosedRow, SeatStates
<1>2. \A x \in SeatStates : [row EXCEPT !.state = x] \in SeatRow
  BY DEF SeatRow
<1>3. \A u \in SeatRow : [u EXCEPT !.pending = "none"] \in SeatRow
  BY DEF SeatRow
<1>4. \A u \in SeatRow, b \in BOOLEAN : [u EXCEPT !.intent = b] \in SeatRow
  BY DEF SeatRow
<1> QED BY <1>1, <1>2, <1>3, <1>4

\* The rows the inserts write are seat and queue rows.
LEMMA NewRowTypes ==
    /\ AbsentSeat \in SeatRow
    /\ AbsentRequest \in QueueRow
    /\ \A image \in Images : NewRow(image) \in SeatRow
    BY StoreAssumption DEF SeatRow, QueueRow, AbsentSeat, AbsentRequest, NewRow, SeatStates, RequestStatuses, NoSeat

\* update_seat keeps the seats table typed.
LEMMA UpdateSeatType ==
    ASSUME StoreTypeOK, NEW s \in Seats, NEW row \in SeatRow, UpdateSeat(s, row)
    PROVE  seat' \in [Seats -> SeatRow]
    BY DEF StoreTypeOK, UpdateSeat

\* _close_lease keeps the queue and the lease table typed.
LEMMA CloseLeaseType ==
    ASSUME StoreTypeOK, NEW s \in Seats, NEW status \in TerminalStatuses \cup {"null"},
           CloseLease(s, status)
    PROVE  request' \in [Requests -> QueueRow] /\ lease' \in [Requests -> LeaseStates]
    BY DEF StoreTypeOK, CloseLease, QueueRow, LeaseStates, TerminalStatuses, RequestStatuses

\* Deleting an overlay leaves one of the work states.
LEMMA EraseType ==
    ASSUME NEW s \in Seats, work \in [Seats -> WorkStates]
    PROVE  Erased(s) \in WorkStates
    BY DEF Erased, WorkStates

\* The other row values the scheduler writes are seat rows.
LEMMA RowUpdates ==
    ASSUME NEW row \in SeatRow, NEW x \in SeatStates, NEW y \in {"none", "release", "reset"},
           NEW b \in BOOLEAN, NEW e \in BOOLEAN, NEW t \in TerminalStatuses \cup {"null"}
    PROVE  /\ [row EXCEPT !.state = x, !.pending = y] \in SeatRow
           /\ [row EXCEPT !.state = x, !.vm = b] \in SeatRow
           /\ [row EXCEPT !.state = x, !.pending = y, !.export = e, !.status = t] \in SeatRow
           /\ [row EXCEPT !.state = x, !.vm = b, !.attempts = @ + 1] \in SeatRow
<1> USE DEF SeatRow
<1>1. [row EXCEPT !.state = x, !.pending = y] \in SeatRow
  OBVIOUS
<1>2. [row EXCEPT !.state = x, !.vm = b] \in SeatRow
  OBVIOUS
<1>3. [row EXCEPT !.state = x, !.pending = y, !.export = e, !.status = t] \in SeatRow
  <2> DEFINE u == [row EXCEPT !.state = x, !.pending = y]
             v == [u EXCEPT !.export = e]
  <2>1. u \in SeatRow
    BY <1>1
  <2> HIDE DEF u
  <2>2. v \in SeatRow
    BY <2>1
  <2> HIDE DEF v
  <2>3. [v EXCEPT !.status = t] \in SeatRow
    BY <2>2
  <2> QED BY <2>3 DEF u, v
<1>4. [row EXCEPT !.state = x, !.vm = b, !.attempts = @ + 1] \in SeatRow
  <2> DEFINE u == [row EXCEPT !.state = x, !.vm = b]
  <2>1. u \in SeatRow /\ row.attempts + 1 \in Nat
    BY <1>2
  <2> HIDE DEF u
  <2>2. [u EXCEPT !.attempts = row.attempts + 1] \in SeatRow
    BY <2>1
  <2> QED BY <2>2 DEF u
<1> QED BY <1>1, <1>2, <1>3, <1>4

\* The first read of a pump method selects seats.
LEMMA SnapshotType == \A p : Snapshot(p) \in SUBSET Seats
    BY DEF Snapshot, InState, Victims, Lowest, IdleSeats

\* Every phase of the worker hands over to a phase.
LEMMA FollowType == \A p \in Phases \ {"down"} : Follow[p] \in Phases
    BY DEF Follow, Phases

\* The first transaction of _release_seat_locked is well typed.
LEMMA BeginReleaseType ==
    ASSUME TypeOK, NEW s \in Seats, NEW export \in BOOLEAN,
           NEW status \in TerminalStatuses \cup {"null"}, NEW decision \in Wishes,
           BeginRelease(s, export, status, decision)
    PROVE  /\ StoreTypeOK'
           /\ work' \in [Seats -> WorkStates]
           /\ wish' \in [Seats -> Wishes]
           /\ op' \in Operation
           /\ op'.step # "idle" => op'.seat \in Seats
<1>1. seat[s] \in SeatRow
  BY DEF TypeOK, StoreTypeOK
<1>2. CASE seat[s].state = "off"
  <2>1. CloseLease(s, status) /\ op' = Idle /\ UNCHANGED <<seat, wish, work>>
    BY <1>2 DEF BeginRelease
  <2>2. request' \in [Requests -> QueueRow] /\ lease' \in [Requests -> LeaseStates]
    BY <2>1, CloseLeaseType DEF TypeOK
  <2> QED BY <2>1, <2>2, OpTypes DEF TypeOK, StoreTypeOK, Idle
<1>3. CASE seat[s].state # "off"
  <2>1. seat' \in [Seats -> SeatRow]
    BY <1>1, <1>3, RowUpdates, UpdateSeatType DEF BeginRelease, TypeOK, SeatStates
  <2>2. work' \in [Seats -> WorkStates] /\ wish' \in [Seats -> Wishes]
    BY <1>3 DEF BeginRelease, Decide, TypeOK, WorkStates
  <2>3. op' \in Operation /\ op'.seat \in Seats
    <3>1. CASE ~seat[s].vm
      BY <1>3, <3>1, OpTypes DEF BeginRelease
    <3>2. CASE seat[s].vm /\ export
      BY <1>3, <3>2, OpTypes DEF BeginRelease
    <3>3. CASE seat[s].vm /\ ~export
      <4>1. "close" \in Steps
        BY DEF Steps
      <4> QED BY <1>3, <3>3, <4>1, OpTypes DEF BeginRelease
    <3> QED BY <3>1, <3>2, <3>3, <1>1 DEF SeatRow
  <2> QED BY <1>3, <2>1, <2>2, <2>3 DEF BeginRelease, TypeOK, StoreTypeOK
<1> QED BY <1>2, <1>3

\* The first transaction of reset_seat is well typed.
LEMMA BeginResetType ==
    ASSUME TypeOK, NEW s \in Seats, NEW resume \in BOOLEAN, BeginReset(s, resume)
    PROVE  /\ StoreTypeOK'
           /\ work' \in [Seats -> WorkStates]
           /\ wish' \in [Seats -> Wishes]
           /\ op' \in Operation
           /\ op'.step # "idle" => op'.seat \in Seats
<1>1. seat[s] \in SeatRow
  BY DEF TypeOK, StoreTypeOK
<1>2. seat' \in [Seats -> SeatRow]
  BY <1>1, RowUpdates, UpdateSeatType DEF BeginReset, TypeOK, SeatStates
<1>3. work' \in [Seats -> WorkStates] /\ wish' \in [Seats -> Wishes]
  BY DEF BeginReset, Decide, TypeOK, WorkStates, Wishes
<1>4. op' \in Operation /\ op'.seat \in Seats
  BY OpTypes DEF BeginReset
<1> QED BY <1>2, <1>3, <1>4 DEF BeginReset, TypeOK, StoreTypeOK

\* The first transaction of force_discard is well typed.
LEMMA BeginDiscardType ==
    ASSUME TypeOK, NEW s \in Seats, BeginDiscard(s)
    PROVE  /\ StoreTypeOK'
           /\ work' \in [Seats -> WorkStates]
           /\ wish' \in [Seats -> Wishes]
           /\ op' \in Operation
           /\ op'.step # "idle" => op'.seat \in Seats
<1>1. seat[s] \in SeatRow
  BY DEF TypeOK, StoreTypeOK
<1>2. seat' \in [Seats -> SeatRow]
  BY <1>1, RowTypes, UpdateSeatType DEF BeginDiscard, TypeOK, SeatStates
<1>3. work' \in [Seats -> WorkStates] /\ wish' \in [Seats -> Wishes]
  BY DEF BeginDiscard, Decide, TypeOK, WorkStates, Wishes
<1>4. Teardown(s, "close", "failed") \in Operation /\ Teardown(s, "close", "failed").seat = s
  BY OpTypes DEF Steps, TerminalStatuses
<1>5. Closing(s, "failed") \in Operation /\ Closing(s, "failed").seat = s
  BY OpTypes DEF TerminalStatuses
<1> QED BY <1>2, <1>3, <1>4, <1>5 DEF BeginDiscard, TypeOK, StoreTypeOK

\* The connection threads, the host and a crash keep the types.
LEMMA ClientType == TypeOK /\ (ClientNext \/ HostNext) => TypeOK'
<1> SUFFICES ASSUME TypeOK, ClientNext \/ HostNext PROVE TypeOK'
  OBVIOUS
<1> USE DEF TypeOK, StoreTypeOK, host, worker, tables
<1>1. ASSUME NEW r \in Requests, NEW image \in Images, Submit(r, image) PROVE TypeOK'
  <2>1. [AbsentRequest EXCEPT !.status = "waiting", !.image = image] \in QueueRow
    BY DEF AbsentRequest, QueueRow, RequestStatuses, NoSeat
  <2> QED BY <1>1, <2>1 DEF Submit
<1>2. ASSUME NEW r \in Requests, Heartbeat(r) \/ LeaseLapses(r) PROVE TypeOK'
  BY <1>2 DEF Heartbeat, LeaseLapses, LeaseStates
<1>3. ASSUME NEW s \in Seats, BeginWork(s) \/ FinishWork(s) PROVE TypeOK'
  <2>1. seat' \in [Seats -> SeatRow]
    BY <1>3, RowTypes, UpdateSeatType DEF BeginWork, FinishWork, SeatStates
  <2>2. work' \in [Seats -> WorkStates]
    BY <1>3 DEF BeginWork, FinishWork, WorkStates
  <2> QED BY <1>3, <2>1, <2>2 DEF BeginWork, FinishWork
<1>4. ASSUME NEW s \in Seats, VmStops(s) \/ VmVanishes(s) PROVE TypeOK'
  BY <1>4 DEF VmStops, VmVanishes, VmStates, WorkStates
<1>5. ASSUME ClearPrewarmBackoff PROVE TypeOK'
  BY <1>5 DEF ClearPrewarmBackoff
<1>6. ASSUME Crash PROVE TypeOK'
  <2>1. Idle \in Operation /\ Idle.step = "idle"
    BY OpTypes DEF Idle
  <2>2. NoVms \in [Seats -> Reports] /\ "down" \in Phases
    BY DEF NoVms, Reports, VmStates, Phases
  <2>3. crashes' \in Nat
    BY <1>6 DEF Crash
  <2> QED BY <1>6, <2>1, <2>2, <2>3 DEF Crash
<1> QED BY <1>1, <1>2, <1>3, <1>4, <1>5, <1>6 DEF ClientNext, HostNext

\* The steps of an operation under way keep the types.
LEMMA OpType == TypeOK /\ OpNext => TypeOK'
<1> SUFFICES ASSUME TypeOK, OpNext PROVE TypeOK'
  OBVIOUS
<1> USE DEF TypeOK, StoreTypeOK, host, worker, tables, Within
<1>0. op.seat \in Seats /\ seat[op.seat] \in SeatRow /\ Idle \in Operation /\ Idle.step = "idle"
  BY OpTypes DEF OpNext, StopVm, DestroyVm, Export, Hold, Close, Discard, Rebuild, Reboot,
     ResetOk, ResetFailed, Create, Boot, Provisioned, ProvisionFailed, Reaped, AssignIdle,
     DefinedDestroyed, Idle
<1>1. CASE StopVm
  <2>1. "destroy" \in Steps
    BY DEF Steps
  <2> QED BY <1>0, <1>1, <2>1, MoveToType DEF StopVm, VmStates
<1>2. CASE DestroyVm
  <2>1. op' \in Operation /\ (op'.step # "idle" => op'.seat \in Seats)
    <3>1. op.next \in Steps
      BY DEF Operation
    <3> QED BY <1>0, <1>2, <3>1, MoveToType DEF DestroyVm, Continue
  <2>2. work' \in [Seats -> WorkStates]
    BY <1>0, <1>2, EraseType DEF DestroyVm
  <2> QED BY <1>0, <1>2, <2>1, <2>2 DEF DestroyVm, VmStates
<1>3. CASE Export
  <2>1. op' \in Operation /\ (op'.step # "idle" => op'.seat \in Seats)
    <3>1. op.status \in TerminalStatuses \cup {"null"} /\ {"hold", "close"} \subseteq Steps
      BY DEF Operation, Steps
    <3> QED BY <1>0, <1>3, <3>1, MoveToType, OpTypes DEF Export
  <2>2. work' \in [Seats -> WorkStates]
    BY <1>0, <1>3 DEF Export, WorkStates
  <2> QED BY <1>3, <2>1, <2>2 DEF Export
<1>4. CASE Hold
  <2>1. seat' \in [Seats -> SeatRow]
    BY <1>0, <1>4, RowTypes, UpdateSeatType DEF Hold, SeatStates
  <2>2. request' \in [Requests -> QueueRow] /\ lease' \in [Requests -> LeaseStates]
    BY <1>0, <1>4, CloseLeaseType DEF Hold, TerminalStatuses
  <2> QED BY <1>0, <1>4, <2>1, <2>2 DEF Hold
<1>5. CASE Close
  <2>1. seat' \in [Seats -> SeatRow]
    BY <1>0, <1>5, RowTypes, UpdateSeatType DEF Close
  <2>2. request' \in [Requests -> QueueRow] /\ lease' \in [Requests -> LeaseStates]
    <3>1. op.status \in TerminalStatuses \cup {"null"}
      BY DEF Operation
    <3> QED BY <1>0, <1>5, <3>1, CloseLeaseType DEF Close
  <2> QED BY <1>0, <1>5, <2>1, <2>2 DEF Close, Wishes
<1>6. CASE Discard
  BY <1>0, <1>6, BeginDiscardType DEF Discard
<1>7. CASE Rebuild
  <2>1. {"reboot", "reset_failed"} \subseteq Steps
    BY DEF Steps
  <2>2. work' \in [Seats -> WorkStates]
    BY <1>0, <1>7, EraseType DEF Rebuild
  <2>3. op' \in Operation /\ op'.seat \in Seats
    BY <1>0, <1>7, <2>1, MoveToType DEF Rebuild
  <2> QED BY <1>0, <1>7, <2>2, <2>3 DEF Rebuild, VmStates
<1>8. CASE Reboot
  <2>1. {"reset_ok", "reset_failed"} \subseteq Steps
    BY DEF Steps
  <2> QED BY <1>0, <1>8, <2>1, MoveToType DEF Reboot, VmStates
<1>9. CASE ResetOk
  <2>1. CASE seat[op.seat].state = "resetting" /\ ReservationLive(op.seat)
    <3>1. seat' \in [Seats -> SeatRow]
      BY <1>0, <1>9, <2>1, RowUpdates, UpdateSeatType DEF ResetOk, SeatStates
    <3> QED BY <1>0, <1>9, <2>1, <3>1 DEF ResetOk
  <2>2. CASE ~(seat[op.seat].state = "resetting" /\ ReservationLive(op.seat))
    <3>1. seat' \in [Seats -> SeatRow]
      BY <1>0, <1>9, <2>2, RowTypes, UpdateSeatType DEF ResetOk
    <3>2. request' \in [Requests -> QueueRow] /\ lease' \in [Requests -> LeaseStates]
      BY <1>0, <1>9, <2>2, CloseLeaseType DEF ResetOk
    <3>3. op' \in Operation /\ op'.seat \in Seats
      BY <1>0, <1>9, <2>2, OpTypes DEF ResetOk, Steps
    <3> QED BY <1>0, <1>9, <3>1, <3>2, <3>3 DEF ResetOk
  <2> QED BY <2>1, <2>2
<1>10. CASE ResetFailed
  <2>1. seat' \in [Seats -> SeatRow]
    BY <1>0, <1>10, RowUpdates, UpdateSeatType DEF ResetFailed, SeatStates
  <2>2. request' \in [Requests -> QueueRow] /\ lease' \in [Requests -> LeaseStates]
    BY <1>0, <1>10, CloseLeaseType DEF ResetFailed, TerminalStatuses
  <2>3. op' \in Operation /\ (op'.step # "idle" => op'.seat \in Seats)
    BY <1>0, <1>10, OpTypes DEF ResetFailed, Steps
  <2> QED BY <1>10, <2>1, <2>2, <2>3 DEF ResetFailed
<1>11. CASE Create
  <2>1. {"boot", "create_failed"} \subseteq Steps
    BY DEF Steps
  <2> QED BY <1>0, <1>11, <2>1, MoveToType DEF Create, VmStates
<1>12. CASE Boot
  <2>1. {"ready", "boot_failed"} \subseteq Steps
    BY DEF Steps
  <2>2. op' \in Operation /\ op'.seat \in Seats
    BY <1>0, <1>12, <2>1, MoveToType, OpTypes DEF Boot
  <2> QED BY <1>0, <1>12, <2>2 DEF Boot, VmStates
<1>13. CASE Provisioned
  <2>1. seat' \in [Seats -> SeatRow]
    BY <1>0, <1>13, RowTypes, RowUpdates, UpdateSeatType DEF Provisioned, SeatStates
  <2>2. op' \in Operation /\ (op'.step # "idle" => op'.seat \in Seats)
    BY <1>0, <1>13, OpTypes DEF Provisioned, Steps
  <2> QED BY <1>13, <2>1, <2>2 DEF Provisioned
<1>14. CASE ProvisionFailed
  <2> PICK step \in {"create_failed", "boot_failed"} :
        /\ Within(step)
        /\ UpdateSeat(op.seat, [seat[op.seat] EXCEPT !.state = "error",
                                                     !.vm = (step = "boot_failed"),
                                                     !.attempts = @ + 1])
        /\ CloseLease(op.seat, "failed")
        /\ op' = Idle
        /\ UNCHANGED <<host, wish, suspended>>
    BY <1>14 DEF ProvisionFailed
  <2>1. seat' \in [Seats -> SeatRow]
    BY <1>0, RowUpdates, UpdateSeatType DEF SeatStates
  <2>2. request' \in [Requests -> QueueRow] /\ lease' \in [Requests -> LeaseStates]
    BY <1>0, CloseLeaseType DEF TerminalStatuses
  <2> QED BY <1>0, <2>1, <2>2
<1>15. CASE Reaped
  <2>1. seat' \in [Seats -> SeatRow]
    BY <1>0, <1>15, RowTypes, RowUpdates, UpdateSeatType DEF Reaped, SeatStates
  <2>2. request' \in [Requests -> QueueRow] /\ lease' \in [Requests -> LeaseStates]
    BY <1>0, <1>15, CloseLeaseType DEF Reaped, TerminalStatuses
  <2>3. suspended' \in BOOLEAN
    BY <1>15 DEF Reaped
  <2> QED BY <1>0, <1>15, <2>1, <2>2, <2>3 DEF Reaped
<1>16. CASE AssignIdle
  <2>1. ClaimFor(op.req, op.seat) => /\ request' \in [Requests -> QueueRow]
                                     /\ lease' \in [Requests -> LeaseStates]
    <3>1. \A q \in QueueRow : [q EXCEPT !.status = "claimed", !.seat = op.seat] \in QueueRow
      BY <1>0 DEF QueueRow, RequestStatuses
    <3>2. \A q \in Requests : [request[q] EXCEPT !.status = "claimed", !.seat = op.seat] \in QueueRow
      BY <3>1
    <3>3. CASE op.req \in Requests
      BY <3>2, <3>3 DEF ClaimFor, LeaseStates
    <3>4. CASE op.req \notin Requests
      <4>1. \A S, T, f, x, y : f \in [S -> T] /\ x \notin S => [f EXCEPT ![x] = y] \in [S -> T]
        OBVIOUS
      <4> HIDE DEF TypeOK, StoreTypeOK
      <4>2. request \in [Requests -> QueueRow] /\ lease \in [Requests -> LeaseStates]
        BY DEF TypeOK, StoreTypeOK
      <4> QED BY <3>4, <4>1, <4>2 DEF ClaimFor
    <3> QED BY <3>3, <3>4
  <2> QED BY <1>0, <1>16, <2>1, SnapshotType DEF AssignIdle, Enter, Phases
<1>17. CASE DefinedDestroyed
  <2>1. seat' \in [Seats -> SeatRow]
    BY <1>0, <1>17, RowUpdates, UpdateSeatType DEF DefinedDestroyed, SeatStates
  <2>2. request' \in [Requests -> QueueRow] /\ lease' \in [Requests -> LeaseStates]
    BY <1>0, <1>17, CloseLeaseType DEF DefinedDestroyed, TerminalStatuses
  <2> QED BY <1>0, <1>17, <2>1, <2>2 DEF DefinedDestroyed
<1> QED BY <1>1, <1>2, <1>3, <1>4, <1>5, <1>6, <1>7, <1>8, <1>9, <1>10, <1>11, <1>12, <1>13,
           <1>14, <1>15, <1>16, <1>17 DEF OpNext

\* reconcile keeps the types.
LEMMA ReconcileType == TypeOK /\ ReconcileNext => TypeOK'
<1> SUFFICES ASSUME TypeOK, ReconcileNext PROVE TypeOK'
  OBVIOUS
<1> USE DEF TypeOK, StoreTypeOK, host, worker, tables, Turn, Visited
<1>1. ASSUME Start PROVE TypeOK'
  <2>1. Orphans(vm) \in SUBSET Seats /\ "reconcile_orphans" \in Phases
    BY DEF Orphans, Phases
  <2> QED BY <1>1, <2>1 DEF Start, BeginReconcile
<1>2. ASSUME StartUnreconciled PROVE TypeOK'
  <2>1. "resume_interrupted" \in Phases
    BY DEF Phases
  <2> QED BY <1>2, <2>1, SnapshotType DEF StartUnreconciled, Enter
<1>3. ASSUME NEW s \in Seats, DestroyOrphan(s) \/ DestroyDefined(s) PROVE TypeOK'
  <2>1. {"idle", "defined"} \subseteq Steps
    BY DEF Steps
  <2>2. op' \in Operation /\ op'.seat \in Seats
    BY <1>3, <2>1, OpTypes DEF DestroyOrphan, DestroyDefined
  <2> QED BY <1>3, <2>2 DEF DestroyOrphan, DestroyDefined
<1>4. ASSUME NEW s \in Seats, AdoptRunning(s) PROVE TypeOK'
  <2>1. seat' \in [Seats -> SeatRow]
    BY <1>4, RowUpdates, UpdateSeatType DEF AdoptRunning, SeatStates
  <2> QED BY <1>4, <2>1 DEF AdoptRunning
<1>5. ASSUME NEW s \in Seats, ErrorDead(s) PROVE TypeOK'
  <2>1. seat' \in [Seats -> SeatRow]
    BY <1>5, RowTypes, UpdateSeatType DEF ErrorDead, SeatStates
  <2>2. request' \in [Requests -> QueueRow] /\ lease' \in [Requests -> LeaseStates]
    BY <1>5, CloseLeaseType DEF ErrorDead, TerminalStatuses
  <2> QED BY <1>5, <2>1, <2>2 DEF ErrorDead
<1>6. ASSUME NEW s \in Seats, CloseGone(s) PROVE TypeOK'
  <2>1. seat' \in [Seats -> SeatRow]
    BY <1>6, RowTypes, UpdateSeatType DEF CloseGone
  <2>2. request' \in [Requests -> QueueRow] /\ lease' \in [Requests -> LeaseStates]
    BY <1>6, CloseLeaseType DEF CloseGone, TerminalStatuses
  <2> QED BY <1>6, <2>1, <2>2 DEF CloseGone
<1> QED BY <1>1, <1>2, <1>3, <1>4, <1>5, <1>6 DEF ReconcileNext

\* The methods of pump() keep the types.
LEMMA PumpType == TypeOK /\ PumpNext => TypeOK'
<1> SUFFICES ASSUME TypeOK, PumpNext PROVE TypeOK'
  OBVIOUS
<1> USE DEF TypeOK, StoreTypeOK, host, worker, tables, Turn, Visited
<1>1. ASSUME Advance PROVE TypeOK'
  <2>1. Follow[phase] \in Phases
    BY <1>1, FollowType DEF Advance
  <2>2. NoVms \in [Seats -> Reports]
    BY DEF NoVms, Reports, VmStates
  <2> QED BY <1>1, <2>1, <2>2, SnapshotType DEF Advance, Enter
<1>2. ASSUME NEW p, NEW s \in Seats, ResumeRelease(p, s) PROVE TypeOK'
  <2>1. seat[s].status \in TerminalStatuses \cup {"null"} /\ seat[s].export \in BOOLEAN
    BY DEF SeatRow
  <2>2. CASE /\ UpdateSeat(s, ClosedRow(seat[s]))
             /\ CloseLease(s, seat[s].status)
             /\ op' = IF seat[s].vm THEN Teardown(s, "idle", "null") ELSE Idle
             /\ UNCHANGED <<work, wish>>
    <3>1. seat' \in [Seats -> SeatRow]
      BY <2>2, RowTypes, UpdateSeatType
    <3>2. request' \in [Requests -> QueueRow] /\ lease' \in [Requests -> LeaseStates]
      BY <2>1, <2>2, CloseLeaseType
    <3>3. op' \in Operation /\ (op'.step # "idle" => op'.seat \in Seats)
      BY <2>2, OpTypes DEF Steps, Idle
    <3> QED BY <1>2, <2>2, <3>1, <3>2, <3>3 DEF ResumeRelease
  <2>3. CASE BeginRelease(s, seat[s].export, seat[s].status, wish[s])
    BY <1>2, <2>1, <2>3, BeginReleaseType DEF ResumeRelease
  <2> QED BY <1>2, <2>2, <2>3 DEF ResumeRelease
<1>3. ASSUME NEW p, NEW s \in Seats, ResumeReset(p, s) PROVE TypeOK'
  BY <1>3, BeginResetType DEF ResumeReset
<1>4. ASSUME NEW s \in Seats, ReapError(s) PROVE TypeOK'
  <2>1. op' \in Operation /\ op'.seat \in Seats
    BY <1>4, OpTypes DEF ReapError, Steps
  <2> QED BY <1>4, <2>1 DEF ReapError
<1>5. ASSUME NEW s \in Seats, ReapHeld(s) \/ Evict(s) PROVE TypeOK'
  <2>1. "discard" \in Wishes /\ "expired" \in TerminalStatuses
    BY DEF Wishes, TerminalStatuses
  <2>2. CASE ReapHeld(s)
    BY <2>1, <2>2, BeginReleaseType DEF ReapHeld
  <2>3. CASE Evict(s)
    BY <2>1, <2>3, BeginReleaseType DEF Evict
  <2> QED BY <1>5, <2>2, <2>3
<1>6. ASSUME NEW s \in Seats, Reclaim(s) PROVE TypeOK'
  <2>1. request' \in [Requests -> QueueRow] /\ lease' \in [Requests -> LeaseStates]
    BY <1>6, CloseLeaseType DEF Reclaim, TerminalStatuses
  <2>2. CASE seat[s].vm
    <3>1. [seat[s] EXCEPT !.state = "held", !.pending = "release",
                          !.export = seat[s].intent, !.status = "expired"] \in SeatRow
      <4>1. seat[s] \in SeatRow /\ seat[s].intent \in BOOLEAN /\ "expired" \in TerminalStatuses
        BY DEF SeatRow, TerminalStatuses
      <4> QED BY <4>1, RowUpdates DEF SeatStates
    <3>2. seat' \in [Seats -> SeatRow]
      <4> DEFINE row == [seat[s] EXCEPT !.state = "held", !.pending = "release",
                                        !.export = seat[s].intent, !.status = "expired"]
      <4>1. UpdateSeat(s, row) /\ row \in SeatRow
        BY <1>6, <2>2, <3>1 DEF Reclaim
      <4> HIDE DEF row
      <4> QED BY <4>1, UpdateSeatType
    <3>3. op' \in Operation /\ (op'.step # "idle" => op'.seat \in Seats)
      <4>1. op' = OpAt("export", s) \/ op' = Idle
        BY <1>6, <2>2 DEF Reclaim
      <4>2. OpAt("export", s) \in Operation /\ OpAt("export", s).seat = s
        BY OpTypes DEF Steps
      <4>3. Idle \in Operation /\ Idle.step = "idle"
        BY OpTypes DEF Idle
      <4> QED BY <4>1, <4>2, <4>3
    <3>4. wish' \in [Seats -> Wishes]
      BY <1>6, <2>2 DEF Reclaim, Wishes
    <3> QED BY <1>6, <2>1, <3>2, <3>3, <3>4 DEF Reclaim
  <2>3. CASE ~seat[s].vm
    <3>1. seat' \in [Seats -> SeatRow]
      BY <1>6, <2>3, RowTypes, UpdateSeatType DEF Reclaim
    <3> QED BY <1>6, <2>1, <2>3, <3>1 DEF Reclaim
  <2> QED BY <2>2, <2>3
<1>7. ASSUME NEW s \in Seats, Provision(s) PROVE TypeOK'
  <2>1. seat' \in [Seats -> SeatRow]
    BY <1>7, RowTypes, UpdateSeatType DEF Provision, SeatStates
  <2>2. op' \in Operation /\ op'.seat \in Seats
    BY <1>7, OpTypes DEF Provision, Steps
  <2> QED BY <1>7, <2>1, <2>2 DEF Provision
<1>8. ASSUME NEW s \in Seats, Prewarm(s) PROVE TypeOK'
  <2>1. seat' \in [Seats -> SeatRow]
    BY <1>8, StoreAssumption, NewRowTypes, UpdateSeatType DEF Prewarm
  <2> QED BY <1>8, <2>1 DEF Prewarm
<1>9. ASSUME NEW s \in Seats, Skip(s) PROVE TypeOK'
  BY <1>9 DEF Skip, SkipReconciled, SkipHeld, SkipReclaim, SkipEvict, PassOver
<1>10. ASSUME NEW r \in Requests, NEW s \in Seats, PickIdle(r, s) PROVE TypeOK'
  BY <1>10, OpTypes DEF PickIdle
<1>11. ASSUME NEW r \in Requests, NEW s \in Seats, AdmitWaiting(r, s) PROVE TypeOK'
  <2>1. request[r].image \in Images
    BY DEF QueueRow
  <2>2. seat' \in [Seats -> SeatRow]
    BY <1>11, <2>1, NewRowTypes, UpdateSeatType DEF AdmitWaiting
  <2>3. \A q \in QueueRow : [q EXCEPT !.status = "claimed", !.seat = s] \in QueueRow
    BY DEF QueueRow, RequestStatuses
  <2>4. request' \in [Requests -> QueueRow] /\ lease' \in [Requests -> LeaseStates]
    BY <1>11, <2>3 DEF AdmitWaiting, ClaimFor, LeaseStates
  <2> QED BY <1>11, <2>2, <2>4 DEF AdmitWaiting
<1> QED BY <1>1, <1>2, <1>3, <1>4, <1>5, <1>6, <1>7, <1>8, <1>9, <1>10, <1>11 DEF PumpNext

\* The queued jobs keep the types.
LEMMA JobType == TypeOK /\ JobNext => TypeOK'
<1> SUFFICES ASSUME TypeOK, JobNext PROVE TypeOK'
  OBVIOUS
<1> USE DEF TypeOK, StoreTypeOK, host, worker, tables, Job
<1>0. {"export", "discard"} \subseteq Wishes /\ {"done", "cancelled"} \subseteq TerminalStatuses
  BY DEF Wishes, TerminalStatuses
<1>1. ASSUME NEW s \in Seats, JobRelease(s) PROVE TypeOK'
  BY <1>0, <1>1, BeginReleaseType DEF JobRelease
<1>2. ASSUME NEW s \in Seats, JobDrop(s) PROVE TypeOK'
  BY <1>0, <1>2, BeginReleaseType DEF JobDrop
<1>3. ASSUME NEW s \in Seats, JobReset(s) PROVE TypeOK'
  BY <1>3, BeginResetType DEF JobReset
<1>4. ASSUME NEW s \in Seats, JobExport(s) PROVE TypeOK'
  <2>1. seat' \in [Seats -> SeatRow]
    BY <1>4, RowTypes, UpdateSeatType DEF JobExport
  <2>2. op' \in Operation /\ op'.seat \in Seats
    BY <1>4, OpTypes DEF JobExport, Steps
  <2>3. wish' \in [Seats -> Wishes]
    BY <1>4 DEF JobExport, Wishes
  <2> QED BY <1>4, <2>1, <2>2, <2>3 DEF JobExport
<1>5. ASSUME NEW s \in Seats, JobRetry(s) PROVE TypeOK'
  <2>1. seat[s].status \in TerminalStatuses \cup {"null"} /\ seat[s].export \in BOOLEAN
    BY DEF SeatRow
  <2> QED BY <1>0, <1>5, <2>1, BeginReleaseType DEF JobRetry
<1>6. ASSUME NEW s \in Seats, JobDiscard(s) PROVE TypeOK'
  BY <1>6, BeginDiscardType DEF JobDiscard
<1>7. ASSUME NEW r \in Requests, JobCancel(r) PROVE TypeOK'
  <2>1. CASE request[r].status = "waiting"
    <3>1. [request[r] EXCEPT !.status = "cancelled"] \in QueueRow
      BY <1>0 DEF QueueRow, RequestStatuses
    <3> QED BY <1>7, <2>1, <3>1 DEF JobCancel
  <2>2. CASE request[r].status # "waiting"
    <3>1. request[r].seat \in Seats
      BY <1>7, <2>2 DEF JobCancel, QueueRow
    <3> QED BY <1>0, <1>7, <2>2, <3>1, BeginReleaseType DEF JobCancel
  <2> QED BY <2>1, <2>2
<1>8. ASSUME JobReconcile PROVE TypeOK'
  <2>1. Orphans(vm) \in SUBSET Seats /\ "reconcile_orphans" \in Phases
    BY DEF Orphans, Phases
  <2> QED BY <1>8, <2>1 DEF JobReconcile, BeginReconcile
<1> QED BY <1>1, <1>2, <1>3, <1>4, <1>5, <1>6, <1>7, <1>8 DEF JobNext

\* Every reachable state of the daemon is well typed: rows, leases, VMs and the
\* worker's place, for every number of seats, requests and crashes.
THEOREM TypeInvariant == Spec => []TypeOK
<1>1. Init => TypeOK
  <2> SUFFICES ASSUME Init PROVE TypeOK
    OBVIOUS
  <2>1. StoreTypeOK
    BY NewRowTypes DEF Init, StoreInit, StoreTypeOK, LeaseStates
  <2>2. op \in Operation /\ op.step = "idle"
    BY OpTypes DEF Init, Idle
  <2> QED BY <2>1, <2>2 DEF Init, TypeOK, NoVms, VmStates, Reports, WorkStates, Wishes, Phases
<1>2. TypeOK /\ [Next]_vars => TypeOK'
  <2> SUFFICES ASSUME TypeOK, [Next]_vars PROVE TypeOK'
    OBVIOUS
  <2>1. CASE Next
    BY <2>1, ClientType, OpType, ReconcileType, PumpType, JobType DEF Next, WorkerNext
  <2>2. CASE UNCHANGED vars
    BY <2>2 DEF vars, tables, TypeOK, StoreTypeOK
  <2> QED BY <2>1, <2>2
<1> QED BY <1>1, <1>2, PTL DEF Spec
-----------------------------------------------------------------------------
(***************************************************************************)
(* Reservations.  The part of ReservationInv that is about the tables      *)
(* (Core) is preserved by a handful of table updates, whoever makes them:  *)
(* closing a row with its lease, writing a row, claiming the head,         *)
(* submitting, cancelling.  The part about the worker (who owns the row    *)
(* between two transactions, what a snapshot still says) is shown once for *)
(* the steps of an operation (OpStepEnds) and once for a turn or a job     *)
(* (Begun).                                                                *)
(***************************************************************************)
\* The part of ReservationInv that is about the tables alone.
Core ==
    /\ ClaimedIffLeased
    /\ LeasedSeatLives
    /\ SeatServesOneRequest
    /\ ServedSeatIsLeased
    /\ IdsGoUp
    /\ PendingReleaseStands

\* _close_lease ends a lease together with its request and touches no other one.
\* With the null status it needs a seat without a lease.
LEMMA CloseLeaseEffect ==
    ASSUME TypeOK, Core, NEW s \in Seats, NEW status \in TerminalStatuses \cup {"null"},
           CloseLease(s, status), status = "null" => ActiveLease(s) = {}
    PROVE  /\ ClaimedIffLeased'
           /\ \A r \in Requests : /\ request'[r].seat = request[r].seat
                                  /\ request'[r].status = "absent" <=> request[r].status = "absent"
           /\ \A t \in Seats : RequestsForSeat(t)' = RequestsForSeat(t)
           /\ ActiveLease(s)' = {}
           /\ \A t \in Seats \ {s} : ActiveLease(t)' = ActiveLease(t)
<1> USE DEF TypeOK, StoreTypeOK, CloseLease, QueueRow
<1>1. \A r \in Requests : request'[r].seat = request[r].seat
  OBVIOUS
<1>2. \A r \in Requests :
          /\ r \in ActiveLease(s) => request'[r].status \in TerminalStatuses /\ lease'[r] = "released"
          /\ r \notin ActiveLease(s) => request'[r] = request[r] /\ lease'[r] = lease[r]
  OBVIOUS
<1>3. \A r \in ActiveLease(s) : request[r].status = "claimed"
  BY DEF ActiveLease, Core, ClaimedIffLeased
<1>4. \A r \in Requests : request'[r].status = "absent" <=> request[r].status = "absent"
  BY <1>2, <1>3 DEF TerminalStatuses
<1>5. ClaimedIffLeased'
  BY <1>2, <1>3 DEF Core, ClaimedIffLeased, TerminalStatuses
<1>6. \A t \in Seats : RequestsForSeat(t)' = RequestsForSeat(t)
  BY <1>1 DEF RequestsForSeat
<1>7. ActiveLease(s)' = {}
  BY <1>1, <1>2 DEF ActiveLease
<1>8. ASSUME NEW t \in Seats \ {s} PROVE ActiveLease(t)' = ActiveLease(t)
  BY <1>1, <1>2 DEF ActiveLease
<1> QED BY <1>1, <1>4, <1>5, <1>6, <1>7, <1>8

\* Closing a row together with its lease keeps the tables right: this is how every
\* release, failure and discard ends.
LEMMA CoreClose ==
    ASSUME TypeOK, Core, NEW s \in Seats, NEW status \in TerminalStatuses \cup {"null"},
           CloseLease(s, status), status = "null" => ActiveLease(s) = {},
           NEW row \in SeatRow, UpdateSeat(s, row),
           row.state \in {"off", "held", "error", "releasing", "resetting"},
           row.pending = "release" => row.state \in {"releasing", "held"}
    PROVE  Core'
<1>0. /\ seat'[s] = row
      /\ \A t \in Seats \ {s} : seat'[t] = seat[t]
  BY DEF TypeOK, StoreTypeOK, UpdateSeat
<1>1. LeasedSeatLives'
  BY <1>0, CloseLeaseEffect DEF Core, LeasedSeatLives
<1>2. SeatServesOneRequest'
  BY CloseLeaseEffect DEF Core, SeatServesOneRequest
<1>3. ServedSeatIsLeased'
  BY <1>0, CloseLeaseEffect DEF Core, ServedSeatIsLeased
<1>4. IdsGoUp'
  BY <1>0, CloseLeaseEffect DEF Core, IdsGoUp
<1>5. PendingReleaseStands'
  BY <1>0, CloseLeaseEffect DEF Core, PendingReleaseStands
<1> QED BY <1>1, <1>2, <1>3, <1>4, <1>5, CloseLeaseEffect DEF Core

\* Writing a row alone keeps the tables right when the new state can carry the
\* lease the seat has, and is not handed out again after it served.
LEMMA CoreRow ==
    ASSUME TypeOK, Core, NEW s \in Seats, NEW row \in SeatRow, UpdateSeat(s, row),
           UNCHANGED <<request, lease>>,
           row.state # "absent",
           ActiveLease(s) # {} => row.state \in {"queued", "provisioning", "ready", "busy",
                                                 "resetting", "releasing"},
           row.state \in {"queued", "provisioning", "ready", "busy"}
               => RequestsForSeat(s) = {} \/ ActiveLease(s) # {},
           row.pending = "release" => /\ row.state \in {"releasing", "held"}
                                      /\ row.status = "null" => ActiveLease(s) = {}
    PROVE  Core'
<1>0. /\ seat'[s] = row
      /\ \A t \in Seats \ {s} : seat'[t] = seat[t]
      /\ \A t \in Seats : ActiveLease(t)' = ActiveLease(t) /\ RequestsForSeat(t)' = RequestsForSeat(t)
  BY DEF TypeOK, StoreTypeOK, UpdateSeat, ActiveLease, RequestsForSeat
<1>1. ClaimedIffLeased' /\ SeatServesOneRequest'
  BY DEF Core, ClaimedIffLeased, SeatServesOneRequest
<1>2. LeasedSeatLives'
  BY <1>0 DEF Core, LeasedSeatLives
<1>3. ServedSeatIsLeased'
  BY <1>0 DEF Core, ServedSeatIsLeased
<1>4. IdsGoUp'
  BY <1>0 DEF Core, IdsGoUp
<1>5. PendingReleaseStands'
  BY <1>0 DEF Core, PendingReleaseStands
<1> QED BY <1>1, <1>2, <1>3, <1>4, <1>5 DEF Core

\* Claiming the head of the queue for a seat no request ever used keeps the tables right.
LEMMA CoreClaim ==
    ASSUME TypeOK, Core, NEW r \in Requests, NEW s \in Seats,
           NextWaiting(r), ClaimFor(r, s), RequestsForSeat(s) = {},
           \A t \in Seats \ {s} : seat'[t] = seat[t],
           seat'[s].state \in {"ready", "queued"}, seat'[s].pending # "release"
    PROVE  Core'
<1> USE DEF TypeOK, StoreTypeOK, QueueRow
<1>0. /\ request'[r].status = "claimed" /\ request'[r].seat = s /\ lease'[r] = "fresh"
      /\ \A q \in Requests \ {r} : request'[q] = request[q] /\ lease'[q] = lease[q]
  BY DEF ClaimFor
<1>1. request[r].status = "waiting"
  BY DEF NextWaiting
<1>2. \A q \in Requests : request[q].seat # s
  BY DEF RequestsForSeat
<1>3. ActiveLease(s)' = {r} /\ RequestsForSeat(s)' = {r}
  BY <1>0, <1>2 DEF ActiveLease, RequestsForSeat
<1>4. \A t \in Seats \ {s} : ActiveLease(t)' \subseteq ActiveLease(t)
  BY <1>0 DEF ActiveLease
<1>5. \A t \in Seats \ {s} : ActiveLease(t) \subseteq ActiveLease(t)' \cup {r}
  BY <1>0 DEF ActiveLease
<1>6. \A t \in Seats : r \notin ActiveLease(t)
  BY <1>1 DEF Core, ClaimedIffLeased, ActiveLease
<1>8. \A t \in Seats \ {s} : RequestsForSeat(t)' \subseteq RequestsForSeat(t)
  BY <1>0 DEF RequestsForSeat
<1> HIDE DEF TypeOK, StoreTypeOK, QueueRow
<1>7. ASSUME NEW t \in Seats \ {s} PROVE ActiveLease(t)' = ActiveLease(t)
  BY <1>4, <1>5, <1>6
<1>9. ClaimedIffLeased'
  BY <1>0 DEF Core, ClaimedIffLeased
<1>10. LeasedSeatLives'
  BY <1>3, <1>7 DEF Core, LeasedSeatLives
<1>11. SeatServesOneRequest'
  BY <1>0, <1>2 DEF Core, SeatServesOneRequest
<1>12. ServedSeatIsLeased'
  BY <1>3, <1>7, <1>8 DEF Core, ServedSeatIsLeased
<1>13. IdsGoUp'
  BY <1>0, <1>1, <1>8 DEF Core, IdsGoUp
<1>14. PendingReleaseStands'
  BY <1>7 DEF Core, PendingReleaseStands
<1> QED BY <1>9, <1>10, <1>11, <1>12, <1>13, <1>14 DEF Core

\* A heartbeat, or its absence, and a step outside the tables keep them right.
LEMMA CoreTouch ==
    ASSUME Core, UNCHANGED <<seat, request>>,
           \A r \in Requests : lease'[r] \in {"fresh", "stale"} <=> lease[r] \in {"fresh", "stale"}
    PROVE  Core'
<1>1. \A s \in Seats : ActiveLease(s)' = ActiveLease(s) /\ RequestsForSeat(s)' = RequestsForSeat(s)
  BY DEF ActiveLease, RequestsForSeat
<1> QED BY <1>1 DEF Core, ClaimedIffLeased, LeasedSeatLives, SeatServesOneRequest,
           ServedSeatIsLeased, IdsGoUp, PendingReleaseStands

\* submit_request keeps the tables right.
LEMMA CoreSubmit ==
    ASSUME TypeOK, Core, NEW r \in Requests, NextRequestId(r), NEW image \in Images,
           request' = [request EXCEPT ![r] = [AbsentRequest EXCEPT !.status = "waiting",
                                                                   !.image = image]],
           UNCHANGED <<seat, lease>>
    PROVE  Core'
<1>0. /\ request'[r].status = "waiting" /\ request'[r].seat = NoSeat
      /\ \A q \in Requests \ {r} : request'[q] = request[q]
      /\ request[r].status = "absent" /\ request[r].seat = NoSeat
      /\ \A q \in Requests : request[q].status = "absent" => r <= q
  BY DEF TypeOK, StoreTypeOK, AbsentRequest, NextRequestId, Core, IdsGoUp
<1>1. \A s \in Seats : ActiveLease(s)' = ActiveLease(s) /\ RequestsForSeat(s)' = RequestsForSeat(s)
  BY <1>0 DEF ActiveLease, RequestsForSeat
<1>2. ClaimedIffLeased'
  BY <1>0 DEF Core, ClaimedIffLeased
<1>3. SeatServesOneRequest'
  BY <1>0 DEF Core, SeatServesOneRequest
<1>4. IdsGoUp'
  <2>1. ASSUME NEW p \in Requests, NEW q \in Requests, request'[p].status = "absent", p <= q
        PROVE  request'[q].status = "absent"
    <3>1. p # r /\ request[p].status = "absent" /\ r <= p
      BY <1>0, <2>1
    <3>2. q # r /\ request[q].status = "absent"
      BY <2>1, <3>1 DEF Core, IdsGoUp, Requests
    <3> QED BY <1>0, <3>2
  <2> QED BY <1>0, <1>1, <2>1 DEF Core, IdsGoUp
<1> QED BY <1>1, <1>2, <1>3, <1>4 DEF Core, LeasedSeatLives, ServedSeatIsLeased, PendingReleaseStands

\* cancel_request of a waiting request keeps the tables right.
LEMMA CoreCancel ==
    ASSUME TypeOK, Core, NEW r \in Requests, request[r].status = "waiting",
           request' = [request EXCEPT ![r].status = "cancelled"], UNCHANGED <<seat, lease>>
    PROVE  Core'
<1>0. /\ \A q \in Requests : request'[q].seat = request[q].seat
      /\ request'[r].status = "cancelled"
      /\ \A q \in Requests \ {r} : request'[q] = request[q]
  BY DEF TypeOK, StoreTypeOK, QueueRow
<1>1. \A s \in Seats : ActiveLease(s)' = ActiveLease(s) /\ RequestsForSeat(s)' = RequestsForSeat(s)
  BY <1>0 DEF ActiveLease, RequestsForSeat
<1> QED BY <1>0, <1>1 DEF Core, ClaimedIffLeased, LeasedSeatLives, SeatServesOneRequest,
           ServedSeatIsLeased, IdsGoUp, PendingReleaseStands

\* The fields of the operations the scheduler starts.
LEMMA OpFields ==
    /\ Idle.step = "idle" /\ Idle.next = "idle"
    /\ \A step, s : OpAt(step, s).step = step /\ OpAt(step, s).next = "idle"
    /\ \A s, status : Closing(s, status).step = "close" /\ Closing(s, status).status = status
    /\ \A s, status : /\ Exporting(s, status).step = "export"
                       /\ Exporting(s, status).next = "stop"
                       /\ Exporting(s, status).status = status
    /\ \A s, resume : Rebuilding(s, resume).step = "rebuild"
    /\ \A r, s : Claiming(r, s).step = "claim" /\ Claiming(r, s).req = r
    /\ \A s, next, status : /\ Teardown(s, next, status).step = "stop"
                             /\ Teardown(s, next, status).next = next
                             /\ Teardown(s, next, status).status = status
BY DEF Idle, OpAt, Closing, Exporting, Rebuilding, Claiming, Teardown

\* A closed row is off; a release that closes it forgets its intent.
LEMMA RowFields ==
    ASSUME NEW row \in SeatRow
    PROVE  /\ OffRow(row).state = "off" /\ OffRow(row).pending = row.pending
           /\ ClosedRow(row).state = "off" /\ ClosedRow(row).pending = "none"
<1>1. OffRow(row).state = "off" /\ OffRow(row).pending = row.pending
  BY DEF OffRow, SeatRow
<1>2. ClosedRow(row).state = "off" /\ ClosedRow(row).pending = "none"
  BY DEF ClosedRow, SeatRow
<1> QED BY <1>1, <1>2

\* Moving on keeps the rest of the operation.
LEMMA MoveToFields ==
    ASSUME op \in Operation, NEW step \in Steps
    PROVE  /\ MoveTo(step).step = step
           /\ MoveTo(step).next = op.next
           /\ MoveTo(step).status = op.status
BY DEF Operation, MoveTo

\* The effect of an operation that begins on seat s, or ends on it.
Begun(s) ==
    /\ Core'
    /\ OperationOwnsRow'
    /\ op'.step # "claim"
    /\ op'.step # "idle" => op'.seat = s
    /\ \A t \in Seats \ {s} : seat'[t] = seat[t]

\* A release may begin in any state of the seat: release_seat, cancel_request,
\* retry_release, the held TTL and the eviction all begin this way.
LEMMA BeginReleaseCore ==
    ASSUME TypeOK, Core, NEW s \in Seats, NEW export \in BOOLEAN,
           NEW status \in TerminalStatuses \cup {"null"}, NEW decision,
           BeginRelease(s, export, status, decision), status = "null" => ActiveLease(s) = {}
    PROVE  Begun(s)
<1>1. CASE seat[s].state = "off"
  <2>1. CloseLease(s, status) /\ op' = Idle /\ UNCHANGED seat
    BY <1>1 DEF BeginRelease
  <2>2. seat[s] \in SeatRow /\ UpdateSeat(s, seat[s])
    BY <2>1 DEF TypeOK, StoreTypeOK, UpdateSeat
  <2>3. seat[s].pending # "release"
    BY <1>1 DEF Core, PendingReleaseStands
  <2>4. Core'
    BY <1>1, <2>1, <2>2, <2>3, CoreClose
  <2> QED BY <2>1, <2>4, OpFields DEF Begun, OperationOwnsRow, Stage
<1>2. CASE seat[s].state # "off"
  <2> DEFINE row == [seat[s] EXCEPT !.state = "releasing", !.pending = "release",
                                    !.export = export, !.status = status]
  <2>1. UpdateSeat(s, row) /\ UNCHANGED <<request, lease>>
    BY <1>2 DEF BeginRelease
  <2>2. seat[s] \in SeatRow
    BY DEF TypeOK, StoreTypeOK
  <2>3. row \in SeatRow
    BY <2>2, RowUpdates DEF SeatStates
  <2>4. row.state = "releasing" /\ row.pending = "release" /\ row.status = status
    BY <2>2 DEF SeatRow
  <2> HIDE DEF row
  <2>5. Core'
    BY <2>1, <2>3, <2>4, CoreRow
  <2>6. seat'[s] = row /\ \A t \in Seats \ {s} : seat'[t] = seat[t]
    BY <2>1 DEF UpdateSeat, TypeOK, StoreTypeOK
  <2>7. ActiveLease(s)' = ActiveLease(s)
    BY <2>1 DEF ActiveLease
  <2>8. op' \in {Closing(s, status), Exporting(s, status), Teardown(s, "close", status)}
    BY <1>2 DEF BeginRelease
  <2>9. op'.seat = s /\ op'.step \in {"close", "export", "stop"}
    BY <2>8, OpTypes, OpFields DEF Steps
  <2>10. OperationOwnsRow'
    BY <2>4, <2>6, <2>7, <2>8, <2>9, OpFields DEF OperationOwnsRow, Stage
  <2> QED BY <2>5, <2>6, <2>9, <2>10 DEF Begun
<1> QED BY <1>1, <1>2

\* A reset may begin in any state of a seat that has its VM.
LEMMA BeginResetCore ==
    ASSUME TypeOK, Core, NEW s \in Seats, NEW resume \in BOOLEAN, BeginReset(s, resume)
    PROVE  Begun(s)
<1> DEFINE row == [seat[s] EXCEPT !.state = "resetting", !.pending = "reset"]
<1>1. UpdateSeat(s, row) /\ UNCHANGED <<request, lease>> /\ op' = Rebuilding(s, resume)
  BY DEF BeginReset
<1>2. seat[s] \in SeatRow
  BY DEF TypeOK, StoreTypeOK
<1>3. row \in SeatRow
  BY <1>2, RowUpdates DEF SeatStates
<1>4. row.state = "resetting" /\ row.pending = "reset"
  BY <1>2 DEF SeatRow
<1> HIDE DEF row
<1>5. Core'
  BY <1>1, <1>3, <1>4, CoreRow
<1>6. seat'[s] = row /\ \A t \in Seats \ {s} : seat'[t] = seat[t]
  BY <1>1 DEF UpdateSeat, TypeOK, StoreTypeOK
<1>7. op'.seat = s /\ op'.step = "rebuild"
  BY <1>1, OpTypes, OpFields
<1> QED BY <1>4, <1>5, <1>6, <1>7 DEF Begun, OperationOwnsRow, Stage

\* A force_discard may begin in any state of the seat.
LEMMA BeginDiscardCore ==
    ASSUME TypeOK, Core, NEW s \in Seats, BeginDiscard(s)
    PROVE  Begun(s)
<1> DEFINE row == [seat[s] EXCEPT !.state = "releasing"]
<1>1. UpdateSeat(s, row) /\ UNCHANGED <<request, lease>>
      /\ op' \in {Teardown(s, "close", "failed"), Closing(s, "failed")}
  BY DEF BeginDiscard
<1>2. seat[s] \in SeatRow
  BY DEF TypeOK, StoreTypeOK
<1>3. row \in SeatRow
  BY <1>2, RowTypes DEF SeatStates
<1>4. row.state = "releasing" /\ row.pending = seat[s].pending /\ row.status = seat[s].status
  BY <1>2 DEF SeatRow
<1> HIDE DEF row
<1>5. seat[s].pending = "release" /\ seat[s].status = "null" => ActiveLease(s) = {}
  BY DEF Core, PendingReleaseStands
<1>6. Core'
  BY <1>1, <1>3, <1>4, <1>5, CoreRow
<1>7. seat'[s] = row /\ \A t \in Seats \ {s} : seat'[t] = seat[t]
  BY <1>1 DEF UpdateSeat, TypeOK, StoreTypeOK
<1>8. op'.seat = s /\ op'.step \in {"close", "stop"} /\ op'.status = "failed"
      /\ (op'.step = "stop" => op'.next = "close")
  BY <1>1, OpTypes, OpFields DEF Steps, TerminalStatuses
<1> QED BY <1>4, <1>6, <1>7, <1>8 DEF Begun, OperationOwnsRow, Stage

\* An operation on one seat leaves the snapshot of the phase as good as it was.
LEMMA SnapshotWithin ==
    ASSUME TypeOK, SnapshotStands, op.step # "idle", UNCHANGED <<phase, todo>>,
           \A t \in Seats \ {op.seat} : seat'[t] = seat[t],
           op'.step # "idle" => op'.seat = op.seat
    PROVE  SnapshotStands'
BY OpFields DEF SnapshotStands, TypeOK

\* So does the turn of one seat, which takes it out of the snapshot.
LEMMA SnapshotTurn ==
    ASSUME TypeOK, SnapshotStands, NEW p, p # "down", NEW s \in Seats, Turn(p, s), Visited(s),
           \A t \in Seats \ {s} : seat'[t] = seat[t], op'.step # "idle" => op'.seat = s
    PROVE  SnapshotStands'
BY DEF SnapshotStands, TypeOK, Turn, Visited, Lowest

\* Jobs run when no snapshot is open.
LEMMA SnapshotJob ==
    ASSUME SnapshotStands, UNCHANGED <<phase, todo>>,
           phase \in {"assign_idle", "admit_waiting", "ensure_min", "drain_jobs"}
    PROVE  SnapshotStands'
BY DEF SnapshotStands

\* A snapshot is good when it is taken.
LEMMA SnapshotEnter ==
    ASSUME TypeOK, NEW p \in Phases \ {"down"}, Enter(p), op'.step = "idle", UNCHANGED seat
    PROVE  SnapshotStands'
<1>1. phase' = p /\ todo' = Snapshot(p)
  BY DEF Enter
<1>2. p \in {"assign_idle", "admit_waiting", "ensure_min", "drain_jobs"} => Snapshot(p) = {}
  BY DEF Snapshot
<1>3. p = "reap_errors" => \A s \in Snapshot(p) : seat[s].state = "error"
  BY DEF Snapshot, InState
<1>4. p = "provision_queued" => \A s \in Snapshot(p) : seat[s].state = "queued"
  BY DEF Snapshot, InState
<1>5. p \in {"resume_interrupted", "reconcile_resume"} =>
          \A s \in Snapshot(p) : seat[s].state = "releasing" => seat[s].pending = "release"
  BY DEF Snapshot, Interrupted
<1> QED BY <1>1, <1>2, <1>3, <1>4, <1>5 DEF SnapshotStands

\* Connection threads only move rows between ready and busy, which no operation
\* under way and no snapshot rests on.
LEMMA BystanderStep ==
    ASSUME TypeOK, OperationOwnsRow, SnapshotStands, UNCHANGED worker,
           \A s \in Seats : \/ seat'[s] = seat[s]
                           \/ {seat[s].state, seat'[s].state} \subseteq {"ready", "busy"},
           \A s \in Seats : ActiveLease(s)' = ActiveLease(s)
    PROVE  OperationOwnsRow' /\ SnapshotStands'
<1>1. UNCHANGED <<phase, todo, op>> /\ Stage' = Stage
  BY DEF worker, Stage
<1>2. SnapshotStands'
  BY <1>1 DEF SnapshotStands, TypeOK
<1>3. Stage # "idle" => op.step # "idle"
  BY DEF Stage
<1>4. OperationOwnsRow'
  BY <1>1, <1>3 DEF OperationOwnsRow, TypeOK
<1> QED BY <1>2, <1>4

\* The connection threads, the host and a crash preserve ReservationInv.
LEMMA ClientSound == TypeOK /\ ReservationInv /\ (ClientNext \/ HostNext) => ReservationInv'
<1> SUFFICES ASSUME TypeOK, ReservationInv, ClientNext \/ HostNext PROVE ReservationInv'
  OBVIOUS
<1>0. Core /\ PickedIsHead /\ OperationOwnsRow /\ SnapshotStands
  BY DEF ReservationInv, Core
<1> SUFFICES Core' /\ PickedIsHead' /\ OperationOwnsRow' /\ SnapshotStands'
  BY DEF ReservationInv, Core
<1>1. ASSUME NEW r \in Requests, NEW image \in Images, Submit(r, image)
      PROVE  Core' /\ PickedIsHead' /\ OperationOwnsRow' /\ SnapshotStands'
  <2>1. Core'
    BY <1>0, <1>1, CoreSubmit DEF Submit
  <2>2. PickedIsHead'
    <3>1. request[r].status = "absent" /\ request'[r].status = "waiting"
          /\ \A q \in Requests \ {r} : request'[q] = request[q]
      BY <1>1 DEF Submit, NextRequestId, TypeOK, StoreTypeOK, AbsentRequest
    <3>2. ASSUME NEW p \in Requests, NextWaiting(p) PROVE p # r /\ p <= r
      BY <1>0, <3>1, <3>2 DEF NextWaiting, Core, IdsGoUp, Requests
    <3>3. op' = op
      BY <1>1 DEF Submit, worker
    <3> QED BY <1>0, <3>1, <3>2, <3>3 DEF PickedIsHead, NextWaiting
  <2>3. \A s \in Seats : ActiveLease(s)' = ActiveLease(s)
    <3>1. \A q \in Requests : lease[q] \in {"fresh", "stale"} => q # r
      BY <1>0, <1>1 DEF Submit, NextRequestId, Core, ClaimedIffLeased
    <3>2. \A q \in Requests \ {r} : request'[q] = request[q] /\ lease' = lease
      BY <1>1 DEF Submit, TypeOK, StoreTypeOK
    <3>3. lease' = lease
      BY <1>1 DEF Submit
    <3> QED BY <3>1, <3>2, <3>3 DEF ActiveLease
  <2> QED BY <1>0, <1>1, <2>1, <2>2, <2>3, BystanderStep DEF Submit
<1>2. ASSUME NEW r \in Requests, Heartbeat(r) \/ LeaseLapses(r)
      PROVE  Core' /\ PickedIsHead' /\ OperationOwnsRow' /\ SnapshotStands'
  <2>1. UNCHANGED <<seat, request, worker>> /\ op' = op
    BY <1>2 DEF Heartbeat, LeaseLapses, worker
  <2>2. \A q \in Requests : lease'[q] \in {"fresh", "stale"} <=> lease[q] \in {"fresh", "stale"}
    BY <1>2 DEF Heartbeat, LeaseLapses, TypeOK, StoreTypeOK
  <2>3. \A s \in Seats : ActiveLease(s)' = ActiveLease(s)
    BY <2>1, <2>2 DEF ActiveLease
  <2>4. Core'
    BY <1>0, <2>1, <2>2, CoreTouch
  <2>5. PickedIsHead'
    BY <1>0, <2>1 DEF PickedIsHead, NextWaiting
  <2> QED BY <1>0, <2>1, <2>3, <2>4, <2>5, BystanderStep
<1>3. ASSUME NEW s \in Seats, BeginWork(s) \/ FinishWork(s)
      PROVE  Core' /\ PickedIsHead' /\ OperationOwnsRow' /\ SnapshotStands'
  <2> PICK x \in {"ready", "busy"} :
        /\ UpdateSeat(s, [seat[s] EXCEPT !.state = x])
        /\ seat[s].state \in {"ready", "busy"}
        /\ UNCHANGED <<request, lease, worker>>
    BY <1>3 DEF BeginWork, FinishWork
  <2> DEFINE row == [seat[s] EXCEPT !.state = x]
  <2>1. seat[s] \in SeatRow
    BY DEF TypeOK, StoreTypeOK
  <2>2. row \in SeatRow /\ row.state = x /\ row.pending = seat[s].pending
    BY <2>1 DEF SeatRow, SeatStates
  <2>3. UpdateSeat(s, row)
    OBVIOUS
  <2> HIDE DEF row
  <2>4. seat[s].pending # "release"
    BY <1>0 DEF Core, PendingReleaseStands
  <2>5. RequestsForSeat(s) = {} \/ ActiveLease(s) # {}
    BY <1>0 DEF Core, ServedSeatIsLeased
  <2>6. Core'
    BY <1>0, <2>2, <2>3, <2>4, <2>5, CoreRow
  <2>7. seat'[s] = row /\ \A t \in Seats \ {s} : seat'[t] = seat[t]
    BY <2>3 DEF UpdateSeat, TypeOK, StoreTypeOK
  <2>8. \A t \in Seats : ActiveLease(t)' = ActiveLease(t)
    BY DEF ActiveLease
  <2>9. PickedIsHead'
    BY <1>0 DEF PickedIsHead, NextWaiting, worker
  <2> QED BY <1>0, <2>2, <2>6, <2>7, <2>8, <2>9, BystanderStep
<1>4. ASSUME UNCHANGED <<seat, request, lease, worker>>
      PROVE  Core' /\ PickedIsHead' /\ OperationOwnsRow' /\ SnapshotStands'
  <2>1. Core'
    BY <1>0, <1>4, CoreTouch
  <2>2. \A s \in Seats : ActiveLease(s)' = ActiveLease(s)
    BY <1>4 DEF ActiveLease
  <2>3. PickedIsHead'
    BY <1>0, <1>4 DEF PickedIsHead, NextWaiting, worker
  <2> QED BY <1>0, <1>4, <2>1, <2>2, <2>3, BystanderStep
<1>5. ASSUME Crash PROVE Core' /\ PickedIsHead' /\ OperationOwnsRow' /\ SnapshotStands'
  <2>1. op' = Idle /\ todo' = {} /\ phase' = "down" /\ UNCHANGED <<seat, request, lease>>
    BY <1>5 DEF Crash, tables
  <2>2. Core'
    BY <1>0, <2>1, CoreTouch
  <2> QED BY <2>1, <2>2, OpFields DEF PickedIsHead, OperationOwnsRow, SnapshotStands, Stage
<1>6. ASSUME NEW s \in Seats, VmStops(s) \/ VmVanishes(s)
      PROVE  UNCHANGED <<seat, request, lease, worker>>
  BY <1>6 DEF VmStops, VmVanishes, tables
<1>7. ASSUME ClearPrewarmBackoff
      PROVE  UNCHANGED <<seat, request, lease, worker>>
  BY <1>7 DEF ClearPrewarmBackoff, tables
<1> QED BY <1>1, <1>2, <1>3, <1>4, <1>5, <1>6, <1>7 DEF ClientNext, HostNext

\* What a step inside an operation has to show.
OpStepEnds ==
    /\ Core'
    /\ OperationOwnsRow'
    /\ op'.step # "claim"
    /\ op'.step # "idle" => op'.seat = op.seat
    /\ \A t \in Seats \ {op.seat} : seat'[t] = seat[t]

\* An operation that ends by closing the row it works on leaves the tables right.
LEMMA CloseRowEnds ==
    ASSUME TypeOK, Core, op.seat \in Seats,
           NEW status \in TerminalStatuses \cup {"null"},
           CloseLease(op.seat, status), status = "null" => ActiveLease(op.seat) = {},
           NEW row \in SeatRow, UpdateSeat(op.seat, row),
           row.state \in {"off", "held", "error", "releasing", "resetting"},
           row.pending = "release" => row.state \in {"releasing", "held"},
           \/ op' = Idle
           \/ op' = Teardown(op.seat, "idle", "null")
           \/ op' = OpAt("discard", op.seat)
    PROVE  OpStepEnds
<1>1. Core'
  BY CoreClose
<1>2. \A t \in Seats \ {op.seat} : seat'[t] = seat[t]
  BY DEF UpdateSeat, TypeOK, StoreTypeOK
<1>3. op'.step # "idle" => op'.seat = op.seat
  BY OpFields, OpTypes DEF Steps
<1>4. OperationOwnsRow' /\ op'.step # "claim"
  BY OpFields DEF OperationOwnsRow, Stage
<1> QED BY <1>1, <1>2, <1>3, <1>4 DEF OpStepEnds

\* An operation that moves on without writing the tables still owns its row.
LEMMA MoveEnds ==
    ASSUME TypeOK, Core, OperationOwnsRow, op.step # "idle", UNCHANGED tables,
           NEW step \in Steps, op' = MoveTo(step), step # "claim",
           step \in {"stop", "destroy"} => op.step \in {"stop", "destroy"},
           step # "export",
           \/ Stage = step
           \/ Stage = op.next /\ step \in {"stop", "destroy"}
           \/ {Stage, step} \subseteq {"create", "boot", "ready", "create_failed", "boot_failed"}
           \/ {Stage, step} \subseteq {"rebuild", "reboot", "reset_ok", "reset_failed"}
           \/ {Stage, step} \subseteq {"close", "hold"}
    PROVE  OpStepEnds
<1>1. op'.step = step /\ op'.next = op.next /\ op'.status = op.status /\ op'.seat = op.seat
  BY MoveToFields, MoveToType DEF TypeOK
<1>2. UNCHANGED <<seat, request, lease>>
  BY DEF tables
<1>3. Core'
  BY <1>2, CoreTouch
<1>4. ActiveLease(op.seat)' = ActiveLease(op.seat)
  BY <1>1, <1>2 DEF ActiveLease
<1>5. Stage' = IF step \in {"stop", "destroy"} THEN op.next ELSE step
  BY <1>1 DEF Stage
<1>6. OperationOwnsRow'
  <2>1. CASE step \in {"stop", "destroy"}
    <3>1. op.step \in {"stop", "destroy"} /\ Stage = op.next /\ Stage' = Stage
      BY <1>5, <2>1 DEF Stage
    <3> QED BY <1>1, <1>2, <1>4, <2>1, <3>1 DEF OperationOwnsRow
  <2>2. CASE step \notin {"stop", "destroy"}
    <3>1. Stage' = step
      BY <1>5, <2>2
    <3>2. CASE Stage = step
      BY <1>1, <1>2, <1>4, <2>2, <3>1, <3>2 DEF OperationOwnsRow
    <3>3. CASE {Stage, step} \subseteq {"create", "boot", "ready", "create_failed", "boot_failed"}
      BY <1>1, <1>2, <2>2, <3>1, <3>3 DEF OperationOwnsRow
    <3>4. CASE {Stage, step} \subseteq {"rebuild", "reboot", "reset_ok", "reset_failed"}
      BY <1>1, <1>2, <2>2, <3>1, <3>4 DEF OperationOwnsRow
    <3>5. CASE {Stage, step} \subseteq {"close", "hold"}
      BY <1>1, <1>2, <1>4, <2>2, <3>1, <3>5 DEF OperationOwnsRow
    <3> QED BY <2>2, <3>2, <3>3, <3>4, <3>5
  <2> QED BY <2>1, <2>2
<1> QED BY <1>1, <1>2, <1>3, <1>6 DEF OpStepEnds

\* The steps of an operation under way preserve ReservationInv.
LEMMA OpSound == TypeOK /\ ReservationInv /\ OpNext => ReservationInv'
<1> SUFFICES ASSUME TypeOK, ReservationInv, OpNext PROVE ReservationInv'
  OBVIOUS
<1>0. Core /\ PickedIsHead /\ OperationOwnsRow /\ SnapshotStands
  BY DEF ReservationInv, Core
<1>a. op.step # "idle"
  BY DEF OpNext, StopVm, DestroyVm, Export, Hold, Close, Discard, Rebuild, Reboot, ResetOk,
     ResetFailed, Create, Boot, Provisioned, ProvisionFailed, Reaped, AssignIdle,
     DefinedDestroyed, Within
<1>b. op.seat \in Seats /\ seat[op.seat] \in SeatRow /\ op \in Operation
  BY <1>a DEF TypeOK, StoreTypeOK
<1>c. op.status \in TerminalStatuses \cup {"null"} /\ op.next \in Steps
  BY <1>b DEF Operation
<1> DEFINE others(x) == \A t \in Seats \ {x} : seat'[t] = seat[t]
<1>d. ASSUME OpStepEnds, UNCHANGED <<phase, todo>> PROVE ReservationInv'
  BY <1>0, <1>a, <1>d, SnapshotWithin DEF OpStepEnds, ReservationInv, Core, PickedIsHead
<1>e. {"stop", "destroy", "close", "hold", "rebuild", "reboot", "reset_ok", "reset_failed",
       "create", "boot", "ready", "create_failed", "boot_failed", "discard"} \subseteq Steps
      /\ {"failed", "done"} \subseteq TerminalStatuses
  BY DEF Steps, TerminalStatuses
<1>f. Idle.step = "idle"
  BY OpFields
<1>1. CASE StopVm
  <2>1. op.step = "stop" /\ op' = MoveTo("destroy") /\ UNCHANGED tables
    BY <1>1 DEF StopVm, Within
  <2> QED BY <1>0, <1>1, <1>d, <1>e, <2>1, MoveEnds DEF StopVm, Within, Stage
<1>2. CASE DestroyVm
  <2>1. op.step = "destroy" /\ Continue /\ UNCHANGED tables /\ UNCHANGED <<phase, todo>>
    BY <1>2 DEF DestroyVm, Within
  <2>2. Stage = op.next /\ op.next \in {"idle", "close", "boot_failed", "reaped", "defined"}
    BY <1>0, <2>1 DEF Stage, OperationOwnsRow
  <2>3. CASE op.next = "idle"
    <3>1. op' = Idle /\ UNCHANGED <<seat, request, lease>>
      BY <2>1, <2>3 DEF Continue, tables
    <3>2. Core'
      BY <1>0, <3>1, CoreTouch
    <3> QED BY <1>d, <2>1, <3>1, <3>2, OpFields DEF OpStepEnds, OperationOwnsRow, Stage
  <2>4. CASE op.next # "idle"
    <3>1. op' = MoveTo(op.next)
      BY <2>1, <2>4 DEF Continue
    <3> QED BY <1>0, <1>c, <1>d, <2>1, <2>2, <3>1, MoveEnds
  <2> QED BY <2>3, <2>4
<1>3. CASE Export
  <2>1. op.step = "export" /\ UNCHANGED tables /\ UNCHANGED <<phase, todo>>
    BY <1>3 DEF Export, Within
  <2>2. CASE op.next # "stop"
    <3>1. op' = Idle /\ UNCHANGED <<seat, request, lease>>
      BY <1>3, <2>1, <2>2 DEF Export, tables
    <3>2. Core'
      BY <1>0, <3>1, CoreTouch
    <3> QED BY <1>d, <2>1, <3>1, <3>2, OpFields DEF OpStepEnds, OperationOwnsRow, Stage
  <2>3. CASE op.next = "stop"
    <3>1. Stage = "close"
      BY <2>1, <2>3 DEF Stage
    <3>2. CASE op' = MoveTo("hold")
      BY <1>0, <1>d, <1>e, <2>1, <3>1, <3>2, MoveEnds
    <3>3. CASE op' = Teardown(op.seat, "close", op.status)
      <4>1. op'.seat = op.seat /\ op'.step = "stop" /\ op'.next = "close" /\ op'.status = op.status
        BY <1>b, <1>c, <1>e, <3>3, OpTypes, OpFields
      <4>2. UNCHANGED <<seat, request, lease>>
        BY <2>1 DEF tables
      <4>3. Core' /\ ActiveLease(op.seat)' = ActiveLease(op.seat)
        BY <1>0, <4>1, <4>2, CoreTouch DEF ActiveLease
      <4>4. OperationOwnsRow'
        BY <1>0, <3>1, <4>1, <4>2, <4>3 DEF OperationOwnsRow, Stage
      <4> QED BY <1>d, <2>1, <4>1, <4>2, <4>3, <4>4 DEF OpStepEnds
    <3> QED BY <1>3, <2>3, <3>2, <3>3 DEF Export
  <2> QED BY <2>2, <2>3
<1>4. CASE Hold
  <2> DEFINE row == [seat[op.seat] EXCEPT !.state = "held"]
  <2>1. row \in SeatRow /\ row.state = "held"
    BY <1>b, RowTypes DEF SeatRow, SeatStates
  <2>2. UpdateSeat(op.seat, row) /\ CloseLease(op.seat, "failed") /\ op' = Idle /\ UNCHANGED <<phase, todo>>
    BY <1>4 DEF Hold, Within
  <2> HIDE DEF row
  <2> QED BY <1>0, <1>b, <1>d, <1>e, <2>1, <2>2, CloseRowEnds
<1>5. CASE Close
  <2> DEFINE row == ClosedRow(seat[op.seat])
  <2>1. row \in SeatRow /\ row.state = "off" /\ row.pending = "none"
    BY <1>b, RowTypes, RowFields
  <2>2. /\ UpdateSeat(op.seat, row) /\ CloseLease(op.seat, op.status)
        /\ op.step = "close" /\ op' = Idle /\ UNCHANGED <<phase, todo>>
    BY <1>5 DEF Close, Within
  <2>3. op.status = "null" => ActiveLease(op.seat) = {}
    BY <1>0, <2>2 DEF OperationOwnsRow, Stage
  <2> HIDE DEF row
  <2> QED BY <1>0, <1>b, <1>c, <1>d, <2>1, <2>2, <2>3, CloseRowEnds
<1>6. CASE Discard
  <2>1. Begun(op.seat) /\ UNCHANGED <<phase, todo>>
    BY <1>0, <1>6, <1>b, BeginDiscardCore DEF Discard, Within
  <2> QED BY <1>d, <2>1 DEF Begun, OpStepEnds
<1>7. CASE Rebuild \/ Reboot
  <2>1. /\ op.step \in {"rebuild", "reboot"} /\ UNCHANGED tables /\ UNCHANGED <<phase, todo>>
        /\ \E step \in {"reboot", "reset_ok", "reset_failed"} : op' = MoveTo(step)
    BY <1>7 DEF Rebuild, Reboot, Within
  <2>2. Stage \in {"rebuild", "reboot"}
    BY <2>1 DEF Stage
  <2>3. PICK step \in {"reboot", "reset_ok", "reset_failed"} : op' = MoveTo(step)
    BY <2>1
  <2>4. OpStepEnds
    BY <1>0, <1>a, <1>e, <2>1, <2>2, <2>3, MoveEnds
  <2> QED BY <1>d, <2>1, <2>4
<1>8. CASE ResetOk
  <2>1. op.step = "reset_ok" /\ UNCHANGED <<phase, todo>>
    BY <1>8 DEF ResetOk, Within
  <2>2. seat[op.seat].state = "resetting"
    BY <1>0, <2>1 DEF OperationOwnsRow, Stage
  <2>3. CASE ReservationLive(op.seat)
    <3> DEFINE row == [seat[op.seat] EXCEPT !.state = "ready", !.pending = "none"]
    <3>1. row \in SeatRow
      BY <1>b, RowUpdates DEF SeatStates
    <3>2. row.state = "ready" /\ row.pending = "none"
      BY <1>b DEF SeatRow
    <3>3. UpdateSeat(op.seat, row) /\ UNCHANGED <<request, lease>> /\ op' = Idle
      BY <1>8, <2>2, <2>3 DEF ResetOk
    <3> HIDE DEF row
    <3>4. RequestsForSeat(op.seat) = {} \/ ActiveLease(op.seat) # {}
      BY <2>3 DEF ReservationLive
    <3>5. Core'
      BY <1>0, <1>b, <3>1, <3>2, <3>3, <3>4, CoreRow
    <3>6. others(op.seat)
      BY <3>3 DEF UpdateSeat, TypeOK, StoreTypeOK
    <3> QED BY <1>d, <2>1, <3>3, <3>5, <3>6, OpFields DEF OpStepEnds, OperationOwnsRow, Stage
  <2>4. CASE ~ReservationLive(op.seat)
    <3> DEFINE row == [OffRow(seat[op.seat]) EXCEPT !.pending = "none"]
    <3>1. row \in SeatRow
      BY <1>b, RowTypes
    <3>2. row.state = "off" /\ row.pending = "none"
      <4>1. OffRow(seat[op.seat]) \in SeatRow /\ OffRow(seat[op.seat]).state = "off"
        BY <1>b, RowTypes, RowFields
      <4> QED BY <4>1 DEF SeatRow
    <3>3. /\ UpdateSeat(op.seat, row) /\ CloseLease(op.seat, "null")
          /\ op' = Teardown(op.seat, "idle", "null")
      BY <1>8, <2>4 DEF ResetOk
    <3> HIDE DEF row
    <3>4. ActiveLease(op.seat) = {}
      BY <1>0, <2>4 DEF ReservationLive, Core, ClaimedIffLeased, ActiveLease, TerminalStatuses
    <3> QED BY <1>0, <1>b, <1>d, <2>1, <3>1, <3>2, <3>3, <3>4, CloseRowEnds
  <2> QED BY <2>3, <2>4
<1>9. CASE ResetFailed
  <2> DEFINE row == [seat[op.seat] EXCEPT !.state = "error", !.pending = "none"]
  <2>1. row \in SeatRow
    BY <1>b, RowUpdates DEF SeatStates
  <2>2. row.state = "error" /\ row.pending = "none"
    BY <1>b DEF SeatRow
  <2>3. /\ UpdateSeat(op.seat, row) /\ CloseLease(op.seat, "failed") /\ UNCHANGED <<phase, todo>>
        /\ op' = OpAt("discard", op.seat) \/ op' = Idle
    BY <1>9 DEF ResetFailed, Within
  <2> HIDE DEF row
  <2> QED BY <1>0, <1>b, <1>d, <1>e, <2>1, <2>2, <2>3, CloseRowEnds
<1>10. CASE Create
  <2>1. /\ op.step = "create" /\ UNCHANGED tables /\ UNCHANGED <<phase, todo>>
        /\ \E step \in {"boot", "create_failed"} : op' = MoveTo(step)
    BY <1>10 DEF Create, Within
  <2>2. Stage = "create"
    BY <2>1 DEF Stage
  <2>3. PICK step \in {"boot", "create_failed"} : op' = MoveTo(step)
    BY <2>1
  <2>4. OpStepEnds
    BY <1>0, <1>a, <1>e, <2>1, <2>2, <2>3, MoveEnds
  <2> QED BY <1>d, <2>1, <2>4
<1>11. CASE Boot
  <2>1. op.step = "boot" /\ UNCHANGED tables /\ UNCHANGED <<phase, todo>>
    BY <1>11 DEF Boot, Within
  <2>2. Stage = "boot"
    BY <2>1 DEF Stage
  <2>3. CASE op' = MoveTo("ready")
    <3>1. OpStepEnds
      BY <1>0, <1>a, <1>e, <2>1, <2>2, <2>3, MoveEnds
    <3> QED BY <1>d, <2>1, <3>1
  <2>4. CASE op' = Teardown(op.seat, "boot_failed", "null")
    <3>1. op'.seat = op.seat /\ op'.step = "stop" /\ op'.next = "boot_failed"
      BY <1>b, <1>e, <2>4, OpTypes, OpFields
    <3>2. UNCHANGED <<seat, request, lease>>
      BY <2>1 DEF tables
    <3>3. Core'
      BY <1>0, <3>2, CoreTouch
    <3>4. OperationOwnsRow'
      BY <1>0, <2>2, <3>1, <3>2 DEF OperationOwnsRow, Stage
    <3> QED BY <1>d, <2>1, <3>1, <3>2, <3>3, <3>4 DEF OpStepEnds
  <2> QED BY <1>11, <2>3, <2>4 DEF Boot
<1>12. CASE Provisioned
  <2>1. op.step = "ready" /\ UNCHANGED <<phase, todo, request, lease>>
    BY <1>12 DEF Provisioned, Within
  <2>2. seat[op.seat].state = "provisioning"
    BY <1>0, <2>1 DEF OperationOwnsRow, Stage
  <2>3. RequestsForSeat(op.seat) = {} \/ ActiveLease(op.seat) # {}
    BY <1>0, <1>b, <2>2 DEF Core, ServedSeatIsLeased
  <2>4. ReservationLive(op.seat)
    BY <1>0, <2>3 DEF ReservationLive, Core, ClaimedIffLeased, ActiveLease, TerminalStatuses
  <2> DEFINE row == [seat[op.seat] EXCEPT !.state = "ready", !.vm = TRUE]
  <2>5. row \in SeatRow
    BY <1>b, RowUpdates DEF SeatStates
  <2>6. row.state = "ready" /\ row.pending = seat[op.seat].pending
    BY <1>b DEF SeatRow
  <2>7. UpdateSeat(op.seat, row) /\ op' = Idle
    BY <1>12, <2>2, <2>4 DEF Provisioned
  <2> HIDE DEF row
  <2>8. seat[op.seat].pending # "release"
    BY <1>0, <1>b, <2>2 DEF Core, PendingReleaseStands
  <2>9. Core'
    BY <1>0, <1>b, <2>1, <2>3, <2>5, <2>6, <2>7, <2>8, CoreRow
  <2>10. others(op.seat)
    BY <2>7 DEF UpdateSeat, TypeOK, StoreTypeOK
  <2> QED BY <1>d, <2>1, <2>7, <2>9, <2>10, OpFields DEF OpStepEnds, OperationOwnsRow, Stage
<1>13. CASE ProvisionFailed
  <2> PICK step \in {"create_failed", "boot_failed"} :
        /\ Within(step)
        /\ UpdateSeat(op.seat, [seat[op.seat] EXCEPT !.state = "error",
                                                     !.vm = (step = "boot_failed"),
                                                     !.attempts = @ + 1])
        /\ CloseLease(op.seat, "failed")
        /\ op' = Idle
    BY <1>13 DEF ProvisionFailed
  <2> DEFINE row == [seat[op.seat] EXCEPT !.state = "error", !.vm = (step = "boot_failed"),
                                          !.attempts = @ + 1]
  <2>1. row \in SeatRow
    BY <1>b, RowUpdates DEF SeatStates
  <2>2. row.state = "error" /\ row.pending = seat[op.seat].pending
    BY <1>b DEF SeatRow
  <2>3. UpdateSeat(op.seat, row) /\ UNCHANGED <<phase, todo>>
    BY DEF Within
  <2> HIDE DEF row
  <2>4. seat[op.seat].state = "provisioning"
    BY <1>0 DEF OperationOwnsRow, Stage, Within
  <2>5. seat[op.seat].pending # "release"
    BY <1>0, <1>b, <2>4 DEF Core, PendingReleaseStands
  <2> QED BY <1>0, <1>b, <1>d, <1>e, <2>1, <2>2, <2>3, <2>5, CloseRowEnds
<1>14. CASE Reaped
  <2>1. op.step = "reaped" /\ op' = Idle /\ UNCHANGED <<phase, todo>>
    BY <1>14 DEF Reaped, Within
  <2>2. seat[op.seat].state = "error"
    BY <1>0, <2>1 DEF OperationOwnsRow, Stage
  <2>3. seat[op.seat].pending # "release"
    BY <1>0, <1>b, <2>2 DEF Core, PendingReleaseStands
  <2>4. CASE UpdateSeat(op.seat, OffRow(seat[op.seat])) /\ CloseLease(op.seat, "failed")
    <3> DEFINE row == OffRow(seat[op.seat])
    <3>1. row \in SeatRow /\ row.state = "off" /\ row.pending = seat[op.seat].pending
      BY <1>b, RowTypes, RowFields
    <3> HIDE DEF row
    <3>2. UpdateSeat(op.seat, row)
      BY <2>4 DEF row
    <3> QED BY <1>0, <1>b, <1>d, <1>e, <2>1, <2>3, <2>4, <3>1, <3>2, CloseRowEnds
  <2>5. CASE /\ RequestsForSeat(op.seat) = {}
             /\ UpdateSeat(op.seat, [seat[op.seat] EXCEPT !.state = "queued", !.vm = FALSE])
             /\ UNCHANGED <<request, lease>>
    <3> DEFINE row == [seat[op.seat] EXCEPT !.state = "queued", !.vm = FALSE]
    <3>1. row \in SeatRow
      BY <1>b, RowUpdates DEF SeatStates
    <3>2. row.state = "queued" /\ row.pending = seat[op.seat].pending
      BY <1>b DEF SeatRow
    <3> HIDE DEF row
    <3>3. UpdateSeat(op.seat, row)
      BY <2>5 DEF row
    <3>4. Core'
      BY <1>0, <1>b, <2>3, <2>5, <3>1, <3>2, <3>3, CoreRow
    <3>5. others(op.seat)
      BY <3>3 DEF UpdateSeat, TypeOK, StoreTypeOK
    <3> QED BY <1>d, <2>1, <3>4, <3>5, OpFields DEF OpStepEnds, OperationOwnsRow, Stage
  <2>6. CASE UNCHANGED tables
    <3>1. UNCHANGED <<seat, request, lease>>
      BY <2>6 DEF tables
    <3>2. Core'
      BY <1>0, <3>1, CoreTouch
    <3> QED BY <1>d, <2>1, <3>1, <3>2, OpFields DEF OpStepEnds, OperationOwnsRow, Stage
  <2> QED BY <1>14, <2>4, <2>5, <2>6 DEF Reaped
<1>15. CASE AssignIdle
  <2>1. op.step = "claim" /\ op' = Idle /\ UNCHANGED seat
    BY <1>15 DEF AssignIdle
  <2>2. op.req \in Requests /\ NextWaiting(op.req)
    BY <1>0, <2>1 DEF PickedIsHead
  <2>3. PickedIsHead' /\ OperationOwnsRow'
    BY <2>1, OpFields DEF PickedIsHead, OperationOwnsRow, Stage
  <2>4. CASE op.seat \in IdleSeats
    <3>1. ClaimFor(op.req, op.seat) /\ UNCHANGED <<phase, todo>>
      BY <1>15, <2>4 DEF AssignIdle
    <3>2. seat[op.seat].state = "ready" /\ ActiveLease(op.seat) = {}
      BY <2>4 DEF IdleSeats
    <3>3. RequestsForSeat(op.seat) = {} /\ seat[op.seat].pending # "release"
      BY <1>0, <1>b, <3>2 DEF Core, ServedSeatIsLeased, PendingReleaseStands
    <3>4. Core'
      BY <1>0, <1>b, <2>1, <2>2, <3>1, <3>2, <3>3, CoreClaim
    <3>5. SnapshotStands'
      BY <1>0, <1>a, <2>1, <3>1, OpFields, SnapshotWithin
    <3> QED BY <2>3, <3>4, <3>5 DEF ReservationInv, Core
  <2>5. CASE op.seat \notin IdleSeats
    <3>1. Enter("admit_waiting") /\ UNCHANGED <<request, lease>>
      BY <1>15, <2>5 DEF AssignIdle
    <3>2. Core'
      BY <1>0, <2>1, <3>1, CoreTouch
    <3>3. SnapshotStands'
      BY <2>1, <3>1, OpFields, SnapshotEnter DEF Phases
    <3> QED BY <2>3, <3>2, <3>3 DEF ReservationInv, Core
  <2> QED BY <2>4, <2>5
<1>16. CASE DefinedDestroyed
  <2> DEFINE row == [seat[op.seat] EXCEPT !.state = "error", !.vm = TRUE]
  <2>1. row \in SeatRow
    BY <1>b, RowUpdates DEF SeatStates
  <2>2. row.state = "error" /\ row.pending = seat[op.seat].pending
    BY <1>b DEF SeatRow
  <2>3. /\ op.step = "defined" /\ UpdateSeat(op.seat, row) /\ CloseLease(op.seat, "failed")
        /\ op' = Idle /\ UNCHANGED <<phase, todo>>
    BY <1>16 DEF DefinedDestroyed, Within
  <2> HIDE DEF row
  <2>4. seat[op.seat].state = "provisioning"
    BY <1>0, <2>3 DEF OperationOwnsRow, Stage
  <2>5. seat[op.seat].pending # "release"
    BY <1>0, <1>b, <2>4 DEF Core, PendingReleaseStands
  <2> QED BY <1>0, <1>b, <1>d, <1>e, <2>1, <2>2, <2>3, <2>5, CloseRowEnds
<1> QED BY <1>1, <1>2, <1>3, <1>4, <1>5, <1>6, <1>7, <1>8, <1>9, <1>10, <1>11, <1>12, <1>13,
           <1>14, <1>15, <1>16 DEF OpNext

\* The turn of seat s, or a job on it, preserves ReservationInv when it leaves what
\* Begun asks for.
LEMMA TurnSound ==
    ASSUME TypeOK, ReservationInv, NEW s \in Seats, Begun(s), op = Idle,
           \/ phase \in Phases \ {"down"} /\ Turn(phase, s) /\ Visited(s)
           \/ phase = "drain_jobs" /\ UNCHANGED <<phase, todo>>
    PROVE  ReservationInv'
<1>1. SnapshotStands /\ PickedIsHead
  BY DEF ReservationInv
<1>2. SnapshotStands'
  BY <1>1, SnapshotTurn, SnapshotJob DEF Begun
<1>3. PickedIsHead'
  BY DEF Begun, PickedIsHead
<1> QED BY <1>2, <1>3 DEF Begun, ReservationInv, Core

\* A turn that closes the row at once leaves what Begun asks for.
LEMMA CloseRowBegun ==
    ASSUME TypeOK, Core, NEW s \in Seats,
           NEW status \in TerminalStatuses \cup {"null"},
           CloseLease(s, status), status = "null" => ActiveLease(s) = {},
           NEW row \in SeatRow, UpdateSeat(s, row),
           row.state \in {"off", "held", "error", "releasing", "resetting"},
           row.pending = "release" => row.state \in {"releasing", "held"},
           op' \in {Idle, Teardown(s, "idle", "null"), OpAt("export", s)}
    PROVE  Begun(s)
<1>1. Core'
  BY CoreClose
<1>2. \A t \in Seats \ {s} : seat'[t] = seat[t]
  BY DEF UpdateSeat, TypeOK, StoreTypeOK
<1>3. op'.step # "idle" => op'.seat = s
  BY OpFields, OpTypes DEF Steps
<1>4. OperationOwnsRow' /\ op'.step # "claim"
  BY OpFields DEF OperationOwnsRow, Stage
<1> QED BY <1>1, <1>2, <1>3, <1>4 DEF Begun

\* reconcile preserves ReservationInv, whatever list_vms() reported.
LEMMA ReconcileSound == TypeOK /\ ReservationInv /\ ReconcileNext => ReservationInv'
<1> SUFFICES ASSUME TypeOK, ReservationInv, ReconcileNext PROVE ReservationInv'
  OBVIOUS
<1>0. Core /\ PickedIsHead /\ OperationOwnsRow /\ SnapshotStands
  BY DEF ReservationInv, Core
<1>a. ASSUME NEW s \in Seats PROVE seat[s] \in SeatRow
  BY DEF TypeOK, StoreTypeOK
<1>b. Idle.step = "idle" /\ {"reconcile_rows", "reconcile_orphans"} \subseteq Phases \ {"down"}
      /\ "failed" \in TerminalStatuses
  BY OpFields DEF Phases, TerminalStatuses
<1>1. ASSUME BeginReconcile, op = Idle PROVE ReservationInv'
  <2>1. /\ UNCHANGED <<seat, request, lease>> /\ op' = Idle
        /\ phase' = "reconcile_orphans"
    BY <1>1 DEF BeginReconcile, tables
  <2>2. Core'
    BY <1>0, <2>1, CoreTouch
  <2>3. PickedIsHead' /\ OperationOwnsRow' /\ SnapshotStands'
    BY <2>1, OpFields DEF PickedIsHead, OperationOwnsRow, Stage, SnapshotStands
  <2> QED BY <2>2, <2>3 DEF ReservationInv, Core
<1>2. ASSUME Start PROVE ReservationInv'
  BY <1>0, <1>1, <1>2 DEF Start, SnapshotStands
<1>3. ASSUME StartUnreconciled PROVE ReservationInv'
  <2>1. /\ UNCHANGED <<seat, request, lease>> /\ op' = Idle
        /\ Enter("resume_interrupted")
    BY <1>0, <1>3 DEF StartUnreconciled, SnapshotStands, tables
  <2>2. Core'
    BY <1>0, <2>1, CoreTouch
  <2>3. SnapshotStands'
    BY <2>1, OpFields, SnapshotEnter DEF Phases
  <2>4. PickedIsHead' /\ OperationOwnsRow'
    BY <2>1, OpFields DEF PickedIsHead, OperationOwnsRow, Stage
  <2> QED BY <2>2, <2>3, <2>4 DEF ReservationInv, Core
<1>4. ASSUME NEW s \in Seats, DestroyOrphan(s) PROVE ReservationInv'
  <2>1. /\ UNCHANGED <<seat, request, lease>> /\ op' = Teardown(s, "idle", "null")
        /\ Turn("reconcile_orphans", s) /\ Visited(s)
    BY <1>4 DEF DestroyOrphan, tables
  <2>2. Core'
    BY <1>0, <2>1, CoreTouch
  <2>3. Begun(s)
    BY <2>1, <2>2, OpFields, OpTypes DEF Begun, OperationOwnsRow, Stage, Steps
  <2> QED BY <1>b, <2>1, <2>3, TurnSound DEF Turn
<1>5. ASSUME NEW s \in Seats, AdoptRunning(s) PROVE ReservationInv'
  <2> DEFINE row == [seat[s] EXCEPT !.state = "ready", !.vm = TRUE]
  <2>1. row \in SeatRow
    BY <1>a, RowUpdates DEF SeatStates
  <2>2. row.state = "ready" /\ row.pending = seat[s].pending
    BY <1>a DEF SeatRow
  <2>3. /\ UpdateSeat(s, row) /\ UNCHANGED <<request, lease, op>>
        /\ Turn("reconcile_rows", s) /\ Visited(s) /\ seat[s].state = "provisioning"
    BY <1>5 DEF AdoptRunning, Adopts
  <2> HIDE DEF row
  <2>4. /\ seat[s].pending # "release"
        /\ RequestsForSeat(s) = {} \/ ActiveLease(s) # {}
    BY <1>0, <2>3 DEF Core, PendingReleaseStands, ServedSeatIsLeased
  <2>5. Core'
    BY <1>0, <2>1, <2>2, <2>3, <2>4, CoreRow
  <2>6. \A t \in Seats \ {s} : seat'[t] = seat[t]
    BY <2>3 DEF UpdateSeat, TypeOK, StoreTypeOK
  <2>7. op' = Idle
    BY <2>3 DEF Turn
  <2>8. Begun(s)
    BY <2>5, <2>6, <2>7, OpFields DEF Begun, OperationOwnsRow, Stage
  <2> QED BY <1>b, <2>3, <2>8, TurnSound DEF Turn
<1>6. ASSUME NEW s \in Seats, DestroyDefined(s) PROVE ReservationInv'
  <2>1. /\ UNCHANGED <<seat, request, lease>> /\ op' = Teardown(s, "defined", "null")
        /\ Turn("reconcile_rows", s) /\ Visited(s) /\ seat[s].state = "provisioning"
    BY <1>6 DEF DestroyDefined, DefinedOnly, tables
  <2>2. Core'
    BY <1>0, <2>1, CoreTouch
  <2>3. op'.seat = s /\ op'.step = "stop" /\ op'.next = "defined"
    BY <2>1, OpFields, OpTypes DEF Steps
  <2>4. Begun(s)
    BY <2>1, <2>2, <2>3 DEF Begun, OperationOwnsRow, Stage
  <2> QED BY <1>b, <2>1, <2>4, TurnSound DEF Turn
<1>7. ASSUME NEW s \in Seats, ErrorDead(s) PROVE ReservationInv'
  <2> DEFINE row == [seat[s] EXCEPT !.state = "error"]
  <2>1. row \in SeatRow /\ row.state = "error" /\ row.pending = seat[s].pending
    BY <1>a, RowTypes DEF SeatRow, SeatStates
  <2>2. /\ UpdateSeat(s, row) /\ CloseLease(s, "failed") /\ op' = op
        /\ Turn("reconcile_rows", s) /\ Visited(s) /\ IsDead(s)
    BY <1>7 DEF ErrorDead
  <2> HIDE DEF row
  <2>3. seat[s].pending # "release"
    BY <1>0, <2>2 DEF IsDead, Core, PendingReleaseStands
  <2>4. Begun(s)
    BY <1>0, <1>b, <2>1, <2>2, <2>3, CloseRowBegun DEF Turn
  <2> QED BY <1>b, <2>2, <2>4, TurnSound DEF Turn
<1>8. ASSUME NEW s \in Seats, CloseGone(s) PROVE ReservationInv'
  <2> DEFINE row == ClosedRow(seat[s])
  <2>1. row \in SeatRow /\ row.state = "off" /\ row.pending = "none"
    BY <1>a, RowTypes, RowFields
  <2>2. /\ UpdateSeat(s, row) /\ CloseLease(s, "failed") /\ op' = op
        /\ Turn("reconcile_rows", s) /\ Visited(s)
    BY <1>8 DEF CloseGone
  <2> HIDE DEF row
  <2>3. Begun(s)
    BY <1>0, <1>b, <2>1, <2>2, CloseRowBegun DEF Turn
  <2> QED BY <1>b, <2>2, <2>3, TurnSound DEF Turn
<1> QED BY <1>2, <1>3, <1>4, <1>5, <1>6, <1>7, <1>8 DEF ReconcileNext

\* The methods of pump() preserve ReservationInv.
LEMMA PumpSound == TypeOK /\ ReservationInv /\ PumpNext => ReservationInv'
<1> SUFFICES ASSUME TypeOK, ReservationInv, PumpNext PROVE ReservationInv'
  OBVIOUS
<1>0. Core /\ PickedIsHead /\ OperationOwnsRow /\ SnapshotStands
  BY DEF ReservationInv, Core
<1>a. ASSUME NEW s \in Seats
      PROVE  /\ seat[s] \in SeatRow
             /\ seat[s].status \in TerminalStatuses \cup {"null"} /\ seat[s].export \in BOOLEAN
  BY DEF TypeOK, StoreTypeOK, SeatRow
<1>b. Idle.step = "idle" /\ {"reaped", "create", "idle"} \subseteq Steps
      /\ {"expired", "failed"} \subseteq TerminalStatuses
      /\ {"resume_interrupted", "reconcile_resume", "reap_errors", "reap_held", "reclaim_expired",
          "evict_idle", "provision_queued", "reconcile_rows"} \subseteq Phases \ {"down"}
  BY OpFields DEF Phases, TerminalStatuses, Steps
<1>c. ASSUME UNCHANGED <<seat, request, lease, op>>, op = Idle, SnapshotStands'
      PROVE  ReservationInv'
  <2>1. Core'
    BY <1>0, <1>c, CoreTouch
  <2> QED BY <1>c, <2>1, OpFields DEF ReservationInv, Core, PickedIsHead, OperationOwnsRow, Stage
<1>1. ASSUME Advance PROVE ReservationInv'
  <2>1. /\ UNCHANGED <<seat, request, lease, op>> /\ op = Idle
        /\ phase \in Phases \ {"down"} /\ Enter(Follow[phase])
    BY <1>1 DEF Advance, tables, TypeOK
  <2>2. Follow[phase] \in Phases \ {"down"}
    BY <2>1 DEF Follow, Phases
  <2>3. SnapshotStands'
    BY <1>b, <2>1, <2>2, SnapshotEnter
  <2> QED BY <1>c, <2>1, <2>3
<1>2. ASSUME NEW p \in {"resume_interrupted", "reconcile_resume"}, NEW s \in Seats,
             ResumeRelease(p, s)
      PROVE  ReservationInv'
  <2>1. Turn(p, s) /\ Visited(s) /\ seat[s].state = "releasing" /\ op = Idle /\ phase = p
    BY <1>2 DEF ResumeRelease, Turn
  <2>2. seat[s].pending = "release"
    BY <1>0, <2>1 DEF SnapshotStands, Turn, Lowest
  <2>3. seat[s].status = "null" => ActiveLease(s) = {}
    BY <1>0, <2>2 DEF Core, PendingReleaseStands
  <2>4. CASE /\ UpdateSeat(s, ClosedRow(seat[s]))
             /\ CloseLease(s, seat[s].status)
             /\ op' = IF seat[s].vm THEN Teardown(s, "idle", "null") ELSE Idle
    <3> DEFINE row == ClosedRow(seat[s])
    <3>1. row \in SeatRow /\ row.state = "off" /\ row.pending = "none"
      BY <1>a, RowTypes, RowFields
    <3>2. UpdateSeat(s, row)
      BY <2>4
    <3> HIDE DEF row
    <3>3. op' \in {Idle, Teardown(s, "idle", "null"), OpAt("export", s)}
      BY <2>4
    <3>4. Begun(s)
      BY <1>0, <1>a, <2>3, <2>4, <3>1, <3>2, <3>3, CloseRowBegun
    <3> QED BY <1>b, <2>1, <3>4, TurnSound
  <2>5. CASE BeginRelease(s, seat[s].export, seat[s].status, wish[s])
    <3>1. Begun(s)
      BY <1>0, <1>a, <2>3, <2>5, BeginReleaseCore
    <3> QED BY <1>b, <2>1, <3>1, TurnSound
  <2> QED BY <1>2, <2>4, <2>5 DEF ResumeRelease
<1>3. ASSUME NEW p \in {"resume_interrupted", "reconcile_resume"}, NEW s \in Seats,
             ResumeReset(p, s)
      PROVE  ReservationInv'
  <2>1. Turn(p, s) /\ Visited(s) /\ op = Idle /\ phase = p /\ BeginReset(s, TRUE)
    BY <1>3 DEF ResumeReset, Turn
  <2>2. Begun(s)
    BY <1>0, <2>1, BeginResetCore
  <2> QED BY <1>b, <2>1, <2>2, TurnSound
<1>4. ASSUME NEW s \in Seats, ReapError(s) PROVE ReservationInv'
  <2>1. /\ Turn("reap_errors", s) /\ Visited(s) /\ op = Idle /\ phase = "reap_errors"
        /\ UNCHANGED <<seat, request, lease>>
        /\ op' \in {Teardown(s, "reaped", "null"), OpAt("reaped", s)}
    BY <1>4 DEF ReapError, Turn, tables
  <2>2. seat[s].state = "error"
    BY <1>0, <2>1 DEF SnapshotStands, Turn, Lowest
  <2>3. op'.seat = s /\ (op'.step = "reaped" \/ (op'.step = "stop" /\ op'.next = "reaped"))
    <3>1. CASE op' = Teardown(s, "reaped", "null")
      BY <1>b, <3>1, OpTypes, OpFields
    <3>2. CASE op' = OpAt("reaped", s)
      BY <1>b, <3>2, OpTypes, OpFields
    <3> QED BY <2>1, <3>1, <3>2
  <2>4. Core'
    BY <1>0, <2>1, CoreTouch
  <2>5. Begun(s)
    BY <2>1, <2>2, <2>3, <2>4 DEF Begun, OperationOwnsRow, Stage
  <2> QED BY <1>b, <2>1, <2>5, TurnSound
<1>5. ASSUME NEW s \in Seats, ReapHeld(s) PROVE ReservationInv'
  <2>1. /\ Turn("reap_held", s) /\ Visited(s) /\ op = Idle /\ phase = "reap_held"
        /\ BeginRelease(s, FALSE, "expired", "discard")
    BY <1>5 DEF ReapHeld, Turn
  <2>2. Begun(s)
    BY <1>0, <1>b, <2>1, BeginReleaseCore
  <2> QED BY <1>b, <2>1, <2>2, TurnSound
<1>6. ASSUME NEW s \in Seats, Reclaim(s) PROVE ReservationInv'
  <2>1. /\ Turn("reclaim_expired", s) /\ Visited(s) /\ op = Idle /\ phase = "reclaim_expired"
        /\ CloseLease(s, "expired")
    BY <1>6 DEF Reclaim, Turn
  <2>2. CASE seat[s].vm
    <3> DEFINE row == [seat[s] EXCEPT !.state = "held", !.pending = "release",
                                      !.export = seat[s].intent, !.status = "expired"]
    <3>1. seat[s].intent \in BOOLEAN
      BY <1>a DEF SeatRow
    <3>2. row \in SeatRow
      BY <1>a, <1>b, <3>1, RowUpdates DEF SeatStates
    <3>3. row.state = "held"
      BY <1>a DEF SeatRow
    <3>4. UpdateSeat(s, row) /\ op' \in {Idle, OpAt("export", s)}
      BY <1>6, <2>1, <2>2 DEF Reclaim
    <3> HIDE DEF row
    <3>5. Begun(s)
      BY <1>0, <1>b, <2>1, <3>2, <3>3, <3>4, CloseRowBegun
    <3> QED BY <1>b, <2>1, <3>5, TurnSound
  <2>3. CASE ~seat[s].vm
    <3> DEFINE row == [ClosedRow(seat[s]) EXCEPT !.intent = FALSE]
    <3>1. row \in SeatRow
      BY <1>a, RowTypes
    <3>2. row.state = "off" /\ row.pending = "none"
      <4>1. ClosedRow(seat[s]) \in SeatRow
        BY <1>a, RowTypes
      <4> QED BY <1>a, <4>1, RowFields DEF SeatRow
    <3>3. UpdateSeat(s, row) /\ op' = op
      BY <1>6, <2>3 DEF Reclaim
    <3> HIDE DEF row
    <3>4. Begun(s)
      BY <1>0, <1>b, <2>1, <3>1, <3>2, <3>3, CloseRowBegun
    <3> QED BY <1>b, <2>1, <3>4, TurnSound
  <2> QED BY <2>2, <2>3
<1>7. ASSUME NEW s \in Seats, Evict(s) PROVE ReservationInv'
  <2>1. /\ Turn("evict_idle", s) /\ Visited(s) /\ op = Idle /\ phase = "evict_idle"
        /\ BeginRelease(s, FALSE, "null", "discard") /\ ActiveLease(s) = {}
    BY <1>7 DEF Evict, Turn, IdleSeats
  <2>2. Begun(s)
    BY <1>0, <2>1, BeginReleaseCore
  <2> QED BY <1>b, <2>1, <2>2, TurnSound
<1>8. ASSUME NEW s \in Seats, Provision(s) PROVE ReservationInv'
  <2> DEFINE row == [seat[s] EXCEPT !.state = "provisioning"]
  <2>1. row \in SeatRow /\ row.state = "provisioning" /\ row.pending = seat[s].pending
    BY <1>a, RowTypes DEF SeatRow, SeatStates
  <2>2. /\ Turn("provision_queued", s) /\ Visited(s) /\ op = Idle /\ phase = "provision_queued"
        /\ UpdateSeat(s, row) /\ op' = OpAt("create", s) /\ UNCHANGED <<request, lease>>
    BY <1>8 DEF Provision, Turn
  <2> HIDE DEF row
  <2>3. seat[s].state = "queued"
    BY <1>0, <2>2 DEF SnapshotStands, Turn, Lowest
  <2>4. seat[s].pending # "release" /\ (RequestsForSeat(s) = {} \/ ActiveLease(s) # {})
    BY <1>0, <2>3 DEF Core, PendingReleaseStands, ServedSeatIsLeased
  <2>5. Core'
    BY <1>0, <2>1, <2>2, <2>4, CoreRow
  <2>6. seat'[s] = row /\ \A t \in Seats \ {s} : seat'[t] = seat[t]
    BY <2>2 DEF UpdateSeat, TypeOK, StoreTypeOK
  <2>7. op'.seat = s /\ op'.step = "create"
    BY <1>b, <2>2, OpTypes, OpFields
  <2>8. Begun(s)
    BY <2>1, <2>5, <2>6, <2>7 DEF Begun, OperationOwnsRow, Stage
  <2> QED BY <1>b, <2>2, <2>8, TurnSound
<1>9. ASSUME NEW s \in Seats, Prewarm(s) PROVE ReservationInv'
  <2> DEFINE row == NewRow(DefaultImage)
  <2>1. row \in SeatRow /\ row.state = "queued" /\ row.pending = "none"
    BY StoreAssumption, NewRowTypes DEF NewRow, AbsentSeat
  <2>2. /\ phase = "ensure_min" /\ UpdateSeat(s, row) /\ op = Idle
        /\ UNCHANGED <<request, lease, phase, todo, op>> /\ seat[s].state = "absent"
    BY <1>9 DEF Prewarm, worker, Prewarmable, NextSeatId
  <2> HIDE DEF row
  <2>3. RequestsForSeat(s) = {}
    BY <1>0, <2>2 DEF Core, IdsGoUp
  <2>4. ActiveLease(s) = {}
    BY <2>3 DEF ActiveLease, RequestsForSeat
  <2>5. Core'
    BY <1>0, <2>1, <2>2, <2>3, <2>4, CoreRow
  <2>6. SnapshotStands'
    BY <1>0, <2>2, SnapshotJob
  <2> QED BY <2>2, <2>5, <2>6, OpFields DEF ReservationInv, Core, PickedIsHead, OperationOwnsRow, Stage
<1>10. ASSUME NEW s \in Seats, Skip(s) PROVE ReservationInv'
  <2>1. PICK p \in {"reconcile_rows", "reap_held", "reclaim_expired", "evict_idle"} : PassOver(p, s)
    BY <1>10 DEF Skip, SkipReconciled, SkipHeld, SkipReclaim, SkipEvict
  <2>2. UNCHANGED <<seat, request, lease, op>> /\ op = Idle /\ Turn(p, s) /\ Visited(s)
    BY <2>1 DEF PassOver, Turn, tables
  <2>3. SnapshotStands'
    BY <1>0, <1>b, <2>1, <2>2, SnapshotTurn
  <2> QED BY <1>c, <2>2, <2>3
<1>11. ASSUME NEW r \in Requests, NEW s \in Seats, PickIdle(r, s) PROVE ReservationInv'
  <2>1. /\ phase = "assign_idle" /\ op' = Claiming(r, s) /\ NextWaiting(r)
        /\ UNCHANGED <<seat, request, lease, phase, todo>>
    BY <1>11 DEF PickIdle, Assignable, tables
  <2>2. Core'
    BY <1>0, <2>1, CoreTouch
  <2>3. SnapshotStands'
    BY <1>0, <2>1, SnapshotJob
  <2>4. op'.step = "claim" /\ op'.req = r
    BY <2>1, OpFields
  <2>5. PickedIsHead'
    BY <2>1, <2>4 DEF PickedIsHead, NextWaiting
  <2>6. OperationOwnsRow'
    BY <2>4 DEF OperationOwnsRow, Stage
  <2> QED BY <2>2, <2>3, <2>5, <2>6 DEF ReservationInv, Core
<1>12. ASSUME NEW r \in Requests, NEW s \in Seats, AdmitWaiting(r, s) PROVE ReservationInv'
  <2>1. /\ phase = "admit_waiting" /\ UNCHANGED <<phase, todo, op>> /\ op = Idle
        /\ NextWaiting(r) /\ ClaimFor(r, s) /\ UpdateSeat(s, NewRow(request[r].image))
        /\ seat[s].state = "absent"
    BY <1>12 DEF AdmitWaiting, Admissible, NextSeatId, worker
  <2>2. /\ seat'[s] = NewRow(request[r].image)
        /\ \A t \in Seats \ {s} : seat'[t] = seat[t]
    BY <2>1 DEF UpdateSeat, TypeOK, StoreTypeOK
  <2>3. seat'[s].state = "queued" /\ seat'[s].pending = "none"
    BY <2>2 DEF NewRow, AbsentSeat
  <2>4. RequestsForSeat(s) = {}
    BY <1>0, <2>1 DEF Core, IdsGoUp
  <2>5. Core'
    BY <1>0, <2>1, <2>2, <2>3, <2>4, CoreClaim
  <2>6. SnapshotStands'
    BY <1>0, <2>1, SnapshotJob
  <2> QED BY <2>1, <2>5, <2>6, OpFields DEF ReservationInv, Core, PickedIsHead, OperationOwnsRow, Stage
<1> QED BY <1>1, <1>2, <1>3, <1>4, <1>5, <1>6, <1>7, <1>8, <1>9, <1>10, <1>11, <1>12 DEF PumpNext

\* The queued jobs preserve ReservationInv, in whatever state they find the seat.
LEMMA JobSound == TypeOK /\ ReservationInv /\ JobNext => ReservationInv'
<1> SUFFICES ASSUME TypeOK, ReservationInv, JobNext PROVE ReservationInv'
  OBVIOUS
<1>0. Core /\ PickedIsHead /\ OperationOwnsRow /\ SnapshotStands
  BY DEF ReservationInv, Core
<1>b. {"done", "cancelled"} \subseteq TerminalStatuses
  BY DEF TerminalStatuses
<1>1. ASSUME NEW s \in Seats, JobRelease(s) PROVE ReservationInv'
  <2>1. Begun(s)
    BY <1>0, <1>b, <1>1, BeginReleaseCore DEF JobRelease
  <2> QED BY <1>1, <2>1, TurnSound DEF JobRelease, Draining, Job
<1>2. ASSUME NEW s \in Seats, JobDrop(s) PROVE ReservationInv'
  <2>1. Begun(s)
    BY <1>0, <1>b, <1>2, BeginReleaseCore DEF JobDrop
  <2> QED BY <1>2, <2>1, TurnSound DEF JobDrop, Draining, Job
<1>3. ASSUME NEW s \in Seats, JobReset(s) PROVE ReservationInv'
  <2>1. Begun(s)
    BY <1>0, <1>3, BeginResetCore DEF JobReset
  <2> QED BY <1>3, <2>1, TurnSound DEF JobReset, Draining, Job
<1>4. ASSUME NEW s \in Seats, JobExport(s) PROVE ReservationInv'
  <2> DEFINE row == [seat[s] EXCEPT !.intent = TRUE]
  <2>1. seat[s] \in SeatRow
    BY DEF TypeOK, StoreTypeOK
  <2>2. row.state = seat[s].state /\ row.pending = seat[s].pending /\ row.status = seat[s].status
    BY <2>1 DEF SeatRow
  <2>3. /\ UpdateSeat(s, row) /\ UNCHANGED <<request, lease>> /\ op' = OpAt("export", s)
        /\ op = Idle /\ phase = "drain_jobs" /\ UNCHANGED <<phase, todo>>
    BY <1>4 DEF JobExport, Draining, Job
  <2> HIDE DEF row
  <2>4. \A t \in Seats : /\ seat'[t].state = seat[t].state /\ seat'[t].pending = seat[t].pending
                         /\ seat'[t].status = seat[t].status
    BY <2>2, <2>3 DEF UpdateSeat, TypeOK, StoreTypeOK
  <2>5. \A t \in Seats : ActiveLease(t)' = ActiveLease(t) /\ RequestsForSeat(t)' = RequestsForSeat(t)
    BY <2>3 DEF ActiveLease, RequestsForSeat
  <2>6. Core'
    BY <1>0, <2>3, <2>4, <2>5 DEF Core, ClaimedIffLeased, LeasedSeatLives, SeatServesOneRequest,
       ServedSeatIsLeased, IdsGoUp, PendingReleaseStands
  <2>7. \A t \in Seats \ {s} : seat'[t] = seat[t]
    BY <2>3 DEF UpdateSeat, TypeOK, StoreTypeOK
  <2>8. Begun(s)
    BY <2>3, <2>6, <2>7, OpFields, OpTypes DEF Begun, OperationOwnsRow, Stage, Steps
  <2> QED BY <2>3, <2>8, TurnSound
<1>5. ASSUME NEW s \in Seats, JobRetry(s) PROVE ReservationInv'
  <2>1. seat[s].status \in TerminalStatuses \cup {"null"} /\ seat[s].export \in BOOLEAN
    BY DEF TypeOK, StoreTypeOK, SeatRow
  <2>2. seat[s].status = "null" => ActiveLease(s) = {}
    BY <1>0, <1>5 DEF JobRetry, Core, PendingReleaseStands
  <2>3. Begun(s)
    BY <1>0, <1>5, <2>1, <2>2, BeginReleaseCore DEF JobRetry
  <2> QED BY <1>5, <2>3, TurnSound DEF JobRetry, Draining, Job
<1>6. ASSUME NEW s \in Seats, JobDiscard(s) PROVE ReservationInv'
  <2>1. Begun(s)
    BY <1>0, <1>6, BeginDiscardCore DEF JobDiscard
  <2> QED BY <1>6, <2>1, TurnSound DEF JobDiscard, Draining, Job
<1>7. ASSUME NEW r \in Requests, JobCancel(r) PROVE ReservationInv'
  <2>1. op = Idle /\ phase = "drain_jobs" /\ UNCHANGED <<phase, todo>>
    BY <1>7 DEF JobCancel, Draining, Job
  <2>2. CASE request[r].status = "waiting"
    <3>1. /\ request' = [request EXCEPT ![r].status = "cancelled"]
          /\ UNCHANGED <<seat, lease, op>>
      BY <1>7, <2>2 DEF JobCancel
    <3>2. Core'
      BY <1>0, <2>2, <3>1, CoreCancel
    <3>3. SnapshotStands'
      BY <1>0, <2>1, SnapshotJob
    <3> QED BY <2>1, <3>1, <3>2, <3>3, OpFields
         DEF ReservationInv, Core, PickedIsHead, OperationOwnsRow, Stage
  <2>3. CASE request[r].status # "waiting"
    <3>1. request[r].seat \in Seats /\ BeginRelease(request[r].seat, FALSE, "cancelled", "discard")
      BY <1>7, <2>3 DEF JobCancel, TypeOK, StoreTypeOK, QueueRow
    <3>2. Begun(request[r].seat)
      BY <1>0, <1>b, <3>1, BeginReleaseCore
    <3> QED BY <2>1, <3>1, <3>2, TurnSound
  <2> QED BY <2>2, <2>3
<1>8. ASSUME JobReconcile PROVE ReservationInv'
  <2>1. /\ UNCHANGED <<seat, request, lease>> /\ op' = Idle
        /\ phase' = "reconcile_orphans"
    BY <1>8 DEF JobReconcile, Draining, BeginReconcile, tables
  <2>2. Core'
    BY <1>0, <2>1, CoreTouch
  <2>3. PickedIsHead' /\ OperationOwnsRow' /\ SnapshotStands'
    BY <2>1, OpFields DEF PickedIsHead, OperationOwnsRow, Stage, SnapshotStands
  <2> QED BY <2>2, <2>3 DEF ReservationInv, Core
<1> QED BY <1>1, <1>2, <1>3, <1>4, <1>5, <1>6, <1>7, <1>8 DEF JobNext

\* ReservationInv holds in every reachable state: claims and leases end together, a
\* lease never outlives its seat, a seat serves one request, an operation owns its
\* row between its transactions, and no snapshot of the pump is stale when used.
THEOREM ReservationInvariant == Spec => []ReservationInv
<1>1. Init => ReservationInv
  <2> SUFFICES ASSUME Init PROVE ReservationInv
    OBVIOUS
  <2>1. /\ \A s \in Seats : seat[s].state = "absent" /\ seat[s].pending = "none"
        /\ \A r \in Requests : request[r].status = "absent" /\ request[r].seat = NoSeat
        /\ \A r \in Requests : lease[r] = "absent"
        /\ op = Idle /\ todo = {} /\ phase = "down"
    BY DEF Init, StoreInit, AbsentSeat, AbsentRequest
  <2>2. \A s \in Seats : ActiveLease(s) = {} /\ RequestsForSeat(s) = {}
    BY <2>1 DEF ActiveLease, RequestsForSeat, NoSeat, Seats
  <2>3. Core
    BY <2>1, <2>2 DEF Core, ClaimedIffLeased, LeasedSeatLives, SeatServesOneRequest,
       ServedSeatIsLeased, IdsGoUp, PendingReleaseStands
  <2>4. PickedIsHead /\ OperationOwnsRow /\ SnapshotStands
    BY <2>1, OpFields DEF PickedIsHead, OperationOwnsRow, SnapshotStands, Stage
  <2> QED BY <2>3, <2>4 DEF ReservationInv, Core
<1>2. TypeOK /\ ReservationInv /\ [Next]_vars => ReservationInv'
  <2> SUFFICES ASSUME TypeOK, ReservationInv, [Next]_vars PROVE ReservationInv'
    OBVIOUS
  <2>1. CASE Next
    BY <2>1, ClientSound, OpSound, ReconcileSound, PumpSound, JobSound DEF Next, WorkerNext
  <2>2. CASE UNCHANGED vars
    <3>1. UNCHANGED <<seat, request, lease, worker>> /\ Core
      BY <2>2 DEF vars, tables, worker, ReservationInv, Core
    <3>2. Core' /\ \A s \in Seats : ActiveLease(s)' = ActiveLease(s)
      BY <3>1, CoreTouch DEF ActiveLease
    <3>3. OperationOwnsRow' /\ SnapshotStands'
      BY <3>1, <3>2, BystanderStep DEF ReservationInv
    <3>4. PickedIsHead'
      BY <3>1 DEF ReservationInv, PickedIsHead, NextWaiting, worker
    <3> QED BY <3>2, <3>3, <3>4 DEF ReservationInv, Core
  <2> QED BY <2>1, <2>2
<1> QED BY <1>1, <1>2, TypeInvariant, PTL DEF Spec

-----------------------------------------------------------------------------
(* Scheduler.tla implements Reservations.tla: every step changes the queue *)
(* and the leases in one of five ways (PoolStep), and each of them is a    *)
(* step of the pool or a stutter.                                          *)

\* A step that changes no status, no seat and no lease is a stutter of the pool.
LEMMA PoolStutter ==
    ASSUME \A r \in Requests : /\ request'[r].status = request[r].status
                               /\ request'[r].seat = request[r].seat
                               /\ lease'[r] \in {"fresh", "stale"} <=> lease[r] \in {"fresh", "stale"}
    PROVE  UNCHANGED Pool!vars
BY DEF Pool!vars

\* Closing a lease is the Finish of its request.
LEMMA PoolClose ==
    ASSUME TypeOK, ReservationInv, NEW s \in Seats, NEW status \in TerminalStatuses \cup {"null"},
           CloseLease(s, status), status = "null" => ActiveLease(s) = {}
    PROVE  [Pool!Next]_Pool!vars
<1> USE DEF TypeOK, StoreTypeOK, QueueRow
<1>1. \A r \in Requests \ ActiveLease(s) : request'[r] = request[r] /\ lease'[r] = lease[r]
  BY DEF CloseLease
<1>2. CASE ActiveLease(s) = {}
  BY <1>1, <1>2, PoolStutter
<1>3. CASE ActiveLease(s) # {}
  <2>1. PICK r \in ActiveLease(s) : TRUE
    BY <1>3
  <2>2. r \in Requests /\ lease[r] \in {"fresh", "stale"} /\ status \in TerminalStatuses
    BY <1>3 DEF ActiveLease
  <2>3. ActiveLease(s) = {r}
    BY <2>1 DEF ReservationInv, SeatServesOneRequest, ActiveLease, NoSeat, Seats
  <2>4. request'[r] = [request[r] EXCEPT !.status = status] /\ lease'[r] = "released"
    BY <2>2, <2>3 DEF CloseLease
  <2>5. request'[r].status = status /\ request'[r].seat = request[r].seat
    BY <2>2, <2>4
  <2>6. \A q \in Requests \ {r} : request'[q] = request[q] /\ lease'[q] = lease[q]
    BY <1>1, <2>3
  <2> HIDE DEF TypeOK, StoreTypeOK, QueueRow
  <2>7. Pool!Finish(r, status)
    <3>1. [q \in Requests |-> request'[q].status]
            = [[q \in Requests |-> request[q].status] EXCEPT ![r] = status]
      BY <2>2, <2>5, <2>6
    <3>2. {q \in Requests : lease'[q] \in {"fresh", "stale"}}
            = {q \in Requests : lease[q] \in {"fresh", "stale"}} \ {r}
      BY <2>2, <2>4, <2>6
    <3>3. [q \in Requests |-> request'[q].seat] = [q \in Requests |-> request[q].seat]
      BY <2>5, <2>6
    <3> QED BY <2>2, <3>1, <3>2, <3>3 DEF Pool!Finish
  <2> QED BY <2>2, <2>7 DEF Pool!Next
<1> QED BY <1>2, <1>3

\* Claiming the head for an unused seat is a Claim.
LEMMA PoolClaim ==
    ASSUME TypeOK, NEW r \in Requests, NEW s \in Seats,
           NextWaiting(r), ClaimFor(r, s), RequestsForSeat(s) = {}
    PROVE  Pool!Next
<1>1. /\ request'[r].status = "claimed" /\ request'[r].seat = s /\ lease'[r] = "fresh"
      /\ \A q \in Requests \ {r} : request'[q] = request[q] /\ lease'[q] = lease[q]
  BY DEF ClaimFor, TypeOK, StoreTypeOK, QueueRow
<1>2. [q \in Requests |-> request'[q].status]
        = [[q \in Requests |-> request[q].status] EXCEPT ![r] = "claimed"]
  BY <1>1
<1>3. [q \in Requests |-> request'[q].seat] = [[q \in Requests |-> request[q].seat] EXCEPT ![r] = s]
  BY <1>1
<1>4. {q \in Requests : lease'[q] \in {"fresh", "stale"}}
        = {q \in Requests : lease[q] \in {"fresh", "stale"}} \cup {r}
  BY <1>1
<1>5. Pool!Claim(r, s)
  BY <1>2, <1>3, <1>4 DEF Pool!Claim, NextWaiting, RequestsForSeat
<1> QED BY <1>5 DEF Pool!Next

\* submit_request is an Enqueue.
LEMMA PoolSubmit ==
    ASSUME TypeOK, ReservationInv, NEW r \in Requests, NEW image \in Images, Submit(r, image)
    PROVE  Pool!Next
<1>a. request' = [request EXCEPT ![r] = [AbsentRequest EXCEPT !.status = "waiting",
                                                              !.image = image]]
  BY DEF Submit
<1>b. request'[r].status = "waiting" /\ request'[r].seat = NoSeat
  BY <1>a DEF AbsentRequest, TypeOK, StoreTypeOK
<1>1. /\ request'[r].status = "waiting" /\ request'[r].seat = NoSeat /\ lease' = lease
      /\ \A q \in Requests \ {r} : request'[q] = request[q]
  BY <1>a, <1>b DEF Submit, TypeOK, StoreTypeOK
<1>2. NextRequestId(r)
  BY DEF Submit
<1>3. request[r].status = "absent" /\ request[r].seat = NoSeat
  BY <1>2 DEF NextRequestId, ReservationInv, IdsGoUp
<1>4. [q \in Requests |-> request'[q].status]
        = [[q \in Requests |-> request[q].status] EXCEPT ![r] = "waiting"]
  BY <1>1
<1>5. [q \in Requests |-> request'[q].seat] = [q \in Requests |-> request[q].seat]
  BY <1>1, <1>3
<1>6. Pool!Enqueue(r)
  BY <1>1, <1>2, <1>3, <1>4, <1>5 DEF Pool!Enqueue, NextRequestId
<1> QED BY <1>6 DEF Pool!Next

\* cancel_request of a request that still waits.
Cancelled(r) == /\ request[r].status = "waiting"
                /\ request' = [request EXCEPT ![r].status = "cancelled"]
                /\ UNCHANGED lease

\* cancel_request of a waiting request is a Withdraw.
LEMMA PoolCancel ==
    ASSUME TypeOK, NEW r \in Requests, Cancelled(r)
    PROVE  Pool!Next
<1>1. /\ request'[r].status = "cancelled" /\ request'[r].seat = request[r].seat
      /\ \A q \in Requests \ {r} : request'[q] = request[q]
  BY DEF Cancelled, TypeOK, StoreTypeOK, QueueRow
<1>2. [q \in Requests |-> request'[q].status]
        = [[q \in Requests |-> request[q].status] EXCEPT ![r] = "cancelled"]
  BY <1>1
<1>3. [q \in Requests |-> request'[q].seat] = [q \in Requests |-> request[q].seat]
  BY <1>1
<1>4. Pool!Withdraw(r)
  BY <1>2, <1>3 DEF Cancelled, Pool!Withdraw, TerminalStatuses
<1> QED BY <1>4 DEF Pool!Next

\* The ways a step may change the queue and the leases.
Closed(s) == \E status \in TerminalStatuses \cup {"null"} :
                CloseLease(s, status) /\ (status = "null" => ActiveLease(s) = {})

Claimed(r, s) == NextWaiting(r) /\ ClaimFor(r, s) /\ RequestsForSeat(s) = {}

Touched == /\ UNCHANGED request
           /\ \A r \in Requests : lease'[r] \in {"fresh", "stale"} <=> lease[r] \in {"fresh", "stale"}

PoolStep == \/ Touched
            \/ \E s \in Seats : Closed(s)
            \/ \E r \in Requests, s \in Seats : Claimed(r, s)
            \/ \E r \in Requests, image \in Images : Submit(r, image)
            \/ \E r \in Requests : Cancelled(r)

\* Each of these ways is a step of the pool or a stutter.
LEMMA PoolStepSound == TypeOK /\ ReservationInv /\ PoolStep => [Pool!Next]_Pool!vars
<1> SUFFICES ASSUME TypeOK, ReservationInv, PoolStep PROVE [Pool!Next]_Pool!vars
  OBVIOUS
<1>1. CASE Touched
  BY <1>1, PoolStutter DEF Touched
<1>2. CASE \E s \in Seats : Closed(s)
  BY <1>2, PoolClose DEF Closed
<1>3. CASE \E r \in Requests, s \in Seats : Claimed(r, s)
  BY <1>3, PoolClaim DEF Claimed
<1>4. CASE \E r \in Requests, image \in Images : Submit(r, image)
  BY <1>4, PoolSubmit
<1>5. CASE \E r \in Requests : Cancelled(r)
  BY <1>5, PoolCancel
<1> QED BY <1>1, <1>2, <1>3, <1>4, <1>5 DEF PoolStep

\* A step outside the queue and the leases is a stutter.
LEMMA Untouched == UNCHANGED <<request, lease>> => PoolStep
BY DEF PoolStep, Touched

\* The first transaction of a release leaves the leases alone: a row that is off
\* has none to close.
LEMMA BeginReleasePool ==
    ASSUME TypeOK, ReservationInv, NEW s \in Seats, NEW export, NEW status, NEW decision,
           status \in TerminalStatuses \cup {"null"}, BeginRelease(s, export, status, decision)
    PROVE  PoolStep
<1>1. CASE seat[s].state = "off"
  <2>1. CloseLease(s, status)
    BY <1>1 DEF BeginRelease
  <2>2. ActiveLease(s) = {}
    BY <1>1 DEF ReservationInv, LeasedSeatLives
  <2> QED BY <2>1, <2>2 DEF PoolStep, Closed
<1>2. CASE seat[s].state # "off"
  BY <1>2, Untouched DEF BeginRelease
<1> QED BY <1>1, <1>2

\* The steps of an operation under way change the queue only in these ways.
LEMMA OpPool == TypeOK /\ ReservationInv /\ OpNext => PoolStep
<1> SUFFICES ASSUME TypeOK, ReservationInv, OpNext PROVE PoolStep
  OBVIOUS
<1>a. op.step # "idle"
  BY DEF OpNext, StopVm, DestroyVm, Export, Hold, Close, Discard, Rebuild, Reboot, ResetOk,
     ResetFailed, Create, Boot, Provisioned, ProvisionFailed, Reaped, AssignIdle,
     DefinedDestroyed, Within
<1>b. op.seat \in Seats /\ op \in Operation
  BY <1>a DEF TypeOK
<1>c. op.status \in TerminalStatuses \cup {"null"} /\ "failed" \in TerminalStatuses
  BY <1>b DEF Operation, TerminalStatuses
<1>d. ASSUME CloseLease(op.seat, "failed") PROVE PoolStep
  BY <1>b, <1>c, <1>d DEF PoolStep, Closed
<1>1. CASE StopVm \/ DestroyVm \/ Export \/ Rebuild \/ Reboot \/ Create \/ Boot
  BY <1>1, Untouched DEF StopVm, DestroyVm, Export, Rebuild, Reboot, Create, Boot, tables
<1>2. CASE Hold \/ ResetFailed \/ ProvisionFailed \/ DefinedDestroyed
  BY <1>2, <1>d DEF Hold, ResetFailed, ProvisionFailed, DefinedDestroyed
<1>3. CASE Close
  <2>1. op.step = "close" /\ CloseLease(op.seat, op.status)
    BY <1>3 DEF Close, Within
  <2>2. op.status = "null" => ActiveLease(op.seat) = {}
    BY <2>1 DEF ReservationInv, OperationOwnsRow, Stage
  <2> QED BY <1>b, <1>c, <2>1, <2>2 DEF PoolStep, Closed
<1>4. CASE Discard \/ Provisioned
  BY <1>4, Untouched DEF Discard, BeginDiscard, Provisioned
<1>5. CASE ResetOk
  <2>1. op.step = "reset_ok"
    BY <1>5 DEF ResetOk, Within
  <2>2. seat[op.seat].state = "resetting"
    BY <2>1 DEF ReservationInv, OperationOwnsRow, Stage
  <2>3. CASE ReservationLive(op.seat)
    BY <1>5, <2>2, <2>3, Untouched DEF ResetOk
  <2>4. CASE ~ReservationLive(op.seat)
    <3>1. CloseLease(op.seat, "null")
      BY <1>5, <2>4 DEF ResetOk
    <3>2. ActiveLease(op.seat) = {}
      BY <2>4 DEF ReservationInv, ReservationLive, ClaimedIffLeased, ActiveLease, TerminalStatuses
    <3> QED BY <1>b, <3>1, <3>2 DEF PoolStep, Closed
  <2> QED BY <2>3, <2>4
<1>6. CASE Reaped
  <2>1. UNCHANGED <<request, lease>> \/ CloseLease(op.seat, "failed")
    BY <1>6 DEF Reaped, tables
  <2> QED BY <1>d, <2>1, Untouched
<1>7. CASE AssignIdle
  <2>1. op.step = "claim"
    BY <1>7 DEF AssignIdle
  <2>2. op.req \in Requests /\ NextWaiting(op.req)
    BY <2>1 DEF ReservationInv, PickedIsHead
  <2>3. CASE op.seat \in IdleSeats
    <3>1. ClaimFor(op.req, op.seat)
      BY <1>7, <2>3 DEF AssignIdle
    <3>2. RequestsForSeat(op.seat) = {}
      BY <1>b, <2>3 DEF IdleSeats, ReservationInv, ServedSeatIsLeased
    <3> QED BY <1>b, <2>2, <3>1, <3>2 DEF PoolStep, Claimed
  <2>4. CASE op.seat \notin IdleSeats
    BY <1>7, <2>4, Untouched DEF AssignIdle
  <2> QED BY <2>3, <2>4
<1> QED BY <1>1, <1>2, <1>3, <1>4, <1>5, <1>6, <1>7 DEF OpNext

\* So do the connection threads, the host, reconcile, the pump and the jobs.
LEMMA OtherPool ==
    TypeOK /\ ReservationInv /\ (ClientNext \/ HostNext \/ ReconcileNext \/ PumpNext \/ JobNext) => PoolStep
<1> SUFFICES ASSUME TypeOK, ReservationInv,
                    ClientNext \/ HostNext \/ ReconcileNext \/ PumpNext \/ JobNext
             PROVE  PoolStep
  OBVIOUS
<1>a. {"failed", "done", "expired", "cancelled"} \subseteq TerminalStatuses
  BY DEF TerminalStatuses
<1>b. \A s \in Seats : seat[s].status \in TerminalStatuses \cup {"null"}
  BY DEF TypeOK, StoreTypeOK, SeatRow
<1>1. CASE ClientNext
  <2>1. CASE \E r \in Requests, image \in Images : Submit(r, image)
    BY <2>1 DEF PoolStep
  <2>2. ASSUME NEW r \in Requests, Heartbeat(r) PROVE PoolStep
    BY <2>2 DEF PoolStep, Touched, Heartbeat, TypeOK, StoreTypeOK
  <2>3. CASE ClearPrewarmBackoff \/ \E s \in Seats : BeginWork(s) \/ FinishWork(s)
    BY <2>3, Untouched DEF BeginWork, FinishWork, ClearPrewarmBackoff, tables
  <2> QED BY <1>1, <2>1, <2>2, <2>3 DEF ClientNext
<1>2. CASE HostNext
  <2>1. ASSUME NEW r \in Requests, LeaseLapses(r) PROVE PoolStep
    BY <2>1 DEF PoolStep, Touched, LeaseLapses, TypeOK, StoreTypeOK
  <2>2. CASE Crash \/ \E s \in Seats : VmStops(s) \/ VmVanishes(s)
    BY <2>2, Untouched DEF VmStops, VmVanishes, Crash, tables
  <2> QED BY <1>2, <2>1, <2>2 DEF HostNext
<1>3. CASE ReconcileNext
  <2>1. CASE Start \/ StartUnreconciled
    BY <2>1, Untouched DEF Start, StartUnreconciled, BeginReconcile, tables
  <2>2. ASSUME NEW s \in Seats, DestroyOrphan(s) \/ AdoptRunning(s) \/ DestroyDefined(s)
        PROVE  PoolStep
    BY <2>2, Untouched DEF DestroyOrphan, AdoptRunning, DestroyDefined, tables
  <2>3. ASSUME NEW s \in Seats, ErrorDead(s) \/ CloseGone(s) PROVE PoolStep
    <3>1. CloseLease(s, "failed")
      BY <2>3 DEF ErrorDead, CloseGone
    <3> QED BY <1>a, <3>1 DEF PoolStep, Closed
  <2> QED BY <1>3, <2>1, <2>2, <2>3 DEF ReconcileNext
<1>4. CASE PumpNext
  <2>1. CASE Advance \/ \E s \in Seats : ReapError(s) \/ Provision(s) \/ Prewarm(s)
    BY <2>1, Untouched DEF Advance, ReapError, Provision, Prewarm, tables
  <2>2. ASSUME NEW s \in Seats, Skip(s) PROVE PoolStep
    BY <2>2, Untouched DEF Skip, SkipReconciled, SkipHeld, SkipReclaim, SkipEvict, PassOver, tables
  <2>3. ASSUME NEW p \in {"resume_interrupted", "reconcile_resume"}, NEW s \in Seats,
               ResumeRelease(p, s)
        PROVE  PoolStep
    <3>1. CASE CloseLease(s, seat[s].status)
      <4>1. s \in todo /\ phase = p /\ seat[s].state = "releasing"
        BY <2>3 DEF ResumeRelease, Turn, Lowest
      <4>2. seat[s].pending = "release"
        BY <2>3, <4>1 DEF ReservationInv, SnapshotStands
      <4>3. seat[s].status = "null" => ActiveLease(s) = {}
        BY <4>2 DEF ReservationInv, PendingReleaseStands
      <4> QED BY <1>b, <3>1, <4>3 DEF PoolStep, Closed
    <3>2. CASE BeginRelease(s, seat[s].export, seat[s].status, wish[s])
      BY <1>b, <3>2, BeginReleasePool
    <3> QED BY <2>3, <3>1, <3>2 DEF ResumeRelease
  <2>4. ASSUME NEW p, NEW s \in Seats, ResumeReset(p, s) PROVE PoolStep
    BY <2>4, Untouched DEF ResumeReset, BeginReset
  <2>5. ASSUME NEW s \in Seats, ReapHeld(s) PROVE PoolStep
    BY <1>a, <2>5, BeginReleasePool DEF ReapHeld
  <2>6. ASSUME NEW s \in Seats, Evict(s) PROVE PoolStep
    BY <2>6, BeginReleasePool DEF Evict
  <2>7. ASSUME NEW s \in Seats, Reclaim(s) PROVE PoolStep
    <3>1. CloseLease(s, "expired")
      BY <2>7 DEF Reclaim
    <3> QED BY <1>a, <3>1 DEF PoolStep, Closed
  <2>8. ASSUME NEW r \in Requests, NEW s \in Seats, PickIdle(r, s) PROVE PoolStep
    BY <2>8, Untouched DEF PickIdle, tables
  <2>9. ASSUME NEW r \in Requests, NEW s \in Seats, AdmitWaiting(r, s) PROVE PoolStep
    <3>1. NextWaiting(r) /\ ClaimFor(r, s) /\ seat[s].state = "absent"
      BY <2>9 DEF AdmitWaiting, Admissible, NextSeatId
    <3>2. RequestsForSeat(s) = {}
      BY <3>1 DEF ReservationInv, IdsGoUp
    <3> QED BY <3>1, <3>2 DEF PoolStep, Claimed
  <2> QED BY <1>4, <2>1, <2>2, <2>3, <2>4, <2>5, <2>6, <2>7, <2>8, <2>9 DEF PumpNext
<1>5. CASE JobNext
  <2>1. ASSUME NEW s \in Seats, JobRelease(s) \/ JobDrop(s) PROVE PoolStep
    BY <1>a, <2>1, BeginReleasePool DEF JobRelease, JobDrop
  <2>2. ASSUME NEW s \in Seats, JobRetry(s) PROVE PoolStep
    BY <1>b, <2>2, BeginReleasePool DEF JobRetry
  <2>3. ASSUME NEW s \in Seats, JobReset(s) \/ JobExport(s) \/ JobDiscard(s) PROVE PoolStep
    BY <2>3, Untouched DEF JobReset, BeginReset, JobExport, JobDiscard, BeginDiscard
  <2>4. CASE JobReconcile
    BY <2>4, Untouched DEF JobReconcile, BeginReconcile, tables
  <2>5. ASSUME NEW r \in Requests, JobCancel(r) PROVE PoolStep
    <3>1. CASE Cancelled(r)
      BY <3>1 DEF PoolStep
    <3>2. CASE /\ request[r].seat # NoSeat
               /\ BeginRelease(request[r].seat, FALSE, "cancelled", "discard")
      <4>1. request[r].seat \in Seats
        BY <3>2 DEF TypeOK, StoreTypeOK, QueueRow
      <4> QED BY <1>a, <3>2, <4>1, BeginReleasePool
    <3> QED BY <2>5, <3>1, <3>2 DEF JobCancel, Cancelled
  <2> QED BY <1>5, <2>1, <2>2, <2>3, <2>4, <2>5 DEF JobNext
<1> QED BY <1>1, <1>2, <1>3, <1>4, <1>5

\* The scheduler implements the pool of Reservations: FIFO claims of seats nobody
\* used before, and a claimed request and its lease that end in one step.
THEOREM ReservationsRefinement == Spec => Promise
<1>1. Init => Pool!Init
  BY DEF Init, StoreInit, AbsentRequest, Pool!Init
<1>2. TypeOK /\ ReservationInv /\ [Next]_vars => [Pool!Next]_Pool!vars
  <2> SUFFICES ASSUME TypeOK, ReservationInv, [Next]_vars PROVE [Pool!Next]_Pool!vars
    OBVIOUS
  <2>1. CASE Next
    <3>1. PoolStep
      BY <2>1, OpPool, OtherPool DEF Next, WorkerNext
    <3> QED BY <3>1, PoolStepSound
  <2>2. CASE UNCHANGED vars
    BY <2>2, PoolStutter DEF vars, tables
  <2> QED BY <2>1, <2>2
<1> QED BY <1>1, <1>2, TypeInvariant, ReservationInvariant, PTL DEF Spec, Promise, Pool!Spec
=============================================================================
