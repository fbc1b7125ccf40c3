--------------------------- MODULE RecoveryProofs ---------------------------
(***************************************************************************)
(* What the scheduler owes the work and the VMs behind its rows.  Each     *)
(* action is first described by its effect on the fields the invariants    *)
(* read; the invariants then follow action by action.                      *)
(***************************************************************************)
EXTENDS SchedulerProofs, FiniteSetTheorems

-----------------------------------------------------------------------------
(* Effects.                                                                *)

\* The row of s now reads so, and no other row changed.
Wrote(s, state, named, pending, export) ==
    /\ seat'[s].state = state /\ seat'[s].vm = named
    /\ seat'[s].pending = pending /\ seat'[s].export = export
    /\ \A t \in Seats \ {s} : seat'[t] = seat[t]

\* The operation that is under way now, and what it returns to.
Under(step, s, next) == op'.step = step /\ op'.seat = s /\ op'.next = next

Over == Under("idle", NoSeat, "idle")

\* What the host keeps of every other seat.
Spared(s) == \A t \in Seats \ {s} : vm'[t] = vm[t] /\ work'[t] = work[t]

\* The overlay of s may have been deleted, but nothing was written to it.
Ebbed(s) ==
    /\ work'[s] = "unpushed" => work[s] = "unpushed"
    /\ work'[s] = "lost" => work[s] \in {"lost", "unpushed"}

\* The work on s may have been decided on or exported, but neither written nor destroyed.
Kept(s) == work'[s] \in {"unpushed", "lost"} => work'[s] = work[s]

\* The VM of s was switched, neither made nor removed.
Switched(s) == vm'[s] = "none" <=> vm[s] = "none"

Stands == UNCHANGED <<phase, todo, seen>>

\* The phase goes on to the next seat.
Visits(p, s) == /\ phase = p /\ op = Idle /\ s \in todo
                /\ phase' = phase /\ todo' = todo \ {s} /\ seen' = seen

\* A seat row and the fields of what replaces it.
LEMMA Write ==
    ASSUME TypeOK, NEW s \in Seats, NEW row \in SeatRow, UpdateSeat(s, row)
    PROVE  /\ Wrote(s, row.state, row.vm, row.pending, row.export)
           /\ seat'[s] = row
BY DEF TypeOK, StoreTypeOK, UpdateSeat, Wrote

LEMMA IdleFields == Idle.step = "idle" /\ Idle.seat = NoSeat /\ Idle.next = "idle"
BY DEF Idle

\* A seat is not the seat of an idle operation.
LEMMA NoSeatIsNone == NoSeat \notin Seats
BY DEF NoSeat, Seats

\* An operation that begins is on a seat, and goes back to nothing or to its close.
LEMMA OpSeats ==
    ASSUME NEW s \in Seats
    PROVE  /\ \A step \in Steps : OpAt(step, s).step = step /\ OpAt(step, s).seat = s /\ OpAt(step, s).next = "idle"
           /\ \A status : Closing(s, status).step = "close" /\ Closing(s, status).seat = s /\ Closing(s, status).next = "idle"
           /\ \A status : Exporting(s, status).step = "export" /\ Exporting(s, status).seat = s /\ Exporting(s, status).next = "stop"
           /\ \A b : Rebuilding(s, b).step = "rebuild" /\ Rebuilding(s, b).seat = s /\ Rebuilding(s, b).next = "idle"
           /\ \A r : Claiming(r, s).step = "claim" /\ Claiming(r, s).seat = s /\ Claiming(r, s).next = "idle"
           /\ \A next, status : /\ Teardown(s, next, status).step = "stop"
                                /\ Teardown(s, next, status).seat = s
                                /\ Teardown(s, next, status).next = next
BY DEF Idle, OpAt, Closing, Exporting, Rebuilding, Claiming, Teardown

\* Moving on keeps the seat and what the operation returns to.
LEMMA MovesTo ==
    ASSUME TypeOK, NEW step \in Steps, op' = MoveTo(step)
    PROVE  Under(step, op.seat, op.next)
BY MoveToFields, MoveToType DEF TypeOK, Under

\* Deleting the overlay.
LEMMA Erasing == \A s \in Seats : /\ Erased(s) # "unpushed"
                                  /\ Erased(s) = "lost" => work[s] \in {"lost", "unpushed"}
BY DEF Erased

\* What an operation that begins on s, or ends, leaves in op.
LEMMA Begins ==
    ASSUME NEW s \in Seats
    PROVE  /\ op' = Idle => Over
           /\ \A step \in Steps : op' = OpAt(step, s) => Under(step, s, "idle")
           /\ \A status : op' = Closing(s, status) => Under("close", s, "idle")
           /\ \A status : op' = Exporting(s, status) => Under("export", s, "stop")
           /\ \A b : op' = Rebuilding(s, b) => Under("rebuild", s, "idle")
           /\ \A r : op' = Claiming(r, s) => Under("claim", s, "idle")
           /\ \A next, status : op' = Teardown(s, next, status) => Under("stop", s, next)
BY OpSeats, IdleFields DEF Under, Over

\* The rows the scheduler writes, by the fields these invariants read.
LEMMA Writes ==
    ASSUME TypeOK, NEW s \in Seats, NEW row, row = seat[s]
    PROVE  /\ \A x \in SeatStates :
                  UpdateSeat(s, [row EXCEPT !.state = x])
                      => Wrote(s, x, row.vm, row.pending, row.export)
           /\ \A x \in SeatStates, b \in BOOLEAN :
                  UpdateSeat(s, [row EXCEPT !.state = x, !.vm = b])
                      => Wrote(s, x, b, row.pending, row.export)
           /\ \A x \in SeatStates, y \in {"none", "release", "reset"} :
                  UpdateSeat(s, [row EXCEPT !.state = x, !.pending = y])
                      => Wrote(s, x, row.vm, y, row.export)
           /\ UpdateSeat(s, OffRow(row)) => Wrote(s, "off", FALSE, row.pending, row.export)
           /\ UpdateSeat(s, [OffRow(row) EXCEPT !.pending = "none"])
                  => Wrote(s, "off", FALSE, "none", row.export)
           /\ UpdateSeat(s, ClosedRow(row)) => Wrote(s, "off", FALSE, "none", FALSE)
           /\ UpdateSeat(s, [ClosedRow(row) EXCEPT !.intent = FALSE])
                  => Wrote(s, "off", FALSE, "none", FALSE)
<1>a. row \in SeatRow
  BY DEF TypeOK, StoreTypeOK
<1>b. \A w \in SeatRow : UpdateSeat(s, w) => Wrote(s, w.state, w.vm, w.pending, w.export)
  BY Write
<1>1. ASSUME NEW x \in SeatStates, UpdateSeat(s, [row EXCEPT !.state = x])
      PROVE  Wrote(s, x, row.vm, row.pending, row.export)
  <2> DEFINE w == [row EXCEPT !.state = x]
  <2>1. w \in SeatRow
    BY <1>a, RowTypes
  <2>2. w.state = x /\ w.vm = row.vm /\ w.pending = row.pending /\ w.export = row.export
    BY <1>a DEF SeatRow
  <2> HIDE DEF w
  <2> QED BY <1>1, <1>b, <2>1, <2>2 DEF w
<1>2. ASSUME NEW x \in SeatStates, NEW b \in BOOLEAN, UpdateSeat(s, [row EXCEPT !.state = x, !.vm = b])
      PROVE  Wrote(s, x, b, row.pending, row.export)
  <2> DEFINE w == [row EXCEPT !.state = x, !.vm = b]
  <2>1. w \in SeatRow
    BY <1>a, RowUpdates
  <2>2. w.state = x /\ w.vm = b /\ w.pending = row.pending /\ w.export = row.export
    BY <1>a DEF SeatRow
  <2> HIDE DEF w
  <2> QED BY <1>2, <1>b, <2>1, <2>2 DEF w
<1>3. ASSUME NEW x \in SeatStates, NEW y \in {"none", "release", "reset"},
             UpdateSeat(s, [row EXCEPT !.state = x, !.pending = y])
      PROVE  Wrote(s, x, row.vm, y, row.export)
  <2> DEFINE w == [row EXCEPT !.state = x, !.pending = y]
  <2>1. w \in SeatRow
    BY <1>a, RowUpdates
  <2>2. w.state = x /\ w.vm = row.vm /\ w.pending = y /\ w.export = row.export
    BY <1>a DEF SeatRow
  <2> HIDE DEF w
  <2> QED BY <1>3, <1>b, <2>1, <2>2 DEF w
<1>4. OffRow(row) \in SeatRow /\ OffRow(row).state = "off" /\ OffRow(row).vm = FALSE
      /\ OffRow(row).pending = row.pending /\ OffRow(row).export = row.export
  <2>1. OffRow(row) \in SeatRow
    BY <1>a, RowTypes
  <2>2. OffRow(row).state = "off" /\ OffRow(row).vm = FALSE
    BY <1>a DEF SeatRow, OffRow
  <2>3. OffRow(row).pending = row.pending /\ OffRow(row).export = row.export
    BY <1>a DEF SeatRow, OffRow
  <2> QED BY <2>1, <2>2, <2>3
<1>5. ASSUME UpdateSeat(s, [OffRow(row) EXCEPT !.pending = "none"])
      PROVE  Wrote(s, "off", FALSE, "none", row.export)
  <2> DEFINE w == [OffRow(row) EXCEPT !.pending = "none"]
  <2>1. w \in SeatRow
    BY <1>a, RowTypes
  <2>2. w.state = "off" /\ ~w.vm /\ w.pending = "none" /\ w.export = row.export
    BY <1>4 DEF SeatRow
  <2> HIDE DEF w
  <2>3. w.vm = FALSE
    BY <2>1, <2>2 DEF SeatRow
  <2> QED BY <1>5, <1>b, <2>1, <2>2, <2>3 DEF w
<1>6. ClosedRow(row) \in SeatRow /\ ClosedRow(row).state = "off" /\ ClosedRow(row).vm = FALSE
      /\ ClosedRow(row).pending = "none" /\ ClosedRow(row).export = FALSE
  <2>1. ClosedRow(row) \in SeatRow
    BY <1>a, RowTypes
  <2>2. ClosedRow(row).state = "off" /\ ClosedRow(row).vm = FALSE
    BY <1>a DEF SeatRow, ClosedRow
  <2>3. ClosedRow(row).pending = "none" /\ ClosedRow(row).export = FALSE
    BY <1>a DEF SeatRow, ClosedRow
  <2> QED BY <2>1, <2>2, <2>3
<1>7. ASSUME UpdateSeat(s, [ClosedRow(row) EXCEPT !.intent = FALSE])
      PROVE  Wrote(s, "off", FALSE, "none", FALSE)
  <2> DEFINE w == [ClosedRow(row) EXCEPT !.intent = FALSE]
  <2>1. w \in SeatRow
    BY <1>a, RowTypes
  <2>2. w.state = "off" /\ w.vm = FALSE /\ w.pending = "none" /\ w.export = FALSE
    BY <1>6 DEF SeatRow
  <2> HIDE DEF w
  <2> QED BY <1>7, <1>b, <2>1, <2>2 DEF w
<1> QED BY <1>1, <1>2, <1>3, <1>4, <1>5, <1>6, <1>7, <1>b

\* A release that begins on s: an export or a teardown of its VM, if it has one.
Releases(s, export, decision) ==
    \/ seat[s].state = "off" /\ Over /\ UNCHANGED <<seat, work>>
    \/ /\ seat[s].state # "off"
       /\ Wrote(s, "releasing", seat[s].vm, "release", export)
       /\ \/ Under("close", s, "idle") /\ ~seat[s].vm
          \/ Under("export", s, "stop") /\ seat[s].vm /\ export
          \/ Under("stop", s, "close") /\ seat[s].vm /\ ~export
       /\ \A t \in Seats \ {s} : work'[t] = work[t]
       /\ Kept(s)
       /\ decision = "discard" => work'[s] # "unpushed"
       /\ decision # "discard" => work'[s] = work[s]

LEMMA ReleaseEffect ==
    ASSUME TypeOK, NEW s \in Seats, NEW export \in BOOLEAN,
           NEW status \in TerminalStatuses \cup {"null"}, NEW decision,
           BeginRelease(s, export, status, decision)
    PROVE  Releases(s, export, decision)
<1>a. seat[s] \in SeatRow /\ work \in [Seats -> WorkStates]
  BY DEF TypeOK, StoreTypeOK
<1>1. CASE seat[s].state = "off"
  BY <1>1, IdleFields DEF BeginRelease, Releases, Over, Under
<1>2. CASE seat[s].state # "off"
  <2> DEFINE row == [seat[s] EXCEPT !.state = "releasing", !.pending = "release",
                                    !.export = export, !.status = status]
  <2>1. UpdateSeat(s, row) /\ Decide(s, decision)
    BY <1>2 DEF BeginRelease
  <2>2. row \in SeatRow
    BY <1>a, RowUpdates DEF SeatStates
  <2>3. /\ row.state = "releasing" /\ row.vm = seat[s].vm
        /\ row.pending = "release" /\ row.export = export
    BY <1>a DEF SeatRow
  <2> HIDE DEF row
  <2>4. Wrote(s, "releasing", seat[s].vm, "release", export)
    BY <2>1, <2>2, <2>3, Write
  <2>5. seat[s].vm \in BOOLEAN
    BY <1>a DEF SeatRow
  <2>6. /\ op' = Closing(s, status) => Under("close", s, "idle")
        /\ op' = Exporting(s, status) => Under("export", s, "stop")
        /\ op' = Teardown(s, "close", status) => Under("stop", s, "close")
    BY OpSeats DEF Under
  <2>7. op' = CASE ~seat[s].vm -> Closing(s, status)
                [] seat[s].vm /\ export -> Exporting(s, status)
                [] OTHER -> Teardown(s, "close", status)
    BY <1>2 DEF BeginRelease
  <2>9. \/ Under("close", s, "idle") /\ ~seat[s].vm
        \/ Under("export", s, "stop") /\ seat[s].vm /\ export
        \/ Under("stop", s, "close") /\ seat[s].vm /\ ~export
    <3>1. CASE ~seat[s].vm
      BY <2>6, <2>7, <3>1
    <3>2. CASE seat[s].vm /\ export
      BY <2>6, <2>7, <3>2
    <3>3. CASE seat[s].vm /\ ~export
      BY <2>6, <2>7, <3>3
    <3> QED BY <2>5, <3>1, <3>2, <3>3
  <2>10. /\ \A t \in Seats \ {s} : work'[t] = work[t]
         /\ work'[s] = IF decision = "discard" /\ work[s] = "unpushed" THEN "abandoned" ELSE work[s]
    BY <1>a, <2>1 DEF Decide
  <2> QED BY <1>2, <2>4, <2>9, <2>10 DEF Releases, Kept
<1> QED BY <1>1, <1>2

\* A reset that begins on s.
Resets(s) ==
    /\ seat[s].vm /\ Wrote(s, "resetting", seat[s].vm, "reset", seat[s].export)
    /\ Under("rebuild", s, "idle")
    /\ \A t \in Seats \ {s} : work'[t] = work[t]
    /\ Kept(s) /\ work'[s] # "unpushed"

LEMMA ResetEffect ==
    ASSUME TypeOK, NEW s \in Seats, NEW resume, BeginReset(s, resume)
    PROVE  Resets(s)
<1>a. work \in [Seats -> WorkStates] /\ "resetting" \in SeatStates
  BY DEF TypeOK, SeatStates
<1>1. /\ \A t \in Seats \ {s} : work'[t] = work[t]
      /\ work'[s] = IF work[s] = "unpushed" THEN "abandoned" ELSE work[s]
  BY <1>a DEF BeginReset, Decide
<1>2. Wrote(s, "resetting", seat[s].vm, "reset", seat[s].export)
  BY <1>a, Writes DEF BeginReset
<1>3. op' = Rebuilding(s, resume) => Under("rebuild", s, "idle")
  BY OpSeats DEF Under
<1> QED BY <1>1, <1>2, <1>3 DEF BeginReset, Resets, Kept

\* A discard that begins on s.
Discards(s) ==
    /\ Wrote(s, "releasing", seat[s].vm, seat[s].pending, seat[s].export)
    /\ Under("stop", s, "close") \/ Under("close", s, "idle")
    /\ \A t \in Seats \ {s} : work'[t] = work[t]
    /\ Kept(s) /\ work'[s] # "unpushed"

LEMMA DiscardEffect ==
    ASSUME TypeOK, NEW s \in Seats, BeginDiscard(s)
    PROVE  Discards(s)
<1>a. work \in [Seats -> WorkStates] /\ "releasing" \in SeatStates
  BY DEF TypeOK, SeatStates
<1>1. /\ \A t \in Seats \ {s} : work'[t] = work[t]
      /\ work'[s] = IF work[s] = "unpushed" THEN "abandoned" ELSE work[s]
  BY <1>a DEF BeginDiscard, Decide
<1>2. Wrote(s, "releasing", seat[s].vm, seat[s].pending, seat[s].export)
  BY <1>a, Writes DEF BeginDiscard
<1>3. /\ op' = Teardown(s, "close", "failed") => Under("stop", s, "close")
      /\ op' = Closing(s, "failed") => Under("close", s, "idle")
  BY OpSeats DEF Under
<1> QED BY <1>1, <1>2, <1>3 DEF BeginDiscard, Discards, Kept

-----------------------------------------------------------------------------
(* The steps of an operation that touch the VM and its overlay.            *)

LEMMA StopEffect ==
    ASSUME TypeOK, op.seat \in Seats, StopVm
    PROVE  /\ op.step = "stop" /\ Under("destroy", op.seat, op.next)
           /\ UNCHANGED <<seat, request, work>> /\ Stands
           /\ Spared(op.seat) /\ Switched(op.seat) /\ (vm'[op.seat] = "running" => vm[op.seat] = "running")
<1>1. Under("destroy", op.seat, op.next)
  BY MovesTo DEF StopVm, Steps
<1>2. Spared(op.seat) /\ Switched(op.seat) /\ (vm'[op.seat] = "running" => vm[op.seat] = "running")
  BY DEF StopVm, TypeOK, Spared, Switched
<1> QED BY <1>1, <1>2 DEF StopVm, Within, Stands, tables

LEMMA DestroyEffect ==
    ASSUME TypeOK, op.seat \in Seats, DestroyVm
    PROVE  /\ op.step = "destroy" /\ UNCHANGED <<seat, request>> /\ Stands
           /\ Spared(op.seat) /\ Ebbed(op.seat) /\ vm'[op.seat] \in {vm[op.seat], "none"}
           /\ IF op.next = "idle" THEN Over ELSE Under(op.next, op.seat, op.next)
<1>1. vm \in [Seats -> VmStates] /\ work \in [Seats -> WorkStates] /\ op.next \in Steps
  BY DEF TypeOK, Operation
<1>2. IF op.next = "idle" THEN Over ELSE Under(op.next, op.seat, op.next)
  BY <1>1, MovesTo, Begins DEF DestroyVm, Continue
<1>3. Spared(op.seat) /\ Ebbed(op.seat) /\ vm'[op.seat] \in {vm[op.seat], "none"}
  BY <1>1, Erasing DEF DestroyVm, Spared, Ebbed
<1> QED BY <1>2, <1>3 DEF DestroyVm, Within, Stands, tables

LEMMA ExportEffect ==
    ASSUME TypeOK, op.seat \in Seats, Export
    PROVE  /\ op.step = "export" /\ UNCHANGED <<seat, request, vm>> /\ Stands
           /\ Spared(op.seat) /\ Kept(op.seat)
           /\ IF op.next # "stop" THEN Over
              ELSE \/ Under("hold", op.seat, "stop")
                   \/ Under("stop", op.seat, "close") /\ work'[op.seat] # "unpushed"
<1>1. work \in [Seats -> WorkStates] /\ {"hold", "stop"} \subseteq Steps
  BY DEF TypeOK, Steps
<1>2. Spared(op.seat) /\ Kept(op.seat)
  BY <1>1 DEF Export, Spared, Kept
<1>3. IF op.next # "stop" THEN Over
      ELSE \/ Under("hold", op.seat, "stop")
           \/ Under("stop", op.seat, "close") /\ work'[op.seat] # "unpushed"
  <2>1. PICK ok \in BOOLEAN, landed \in BOOLEAN :
             /\ ok => landed
             /\ work' = [work EXCEPT ![op.seat] = IF landed /\ @ \in {"unpushed", "abandoned"}
                                                 THEN "pushed" ELSE @]
             /\ op' = IF op.next # "stop" THEN Idle
                      ELSE IF ok THEN Teardown(op.seat, "close", op.status)
                      ELSE MoveTo("hold")
    BY DEF Export
  <2>2. CASE op.next # "stop"
    BY <2>1, <2>2, Begins
  <2>3. CASE op.next = "stop" /\ ok
    BY <1>1, <2>1, <2>3, Begins
  <2>4. CASE op.next = "stop" /\ ~ok
    BY <1>1, <2>1, <2>4, MovesTo
  <2> QED BY <2>2, <2>3, <2>4
<1> QED BY <1>2, <1>3 DEF Export, Within, Stands, tables

LEMMA RebuildEffect ==
    ASSUME TypeOK, op.seat \in Seats, Rebuild
    PROVE  /\ op.step = "rebuild" /\ UNCHANGED <<seat, request>> /\ Stands
           /\ Spared(op.seat) /\ Ebbed(op.seat) /\ Switched(op.seat)
           /\ Under("reboot", op.seat, op.next) \/ Under("reset_failed", op.seat, op.next)
<1>1. vm \in [Seats -> VmStates] /\ work \in [Seats -> WorkStates]
  BY DEF TypeOK
<1>2. Under("reboot", op.seat, op.next) \/ Under("reset_failed", op.seat, op.next)
  BY MovesTo DEF Rebuild, Steps
<1>3. Spared(op.seat) /\ Ebbed(op.seat) /\ Switched(op.seat)
  BY <1>1, Erasing DEF Rebuild, Spared, Ebbed, Switched
<1> QED BY <1>2, <1>3 DEF Rebuild, Within, Stands, tables

LEMMA RebootEffect ==
    ASSUME TypeOK, op.seat \in Seats, Reboot
    PROVE  /\ op.step = "reboot" /\ UNCHANGED <<seat, request, work>> /\ Stands
           /\ Spared(op.seat) /\ Switched(op.seat)
           /\ Under("reset_ok", op.seat, op.next) \/ Under("reset_failed", op.seat, op.next)
<1>1. vm \in [Seats -> VmStates]
  BY DEF TypeOK
<1>2. Under("reset_ok", op.seat, op.next) \/ Under("reset_failed", op.seat, op.next)
  BY MovesTo DEF Reboot, Steps
<1>3. Spared(op.seat) /\ Switched(op.seat)
  BY <1>1 DEF Reboot, Spared, Switched
<1> QED BY <1>2, <1>3 DEF Reboot, Within, Stands, tables

LEMMA CreateEffect ==
    ASSUME TypeOK, op.seat \in Seats, Create
    PROVE  /\ op.step = "create" /\ UNCHANGED <<seat, request, work>> /\ Stands
           /\ Spared(op.seat) /\ (vm'[op.seat] # vm[op.seat] => vm[op.seat] = "none" /\ vm'[op.seat] = "off")
           /\ Under("boot", op.seat, op.next) \/ Under("create_failed", op.seat, op.next)
<1>1. vm \in [Seats -> VmStates]
  BY DEF TypeOK
<1>2. Under("boot", op.seat, op.next) \/ Under("create_failed", op.seat, op.next)
  BY MovesTo DEF Create, Steps
<1>3. Spared(op.seat) /\ (vm'[op.seat] # vm[op.seat] => vm[op.seat] = "none" /\ vm'[op.seat] = "off")
  BY <1>1 DEF Create, Spared
<1> QED BY <1>2, <1>3 DEF Create, Within, Stands, tables

LEMMA BootEffect ==
    ASSUME TypeOK, op.seat \in Seats, Boot
    PROVE  /\ op.step = "boot" /\ UNCHANGED <<seat, request, work>> /\ Stands
           /\ Spared(op.seat) /\ Switched(op.seat)
           /\ Under("ready", op.seat, op.next) \/ Under("stop", op.seat, "boot_failed")
<1>1. vm \in [Seats -> VmStates]
  BY DEF TypeOK
<1>2. Under("ready", op.seat, op.next) \/ Under("stop", op.seat, "boot_failed")
  BY MovesTo, Begins DEF Boot, Steps
<1>3. Spared(op.seat) /\ Switched(op.seat)
  BY <1>1 DEF Boot, Spared, Switched
<1> QED BY <1>2, <1>3 DEF Boot, Within, Stands, tables

-----------------------------------------------------------------------------
(* The steps of an operation that write its row.                           *)

LEMMA HoldEffect ==
    ASSUME TypeOK, op.seat \in Seats, Hold
    PROVE  /\ op.step = "hold" /\ UNCHANGED <<vm, work>> /\ Stands /\ Over
           /\ Wrote(op.seat, "held", seat[op.seat].vm, seat[op.seat].pending, seat[op.seat].export)
<1>1. Wrote(op.seat, "held", seat[op.seat].vm, seat[op.seat].pending, seat[op.seat].export)
  BY Writes DEF Hold, SeatStates
<1> QED BY <1>1, Begins DEF Hold, Within, Stands, host

LEMMA CloseEffect ==
    ASSUME TypeOK, op.seat \in Seats, Close
    PROVE  /\ op.step = "close" /\ UNCHANGED <<vm, work>> /\ Stands /\ Over
           /\ Wrote(op.seat, "off", FALSE, "none", FALSE)
<1>1. Wrote(op.seat, "off", FALSE, "none", FALSE)
  BY Writes DEF Close
<1> QED BY <1>1, Begins DEF Close, Within, Stands, host

LEMMA ResetOkEffect ==
    ASSUME TypeOK, op.seat \in Seats, ResetOk
    PROVE  /\ op.step = "reset_ok" /\ UNCHANGED <<vm, work>> /\ Stands
           /\ \/ Over /\ Wrote(op.seat, "ready", seat[op.seat].vm, "none", seat[op.seat].export)
              \/ /\ Under("stop", op.seat, "idle")
                 /\ Wrote(op.seat, "off", FALSE, "none", seat[op.seat].export)
<1>1. CASE UpdateSeat(op.seat, [seat[op.seat] EXCEPT !.state = "ready", !.pending = "none"]) /\ op' = Idle
  <2>1. Wrote(op.seat, "ready", seat[op.seat].vm, "none", seat[op.seat].export)
    BY <1>1, Writes DEF SeatStates
  <2> QED BY <1>1, <2>1, Begins DEF ResetOk, Within, Stands, host
<1>2. CASE /\ UpdateSeat(op.seat, [OffRow(seat[op.seat]) EXCEPT !.pending = "none"])
           /\ op' = Teardown(op.seat, "idle", "null")
  <2>1. Wrote(op.seat, "off", FALSE, "none", seat[op.seat].export)
    BY <1>2, Writes
  <2> QED BY <1>2, <2>1, Begins DEF ResetOk, Within, Stands, host
<1> QED BY <1>1, <1>2 DEF ResetOk

LEMMA ResetFailedEffect ==
    ASSUME TypeOK, op.seat \in Seats, ResetFailed
    PROVE  /\ op.step = "reset_failed" /\ UNCHANGED <<vm, work>> /\ Stands
           /\ Wrote(op.seat, "error", seat[op.seat].vm, "none", seat[op.seat].export)
           /\ Over \/ Under("discard", op.seat, "idle")
<1>1. Wrote(op.seat, "error", seat[op.seat].vm, "none", seat[op.seat].export)
  BY Writes DEF ResetFailed, SeatStates
<1>2. Over \/ Under("discard", op.seat, "idle")
  BY Begins DEF ResetFailed, Steps
<1> QED BY <1>1, <1>2 DEF ResetFailed, Within, Stands, host

LEMMA ProvisionedEffect ==
    ASSUME TypeOK, op.seat \in Seats, Provisioned
    PROVE  /\ op.step = "ready" /\ UNCHANGED <<vm, work>> /\ Stands
           /\ \/ Over /\ Wrote(op.seat, "ready", TRUE, seat[op.seat].pending, seat[op.seat].export)
              \/ /\ Under("stop", op.seat, "idle")
                 /\ Wrote(op.seat, "off", FALSE, seat[op.seat].pending, seat[op.seat].export)
<1>1. CASE UpdateSeat(op.seat, [seat[op.seat] EXCEPT !.state = "ready", !.vm = TRUE]) /\ op' = Idle
  <2>1. Wrote(op.seat, "ready", TRUE, seat[op.seat].pending, seat[op.seat].export)
    BY <1>1, Writes DEF SeatStates
  <2> QED BY <1>1, <2>1, Begins DEF Provisioned, Within, Stands, host
<1>2. CASE /\ UpdateSeat(op.seat, OffRow(seat[op.seat]))
           /\ op' = Teardown(op.seat, "idle", "null")
  <2>1. Wrote(op.seat, "off", FALSE, seat[op.seat].pending, seat[op.seat].export)
    BY <1>2, Writes
  <2> QED BY <1>2, <2>1, Begins DEF Provisioned, Within, Stands, host
<1> QED BY <1>1, <1>2 DEF Provisioned

LEMMA ProvisionFailedEffect ==
    ASSUME TypeOK, op.seat \in Seats, ProvisionFailed
    PROVE  /\ op.step \in {"create_failed", "boot_failed"} /\ UNCHANGED <<vm, work>> /\ Stands /\ Over
           /\ \E b \in BOOLEAN : Wrote(op.seat, "error", b, seat[op.seat].pending, seat[op.seat].export)
<1> DEFINE row == seat[op.seat]
<1>1. PICK b \in BOOLEAN : UpdateSeat(op.seat, [row EXCEPT !.state = "error", !.vm = b, !.attempts = @ + 1])
  BY DEF ProvisionFailed
<1> DEFINE w == [row EXCEPT !.state = "error", !.vm = b, !.attempts = @ + 1]
<1>2. row \in SeatRow
  BY DEF TypeOK, StoreTypeOK
<1>3. w \in SeatRow
  BY <1>2, RowUpdates DEF SeatStates
<1>4. w.state = "error" /\ w.vm = b /\ w.pending = row.pending /\ w.export = row.export
  BY <1>2 DEF SeatRow
<1>5. UpdateSeat(op.seat, w)
  BY <1>1
<1> HIDE DEF w
<1>6. Wrote(op.seat, "error", b, row.pending, row.export)
  BY <1>3, <1>4, <1>5, Write
<1> QED BY <1>6, Begins DEF ProvisionFailed, Within, Stands, host

LEMMA DefinedEffect ==
    ASSUME TypeOK, op.seat \in Seats, DefinedDestroyed
    PROVE  /\ op.step = "defined" /\ UNCHANGED <<vm, work>> /\ Stands /\ Over
           /\ Wrote(op.seat, "error", TRUE, seat[op.seat].pending, seat[op.seat].export)
<1>1. Wrote(op.seat, "error", TRUE, seat[op.seat].pending, seat[op.seat].export)
  BY Writes DEF DefinedDestroyed, SeatStates
<1> QED BY <1>1, Begins DEF DefinedDestroyed, Within, Stands, host

LEMMA ReapedEffect ==
    ASSUME TypeOK, op.seat \in Seats, Reaped
    PROVE  /\ op.step = "reaped" /\ UNCHANGED <<vm, work>> /\ Stands /\ Over
           /\ \/ Wrote(op.seat, "off", FALSE, seat[op.seat].pending, seat[op.seat].export)
              \/ /\ RequestsForSeat(op.seat) = {}
                 /\ \/ Wrote(op.seat, "queued", FALSE, seat[op.seat].pending, seat[op.seat].export)
                    \/ UNCHANGED seat
<1>1. \/ UpdateSeat(op.seat, OffRow(seat[op.seat]))
      \/ /\ RequestsForSeat(op.seat) = {}
         /\ UpdateSeat(op.seat, [seat[op.seat] EXCEPT !.state = "queued", !.vm = FALSE]) \/ UNCHANGED seat
  BY DEF Reaped, tables
<1>2. \/ Wrote(op.seat, "off", FALSE, seat[op.seat].pending, seat[op.seat].export)
      \/ /\ RequestsForSeat(op.seat) = {}
         /\ \/ Wrote(op.seat, "queued", FALSE, seat[op.seat].pending, seat[op.seat].export)
            \/ UNCHANGED seat
  BY <1>1, Writes DEF SeatStates
<1> QED BY <1>2, Begins DEF Reaped, Within, Stands, host

LEMMA AssignEffect ==
    ASSUME TypeOK, op.seat \in Seats, AssignIdle
    PROVE  /\ op.step = "claim" /\ UNCHANGED <<seat, vm, work, seen>> /\ Over
           /\ UNCHANGED <<phase, todo>> \/ Enter("admit_waiting")
BY Begins DEF AssignIdle, host

LEMMA DiscardStepEffect ==
    ASSUME TypeOK, op.seat \in Seats, Discard
    PROVE  op.step = "discard" /\ UNCHANGED vm /\ Stands /\ Discards(op.seat)
BY DiscardEffect DEF Discard, Within, Stands

-----------------------------------------------------------------------------
(* The turns of reconcile.                                                 *)

LEMMA TurnVisits == \A p, s : Turn(p, s) /\ Visited(s) => Visits(p, s)
BY DEF Turn, Visited, Visits, Lowest

LEMMA OrphanEffect ==
    ASSUME TypeOK, NEW s \in Seats, DestroyOrphan(s)
    PROVE  /\ Visits("reconcile_orphans", s) /\ UNCHANGED <<seat, request, vm, work>>
           /\ Under("stop", s, "idle")
BY TurnVisits, Begins DEF DestroyOrphan, host, tables

LEMMA AdoptEffect ==
    ASSUME TypeOK, NEW s \in Seats, AdoptRunning(s)
    PROVE  /\ Visits("reconcile_rows", s) /\ Adopts(s) /\ UNCHANGED <<vm, work, op>>
           /\ Wrote(s, "ready", TRUE, seat[s].pending, seat[s].export)
<1>1. Wrote(s, "ready", TRUE, seat[s].pending, seat[s].export)
  BY Writes DEF AdoptRunning, SeatStates
<1> QED BY <1>1, TurnVisits DEF AdoptRunning, host

LEMMA DefinedTurnEffect ==
    ASSUME TypeOK, NEW s \in Seats, DestroyDefined(s)
    PROVE  /\ Visits("reconcile_rows", s) /\ DefinedOnly(s) /\ UNCHANGED <<seat, request, vm, work>>
           /\ Under("stop", s, "defined")
BY TurnVisits, Begins DEF DestroyDefined, host, tables

LEMMA DeadEffect ==
    ASSUME TypeOK, NEW s \in Seats, ErrorDead(s)
    PROVE  /\ Visits("reconcile_rows", s) /\ IsDead(s) /\ UNCHANGED <<vm, work, op>>
           /\ Wrote(s, "error", seat[s].vm, seat[s].pending, seat[s].export)
<1>1. Wrote(s, "error", seat[s].vm, seat[s].pending, seat[s].export)
  BY Writes DEF ErrorDead, SeatStates
<1> QED BY <1>1, TurnVisits DEF ErrorDead, host

LEMMA GoneEffect ==
    ASSUME TypeOK, NEW s \in Seats, CloseGone(s)
    PROVE  /\ Visits("reconcile_rows", s) /\ IsGone(s) /\ UNCHANGED <<vm, work, op>>
           /\ Wrote(s, "off", FALSE, "none", FALSE)
<1>1. Wrote(s, "off", FALSE, "none", FALSE)
  BY Writes DEF CloseGone
<1> QED BY <1>1, TurnVisits DEF CloseGone, host

-----------------------------------------------------------------------------
(* The turns of the pump.                                                  *)

\* A release found interrupted is closed, if its VM does not run, or begun again.
Resumes(p, s) ==
    /\ Visits(p, s) /\ seat[s].state = "releasing" /\ UNCHANGED vm
    /\ \/ /\ \E state \in Probe(s) : state \notin {"running", "unknown"}
          /\ Wrote(s, "off", FALSE, "none", FALSE) /\ UNCHANGED work
          /\ Over \/ Under("stop", s, "idle")
       \/ Releases(s, seat[s].export, wish[s])

LEMMA ResumeReleaseEffect ==
    ASSUME TypeOK, NEW s \in Seats, NEW p, ResumeRelease(p, s)
    PROVE  Resumes(p, s)
<1>1. seat[s] \in SeatRow
  BY DEF TypeOK, StoreTypeOK
<1>2. seat[s].export \in BOOLEAN /\ seat[s].status \in TerminalStatuses \cup {"null"}
  BY <1>1 DEF SeatRow
<1>3. Visits(p, s) /\ seat[s].state = "releasing" /\ UNCHANGED vm
  BY TurnVisits DEF ResumeRelease
<1>4. CASE BeginRelease(s, seat[s].export, seat[s].status, wish[s])
  BY <1>2, <1>3, <1>4, ReleaseEffect DEF Resumes
<1>5. CASE /\ \E state \in Probe(s) : state \notin {"running", "unknown"}
           /\ UpdateSeat(s, ClosedRow(seat[s]))
           /\ op' = IF seat[s].vm THEN Teardown(s, "idle", "null") ELSE Idle
           /\ UNCHANGED <<work, wish>>
  <2>1. Wrote(s, "off", FALSE, "none", FALSE)
    BY <1>5, Writes
  <2>2. Over \/ Under("stop", s, "idle")
    BY <1>5, Begins
  <2> QED BY <1>3, <1>5, <2>1, <2>2 DEF Resumes
<1> QED BY <1>4, <1>5 DEF ResumeRelease

LEMMA ResumeResetEffect ==
    ASSUME TypeOK, NEW s \in Seats, NEW p, ResumeReset(p, s)
    PROVE  Visits(p, s) /\ seat[s].state = "resetting" /\ UNCHANGED vm /\ Resets(s)
BY TurnVisits, ResetEffect DEF ResumeReset

LEMMA ReapErrorEffect ==
    ASSUME TypeOK, NEW s \in Seats, ReapError(s)
    PROVE  /\ Visits("reap_errors", s) /\ UNCHANGED <<seat, request, vm, work>>
           /\ Under("stop", s, "reaped") \/ Under("reaped", s, "idle")
BY TurnVisits, Begins DEF ReapError, host, tables, Steps

LEMMA ReapHeldEffect ==
    ASSUME TypeOK, NEW s \in Seats, ReapHeld(s)
    PROVE  Visits("reap_held", s) /\ UNCHANGED vm /\ Releases(s, FALSE, "discard")
<1>1. BeginRelease(s, FALSE, "expired", "discard") /\ "expired" \in TerminalStatuses
  BY DEF ReapHeld, TerminalStatuses
<1> QED BY <1>1, TurnVisits, ReleaseEffect DEF ReapHeld

LEMMA ReclaimEffect ==
    ASSUME TypeOK, NEW s \in Seats, Reclaim(s)
    PROVE  /\ Visits("reclaim_expired", s) /\ seat[s].state \notin {"off", "held"} /\ UNCHANGED <<vm, work>>
           /\ \/ /\ seat[s].vm /\ Wrote(s, "held", seat[s].vm, "release", seat[s].intent)
                 /\ Under("export", s, "idle") \/ UNCHANGED op
              \/ ~seat[s].vm /\ UNCHANGED op /\ Wrote(s, "off", FALSE, "none", FALSE)
<1>1. Visits("reclaim_expired", s) /\ seat[s].state \notin {"off", "held"} /\ UNCHANGED <<vm, work>>
  BY TurnVisits DEF Reclaim, host
<1>2. seat[s] \in SeatRow
  BY DEF TypeOK, StoreTypeOK
<1>3. CASE seat[s].vm
  <2> DEFINE row == [seat[s] EXCEPT !.state = "held", !.pending = "release",
                                    !.export = seat[s].intent, !.status = "expired"]
  <2>1. UpdateSeat(s, row)
    BY <1>3 DEF Reclaim
  <2>2. seat[s].intent \in BOOLEAN
    BY <1>2 DEF SeatRow
  <2>3. row \in SeatRow
    BY <1>2, <2>2, RowUpdates DEF SeatStates, TerminalStatuses
  <2>4. row.state = "held" /\ row.vm = seat[s].vm /\ row.pending = "release" /\ row.export = seat[s].intent
    BY <1>2 DEF SeatRow
  <2> HIDE DEF row
  <2>5. Wrote(s, "held", seat[s].vm, "release", seat[s].intent)
    BY <2>1, <2>3, <2>4, Write
  <2>6. op' = OpAt("export", s) \/ op' = Idle
    BY <1>3 DEF Reclaim
  <2>7. Under("export", s, "idle") \/ UNCHANGED op
    BY <1>1, <2>6, Begins DEF Visits, Steps
  <2> QED BY <1>1, <1>3, <2>5, <2>7
<1>4. CASE ~seat[s].vm
  <2>1. Wrote(s, "off", FALSE, "none", FALSE)
    BY <1>4, Writes DEF Reclaim
  <2> QED BY <1>1, <1>4, <2>1 DEF Reclaim
<1> QED BY <1>3, <1>4

LEMMA EvictEffect ==
    ASSUME TypeOK, NEW s \in Seats, Evict(s)
    PROVE  /\ Visits("evict_idle", s) /\ s \in IdleSeats /\ UNCHANGED vm
           /\ Releases(s, FALSE, "discard")
BY TurnVisits, ReleaseEffect DEF Evict

LEMMA ProvisionEffect ==
    ASSUME TypeOK, NEW s \in Seats, Provision(s)
    PROVE  /\ Visits("provision_queued", s) /\ UNCHANGED <<vm, work>>
           /\ Under("create", s, "idle")
           /\ Wrote(s, "provisioning", seat[s].vm, seat[s].pending, seat[s].export)
<1>1. Wrote(s, "provisioning", seat[s].vm, seat[s].pending, seat[s].export)
  BY Writes DEF Provision, SeatStates
<1>2. Under("create", s, "idle")
  BY Begins DEF Provision, Steps
<1> QED BY <1>1, <1>2, TurnVisits DEF Provision, host

\* Passing over a seat.
LEMMA SkipEffect ==
    ASSUME TypeOK, NEW s \in Seats, Skip(s)
    PROVE  /\ UNCHANGED <<seat, request, vm, work, op>> /\ Visits(phase, s)
           /\ phase \in {"reconcile_rows", "reap_held", "reclaim_expired", "evict_idle"}
           /\ phase = "reconcile_rows" => ~(Adopts(s) \/ DefinedOnly(s) \/ IsDead(s) \/ IsGone(s))
<1>1. PICK p \in {"reconcile_rows", "reap_held", "reclaim_expired", "evict_idle"} :
           PassOver(p, s) /\ (p = "reconcile_rows" => SkipReconciled(s))
  BY DEF Skip, SkipReconciled, SkipHeld, SkipReclaim, SkipEvict
<1>2. Turn(p, s) /\ Visited(s) /\ UNCHANGED <<seat, request, vm, work, op>>
  BY <1>1 DEF PassOver, host, tables
<1>3. phase = p
  BY <1>2 DEF Turn
<1> QED BY <1>1, <1>2, <1>3, TurnVisits DEF SkipReconciled

\* A new row.
Inserts(s) ==
    /\ seat[s].state = "absent" /\ Wrote(s, "queued", FALSE, "none", FALSE)
    /\ op = Idle /\ UNCHANGED <<vm, work, worker>>

LEMMA InsertEffect ==
    ASSUME TypeOK, NEW s \in Seats, NEW image \in Images, UpdateSeat(s, NewRow(image))
    PROVE  Wrote(s, "queued", FALSE, "none", FALSE)
<1> DEFINE row == NewRow(image)
<1>1. row \in SeatRow
  BY NewRowTypes
<1>2. row.state = "queued" /\ row.vm = FALSE /\ row.pending = "none" /\ row.export = FALSE
  BY DEF NewRow, AbsentSeat
<1>3. UpdateSeat(s, row)
  OBVIOUS
<1> HIDE DEF row
<1> QED BY <1>1, <1>2, <1>3, Write

LEMMA PrewarmEffect ==
    ASSUME TypeOK, NEW s \in Seats, Prewarm(s)
    PROVE  phase = "ensure_min" /\ Prewarmable(s) /\ Inserts(s) /\ UNCHANGED request
BY InsertEffect, StoreAssumption DEF Prewarm, Prewarmable, NextSeatId, Inserts, host

LEMMA AdmitEffect ==
    ASSUME TypeOK, NEW s \in Seats, NEW r \in Requests, AdmitWaiting(r, s)
    PROVE  phase = "admit_waiting" /\ Admitted /\ Inserts(s) /\ ClaimFor(r, s)
<1>1. request[r].image \in Images
  BY DEF TypeOK, StoreTypeOK, QueueRow
<1> QED BY <1>1, InsertEffect DEF AdmitWaiting, Admissible, NextSeatId, Inserts, host

LEMMA PickEffect ==
    ASSUME TypeOK, NEW s \in Seats, NEW r \in Requests, PickIdle(r, s)
    PROVE  /\ phase = "assign_idle" /\ op = Idle
           /\ UNCHANGED <<seat, request, vm, work>> /\ Stands /\ Under("claim", s, "idle")
BY Begins DEF PickIdle, Stands, host, tables

\* A job that works on a seat.
JobOn(s) ==
    \/ Releases(s, TRUE, "export")
    \/ Releases(s, FALSE, "discard")
    \/ Resets(s)
    \/ /\ seat[s].vm /\ UNCHANGED work /\ Under("export", s, "idle")
       /\ Wrote(s, seat[s].state, seat[s].vm, seat[s].pending, seat[s].export)
    \/ "discard" \in JobKinds /\ Discards(s)

\* The jobs, but reconcile.
LEMMA JobEffects ==
    ASSUME TypeOK, ReservationInv, JobNext, ~JobReconcile
    PROVE  /\ phase = "drain_jobs" /\ op = Idle /\ UNCHANGED vm /\ Stands
           /\ \/ UNCHANGED <<seat, work, op>>
              \/ \E s \in Seats : (seat[s].vm \/ seat[s].state # "absent") /\ JobOn(s)
<1>a. {"done", "cancelled"} \subseteq TerminalStatuses /\ "export" \in Steps
  BY DEF TerminalStatuses, Steps
<1>b. \A s \in Seats : /\ seat[s] \in SeatRow
                       /\ seat[s].export \in BOOLEAN /\ seat[s].status \in TerminalStatuses \cup {"null"}
  BY DEF TypeOK, StoreTypeOK, SeatRow
<1> USE DEF Job, Draining, Stands, Inserted
<1> DEFINE Goal == /\ phase = "drain_jobs" /\ op = Idle /\ UNCHANGED vm /\ Stands
                   /\ \/ UNCHANGED <<seat, work, op>>
                      \/ \E s \in Seats : (seat[s].vm \/ seat[s].state # "absent") /\ JobOn(s)
<1>1. ASSUME NEW s \in Seats, JobRelease(s) \/ JobDrop(s) PROVE Goal
  BY <1>1, <1>a, ReleaseEffect DEF JobRelease, JobDrop, JobOn
<1>2. ASSUME NEW s \in Seats, JobReset(s) PROVE Goal
  BY <1>2, ResetEffect DEF JobReset, JobOn, Resets
<1>3. ASSUME NEW s \in Seats, JobExport(s) PROVE Goal
  <2> DEFINE row == [seat[s] EXCEPT !.intent = TRUE]
  <2>1. row \in SeatRow
    BY <1>b, RowTypes
  <2>2. /\ row.state = seat[s].state /\ row.vm = seat[s].vm
        /\ row.pending = seat[s].pending /\ row.export = seat[s].export
    BY <1>b DEF SeatRow
  <2>3. UpdateSeat(s, row)
    BY <1>3 DEF JobExport
  <2> HIDE DEF row
  <2>4. Wrote(s, seat[s].state, seat[s].vm, seat[s].pending, seat[s].export)
    BY <2>1, <2>2, <2>3, Write
  <2>5. op' = OpAt("export", s) => Under("export", s, "idle")
    BY <1>a, OpSeats DEF Under
  <2> QED BY <1>3, <2>4, <2>5 DEF JobExport, JobOn
<1>4. ASSUME NEW s \in Seats, JobRetry(s) PROVE Goal
  <2>1. seat[s].state # "absent"
    BY <1>4 DEF JobRetry, ReservationInv, PendingReleaseStands
  <2>2. CASE seat[s].export
    <3>1. BeginRelease(s, TRUE, seat[s].status, "export")
      BY <1>4, <1>b, <2>2 DEF JobRetry
    <3> QED BY <1>4, <1>b, <2>1, <3>1, ReleaseEffect DEF JobRetry, JobOn
  <2>3. CASE ~seat[s].export
    <3>1. BeginRelease(s, FALSE, seat[s].status, "discard")
      BY <1>4, <1>b, <2>3 DEF JobRetry
    <3> QED BY <1>4, <1>b, <2>1, <3>1, ReleaseEffect DEF JobRetry, JobOn
  <2> QED BY <2>2, <2>3
<1>5. ASSUME NEW s \in Seats, JobDiscard(s) PROVE Goal
  BY <1>5, DiscardEffect DEF JobDiscard, JobOn
<1>6. ASSUME NEW r \in Requests, JobCancel(r) PROVE Goal
  <2>1. CASE UNCHANGED <<seat, lease, work, wish, op>>
    BY <1>6, <2>1 DEF JobCancel
  <2>2. CASE /\ request[r].seat # NoSeat
             /\ BeginRelease(request[r].seat, FALSE, "cancelled", "discard")
    <3>1. request[r].seat \in Seats
      BY <2>2 DEF TypeOK, StoreTypeOK, QueueRow
    <3>2. seat[request[r].seat].state # "absent"
      BY <3>1 DEF ReservationInv, IdsGoUp, RequestsForSeat
    <3>3. Releases(request[r].seat, FALSE, "discard")
      BY <1>a, <2>2, <3>1, ReleaseEffect
    <3> QED BY <1>6, <3>1, <3>2, <3>3 DEF JobCancel, JobOn
  <2> QED BY <1>6, <2>1, <2>2 DEF JobCancel
<1> QED BY <1>1, <1>2, <1>3, <1>4, <1>5, <1>6 DEF JobNext

\* An exec begins or ends on a seat in use.
Works(s) ==
    /\ \/ seat[s].state = "ready" /\ Wrote(s, "busy", seat[s].vm, seat[s].pending, seat[s].export)
       \/ seat[s].state = "busy" /\ Wrote(s, "ready", seat[s].vm, seat[s].pending, seat[s].export)
    /\ UNCHANGED <<vm, worker>>
    /\ \A t \in Seats \ {s} : work'[t] = work[t]
    /\ work'[s] = work[s] \/ (work'[s] = "unpushed" /\ vm[s] = "running")

\* A VM stops or is removed.
Fails(s) ==
    /\ vm[s] # "none" /\ UNCHANGED <<seat, worker>> /\ Spared(s)
    /\ \/ "vmstop" \in Faults /\ vm'[s] = "off" /\ work' = work
       \/ vm'[s] = "none" /\ work'[s] = "clean"

\* The steps that are not the worker's.
LEMMA BystanderEffects ==
    ASSUME TypeOK, ClientNext \/ HostNext
    PROVE  \/ UNCHANGED <<seat, vm, work, worker>>
           \/ \E s \in Seats : Works(s) /\ UNCHANGED request
           \/ \E s \in Seats : Fails(s) /\ UNCHANGED request
           \/ UNCHANGED <<tables, vm, work>> /\ phase' = "down" /\ todo' = {} /\ Over
<1>a. {"busy", "ready"} \subseteq SeatStates /\ work \in [Seats -> WorkStates] /\ vm \in [Seats -> VmStates]
  BY DEF TypeOK, SeatStates
<1>1. ASSUME NEW s \in Seats, BeginWork(s) PROVE Works(s) /\ UNCHANGED request
  <2>1. Wrote(s, "busy", seat[s].vm, seat[s].pending, seat[s].export)
    BY <1>1, <1>a, Writes DEF BeginWork
  <2>2. /\ \A t \in Seats \ {s} : work'[t] = work[t]
        /\ work'[s] = work[s] \/ (work'[s] = "unpushed" /\ vm[s] = "running")
    BY <1>1, <1>a DEF BeginWork
  <2> QED BY <1>1, <2>1, <2>2 DEF BeginWork, Works, worker
<1>2. ASSUME NEW s \in Seats, FinishWork(s) PROVE Works(s) /\ UNCHANGED request
  <2>1. Wrote(s, "ready", seat[s].vm, seat[s].pending, seat[s].export)
    BY <1>2, <1>a, Writes DEF FinishWork
  <2> QED BY <1>2, <2>1 DEF FinishWork, Works, host, worker
<1>3. ASSUME NEW s \in Seats, VmStops(s) \/ VmVanishes(s) PROVE Fails(s) /\ UNCHANGED request
  BY <1>3, <1>a DEF VmStops, VmVanishes, Fails, Spared, tables, worker
<1>4. CASE Crash
  BY <1>4, IdleFields DEF Crash, Over, Under, host
<1>5. CASE \/ \E r \in Requests, image \in Images : Submit(r, image)
           \/ \E r \in Requests : Heartbeat(r) \/ LeaseLapses(r)
           \/ ClearPrewarmBackoff
  BY <1>5 DEF Submit, Heartbeat, LeaseLapses, ClearPrewarmBackoff, host, tables
<1> QED BY <1>1, <1>2, <1>3, <1>4, <1>5 DEF ClientNext, HostNext
-----------------------------------------------------------------------------
(* The steps of Next, by what they work on.                                *)

\* A turn of the worker, or a row it inserts.
TurnOn(s) ==
    \/ DestroyOrphan(s) \/ AdoptRunning(s) \/ DestroyDefined(s) \/ ErrorDead(s) \/ CloseGone(s)
    \/ \E p \in {"resume_interrupted", "reconcile_resume"} : ResumeRelease(p, s) \/ ResumeReset(p, s)
    \/ ReapError(s) \/ ReapHeld(s) \/ Reclaim(s) \/ Evict(s) \/ Provision(s) \/ Prewarm(s) \/ Skip(s)
    \/ \E r \in Requests : AdmitWaiting(r, s) \/ PickIdle(r, s)

\* A job that begins on s.
JobTurn(s) ==
    /\ phase = "drain_jobs" /\ op = Idle /\ UNCHANGED vm /\ Stands
    /\ seat[s].vm \/ seat[s].state # "absent"
    /\ JobOn(s)

\* The worker goes on, and nothing else changes.
Turning == /\ op = Idle /\ UNCHANGED <<seat, request, vm, work, op>>
           /\ BeginReconcile \/ StartUnreconciled \/ Advance

Died == UNCHANGED <<seat, request, vm, work>> /\ phase' = "down" /\ todo' = {} /\ Over

LEMMA StepCases ==
    ASSUME TypeOK, ReservationInv, [Next]_vars
    PROVE  \/ OpNext
           \/ \E s \in Seats : TurnOn(s) \/ JobTurn(s) \/ Works(s) \/ Fails(s)
           \/ Turning
           \/ Died
           \/ UNCHANGED <<seat, vm, work, worker>>
<1>1. CASE UNCHANGED vars
  BY <1>1 DEF vars, tables, worker
<1>2. CASE ClientNext \/ HostNext
  BY <1>2, BystanderEffects DEF Died, tables
<1>3. CASE ReconcileNext \/ PumpNext \/ JobReconcile
  <2>1. phase = "down" => op = Idle
    BY DEF ReservationInv, SnapshotStands
  <2>2. Start \/ StartUnreconciled \/ JobReconcile \/ Advance => Turning
    BY <2>1 DEF Start, JobReconcile, Draining, Turning, BeginReconcile, StartUnreconciled, Advance, tables, host
  <2> QED BY <1>3, <2>2 DEF ReconcileNext, PumpNext, TurnOn
<1>4. CASE JobNext /\ ~JobReconcile
  BY <1>4, JobEffects DEF JobTurn, worker, Stands
<1> QED BY <1>1, <1>2, <1>3, <1>4 DEF Next, WorkerNext
-----------------------------------------------------------------------------
(* Rows and their VMs.                                                     *)

\* A row nobody uses any more, or that never became usable.
Condemned == {"off", "releasing", "error"}

\* A seat that is going to be held names its VM.
HeldToBeHasVm ==
    (op.step = "hold" \/ (op.step = "export" /\ op.next = "stop")) => seat[op.seat].vm

\* A row nobody inserted has nothing behind it, and one that is off names nothing.
AbsentIsNothing ==
    \A s \in Seats : /\ seat[s].state = "absent" => vm[s] = "none"
                     /\ seat[s].state \in {"absent", "off"} => ~seat[s].vm

\* What reconcile destroys as an orphan, and what is torn down with nothing to do
\* afterwards, is the VM of a row that is over.
OrphansAreCondemned ==
    /\ phase = "reconcile_orphans" => \A s \in todo : ~seat[s].vm /\ seat[s].state \in Condemned
    /\ op.step \in {"stop", "destroy"} /\ op.next = "idle" =>
           ~seat[op.seat].vm /\ seat[op.seat].state \in Condemned

\* What a failed resume of a reset discards is the seat that failed.
DiscardsFailed == op.step = "discard" => seat[op.seat].state = "error"

Named == UsableSeatHasVm /\ HeldToBeHasVm /\ AbsentIsNothing /\ OrphansAreCondemned /\ DiscardsFailed

\* The orphans of a list of the VMs are condemned.
LEMMA OrphanRows ==
    ASSUME TypeOK, Named
    PROVE  \A s \in Orphans(vm) : ~seat[s].vm /\ seat[s].state \in Condemned
<1>1. \A s \in Seats : seat[s].state \in SeatStates \cup {"absent"}
  BY DEF TypeOK, StoreTypeOK, SeatRow
<1> QED BY <1>1 DEF Orphans, Named, AbsentIsNothing, UsableSeatHasVm, Condemned, SeatStates

\* A step that works on s keeps Named if it does so at s.
NamedAt(s) ==
    /\ \A t \in Seats \ {s} : seat'[t] = seat[t] /\ vm'[t] = vm[t]
    /\ seat'[s].state \in {"ready", "busy", "resetting", "held"} => seat'[s].vm
    /\ seat'[s].state = "absent" => vm'[s] = "none"
    /\ seat'[s].state \in {"absent", "off"} => ~seat'[s].vm
    /\ op'.step = "discard" => seat'[s].state = "error"
    /\ op'.step # "idle" => op'.seat = s
    /\ (op'.step = "hold" \/ (op'.step = "export" /\ op'.next = "stop")) => seat'[s].vm
    /\ op'.step \in {"stop", "destroy"} /\ op'.next = "idle" =>
           ~seat'[s].vm /\ seat'[s].state \in Condemned
    /\ phase' = "reconcile_orphans" => phase = "reconcile_orphans" /\ todo' \subseteq todo \ {s}

LEMMA NamedLocal ==
    ASSUME TypeOK, Named, NEW s \in Seats, NamedAt(s)
    PROVE  Named'
<1>a. UsableSeatHasVm /\ HeldToBeHasVm /\ AbsentIsNothing /\ OrphansAreCondemned /\ DiscardsFailed
  BY DEF Named
<1>1. UsableSeatHasVm'
  BY <1>a DEF UsableSeatHasVm, NamedAt
<1>2. HeldToBeHasVm'
  BY DEF HeldToBeHasVm, NamedAt
<1>3. AbsentIsNothing'
  BY <1>a DEF AbsentIsNothing, NamedAt
<1>4. OrphansAreCondemned'
  BY <1>a DEF OrphansAreCondemned, NamedAt, TypeOK
<1>5. DiscardsFailed'
  BY DEF DiscardsFailed, NamedAt
<1> QED BY <1>1, <1>2, <1>3, <1>4, <1>5 DEF Named

\* An operation under way is on a seat whose turn is over.
LEMMA OpIsOn ==
    ASSUME TypeOK, ReservationInv, OpNext
    PROVE  op.step # "idle" /\ op.seat \in Seats /\ op.seat \notin todo /\ phase # "down"
<1>1. op.step # "idle"
  BY DEF OpNext, StopVm, DestroyVm, Export, Hold, Close, Discard, Rebuild, Reboot, ResetOk,
     ResetFailed, Create, Boot, Provisioned, ProvisionFailed, Reaped, AssignIdle,
     DefinedDestroyed, Within
<1> QED BY <1>1, IdleFields DEF TypeOK, ReservationInv, SnapshotStands

\* It keeps Named at that seat.
LEMMA NamedWithin == ASSUME TypeOK, ReservationInv, Named, OpNext PROVE NamedAt(op.seat)
<1>a. OperationOwnsRow
  BY DEF ReservationInv
<1>b. UsableSeatHasVm /\ HeldToBeHasVm /\ AbsentIsNothing /\ OrphansAreCondemned /\ DiscardsFailed
  BY DEF Named
<1>c. op.step # "idle" /\ op.seat \in Seats /\ op.seat \notin todo
  BY OpIsOn
<1> USE <1>a, <1>b, <1>c DEF OperationOwnsRow, Stage, NamedAt,
        UsableSeatHasVm, HeldToBeHasVm, AbsentIsNothing, OrphansAreCondemned, DiscardsFailed, Condemned,
        Wrote, Under, Over, Stands, Spared, Switched
<1>1. CASE StopVm
  BY <1>1, StopEffect
<1>2. CASE DestroyVm
  BY <1>2, DestroyEffect
<1>3. CASE Export
  BY <1>3, ExportEffect
<1>4. CASE Rebuild
  BY <1>4, RebuildEffect
<1>5. CASE Reboot
  BY <1>5, RebootEffect
<1>6. CASE Create
  BY <1>6, CreateEffect
<1>7. CASE Boot
  BY <1>7, BootEffect
<1>8. CASE Hold
  BY <1>8, HoldEffect
<1>9. CASE Close
  BY <1>9, CloseEffect
<1>10. CASE ResetOk
  BY <1>10, ResetOkEffect
<1>11. CASE ResetFailed
  BY <1>11, ResetFailedEffect
<1>12. CASE Provisioned
  BY <1>12, ProvisionedEffect
<1>13. CASE ProvisionFailed
  BY <1>13, ProvisionFailedEffect
<1>14. CASE DefinedDestroyed
  BY <1>14, DefinedEffect
<1>15. CASE Reaped
  BY <1>15, ReapedEffect
<1>16. CASE AssignIdle
  BY <1>16, AssignEffect DEF Enter
<1>17. CASE Discard
  BY <1>17, DiscardStepEffect DEF Discards
<1> QED BY <1>1, <1>2, <1>3, <1>4, <1>5, <1>6, <1>7, <1>8, <1>9,
           <1>10, <1>11, <1>12, <1>13, <1>14, <1>15, <1>16, <1>17 DEF OpNext

\* A turn keeps Named at its seat.
LEMMA NamedTurn == ASSUME TypeOK, ReservationInv, Named, NEW s \in Seats, TurnOn(s) PROVE NamedAt(s)
<1>b. UsableSeatHasVm /\ HeldToBeHasVm /\ AbsentIsNothing /\ OrphansAreCondemned /\ DiscardsFailed
  BY DEF Named
<1>c. Idle.step = "idle"
  BY IdleFields
<1> USE <1>b, <1>c DEF worker, Visits, NamedAt,
        UsableSeatHasVm, HeldToBeHasVm, AbsentIsNothing, OrphansAreCondemned, DiscardsFailed, Condemned,
        Wrote, Under, Over, Stands, Spared, Switched
<1>1. CASE DestroyOrphan(s)
  BY <1>1, OrphanEffect
<1>2. CASE AdoptRunning(s)
  BY <1>2, AdoptEffect
<1>3. CASE DestroyDefined(s)
  BY <1>3, DefinedTurnEffect
<1>4. CASE ErrorDead(s)
  BY <1>4, DeadEffect
<1>5. CASE CloseGone(s)
  BY <1>5, GoneEffect
<1>6. ASSUME NEW p, ResumeRelease(p, s) PROVE NamedAt(s)
  <2>1. Resumes(p, s)
    BY <1>6, ResumeReleaseEffect
  <2> QED BY <2>1 DEF Resumes, Releases
<1>7. ASSUME NEW p, ResumeReset(p, s) PROVE NamedAt(s)
  <2>1. Visits(p, s) /\ UNCHANGED vm /\ Resets(s)
    BY <1>7, ResumeResetEffect
  <2> QED BY <2>1 DEF Resets
<1>8. CASE ReapError(s)
  BY <1>8, ReapErrorEffect
<1>9. CASE ReapHeld(s)
  <2>1. Visits("reap_held", s) /\ UNCHANGED vm /\ Releases(s, FALSE, "discard")
    BY <1>9, ReapHeldEffect
  <2> QED BY <2>1 DEF Releases
<1>10. CASE Reclaim(s)
  BY <1>10, ReclaimEffect
<1>11. CASE Evict(s)
  <2>1. Visits("evict_idle", s) /\ UNCHANGED vm /\ Releases(s, FALSE, "discard")
    BY <1>11, EvictEffect
  <2> QED BY <2>1 DEF Releases
<1>12. CASE Provision(s)
  BY <1>12, ProvisionEffect
<1>13. CASE Prewarm(s)
  BY <1>13, PrewarmEffect DEF Inserts
<1>14. CASE Skip(s)
  BY <1>14, SkipEffect
<1>15. ASSUME NEW r \in Requests, AdmitWaiting(r, s) PROVE NamedAt(s)
  BY <1>15, AdmitEffect DEF Inserts
<1>16. ASSUME NEW r \in Requests, PickIdle(r, s) PROVE NamedAt(s)
  BY <1>16, PickEffect
<1> QED BY <1>1, <1>2, <1>3, <1>4, <1>5, <1>6, <1>7, <1>8, <1>9, <1>10, <1>11, <1>12,
           <1>13, <1>14, <1>15, <1>16 DEF TurnOn

\* So does a job.
LEMMA NamedJob == ASSUME TypeOK, ReservationInv, Named, NEW s \in Seats, JobTurn(s) PROVE NamedAt(s)
<1>a. /\ phase = "drain_jobs" /\ op = Idle /\ UNCHANGED vm /\ Stands
      /\ seat[s].vm \/ seat[s].state # "absent"
      /\ JobOn(s)
  BY DEF JobTurn
<1>b. UsableSeatHasVm /\ HeldToBeHasVm /\ AbsentIsNothing /\ OrphansAreCondemned /\ DiscardsFailed
  BY DEF Named
<1>c. Idle.step = "idle"
  BY IdleFields
<1> DEFINE Local == NamedAt(s)
<1>1. ASSUME NEW e, NEW d, Releases(s, e, d) PROVE Local
  BY <1>1, <1>a, <1>b, <1>c DEF Releases, NamedAt, UsableSeatHasVm, AbsentIsNothing, Condemned,
     Wrote, Under, Over, Stands
<1>2. CASE Resets(s)
  BY <1>2, <1>a, <1>b, <1>c DEF Resets, NamedAt, UsableSeatHasVm, AbsentIsNothing, Condemned,
     Wrote, Under, Over, Stands
<1>3. CASE Discards(s)
  BY <1>3, <1>a, <1>b, <1>c DEF Discards, NamedAt, UsableSeatHasVm, AbsentIsNothing, Condemned,
     Wrote, Under, Over, Stands
<1>4. CASE /\ seat[s].vm /\ UNCHANGED work /\ Under("export", s, "idle")
           /\ Wrote(s, seat[s].state, seat[s].vm, seat[s].pending, seat[s].export)
  BY <1>4, <1>a, <1>b, <1>c DEF NamedAt, UsableSeatHasVm, AbsentIsNothing, Condemned,
     Wrote, Under, Over, Stands
<1> HIDE DEF Local
<1> QED BY <1>1, <1>2, <1>3, <1>4, <1>a DEF JobOn, Local
\* The steps that are nobody's turn.
LEMMA NamedElsewhere ==
    ASSUME TypeOK, ReservationInv, Named,
           \/ \E s \in Seats : Works(s) \/ Fails(s)
           \/ Turning \/ Died \/ UNCHANGED <<seat, vm, work, worker>>
    PROVE  Named'
<1>a. UsableSeatHasVm /\ HeldToBeHasVm /\ AbsentIsNothing /\ OrphansAreCondemned /\ DiscardsFailed
  BY DEF Named
<1>b. SnapshotStands
  BY DEF ReservationInv
<1>c. \A t \in todo : t \in Seats
  BY DEF TypeOK
<1>d. op.step # "idle" => op.seat \in Seats
  BY DEF TypeOK
<1>1. ASSUME NEW s \in Seats, Works(s) PROVE Named'
  <2>1. /\ seat'[s].state \in {"ready", "busy"} /\ seat'[s].vm = seat[s].vm /\ seat[s].vm
        /\ \A t \in Seats \ {s} : seat'[t] = seat[t]
        /\ UNCHANGED <<vm, phase, todo, op>>
    BY <1>1, <1>a DEF Works, Wrote, worker, UsableSeatHasVm
  <2>2. seat[s].state \notin Condemned
    BY <1>1 DEF Works, Condemned
  <2>3. UsableSeatHasVm'
    BY <1>a, <2>1 DEF UsableSeatHasVm
  <2>4. HeldToBeHasVm'
    BY <1>a, <1>d, <2>1 DEF HeldToBeHasVm
  <2>5. AbsentIsNothing'
    BY <1>a, <2>1 DEF AbsentIsNothing
  <2>6. OrphansAreCondemned'
    BY <1>a, <1>c, <1>d, <2>1, <2>2 DEF OrphansAreCondemned
  <2>7. DiscardsFailed'
    BY <1>a, <1>d, <2>1, <2>2 DEF DiscardsFailed, Condemned
  <2> QED BY <2>3, <2>4, <2>5, <2>6, <2>7 DEF Named
<1>2. ASSUME NEW s \in Seats, Fails(s) PROVE Named'
  <2>1. AbsentIsNothing'
    BY <1>2, <1>a DEF Fails, Spared, AbsentIsNothing
  <2>2. UNCHANGED <<seat, phase, todo, op>>
    BY <1>2 DEF Fails, worker
  <2> QED BY <1>a, <2>1, <2>2
      DEF Named, UsableSeatHasVm, HeldToBeHasVm, OrphansAreCondemned, DiscardsFailed
<1>3. CASE Turning
  <2>1. UsableSeatHasVm' /\ HeldToBeHasVm' /\ AbsentIsNothing' /\ DiscardsFailed'
    BY <1>3, <1>a DEF Turning, UsableSeatHasVm, HeldToBeHasVm, AbsentIsNothing, DiscardsFailed
  <2>2. op' = op /\ seat' = seat
    BY <1>3 DEF Turning
  <2>3. (phase' = "reconcile_orphans") => \A s \in todo' : ~seat[s].vm /\ seat[s].state \in Condemned
    <3>1. CASE BeginReconcile
      <4>1. todo' = Orphans(vm)
        BY <3>1 DEF BeginReconcile
      <4> QED BY <4>1, OrphanRows
    <3>2. CASE StartUnreconciled
      BY <3>2 DEF StartUnreconciled, Enter
    <3>3. CASE Advance
      <4>1. phase \in Phases \ {"down"} /\ phase' = Follow[phase]
        BY <3>3 DEF Advance, Enter, TypeOK
      <4> QED BY <4>1 DEF Follow, Phases
    <3> QED BY <1>3, <3>1, <3>2, <3>3 DEF Turning
  <2>6. OrphansAreCondemned'
    BY <1>a, <2>2, <2>3 DEF OrphansAreCondemned
  <2> QED BY <2>1, <2>6 DEF Named
<1>4. CASE Died
  BY <1>4, <1>a DEF Died, Over, Under, Named, UsableSeatHasVm, HeldToBeHasVm, AbsentIsNothing, OrphansAreCondemned, DiscardsFailed
<1>5. CASE UNCHANGED <<seat, vm, work, worker>>
  BY <1>5, <1>a DEF worker, Named, UsableSeatHasVm, HeldToBeHasVm, AbsentIsNothing, OrphansAreCondemned, DiscardsFailed
<1> QED BY <1>1, <1>2, <1>3, <1>4, <1>5

LEMMA NamedKept == ASSUME TypeOK, ReservationInv, Named, [Next]_vars PROVE Named'
<1>1. CASE OpNext
  BY <1>1, OpIsOn, NamedWithin, NamedLocal
<1>2. CASE \E s \in Seats : TurnOn(s) \/ JobTurn(s)
  BY <1>2, NamedTurn, NamedJob, NamedLocal
<1> QED BY <1>1, <1>2, StepCases, NamedElsewhere

LEMMA NamedInit == Init => Named
<1> SUFFICES ASSUME Init PROVE Named
  OBVIOUS
<1>1. \A s \in Seats : seat[s].state = "absent" /\ seat[s].vm = FALSE /\ vm[s] = "none"
  BY DEF Init, StoreInit, AbsentSeat, NoVms
<1>2. op.step = "idle" /\ phase = "down"
  BY IdleFields DEF Init
<1> QED BY <1>1, <1>2 DEF Named, UsableSeatHasVm, HeldToBeHasVm, AbsentIsNothing, OrphansAreCondemned, DiscardsFailed

\* The rows and their VMs, in every state.
LEMMA NamedAlways == Spec => []Named
BY TypeInvariant, ReservationInvariant, NamedInit, NamedKept, PTL DEF Spec

\* A row an agent or an operator acts on names its VM, whatever vanished, failed
\* or crashed before.
THEOREM RowsNameTheirVm == Spec => []UsableSeatHasVm
<1>1. Named => UsableSeatHasVm
  BY DEF Named
<1> QED BY <1>1, NamedAlways, PTL
\* Only the steps of an operation touch the VMs: no turn and no job does.
LEMMA TurnSparesVms == \A s \in Seats : TurnOn(s) \/ JobTurn(s) => UNCHANGED vm
BY DEF TurnOn, JobTurn, DestroyOrphan, AdoptRunning, DestroyDefined, ErrorDead, CloseGone, ResumeRelease,
   ResumeReset, ReapError, ReapHeld, Reclaim, Evict, Provision, Prewarm, Skip, SkipReconciled, SkipHeld,
   SkipReclaim, SkipEvict, PassOver, AdmitWaiting, PickIdle, host

\* An operation removes one VM: of the seat it tears down.
LEMMA OpRemoves ==
    ASSUME TypeOK, ReservationInv, OpNext, NEW s \in Seats, vm[s] # "none", vm'[s] = "none"
    PROVE  op.step = "destroy" /\ op.seat = s
<1>a. op.seat \in Seats
  BY OpIsOn
<1> USE <1>a DEF Spared, Switched
<1>1. CASE StopVm
  BY <1>1, StopEffect
<1>2. CASE DestroyVm
  BY <1>2, DestroyEffect
<1>3. CASE Rebuild
  BY <1>3, RebuildEffect
<1>4. CASE Reboot
  BY <1>4, RebootEffect
<1>5. CASE Create
  BY <1>5, CreateEffect
<1>6. CASE Boot
  BY <1>6, BootEffect
<1>7. CASE Export \/ Hold \/ Close \/ Discard \/ ResetOk \/ ResetFailed \/ Provisioned \/ ProvisionFailed
           \/ Reaped \/ AssignIdle \/ DefinedDestroyed
  BY <1>7 DEF Export, Hold, Close, Discard, ResetOk, ResetFailed, Provisioned, ProvisionFailed,
     Reaped, AssignIdle, DefinedDestroyed, host
<1> QED BY <1>1, <1>2, <1>3, <1>4, <1>5, <1>6, <1>7 DEF OpNext

\* The worker destroys a VM only when its row is over, or never was ready: no list,
\* scan or snapshot that is out of date costs a live or a held seat its VM.
THEOREM DestroysOnlyCondemned == Spec => OnlyCondemnedVmsDestroyed
<1> DEFINE Spares == \A s \in Seats : op' # op /\ vm[s] # "none" /\ vm'[s] = "none" =>
                         seat[s].state \in {"releasing", "off", "error", "provisioning"}
<1>1. TypeOK /\ ReservationInv /\ Named /\ [Next]_vars => Spares
  <2> SUFFICES ASSUME TypeOK, ReservationInv, Named, [Next]_vars,
                      NEW s \in Seats, op' # op, vm[s] # "none", vm'[s] = "none"
               PROVE  seat[s].state \in {"releasing", "off", "error", "provisioning"}
    OBVIOUS
  <2>1. OpNext
    BY StepCases, TurnSparesVms DEF Works, Fails, Turning, Died, worker
  <2>2. op.step = "destroy" /\ op.seat = s
    BY <2>1, OpRemoves
  <2>3. op.next \in {"idle", "close", "boot_failed", "reaped", "defined"}
    BY <2>2 DEF ReservationInv, OperationOwnsRow
  <2>4. CASE op.next = "idle"
    BY <2>2, <2>4 DEF Named, OrphansAreCondemned, Condemned
  <2>5. CASE op.next # "idle"
    BY <2>2, <2>3, <2>5 DEF ReservationInv, OperationOwnsRow, Stage
  <2> QED BY <2>4, <2>5
<1>2. TypeOK /\ ReservationInv /\ Named /\ [Next]_vars => [Spares]_vars
  BY <1>1
<1> QED BY <1>2, TypeInvariant, ReservationInvariant, NamedAlways, PTL DEF Spec, OnlyCondemnedVmsDestroyed
-----------------------------------------------------------------------------
(* Work that was decided to be kept.                                       *)

\* The host this is about: no domain stops by itself, and the state of one that
\* exists can be read.
SteadyHost == "vmstop" \notin Faults /\ "probe" \notin Faults

\* Work nobody pushed or abandoned is on a running VM its row names, no operation
\* that would delete it is under way, and a recorded release of it has an export.
WorkIsServed ==
    \A s \in Seats : work[s] = "unpushed" =>
        /\ vm[s] = "running" /\ seat[s].vm
        /\ seat[s].state \in {"ready", "busy", "releasing", "held"}
        /\ op.seat = s => op.step \in {"idle", "claim", "export", "hold"}
        /\ seat[s].state = "releasing" /\ seat[s].pending = "release" => seat[s].export

\* A running VM is one reconcile saw running, as long as its row's turn can come.
RunningIsSeen ==
    /\ phase \in {"reconcile_orphans", "reconcile_rows"} =>
           \A s \in Seats : vm[s] = "running" => seen[s] = "running"
    /\ phase = "reconcile_resume" => \A s \in todo : vm[s] = "running" => seen[s] = "running"

\* Until it resumes releases and resets, reconcile only tears VMs down.
ReconcileTearsDown ==
    phase \in {"reconcile_orphans", "reconcile_rows"} =>
        /\ op.step \in {"idle", "stop", "destroy", "defined"}
        /\ op.step \in {"stop", "destroy"} => op.next \in {"idle", "defined"}

WorkSafe == NoDecidedWorkLost /\ WorkIsServed /\ RunningIsSeen /\ ReconcileTearsDown

\* A step that works on s keeps WorkSafe if it does so at s.
WorkSafeAt(s) ==
    /\ \A t \in Seats \ {s} : seat'[t] = seat[t] /\ vm'[t] = vm[t] /\ work'[t] = work[t]
    /\ op'.step # "idle" => op'.seat = s
    /\ work'[s] # "lost"
    /\ work'[s] = "unpushed" =>
           /\ vm'[s] = "running" /\ seat'[s].vm
           /\ seat'[s].state \in {"ready", "busy", "releasing", "held"}
           /\ op'.step \in {"idle", "claim", "export", "hold"}
           /\ seat'[s].state = "releasing" /\ seat'[s].pending = "release" => seat'[s].export
    /\ phase' \in {"reconcile_orphans", "reconcile_rows"} =>
           /\ phase' = phase /\ seen' = seen /\ (vm'[s] = "running" => vm[s] = "running")
           /\ op'.step \in {"idle", "stop", "destroy", "defined"}
           /\ op'.step \in {"stop", "destroy"} => op'.next \in {"idle", "defined"}
    /\ phase' = "reconcile_resume" => phase' = phase /\ seen' = seen /\ todo' \subseteq todo \ {s}

LEMMA WorkLocal == ASSUME TypeOK, WorkSafe, NEW s \in Seats, WorkSafeAt(s) PROVE WorkSafe'
<1>a. NoDecidedWorkLost /\ WorkIsServed /\ RunningIsSeen
  BY DEF WorkSafe
<1>1. NoDecidedWorkLost'
  BY <1>a DEF NoDecidedWorkLost, WorkSafeAt
<1>2. WorkIsServed'
  <2> SUFFICES ASSUME NEW t \in Seats, work'[t] = "unpushed"
               PROVE  /\ vm'[t] = "running" /\ seat'[t].vm
                      /\ seat'[t].state \in {"ready", "busy", "releasing", "held"}
                      /\ op'.seat = t => op'.step \in {"idle", "claim", "export", "hold"}
                      /\ seat'[t].state = "releasing" /\ seat'[t].pending = "release" => seat'[t].export
    BY DEF WorkIsServed
  <2>1. CASE t = s
    BY <2>1 DEF WorkSafeAt
  <2>2. CASE t # s
    <3>1. seat'[t] = seat[t] /\ vm'[t] = vm[t] /\ work'[t] = work[t]
      BY <2>2 DEF WorkSafeAt
    <3>2. op'.seat = t => op'.step = "idle"
      BY <2>2 DEF WorkSafeAt
    <3> QED BY <1>a, <3>1, <3>2 DEF WorkIsServed
  <2> QED BY <2>1, <2>2
<1>3. RunningIsSeen'
  BY <1>a DEF RunningIsSeen, WorkSafeAt, TypeOK
<1>4. ReconcileTearsDown'
  BY DEF ReconcileTearsDown, WorkSafeAt
<1> QED BY <1>1, <1>2, <1>3, <1>4 DEF WorkSafe

\* An operation under way destroys only work that was pushed or given up.
LEMMA WorkWithin == ASSUME TypeOK, ReservationInv, Named, WorkSafe, OpNext PROVE WorkSafeAt(op.seat)
<1>a. OperationOwnsRow
  BY DEF ReservationInv
<1>b. WorkIsServed /\ ReconcileTearsDown /\ work[op.seat] # "lost"
  BY OpIsOn DEF WorkSafe, NoDecidedWorkLost
<1>c. op.step # "idle" /\ op.seat \in Seats /\ op.seat \notin todo
  BY OpIsOn
<1> USE <1>a, <1>b, <1>c DEF WorkSafeAt, WorkIsServed, ReconcileTearsDown, Ebbed, Kept,
        Wrote, Under, Over, Stands, Spared, Switched
<1>1. CASE StopVm
  BY <1>1, StopEffect
<1>2. CASE DestroyVm
  <2>1. work[op.seat] # "unpushed"
    BY <1>2, DestroyEffect
  <2>2. work'[op.seat] \notin {"unpushed", "lost"} /\ Spared(op.seat) /\ vm'[op.seat] \in {vm[op.seat], "none"}
    BY <1>2, <2>1, DestroyEffect
  <2>3. op.next \in {"idle", "close", "boot_failed", "reaped", "defined"}
    BY <1>2, DestroyEffect DEF OperationOwnsRow
  <2>4. Over \/ Under(op.next, op.seat, op.next)
    BY <1>2, DestroyEffect
  <2>5. op.step = "destroy" /\ UNCHANGED seat /\ Stands
    BY <1>2, DestroyEffect
  <2> QED BY <2>2, <2>3, <2>4, <2>5
<1>3. CASE Export
  BY <1>3, ExportEffect
<1>4. CASE Rebuild
  BY <1>4, RebuildEffect
<1>5. CASE Reboot
  BY <1>5, RebootEffect
<1>6. CASE Create
  BY <1>6, CreateEffect
<1>7. CASE Boot
  BY <1>7, BootEffect
<1>8. CASE Hold
  BY <1>8, HoldEffect
<1>9. CASE Close
  BY <1>9, CloseEffect
<1>10. CASE ResetOk
  BY <1>10, ResetOkEffect
<1>11. CASE ResetFailed
  BY <1>11, ResetFailedEffect
<1>12. CASE Provisioned
  BY <1>12, ProvisionedEffect
<1>13. CASE ProvisionFailed
  BY <1>13, ProvisionFailedEffect
<1>14. CASE DefinedDestroyed
  BY <1>14, DefinedEffect
<1>15. CASE Reaped
  BY <1>15, ReapedEffect
<1>16. CASE AssignIdle
  BY <1>16, AssignEffect DEF Enter
<1>17. CASE Discard
  BY <1>17, DiscardStepEffect DEF Discards
<1> QED BY <1>1, <1>2, <1>3, <1>4, <1>5, <1>6, <1>7, <1>8, <1>9,
           <1>10, <1>11, <1>12, <1>13, <1>14, <1>15, <1>16, <1>17 DEF OpNext
\* A release takes unpushed work to an export, unless the work was given up.
LEMMA WorkReleases ==
    ASSUME TypeOK, Named, WorkSafe, NEW s \in Seats, NEW export, NEW decision, Releases(s, export, decision),
           work[s] = "unpushed" => export \/ decision = "discard",
           UNCHANGED <<vm, seen>>, phase' = phase, op = Idle,
           phase \notin {"reconcile_orphans", "reconcile_rows"},
           phase = "reconcile_resume" => todo' \subseteq todo \ {s}
    PROVE  WorkSafeAt(s)
<1>a. WorkIsServed /\ work[s] # "lost"
  BY DEF WorkSafe, NoDecidedWorkLost
<1>1. CASE seat[s].state = "off" /\ Over /\ UNCHANGED <<seat, work>>
  <2>1. work[s] # "unpushed"
    BY <1>a, <1>1 DEF WorkIsServed
  <2> QED BY <1>a, <1>1, <2>1 DEF WorkSafeAt, Over, Under
<1>2. CASE seat[s].state # "off"
  <2>1. /\ Wrote(s, "releasing", seat[s].vm, "release", export)
        /\ \/ Under("close", s, "idle") /\ ~seat[s].vm
           \/ Under("export", s, "stop") /\ seat[s].vm /\ export
           \/ Under("stop", s, "close") /\ seat[s].vm /\ ~export
        /\ \A t \in Seats \ {s} : work'[t] = work[t]
        /\ Kept(s)
        /\ decision = "discard" => work'[s] # "unpushed"
    BY <1>2 DEF Releases
  <2>2. CASE work'[s] = "unpushed"
    <3>1. work[s] = "unpushed" /\ export
      BY <2>1, <2>2 DEF Kept
    <3>2. vm[s] = "running" /\ seat[s].vm
      BY <1>a, <3>1 DEF WorkIsServed
    <3> QED BY <2>1, <2>2, <3>1, <3>2 DEF WorkSafeAt, Wrote, Under
  <2>3. CASE work'[s] # "unpushed"
    <3>1. work'[s] # "lost"
      BY <1>a, <2>1 DEF Kept
    <3> QED BY <2>1, <2>3, <3>1 DEF WorkSafeAt, Wrote, Under
  <2> QED BY <2>2, <2>3
<1> QED BY <1>1, <1>2 DEF Releases

\* A turn is not taken from a seat that holds unpushed work without an export.
LEMMA WorkTurn ==
    ASSUME TypeOK, ReservationInv, Named, WorkSafe, SteadyHost, NEW s \in Seats, TurnOn(s)
    PROVE  WorkSafeAt(s)
<1>a. SnapshotStands
  BY DEF ReservationInv
<1>b. WorkIsServed /\ RunningIsSeen /\ ReconcileTearsDown /\ work[s] # "lost"
  BY DEF WorkSafe, NoDecidedWorkLost
<1>c. Idle.step = "idle"
  BY IdleFields
<1>d. OrphansAreCondemned
  BY DEF Named
<1> USE <1>b, <1>c DEF WorkSafeAt, WorkIsServed, Kept, Visits, Wrote, Under, Over
<1>1. CASE DestroyOrphan(s)
  <2>1. ~seat[s].vm
    BY <1>1, <1>d, OrphanEffect DEF OrphansAreCondemned
  <2> QED BY <1>1, <2>1, OrphanEffect
<1>2. CASE AdoptRunning(s)
  BY <1>2, AdoptEffect DEF Adopts
<1>3. CASE DestroyDefined(s)
  BY <1>3, DefinedTurnEffect DEF DefinedOnly
<1>4. CASE ErrorDead(s)
  <2>1. IsDead(s) /\ phase = "reconcile_rows"
    BY <1>4, DeadEffect
  <2>2. work[s] # "unpushed"
    BY <2>1 DEF IsDead, RunningIsSeen
  <2> QED BY <1>4, <2>2, DeadEffect
<1>5. CASE CloseGone(s)
  <2>1. IsGone(s) /\ phase = "reconcile_rows"
    BY <1>5, GoneEffect
  <2>2. work[s] # "unpushed"
    BY <2>1 DEF IsGone, Known, RunningIsSeen
  <2> QED BY <1>5, <2>2, GoneEffect
<1>6. ASSUME NEW p \in {"resume_interrupted", "reconcile_resume"}, ResumeRelease(p, s) PROVE WorkSafeAt(s)
  <2>1. Resumes(p, s) /\ Visits(p, s) /\ seat[s].state = "releasing" /\ UNCHANGED vm
    BY <1>6, ResumeReleaseEffect DEF Resumes
  <2>2. seat[s].pending = "release"
    BY <1>a, <2>1 DEF SnapshotStands
  <2>3. CASE Releases(s, seat[s].export, wish[s])
    <3>1. work[s] = "unpushed" => seat[s].export
      BY <2>1, <2>2
    <3>2. phase \notin {"reconcile_orphans", "reconcile_rows"}
      BY <2>1
    <3> QED BY <2>1, <2>3, <3>1, <3>2, WorkReleases
  <2>4. CASE /\ \E state \in Probe(s) : state \notin {"running", "unknown"}
             /\ Wrote(s, "off", FALSE, "none", FALSE) /\ UNCHANGED work
             /\ Over \/ Under("stop", s, "idle")
    <3>1. work[s] # "unpushed"
      BY <2>1, <2>4 DEF Probe, RunningIsSeen, SteadyHost
    <3> QED BY <2>1, <2>4, <3>1
  <2> QED BY <2>1, <2>3, <2>4 DEF Resumes
<1>7. ASSUME NEW p \in {"resume_interrupted", "reconcile_resume"}, ResumeReset(p, s) PROVE WorkSafeAt(s)
  <2>1. Visits(p, s) /\ UNCHANGED vm /\ Resets(s)
    BY <1>7, ResumeResetEffect
  <2> QED BY <2>1 DEF Resets
<1>8. CASE ReapError(s)
  <2>1. seat[s].state = "error"
    BY <1>8, <1>a, ReapErrorEffect DEF SnapshotStands
  <2> QED BY <1>8, <2>1, ReapErrorEffect
<1>9. CASE ReapHeld(s)
  <2>1. Visits("reap_held", s) /\ UNCHANGED vm /\ Releases(s, FALSE, "discard")
    BY <1>9, ReapHeldEffect
  <2> QED BY <2>1, WorkReleases
<1>10. CASE Reclaim(s)
  BY <1>10, ReclaimEffect
<1>11. CASE Evict(s)
  <2>1. Visits("evict_idle", s) /\ UNCHANGED vm /\ Releases(s, FALSE, "discard")
    BY <1>11, EvictEffect
  <2> QED BY <2>1, WorkReleases
<1>12. CASE Provision(s)
  <2>1. seat[s].state = "queued"
    BY <1>12, <1>a, ProvisionEffect DEF SnapshotStands
  <2> QED BY <1>12, <2>1, ProvisionEffect
<1>13. CASE Prewarm(s)
  BY <1>13, PrewarmEffect DEF Inserts, worker
<1>14. CASE Skip(s)
  BY <1>14, SkipEffect
<1>15. ASSUME NEW r \in Requests, AdmitWaiting(r, s) PROVE WorkSafeAt(s)
  BY <1>15, AdmitEffect DEF Inserts, worker
<1>16. ASSUME NEW r \in Requests, PickIdle(r, s) PROVE WorkSafeAt(s)
  BY <1>16, PickEffect DEF Stands
<1> QED BY <1>1, <1>2, <1>3, <1>4, <1>5, <1>6, <1>7, <1>8, <1>9, <1>10, <1>11, <1>12,
           <1>13, <1>14, <1>15, <1>16 DEF TurnOn

\* Nor is it taken by a job.
LEMMA WorkJob ==
    ASSUME TypeOK, ReservationInv, Named, WorkSafe, NEW s \in Seats, JobTurn(s)
    PROVE  WorkSafeAt(s)
<1>a. /\ phase = "drain_jobs" /\ op = Idle /\ UNCHANGED vm /\ Stands
      /\ JobOn(s)
  BY DEF JobTurn
<1>b. WorkIsServed /\ work[s] # "lost"
  BY DEF WorkSafe, NoDecidedWorkLost
<1> DEFINE Local == WorkSafeAt(s)
<1>1. CASE Releases(s, TRUE, "export") \/ Releases(s, FALSE, "discard")
  BY <1>1, <1>a, WorkReleases DEF Stands
<1>2. CASE Resets(s)
  BY <1>2, <1>a, <1>b DEF Resets, WorkSafeAt, Kept, Wrote, Under, Stands
<1>3. CASE Discards(s)
  BY <1>3, <1>a, <1>b DEF Discards, WorkSafeAt, Kept, Wrote, Under, Stands
<1>4. CASE /\ seat[s].vm /\ UNCHANGED work /\ Under("export", s, "idle")
           /\ Wrote(s, seat[s].state, seat[s].vm, seat[s].pending, seat[s].export)
  BY <1>4, <1>a, <1>b DEF WorkIsServed, WorkSafeAt, Wrote, Under, Stands
<1> HIDE DEF Local
<1> QED BY <1>1, <1>2, <1>3, <1>4, <1>a DEF JobOn, Local
\* Work is only written to a VM that runs, by an exec of a seat in use.
LEMMA WorkWorks ==
    ASSUME TypeOK, ReservationInv, Named, WorkSafe, NEW s \in Seats, Works(s)
    PROVE  WorkSafe'
<1>a. NoDecidedWorkLost /\ WorkIsServed /\ RunningIsSeen /\ ReconcileTearsDown
  BY DEF WorkSafe
<1>b. UNCHANGED <<vm, phase, todo, op, seen>>
  BY DEF Works, worker
<1>c. /\ \A t \in Seats \ {s} : seat'[t] = seat[t] /\ work'[t] = work[t]
      /\ seat'[s].state \in {"ready", "busy"} /\ seat'[s].vm = seat[s].vm
      /\ seat[s].state \in {"ready", "busy"}
      /\ work'[s] = work[s] \/ (work'[s] = "unpushed" /\ vm[s] = "running")
  BY DEF Works, Wrote
<1>1. NoDecidedWorkLost'
  BY <1>a, <1>c DEF NoDecidedWorkLost
<1>2. WorkIsServed'
  <2>1. op.seat = s => op.step \in {"idle", "claim", "export", "hold"}
    <3> SUFFICES ASSUME op.seat = s, op.step \notin {"idle", "claim", "export", "hold"} PROVE FALSE
      OBVIOUS
    <3>1. op.step \in Steps
      BY DEF TypeOK, Operation
    <3>2. CASE op.step \in {"stop", "destroy"}
      <4>1. op.next \in {"idle", "close", "boot_failed", "reaped", "defined"}
        BY <3>2 DEF ReservationInv, OperationOwnsRow
      <4>2. op.next # "idle"
        BY <1>c, <3>2 DEF Named, OrphansAreCondemned, Condemned
      <4> QED BY <1>c, <3>2, <4>1, <4>2 DEF ReservationInv, OperationOwnsRow, Stage
    <3>3. CASE op.step = "discard"
      BY <1>c, <3>3 DEF Named, DiscardsFailed
    <3>4. CASE op.step \notin {"stop", "destroy", "discard"}
      BY <1>c, <3>1, <3>4 DEF ReservationInv, OperationOwnsRow, Stage, Steps
    <3> QED BY <3>2, <3>3, <3>4
  <2>2. seat[s].vm
    BY <1>c DEF Named, UsableSeatHasVm
  <2>3. work'[s] = "unpushed" => vm[s] = "running"
    BY <1>a, <1>c DEF WorkIsServed
  <2> QED BY <1>a, <1>b, <1>c, <2>1, <2>2, <2>3 DEF WorkIsServed
<1>3. RunningIsSeen' /\ ReconcileTearsDown'
  BY <1>a, <1>b DEF RunningIsSeen, ReconcileTearsDown
<1> QED BY <1>1, <1>2, <1>3 DEF WorkSafe

\* A VM that is removed takes its overlay along.
LEMMA WorkFails ==
    ASSUME TypeOK, WorkSafe, SteadyHost, NEW s \in Seats, Fails(s)
    PROVE  WorkSafe'
<1>a. NoDecidedWorkLost /\ WorkIsServed /\ RunningIsSeen /\ ReconcileTearsDown
  BY DEF WorkSafe
<1>b. UNCHANGED <<seat, phase, todo, op, seen>>
  BY DEF Fails, worker
<1>c. /\ \A t \in Seats \ {s} : vm'[t] = vm[t] /\ work'[t] = work[t]
      /\ vm'[s] = "none" /\ work'[s] = "clean"
  BY DEF Fails, Spared, SteadyHost
<1>1. NoDecidedWorkLost' /\ WorkIsServed'
  BY <1>a, <1>b, <1>c DEF NoDecidedWorkLost, WorkIsServed
<1>2. RunningIsSeen'
  BY <1>a, <1>b, <1>c DEF RunningIsSeen, TypeOK
<1>3. ReconcileTearsDown'
  BY <1>a, <1>b DEF ReconcileTearsDown
<1> QED BY <1>1, <1>2, <1>3 DEF WorkSafe

\* Going on to another phase: reconcile starts from what runs.
LEMMA WorkTurning ==
    ASSUME TypeOK, ReservationInv, WorkSafe, SteadyHost, Turning
    PROVE  WorkSafe'
<1>a. NoDecidedWorkLost /\ WorkIsServed /\ RunningIsSeen /\ ReconcileTearsDown
  BY DEF WorkSafe
<1>b. UNCHANGED <<seat, vm, work, op>>
  BY DEF Turning
<1>1. NoDecidedWorkLost' /\ WorkIsServed'
  BY <1>a, <1>b DEF NoDecidedWorkLost, WorkIsServed
<1>5. RunningIsSeen'
  <2>1. CASE BeginReconcile
    <3>1. phase' = "reconcile_orphans" /\ \A s \in Seats : seen'[s] = vm[s]
      BY <2>1 DEF BeginReconcile, Listed, SteadyHost
    <3> QED BY <1>b, <3>1 DEF RunningIsSeen
  <2>2. CASE StartUnreconciled
    BY <2>2 DEF StartUnreconciled, Enter, RunningIsSeen
  <2>3. CASE Advance
    <3>1. phase \in Phases \ {"down"} /\ phase' = Follow[phase] /\ todo' = Snapshot(phase')
      BY <2>3 DEF Advance, Enter, TypeOK
    <3>2. CASE phase = "reconcile_orphans"
      <4>1. phase' = "reconcile_rows" /\ seen' = seen
        BY <2>3, <3>1, <3>2 DEF Advance, Follow
      <4> QED BY <1>a, <1>b, <3>2, <4>1 DEF RunningIsSeen
    <3>3. CASE phase = "reconcile_rows"
      <4>1. phase' = "reconcile_resume" /\ seen' = seen
        BY <2>3, <3>1, <3>3 DEF Advance, Follow
      <4>2. todo' \subseteq Seats
        BY <3>1, SnapshotType
      <4> QED BY <1>a, <1>b, <3>3, <4>1, <4>2 DEF RunningIsSeen
    <3>4. CASE phase \notin {"reconcile_orphans", "reconcile_rows"}
      <4>1. phase' \notin {"reconcile_orphans", "reconcile_rows", "reconcile_resume"}
        BY <3>1, <3>4 DEF Follow, Phases
      <4> QED BY <4>1 DEF RunningIsSeen
    <3> QED BY <3>2, <3>3, <3>4
  <2> QED BY <2>1, <2>2, <2>3 DEF Turning
<1>6. ReconcileTearsDown'
  BY IdleFields DEF Turning, ReconcileTearsDown
<1> QED BY <1>1, <1>5, <1>6 DEF WorkSafe
LEMMA WorkKept ==
    ASSUME TypeOK, ReservationInv, Named, WorkSafe, SteadyHost, [Next]_vars
    PROVE  WorkSafe'
<1>1. CASE OpNext
  BY <1>1, OpIsOn, WorkWithin, WorkLocal
<1>2. CASE \E s \in Seats : TurnOn(s) \/ JobTurn(s)
  BY <1>2, WorkTurn, WorkJob, WorkLocal
<1>3. CASE \E s \in Seats : Works(s) \/ Fails(s)
  BY <1>3, WorkWorks, WorkFails
<1>4. CASE Turning
  BY <1>4, WorkTurning
<1>5. CASE Died
  BY <1>5 DEF Died, Over, Under, WorkSafe, NoDecidedWorkLost, WorkIsServed, RunningIsSeen,
     ReconcileTearsDown
<1>6. CASE UNCHANGED <<seat, vm, work, worker>>
  BY <1>6 DEF worker, WorkSafe, NoDecidedWorkLost, WorkIsServed, RunningIsSeen, ReconcileTearsDown
<1> QED BY <1>1, <1>2, <1>3, <1>4, <1>5, <1>6, StepCases

LEMMA WorkInit == Init => WorkSafe
<1> SUFFICES ASSUME Init PROVE WorkSafe
  OBVIOUS
<1>1. \A s \in Seats : work[s] = "clean"
  BY DEF Init
<1>2. op.step = "idle" /\ phase = "down"
  BY IdleFields DEF Init
<1> QED BY <1>1, <1>2 DEF WorkSafe, NoDecidedWorkLost, WorkIsServed, RunningIsSeen, ReconcileTearsDown

\* On a host whose domains do not stop by themselves and whose state can be read,
\* work that a release or a stasis decided to export or to preserve is never
\* destroyed, through failed exports, teardowns, resets and crashes.
THEOREM DecidedWorkIsKept ==
    ASSUME SteadyHost
    PROVE  Spec => []NoDecidedWorkLost
<1>1. TypeOK /\ ReservationInv /\ Named /\ WorkSafe /\ [Next]_vars => WorkSafe'
  BY WorkKept
<1>2. WorkSafe => NoDecidedWorkLost
  BY DEF WorkSafe
<1> QED BY <1>1, <1>2, TypeInvariant, ReservationInvariant, NamedAlways, WorkInit, PTL DEF Spec
-----------------------------------------------------------------------------
(* Without a prewarm floor, every row was inserted for a request.          *)

\* prewarm.min_seats = 0, the default (config.py): no seat is made ahead of a request.
NoPrewarm == MinSeats = 0

TodoInserted == \A s \in todo : seat[s].state # "absent"

WaitingHasNoSeat == \A r \in Requests : request[r].status = "waiting" => request[r].seat = NoSeat

InsertedForRequest == \A s \in Seats : seat[s].state # "absent" => RequestsForSeat(s) # {}

Served == TodoInserted /\ WaitingHasNoSeat /\ InsertedForRequest

\* A request keeps the seat it was claimed for.
LEMMA SeatsKept ==
    ASSUME TypeOK, ReservationInv, WaitingHasNoSeat, PoolStep
    PROVE  /\ WaitingHasNoSeat'
           /\ \A r \in Requests : request[r].seat \in Seats => request'[r].seat = request[r].seat
<1>a. \A r \in Requests : request[r] \in QueueRow
  BY DEF TypeOK, StoreTypeOK
<1> DEFINE Goal == /\ \A r \in Requests : request'[r].status = "waiting" => request'[r].seat = NoSeat
                   /\ \A r \in Requests : request[r].seat \in Seats => request'[r].seat = request[r].seat
<1>1. CASE Touched
  BY <1>1 DEF Touched, WaitingHasNoSeat
<1>2. ASSUME NEW s \in Seats, Closed(s) PROVE Goal
  <2>1. PICK status \in TerminalStatuses \cup {"null"} : CloseLease(s, status)
    BY <1>2 DEF Closed
  <2>2. \A r \in Requests : \/ request'[r] = request[r]
                            \/ request'[r] = [request[r] EXCEPT !.status = status] /\ status \in TerminalStatuses
    BY <2>1 DEF CloseLease
  <2>3. \A r \in Requests : \/ request'[r] = request[r]
                            \/ request'[r].seat = request[r].seat /\ request'[r].status # "waiting"
    BY <1>a, <2>2 DEF QueueRow, TerminalStatuses
  <2> QED BY <2>3 DEF WaitingHasNoSeat
<1>3. ASSUME NEW r \in Requests, NEW s \in Seats, Claimed(r, s) PROVE Goal
  <2>1. /\ \A q \in Requests \ {r} : request'[q] = request[q]
        /\ request'[r].status = "claimed"
    BY <1>3, <1>a DEF Claimed, ClaimFor, TypeOK, StoreTypeOK, QueueRow
  <2>2. request[r].seat = NoSeat
    BY <1>3 DEF Claimed, NextWaiting, WaitingHasNoSeat
  <2> QED BY <2>1, <2>2, NoSeatIsNone DEF WaitingHasNoSeat
<1>4. ASSUME NEW r \in Requests, NEW image \in Images, Submit(r, image) PROVE Goal
  <2> DEFINE new == [AbsentRequest EXCEPT !.status = "waiting", !.image = image]
  <2>1. new.seat = NoSeat
    BY DEF AbsentRequest
  <2>2. request' = [request EXCEPT ![r] = new]
    BY <1>4 DEF Submit
  <2> HIDE DEF new
  <2>3. /\ \A q \in Requests \ {r} : request'[q] = request[q]
        /\ request'[r].seat = NoSeat
    BY <2>1, <2>2 DEF TypeOK, StoreTypeOK
  <2>4. request[r].seat = NoSeat
    BY <1>4 DEF Submit, NextRequestId, ReservationInv, IdsGoUp
  <2> QED BY <2>3, <2>4, NoSeatIsNone DEF WaitingHasNoSeat
<1>5. ASSUME NEW r \in Requests, Cancelled(r) PROVE Goal
  <2>1. /\ \A q \in Requests \ {r} : request'[q] = request[q]
        /\ request'[r].status = "cancelled" /\ request'[r].seat = request[r].seat
    BY <1>5, <1>a DEF Cancelled, TypeOK, StoreTypeOK, QueueRow
  <2> QED BY <2>1 DEF WaitingHasNoSeat
<1> QED BY <1>1, <1>2, <1>3, <1>4, <1>5 DEF PoolStep, WaitingHasNoSeat

\* A step that neither inserts nor removes a row.
PresentAt(s) ==
    /\ \A t \in Seats \ {s} : seat'[t] = seat[t]
    /\ seat'[s].state = "absent" <=> seat[s].state = "absent"
    /\ todo' \subseteq todo

LEMMA OpPresent == ASSUME TypeOK, ReservationInv, Named, OpNext PROVE PresentAt(op.seat)
<1>a. OperationOwnsRow
  BY DEF ReservationInv
<1>b. DiscardsFailed
  BY DEF Named
<1>c. op.seat \in Seats
  BY OpIsOn
<1> USE <1>a, <1>b, <1>c DEF PresentAt, OperationOwnsRow, Stage, DiscardsFailed, Wrote, Stands
<1>1. CASE StopVm
  BY <1>1, StopEffect
<1>2. CASE DestroyVm
  BY <1>2, DestroyEffect
<1>3. CASE Export
  BY <1>3, ExportEffect
<1>4. CASE Rebuild
  BY <1>4, RebuildEffect
<1>5. CASE Reboot
  BY <1>5, RebootEffect
<1>6. CASE Create
  BY <1>6, CreateEffect
<1>7. CASE Boot
  BY <1>7, BootEffect
<1>8. CASE Hold
  BY <1>8, HoldEffect
<1>9. CASE Close
  BY <1>9, CloseEffect
<1>10. CASE ResetOk
  BY <1>10, ResetOkEffect
<1>11. CASE ResetFailed
  BY <1>11, ResetFailedEffect
<1>12. CASE Provisioned
  BY <1>12, ProvisionedEffect
<1>13. CASE ProvisionFailed
  BY <1>13, ProvisionFailedEffect
<1>14. CASE DefinedDestroyed
  BY <1>14, DefinedEffect
<1>15. CASE Reaped
  BY <1>15, ReapedEffect
<1>16. CASE AssignIdle
  BY <1>16, AssignEffect DEF Enter, Snapshot
<1>17. CASE Discard
  BY <1>17, DiscardStepEffect DEF Discards
<1> QED BY <1>1, <1>2, <1>3, <1>4, <1>5, <1>6, <1>7, <1>8, <1>9,
           <1>10, <1>11, <1>12, <1>13, <1>14, <1>15, <1>16, <1>17 DEF OpNext

LEMMA TurnPresent ==
    ASSUME TypeOK, TodoInserted, NEW s \in Seats, TurnOn(s)
    PROVE  \/ PresentAt(s)
           \/ Prewarm(s)
           \/ \E r \in Requests : AdmitWaiting(r, s)
<1>a. \A p : Visits(p, s) => seat[s].state # "absent" /\ todo' \subseteq todo
  BY DEF TodoInserted, Visits
<1> USE DEF PresentAt, Wrote
<1>1. CASE DestroyOrphan(s)
  BY <1>1, <1>a, OrphanEffect
<1>2. CASE AdoptRunning(s)
  BY <1>2, <1>a, AdoptEffect
<1>3. CASE DestroyDefined(s)
  BY <1>3, <1>a, DefinedTurnEffect
<1>4. CASE ErrorDead(s)
  BY <1>4, <1>a, DeadEffect
<1>5. CASE CloseGone(s)
  BY <1>5, <1>a, GoneEffect
<1>6. ASSUME NEW p, ResumeRelease(p, s) PROVE PresentAt(s)
  <2>1. Resumes(p, s)
    BY <1>6, ResumeReleaseEffect
  <2> QED BY <1>a, <2>1 DEF Resumes, Releases
<1>7. ASSUME NEW p, ResumeReset(p, s) PROVE PresentAt(s)
  <2>1. Visits(p, s) /\ Resets(s)
    BY <1>7, ResumeResetEffect
  <2> QED BY <1>a, <2>1 DEF Resets
<1>8. CASE ReapError(s)
  BY <1>8, <1>a, ReapErrorEffect
<1>9. CASE ReapHeld(s) \/ Evict(s)
  <2>1. PICK p : Visits(p, s) /\ Releases(s, FALSE, "discard")
    BY <1>9, ReapHeldEffect, EvictEffect
  <2> QED BY <1>a, <2>1 DEF Releases
<1>10. CASE Reclaim(s)
  BY <1>10, <1>a, ReclaimEffect
<1>12. CASE Provision(s)
  BY <1>12, <1>a, ProvisionEffect
<1>14. CASE Skip(s)
  BY <1>14, <1>a, SkipEffect
<1>16. ASSUME NEW r \in Requests, PickIdle(r, s) PROVE PresentAt(s)
  BY <1>16, PickEffect DEF Stands
<1> QED BY <1>1, <1>2, <1>3, <1>4, <1>5, <1>6, <1>7, <1>8, <1>9, <1>10, <1>12, <1>14, <1>16 DEF TurnOn

LEMMA JobPresent ==
    ASSUME Named, NEW s \in Seats, JobTurn(s)
    PROVE  PresentAt(s)
<1>1. (seat[s].vm \/ seat[s].state # "absent") /\ JobOn(s) /\ todo' = todo
  BY DEF JobTurn, Stands
<1>2. seat[s].state # "absent"
  BY <1>1 DEF Named, AbsentIsNothing
<1>3. ASSUME NEW e, NEW d, Releases(s, e, d) PROVE PresentAt(s)
  BY <1>1, <1>2, <1>3 DEF Releases, PresentAt, Wrote
<1>4. CASE Resets(s)
  BY <1>1, <1>2, <1>4 DEF Resets, PresentAt, Wrote
<1>5. CASE Discards(s)
  BY <1>1, <1>2, <1>5 DEF Discards, PresentAt, Wrote
<1>6. CASE Wrote(s, seat[s].state, seat[s].vm, seat[s].pending, seat[s].export)
  BY <1>1, <1>2, <1>6 DEF PresentAt, Wrote
<1> QED BY <1>1, <1>3, <1>4, <1>5, <1>6 DEF JobOn
LEMMA SeatsAreFinite == \A S \in SUBSET Seats : IsFiniteSet(S) /\ Cardinality(S) \in Nat
<1>1. IsFiniteSet(Seats)
  BY FS_Interval, StoreAssumption DEF Seats
<1> QED BY <1>1, FS_Subset, FS_CardinalityType

LEMMA NoneIsPrewarmed == NoPrewarm => \A s \in Seats : ~Prewarm(s)
<1>1. InState(Occupying \cup {"error"}) \in SUBSET Seats
  BY DEF InState
<1>2. Cardinality(InState(Occupying \cup {"error"})) \in Nat
  BY <1>1, SeatsAreFinite
<1>3. NoPrewarm => ~(Cardinality(InState(Occupying \cup {"error"})) < MinSeats)
  BY <1>2 DEF NoPrewarm
<1> QED BY <1>3 DEF Prewarm, Prewarmable

\* What a phase starts from was inserted.
LEMMA SnapshotInserted ==
    ASSUME TypeOK, ReservationInv
    PROVE  \A p, s : s \in Snapshot(p) => seat[s].state # "absent"
<1>1. \A S \in SUBSET SeatStates : \A s \in InState(S) : seat[s].state # "absent"
  BY DEF InState, SeatStates
<1>2. \A s \in Seats : ActiveLease(s) # {} => seat[s].state # "absent"
  BY DEF ReservationInv, LeasedSeatLives
<1>3. \A s \in Victims : seat[s].state # "absent"
  BY DEF Victims, Lowest, IdleSeats
<1>4. \A s \in Seats : Interrupted(s) => seat[s].state # "absent"
  BY DEF Interrupted
<1>5. /\ InState(SeatStates) \in {InState(S) : S \in SUBSET SeatStates}
      /\ {"error", "held", "queued"} \subseteq SeatStates
  BY DEF SeatStates
<1> QED BY <1>1, <1>2, <1>3, <1>4, <1>5 DEF Snapshot

LEMMA ServedKept ==
    ASSUME TypeOK, TypeOK', ReservationInv, Named, Served, NoPrewarm, [Next]_vars
    PROVE  Served'
<1>a. TodoInserted /\ WaitingHasNoSeat /\ InsertedForRequest
  BY DEF Served
<1>b. PoolStep
  <2>1. CASE Next
    BY <2>1, OpPool, OtherPool DEF Next, WorkerNext
  <2>2. CASE UNCHANGED vars
    BY <2>2, Untouched DEF vars, tables
  <2> QED BY <2>1, <2>2
<1>c. /\ WaitingHasNoSeat'
      /\ \A s \in Seats : RequestsForSeat(s) # {} => RequestsForSeat(s)' # {}
  BY <1>a, <1>b, SeatsKept DEF RequestsForSeat
<1>1. ASSUME NEW s \in Seats, PresentAt(s) PROVE TodoInserted' /\ InsertedForRequest'
  <2>1. \A t \in Seats : seat'[t].state = "absent" <=> seat[t].state = "absent"
    BY <1>1 DEF PresentAt
  <2>2. \A t \in todo' : t \in todo /\ t \in Seats
    BY <1>1 DEF PresentAt, TypeOK
  <2> QED BY <1>a, <1>c, <2>1, <2>2 DEF TodoInserted, InsertedForRequest
<1>2. ASSUME NEW s \in Seats, NEW r \in Requests, AdmitWaiting(r, s) PROVE TodoInserted' /\ InsertedForRequest'
  <2>1. /\ \A t \in Seats \ {s} : seat'[t] = seat[t]
        /\ seat'[s].state = "queued" /\ todo' = todo
    BY <1>2, AdmitEffect DEF Inserts, Wrote, worker
  <2>2. request'[r].seat = s
    BY <1>2 DEF AdmitWaiting, ClaimFor, TypeOK, StoreTypeOK, QueueRow
  <2>3. RequestsForSeat(s)' # {}
    BY <2>2 DEF RequestsForSeat
  <2>4. \A t \in todo : t \in Seats
    BY DEF TypeOK
  <2> QED BY <1>a, <1>c, <2>1, <2>3, <2>4 DEF TodoInserted, InsertedForRequest
<1>3. ASSUME UNCHANGED seat, \A s \in todo' : s \in todo \/ seat[s].state # "absent"
      PROVE  TodoInserted' /\ InsertedForRequest'
  BY <1>3, <1>a, <1>c DEF TodoInserted, InsertedForRequest
<1>4. CASE OpNext
  BY <1>4, <1>1, <1>c, OpIsOn, OpPresent DEF Served
<1>5. CASE \E s \in Seats : TurnOn(s) \/ JobTurn(s)
  BY <1>5, <1>1, <1>2, <1>a, <1>c, TurnPresent, JobPresent, NoneIsPrewarmed DEF Served
<1>6. ASSUME NEW s \in Seats, Works(s) PROVE TodoInserted' /\ InsertedForRequest'
  <2>1. PresentAt(s)
    BY <1>6 DEF Works, Wrote, PresentAt, worker
  <2> QED BY <1>1, <2>1
<1>7. CASE Turning
  <2>1. \A s \in todo' : seat[s].state # "absent"
    <3>1. CASE BeginReconcile
      <4>1. todo' = Orphans(vm)
        BY <3>1 DEF BeginReconcile
      <4>2. \A s \in Orphans(vm) : seat[s].state # "absent"
        BY DEF Orphans, Named, AbsentIsNothing
      <4> QED BY <4>1, <4>2
    <3>2. CASE StartUnreconciled \/ Advance
      <4>1. \E p : todo' = Snapshot(p)
        BY <3>2 DEF StartUnreconciled, Advance, Enter
      <4> QED BY <4>1, SnapshotInserted
    <3> QED BY <1>7, <3>1, <3>2 DEF Turning
  <2>2. UNCHANGED seat
    BY <1>7 DEF Turning
  <2> QED BY <1>3, <1>c, <2>1, <2>2 DEF Served
<1>8. CASE Died \/ UNCHANGED <<seat, vm, work, worker>> \/ \E s \in Seats : Fails(s)
  <2>1. UNCHANGED seat /\ \A s \in todo' : s \in todo
    BY <1>8 DEF Died, Fails, worker
  <2> QED BY <1>3, <1>c, <2>1 DEF Served
<1> QED BY <1>c, <1>4, <1>5, <1>6, <1>7, <1>8, StepCases DEF Served

LEMMA ServedInit == Init => Served
<1> SUFFICES ASSUME Init PROVE Served
  OBVIOUS
<1>1. \A s \in Seats : seat[s].state = "absent"
  BY DEF Init, StoreInit, AbsentSeat
<1>2. \A r \in Requests : request[r].status = "absent"
  BY DEF Init, StoreInit, AbsentRequest
<1> QED BY <1>1, <1>2 DEF Init, Served, TodoInserted, WaitingHasNoSeat, InsertedForRequest

LEMMA ServedAlways == ASSUME NoPrewarm PROVE Spec => []Served
<1>1. TypeOK /\ TypeOK' /\ ReservationInv /\ Named /\ Served /\ [Next]_vars => Served'
  BY ServedKept
<1> QED BY <1>1, TypeInvariant, ReservationInvariant, NamedAlways, ServedInit, PTL DEF Spec
-----------------------------------------------------------------------------
(* The bound of admission.                                                 *)

\* No operator forces a discard, which puts a row that is off back into use.
NoForcedDiscard == "discard" \notin JobKinds

\* A row that holds its place in the pool, or did until it failed.
Live == Occupying \cup {"error"}

Counted == InState(Live)

\* The methods of pump() between _reap_errors and _provision_queued.
ErrorFree == {"reap_held", "reclaim_expired", "evict_idle", "assign_idle", "admit_waiting", "ensure_min"}

\* When a seat is admitted, every row that failed has been reaped.
ErrorsReaped ==
    /\ phase = "reap_errors" =>
           \A s \in Seats : seat[s].state = "error" => s \in todo \/ (op.seat = s /\ Stage = "reaped")
    /\ phase \in ErrorFree => \A s \in Seats : seat[s].state # "error"

\* No operation the worker runs until then makes a row fail.
NothingFails ==
    /\ phase = "reap_errors" => Stage \in {"idle", "reaped"}
    /\ phase \in ErrorFree => Stage \in {"idle", "close", "hold", "claim"}
    /\ op.step = "claim" => phase = "assign_idle"

\* A row that fails keeps its place until it is reaped: a retried reset or an
\* interrupted release puts it back in use without asking admission.
Bounded == Cardinality(Counted) <= MaxSeats /\ ErrorsReaped /\ NothingFails

\* A step that works on s and takes no new place.
BoundedAt(s) ==
    /\ \A t \in Seats \ {s} : seat'[t] = seat[t]
    /\ seat'[s].state \in Live => seat[s].state \in Live
    /\ op = Idle \/ op.seat = s
    /\ op'.step # "idle" => op'.seat = s
    /\ phase' = "reap_errors" =>
           /\ phase' = phase /\ todo \ {s} \subseteq todo'
           /\ seat'[s].state = "error" => op'.seat = s /\ Stage' = "reaped"
           /\ Stage' \in {"idle", "reaped"}
    /\ phase' \in ErrorFree =>
           /\ phase \in ErrorFree /\ seat'[s].state # "error"
           /\ Stage' \in {"idle", "close", "hold", "claim"}
    /\ op'.step = "claim" => phase' = "assign_idle"

\* Fewer rows hold a place.
LEMMA CountedLess ==
    ASSUME \A s \in Seats : seat'[s].state \in Live => seat[s].state \in Live,
           Cardinality(Counted) <= MaxSeats
    PROVE  Cardinality(Counted)' <= MaxSeats
<1>1. Counted' \subseteq Counted /\ Counted \in SUBSET Seats
  BY DEF Counted, InState
<1>2. IsFiniteSet(Counted) /\ Cardinality(Counted) \in Nat
  BY <1>1, SeatsAreFinite
<1>3. Cardinality(Counted') <= Cardinality(Counted) /\ Cardinality(Counted') \in Nat
  BY <1>1, <1>2, FS_Subset, FS_CardinalityType
<1> QED BY <1>2, <1>3, SchedulerAssumption

LEMMA BoundedLocal == ASSUME TypeOK, Bounded, NEW s \in Seats, BoundedAt(s) PROVE Bounded'
<1>a. Cardinality(Counted) <= MaxSeats /\ ErrorsReaped /\ NothingFails
  BY DEF Bounded
<1>1. Cardinality(Counted)' <= MaxSeats
  <2>1. \A t \in Seats : seat'[t].state \in Live => seat[t].state \in Live
    BY DEF BoundedAt
  <2> QED BY <1>a, <2>1, CountedLess
<1>2. ErrorsReaped'
  <2>1. ASSUME phase' = "reap_errors", NEW t \in Seats, seat'[t].state = "error"
        PROVE  t \in todo' \/ (op'.seat = t /\ Stage' = "reaped")
    <3>1. CASE t = s
      BY <2>1, <3>1 DEF BoundedAt
    <3>2. CASE t # s
      <4>1. seat[t].state = "error" /\ phase = "reap_errors" /\ todo \ {s} \subseteq todo'
        BY <2>1, <3>2 DEF BoundedAt
      <4>2. op.seat # t
        BY <3>2, IdleFields, NoSeatIsNone DEF BoundedAt
      <4> QED BY <1>a, <3>2, <4>1, <4>2 DEF ErrorsReaped
    <3> QED BY <3>1, <3>2
  <2>2. ASSUME phase' \in ErrorFree, NEW t \in Seats PROVE seat'[t].state # "error"
    <3>1. CASE t = s
      BY <2>2, <3>1 DEF BoundedAt
    <3>2. CASE t # s
      BY <1>a, <2>2, <3>2 DEF BoundedAt, ErrorsReaped
    <3> QED BY <3>1, <3>2
  <2> QED BY <2>1, <2>2 DEF ErrorsReaped
<1>3. NothingFails'
  BY DEF NothingFails, BoundedAt
<1> QED BY <1>1, <1>2, <1>3 DEF Bounded

\* An operation under way takes no new place, and fails only outside ErrorFree.
LEMMA BoundedWithin ==
    ASSUME TypeOK, ReservationInv, Named, Served, Bounded, OpNext
    PROVE  BoundedAt(op.seat)
<1>a. OperationOwnsRow
  BY DEF ReservationInv
<1>b. DiscardsFailed /\ AbsentIsNothing
  BY DEF Named
<1>c. op.step # "idle" /\ op.seat \in Seats /\ op.seat \notin todo
  BY OpIsOn
<1>d. ErrorsReaped /\ NothingFails
  BY DEF Bounded
<1>e. seat[op.seat].state \in SeatStates \cup {"absent"}
  BY <1>c DEF TypeOK, StoreTypeOK, SeatRow
<1> USE <1>a, <1>b, <1>c, <1>d, <1>e DEF BoundedAt, OperationOwnsRow, Stage, ErrorsReaped, NothingFails,
        DiscardsFailed, AbsentIsNothing, Live, Occupying, SeatStates, ErrorFree, Wrote, Under, Over, Stands
<1>1. CASE StopVm
  BY <1>1, StopEffect
<1>2. CASE DestroyVm
  BY <1>2, DestroyEffect
<1>3. CASE Export
  BY <1>3, ExportEffect
<1>4. CASE Rebuild
  BY <1>4, RebuildEffect
<1>5. CASE Reboot
  BY <1>5, RebootEffect
<1>6. CASE Create
  BY <1>6, CreateEffect
<1>7. CASE Boot
  BY <1>7, BootEffect
<1>8. CASE Hold
  BY <1>8, HoldEffect
<1>9. CASE Close
  BY <1>9, CloseEffect
<1>10. CASE ResetOk
  BY <1>10, ResetOkEffect
<1>11. CASE ResetFailed
  BY <1>11, ResetFailedEffect
<1>12. CASE Provisioned
  BY <1>12, ProvisionedEffect
<1>13. CASE ProvisionFailed
  BY <1>13, ProvisionFailedEffect
<1>14. CASE DefinedDestroyed
  BY <1>14, DefinedEffect
<1>15. CASE Reaped
  <2>1. RequestsForSeat(op.seat) # {}
    BY <1>15, ReapedEffect DEF Served, InsertedForRequest
  <2> QED BY <1>15, <2>1, ReapedEffect
<1>16. CASE AssignIdle
  <2>1. op.step = "claim" /\ UNCHANGED seat /\ Over
    BY <1>16, AssignEffect
  <2>2. phase = "assign_idle" /\ phase' \in {"assign_idle", "admit_waiting"}
    BY <1>16, AssignEffect DEF Enter
  <2> QED BY <2>1, <2>2
<1>17. CASE Discard
  BY <1>17, DiscardStepEffect DEF Discards
<1> QED BY <1>1, <1>2, <1>3, <1>4, <1>5, <1>6, <1>7, <1>8, <1>9,
           <1>10, <1>11, <1>12, <1>13, <1>14, <1>15, <1>16, <1>17 DEF OpNext

\* A release, a reset or an export that begins takes no new place.
LEMMA BoundedReleases ==
    ASSUME TypeOK, Bounded, NEW s \in Seats, NEW export, NEW decision, Releases(s, export, decision),
           op = Idle, phase' = phase, phase # "reap_errors", seat[s].state # "absent"
    PROVE  BoundedAt(s)
<1>d. ErrorsReaped
  BY DEF Bounded
<1>e. seat[s].state \in SeatStates \cup {"absent"}
  BY DEF TypeOK, StoreTypeOK, SeatRow
<1> QED BY <1>d, <1>e DEF Releases, BoundedAt, ErrorsReaped, Stage, Live, Occupying, SeatStates, ErrorFree,
           Wrote, Under, Over

\* A turn takes no new place, but that of a new row.
LEMMA BoundedTurn ==
    ASSUME TypeOK, ReservationInv, Named, Served, Bounded, NEW s \in Seats, TurnOn(s)
    PROVE  \/ BoundedAt(s)
           \/ Prewarm(s)
           \/ \E r \in Requests : AdmitWaiting(r, s)
<1>a. SnapshotStands
  BY DEF ReservationInv
<1>c. Idle.step = "idle"
  BY IdleFields
<1>d. ErrorsReaped /\ NothingFails
  BY DEF Bounded
<1>e. seat[s].state \in SeatStates \cup {"absent"}
  BY DEF TypeOK, StoreTypeOK, SeatRow
<1>f. s \in todo => seat[s].state # "absent"
  BY DEF Served, TodoInserted
<1> USE <1>a, <1>c, <1>d, <1>e, <1>f DEF BoundedAt, SnapshotStands, Stage, ErrorsReaped, NothingFails,
        Live, Occupying, SeatStates, ErrorFree, Visits, Wrote, Under, Over
<1>1. CASE DestroyOrphan(s)
  BY <1>1, OrphanEffect
<1>2. CASE AdoptRunning(s)
  BY <1>2, AdoptEffect DEF Adopts
<1>3. CASE DestroyDefined(s)
  BY <1>3, DefinedTurnEffect
<1>4. CASE ErrorDead(s)
  BY <1>4, DeadEffect DEF IsDead
<1>5. CASE CloseGone(s)
  BY <1>5, GoneEffect
<1>6. ASSUME NEW p \in {"resume_interrupted", "reconcile_resume"}, ResumeRelease(p, s) PROVE BoundedAt(s)
  <2>1. Resumes(p, s) /\ Visits(p, s)
    BY <1>6, ResumeReleaseEffect DEF Resumes
  <2>2. CASE Releases(s, seat[s].export, wish[s])
    <3>1. op = Idle /\ phase' = phase /\ phase # "reap_errors" /\ seat[s].state # "absent"
      BY <2>1
    <3> QED BY <2>2, <3>1, BoundedReleases
  <2>3. CASE Wrote(s, "off", FALSE, "none", FALSE) /\ (Over \/ Under("stop", s, "idle"))
    BY <2>1, <2>3
  <2> QED BY <2>1, <2>2, <2>3 DEF Resumes
<1>7. ASSUME NEW p \in {"resume_interrupted", "reconcile_resume"}, ResumeReset(p, s) PROVE BoundedAt(s)
  <2>1. /\ phase = p /\ phase' = phase /\ op = Idle /\ seat[s].state = "resetting" /\ Resets(s)
    BY <1>7, ResumeResetEffect DEF Visits
  <2>2. \A t \in Seats \ {s} : seat'[t] = seat[t]
    BY <2>1 DEF Resets, Wrote
  <2>3. op'.step = "rebuild" /\ op'.seat = s
    BY <2>1 DEF Resets, Under
  <2> QED BY <2>1, <2>2, <2>3 DEF BoundedAt, Live, Occupying, SeatStates, ErrorFree
<1>8. CASE ReapError(s)
  BY <1>8, ReapErrorEffect
<1>9. CASE ReapHeld(s) \/ Evict(s)
  <2>1. PICK p \in {"reap_held", "evict_idle"} : Visits(p, s) /\ Releases(s, FALSE, "discard")
    BY <1>9, ReapHeldEffect, EvictEffect
  <2>2. op = Idle /\ phase' = phase /\ phase # "reap_errors" /\ seat[s].state # "absent"
    BY <2>1
  <2> QED BY <2>1, <2>2, BoundedReleases
<1>10. CASE Reclaim(s)
  BY <1>10, ReclaimEffect
<1>12. CASE Provision(s)
  BY <1>12, ProvisionEffect
<1>14. CASE Skip(s)
  BY <1>14, SkipEffect
<1>16. ASSUME NEW r \in Requests, PickIdle(r, s) PROVE BoundedAt(s)
  BY <1>16, PickEffect DEF Stands
<1> QED BY <1>1, <1>2, <1>3, <1>4, <1>5, <1>6, <1>7, <1>8, <1>9, <1>10, <1>12, <1>14, <1>16 DEF TurnOn

LEMMA BoundedJob ==
    ASSUME TypeOK, Named, Bounded, NoForcedDiscard, NEW s \in Seats, JobTurn(s)
    PROVE  BoundedAt(s)
<1>1. phase = "drain_jobs" /\ op = Idle /\ Stands /\ JobOn(s)
  BY DEF JobTurn
<1>2. AbsentIsNothing /\ seat[s].state # "absent"
  BY DEF JobTurn, Named, AbsentIsNothing
<1>3. seat[s].state \in SeatStates \cup {"absent"}
  BY DEF TypeOK, StoreTypeOK, SeatRow
<1> USE <1>1, <1>2, <1>3 DEF Stands
<1>4. ASSUME NEW e, NEW d, Releases(s, e, d) PROVE BoundedAt(s)
  BY <1>4, BoundedReleases
<1>5. CASE Resets(s)
  BY <1>5 DEF Resets, BoundedAt, AbsentIsNothing, Live, Occupying, SeatStates, ErrorFree, Wrote, Under
<1>6. CASE /\ Under("export", s, "idle")
           /\ Wrote(s, seat[s].state, seat[s].vm, seat[s].pending, seat[s].export)
  BY <1>6 DEF BoundedAt, ErrorFree, Wrote, Under
<1> QED BY <1>4, <1>5, <1>6 DEF JobOn, NoForcedDiscard

\* The new row of a request finds a place that is free.
LEMMA BoundedAdmit ==
    ASSUME TypeOK, Bounded, NEW s \in Seats, NEW r \in Requests, AdmitWaiting(r, s)
    PROVE  Bounded'
<1>1. phase = "admit_waiting" /\ Admitted /\ Inserts(s)
  BY AdmitEffect
<1>2. /\ \A t \in Seats \ {s} : seat'[t] = seat[t]
      /\ seat'[s].state = "queued" /\ op = Idle /\ op' = op /\ phase' = phase
  BY <1>1 DEF Inserts, Wrote, worker
<1>3. \A t \in Seats : seat[t].state # "error"
  BY <1>1 DEF Bounded, ErrorsReaped, ErrorFree
<1>4. Counted = InState(Occupying) /\ Counted \in SUBSET Seats
  BY <1>3 DEF Counted, InState, Live
<1>5. Cardinality(Counted) < MaxSeats
  BY <1>1, <1>4 DEF Admitted, CountOccupying
<1>6. IsFiniteSet(Counted) /\ Cardinality(Counted) \in Nat
  BY <1>4, SeatsAreFinite
<1>7. Counted' \subseteq Counted \cup {s}
  BY <1>2 DEF Counted, InState
<1>8. /\ IsFiniteSet(Counted \cup {s}) /\ Cardinality(Counted \cup {s}) \in Nat
      /\ Cardinality(Counted \cup {s}) <= Cardinality(Counted) + 1
  <2>1. /\ IsFiniteSet(Counted \cup {s})
        /\ Cardinality(Counted \cup {s}) \in {Cardinality(Counted), Cardinality(Counted) + 1}
    BY <1>6, FS_AddElement
  <2> QED BY <1>6, <2>1
<1>9. Cardinality(Counted') <= Cardinality(Counted \cup {s}) /\ Cardinality(Counted') \in Nat
  BY <1>7, <1>8, FS_Subset, FS_CardinalityType
<1>10. Cardinality(Counted') <= MaxSeats
  BY <1>5, <1>6, <1>8, <1>9, SchedulerAssumption
<1>11. ErrorsReaped' /\ NothingFails'
  BY <1>1, <1>2, <1>3, IdleFields DEF ErrorsReaped, NothingFails, Stage, ErrorFree
<1> QED BY <1>10, <1>11 DEF Bounded

\* The steps that are nobody's turn.
LEMMA BoundedElsewhere ==
    ASSUME TypeOK, ReservationInv, Bounded,
           \/ \E s \in Seats : Works(s) \/ Fails(s)
           \/ Turning \/ Died \/ UNCHANGED <<seat, vm, work, worker>>
    PROVE  Bounded'
<1>a. Cardinality(Counted) <= MaxSeats /\ ErrorsReaped /\ NothingFails
  BY DEF Bounded
<1>1. ASSUME NEW s \in Seats, Works(s) PROVE Bounded'
  <2>1. /\ \A t \in Seats \ {s} : seat'[t] = seat[t]
        /\ seat'[s].state \in {"ready", "busy"} /\ seat[s].state \in {"ready", "busy"}
        /\ UNCHANGED <<phase, todo, op>>
    BY <1>1 DEF Works, Wrote, worker
  <2>2. Cardinality(Counted)' <= MaxSeats
    BY <1>a, <2>1, CountedLess DEF Live, Occupying, SeatStates
  <2>3. \A t \in Seats : seat'[t].state = "error" => seat[t].state = "error"
    BY <2>1
  <2>4. ErrorsReaped' /\ NothingFails'
    BY <1>a, <2>1, <2>3 DEF ErrorsReaped, NothingFails, Stage
  <2> QED BY <2>2, <2>4 DEF Bounded
<1>2. CASE (\E s \in Seats : Fails(s)) \/ UNCHANGED <<seat, vm, work, worker>>
  <2>1. UNCHANGED <<seat, phase, todo, op>>
    BY <1>2 DEF Fails, worker
  <2> QED BY <1>a, <2>1 DEF Bounded, Counted, InState, ErrorsReaped, NothingFails, Stage
<1>3. CASE Died
  <2>1. UNCHANGED seat /\ phase' = "down" /\ op'.step = "idle"
    BY <1>3 DEF Died, Over, Under
  <2> QED BY <1>a, <2>1 DEF Bounded, Counted, InState, ErrorsReaped, NothingFails, ErrorFree
<1>4. CASE Turning
  <2>1. UNCHANGED <<seat, op>> /\ op.step = "idle" /\ op.seat \notin Seats
    BY <1>4, IdleFields, NoSeatIsNone DEF Turning
  <2>2. Cardinality(Counted)' <= MaxSeats /\ NothingFails'
    BY <1>a, <2>1 DEF Counted, InState, NothingFails, Stage
  <2>3. ErrorsReaped'
    <3>1. CASE BeginReconcile
      BY <3>1 DEF BeginReconcile, ErrorsReaped, ErrorFree
    <3>2. CASE StartUnreconciled
      BY <3>2 DEF StartUnreconciled, Enter, ErrorsReaped, ErrorFree
    <3>3. CASE Advance
      <4>1. /\ phase \in Phases \ {"down"} /\ phase' = Follow[phase] /\ todo' = Snapshot(phase')
            /\ LoopOver(phase)
        BY <3>3 DEF Advance, Enter, TypeOK
      <4>2. CASE phase = "resume_interrupted"
        <5>1. phase' = "reap_errors"
          BY <4>1, <4>2 DEF Follow
        <5>2. todo' = InState({"error"})
          BY <4>1, <5>1 DEF Snapshot
        <5> QED BY <2>1, <5>1, <5>2 DEF ErrorsReaped, InState, ErrorFree
      <4>3. CASE phase = "reap_errors"
        <5>1. phase' = "reap_held" /\ todo = {}
          BY <4>1, <4>3 DEF Follow, LoopOver
        <5> QED BY <1>a, <2>1, <4>3, <5>1 DEF ErrorsReaped
      <4>4. CASE phase \in ErrorFree
        <5>1. phase' # "reap_errors"
          BY <4>1, <4>4 DEF Follow, ErrorFree
        <5> QED BY <1>a, <2>1, <4>4, <5>1 DEF ErrorsReaped
      <4>5. CASE phase \in Phases \ ({"down", "resume_interrupted", "reap_errors"} \cup ErrorFree)
        <5>1. phase' \notin {"reap_errors"} \cup ErrorFree
          BY <4>1, <4>5 DEF Follow, ErrorFree, Phases
        <5> QED BY <5>1 DEF ErrorsReaped
      <4> QED BY <4>1, <4>2, <4>3, <4>4, <4>5
    <3> QED BY <1>4, <3>1, <3>2, <3>3 DEF Turning
  <2> QED BY <2>2, <2>3 DEF Bounded
<1> QED BY <1>1, <1>2, <1>3, <1>4

LEMMA BoundedKept ==
    ASSUME TypeOK, ReservationInv, Named, Served, Bounded, NoPrewarm, NoForcedDiscard, [Next]_vars
    PROVE  Bounded'
<1>1. CASE OpNext
  BY <1>1, OpIsOn, BoundedWithin, BoundedLocal
<1>2. CASE \E s \in Seats : TurnOn(s) \/ JobTurn(s)
  BY <1>2, BoundedTurn, BoundedJob, BoundedLocal, BoundedAdmit, NoneIsPrewarmed
<1> QED BY <1>1, <1>2, StepCases, BoundedElsewhere

LEMMA BoundedInit == Init => Bounded
<1> SUFFICES ASSUME Init PROVE Bounded
  OBVIOUS
<1>1. \A s \in Seats : seat[s].state = "absent"
  BY DEF Init, StoreInit, AbsentSeat
<1>2. Counted = {}
  BY <1>1 DEF Counted, InState, Live, Occupying, SeatStates
<1>3. Cardinality(Counted) <= MaxSeats
  BY <1>2, FS_EmptySet, SchedulerAssumption
<1>4. op.step = "idle" /\ phase = "down"
  BY IdleFields DEF Init
<1> QED BY <1>3, <1>4 DEF Bounded, ErrorsReaped, NothingFails, ErrorFree

\* Without a prewarm floor and forced discards, the seats in use never exceed
\* max_seats, though admission is asked only when a row is inserted: seats that
\* fail, are retried, reset, held or resumed after a crash all keep their place.
THEOREM WithinBound ==
    ASSUME NoPrewarm, NoForcedDiscard
    PROVE  Spec => []WithinCapacity
<1>1. TypeOK /\ ReservationInv /\ Named /\ Served /\ Bounded /\ [Next]_vars => Bounded'
  BY BoundedKept
<1>2. Bounded => WithinCapacity
  <2> SUFFICES ASSUME Bounded PROVE WithinCapacity
    OBVIOUS
  <2>1. InState(Occupying) \subseteq Counted /\ Counted \in SUBSET Seats
    BY DEF Counted, InState, Live
  <2>2. IsFiniteSet(Counted) /\ Cardinality(Counted) \in Nat
    BY <2>1, SeatsAreFinite
  <2>3. Cardinality(InState(Occupying)) <= Cardinality(Counted) /\ Cardinality(InState(Occupying)) \in Nat
    BY <2>1, <2>2, FS_Subset, FS_CardinalityType
  <2> QED BY <2>2, <2>3, SchedulerAssumption DEF Bounded, WithinCapacity, CountOccupying
<1> QED BY <1>1, <1>2, TypeInvariant, ReservationInvariant, NamedAlways, ServedAlways, BoundedInit, PTL DEF Spec
-----------------------------------------------------------------------------
(* Nothing is stuck silently.                                              *)

\* libvirt lists its domains when the daemon starts.
ListsVms == "list" \notin Faults

Reconciling == {"reconcile_orphans", "reconcile_rows", "reconcile_resume"}

\* The operation under way will write the row of s.
Cared(s) == op.seat = s /\ Stage \notin {"idle", "claim"}

Settled(s) ==
    seat[s].state \in {"provisioning", "resetting", "releasing"} => Cared(s) \/ NeedsAttention(s)

\* A pass of reconcile is still to come to s.
Waits(s) == \/ phase \in {"down", "reconcile_orphans"}
            \/ phase \in {"reconcile_rows", "reconcile_resume"} /\ s \in todo

Placed(s) == Settled(s) \/ Waits(s) \/ (phase = "reconcile_rows" /\ Interrupted(s))

\* The phases some operations belong to.
OpsInPhase ==
    /\ op.step = "create" => phase = "provision_queued"
    /\ op.step = "claim" => phase = "assign_idle"

\* During a pass, a VM that was not listed is not there.
UnseenIsNone == phase \in Reconciling => \A s \in Seats : seen[s] = "none" => vm[s] = "none"

\* The mark of a reset outlives it only on a row that lost its VM.
LostAt(s) == seat[s].pending = "reset" /\ seat[s].state # "resetting" =>
    /\ seat[s].state \in Condemned /\ vm[s] = "none"
    /\ phase \in Reconciling => seen[s] = "none"

ResetsEnd == \A s \in Seats : LostAt(s)

\* A seat that is going to be held keeps its recorded release.
HoldKeepsRelease ==
    (op.step = "hold" \/ (op.step = "export" /\ op.next = "stop")) => seat[op.seat].pending = "release"

Surfaced == (\A s \in Seats : Placed(s)) /\ OpsInPhase /\ UnseenIsNone /\ ResetsEnd /\ HoldKeepsRelease

\* A step that works on s keeps Surfaced if it does so at s.
SurfacedAt(s) ==
    /\ \A t \in Seats \ {s} : seat'[t] = seat[t] /\ vm'[t] = vm[t]
    /\ seen' = seen
    /\ op = Idle \/ op.seat = s
    /\ op'.step # "idle" => op'.seat = s
    /\ phase' # phase => {phase, phase'} \cap (Reconciling \cup {"down"}) = {}
    /\ phase \in {"reconcile_rows", "reconcile_resume"} => todo \ {s} \subseteq todo'
    /\ vm'[s] # "none" => vm[s] # "none" \/ phase \notin Reconciling
    /\ op'.step = "create" => phase' = "provision_queued"
    /\ op'.step = "claim" => phase' = "assign_idle"
    /\ (op'.step = "hold" \/ (op'.step = "export" /\ op'.next = "stop")) => seat'[s].pending = "release"
    /\ Placed(s)'
    /\ LostAt(s)'

LEMMA SurfacedLocal == ASSUME TypeOK, Surfaced, NEW s \in Seats, SurfacedAt(s) PROVE Surfaced'
<1>a. OpsInPhase /\ UnseenIsNone /\ ResetsEnd /\ HoldKeepsRelease /\ \A t \in Seats : Placed(t)
  BY DEF Surfaced
<1>1. ASSUME NEW t \in Seats PROVE Placed(t)'
  <2>1. CASE t = s
    BY <2>1 DEF SurfacedAt
  <2>2. CASE t # s
    <3>1. seat'[t] = seat[t] /\ op.seat # t
      BY <2>2, IdleFields, NoSeatIsNone DEF SurfacedAt
    <3>2. Settled(t) => Settled(t)'
      BY <3>1 DEF Settled, Cared, NeedsAttention
    <3>3. CASE Settled(t)
      BY <3>2, <3>3 DEF Placed
    <3>4. CASE Waits(t)
      BY <2>2, <3>4 DEF Waits, SurfacedAt, Reconciling, Placed
    <3>5. CASE phase = "reconcile_rows" /\ Interrupted(t)
      BY <3>1, <3>5 DEF Interrupted, SurfacedAt, Reconciling, Placed
    <3> QED BY <1>a, <3>3, <3>4, <3>5 DEF Placed
  <2> QED BY <2>1, <2>2
<1>2. OpsInPhase' /\ HoldKeepsRelease'
  BY DEF OpsInPhase, HoldKeepsRelease, SurfacedAt
<1>3. UnseenIsNone'
  <2> SUFFICES ASSUME phase' \in Reconciling, NEW t \in Seats, seen'[t] = "none" PROVE vm'[t] = "none"
    BY DEF UnseenIsNone
  <2>1. phase \in Reconciling /\ seen[t] = "none"
    BY DEF SurfacedAt
  <2>2. vm[t] = "none"
    BY <1>a, <2>1 DEF UnseenIsNone
  <2> QED BY <2>1, <2>2 DEF SurfacedAt
<1>4. ASSUME NEW t \in Seats PROVE LostAt(t)'
  <2>1. CASE t = s
    BY <2>1 DEF SurfacedAt
  <2>2. CASE t # s
    <3>1. seat'[t] = seat[t] /\ vm'[t] = vm[t] /\ seen' = seen
      BY <2>2 DEF SurfacedAt
    <3>2. phase' \in Reconciling => phase \in Reconciling
      BY DEF SurfacedAt
    <3> QED BY <1>a, <3>1, <3>2 DEF ResetsEnd, LostAt
  <2> QED BY <2>1, <2>2
<1> QED BY <1>1, <1>2, <1>3, <1>4 DEF Surfaced, ResetsEnd

\* A row in no transient state is placed.
LEMMA PlacedAtRest ==
    \A s \in Seats : seat'[s].state \notin {"provisioning", "resetting", "releasing"} => Placed(s)'
BY DEF Placed, Settled

\* An operation that will write its row cares for it.
LEMMA PlacedUnder ==
    \A s \in Seats, step \in Steps, next \in Steps :
        /\ Under(step, s, next)
        /\ \/ step \notin {"idle", "claim", "stop", "destroy", "export"}
           \/ step \in {"stop", "destroy"} /\ next \notin {"idle", "claim"}
           \/ step = "export" /\ next = "stop"
        => Placed(s)'
BY DEF Under, Placed, Settled, Cared, Stage

\* A row nobody writes stays placed until its turn comes.
LEMMA PlacedStill ==
    ASSUME NEW s \in Seats, seat'[s] = seat[s], Placed(s), ~Cared(s),
           \/ phase' = phase /\ (s \in todo => s \in todo')
           \/ {phase, phase'} \cap (Reconciling \cup {"down"}) = {}
    PROVE  Placed(s)'
<1>1. Settled(s) => Settled(s)'
  BY DEF Settled, NeedsAttention
<1>2. Waits(s) => Waits(s)'
  BY DEF Waits, Reconciling
<1>3. phase = "reconcile_rows" /\ Interrupted(s) => phase' = "reconcile_rows" /\ Interrupted(s)'
  BY DEF Interrupted, Reconciling
<1> QED BY <1>1, <1>2, <1>3 DEF Placed

\* An operation under way ends by settling its row.
LEMMA SurfacedWithin ==
    ASSUME TypeOK, ReservationInv, Named, Served, Surfaced, OpNext, NEW s \in Seats, op.seat = s
    PROVE  SurfacedAt(s)
<1>a. OperationOwnsRow
  BY DEF ReservationInv
<1>b. DiscardsFailed /\ UsableSeatHasVm
  BY DEF Named
<1>c. op.step # "idle" /\ s \notin todo /\ op.step \in Steps /\ op.next \in Steps
  BY OpIsOn DEF TypeOK, Operation
<1>d. OpsInPhase /\ LostAt(s) /\ HoldKeepsRelease /\ Placed(s)
  BY <1>c DEF Surfaced, ResetsEnd
<1> USE <1>a, <1>b, <1>c, <1>d DEF SurfacedAt, OperationOwnsRow, Stage, OpsInPhase, LostAt, HoldKeepsRelease,
        Condemned, Steps, Wrote, Under, Over, Stands, Spared, Switched
<1>1. CASE StopVm
  <2>1. Placed(s)'
    <3>1. CASE op.next \in {"idle", "claim"}
      BY <1>1, <3>1, StopEffect, PlacedStill DEF Cared
    <3>2. CASE op.next \notin {"idle", "claim"}
      BY <1>1, <3>2, StopEffect, PlacedUnder
    <3> QED BY <3>1, <3>2
  <2> QED BY <1>1, <2>1, StopEffect
<1>2. CASE DestroyVm
  <2>1. op.next \in {"idle", "close", "boot_failed", "reaped", "defined"} /\ op.step = "destroy"
    BY <1>2, DestroyEffect
  <2>2. Placed(s)'
    <3>1. CASE op.next = "idle"
      BY <1>2, <2>1, <3>1, DestroyEffect, PlacedStill DEF Cared
    <3>2. CASE op.next # "idle"
      BY <1>2, <2>1, <3>2, DestroyEffect, PlacedUnder
    <3> QED BY <3>1, <3>2
  <2> QED BY <1>2, <2>1, <2>2, DestroyEffect
<1>3. CASE Export
  <2>1. Placed(s)'
    <3>1. CASE op.next = "stop"
      BY <1>3, <3>1, ExportEffect, PlacedUnder
    <3>2. CASE op.next # "stop"
      BY <1>3, <3>2, ExportEffect, PlacedStill DEF Cared
    <3> QED BY <3>1, <3>2
  <2> QED BY <1>3, <2>1, ExportEffect
<1>4. CASE Rebuild
  BY <1>4, RebuildEffect, PlacedUnder
<1>5. CASE Reboot
  BY <1>5, RebootEffect, PlacedUnder
<1>6. CASE Create
  BY <1>6, CreateEffect, PlacedUnder DEF Reconciling
<1>7. CASE Boot
  BY <1>7, BootEffect, PlacedUnder
<1>8. CASE Hold
  BY <1>8, HoldEffect, PlacedAtRest
<1>9. CASE Close
  BY <1>9, CloseEffect, PlacedAtRest
<1>10. CASE ResetOk
  BY <1>10, ResetOkEffect, PlacedAtRest
<1>11. CASE ResetFailed
  BY <1>11, ResetFailedEffect, PlacedAtRest
<1>12. CASE Provisioned
  BY <1>12, ProvisionedEffect, PlacedAtRest
<1>13. CASE ProvisionFailed
  BY <1>13, ProvisionFailedEffect, PlacedAtRest
<1>14. CASE DefinedDestroyed
  BY <1>14, DefinedEffect, PlacedAtRest
<1>15. CASE Reaped
  <2>1. RequestsForSeat(s) # {}
    BY <1>15, ReapedEffect DEF Served, InsertedForRequest
  <2> QED BY <1>15, <2>1, ReapedEffect, PlacedAtRest
<1>16. CASE AssignIdle
  <2>1. op.step = "claim" /\ UNCHANGED <<seat, vm, seen>> /\ Over /\ phase = "assign_idle"
    BY <1>16, AssignEffect
  <2>2. phase' \in {"assign_idle", "admit_waiting"}
    BY <1>16, <2>1, AssignEffect DEF Enter
  <2>3. ~Cared(s)
    BY <2>1 DEF Cared
  <2>4. Placed(s)'
    BY <2>1, <2>2, <2>3, PlacedStill DEF Reconciling
  <2> QED BY <2>1, <2>2, <2>4 DEF Reconciling
<1>17. CASE Discard
  <2>1. op.step = "discard" /\ UNCHANGED vm /\ Stands
        /\ Wrote(s, "releasing", seat[s].vm, seat[s].pending, seat[s].export)
        /\ (Under("stop", s, "close") \/ Under("close", s, "idle"))
    BY <1>17, DiscardStepEffect DEF Discards
  <2>2. Placed(s)'
    BY <2>1, PlacedUnder
  <2>3. seat[s].state = "error"
    BY <2>1 DEF DiscardsFailed
  <2> QED BY <2>1, <2>2, <2>3
<1> QED BY <1>1, <1>2, <1>3, <1>4, <1>5, <1>6, <1>7, <1>8, <1>9,
           <1>10, <1>11, <1>12, <1>13, <1>14, <1>15, <1>16, <1>17 DEF OpNext

\* A release that begins settles the row, or leaves it off.
LEMMA SurfacedReleases ==
    ASSUME Surfaced, NEW s \in Seats, NEW export, NEW decision, Releases(s, export, decision),
           op = Idle, phase' = phase, seen' = seen, vm' = vm, todo \ {s} \subseteq todo'
    PROVE  SurfacedAt(s)
<1>a. LostAt(s)
  BY DEF Surfaced, ResetsEnd
<1>1. CASE seat[s].state = "off" /\ Over /\ UNCHANGED <<seat, work>>
  <2>1. Placed(s)'
    BY <1>1, PlacedAtRest
  <2>2. LostAt(s)'
    BY <1>a, <1>1 DEF LostAt
  <2> QED BY <1>1, <2>1, <2>2 DEF SurfacedAt, Over, Under
<1>2. CASE seat[s].state # "off"
  <2>1. /\ seat'[s].pending = "release"
        /\ \A t \in Seats \ {s} : seat'[t] = seat[t]
        /\ Under("close", s, "idle") \/ Under("export", s, "stop") \/ Under("stop", s, "close")
    BY <1>2 DEF Releases, Wrote
  <2>2. Placed(s)'
    BY <2>1, PlacedUnder DEF Steps
  <2> QED BY <2>1, <2>2 DEF SurfacedAt, LostAt, Under
<1> QED BY <1>1, <1>2 DEF Releases

LEMMA SurfacedResets ==
    ASSUME NEW s \in Seats, Resets(s),
           op = Idle, phase' = phase, seen' = seen, vm' = vm, todo \ {s} \subseteq todo'
    PROVE  SurfacedAt(s)
<1>1. /\ seat'[s].state = "resetting"
      /\ \A t \in Seats \ {s} : seat'[t] = seat[t]
      /\ Under("rebuild", s, "idle")
  BY DEF Resets, Wrote
<1>2. Placed(s)'
  BY <1>1, PlacedUnder DEF Steps
<1> QED BY <1>1, <1>2 DEF SurfacedAt, LostAt, Under

\* A turn settles its row, or finds it settled or interrupted.
LEMMA SurfacedTurn ==
    ASSUME TypeOK, ReservationInv, Surfaced, NEW s \in Seats, TurnOn(s)
    PROVE  SurfacedAt(s)
<1>a. SnapshotStands
  BY DEF ReservationInv
<1>c. Idle.step = "idle" /\ Idle.seat # s
  BY IdleFields, NoSeatIsNone
<1>d. UnseenIsNone /\ LostAt(s) /\ Placed(s)
  BY DEF Surfaced, ResetsEnd
<1>e. seat[s] \in SeatRow /\ seat[s].pending \in {"none", "release", "reset"}
  BY DEF TypeOK, StoreTypeOK, SeatRow
<1> USE <1>a, <1>c, <1>d DEF SurfacedAt, SnapshotStands, LostAt, Condemned, Reconciling,
        Visits, Wrote, Under, Over, Stands, Steps
<1>1. CASE DestroyOrphan(s)
  <2>1. Placed(s)'
    BY <1>1, OrphanEffect DEF Placed, Waits
  <2> QED BY <1>1, <2>1, OrphanEffect
<1>2. CASE AdoptRunning(s)
  BY <1>2, AdoptEffect, PlacedAtRest DEF Adopts
<1>3. CASE DestroyDefined(s)
  BY <1>3, DefinedTurnEffect, PlacedUnder
<1>4. CASE ErrorDead(s)
  <2>1. Visits("reconcile_rows", s) /\ UNCHANGED <<vm, work, op>>
        /\ Wrote(s, "error", seat[s].vm, seat[s].pending, seat[s].export)
    BY <1>4, DeadEffect
  <2>2. seat[s].pending = "reset" => seen[s] = "none" /\ vm[s] = "none"
    BY <1>4, DeadEffect DEF IsDead, UnseenIsNone
  <2>3. Placed(s)'
    BY <2>1, PlacedAtRest
  <2> QED BY <2>1, <2>2, <2>3
<1>5. CASE CloseGone(s)
  BY <1>5, GoneEffect, PlacedAtRest
<1>6. ASSUME NEW p, ResumeRelease(p, s) PROVE SurfacedAt(s)
  <2>1. Resumes(p, s)
    BY <1>6, ResumeReleaseEffect
  <2>2. Visits(p, s) /\ UNCHANGED vm
    BY <2>1 DEF Resumes
  <2>3. CASE Releases(s, seat[s].export, wish[s])
    <3>1. op = Idle /\ phase' = phase /\ seen' = seen /\ vm' = vm /\ todo \ {s} \subseteq todo'
      BY <2>2
    <3> QED BY <2>3, <3>1, SurfacedReleases
  <2>4. CASE Wrote(s, "off", FALSE, "none", FALSE) /\ (Over \/ Under("stop", s, "idle"))
    BY <2>2, <2>4, PlacedAtRest
  <2> QED BY <2>1, <2>3, <2>4 DEF Resumes
<1>7. ASSUME NEW p, ResumeReset(p, s) PROVE SurfacedAt(s)
  <2>1. Visits(p, s) /\ UNCHANGED vm /\ Resets(s)
    BY <1>7, ResumeResetEffect
  <2>2. op = Idle /\ phase' = phase /\ seen' = seen /\ vm' = vm /\ todo \ {s} \subseteq todo'
    BY <2>1
  <2> QED BY <2>1, <2>2, SurfacedResets
<1>8. CASE ReapError(s)
  <2>1. seat[s].state = "error"
    BY <1>8, ReapErrorEffect
  <2> QED BY <1>8, <2>1, ReapErrorEffect, PlacedAtRest
<1>9. CASE ReapHeld(s) \/ Evict(s)
  <2>1. PICK p : Visits(p, s) /\ UNCHANGED vm /\ Releases(s, FALSE, "discard")
    BY <1>9, ReapHeldEffect, EvictEffect
  <2>2. op = Idle /\ phase' = phase /\ seen' = seen /\ vm' = vm /\ todo \ {s} \subseteq todo'
    BY <2>1
  <2> QED BY <2>1, <2>2, SurfacedReleases
<1>10. CASE Reclaim(s)
  BY <1>10, ReclaimEffect, PlacedAtRest
<1>12. CASE Provision(s)
  <2>1. seat[s].state = "queued"
    BY <1>12, ProvisionEffect
  <2> QED BY <1>12, <2>1, ProvisionEffect, PlacedUnder
<1>13. CASE Prewarm(s)
  BY <1>13, PrewarmEffect, PlacedAtRest DEF Inserts, worker
<1>14. CASE Skip(s)
  <2>1. UNCHANGED <<seat, vm, op>> /\ Visits(phase, s)
    BY <1>14, SkipEffect
  <2>2. CASE phase = "reconcile_rows"
    <3>1. ~(Adopts(s) \/ DefinedOnly(s) \/ IsDead(s) \/ IsGone(s))
      BY <1>14, <2>2, SkipEffect
    <3>2. seat[s].state # "provisioning"
      BY <3>1 DEF Adopts, DefinedOnly, IsDead
    <3>3. seat[s].state = "resetting" => Interrupted(s)
      BY <3>1 DEF IsGone, Interrupted
    <3>4. seat[s].state = "releasing" => NeedsAttention(s) \/ Interrupted(s)
      BY <1>e, <2>2, <3>1 DEF IsGone, Known, Interrupted, NeedsAttention
    <3>5. (NeedsAttention(s) => NeedsAttention(s)') /\ (Interrupted(s) => Interrupted(s)')
      BY <2>1 DEF NeedsAttention, Interrupted
    <3>6. Placed(s)'
      BY <2>1, <2>2, <3>2, <3>3, <3>4, <3>5 DEF Placed, Settled
    <3> QED BY <2>1, <3>6
  <2>3. CASE phase # "reconcile_rows"
    <3>1. phase \in {"reap_held", "reclaim_expired", "evict_idle"}
      BY <1>14, <2>3, SkipEffect
    <3>2. Placed(s)'
      BY <2>1, <3>1, PlacedStill DEF Cared
    <3> QED BY <2>1, <3>2
  <2> QED BY <2>2, <2>3
<1>15. ASSUME NEW r \in Requests, AdmitWaiting(r, s) PROVE SurfacedAt(s)
  BY <1>15, AdmitEffect, PlacedAtRest DEF Inserts, worker
<1>16. ASSUME NEW r \in Requests, PickIdle(r, s) PROVE SurfacedAt(s)
  <2>1. phase = "assign_idle" /\ op = Idle /\ UNCHANGED <<seat, vm>> /\ Stands /\ Under("claim", s, "idle")
    BY <1>16, PickEffect
  <2>2. Placed(s)'
    BY <2>1, PlacedStill DEF Cared
  <2> QED BY <2>1, <2>2
<1> QED BY <1>1, <1>2, <1>3, <1>4, <1>5, <1>6, <1>7, <1>8, <1>9, <1>10, <1>12,
           <1>13, <1>14, <1>15, <1>16 DEF TurnOn

LEMMA SurfacedJob ==
    ASSUME TypeOK, Surfaced, NEW s \in Seats, JobTurn(s)
    PROVE  SurfacedAt(s)
<1>1. /\ phase = "drain_jobs" /\ op = Idle /\ UNCHANGED vm /\ Stands /\ JobOn(s)
      /\ phase' = phase /\ seen' = seen /\ vm' = vm /\ todo \ {s} \subseteq todo'
  BY DEF JobTurn, Stands
<1>2. Placed(s) /\ LostAt(s) /\ ~Cared(s)
  BY <1>1, IdleFields, NoSeatIsNone DEF Surfaced, ResetsEnd, Cared
<1>3. ASSUME NEW e, NEW d, Releases(s, e, d) PROVE SurfacedAt(s)
  BY <1>1, <1>3, SurfacedReleases
<1>4. CASE Resets(s)
  BY <1>1, <1>4, SurfacedResets
<1>5. CASE Discards(s)
  <2>1. /\ seat'[s].state = "releasing" /\ seat'[s].pending = seat[s].pending
        /\ \A t \in Seats \ {s} : seat'[t] = seat[t]
        /\ Under("stop", s, "close") \/ Under("close", s, "idle")
    BY <1>5 DEF Discards, Wrote
  <2>2. Placed(s)'
    BY <2>1, PlacedUnder DEF Steps
  <2>3. seat[s].pending = "reset" => seat[s].state # "resetting"
    BY <1>1, <1>2 DEF Placed, Settled, Waits, NeedsAttention
  <2>4. LostAt(s)'
    BY <1>1, <1>2, <2>1, <2>3 DEF LostAt, Condemned
  <2> QED BY <1>1, <2>1, <2>2, <2>4 DEF SurfacedAt, Under
<1>6. CASE /\ Under("export", s, "idle")
           /\ Wrote(s, seat[s].state, seat[s].vm, seat[s].pending, seat[s].export)
  <2>1. Placed(s)'
    BY <1>1, <1>2, <1>6 DEF Placed, Settled, Waits, NeedsAttention, Wrote
  <2> QED BY <1>1, <1>2, <1>6, <2>1 DEF SurfacedAt, LostAt, Wrote, Under
<1> QED BY <1>1, <1>3, <1>4, <1>5, <1>6 DEF JobOn

\* An exec that begins or ends leaves the rows settled.
LEMMA SurfacedWorks ==
    ASSUME TypeOK, Surfaced, NEW s \in Seats, Works(s)
    PROVE  Surfaced'
<1>a. OpsInPhase /\ UnseenIsNone /\ ResetsEnd /\ HoldKeepsRelease /\ \A t \in Seats : Placed(t)
  BY DEF Surfaced
<1>1. /\ \A t \in Seats \ {s} : seat'[t] = seat[t]
      /\ seat[s].state \in {"ready", "busy"} /\ seat'[s].state \in {"ready", "busy"}
      /\ seat'[s].pending = seat[s].pending
      /\ UNCHANGED <<vm, phase, todo, op, seen>>
  BY DEF Works, Wrote, worker
<1>2. ASSUME NEW t \in Seats PROVE Placed(t)'
  <2>1. CASE t = s
    BY <1>1, <2>1, PlacedAtRest
  <2>2. CASE t # s
    BY <1>a, <1>1, <2>2 DEF Placed, Settled, Cared, Stage, NeedsAttention, Waits, Interrupted
  <2> QED BY <2>1, <2>2
<1>3. ResetsEnd'
  BY <1>a, <1>1 DEF ResetsEnd, LostAt, Condemned
<1>4. OpsInPhase' /\ UnseenIsNone'
  BY <1>a, <1>1 DEF OpsInPhase, UnseenIsNone
<1>5. HoldKeepsRelease'
  <2>1. op.step # "idle" => op.seat \in Seats
    BY DEF TypeOK
  <2> QED BY <1>a, <1>1, <2>1 DEF HoldKeepsRelease
<1> QED BY <1>2, <1>3, <1>4, <1>5 DEF Surfaced

\* Going on to another phase: a pass of reconcile visits every row, then resumes
\* what it found interrupted.
LEMMA SurfacedTurning ==
    ASSUME TypeOK, Surfaced, ListsVms, Turning
    PROVE  Surfaced'
<1>a. OpsInPhase /\ UnseenIsNone /\ ResetsEnd /\ HoldKeepsRelease /\ \A t \in Seats : Placed(t)
  BY DEF Surfaced
<1>b. UNCHANGED <<seat, vm, op>> /\ op.step = "idle" /\ op.seat \notin Seats
  BY IdleFields, NoSeatIsNone DEF Turning
<1>c. OpsInPhase' /\ HoldKeepsRelease'
  BY <1>b DEF OpsInPhase, HoldKeepsRelease
<1>1. CASE BeginReconcile
  <2>1. phase' = "reconcile_orphans" /\ \A s \in Seats : seen'[s] \in Listed(s)
    BY <1>1 DEF BeginReconcile
  <2>2. \A s \in Seats : seen'[s] = "none" <=> vm[s] = "none"
    BY <2>1 DEF Listed
  <2>3. UnseenIsNone' /\ ResetsEnd'
    BY <1>a, <1>b, <2>2 DEF UnseenIsNone, ResetsEnd, LostAt
  <2>4. \A s \in Seats : Placed(s)'
    BY <2>1 DEF Placed, Waits
  <2> QED BY <1>c, <2>3, <2>4 DEF Surfaced
<1>2. CASE StartUnreconciled
  BY <1>2 DEF StartUnreconciled, ListsVms
<1>3. CASE Advance
  <2>1. /\ phase \in Phases \ {"down"} /\ phase' = Follow[phase] /\ todo' = Snapshot(phase')
        /\ LoopOver(phase)
        /\ seen' = IF phase = "reconcile_resume" THEN NoVms ELSE seen
    BY <1>3 DEF Advance, Enter, TypeOK
  <2>2. phase' \in Reconciling => phase \in Reconciling /\ seen' = seen
    BY <2>1 DEF Follow, Phases, Reconciling
  <2>3. UnseenIsNone' /\ ResetsEnd'
    BY <1>a, <1>b, <2>2 DEF UnseenIsNone, ResetsEnd, LostAt
  <2>4. ASSUME NEW s \in Seats PROVE Placed(s)'
    <3>1. Settled(s) => Placed(s)'
      BY <1>b DEF Settled, Cared, NeedsAttention, Placed
    <3>2. CASE phase = "reconcile_orphans"
      <4>1. phase' = "reconcile_rows" /\ todo' = InState(SeatStates)
        BY <2>1, <3>2 DEF Follow, Snapshot
      <4>2. CASE seat[s].state \in SeatStates
        BY <4>1, <4>2 DEF InState, Placed, Waits
      <4>3. CASE seat[s].state \notin SeatStates
        BY <3>1, <4>3 DEF SeatStates, Settled
      <4> QED BY <4>2, <4>3
    <3>3. CASE phase = "reconcile_rows"
      <4>1. phase' = "reconcile_resume" /\ todo' = {t \in Seats : Interrupted(t)} /\ todo = {}
        BY <2>1, <3>3 DEF Follow, Snapshot, LoopOver
      <4>2. Settled(s) \/ Interrupted(s)
        BY <1>a, <3>3, <4>1 DEF Placed, Waits
      <4> QED BY <3>1, <4>1, <4>2 DEF Placed, Waits
    <3>4. CASE phase \notin {"reconcile_orphans", "reconcile_rows"}
      <4>1. phase = "reconcile_resume" => todo = {}
        BY <2>1 DEF LoopOver
      <4>2. Settled(s)
        BY <1>a, <2>1, <3>4, <4>1 DEF Placed, Waits
      <4> QED BY <3>1, <4>2
    <3> QED BY <3>2, <3>3, <3>4
  <2> QED BY <1>c, <2>3, <2>4 DEF Surfaced
<1> QED BY <1>1, <1>2, <1>3 DEF Turning

LEMMA SurfacedElsewhere ==
    ASSUME TypeOK, Surfaced,
           (\E s \in Seats : Fails(s)) \/ Died \/ UNCHANGED <<seat, vm, work, worker>>
    PROVE  Surfaced'
<1>a. OpsInPhase /\ UnseenIsNone /\ ResetsEnd /\ HoldKeepsRelease /\ \A t \in Seats : Placed(t)
  BY DEF Surfaced
<1>1. CASE Died
  <2>1. UNCHANGED <<seat, vm>> /\ phase' = "down" /\ op'.step = "idle"
    BY <1>1 DEF Died, Over, Under
  <2>2. \A s \in Seats : Placed(s)'
    BY <2>1 DEF Placed, Waits
  <2> QED BY <1>a, <2>1, <2>2
      DEF Surfaced, OpsInPhase, UnseenIsNone, ResetsEnd, LostAt, HoldKeepsRelease, Reconciling
<1>2. CASE (\E s \in Seats : Fails(s)) \/ UNCHANGED <<seat, vm, work, worker>>
  <2>1. UNCHANGED <<seat, phase, todo, op, seen>> /\ \A t \in Seats : vm[t] = "none" => vm'[t] = "none"
    BY <1>2 DEF Fails, Spared, worker
  <2>2. \A s \in Seats : Placed(s)'
    BY <1>a, <2>1 DEF Placed, Settled, Cared, Stage, NeedsAttention, Waits, Interrupted
  <2>3. UnseenIsNone' /\ ResetsEnd'
    BY <1>a, <2>1 DEF UnseenIsNone, ResetsEnd, LostAt
  <2> QED BY <1>a, <2>1, <2>2, <2>3 DEF Surfaced, OpsInPhase, HoldKeepsRelease
<1> QED BY <1>1, <1>2

LEMMA SurfacedKept ==
    ASSUME TypeOK, ReservationInv, Named, Served, Surfaced, ListsVms, [Next]_vars
    PROVE  Surfaced'
<1>1. CASE OpNext
  <2>1. PICK s \in Seats : op.seat = s
    BY <1>1, OpIsOn
  <2> QED BY <1>1, <2>1, SurfacedWithin, SurfacedLocal
<1>2. CASE \E s \in Seats : TurnOn(s) \/ JobTurn(s)
  BY <1>2, SurfacedTurn, SurfacedJob, SurfacedLocal
<1>3. CASE \E s \in Seats : Works(s)
  BY <1>3, SurfacedWorks
<1>4. CASE Turning
  BY <1>4, SurfacedTurning
<1> QED BY <1>1, <1>2, <1>3, <1>4, StepCases, SurfacedElsewhere

LEMMA SurfacedInit == Init => Surfaced
<1> SUFFICES ASSUME Init PROVE Surfaced
  OBVIOUS
<1>1. \A s \in Seats : seat[s].pending = "none"
  BY DEF Init, StoreInit, AbsentSeat
<1>2. op.step = "idle" /\ phase = "down"
  BY IdleFields DEF Init
<1> QED BY <1>1, <1>2 DEF Surfaced, Placed, Waits, OpsInPhase, UnseenIsNone, ResetsEnd, LostAt,
           HoldKeepsRelease, Reconciling

\* Without a prewarm floor, and if libvirt lists its domains when the daemon
\* starts, a release, a reset or a boot that any number of crashes interrupted is
\* resumed, closed or surfaced: no seat keeps a transient state nobody acts on.
THEOREM NothingIsStuck ==
    ASSUME NoPrewarm, ListsVms
    PROVE  Spec => []NothingStuckSilently
<1>1. TypeOK /\ ReservationInv /\ Named /\ Served /\ Surfaced /\ [Next]_vars => Surfaced'
  BY SurfacedKept
<1>2. Surfaced => NothingStuckSilently
  BY DEF Surfaced, NothingStuckSilently, Placed, Settled, Cared, Waits, Starting
<1> QED BY <1>1, <1>2, TypeInvariant, ReservationInvariant, NamedAlways, ServedAlways, SurfacedInit, PTL DEF Spec

=============================================================================
