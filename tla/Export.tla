------------------------------- MODULE Export -------------------------------
(***************************************************************************)
(* The export of a seat's task branch (manager/libvirt_provisioner.py:     *)
(* fetch_bundle, push; manager/scheduler.py: _export_locked, ExportGate)   *)
(* One export runs at a time, on the manager's tick; the guests of all     *)
(* seats go on committing, amending and stashing under it, and others push *)
(* to the remote.  A history is the sequence of the commits of the branch  *)
(* beyond its merge base with the guest's main branch.                     *)
(***************************************************************************)
EXTENDS Naturals, Sequences, SequencesExt

CONSTANTS Seats,        \* seats that work on this branch of this repository
          NoClone,      \* a seat whose workspace has no clone
          MaxCommits,   \* bound: commits made, by anyone
          MaxExported,  \* max_export_commits
          MaxCrashes    \* bound: crashes of the daemon

ExportAssumption ==
    /\ MaxCommits \in Nat /\ MaxExported \in Nat \ {0} /\ MaxCrashes \in Nat

VARIABLES branch,      \* the task branch in each guest
          tree,        \* the guest's working tree and stash
          quarantine,  \* refs/omavroom/<branch> of the host checkout
          remote,      \* the destination branch
          at,          \* where the export is
          seat,        \* the seat it exports
          sha,         \* guest_sha
          bundle,      \* the tip of the bundle
          stash,       \* stash_count is not zero
          told,        \* per seat: the history last reported as exported
          commits, crashes

guest == <<branch, tree>>
export == <<at, seat, sha, bundle, stash>>
vars == <<guest, quarantine, remote, export, told, commits, crashes>>

\* A commit touches a path the gate protects, takes that back, or neither.
Changes == {"plain", "protected", "undo"}
History == Seq([id: 1..MaxCommits, change: Changes])

TypeOK ==
    /\ \A s \in Seats : branch[s] = NoClone \/ branch[s] \in History
    /\ tree \in [Seats -> {"clean", "dirty", "stashed"}]
    /\ quarantine \in History /\ remote \in History /\ sha \in History /\ bundle \in History
    /\ at \in {"idle", "status", "rev", "bundle", "fetch", "check", "gate", "lookup", "send", "verify"}
    /\ seat \in Seats
    /\ stash \in BOOLEAN
    /\ \A s \in Seats : told[s] \in History
    /\ commits \in 0..MaxCommits
    /\ crashes \in 0..MaxCrashes

Init ==
    /\ branch = [s \in Seats |-> NoClone]
    /\ tree = [s \in Seats |-> "clean"]
    /\ quarantine = <<>> /\ remote = <<>>
    /\ at = "idle" /\ seat \in Seats
    /\ sha = <<>> /\ bundle = <<>> /\ stash = FALSE
    /\ told = [s \in Seats |-> <<>>]
    /\ commits = 0 /\ crashes = 0

-----------------------------------------------------------------------------
(***************************************************************************)
(* What the gate says of a history: it looks at the changes as a whole.    *)
(***************************************************************************)
Passes(h) ==
    \A k \in DOMAIN h : h[k].change = "protected" =>
        \E j \in DOMAIN h : j > k /\ h[j].change = "undo"

New(change) == [id |-> commits + 1, change |-> change]

-----------------------------------------------------------------------------
(***************************************************************************)
(* The guests and the other users of the remote.                           *)
(***************************************************************************)
\* prepare_repo leaves a clone that is there alone.
PrepareRepo(s) ==
    /\ at = "idle"
    /\ branch[s] = NoClone
    /\ branch' = [branch EXCEPT ![s] = remote]
    /\ UNCHANGED <<tree, quarantine, remote, export, told, commits, crashes>>

Commit(s, change) ==
    /\ commits < MaxCommits
    /\ branch[s] # NoClone
    /\ branch' = [branch EXCEPT ![s] = Append(@, New(change))]
    /\ commits' = commits + 1
    /\ UNCHANGED <<tree, quarantine, remote, export, told, crashes>>

Amend(s, change) ==
    /\ commits < MaxCommits
    /\ branch[s] \notin {NoClone, <<>>}
    /\ branch' = [branch EXCEPT ![s] = Append(Front(@), New(change))]
    /\ commits' = commits + 1
    /\ UNCHANGED <<tree, quarantine, remote, export, told, crashes>>

Touch(s, state) ==
    /\ branch[s] # NoClone
    /\ tree[s] # state
    /\ tree' = [tree EXCEPT ![s] = state]
    /\ UNCHANGED <<branch, quarantine, remote, export, told, commits, crashes>>

\* Somebody pushes a commit of their own.
OthersPush ==
    /\ commits < MaxCommits
    /\ remote' = Append(remote, New("plain"))
    /\ commits' = commits + 1
    /\ UNCHANGED <<guest, quarantine, export, told, crashes>>

\* The seat is torn down and made anew.
Rebuild(s) ==
    /\ at = "idle"
    /\ branch[s] # NoClone
    /\ branch' = [branch EXCEPT ![s] = NoClone]
    /\ tree' = [tree EXCEPT ![s] = "clean"]
    /\ told' = [told EXCEPT ![s] = <<>>]
    /\ UNCHANGED <<quarantine, remote, export, commits, crashes>>

-----------------------------------------------------------------------------
(***************************************************************************)
(* fetch_bundle                                                            *)
(***************************************************************************)
Goto(from, to) == at = from /\ at' = to

Begin(s) ==
    /\ Goto("idle", "status")
    /\ seat' = s
    /\ sha' = <<>> /\ bundle' = <<>> /\ stash' = FALSE
    /\ told' = [told EXCEPT ![s] = <<>>]
    /\ UNCHANGED <<guest, quarantine, remote, commits, crashes>>

CheckTree ==
    /\ Goto("status", "rev")
    /\ branch[seat] # NoClone
    /\ tree[seat] # "dirty"
    /\ UNCHANGED <<guest, quarantine, remote, seat, sha, bundle, stash, told, commits, crashes>>

\* git stash list, and the tip of the branch, which must be beyond its base.
ReadTip ==
    /\ Goto("rev", "bundle")
    /\ branch[seat] # <<>>
    /\ stash' = (tree[seat] = "stashed")
    /\ sha' = branch[seat]
    /\ UNCHANGED <<guest, quarantine, remote, seat, bundle, told, commits, crashes>>

\* git bundle create resolves the branch again.
CreateBundle ==
    /\ Goto("bundle", "fetch")
    /\ bundle' = branch[seat]
    /\ UNCHANGED <<guest, quarantine, remote, seat, sha, stash, told, commits, crashes>>

\* The bundle is copied, verified and fetched, without force.
FetchBundle ==
    /\ Goto("fetch", "check")
    /\ IsPrefix(quarantine, bundle)
    /\ quarantine' = bundle
    /\ UNCHANGED <<guest, remote, seat, sha, bundle, stash, told, commits, crashes>>

\* Mutant: the fetched commit is not compared with the one the guest named.
CheckFetchedLength ==
    /\ Goto("check", "gate")
    /\ Len(quarantine) <= MaxExported
    /\ UNCHANGED <<guest, quarantine, remote, seat, sha, bundle, stash, told, commits, crashes>>

CheckFetched ==
    /\ Goto("check", "gate")
    /\ quarantine = sha
    /\ Len(quarantine) <= MaxExported
    /\ UNCHANGED <<guest, quarantine, remote, seat, sha, bundle, stash, told, commits, crashes>>

(***************************************************************************)
(* ExportGate.evaluate, and push.                                          *)
(***************************************************************************)
Gate ==
    /\ Goto("gate", "lookup")
    /\ ~stash
    /\ Passes(quarantine)
    /\ UNCHANGED <<guest, quarantine, remote, seat, sha, bundle, stash, told, commits, crashes>>

Report == told' = [told EXCEPT ![seat] = sha]

\* Mutant: a branch that exists counts as the one that was pushed.
RemoteHasSome(h) == (remote # <<>> \/ remote = h)

RemoteHas(h) == remote = h

AlreadyThere ==
    /\ Goto("lookup", "idle")
    /\ RemoteHas(sha)
    /\ Report
    /\ UNCHANGED <<guest, quarantine, remote, seat, sha, bundle, stash, commits, crashes>>

\* It is elsewhere, or the remote does not say where.
NotThere ==
    /\ Goto("lookup", "send")
    /\ UNCHANGED <<guest, quarantine, remote, seat, sha, bundle, stash, told, commits, crashes>>

\* git push takes a fast-forward only; when its answer is lost it failed.
Send(answered) ==
    /\ Goto("send", IF answered THEN "verify" ELSE "idle")
    /\ IsPrefix(remote, sha)
    /\ remote' = sha
    /\ UNCHANGED <<guest, quarantine, seat, sha, bundle, stash, told, commits, crashes>>

Verify ==
    /\ Goto("verify", "idle")
    /\ RemoteHas(sha)
    /\ Report
    /\ UNCHANGED <<guest, quarantine, remote, seat, sha, bundle, stash, commits, crashes>>

\* Any step may be refused or fail: ok is false, and a caller may try again.
Fail ==
    /\ at # "idle" /\ at' = "idle"
    /\ UNCHANGED <<guest, quarantine, remote, seat, sha, bundle, stash, told, commits, crashes>>

Crash ==
    /\ at # "idle" /\ at' = "idle"
    /\ crashes < MaxCrashes
    /\ crashes' = crashes + 1
    /\ UNCHANGED <<guest, quarantine, remote, seat, sha, bundle, stash, told, commits>>

ExportStep ==
    \/ CheckTree \/ ReadTip \/ CreateBundle \/ FetchBundle \/ CheckFetched \/ Gate
    \/ AlreadyThere \/ NotThere \/ (\E answered \in BOOLEAN : Send(answered)) \/ Verify
    \/ Fail

GuestStep(s) ==
    \/ PrepareRepo(s) \/ Rebuild(s)
    \/ \E change \in Changes : Commit(s, change) \/ Amend(s, change)
    \/ \E state \in {"clean", "dirty", "stashed"} : Touch(s, state)

Next ==
    \/ \E s \in Seats : GuestStep(s) \/ Begin(s)
    \/ OthersPush
    \/ ExportStep
    \/ Crash

Spec == Init /\ [][Next]_vars

-----------------------------------------------------------------------------
(* An export never takes a commit away from the remote, and what it puts   *)
(* there is what the gate approved, whatever the guest does to its branch  *)
(* while it is fetched ("Quarantine-before-trust").                        *)
ExportsAreSafe ==
    [][(at = "send" /\ remote' # remote) =>
          IsPrefix(remote, remote') /\ Passes(remote')]_vars

(* An export that is reported ok has landed: the history it names is on    *)
(* the remote, and stays there, although pushes of others and answers that *)
(* were lost come in between (push: "verifying remote SHA").               *)
OkMeansLanded == \A s \in Seats : IsPrefix(told[s], remote)

\* The export as its caller sees it: nothing is named before the tip is read.
UnderWay ==
    LET As(stage) == {[seat |-> seat, tip |-> sha, stage |-> stage]} IN
    CASE at \in {"idle", "status", "rev"}               -> {}
      [] at \in {"bundle", "fetch", "check", "gate"}    -> As("offered")
      [] at \in {"lookup", "send"}                      -> As("approved")
      [] at = "verify"                                  -> As("sent")

Landing == INSTANCE Landings WITH
    Approved <- {h \in History : Passes(h)}, export <- UnderWay

(* However the guest moves its branch while it is bundled and fetched, one *)
(* tip is exported: the one it named is what is approved, what lands, on   *)
(* top of what others have pushed, and what is reported, and an export     *)
(* that failed or crashed reports nothing (fetch_bundle, push).            *)
ExportPromise == Landing!Spec

(* Work that extends what the remote has is taken by the quarantine, after *)
(* an export that was refused too (export_seat: "so the caller can retry   *)
(* or release later").                                                     *)
RetryIsFetched == (at = "fetch" /\ IsPrefix(remote, bundle)) => IsPrefix(quarantine, bundle)
=============================================================================
