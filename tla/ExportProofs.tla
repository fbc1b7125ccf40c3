---------------------------- MODULE ExportProofs ----------------------------
(***************************************************************************)
(* What an export promises, for any number of seats and commits and for    *)
(* crashes, refusals and lost answers anywhere: the remote never loses a   *)
(* commit to an export, an export puts nothing there that the gate did not *)
(* approve, and one that is reported ok has landed.                        *)
(***************************************************************************)
EXTENDS Export, SequenceTheorems, TLAPS

Commits == [id: 1..MaxCommits, change: Changes]

\* The histories of a behaviour are histories, and the guest of an export under
\* way has its clone.
HistoriesTyped ==
    /\ seat \in Seats
    /\ commits \in Nat
    /\ \A s \in Seats : branch[s] = NoClone \/ branch[s] \in History
    /\ DOMAIN branch = Seats
    /\ quarantine \in History /\ remote \in History /\ sha \in History /\ bundle \in History
    /\ told \in [Seats -> History]
    /\ at \notin {"idle", "status"} => branch[seat] \in History

\* What was approved is what is pushed.
Gated ==
    /\ at = "gate" => quarantine = sha
    /\ at \in {"lookup", "send", "verify"} => Passes(sha)

Inv == HistoriesTyped /\ Gated /\ Passes(remote) /\ OkMeansLanded

-----------------------------------------------------------------------------
\* A prefix agrees with the sequence as far as it goes.
LEMMA PrefixPointwise ==
    ASSUME NEW S, NEW s \in Seq(S), NEW t \in Seq(S)
    PROVE  IsPrefix(s, t) <=> Len(s) <= Len(t) /\ \A i \in 1..Len(s) : s[i] = t[i]
<1>1. Len(s) \in Nat /\ Len(t) \in Nat
  OBVIOUS
<1>2. SubSeq(s, 1, Len(s)) = s
  BY SubSeqFull
<1>3. CASE Len(s) <= Len(t)
  <2> DEFINE u == SubSeq(t, 1, Len(s))
  <2>1. \A i \in 1..Len(s) : t[i] \in S
    BY <1>1, <1>3
  <2>2. u \in Seq(S) /\ \A i \in 1..Len(s) : u[i] = t[i]
    BY <2>1, <1>1, SubSeqProperties
  <2>3. Len(u) = Len(s)
    BY <2>1, <1>1, SubSeqProperties
  <2> HIDE DEF u
  <2>4. s = u <=> \A i \in 1..Len(s) : s[i] = u[i]
    BY <2>2, <2>3, SeqEqual
  <2>5. IsPrefix(s, t) <=> s = u
    BY <1>2, <1>3 DEF IsPrefix, u
  <2> QED BY <2>2, <2>4, <2>5, <1>3
<1>4. CASE ~(Len(s) <= Len(t))
  BY <1>4 DEF IsPrefix
<1> QED BY <1>3, <1>4

\* Prefixes are ordered.
LEMMA PrefixReflexive ==
    ASSUME NEW S, NEW s \in Seq(S)
    PROVE  IsPrefix(s, s) /\ IsPrefix(<<>>, s)
<1>1. IsPrefix(s, s)
  BY PrefixPointwise
<1>2. <<>> \in Seq(S) /\ Len(<<>>) = 0 /\ Len(s) \in Nat
  OBVIOUS
<1>3. Len(<<>>) <= Len(s)
  BY <1>2
<1>4. \A i \in 1..Len(<<>>) : <<>>[i] = s[i]
  BY <1>2
<1>5. IsPrefix(<<>>, s)
  BY <1>2, <1>3, <1>4, PrefixPointwise
<1> QED BY <1>1, <1>5

LEMMA PrefixTransitive ==
    ASSUME NEW S, NEW s \in Seq(S), NEW t \in Seq(S), NEW u \in Seq(S),
           IsPrefix(s, t), IsPrefix(t, u)
    PROVE  IsPrefix(s, u)
<1>1. Len(s) \in Nat /\ Len(t) \in Nat /\ Len(u) \in Nat
  OBVIOUS
<1>2. Len(s) <= Len(t) /\ \A i \in 1..Len(s) : s[i] = t[i]
  BY PrefixPointwise
<1>3. Len(t) <= Len(u) /\ \A i \in 1..Len(t) : t[i] = u[i]
  BY PrefixPointwise
<1>4. Len(s) <= Len(u) /\ \A i \in 1..Len(s) : s[i] = u[i]
  BY <1>1, <1>2, <1>3
<1> QED BY <1>4, PrefixPointwise

\* A history that grows keeps what it was.
LEMMA PrefixOfAppend ==
    ASSUME NEW S, NEW s \in Seq(S), NEW x \in S
    PROVE  Append(s, x) \in Seq(S) /\ IsPrefix(s, Append(s, x))
<1> DEFINE t == Append(s, x)
<1>1. /\ t \in Seq(S)
      /\ Len(t) = Len(s) + 1
      /\ \A i \in 1..Len(s) : t[i] = s[i]
  BY AppendProperties
<1>2. Len(s) \in Nat
  OBVIOUS
<1> HIDE DEF t
<1>3. Len(s) <= Len(t)
  BY <1>1, <1>2
<1>4. IsPrefix(s, t)
  BY <1>1, <1>3, PrefixPointwise
<1> QED BY <1>1, <1>4 DEF t

\* A commit made within the bound is one.
LEMMA NewType ==
    ASSUME ExportAssumption, commits \in Nat, commits < MaxCommits, NEW change \in Changes
    PROVE  New(change) \in Commits
<1>1. commits + 1 \in 1..MaxCommits
  BY DEF ExportAssumption
<1> QED BY <1>1 DEF New, Commits

\* A history without its last commit, with another one in its place, is one.
LEMMA AmendedType ==
    ASSUME NEW S, NEW h \in Seq(S), NEW x \in S
    PROVE  Append(Front(h), x) \in Seq(S)
<1>1. Len(h) \in Nat /\ \A i \in 1..(Len(h) - 1) : h[i] \in S
  OBVIOUS
<1>2. Front(h) \in Seq(S)
  BY <1>1, SubSeqProperties DEF Front
<1> QED BY <1>2, AppendProperties

\* A plain commit on top does not change the verdict of the gate.
LEMMA PlainPasses ==
    ASSUME NEW h \in Seq(Commits), NEW x \in Commits, x.change = "plain", Passes(h)
    PROVE  Passes(Append(h, x))
<1> DEFINE g == Append(h, x)
<1>1. /\ DOMAIN g = 1..(Len(h) + 1)
      /\ \A i \in 1..Len(h) : g[i] = h[i]
      /\ g[Len(h) + 1] = x
  BY AppendProperties
<1>2. Len(h) \in Nat /\ DOMAIN h = 1..Len(h)
  OBVIOUS
<1> HIDE DEF g
<1> SUFFICES ASSUME NEW k \in DOMAIN g, g[k].change = "protected"
             PROVE  \E j \in DOMAIN g : j > k /\ g[j].change = "undo"
  BY DEF Passes, g
<1>3. k \in DOMAIN h /\ h[k].change = "protected"
  BY <1>1, <1>2
<1>4. PICK j \in DOMAIN h : j > k /\ h[j].change = "undo"
  BY <1>3 DEF Passes
<1> QED BY <1>1, <1>2, <1>4

-----------------------------------------------------------------------------
LEMMA InitInv == ASSUME ExportAssumption, Init PROVE Inv
<1>1. <<>> \in History
  BY DEF History
<1>2. HistoriesTyped
  BY <1>1 DEF Init, HistoriesTyped
<1>3. Gated
  BY DEF Init, Gated
<1>4. Passes(remote)
  BY DEF Init, Passes
<1>5. IsPrefix(<<>>, <<>>)
  BY <1>1, PrefixReflexive DEF History
<1>6. OkMeansLanded
  BY <1>5 DEF Init, OkMeansLanded
<1> QED BY <1>2, <1>3, <1>4, <1>6 DEF Inv

\* A guest whose branch moves, or goes away between two exports, disturbs nothing.
LEMMA BranchMoves ==
    ASSUME Inv, NEW s \in Seats, NEW b,
           b = NoClone \/ b \in History,
           at \notin {"idle", "status"} => b \in History,
           branch' = [branch EXCEPT ![s] = b],
           told' = told \/ told' = [told EXCEPT ![s] = <<>>],
           commits' \in Nat,
           UNCHANGED <<quarantine, remote, at, seat, sha, bundle>>
    PROVE  Inv'
<1>1. <<>> \in History
  BY DEF History
<1>2. told' \in [Seats -> History]
  BY <1>1 DEF Inv, HistoriesTyped
<1>3. DOMAIN branch' = Seats /\ \A t \in Seats : branch'[t] = IF t = s THEN b ELSE branch[t]
  BY DEF Inv, HistoriesTyped
<1>4. HistoriesTyped'
  BY <1>2, <1>3 DEF Inv, HistoriesTyped
<1>5. Gated' /\ Passes(remote)'
  BY DEF Inv, Gated, Passes
<1>6. \A t \in Seats : told'[t] = told[t] \/ told'[t] = <<>>
  BY DEF Inv, HistoriesTyped
<1>7. IsPrefix(<<>>, remote)
  BY PrefixReflexive DEF Inv, HistoriesTyped, History
<1>8. OkMeansLanded'
  BY <1>6, <1>7 DEF Inv, OkMeansLanded
<1> QED BY <1>4, <1>5, <1>8 DEF Inv

\* The guests change their own branch only, and not what is being exported.
LEMMA GuestKeepsInv ==
    ASSUME ExportAssumption, Inv, NEW s \in Seats, GuestStep(s)
    PROVE  Inv'
<1>1. CASE PrepareRepo(s)
  <2>1. remote \in History
    BY DEF Inv, HistoriesTyped
  <2> QED BY <1>1, <2>1, BranchMoves DEF PrepareRepo, export, Inv, HistoriesTyped
<1>2. ASSUME NEW change \in Changes, Commit(s, change)
      PROVE  Inv'
  <2>1. New(change) \in Commits /\ branch[s] \in Seq(Commits)
    BY <1>2, NewType DEF Commit, Inv, HistoriesTyped, History, Commits
  <2>2. Append(branch[s], New(change)) \in History
    BY <2>1, PrefixOfAppend DEF History, Commits
  <2>3. commits' \in Nat
    BY <1>2 DEF Commit, Inv, HistoriesTyped
  <2> QED BY <1>2, <2>2, <2>3, BranchMoves DEF Commit, export
<1>3. ASSUME NEW change \in Changes, Amend(s, change)
      PROVE  Inv'
  <2>1. New(change) \in Commits /\ branch[s] \in Seq(Commits)
    BY <1>3, NewType DEF Amend, Inv, HistoriesTyped, History, Commits
  <2>2. Append(Front(branch[s]), New(change)) \in History
    BY <2>1, AmendedType DEF History, Commits
  <2>3. commits' \in Nat
    BY <1>3 DEF Amend, Inv, HistoriesTyped
  <2> QED BY <1>3, <2>2, <2>3, BranchMoves DEF Amend, export
<1>4. ASSUME NEW state, Touch(s, state)
      PROVE  Inv'
  BY <1>4 DEF Touch, export, Inv, HistoriesTyped, Gated, Passes, OkMeansLanded
<1>5. CASE Rebuild(s)
  BY <1>5, BranchMoves DEF Rebuild, export, Inv, HistoriesTyped
<1> QED BY <1>1, <1>2, <1>3, <1>4, <1>5 DEF GuestStep

\* Pushes of others only add to the remote.
LEMMA OthersKeepInv ==
    ASSUME ExportAssumption, Inv, OthersPush
    PROVE  Inv' /\ IsPrefix(remote, remote')
<1>1. New("plain") \in Commits /\ remote \in Seq(Commits)
  BY NewType DEF OthersPush, Inv, HistoriesTyped, History, Commits, Changes
<1>2. remote' \in Seq(Commits) /\ IsPrefix(remote, remote')
  BY <1>1, PrefixOfAppend DEF OthersPush
<1>3. commits' \in Nat
  BY DEF OthersPush, Inv, HistoriesTyped
<1>4. HistoriesTyped'
  BY <1>2, <1>3 DEF OthersPush, guest, export, Inv, HistoriesTyped, History, Commits
<1>5. Gated'
  BY DEF OthersPush, export, Inv, Gated, Passes
<1>6. Passes(remote)'
  <2>1. New("plain").change = "plain"
    BY DEF New
  <2>2. Passes(Append(remote, New("plain")))
    BY <1>1, <2>1, PlainPasses DEF Inv
  <2> QED BY <2>2 DEF OthersPush, Passes
<1>7. OkMeansLanded'
  <2>1. ASSUME NEW s \in Seats
        PROVE  IsPrefix(told[s], remote')
    <3>1. told[s] \in Seq(Commits) /\ IsPrefix(told[s], remote)
      BY DEF Inv, HistoriesTyped, OkMeansLanded, History, Commits
    <3> QED BY <1>1, <1>2, <3>1, PrefixTransitive
  <2> QED BY <2>1 DEF OthersPush, export, OkMeansLanded
<1> QED BY <1>2, <1>4, <1>5, <1>6, <1>7 DEF Inv

\* What an export reports as exported is what the remote has.
LEMMA ReportKeepsInv ==
    ASSUME Inv, RemoteHas(sha), Report, at' = "idle",
           UNCHANGED <<guest, quarantine, remote, seat, sha, bundle, commits>>
    PROVE  Inv'
<1>1. told' \in [Seats -> History]
  BY DEF Report, Inv, HistoriesTyped
<1>2. HistoriesTyped' /\ Gated' /\ Passes(remote)'
  BY <1>1 DEF guest, Inv, HistoriesTyped, Gated, Passes
<1>3. IsPrefix(sha, remote)
  BY PrefixReflexive DEF RemoteHas, Inv, HistoriesTyped, History
<1>4. \A s \in Seats : told'[s] = IF s = seat THEN sha ELSE told[s]
  BY DEF Report, Inv, HistoriesTyped
<1>5. OkMeansLanded'
  BY <1>3, <1>4 DEF Inv, OkMeansLanded
<1> QED BY <1>2, <1>5 DEF Inv

\* A push moves the remote forward, to the history the gate approved.
LEMMA SendKeepsInv ==
    ASSUME Inv, NEW answered \in BOOLEAN, Send(answered)
    PROVE  Inv' /\ IsPrefix(remote, remote')
<1>1. /\ at = "send" /\ at' \in {"verify", "idle"}
      /\ IsPrefix(remote, sha) /\ remote' = sha
      /\ UNCHANGED <<branch, quarantine, seat, sha, bundle, told, commits>>
  BY DEF Send, Goto, guest
<1>2. HistoriesTyped'
  BY <1>1 DEF Inv, HistoriesTyped
<1>3. Passes(sha) /\ Gated' /\ Passes(remote)'
  BY <1>1 DEF Inv, Gated, Passes
<1>4. ASSUME NEW s \in Seats
      PROVE  IsPrefix(told[s], sha)
  <2>1. /\ told[s] \in Seq(Commits) /\ remote \in Seq(Commits) /\ sha \in Seq(Commits)
        /\ IsPrefix(told[s], remote)
    BY DEF Inv, HistoriesTyped, OkMeansLanded, History, Commits
  <2> QED BY <1>1, <2>1, PrefixTransitive
<1>5. OkMeansLanded'
  BY <1>1, <1>4 DEF OkMeansLanded
<1> QED BY <1>1, <1>2, <1>3, <1>5 DEF Inv

\* Every other step of an export leaves the remote and the reports alone; the
\* checks it passes on the way are what Gated remembers.
LEMMA QuietKeepsInv ==
    ASSUME Inv,
           CheckTree \/ ReadTip \/ CreateBundle \/ FetchBundle \/ CheckFetched \/ Gate
           \/ NotThere \/ Fail \/ Crash
    PROVE  Inv' /\ remote' = remote
<1>1. branch' = branch /\ remote' = remote /\ told' = told /\ seat' = seat /\ commits' = commits
  BY DEF CheckTree, ReadTip, CreateBundle, FetchBundle, CheckFetched, Gate, NotThere, Fail, Crash,
         guest
<1>2. Passes(remote)' /\ OkMeansLanded'
  BY <1>1 DEF Inv, Passes, OkMeansLanded
<1>3. HistoriesTyped'
  BY <1>1 DEF CheckTree, ReadTip, CreateBundle, FetchBundle, CheckFetched, Gate, NotThere, Fail,
              Crash, Goto, Inv, HistoriesTyped
<1>4. Gated'
  BY DEF CheckTree, ReadTip, CreateBundle, FetchBundle, CheckFetched, Gate, NotThere, Fail,
         Crash, Goto, Inv, Gated, Passes
<1> QED BY <1>1, <1>2, <1>3, <1>4 DEF Inv

LEMMA BeginKeepsInv ==
    ASSUME Inv, NEW s \in Seats, Begin(s)
    PROVE  Inv' /\ remote' = remote
<1>1. <<>> \in History
  BY DEF History
<1>2. HistoriesTyped'
  BY <1>1 DEF Begin, Goto, guest, Inv, HistoriesTyped
<1>3. Gated' /\ Passes(remote)' /\ remote' = remote
  BY DEF Begin, Goto, Inv, Gated, Passes
<1>4. IsPrefix(<<>>, remote)
  BY PrefixReflexive DEF Inv, HistoriesTyped, History
<1>5. OkMeansLanded'
  BY <1>4 DEF Begin, Inv, HistoriesTyped, OkMeansLanded
<1> QED BY <1>2, <1>3, <1>5 DEF Inv

-----------------------------------------------------------------------------
\* Every step keeps the invariant, and none takes a commit from the remote.
LEMMA StepKeepsInv ==
    ASSUME ExportAssumption, Inv, [Next]_vars
    PROVE  Inv' /\ IsPrefix(remote, remote')
<1>0. IsPrefix(remote, remote)
  BY PrefixReflexive DEF Inv, HistoriesTyped, History
<1>1. ASSUME NEW s \in Seats, GuestStep(s)
      PROVE  Inv' /\ remote' = remote
  BY <1>1, GuestKeepsInv DEF GuestStep, PrepareRepo, Commit, Amend, Touch, Rebuild
<1>2. ASSUME NEW s \in Seats, Begin(s)
      PROVE  Inv' /\ remote' = remote
  BY <1>2, BeginKeepsInv
<1>3. CASE OthersPush
  BY <1>3, OthersKeepInv
<1>4. CASE AlreadyThere \/ Verify
  BY <1>0, <1>4, ReportKeepsInv DEF AlreadyThere, Verify, Goto
<1>5. ASSUME NEW answered \in BOOLEAN, Send(answered)
      PROVE  Inv' /\ IsPrefix(remote, remote')
  BY <1>5, SendKeepsInv
<1>6. CASE CheckTree \/ ReadTip \/ CreateBundle \/ FetchBundle \/ CheckFetched \/ Gate
           \/ NotThere \/ Fail \/ Crash
  BY <1>0, <1>6, QuietKeepsInv
<1>7. CASE UNCHANGED vars
  BY <1>0, <1>7 DEF vars, guest, export, Inv, HistoriesTyped, Gated, Passes, OkMeansLanded
<1> QED BY <1>0, <1>1, <1>2, <1>3, <1>4, <1>5, <1>6, <1>7 DEF Next, ExportStep

(* An export that is reported ok has landed, and stays on the remote,      *)
(* whatever is pushed by others, refused, lost or retried (push).          *)
THEOREM LandedStays == ASSUME ExportAssumption PROVE Spec => []OkMeansLanded
<1>1. Init => Inv
  BY InitInv
<1>2. Inv /\ [Next]_vars => Inv'
  BY StepKeepsInv
<1>3. Inv => OkMeansLanded
  BY DEF Inv
<1> QED BY <1>1, <1>2, <1>3, PTL DEF Spec

(* No export takes a commit from the remote or puts one there the gate did *)
(* not approve: the tip that was named, fetched, approved and pushed is one*)
(* although the guest moves its branch in between (fetch_bundle,           *)
(* ExportGate.evaluate, push).                                             *)
THEOREM ExportsStaySafe == ASSUME ExportAssumption PROVE Spec => ExportsAreSafe
<1> DEFINE Safe == (at = "send" /\ remote' # remote) => IsPrefix(remote, remote') /\ Passes(remote')
<1>1. Init => Inv
  BY InitInv
<1>2. Inv /\ [Next]_vars => Inv'
  BY StepKeepsInv
<1>3. Inv /\ [Next]_vars => [Safe]_vars
  <2> SUFFICES ASSUME Inv, [Next]_vars
               PROVE  Safe
    OBVIOUS
  <2>1. Inv' /\ IsPrefix(remote, remote')
    BY StepKeepsInv
  <2>2. Passes(remote')
    BY <2>1 DEF Inv, Passes
  <2> QED BY <2>1, <2>2
<1>4. ExportsAreSafe <=> [][Safe]_vars
  BY DEF ExportsAreSafe
<1> QED BY <1>1, <1>2, <1>3, <1>4, PTL DEF Spec

\* What the types say beyond HistoriesTyped.
ControlTyped ==
    /\ tree \in [Seats -> {"clean", "dirty", "stashed"}]
    /\ at \in {"idle", "status", "rev", "bundle", "fetch", "check", "gate", "lookup", "send", "verify"}
    /\ stash \in BOOLEAN
    /\ commits \in 0..MaxCommits
    /\ crashes \in 0..MaxCrashes

LEMMA InitControl == ASSUME ExportAssumption, Init PROVE ControlTyped
<1>1. commits \in 0..MaxCommits /\ crashes \in 0..MaxCrashes
  BY DEF Init, ExportAssumption
<1> QED BY <1>1 DEF Init, ControlTyped

LEMMA StepKeepsControl ==
    ASSUME ExportAssumption, ControlTyped, [Next]_vars
    PROVE  ControlTyped'
<1> USE DEF ControlTyped, Goto
<1>1. ASSUME NEW s \in Seats, GuestStep(s)
      PROVE  ControlTyped'
  <2>1. CASE PrepareRepo(s) \/ Rebuild(s)
    BY <2>1 DEF PrepareRepo, Rebuild, export
  <2>2. ASSUME NEW change \in Changes, Commit(s, change) \/ Amend(s, change)
        PROVE  ControlTyped'
    BY <2>2, ExportAssumption DEF Commit, Amend, export, ExportAssumption
  <2>3. ASSUME NEW state \in {"clean", "dirty", "stashed"}, Touch(s, state)
        PROVE  ControlTyped'
    BY <2>3 DEF Touch, export
  <2> QED BY <1>1, <2>1, <2>2, <2>3 DEF GuestStep
<1>2. ASSUME NEW s \in Seats, Begin(s)
      PROVE  ControlTyped'
  BY <1>2 DEF Begin, guest
<1>3. CASE OthersPush
  BY <1>3, ExportAssumption DEF OthersPush, export, guest, ExportAssumption
<1>4. CASE CheckTree \/ ReadTip \/ CreateBundle \/ FetchBundle \/ CheckFetched \/ Gate
  BY <1>4 DEF CheckTree, ReadTip, CreateBundle, FetchBundle, CheckFetched, Gate, guest
<1>5. CASE AlreadyThere \/ NotThere \/ (\E answered \in BOOLEAN : Send(answered)) \/ Verify \/ Fail
  BY <1>5 DEF AlreadyThere, NotThere, Send, Verify, Fail, guest
<1>6. CASE Crash
  BY <1>6, ExportAssumption DEF Crash, guest, ExportAssumption
<1>7. CASE UNCHANGED vars
  BY <1>7 DEF vars, guest, export
<1> QED BY <1>1, <1>2, <1>3, <1>4, <1>5, <1>6, <1>7 DEF Next, ExportStep

(* Every variable of an export keeps its type: the quarantine, the remote  *)
(* and what was reported are histories of commits that were made.          *)
THEOREM ExportTypes == ASSUME ExportAssumption PROVE Spec => []TypeOK
<1>1. Init => Inv /\ ControlTyped
  BY InitInv, InitControl
<1>2. Inv /\ ControlTyped /\ [Next]_vars => (Inv /\ ControlTyped)'
  BY StepKeepsInv, StepKeepsControl
<1>3. Inv /\ ControlTyped => TypeOK
  BY DEF Inv, HistoriesTyped, ControlTyped, TypeOK
<1> QED BY <1>1, <1>2, <1>3, PTL DEF Spec

-----------------------------------------------------------------------------
(* Export implements Landings.                                             *)

As(stage) == {[seat |-> seat, tip |-> sha, stage |-> stage]}

\* What the export is at each of its steps.
LEMMA StageIs ==
    /\ at \in {"idle", "status", "rev"} => UnderWay = {}
    /\ at \in {"bundle", "fetch", "check", "gate"} => UnderWay = As("offered")
    /\ at \in {"lookup", "send"} => UnderWay = As("approved")
    /\ at = "verify" => UnderWay = As("sent")
  BY DEF UnderWay, As

\* A step that stays in its stage shows only what the guests do.
LEMMA StageStays ==
    ASSUME UNCHANGED <<seat, sha>>, ControlTyped, ControlTyped',
           \E S \in {{"idle", "status", "rev"}, {"bundle", "fetch", "check", "gate"},
                     {"lookup", "send"}, {"verify"}} : at \in S /\ at' \in S
    PROVE  UnderWay' = UnderWay
  BY DEF UnderWay

\* Both modules take prefixes from the same library.
LEMMA SamePrefix == \A g, h : Landing!IsPrefix(g, h) <=> IsPrefix(g, h)
  BY DEF Landing!IsPrefix, IsPrefix

LEMMA GuestsMayMove ==
    ASSUME UNCHANGED <<remote, told>>, UnderWay' = UnderWay PROVE [Landing!Next]_Landing!vars
<1>1. Landing!Guests
  BY DEF Landing!Guests
<1> QED BY <1>1 DEF Landing!Next

\* The steps of an export that ends, whatever it was at.
LEMMA Abandons ==
    ASSUME UNCHANGED <<branch, remote, told>>, at' = "idle" PROVE [Landing!Next]_Landing!vars
<1>1. UnderWay' = {}
  BY DEF UnderWay
<1>2. Landing!Abandon
  BY <1>1 DEF Landing!Abandon
<1> QED BY <1>2 DEF Landing!Next

LEMMA ReportLands ==
    ASSUME Inv, AlreadyThere \/ Verify PROVE [Landing!Next]_Landing!vars
<1>1. /\ at \in {"lookup", "verify"} /\ at' = "idle" /\ remote = sha
      /\ told' = [told EXCEPT ![seat] = sha] /\ UNCHANGED <<branch, remote>>
  BY DEF AlreadyThere, Verify, Goto, RemoteHas, Report, guest
<1>2. UnderWay' = {} /\ (UnderWay = As("approved") \/ UnderWay = As("sent"))
  BY <1>1 DEF UnderWay, As
<1> DEFINE e(stage) == [seat |-> seat, tip |-> sha, stage |-> stage]
<1>3. ASSUME NEW stage \in {"approved", "sent"}, UnderWay = {e(stage)} PROVE Landing!Report
  <2>1. e(stage).seat = seat /\ e(stage).tip = sha /\ e(stage).stage = stage
    OBVIOUS
  <2> HIDE DEF e
  <2> QED BY <1>1, <1>2, <1>3, <2>1 DEF Landing!Report
<1>4. Landing!Report
  BY <1>2, <1>3 DEF As
<1> QED BY <1>4 DEF Landing!Next

LEMMA SendLands ==
    ASSUME Inv, NEW answered \in BOOLEAN, Send(answered) PROVE [Landing!Next]_Landing!vars
<1>1. /\ at = "send" /\ at' = (IF answered THEN "verify" ELSE "idle")
      /\ IsPrefix(remote, sha) /\ remote' = sha /\ UNCHANGED <<branch, told, seat, sha>>
  BY DEF Send, Goto, guest
<1>2. UnderWay = As("approved") /\ UnderWay' \in {As("sent"), {}}
  BY <1>1 DEF UnderWay, As
<1> DEFINE e == [seat |-> seat, tip |-> sha, stage |-> "approved"]
<1>3. /\ e.stage = "approved" /\ e.tip = sha
      /\ [e EXCEPT !.stage = "sent"] = [seat |-> seat, tip |-> sha, stage |-> "sent"]
  OBVIOUS
<1>4. UnderWay = {e}
  BY <1>2 DEF As
<1>5. UnderWay' = {[e EXCEPT !.stage = "sent"]} \/ UnderWay' = {}
  BY <1>2, <1>3 DEF As
<1> HIDE DEF e
<1>6. IsPrefix(remote, e.tip) /\ remote' = e.tip /\ UNCHANGED <<branch, told>>
  BY <1>1, <1>3
<1>7. Landing!Land
  BY <1>3, <1>4, <1>5, <1>6, SamePrefix DEF Landing!Land
<1> QED BY <1>7 DEF Landing!Next

\* The tip the gate looks at is the one that was named.
LEMMA GateApproves ==
    ASSUME Inv, Gate PROVE [Landing!Next]_Landing!vars
<1>1. at = "gate" /\ at' = "lookup" /\ Passes(quarantine) /\ UNCHANGED <<branch, remote, told, seat, sha>>
  BY DEF Gate, Goto, guest
<1>2. quarantine = sha /\ sha \in History
  BY <1>1 DEF Inv, Gated, HistoriesTyped
<1>3. sha \in {h \in History : Passes(h)}
  BY <1>1, <1>2
<1>4. UnderWay = As("offered") /\ UnderWay' = As("approved")
  BY <1>1 DEF UnderWay, As
<1> DEFINE e == [seat |-> seat, tip |-> sha, stage |-> "offered"]
<1>5. /\ e.stage = "offered" /\ e.tip = sha
      /\ [e EXCEPT !.stage = "approved"] = [seat |-> seat, tip |-> sha, stage |-> "approved"]
  OBVIOUS
<1>6. UnderWay = {e}
  BY <1>4 DEF As
<1> HIDE DEF e
<1>7. Landing!Approve
  BY <1>1, <1>3, <1>4, <1>5, <1>6 DEF Landing!Approve, As
<1> QED BY <1>7 DEF Landing!Next

LEMMA LandingStep ==
    ASSUME ExportAssumption, Inv, ControlTyped, ControlTyped', [Next]_vars
    PROVE  [Landing!Next]_Landing!vars
<1>1. ASSUME NEW s \in Seats, GuestStep(s)
      PROVE  [Landing!Next]_Landing!vars
  <2>1. CASE Rebuild(s)
    <3>1. /\ at = "idle" /\ told' = [told EXCEPT ![s] = <<>>] /\ UNCHANGED remote
          /\ UNCHANGED <<seat, sha, at>>
      BY <2>1 DEF Rebuild, export
    <3>2. UnderWay = {} /\ UnderWay' = {}
      BY <3>1 DEF UnderWay
    <3>3. Landing!Forget(s)
      BY <3>1, <3>2 DEF Landing!Forget
    <3> QED BY <3>3 DEF Landing!Next
  <2>2. CASE ~Rebuild(s)
    <3>1. UNCHANGED <<remote, told, export>>
      BY <1>1, <2>2 DEF GuestStep, PrepareRepo, Commit, Amend, Touch
    <3>2. UnderWay' = UnderWay
      BY <3>1 DEF export, UnderWay
    <3> QED BY <3>1, <3>2, GuestsMayMove
  <2> QED BY <2>1, <2>2
<1>2. ASSUME NEW s \in Seats, Begin(s)
      PROVE  [Landing!Next]_Landing!vars
  <2>1. at = "idle" /\ at' = "status" /\ told' = [told EXCEPT ![s] = <<>>] /\ UNCHANGED remote
    BY <1>2 DEF Begin, Goto
  <2>2. UnderWay = {} /\ UnderWay' = {}
    BY <2>1 DEF UnderWay
  <2>3. Landing!Forget(s)
    BY <2>1, <2>2 DEF Landing!Forget
  <2> QED BY <2>3 DEF Landing!Next
<1>3. CASE OthersPush
  <2>1. New("plain") \in Commits
    BY <1>3, NewType DEF OthersPush, Inv, HistoriesTyped, Changes
  <2>2. IsPrefix(remote, remote') /\ UNCHANGED <<branch, told, export>>
    <3>1. remote \in Seq(Commits)
      BY DEF Inv, HistoriesTyped, History, Commits
    <3>2. IsPrefix(remote, Append(remote, New("plain")))
      BY <2>1, <3>1, PrefixOfAppend
    <3> QED BY <1>3, <3>2 DEF OthersPush, guest
  <2>3. UnderWay' = UnderWay
    BY <2>2 DEF export, UnderWay
  <2>4. Landing!OthersPush
    BY <2>2, <2>3, SamePrefix DEF Landing!OthersPush
  <2> QED BY <2>4 DEF Landing!Next
<1>4. CASE CheckTree \/ CreateBundle \/ FetchBundle \/ CheckFetched \/ NotThere
  <2>1. UNCHANGED <<remote, told, seat, sha>>
    BY <1>4 DEF CheckTree, CreateBundle, FetchBundle, CheckFetched, NotThere
  <2>2. UnderWay' = UnderWay
    BY <1>4, <2>1, StageStays DEF CheckTree, CreateBundle, FetchBundle, CheckFetched, NotThere, Goto
  <2> QED BY <2>1, <2>2, GuestsMayMove
<1>5. CASE ReadTip
  <2>1. /\ at = "rev" /\ at' = "bundle" /\ sha' = branch[seat] /\ UNCHANGED <<branch, remote, told, seat>>
    BY <1>5 DEF ReadTip, Goto, guest
  <2>2. seat \in Seats
    BY <2>1 DEF Inv, HistoriesTyped
  <2>3. UnderWay = {} /\ UnderWay' = {[seat |-> seat, tip |-> branch[seat], stage |-> "offered"]}
    BY <2>1 DEF UnderWay
  <2>4. Landing!Offer(seat)
    BY <2>1, <2>3 DEF Landing!Offer
  <2> QED BY <2>2, <2>4 DEF Landing!Next
<1>6. CASE Gate
  BY <1>6, GateApproves
<1>7. CASE AlreadyThere \/ Verify
  BY <1>7, ReportLands
<1>8. ASSUME NEW answered \in BOOLEAN, Send(answered)
      PROVE  [Landing!Next]_Landing!vars
  BY <1>8, SendLands
<1>9. CASE Fail \/ Crash
  BY <1>9, Abandons DEF Fail, Crash, guest
<1>10. CASE UNCHANGED vars
  BY <1>10 DEF vars, guest, export, UnderWay, Landing!vars
<1> QED BY <1>1, <1>2, <1>3, <1>4, <1>5, <1>6, <1>7, <1>8, <1>9, <1>10 DEF Next, ExportStep

LEMMA LandingStarts == ASSUME Init PROVE Landing!Init
BY DEF Init, UnderWay, Landing!Init

(* For any number of seats and commits, whatever the guests do to their    *)
(* branches and others to the remote, and wherever an export fails or the  *)
(* daemon crashes: the tip that was named is what the gate approved, what  *)
(* landed, and what is reported (fetch_bundle, ExportGate.evaluate, push). *)
THEOREM ExportsLand == ASSUME ExportAssumption PROVE Spec => ExportPromise
<1>1. Init => Inv /\ ControlTyped
  BY InitInv, InitControl
<1>2. Init => Landing!Init
  BY LandingStarts
<1>3. Inv /\ ControlTyped /\ [Next]_vars => (Inv /\ ControlTyped)'
  BY StepKeepsInv, StepKeepsControl
<1>4. Inv /\ ControlTyped /\ (Inv /\ ControlTyped)' /\ [Next]_vars => [Landing!Next]_Landing!vars
  <2> SUFFICES ASSUME Inv, ControlTyped, ControlTyped', [Next]_vars
               PROVE  [Landing!Next]_Landing!vars
    OBVIOUS
  <2> QED BY LandingStep DEF Landing!vars
<1> QED BY <1>1, <1>2, <1>3, <1>4, PTL DEF Spec, ExportPromise, Landing!Spec
=============================================================================
