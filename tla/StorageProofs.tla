--------------------------- MODULE StorageProofs ---------------------------
(***************************************************************************)
(* What the daemon keeps on disk stays consistent: the seats' machines,    *)
(* for any number of seats, addresses, identities and crashes, the images  *)
(* and their registry, for any number of images, projects, packages and    *)
(* calls, and the settings, for any number of threads, settings and        *)
(* restarts.                                                               *)
(***************************************************************************)
EXTENDS MCStorage, ExportProofs, FiniteSetTheorems, SequenceTheorems, TLAPS

\* A set of numbers that is not empty has a least one.
LEMMA LeastOf ==
    ASSUME NEW S \in SUBSET Nat, S # {}
    PROVE  \E k \in S : \A j \in S : k <= j
<1> DEFINE T == {0..k : k \in S}
<1>1. IsWellFoundedOn(StrictSubsetOrdering(Nat), FiniteSubsetsOf(Nat))
  BY FS_StrictSubsetOrderingWellFounded
<1>2. T \subseteq FiniteSubsetsOf(Nat) /\ T # {}
  <2>1. \A k \in S : k \in Int /\ 0 \in Int
    OBVIOUS
  <2>2. \A k \in S : IsFiniteSet(0..k)
    BY <2>1, FS_Interval
  <2>3. \A k \in S : 0..k \in SUBSET Nat
    OBVIOUS
  <2> QED BY <2>2, <2>3 DEF FiniteSubsetsOf
<1>3. PICK t \in T : \A u \in T : <<u, t>> \notin StrictSubsetOrdering(Nat)
  BY <1>1, <1>2, WFMin
<1>4. PICK k \in S : t = 0..k
  OBVIOUS
<1> SUFFICES ASSUME NEW j \in S, j < k PROVE FALSE
  BY <1>4
<1>5. <<0..j, 0..k>> \in StrictSubsetOrdering(Nat)
  <2>1. 0..j \in SUBSET Nat /\ 0..k \in SUBSET Nat
    OBVIOUS
  <2>2. 0..j \subseteq 0..k /\ k \in 0..k /\ k \notin 0..j
    OBVIOUS
  <2> QED BY <2>1, <2>2 DEF StrictSubsetOrdering
<1> QED BY <1>3, <1>4, <1>5

-----------------------------------------------------------------------------
(* Machines.                                                               *)

\* No identity is in two overlays, and none is in one before it is generated.
IdentitiesDiffer ==
    \A s \in Vms :
        /\ overlay[s].id <= made
        /\ \A t \in Vms \ {s} : overlay[s].id > Golden => overlay[t].id # overlay[s].id

\* A usable seat has a generated identity and its boot mode, and is not the
\* one a call is working on.
UsableIsWhole ==
    /\ call # "idle" => vm \notin usable
    /\ \A s \in usable : /\ overlay[s].id > Golden
                         /\ overlay[s].id = pinned[s]
                         /\ overlay[s].mode = "seat"

Identified == {"pin", "mode", "note", "ssh"}
Booting == {"start", "load", "rotate"} \cup Identified

\* What a call has done to the seat it works on, by where it is.
CallIsAt ==
    /\ call \in {"rebuild", "clear"} \cup Booting => vm \in recorded
    /\ call \in {"start", "load"} => ~meta[vm].ready
    /\ call \in Identified => overlay[vm].id > Golden
    /\ call \in {"note", "ssh"} => overlay[vm].mode = "seat"

\* A generation is counted for an identity only, and after it is generated.
GenerationsCounted ==
    /\ \A s \in Vms : meta[s].generation <= made
    /\ stale.generation <= made
    /\ call = "pin" => meta[vm].generation < made

\* The address in hand is the one the seat has, or one that is free.
AddressInHand ==
    /\ call = "save" => ~stale.ready /\ stale.ip \notin Used(vm)
    /\ call \in {"rotate", "pin", "mode", "note"} => stale.ip = meta[vm].ip

MachinesInv ==
    /\ MachinesTypeOK /\ IdentitiesDiffer /\ UsableIsWhole /\ CallIsAt
    /\ GenerationsCounted /\ AddressInHand /\ DistinctAddresses

\* The search of allocate ends at an address of the pool that no other seat has.
LEMMA AllocatedIsFree ==
    ASSUME MachinesAssumption, NEW name \in Vms \cup {BuildVm}, Free(name) # {}
    PROVE  Allocated(name) \in Addresses \ Used(name)
<1>1. \E k \in Free(name) : \A j \in Free(name) : k <= j
  <2>1. Free(name) \in SUBSET Nat
    BY DEF Free, MachinesAssumption
  <2> QED BY <2>1, LeastOf
<1>2. PICK k \in Free(name) : Allocated(name) = Probe(name, k)
  BY <1>1 DEF Allocated
<1>3. Probe(name, k) \in Addresses
  <2>1. Hash[name] + k \in Nat /\ PoolSize \in Nat \ {0}
    BY <1>2 DEF Free, MachinesAssumption
  <2> QED BY <2>1 DEF Probe, Addresses
<1> QED BY <1>2, <1>3 DEF Free

\* Nothing is made yet, so the invariant holds at the start.
LEMMA MachinesInitInv == ASSUME MachinesAssumption, MachinesInit PROVE MachinesInv
<1> USE DEF MachinesAssumption, MachinesInit, NoMeta, NoDisk, NoIdentity, NoAddress,
            Golden
<1>1. MachinesTypeOK
  BY DEF MachinesTypeOK, Meta, Addresses
<1>2. IdentitiesDiffer /\ UsableIsWhole /\ GenerationsCounted /\ DistinctAddresses
  BY DEF IdentitiesDiffer, UsableIsWhole, GenerationsCounted, DistinctAddresses
<1>3. CallIsAt /\ AddressInHand
  BY DEF CallIsAt, AddressInHand, Identified, Booting
<1> QED BY <1>1, <1>2, <1>3 DEF MachinesInv

\* Generations stay below the number of identities, so the types hold.
LEMMA MachinesType ==
    ASSUME MachinesAssumption, MachinesInv, [MachinesNext]_machinesVars
    PROVE  MachinesTypeOK'
<1> USE DEF MachinesAssumption, MachinesInv, MachinesTypeOK, GenerationsCounted,
            CallIsAt, UsableIsWhole, Meta, Addresses, Identified, Booting, NoMeta,
            NoDisk, NoIdentity, NoAddress, Golden, CallGoes, BeginCall, machine,
            callVars
<1>1. ASSUME NEW s \in Vms, BeginCreate(s) PROVE MachinesTypeOK'
  BY <1>1 DEF BeginCreate
<1>2. ASSUME NEW s \in Vms, BeginReset(s) PROVE MachinesTypeOK'
  BY <1>2 DEF BeginReset
<1>3. ASSUME NEW s \in Vms, BeginDestroy(s) PROVE MachinesTypeOK'
  BY <1>3 DEF BeginDestroy
<1>4. CASE CreateOverlay
  BY <1>4 DEF CreateOverlay
<1>5. CASE DefineDomain
  <2>1. stale' = [ip |-> Allocated(vm), ready |-> FALSE, generation |-> 0]
    BY <1>5 DEF DefineDomain
  <2>2. Allocated(vm) \in Addresses
    BY <1>5, AllocatedIsFree DEF DefineDomain
  <2> HIDE DEF Addresses
  <2>3. stale' \in Meta
    BY <2>1, <2>2
  <2> QED BY <1>5, <2>3 DEF DefineDomain
<1>6. CASE DefineFails
  BY <1>6 DEF DefineFails
<1>7. CASE SaveCreated
  BY <1>7 DEF SaveCreated
<1>8. CASE StartDomain
  BY <1>8 DEF StartDomain
<1>9. CASE LoadMeta
  BY <1>9 DEF LoadMeta
<1>10. CASE RotateIdentity
  BY <1>10 DEF RotateIdentity
<1>11. CASE PinIdentity
  <2>1. meta[vm].generation + 1 \in 0..MaxIdentities
    BY <1>11 DEF PinIdentity
  <2> DEFINE pin == [meta[vm] EXCEPT !.ready = TRUE, !.generation = IF stale.ready THEN @ ELSE @ + 1]
  <2>2. meta' = [meta EXCEPT ![vm] = pin]
    BY <1>11 DEF PinIdentity
  <2>3. pin \in Meta
    BY <2>1
  <2>4. meta' \in [Vms -> Meta]
    BY <2>2, <2>3
  <2> QED BY <1>11, <2>4 DEF PinIdentity
<1>12. CASE ApplyBootMode
  BY <1>12 DEF ApplyBootMode
<1>13. CASE NoteBootMode
  BY <1>13 DEF NoteBootMode
<1>14. CASE SeatReady
  BY <1>14 DEF SeatReady
<1>15. CASE RebuildOverlay
  BY <1>15 DEF RebuildOverlay
<1>16. CASE ClearMeta
  BY <1>16 DEF ClearMeta
<1>17. CASE RemoveDirectory
  BY <1>17 DEF RemoveDirectory
<1>18. CASE CallFails
  BY <1>18 DEF CallFails
<1>19. CASE StartBuildVm
  BY <1>19, AllocatedIsFree DEF StartBuildVm
<1>20. CASE RemoveBuildVm
  BY <1>20 DEF RemoveBuildVm
<1>21. CASE MachinesCrash
  BY <1>21 DEF MachinesCrash
<1>22. CASE UNCHANGED machinesVars
  BY <1>22 DEF machinesVars
<1> QED BY <1>1, <1>2, <1>3, <1>4, <1>5, <1>6, <1>7, <1>8, <1>9, <1>10, <1>11, <1>12,
           <1>13, <1>14, <1>15, <1>16, <1>17, <1>18, <1>19, <1>20, <1>21, <1>22 DEF
           MachinesNext, CallStep

\* A call changes the identity of its own seat only, which is not usable, and
\* gives it one that no overlay has.
LEMMA MachinesIdentity ==
    ASSUME MachinesAssumption, MachinesInv, [MachinesNext]_machinesVars
    PROVE  (IdentitiesDiffer /\ UsableIsWhole)'
<1> USE DEF MachinesAssumption, MachinesInv, MachinesTypeOK, IdentitiesDiffer,
            UsableIsWhole, CallIsAt, Meta, Identified, Booting, NoMeta, NoDisk,
            NoIdentity, NoAddress, Golden, CallGoes, BeginCall, machine, callVars
<1>1. ASSUME NEW s \in Vms, BeginCreate(s) PROVE (IdentitiesDiffer /\ UsableIsWhole)'
  BY <1>1 DEF BeginCreate
<1>2. ASSUME NEW s \in Vms, BeginReset(s) PROVE (IdentitiesDiffer /\ UsableIsWhole)'
  BY <1>2 DEF BeginReset
<1>3. ASSUME NEW s \in Vms, BeginDestroy(s) PROVE (IdentitiesDiffer /\ UsableIsWhole)'
  BY <1>3 DEF BeginDestroy
<1>4. CASE CreateOverlay
  BY <1>4 DEF CreateOverlay
<1>5. CASE DefineDomain
  BY <1>5, AllocatedIsFree DEF DefineDomain
<1>6. CASE DefineFails
  BY <1>6 DEF DefineFails
<1>7. CASE SaveCreated
  BY <1>7 DEF SaveCreated
<1>8. CASE StartDomain
  BY <1>8 DEF StartDomain
<1>9. CASE LoadMeta
  BY <1>9 DEF LoadMeta
<1>10. CASE RotateIdentity
  BY <1>10 DEF RotateIdentity
<1>11. CASE PinIdentity
  BY <1>11 DEF PinIdentity
<1>12. CASE ApplyBootMode
  BY <1>12 DEF ApplyBootMode
<1>13. CASE NoteBootMode
  BY <1>13 DEF NoteBootMode
<1>14. CASE SeatReady
  BY <1>14 DEF SeatReady
<1>15. CASE RebuildOverlay
  BY <1>15 DEF RebuildOverlay
<1>16. CASE ClearMeta
  BY <1>16 DEF ClearMeta
<1>17. CASE RemoveDirectory
  BY <1>17 DEF RemoveDirectory
<1>18. CASE CallFails
  BY <1>18 DEF CallFails
<1>19. CASE StartBuildVm
  BY <1>19, AllocatedIsFree DEF StartBuildVm
<1>20. CASE RemoveBuildVm
  BY <1>20 DEF RemoveBuildVm
<1>21. CASE MachinesCrash
  BY <1>21 DEF MachinesCrash
<1>22. CASE UNCHANGED machinesVars
  BY <1>22 DEF machinesVars
<1> QED BY <1>1, <1>2, <1>3, <1>4, <1>5, <1>6, <1>7, <1>8, <1>9, <1>10, <1>11, <1>12,
           <1>13, <1>14, <1>15, <1>16, <1>17, <1>18, <1>19, <1>20, <1>21, <1>22 DEF
           MachinesNext, CallStep

\* The steps of a call follow one another.
LEMMA MachinesCall ==
    ASSUME MachinesAssumption, MachinesInv, [MachinesNext]_machinesVars
    PROVE  (CallIsAt /\ GenerationsCounted)'
<1> USE DEF MachinesAssumption, MachinesInv, MachinesTypeOK, CallIsAt,
            GenerationsCounted, AddressInHand, Meta, IdentitiesDiffer, Identified,
            Booting, NoMeta, NoDisk, NoIdentity, NoAddress, Golden, CallGoes, BeginCall,
            machine, callVars
<1>1. ASSUME NEW s \in Vms, BeginCreate(s) PROVE (CallIsAt /\ GenerationsCounted)'
  BY <1>1 DEF BeginCreate
<1>2. ASSUME NEW s \in Vms, BeginReset(s) PROVE (CallIsAt /\ GenerationsCounted)'
  BY <1>2 DEF BeginReset
<1>3. ASSUME NEW s \in Vms, BeginDestroy(s) PROVE (CallIsAt /\ GenerationsCounted)'
  BY <1>3 DEF BeginDestroy
<1>4. CASE CreateOverlay
  BY <1>4 DEF CreateOverlay
<1>5. CASE DefineDomain
  BY <1>5, AllocatedIsFree DEF DefineDomain
<1>6. CASE DefineFails
  BY <1>6 DEF DefineFails
<1>7. CASE SaveCreated
  BY <1>7 DEF SaveCreated
<1>8. CASE StartDomain
  BY <1>8 DEF StartDomain
<1>9. CASE LoadMeta
  BY <1>9 DEF LoadMeta
<1>10. CASE RotateIdentity
  BY <1>10 DEF RotateIdentity
<1>11. CASE PinIdentity
  BY <1>11 DEF PinIdentity
<1>12. CASE ApplyBootMode
  BY <1>12 DEF ApplyBootMode
<1>13. CASE NoteBootMode
  BY <1>13 DEF NoteBootMode
<1>14. CASE SeatReady
  BY <1>14 DEF SeatReady
<1>15. CASE RebuildOverlay
  BY <1>15 DEF RebuildOverlay
<1>16. CASE ClearMeta
  BY <1>16 DEF ClearMeta
<1>17. CASE RemoveDirectory
  BY <1>17 DEF RemoveDirectory
<1>18. CASE CallFails
  BY <1>18 DEF CallFails
<1>19. CASE StartBuildVm
  BY <1>19, AllocatedIsFree DEF StartBuildVm
<1>20. CASE RemoveBuildVm
  BY <1>20 DEF RemoveBuildVm
<1>21. CASE MachinesCrash
  BY <1>21 DEF MachinesCrash
<1>22. CASE UNCHANGED machinesVars
  BY <1>22 DEF machinesVars
<1> QED BY <1>1, <1>2, <1>3, <1>4, <1>5, <1>6, <1>7, <1>8, <1>9, <1>10, <1>11, <1>12,
           <1>13, <1>14, <1>15, <1>16, <1>17, <1>18, <1>19, <1>20, <1>21, <1>22 DEF
           MachinesNext, CallStep

\* An address is recorded only for the seat that it was allocated to.
LEMMA MachinesAddress ==
    ASSUME MachinesAssumption, MachinesInv, [MachinesNext]_machinesVars
    PROVE  (AddressInHand /\ DistinctAddresses)'
<1> USE DEF MachinesAssumption, MachinesInv, MachinesTypeOK, AddressInHand,
            DistinctAddresses, Meta, Identified, Booting, NoMeta, NoDisk, NoIdentity,
            NoAddress, Golden, CallGoes, BeginCall, machine, callVars
<1>1. ASSUME NEW s \in Vms, BeginCreate(s) PROVE (AddressInHand /\ DistinctAddresses)'
  BY <1>1 DEF BeginCreate, Used
<1>2. ASSUME NEW s \in Vms, BeginReset(s) PROVE (AddressInHand /\ DistinctAddresses)'
  BY <1>2 DEF BeginReset, Used
<1>3. ASSUME NEW s \in Vms, BeginDestroy(s) PROVE (AddressInHand /\ DistinctAddresses)'
  BY <1>3 DEF BeginDestroy, Used
<1>4. CASE CreateOverlay
  BY <1>4 DEF CreateOverlay, Used
<1>5. CASE DefineDomain
  BY <1>5, AllocatedIsFree DEF DefineDomain, Used
<1>6. CASE DefineFails
  BY <1>6 DEF DefineFails, Used
<1>7. CASE SaveCreated
  BY <1>7 DEF SaveCreated, Used
<1>8. CASE StartDomain
  BY <1>8 DEF StartDomain, Used
<1>9. CASE LoadMeta
  BY <1>9 DEF LoadMeta, Used
<1>10. CASE RotateIdentity
  BY <1>10 DEF RotateIdentity, Used
<1>11. CASE PinIdentity
  BY <1>11 DEF PinIdentity, Used
<1>12. CASE ApplyBootMode
  BY <1>12 DEF ApplyBootMode, Used
<1>13. CASE NoteBootMode
  BY <1>13 DEF NoteBootMode, Used
<1>14. CASE SeatReady
  BY <1>14 DEF SeatReady, Used
<1>15. CASE RebuildOverlay
  BY <1>15 DEF RebuildOverlay, Used
<1>16. CASE ClearMeta
  BY <1>16 DEF ClearMeta, Used
<1>17. CASE RemoveDirectory
  BY <1>17 DEF RemoveDirectory, Used
<1>18. CASE CallFails
  BY <1>18 DEF CallFails, Used
<1>19. CASE StartBuildVm
  BY <1>19, AllocatedIsFree DEF StartBuildVm, Used
<1>20. CASE RemoveBuildVm
  BY <1>20 DEF RemoveBuildVm, Used
<1>21. CASE MachinesCrash
  BY <1>21 DEF MachinesCrash, Used
<1>22. CASE UNCHANGED machinesVars
  BY <1>22 DEF machinesVars, Used
<1> QED BY <1>1, <1>2, <1>3, <1>4, <1>5, <1>6, <1>7, <1>8, <1>9, <1>10, <1>11, <1>12,
           <1>13, <1>14, <1>15, <1>16, <1>17, <1>18, <1>19, <1>20, <1>21, <1>22 DEF
           MachinesNext, CallStep

LEMMA MachinesNextInv ==
    ASSUME MachinesAssumption, MachinesInv, [MachinesNext]_machinesVars
    PROVE  MachinesInv'
BY MachinesType, MachinesIdentity, MachinesCall, MachinesAddress DEF MachinesInv

LEMMA MachinesInvAlways == ASSUME MachinesAssumption PROVE MachinesSpec => []MachinesInv
BY MachinesInitInv, MachinesNextInv, PTL DEF MachinesSpec

(* Every variable of Machines keeps its type, the generations in seat.json *)
(* included: there are never more than identities were generated.          *)
THEOREM MachineTypes == ASSUME MachinesAssumption PROVE MachinesSpec => []MachinesTypeOK
<1>1. MachinesInv => MachinesTypeOK
  BY DEF MachinesInv
<1> QED BY <1>1, MachinesInvAlways, PTL

LEMMA MachinesOwn == ASSUME MachinesInv PROVE OwnIdentity
<1> SUFFICES ASSUME NEW s \in usable
             PROVE  /\ overlay[s].id # Golden
                    /\ overlay[s].id = pinned[s]
                    /\ overlay[s].mode = "seat"
                    /\ \A t \in usable \ {s} : overlay[t].id # overlay[s].id
  BY DEF OwnIdentity
<1>1. usable \subseteq Vms
  BY DEF MachinesInv, MachinesTypeOK
<1>2. overlay[s].id > Golden /\ overlay[s].id = pinned[s] /\ overlay[s].mode = "seat"
  BY DEF MachinesInv, UsableIsWhole
<1>3. \A t \in usable \ {s} : overlay[t].id # overlay[s].id
  BY <1>1, <1>2 DEF MachinesInv, IdentitiesDiffer
<1> QED BY <1>2, <1>3 DEF Golden

(* A seat that was reported ready has an identity of its own, pinned, and  *)
(* its boot mode, after any number of failed calls, resets, destroys and   *)
(* crashes of the daemon (create_from_image, wait_ready, reset, destroy).  *)
THEOREM IdentityIsOwn == ASSUME MachinesAssumption PROVE MachinesSpec => []OwnIdentity
<1>1. MachinesInv => OwnIdentity
  BY MachinesOwn
<1> QED BY <1>1, MachinesInvAlways, PTL

(* No two seats are ever given the same address, whatever names hash to    *)
(* the same place and however small the pool (NetworkConfig.allocate).     *)
THEOREM AddressesDiffer == ASSUME MachinesAssumption PROVE MachinesSpec => []DistinctAddresses
<1>1. MachinesInv => DistinctAddresses
  BY DEF MachinesInv
<1> QED BY <1>1, MachinesInvAlways, PTL

-----------------------------------------------------------------------------
(* Images.                                                                 *)

BuildStages == {"start", "boot", "convert", "register", "apply"}
Leaving == {"unregister", "unlink", "pop"}

\* What is recorded of an image, in the file or in memory, is installed in it.
Holds(i, kept) ==
    kept # NoEntry => file[i].is = "whole" /\ kept \subseteq file[i].has

\* What the registries and the calls take for installed in an image, is.  In memory
\* the entry outlives the image, until the client that removes it has dropped it.
Sound(i) ==
    /\ ~Spoils(i)
    /\ Holds(i, disk.image[i])
    /\ Holds(i, mem.image[i]) \/ Deleted(i)
    /\ job.call.image = i =>
          /\ job.at \in {"boot", "convert"} => job.recorded \subseteq file[i].has \cup job.recipe
          /\ job.at \in {"register", "apply"} => Holds(i, job.recorded) /\ Holds(i, job.recipe)
          /\ Binding(job) => Holds(i, job.call.want)
    /\ \A c \in Clients : Binding(client[c]) /\ client[c].call.image = i => Holds(i, client[c].call.want)

\* A call that binds a project binds it to the one image it can have.
BindsWhatItPlanned(t) ==
    Binding(t) =>
        /\ t.call.kind = "ensure" /\ t.call.project \in Projects
        /\ t.call.image = Target(t.call.project)
        /\ t.at = "told" => mem.project[t.call.project] = t.call.image

JobIsOn ==
    /\ job.at \in {"idle", "plan"} \cup BuildStages \cup {"bind", "bound", "told"}
    /\ job.at = "plan" => /\ job.call.kind = "ensure"
                          /\ job.call.project \in Projects /\ job.call.image = NoEntry
    /\ job.at \notin {"idle", "plan"} => job.call.image \in Names /\ job.call.kind # "remove"
    /\ job.at \in BuildStages =>
          /\ job.call.want \subseteq job.recipe
          /\ job.call.kind = "ensure" => /\ job.call.project \in Projects
                                         /\ job.call.image = Target(job.call.project)

JobsAreCalls ==
    \A k \in DOMAIN jobs :
        \/ jobs[k].kind = "ensure" /\ jobs[k].project \in Projects /\ jobs[k].image = NoEntry
        \/ jobs[k].kind = "build" /\ jobs[k].image \in Names

ClientIsOn(c) ==
    /\ client[c].at \in {"idle", "bind", "bound", "told"} \cup Leaving
    /\ client[c].at # "idle" => client[c].call.image \in Names
    /\ client[c].at \in Leaving => client[c].call.kind = "remove"
    /\ client[c].at \in {"bind", "bound", "told"} => client[c].call.kind = "ensure"

\* The tracker finds every record in its order.
ListedIn(r, o) == Tracked(r) \subseteq {o[k] : k \in DOMAIN o}

TrackedIsListed == ListedIn(records, listed)

\* Nothing but a build that runs has a record that says so.
OnlyBuildsAreReported == \A i \in Names : Reported(i) => Building(i)

ImagesInv ==
    /\ ImagesTypeOK /\ TrackedIsListed /\ OnlyBuildsAreReported
    /\ JobIsOn /\ JobsAreCalls /\ BindsWhatItPlanned(job)
    /\ \A c \in Clients : ClientIsOn(c) /\ BindsWhatItPlanned(client[c])
    /\ \A i \in Names \ spoiled : Sound(i)

\* The parts of the type invariant that few actions touch.
FileTypeOK == file \in [Names -> [is: {"none", "whole", "broken"}, has: SUBSET Packages]]
CountersTypeOK == live \subseteq Names /\ calls \in 0..MaxCalls /\ deaths \in 0..MaxDeaths

\* What is left of a sequence without its first elements.
LEMMA RestFacts ==
    ASSUME NEW T, NEW q \in Seq(T), NEW d \in 0..Len(q)
    PROVE  /\ SubSeq(q, d + 1, Len(q)) \in Seq(T)
           /\ Len(SubSeq(q, d + 1, Len(q))) = Len(q) - d
           /\ \A k \in 1..(Len(q) - d) : SubSeq(q, d + 1, Len(q))[k] = q[d + k]
<1>1. d \in Nat /\ Len(q) \in Nat /\ d <= Len(q) /\ \A k \in 1..Len(q) : q[k] \in T
  OBVIOUS
<1>2. d + 1 \in Int /\ Len(q) \in Int /\ \A k \in (d + 1)..Len(q) : q[k] \in T
  BY <1>1
<1>3. SubSeq(q, d + 1, Len(q)) \in Seq(T)
  BY <1>2, SubSeqProperties
<1>4. Len(SubSeq(q, d + 1, Len(q))) = Len(q) - d
  BY <1>1, <1>2
<1>5. ASSUME NEW k \in 1..(Len(q) - d) PROVE SubSeq(q, d + 1, Len(q))[k] = q[d + k]
  BY <1>1, <1>2, <1>5
<1> QED BY <1>3, <1>4, <1>5

\* Pruning drops records and loses none from the order; the newest stays when its name
\* was not in the order before.
LEMMA PrunedFacts ==
    ASSUME ImagesAssumption, NEW S, "none" \in S,
           NEW r \in [Names -> S], NEW o \in Seq(Names), o # <<>>, ListedIn(r, o)
    PROVE  /\ Pruned(r, o).records \in [Names -> S]
           /\ Pruned(r, o).order \in Seq(Names)
           /\ ListedIn(Pruned(r, o).records, Pruned(r, o).order)
           /\ \A i \in Names : Pruned(r, o).records[i] \in {r[i], "none"}
           /\ (\A k \in 1..(Len(o) - 1) : o[k] # o[Len(o)]) =>
                  Pruned(r, o).records[o[Len(o)]] = r[o[Len(o)]]
<1> DEFINE upto(m) == {o[k] : k \in 1..m}
           first == {m \in 0..Len(o) : Cardinality(Tracked(r) \ upto(m)) <= MaxRecords}
           n == CHOOSE k \in first : \A m \in first : k <= m
           left == [i \in Names |-> IF i \in upto(n) THEN "none" ELSE r[i]]
           rest == SubSeq(o, n + 1, Len(o))
           newest == o[Len(o)]
           IsNew == \A k \in 1..(Len(o) - 1) : o[k] # newest
<1>1. Len(o) \in Nat \ {0} /\ DOMAIN o = 1..Len(o)
  BY EmptySeq
<1>2. Len(o) \in first
  <2>1. Tracked(r) \ upto(Len(o)) = {}
    BY <1>1 DEF ListedIn
  <2>2. Cardinality(Tracked(r) \ upto(Len(o))) = 0
    BY <2>1, FS_EmptySet
  <2> QED BY <1>1, <2>2 DEF ImagesAssumption
<1>3. n \in first /\ \A m \in first : n <= m
  <2>1. first \in SUBSET Nat
    OBVIOUS
  <2> HIDE DEF first
  <2>2. \E k \in first : \A m \in first : k <= m
    BY <1>2, <2>1, LeastOf
  <2> QED BY <2>2
<1>4. n \in 0..Len(o)
  BY <1>3
<1>5. Pruned(r, o).records = left /\ Pruned(r, o).order = rest
  BY DEF Pruned
<1>6. IsNew => newest \notin upto(n)
  <2> HIDE DEF n
  <2> SUFFICES ASSUME IsNew PROVE n <= Len(o) - 1
    BY <1>4
  <2>1. Tracked(r) \ upto(Len(o) - 1) \subseteq {newest}
    BY <1>1 DEF ListedIn
  <2>2. Cardinality({newest}) = 1 /\ IsFiniteSet({newest})
    BY FS_Singleton
  <2>3. Cardinality(Tracked(r) \ upto(Len(o) - 1)) <= 1
        /\ Cardinality(Tracked(r) \ upto(Len(o) - 1)) \in Nat
    <3> DEFINE old == Tracked(r) \ upto(Len(o) - 1)
    <3>1. old \subseteq {newest}
      BY <2>1
    <3> HIDE DEF old
    <3> QED BY <2>2, <3>1, FS_Subset, FS_CardinalityType DEF old
  <2>4. MaxRecords \in Nat /\ 1 <= MaxRecords
    BY DEF ImagesAssumption
  <2>5. Cardinality(Tracked(r) \ upto(Len(o) - 1)) <= MaxRecords
    <3> HIDE DEF upto
    <3> QED BY <2>3, <2>4
  <2>6. Len(o) - 1 \in first
    BY <1>1, <2>5
  <2> QED BY <1>3, <2>6
<1> HIDE DEF n
<1>7. /\ left \in [Names -> S]
      /\ \A i \in Names : left[i] \in {r[i], "none"}
      /\ IsNew => left[newest] = r[newest]
  <2>1. \A i \in Names : (IF i \in upto(n) THEN "none" ELSE r[i]) \in S
    OBVIOUS
  <2>2. newest \in Names
    BY <1>1
  <2> HIDE DEF upto, newest, IsNew
  <2>3. /\ left \in [Names -> S]
        /\ \A i \in Names : left[i] = IF i \in upto(n) THEN "none" ELSE r[i]
    BY <2>1
  <2> HIDE DEF left
  <2> QED BY <1>6, <2>2, <2>3
<1>8. /\ rest \in Seq(Names) /\ Len(rest) = Len(o) - n
      /\ \A k \in 1..(Len(o) - n) : rest[k] = o[n + k]
  BY <1>4, RestFacts
<1>9. Tracked(left) \subseteq {rest[k] : k \in DOMAIN rest}
  <2> SUFFICES ASSUME NEW i \in Names, left[i] # "none" PROVE \E k \in DOMAIN rest : rest[k] = i
    BY DEF Tracked
  <2>1. i \notin upto(n) /\ r[i] # "none"
    OBVIOUS
  <2>2. PICK m \in 1..Len(o) : o[m] = i
    BY <1>1, <2>1 DEF Tracked, ListedIn
  <2>3. m \notin 1..n
    BY <2>1, <2>2
  <2>4. m - n \in 1..(Len(o) - n) /\ n + (m - n) = m
    BY <1>1, <1>4, <2>3
  <2>5. rest[m - n] = i
    BY <1>8, <2>2, <2>4
  <2> QED BY <1>8, <2>4, <2>5
<1> HIDE DEF left, rest
<1> QED BY <1>5, <1>7, <1>8, <1>9 DEF ListedIn

LEMMA TargetType ==
    ASSUME ImagesAssumption, ImagesTypeOK, NEW p \in Projects
    PROVE  Target(p) \in Names
BY DEF ImagesAssumption, ImagesTypeOK, Registry, Target

\* What a plan leads to.
LEMMA PlannedFacts ==
    ASSUME ImagesAssumption, ImagesTypeOK,
           NEW a \in Call, a.kind = "ensure", a.project \in Projects
    PROVE  LET i == Target(a.project)
               t == Planned(a)
           IN  /\ t \in Thread
               /\ t.at = "idle" => t = Idle
               /\ t.at \in {"idle", "bind", "start"}
               /\ t.at # "idle" => t.call = [a EXCEPT !.image = i]
               /\ t.at = "bind" => mem.image[i] # NoEntry /\ a.want \subseteq mem.image[i]
               /\ t.at = "start" => a.want \subseteq t.recipe
<1> DEFINE i == Target(a.project)
           goal == [a EXCEPT !.image = i]
           bind == [Idle EXCEPT !.at = "bind", !.call = goal]
           start == [Idle EXCEPT !.at = "start", !.call = goal, !.recipe = Recorded(i) \cup a.want]
<1>1. i \in Names
  BY TargetType
<1>2. goal \in Call
  BY <1>1 DEF Call
<1>3. Idle \in Thread /\ Idle.at = "idle"
  BY DEF Idle, NoCall, Thread, Call
<1>4. Recorded(i) \in SUBSET Packages
  BY <1>1 DEF Recorded, ImagesTypeOK, Registry
<1>5. a.want \in SUBSET Packages
  BY DEF Call
<1>6. /\ bind \in Thread /\ bind.at = "bind" /\ bind.call = goal
      /\ start \in Thread /\ start.at = "start" /\ start.call = goal /\ a.want \subseteq start.recipe
  <2> HIDE DEF goal
  <2> QED BY <1>2, <1>3, <1>4, <1>5 DEF Thread
<1>8. Planned(a) = IF Satisfied(a.project, a.want) THEN bind
                   ELSE IF MayBuild(a.want, a.approved) THEN start ELSE Idle
  BY DEF Planned
<1>9. Satisfied(a.project, a.want) => mem.image[i] # NoEntry /\ a.want \subseteq mem.image[i]
  BY DEF Satisfied, Recorded
<1> DEFINE t == Planned(a)
<1>10. CASE t = bind /\ Satisfied(a.project, a.want)
  BY <1>6, <1>9, <1>10
<1>11. CASE t = start
  BY <1>6, <1>11
<1>12. CASE t = Idle
  BY <1>3, <1>12
<1> QED BY <1>8, <1>10, <1>11, <1>12

\* What the job thread plans.
LEMMA PlanEffect ==
    ASSUME ImagesAssumption, ImagesInv,
           NEW a \in Call, a.kind = "ensure", a.project \in Projects
    PROVE  LET t == Planned(a)
           IN  /\ t \in Thread
               /\ t.at = "idle" => t = Idle
               /\ t.at \in {"idle", "bind", "start"}
               /\ t.at # "idle" => /\ t.call.kind = "ensure" /\ t.call.project = a.project
                                   /\ t.call.image = Target(a.project) /\ t.call.want = a.want
                                   /\ Target(a.project) \in Names
               /\ t.at = "bind" => /\ mem.image[Target(a.project)] # NoEntry
                                   /\ a.want \subseteq mem.image[Target(a.project)]
               /\ t.at = "start" => a.want \subseteq t.recipe
<1> DEFINE i == Target(a.project)
           t == Planned(a)
<1>1. ImagesTypeOK
  BY DEF ImagesInv
<1>2. i \in Names
  BY <1>1, TargetType
<1>3. /\ t \in Thread
      /\ t.at = "idle" => t = Idle
      /\ t.at \in {"idle", "bind", "start"}
      /\ t.at # "idle" => t.call = [a EXCEPT !.image = i]
      /\ t.at = "bind" => mem.image[i] # NoEntry /\ a.want \subseteq mem.image[i]
      /\ t.at = "start" => a.want \subseteq t.recipe
  BY <1>1, PlannedFacts
<1>4. LET b == [a EXCEPT !.image = i]
      IN  b.kind = "ensure" /\ b.project = a.project /\ b.image = i /\ b.want = a.want
  BY DEF Call
<1> HIDE DEF i, t
<1>5. t.at # "idle" => /\ t.call.kind = "ensure" /\ t.call.project = a.project
                       /\ t.call.image = i /\ t.call.want = a.want
  BY <1>3, <1>4
<1> QED BY <1>2, <1>3, <1>5 DEF i, t

\* A binding changes the binding of its project only, and only to the image
\* the project has or would have.
LEMMA BindFacts ==
    ASSUME ImagesAssumption, ImagesTypeOK, NEW t \in Thread, Binding(t), BindConfig(t),
           t.call.project \in Projects, t.call.image = Target(t.call.project)
    PROVE  /\ mem' \in Registry /\ disk' \in Registry
           /\ mem'.image = mem.image /\ disk'.image = disk.image
           /\ \A p \in Projects : Target(p)' = Target(p)
           /\ \A p \in Projects : mem.project[p] # NoEntry => mem'.project[p] = mem.project[p]
           /\ AfterBind(t) \in Thread
           /\ AfterBind(t).at = "idle" => AfterBind(t) = Idle
           /\ AfterBind(t).at \in {"idle", "bound", "told"}
           /\ AfterBind(t).at # "idle" => AfterBind(t).call = t.call
           /\ AfterBind(t).at = "told" => mem'.project[t.call.project] = t.call.image
<1> DEFINE p == t.call.project
           i == t.call.image
<1>1. p \in Projects /\ i \in Names
  BY TargetType
<1>2. mem \in Registry /\ disk \in Registry
  BY DEF ImagesTypeOK
<1>3. mem' = mem \/ mem' = [mem EXCEPT !.project[p] = i]
  BY DEF BindConfig
<1>4. disk' = disk \/ disk' = [disk EXCEPT !.project[p] = i]
  BY DEF BindConfig, Persist
<1>5. mem' \in Registry /\ mem'.image = mem.image
  BY <1>1, <1>2, <1>3 DEF Registry
<1>6. disk' \in Registry /\ disk'.image = disk.image
  BY <1>1, <1>2, <1>4 DEF Registry
<1>7. \A q \in Projects : mem'.project[q] = mem.project[q] \/ (q = p /\ mem'.project[q] = i)
  BY <1>1, <1>2, <1>3 DEF Registry
<1>8. \A q \in Projects : Target(q)' = Target(q)
  BY <1>1, <1>7 DEF Target, ImagesAssumption
<1>9. \A q \in Projects : mem.project[q] # NoEntry => mem'.project[q] = mem.project[q]
  BY <1>7 DEF Target
<1>10. /\ AfterBind(t) \in Thread
       /\ AfterBind(t).at = "idle" => AfterBind(t) = Idle
       /\ AfterBind(t).at \in {"idle", "bound", "told"}
       /\ AfterBind(t).at # "idle" => AfterBind(t).call = t.call
  <2>1. Idle \in Thread /\ Idle.at = "idle"
    BY DEF Idle, NoCall, Thread, Call
  <2>2. \A to \in {"bound", "told"} : /\ [t EXCEPT !.at = to] \in Thread
                                     /\ [t EXCEPT !.at = to].at = to
                                     /\ [t EXCEPT !.at = to].call = t.call
    BY DEF Thread
  <2> QED BY <2>1, <2>2 DEF AfterBind
<1>11. AfterBind(t).at = "told" => mem'.project[p] = i
  <2>1. CASE t.at = "told"
    BY <2>1 DEF AfterBind, Idle
  <2>2. CASE t.at = "bound"
    BY <2>2, <1>1, <1>2 DEF BindConfig, Registry
  <2>3. CASE t.at = "bind" /\ mem.project[p] = i
    BY <2>3, <1>7
  <2>4. CASE t.at = "bind" /\ mem.project[p] # i
    BY <2>4 DEF AfterBind, Thread
  <2> QED BY <2>1, <2>2, <2>3, <2>4 DEF Binding
<1> QED BY <1>5, <1>6, <1>8, <1>9, <1>10, <1>11

\* What a client thread that binds a project changes.
LEMMA ClientBindsEffect ==
    ASSUME ImagesAssumption, ImagesInv, NEW c \in Clients, ClientBinds(c)
    PROVE  /\ mem' \in Registry /\ disk' \in Registry
           /\ mem'.image = mem.image /\ disk'.image = disk.image
           /\ \A p \in Projects : Target(p)' = Target(p)
           /\ \A p \in Projects : mem.project[p] # NoEntry => mem'.project[p] = mem.project[p]
           /\ client' \in [Clients -> Thread]
           /\ \A d \in Clients \ {c} : client'[d] = client[d]
           /\ client[c].at \in {"bind", "bound", "told"} /\ client'[c].at \in {"idle", "bound", "told"}
           /\ client'[c].at # "idle" => client'[c].call = client[c].call
           /\ client'[c].at = "told" =>
                 mem'.project[client'[c].call.project] = client'[c].call.image
           /\ UNCHANGED <<file, tracker, jobs, job>>
<1>1. ImagesAssumption /\ ImagesTypeOK /\ client \in [Clients -> Thread]
  BY DEF ImagesAssumption, ImagesInv, ImagesTypeOK
<1>2. /\ Binding(client[c]) /\ client[c].call.project \in Projects
      /\ client[c].call.image = Target(client[c].call.project)
  BY DEF ImagesInv, BindsWhatItPlanned, ClientBinds
<1>3. BindConfig(client[c]) /\ client' = [client EXCEPT ![c] = AfterBind(client[c])]
      /\ UNCHANGED <<file, tracker, jobs, job>>
  BY DEF ClientBinds
<1>4. client[c] \in Thread
  BY <1>1
<1>5. client[c].at \in {"bind", "bound", "told"}
  BY <1>2 DEF Binding
<1> HIDE DEF ImagesInv, ImagesAssumption
<1>6. /\ client'[c] = AfterBind(client[c])
      /\ \A d \in Clients \ {c} : client'[d] = client[d]
  BY <1>1, <1>3
<1>7. /\ mem' \in Registry /\ disk' \in Registry
      /\ mem'.image = mem.image /\ disk'.image = disk.image
      /\ \A p \in Projects : Target(p)' = Target(p)
      /\ \A p \in Projects : mem.project[p] # NoEntry => mem'.project[p] = mem.project[p]
      /\ AfterBind(client[c]) \in Thread
      /\ AfterBind(client[c]).at \in {"idle", "bound", "told"}
      /\ AfterBind(client[c]).at # "idle" => AfterBind(client[c]).call = client[c].call
      /\ AfterBind(client[c]).at = "told" =>
            mem'.project[client[c].call.project] = client[c].call.image
  BY <1>1, <1>2, <1>3, <1>4, BindFacts
<1> QED BY <1>1, <1>3, <1>5, <1>6, <1>7

\* What the job thread that binds a project changes.
LEMMA JobBindsEffect ==
    ASSUME ImagesAssumption, ImagesInv, JobBinds
    PROVE  /\ mem' \in Registry /\ disk' \in Registry
           /\ mem'.image = mem.image /\ disk'.image = disk.image
           /\ \A p \in Projects : Target(p)' = Target(p)
           /\ \A p \in Projects : mem.project[p] # NoEntry => mem'.project[p] = mem.project[p]
           /\ job' \in Thread
           /\ job.at \in {"bind", "bound", "told"} /\ job'.at \in {"idle", "bound", "told"}
           /\ job'.at # "idle" => job'.call = job.call
           /\ job'.at = "told" => mem'.project[job'.call.project] = job'.call.image
           /\ UNCHANGED <<file, tracker, jobs, client>>
<1>1. ImagesAssumption /\ ImagesTypeOK /\ job \in Thread
  BY DEF ImagesAssumption, ImagesInv, ImagesTypeOK
<1>2. /\ Binding(job) /\ job.call.project \in Projects
      /\ job.call.image = Target(job.call.project)
  BY DEF ImagesInv, BindsWhatItPlanned, JobBinds
<1>3. BindConfig(job) /\ job' = AfterBind(job) /\ UNCHANGED <<file, tracker, jobs, client>>
  BY DEF JobBinds
<1>4. job.at \in {"bind", "bound", "told"}
  BY <1>2 DEF Binding
<1>5. /\ mem' \in Registry /\ disk' \in Registry
      /\ mem'.image = mem.image /\ disk'.image = disk.image
      /\ \A p \in Projects : Target(p)' = Target(p)
      /\ \A p \in Projects : mem.project[p] # NoEntry => mem'.project[p] = mem.project[p]
      /\ AfterBind(job) \in Thread
      /\ AfterBind(job).at \in {"idle", "bound", "told"}
      /\ AfterBind(job).at # "idle" => AfterBind(job).call = job.call
      /\ AfterBind(job).at = "told" => mem'.project[job.call.project] = job.call.image
  BY <1>1, <1>2, <1>3, BindFacts
<1> QED BY <1>3, <1>4, <1>5

\* An ensure answers, binds or queues a job.
EnsureDoes(c, p) ==
    /\ client[c].at = "idle"
    /\ UNCHANGED <<config, file, tracker, job, live>>
    /\ client' \in [Clients -> Thread]
    /\ \A d \in Clients \ {c} : client'[d] = client[d]
    /\ client'[c].at \in {"idle", "bind"}
    /\ client'[c].at = "bind" =>
          /\ jobs' = jobs
          /\ client'[c].call.kind = "ensure" /\ client'[c].call.project = p
          /\ client'[c].call.image = Target(p) /\ Target(p) \in Names
          /\ mem.image[Target(p)] # NoEntry
          /\ client'[c].call.want \subseteq mem.image[Target(p)]
    /\ \/ jobs' = jobs
       \/ \E a \in Call : /\ jobs' = Append(jobs, a)
                          /\ a.kind = "ensure" /\ a.project = p /\ a.image = NoEntry

\* What an ensure call does, whichever of its answers it gets.
LEMMA EnsureEffect ==
    ASSUME ImagesAssumption, ImagesInv, NEW c \in Clients, NEW p \in Projects,
           NEW want \in SUBSET Packages, NEW approved \in BOOLEAN,
           Ensure(c, p, want, approved)
    PROVE  EnsureDoes(c, p)
<1> DEFINE a == [NoCall EXCEPT !.kind = "ensure", !.project = p, !.want = want,
                               !.approved = approved]
<1>1. a \in Call /\ a.kind = "ensure" /\ a.project = p /\ a.image = NoEntry
  BY DEF NoCall, Call
<1>2. /\ client[c].at = "idle"
      /\ UNCHANGED <<config, file, tracker, job, live>>
      /\ IF Planned(a).at = "start"
         THEN jobs' = Append(jobs, a) /\ UNCHANGED client
         ELSE client' = [client EXCEPT ![c] = Planned(a)] /\ UNCHANGED jobs
  BY DEF Ensure, Called
<1>3. client \in [Clients -> Thread] /\ ImagesTypeOK
  BY DEF ImagesInv, ImagesTypeOK
<1> HIDE DEF a
<1>4. /\ Planned(a) \in Thread
      /\ Planned(a).at \in {"idle", "bind", "start"}
      /\ Planned(a).at # "idle" => Planned(a).call = [a EXCEPT !.image = Target(p)]
      /\ Planned(a).at = "bind" => /\ mem.image[Target(p)] # NoEntry
                                   /\ a.want \subseteq mem.image[Target(p)]
  BY <1>1, <1>3, PlannedFacts
<1>5. LET b == [a EXCEPT !.image = Target(p)]
      IN  b.kind = "ensure" /\ b.project = p /\ b.image = Target(p) /\ b.want = a.want
  BY <1>1 DEF Call
<1>6. Target(p) \in Names
  BY <1>3, TargetType
<1>7. CASE Planned(a).at = "start"
  BY <1>1, <1>2, <1>3, <1>7 DEF EnsureDoes
<1>8. CASE Planned(a).at # "start"
  <2>1. client'[c] = Planned(a) /\ \A d \in Clients \ {c} : client'[d] = client[d]
    BY <1>2, <1>3, <1>8
  <2>2. client' \in [Clients -> Thread] /\ jobs' = jobs
    BY <1>2, <1>3, <1>4, <1>8
  <2>3. /\ client[c].at = "idle" /\ client'[c].at \in {"idle", "bind"}
        /\ UNCHANGED <<config, file, tracker, job, live>>
    BY <1>2, <1>4, <1>8, <2>1
  <2>4. client'[c].at = "bind" =>
           /\ client'[c].call.kind = "ensure" /\ client'[c].call.project = p
           /\ client'[c].call.image = Target(p)
           /\ mem.image[Target(p)] # NoEntry
           /\ client'[c].call.want \subseteq mem.image[Target(p)]
    BY <1>4, <1>5, <2>1
  <2> QED BY <1>6, <2>1, <2>2, <2>3, <2>4 DEF EnsureDoes
<1> QED BY <1>7, <1>8

\* A removal goes on when there was an entry to drop from the file.
LEMMA UnregisterEffect ==
    ASSUME ImagesInv, NEW c \in Clients, Unregister(c)
    PROVE  /\ UNCHANGED <<mem, file, tracker, jobs, job, live>>
           /\ \A i \in Names : disk'.image[i] \in {disk.image[i], NoEntry}
           /\ \A d \in Clients \ {c} : client'[d] = client[d]
           /\ client[c].at = "unregister" /\ client'[c].at \in {"idle", "unlink"}
           /\ client'[c].at = "unlink" => client'[c].call = client[c].call
<1> DEFINE i == client[c].call.image
<1>1. /\ client[c].at = "unregister" /\ UNCHANGED <<mem, file, tracker, jobs, job, live>>
      /\ IF disk.image[i] = NoEntry
         THEN client' = [client EXCEPT ![c] = Idle] /\ disk' = disk
         ELSE /\ disk' \in {disk, [disk EXCEPT !.image[i] = NoEntry]}
              /\ client' = [client EXCEPT ![c].at = "unlink"]
  BY DEF Unregister, Persist
<1>2. client \in [Clients -> Thread] /\ client[c] \in Thread /\ disk \in Registry
  BY DEF ImagesInv, ImagesTypeOK
<1>3. i \in Names
  BY <1>1 DEF ImagesInv, ClientIsOn
<1>4. \A d \in Clients \ {c} : client'[d] = client[d]
  BY <1>1, <1>2
<1>5. CASE disk.image[i] = NoEntry
  BY <1>1, <1>2, <1>4, <1>5 DEF Idle
<1>6. CASE disk.image[i] # NoEntry
  <2>1. client'[c].at = "unlink" /\ client'[c].call = client[c].call
    BY <1>1, <1>2, <1>6 DEF Thread
  <2>2. \A j \in Names : disk'.image[j] \in {disk.image[j], NoEntry}
    BY <1>1, <1>2, <1>3, <1>6 DEF Registry
  <2> QED BY <1>1, <1>4, <2>1, <2>2
<1> QED BY <1>5, <1>6

States == {"none", "pending", "running", "done", "error"}

\* The tracker appends the name of a new build, and may drop older records.
LEMMA TrackEffect ==
    ASSUME ImagesAssumption, ImagesInv, NEW i \in Names, Track(i)
    PROVE  /\ records' \in [Names -> States] /\ listed' \in Seq(Names) /\ TrackedIsListed'
           /\ \A j \in Names \ {i} : records'[j] \in {records[j], "none"}
           /\ (\A k \in DOMAIN listed : listed[k] # i) => records'[i] = "pending"
<1> DEFINE r == [records EXCEPT ![i] = "pending"]
           o == Append(listed, i)
<1>1. records \in [Names -> States] /\ listed \in Seq(Names) /\ TrackedIsListed
  BY DEF ImagesInv, ImagesTypeOK, States
<1>2. r \in [Names -> States] /\ o \in Seq(Names) /\ o # <<>>
  BY <1>1, AppendProperties DEF States
<1>3. /\ Len(o) = Len(listed) + 1 /\ Len(listed) \in Nat
      /\ o[Len(o)] = i /\ \A k \in 1..Len(listed) : o[k] = listed[k]
      /\ DOMAIN o = 1..Len(o) /\ DOMAIN listed = 1..Len(listed)
  BY <1>1
<1>4. ListedIn(r, o)
  <2> SUFFICES ASSUME NEW j \in Names, r[j] # "none" PROVE \E k \in DOMAIN o : o[k] = j
    BY DEF Tracked, ListedIn
  <2>1. CASE j = i
    BY <1>3, <2>1
  <2>2. CASE j # i
    <3>1. records[j] # "none"
      BY <1>1, <2>2
    <3>2. PICK k \in DOMAIN listed : listed[k] = j
      BY <1>1, <3>1 DEF TrackedIsListed, ListedIn, Tracked
    <3> QED BY <1>3, <3>2
  <2> QED BY <2>1, <2>2
<1>5. records' = Pruned(r, o).records /\ listed' = Pruned(r, o).order
  BY DEF Track
<1>6. "none" \in States
  BY DEF States
<1> HIDE DEF r, o
<1>7. /\ Pruned(r, o).records \in [Names -> States]
      /\ Pruned(r, o).order \in Seq(Names)
      /\ ListedIn(Pruned(r, o).records, Pruned(r, o).order)
      /\ \A j \in Names : Pruned(r, o).records[j] \in {r[j], "none"}
      /\ (\A k \in 1..(Len(o) - 1) : o[k] # o[Len(o)]) =>
             Pruned(r, o).records[o[Len(o)]] = r[o[Len(o)]]
  BY <1>2, <1>4, <1>6, PrunedFacts
<1>8. ListedIn(records', listed')
  BY <1>5, <1>7
<1>9. TrackedIsListed'
  BY <1>8 DEF TrackedIsListed, ListedIn, Tracked
<1>10. records' \in [Names -> States] /\ listed' \in Seq(Names)
  BY <1>5, <1>7
<1>11. \A j \in Names \ {i} : records'[j] \in {records[j], "none"}
  BY <1>1, <1>5, <1>7 DEF r
<1>12. ASSUME \A k \in DOMAIN listed : listed[k] # i PROVE records'[i] = "pending"
  <2>1. \A k \in 1..(Len(o) - 1) : o[k] # o[Len(o)]
    BY <1>3, <1>12
  <2> QED BY <1>1, <1>3, <1>5, <1>7, <2>1 DEF r
<1> QED BY <1>9, <1>10, <1>11, <1>12

\* A report changes a record that is there, and no other.
LEMMA ReportEffect ==
    ASSUME ImagesInv, NEW i \in Names, NEW s \in States \ {"none"}, ReportBuild(i, s)
    PROVE  records' \in [Names -> States] /\ listed' \in Seq(Names) /\ TrackedIsListed'
<1>1. records \in [Names -> States] /\ listed \in Seq(Names) /\ TrackedIsListed
  BY DEF ImagesInv, ImagesTypeOK, States
<1>2. records' = [records EXCEPT ![i] = IF @ = "none" THEN @ ELSE s] /\ listed' = listed
  BY DEF ReportBuild
<1>3. records' \in [Names -> States]
  BY <1>1, <1>2
<1>4. Tracked(records') = Tracked(records)
  BY <1>1, <1>2 DEF Tracked
<1> QED BY <1>1, <1>2, <1>3, <1>4 DEF TrackedIsListed, ListedIn

\* The job thread stays on the image it planned.
LEMMA ImagesJob ==
    ASSUME ImagesAssumption, ImagesInv, [ImagesStep]_imagesVars
    PROVE  (JobIsOn /\ BindsWhatItPlanned(job))'
<1> USE DEF ImagesAssumption, ImagesInv, ImagesTypeOK, JobIsOn,
            BindsWhatItPlanned, Binding, Target, Registry, BuildStages, Leaving,
            Thread, config, tracker
<1>1. ASSUME NEW c \in Clients, NEW i \in Names, NEW want \in SUBSET Packages,
           NEW approved \in BOOLEAN, Build(c, i, want, approved)
      PROVE  (JobIsOn /\ BindsWhatItPlanned(job))'
  BY <1>1 DEF Build, Idle, NoCall, Called
<1>2. ASSUME NEW c \in Clients, NEW i \in Names, RemoveImage(c, i)
      PROVE  (JobIsOn /\ BindsWhatItPlanned(job))'
  BY <1>2 DEF RemoveImage, Idle, NoCall, Called
<1>3. ASSUME NEW c \in Clients, Unregister(c)
      PROVE  (JobIsOn /\ BindsWhatItPlanned(job))'
  BY <1>3 DEF Unregister, Idle, NoCall
<1>4. ASSUME NEW c \in Clients, Unlink(c)
      PROVE  (JobIsOn /\ BindsWhatItPlanned(job))'
  BY <1>4 DEF Unlink
<1>5. ASSUME NEW c \in Clients, Pop(c)
      PROVE  (JobIsOn /\ BindsWhatItPlanned(job))'
  BY <1>5 DEF Pop, Idle, NoCall
<1>6. ASSUME NEW c \in Clients, ClientBinds(c)
      PROVE  (JobIsOn /\ BindsWhatItPlanned(job))'
  BY <1>6, ClientBindsEffect
<1>7. CASE TakeJob
  BY <1>7 DEF TakeJob, Idle, NoCall, JobsAreCalls, Call
<1>8. CASE InstallPackages
  BY <1>8 DEF InstallPackages
<1>9. CASE BuildFails
  BY <1>9 DEF BuildFails, Torn, Idle, NoCall
<1>10. CASE Convert
  BY <1>10 DEF Convert
<1>11. CASE RegisterImage
  BY <1>11 DEF RegisterImage
<1>12. CASE ApplyImage
  BY <1>12 DEF ApplyImage, Idle, NoCall, Call
<1>13. CASE JobBinds
  BY <1>13, JobBindsEffect
<1>14. ASSUME NEW i \in Names, SeatMade(i)
      PROVE  (JobIsOn /\ BindsWhatItPlanned(job))'
  BY <1>14 DEF SeatMade
<1>15. ASSUME NEW i \in Names, SeatGone(i)
      PROVE  (JobIsOn /\ BindsWhatItPlanned(job))'
  BY <1>15 DEF SeatGone
<1>16. CASE ImagesRestart
  BY <1>16 DEF ImagesRestart, Torn, Idle, NoCall
<1>17. CASE UNCHANGED imagesVars
  BY <1>17 DEF imagesVars
<1> HIDE DEF ImagesAssumption, ImagesInv, ImagesTypeOK, JobIsOn,
             BindsWhatItPlanned, Binding, Target, Registry, BuildStages, Leaving,
             Thread, config, tracker
<1>18. ASSUME NEW c \in Clients, NEW p \in Projects, NEW want \in SUBSET Packages,
           NEW approved \in BOOLEAN, Ensure(c, p, want, approved)
      PROVE  (JobIsOn /\ BindsWhatItPlanned(job))'
  <2>0. EnsureDoes(c, p)
    BY <1>18, EnsureEffect
  <2>1. UNCHANGED <<mem, file, job>>
    BY <2>0 DEF EnsureDoes, config
  <2> QED BY <2>1 DEF ImagesInv, JobIsOn, BindsWhatItPlanned, Binding, Target
<1>19. CASE PlanAgain
  <2>1. job.call \in Call /\ job.call.kind = "ensure" /\ job.call.project \in Projects
    BY <1>19 DEF PlanAgain, ImagesInv, ImagesTypeOK, Thread, JobIsOn
  <2>2. UNCHANGED <<mem, file>> /\ job' = Planned(job.call)
    BY <1>19 DEF PlanAgain, config
  <2> QED BY <2>1, <2>2, PlanEffect DEF JobIsOn, BindsWhatItPlanned,
       Binding, Target, Idle, NoCall, BuildStages
<1>20. CASE StartBuild
  <2> DEFINE i == job.call.image
  <2>1. job.at = "start" /\ i \in Names /\ job \in Thread
    BY <1>20 DEF StartBuild, ImagesInv, ImagesTypeOK, JobIsOn
  <2>3. /\ UNCHANGED <<mem, file>>
        /\ job' = [job EXCEPT !.at = "boot", !.recorded = Recorded(i) \cup job.recipe]
    BY <1>20 DEF StartBuild, config
  <2>4. job'.at = "boot" /\ job'.call = job.call /\ job'.recipe = job.recipe
    BY <2>1, <2>3 DEF Thread
  <2>5. /\ job.call \in Call /\ job.call.kind # "remove"
        /\ job.call.want \subseteq job.recipe
        /\ job.call.kind = "ensure" => /\ job.call.project \in Projects
                                      /\ job.call.image = Target(job.call.project)
    BY <2>1 DEF ImagesInv, JobIsOn, BuildStages, Thread
  <2> QED BY <2>1, <2>3, <2>4, <2>5 DEF JobIsOn, BindsWhatItPlanned, Binding, Target, BuildStages
<1> QED BY <1>1, <1>2, <1>3, <1>4, <1>5, <1>6, <1>7, <1>8, <1>9, <1>10, <1>11, <1>12,
           <1>13, <1>14, <1>15, <1>16, <1>17, <1>18, <1>19, <1>20 DEF ImagesStep,
           JobStep

\* What is queued are calls.
LEMMA ImagesCalls ==
    ASSUME ImagesAssumption, ImagesInv, [ImagesStep]_imagesVars
    PROVE  JobsAreCalls'
<1> USE DEF ImagesAssumption, ImagesInv, ImagesTypeOK, JobsAreCalls,
            Call, BuildStages, Leaving, Thread, config, tracker
<1>1. ASSUME NEW c \in Clients, NEW i \in Names, NEW want \in SUBSET Packages,
           NEW approved \in BOOLEAN, Build(c, i, want, approved)
      PROVE  JobsAreCalls'
  BY <1>1 DEF Build, Idle, NoCall, Called
<1>2. ASSUME NEW c \in Clients, NEW i \in Names, RemoveImage(c, i)
      PROVE  JobsAreCalls'
  BY <1>2 DEF RemoveImage, Idle, NoCall, Called
<1>3. ASSUME NEW c \in Clients, Unregister(c)
      PROVE  JobsAreCalls'
  BY <1>3 DEF Unregister, Idle, NoCall
<1>4. ASSUME NEW c \in Clients, Unlink(c)
      PROVE  JobsAreCalls'
  BY <1>4 DEF Unlink
<1>5. ASSUME NEW c \in Clients, Pop(c)
      PROVE  JobsAreCalls'
  BY <1>5 DEF Pop, Idle, NoCall
<1>6. ASSUME NEW c \in Clients, ClientBinds(c)
      PROVE  JobsAreCalls'
  BY <1>6, ClientBindsEffect
<1>7. CASE TakeJob
  BY <1>7 DEF TakeJob, Idle, NoCall
<1>8. CASE PlanAgain
  BY <1>8 DEF PlanAgain
<1>9. CASE StartBuild
  BY <1>9 DEF StartBuild
<1>10. CASE InstallPackages
  BY <1>10 DEF InstallPackages
<1>11. CASE BuildFails
  BY <1>11 DEF BuildFails, Torn, Idle, NoCall
<1>12. CASE Convert
  BY <1>12 DEF Convert
<1>13. CASE RegisterImage
  BY <1>13 DEF RegisterImage, Persist
<1>14. CASE ApplyImage
  BY <1>14 DEF ApplyImage, Idle, NoCall
<1>15. CASE JobBinds
  BY <1>15, JobBindsEffect
<1>16. ASSUME NEW i \in Names, SeatMade(i)
      PROVE  JobsAreCalls'
  BY <1>16 DEF SeatMade
<1>17. ASSUME NEW i \in Names, SeatGone(i)
      PROVE  JobsAreCalls'
  BY <1>17 DEF SeatGone
<1>18. CASE ImagesRestart
  BY <1>18 DEF ImagesRestart, Torn, Idle, NoCall
<1>19. CASE UNCHANGED imagesVars
  BY <1>19 DEF imagesVars
<1> HIDE DEF ImagesAssumption, ImagesInv, ImagesTypeOK, JobsAreCalls,
             Call, BuildStages, Leaving, Thread, config, tracker
<1>20. ASSUME NEW c \in Clients, NEW p \in Projects, NEW want \in SUBSET Packages,
           NEW approved \in BOOLEAN, Ensure(c, p, want, approved)
      PROVE  JobsAreCalls'
  <2>0. EnsureDoes(c, p)
    BY <1>20, EnsureEffect
  <2>1. \/ jobs' = jobs
        \/ \E a \in Call : /\ jobs' = Append(jobs, a)
                           /\ a.kind = "ensure" /\ a.project = p /\ a.image = NoEntry
    BY <2>0 DEF EnsureDoes
  <2>2. jobs \in Seq(Call)
    BY DEF ImagesInv, ImagesTypeOK
  <2>3. ASSUME NEW a \in Call, jobs' = Append(jobs, a), a.kind = "ensure",
               a.project = p, a.image = NoEntry
        PROVE  JobsAreCalls'
    <3>1. \A k \in DOMAIN jobs' : (k \in DOMAIN jobs /\ jobs'[k] = jobs[k]) \/ jobs'[k] = a
      BY <2>2, <2>3
    <3> QED BY <2>3, <3>1 DEF ImagesInv, JobsAreCalls
  <2> QED BY <2>1, <2>3 DEF ImagesInv, JobsAreCalls
<1> QED BY <1>1, <1>2, <1>3, <1>4, <1>5, <1>6, <1>7, <1>8, <1>9, <1>10, <1>11, <1>12,
           <1>13, <1>14, <1>15, <1>16, <1>17, <1>18, <1>19, <1>20 DEF ImagesStep,
           JobStep

\* The connection threads stay on the image they planned.
LEMMA ImagesClient ==
    ASSUME ImagesAssumption, ImagesInv, [ImagesStep]_imagesVars
    PROVE  (\A d \in Clients : ClientIsOn(d) /\ BindsWhatItPlanned(client[d]))'
<1> USE DEF ImagesAssumption, ImagesInv, ImagesTypeOK, ClientIsOn,
            BindsWhatItPlanned, Binding, Target, Registry, BuildStages, Leaving,
            Thread, config, tracker
<1>1. ASSUME NEW c \in Clients, NEW i \in Names, NEW want \in SUBSET Packages,
           NEW approved \in BOOLEAN, Build(c, i, want, approved)
      PROVE  (\A d \in Clients : ClientIsOn(d) /\ BindsWhatItPlanned(client[d]))'
  BY <1>1 DEF Build, Idle, NoCall, Called
<1>2. ASSUME NEW c \in Clients, NEW i \in Names, RemoveImage(c, i)
      PROVE  (\A d \in Clients : ClientIsOn(d) /\ BindsWhatItPlanned(client[d]))'
  BY <1>2 DEF RemoveImage, Idle, NoCall, Called
<1>3. ASSUME NEW c \in Clients, Unlink(c)
      PROVE  (\A d \in Clients : ClientIsOn(d) /\ BindsWhatItPlanned(client[d]))'
  BY <1>3 DEF Unlink
<1>4. ASSUME NEW c \in Clients, Pop(c)
      PROVE  (\A d \in Clients : ClientIsOn(d) /\ BindsWhatItPlanned(client[d]))'
  BY <1>4 DEF Pop, Idle, NoCall
<1>5. CASE TakeJob
  BY <1>5 DEF TakeJob, Idle, NoCall
<1>6. CASE PlanAgain
  BY <1>6 DEF PlanAgain
<1>7. CASE StartBuild
  BY <1>7 DEF StartBuild
<1>8. CASE InstallPackages
  BY <1>8 DEF InstallPackages
<1>9. CASE BuildFails
  BY <1>9 DEF BuildFails, Torn, Idle, NoCall
<1>10. CASE Convert
  BY <1>10 DEF Convert
<1>11. CASE RegisterImage
  BY <1>11 DEF RegisterImage
<1>12. CASE ApplyImage
  BY <1>12 DEF ApplyImage, Idle, NoCall
<1>13. CASE JobBinds
  BY <1>13, JobBindsEffect
<1>14. ASSUME NEW i \in Names, SeatMade(i)
      PROVE  (\A d \in Clients : ClientIsOn(d) /\ BindsWhatItPlanned(client[d]))'
  BY <1>14 DEF SeatMade
<1>15. ASSUME NEW i \in Names, SeatGone(i)
      PROVE  (\A d \in Clients : ClientIsOn(d) /\ BindsWhatItPlanned(client[d]))'
  BY <1>15 DEF SeatGone
<1>16. CASE ImagesRestart
  BY <1>16 DEF ImagesRestart, Torn, Idle, NoCall
<1>17. CASE UNCHANGED imagesVars
  BY <1>17 DEF imagesVars
<1> HIDE DEF ImagesAssumption, ImagesInv, ImagesTypeOK, ClientIsOn,
             BindsWhatItPlanned, Binding, Target, Registry, BuildStages, Leaving,
             Thread, config, tracker
<1>18. ASSUME NEW c \in Clients, NEW p \in Projects, NEW want \in SUBSET Packages,
           NEW approved \in BOOLEAN, Ensure(c, p, want, approved)
      PROVE  (\A d \in Clients : ClientIsOn(d) /\ BindsWhatItPlanned(client[d]))'
  <2>0. EnsureDoes(c, p)
    BY <1>18, EnsureEffect
  <2>1. UNCHANGED <<mem, file>>
    BY <2>0 DEF EnsureDoes, config
  <2>2. \A d \in Clients \ {c} : client'[d] = client[d]
    BY <2>0 DEF EnsureDoes
  <2>3. client'[c].at \in {"idle", "bind"}
    BY <2>0 DEF EnsureDoes
  <2>4. client'[c].at = "bind" =>
           /\ client'[c].call.kind = "ensure" /\ client'[c].call.project = p
           /\ client'[c].call.image = Target(p) /\ Target(p) \in Names
    BY <2>0 DEF EnsureDoes
  <2> SUFFICES ASSUME NEW d \in Clients PROVE (ClientIsOn(d) /\ BindsWhatItPlanned(client[d]))'
    OBVIOUS
  <2>5. CASE d = c
    BY <2>1, <2>3, <2>4, <2>5 DEF ClientIsOn, BindsWhatItPlanned, Binding, Target, Leaving
  <2>6. CASE d # c
    <3>1. ClientIsOn(d) /\ BindsWhatItPlanned(client[d])
      BY DEF ImagesInv
    <3> QED BY <2>1, <2>2, <2>6, <3>1 DEF ClientIsOn, BindsWhatItPlanned, Binding, Target
  <2> QED BY <2>5, <2>6
<1>19. ASSUME NEW c \in Clients, Unregister(c)
      PROVE  (\A d \in Clients : ClientIsOn(d) /\ BindsWhatItPlanned(client[d]))'
  <2>1. /\ UNCHANGED <<mem, file>>
        /\ \A d \in Clients \ {c} : client'[d] = client[d]
        /\ client[c].at = "unregister" /\ client'[c].at \in {"idle", "unlink"}
        /\ client'[c].at = "unlink" => client'[c].call = client[c].call
    BY <1>19, UnregisterEffect
  <2> SUFFICES ASSUME NEW d \in Clients PROVE (ClientIsOn(d) /\ BindsWhatItPlanned(client[d]))'
    OBVIOUS
  <2>2. ClientIsOn(d) /\ BindsWhatItPlanned(client[d])
    BY DEF ImagesInv
  <2>3. CASE d = c
    BY <2>1, <2>2, <2>3 DEF ClientIsOn, BindsWhatItPlanned, Binding, Leaving
  <2>4. CASE d # c
    BY <2>1, <2>2, <2>4 DEF ClientIsOn, BindsWhatItPlanned, Binding, Target
  <2> QED BY <2>3, <2>4
<1>20. ASSUME NEW c \in Clients, ClientBinds(c)
      PROVE  (\A d \in Clients : ClientIsOn(d) /\ BindsWhatItPlanned(client[d]))'
  <2>1. UNCHANGED file /\ \A q \in Projects : Target(q)' = Target(q)
    BY <1>20, ClientBindsEffect
  <2>2. \A q \in Projects : mem.project[q] # NoEntry => mem'.project[q] = mem.project[q]
    BY <1>20, ClientBindsEffect
  <2>3. \A d \in Clients \ {c} : client'[d] = client[d]
    BY <1>20, ClientBindsEffect
  <2>4. /\ client[c].at \in {"bind", "bound", "told"} /\ client'[c].at \in {"idle", "bound", "told"}
        /\ client'[c].at # "idle" => client'[c].call = client[c].call
        /\ client'[c].at = "told" => mem'.project[client'[c].call.project] = client'[c].call.image
    BY <1>20, ClientBindsEffect
  <2> SUFFICES ASSUME NEW d \in Clients PROVE (ClientIsOn(d) /\ BindsWhatItPlanned(client[d]))'
    OBVIOUS
  <2>5. ClientIsOn(d) /\ BindsWhatItPlanned(client[d])
    BY DEF ImagesInv
  <2>6. CASE d = c
    BY <2>1, <2>4, <2>5, <2>6 DEF ClientIsOn, BindsWhatItPlanned, Binding, Target, Leaving
  <2>7. CASE d # c
    BY <2>1, <2>2, <2>3, <2>5, <2>7
       DEF ClientIsOn, BindsWhatItPlanned, Binding, Target, ImagesAssumption
  <2> QED BY <2>6, <2>7
<1> QED BY <1>1, <1>2, <1>3, <1>4, <1>5, <1>6, <1>7, <1>8, <1>9, <1>10, <1>11, <1>12,
           <1>13, <1>14, <1>15, <1>16, <1>17, <1>18, <1>19, <1>20 DEF ImagesStep,
           JobStep

\* The registries keep their types.
LEMMA ImagesConfig ==
    ASSUME ImagesAssumption, ImagesInv, [ImagesStep]_imagesVars
    PROVE  (disk \in Registry /\ mem \in Registry)'
<1> USE DEF ImagesAssumption, ImagesInv, ImagesTypeOK, Registry,
            JobIsOn, Call, BuildStages, Leaving, Thread, config, tracker
<1>1. ASSUME NEW c \in Clients, NEW i \in Names, NEW want \in SUBSET Packages,
           NEW approved \in BOOLEAN, Build(c, i, want, approved)
      PROVE  (disk \in Registry /\ mem \in Registry)'
  BY <1>1 DEF Build, Idle, NoCall, Called
<1>2. ASSUME NEW c \in Clients, NEW i \in Names, RemoveImage(c, i)
      PROVE  (disk \in Registry /\ mem \in Registry)'
  BY <1>2 DEF RemoveImage, Idle, NoCall, Called
<1>3. ASSUME NEW c \in Clients, Unlink(c)
      PROVE  (disk \in Registry /\ mem \in Registry)'
  BY <1>3 DEF Unlink
<1>4. ASSUME NEW c \in Clients, Pop(c)
      PROVE  (disk \in Registry /\ mem \in Registry)'
  BY <1>4 DEF Pop, Idle, NoCall
<1>5. ASSUME NEW c \in Clients, ClientBinds(c)
      PROVE  (disk \in Registry /\ mem \in Registry)'
  BY <1>5, ClientBindsEffect
<1>6. CASE TakeJob
  BY <1>6 DEF TakeJob, Idle, NoCall
<1>7. CASE PlanAgain
  BY <1>7 DEF PlanAgain
<1>8. CASE StartBuild
  BY <1>8 DEF StartBuild
<1>9. CASE InstallPackages
  BY <1>9 DEF InstallPackages
<1>10. CASE BuildFails
  BY <1>10 DEF BuildFails, Torn, Idle, NoCall
<1>11. CASE Convert
  BY <1>11 DEF Convert
<1>12. CASE RegisterImage
  <2>1. job.call.image \in Names /\ job.recorded \in SUBSET Packages
    BY <1>12 DEF RegisterImage
  <2>2. [disk EXCEPT !.image[job.call.image] = job.recorded] \in Registry
    BY <2>1
  <2>3. mem' = mem /\ disk' \in {disk, [disk EXCEPT !.image[job.call.image] = job.recorded]}
    BY <1>12 DEF RegisterImage, Persist
  <2> QED BY <2>2, <2>3
<1>13. CASE ApplyImage
  BY <1>13 DEF ApplyImage, Idle, NoCall
<1>14. CASE JobBinds
  BY <1>14, JobBindsEffect
<1>15. ASSUME NEW i \in Names, SeatMade(i)
      PROVE  (disk \in Registry /\ mem \in Registry)'
  BY <1>15 DEF SeatMade
<1>16. ASSUME NEW i \in Names, SeatGone(i)
      PROVE  (disk \in Registry /\ mem \in Registry)'
  BY <1>16 DEF SeatGone
<1>17. CASE ImagesRestart
  BY <1>17 DEF ImagesRestart, Torn, Idle, NoCall
<1>18. CASE UNCHANGED imagesVars
  BY <1>18 DEF imagesVars
<1> HIDE DEF ImagesAssumption, ImagesInv, ImagesTypeOK, Registry,
             JobIsOn, Call, BuildStages, Leaving, Thread, config, tracker
<1>19. ASSUME NEW c \in Clients, NEW p \in Projects, NEW want \in SUBSET Packages,
           NEW approved \in BOOLEAN, Ensure(c, p, want, approved)
      PROVE  (disk \in Registry /\ mem \in Registry)'
  <2>0. EnsureDoes(c, p)
    BY <1>19, EnsureEffect
  <2>1. UNCHANGED <<disk, mem>>
    BY <2>0 DEF EnsureDoes, config
  <2> QED BY <2>1 DEF ImagesInv, ImagesTypeOK
<1>20. ASSUME NEW c \in Clients, Unregister(c)
      PROVE  (disk \in Registry /\ mem \in Registry)'
  <2> DEFINE i == client[c].call.image
  <2>1. disk \in Registry /\ mem \in Registry /\ i \in Names
    BY <1>20 DEF Unregister, ImagesInv, ImagesTypeOK, ClientIsOn
  <2>2. mem' = mem /\ (disk' = disk \/ disk' = [disk EXCEPT !.image[i] = NoEntry])
    BY <1>20 DEF Unregister, Persist
  <2>3. [disk EXCEPT !.image[i] = NoEntry] \in Registry
    BY <2>1 DEF Registry
  <2> QED BY <2>1, <2>2, <2>3
<1> QED BY <1>1, <1>2, <1>3, <1>4, <1>5, <1>6, <1>7, <1>8, <1>9, <1>10, <1>11, <1>12,
           <1>13, <1>14, <1>15, <1>16, <1>17, <1>18, <1>19, <1>20 DEF ImagesStep,
           JobStep

\* The image files keep theirs.
LEMMA ImagesFile ==
    ASSUME ImagesAssumption, ImagesInv, [ImagesStep]_imagesVars
    PROVE  FileTypeOK'
<1> USE DEF FileTypeOK, ImagesAssumption, ImagesInv, ImagesTypeOK, JobIsOn,
            ClientIsOn, Call, BuildStages, Leaving, Thread, config, tracker
<1>0. ASSUME file' \in {file, Torn}
      PROVE  FileTypeOK'
  <2>1. CASE job.at = "convert"
    <3>1. job.call.image \in Names
      BY <2>1
    <3>2. file' \in {file, [file EXCEPT ![job.call.image].is = "broken"]}
      BY <1>0, <2>1 DEF Torn
    <3>3. [file EXCEPT ![job.call.image].is = "broken"]
             \in [Names -> [is: {"none", "whole", "broken"}, has: SUBSET Packages]]
      BY <3>1
    <3> QED BY <3>2, <3>3
  <2>2. CASE job.at # "convert"
    BY <1>0, <2>2 DEF Torn
  <2> QED BY <2>1, <2>2
<1>1. ASSUME NEW c \in Clients, NEW i \in Names, NEW want \in SUBSET Packages,
           NEW approved \in BOOLEAN, Build(c, i, want, approved)
      PROVE  FileTypeOK'
  BY <1>1 DEF Build, Idle, NoCall, Called
<1>2. ASSUME NEW c \in Clients, NEW i \in Names, RemoveImage(c, i)
      PROVE  FileTypeOK'
  BY <1>2 DEF RemoveImage, Idle, NoCall, Called
<1>3. ASSUME NEW c \in Clients, Unregister(c)
      PROVE  FileTypeOK'
  BY <1>3 DEF Unregister, Idle, NoCall
<1>4. ASSUME NEW c \in Clients, Unlink(c)
      PROVE  FileTypeOK'
  BY <1>4 DEF Unlink
<1>5. ASSUME NEW c \in Clients, Pop(c)
      PROVE  FileTypeOK'
  BY <1>5 DEF Pop, Idle, NoCall
<1>6. ASSUME NEW c \in Clients, ClientBinds(c)
      PROVE  FileTypeOK'
  BY <1>6, ClientBindsEffect
<1>7. CASE TakeJob
  BY <1>7 DEF TakeJob, Idle, NoCall
<1>8. CASE PlanAgain
  BY <1>8 DEF PlanAgain
<1>9. CASE StartBuild
  BY <1>9 DEF StartBuild
<1>10. CASE InstallPackages
  BY <1>10 DEF InstallPackages
<1>11. CASE BuildFails
  BY <1>0, <1>11 DEF BuildFails
<1>12. CASE Convert
  BY <1>12 DEF Convert
<1>13. CASE RegisterImage
  BY <1>13 DEF RegisterImage, Persist
<1>14. CASE ApplyImage
  BY <1>14 DEF ApplyImage, Idle, NoCall
<1>15. CASE JobBinds
  BY <1>15, JobBindsEffect
<1>16. ASSUME NEW i \in Names, SeatMade(i)
      PROVE  FileTypeOK'
  BY <1>16 DEF SeatMade
<1>17. ASSUME NEW i \in Names, SeatGone(i)
      PROVE  FileTypeOK'
  BY <1>17 DEF SeatGone
<1>18. CASE ImagesRestart
  BY <1>0, <1>18 DEF ImagesRestart
<1>19. CASE UNCHANGED imagesVars
  BY <1>19 DEF imagesVars
<1> HIDE DEF FileTypeOK, ImagesAssumption, ImagesInv, ImagesTypeOK, JobIsOn,
             ClientIsOn, Call, BuildStages, Leaving, Thread, config, tracker
<1>20. ASSUME NEW c \in Clients, NEW p \in Projects, NEW want \in SUBSET Packages,
           NEW approved \in BOOLEAN, Ensure(c, p, want, approved)
      PROVE  FileTypeOK'
  <2>0. EnsureDoes(c, p)
    BY <1>20, EnsureEffect
  <2>1. UNCHANGED file
    BY <2>0 DEF EnsureDoes
  <2> QED BY <2>1 DEF FileTypeOK, ImagesInv, ImagesTypeOK
<1> QED BY <1>1, <1>2, <1>3, <1>4, <1>5, <1>6, <1>7, <1>8, <1>9, <1>10, <1>11, <1>12,
           <1>13, <1>14, <1>15, <1>16, <1>17, <1>18, <1>19, <1>20 DEF ImagesStep,
           JobStep

\* The tracker keeps its types, and every record in its order.
LEMMA ImagesTracker ==
    ASSUME ImagesAssumption, ImagesInv, [ImagesStep]_imagesVars
    PROVE  (records \in [Names -> States] /\ listed \in Seq(Names) /\ TrackedIsListed)'
<1> USE DEF ImagesAssumption, ImagesInv, ImagesTypeOK, States,
            TrackedIsListed, ListedIn, Tracked, BuildStages, Leaving, Thread, config, tracker
<1>1. ASSUME NEW c \in Clients, NEW i \in Names, NEW want \in SUBSET Packages,
           NEW approved \in BOOLEAN, Build(c, i, want, approved)
      PROVE  (records \in [Names -> States] /\ listed \in Seq(Names) /\ TrackedIsListed)'
  BY <1>1 DEF Build, Idle, NoCall, Called
<1>2. ASSUME NEW c \in Clients, NEW i \in Names, RemoveImage(c, i)
      PROVE  (records \in [Names -> States] /\ listed \in Seq(Names) /\ TrackedIsListed)'
  BY <1>2 DEF RemoveImage, Idle, NoCall, Called
<1>3. ASSUME NEW c \in Clients, Unregister(c)
      PROVE  (records \in [Names -> States] /\ listed \in Seq(Names) /\ TrackedIsListed)'
  BY <1>3 DEF Unregister, Idle, NoCall
<1>4. ASSUME NEW c \in Clients, Unlink(c)
      PROVE  (records \in [Names -> States] /\ listed \in Seq(Names) /\ TrackedIsListed)'
  BY <1>4 DEF Unlink
<1>5. ASSUME NEW c \in Clients, Pop(c)
      PROVE  (records \in [Names -> States] /\ listed \in Seq(Names) /\ TrackedIsListed)'
  BY <1>5 DEF Pop, Idle, NoCall
<1>6. ASSUME NEW c \in Clients, ClientBinds(c)
      PROVE  (records \in [Names -> States] /\ listed \in Seq(Names) /\ TrackedIsListed)'
  BY <1>6, ClientBindsEffect
<1>7. CASE TakeJob
  BY <1>7 DEF TakeJob, Idle, NoCall
<1>8. CASE PlanAgain
  BY <1>8 DEF PlanAgain
<1>9. CASE RegisterImage
  BY <1>9 DEF RegisterImage
<1>10. CASE ApplyImage
  BY <1>10 DEF ApplyImage, Idle, NoCall
<1>11. CASE JobBinds
  BY <1>11, JobBindsEffect
<1>12. ASSUME NEW i \in Names, SeatMade(i)
      PROVE  (records \in [Names -> States] /\ listed \in Seq(Names) /\ TrackedIsListed)'
  BY <1>12 DEF SeatMade
<1>13. ASSUME NEW i \in Names, SeatGone(i)
      PROVE  (records \in [Names -> States] /\ listed \in Seq(Names) /\ TrackedIsListed)'
  BY <1>13 DEF SeatGone
<1>14. CASE ImagesRestart
  BY <1>14 DEF ImagesRestart, Torn, Idle, NoCall
<1>15. CASE UNCHANGED imagesVars
  BY <1>15 DEF imagesVars
<1> HIDE DEF ImagesAssumption, ImagesInv, ImagesTypeOK, States,
             TrackedIsListed, ListedIn, Tracked, BuildStages, Leaving, Thread, config, tracker
<1>16. ASSUME NEW c \in Clients, NEW p \in Projects, NEW want \in SUBSET Packages,
           NEW approved \in BOOLEAN, Ensure(c, p, want, approved)
      PROVE  (records \in [Names -> States] /\ listed \in Seq(Names) /\ TrackedIsListed)'
  <2>0. EnsureDoes(c, p)
    BY <1>16, EnsureEffect
  <2>1. UNCHANGED <<records, listed>>
    BY <2>0 DEF EnsureDoes, tracker
  <2> QED BY <2>1 DEF ImagesInv, ImagesTypeOK, States, TrackedIsListed, ListedIn
<1>17. CASE StartBuild
  <2>1. job.call.image \in Names /\ Track(job.call.image)
    BY <1>17 DEF StartBuild, ImagesInv, JobIsOn
  <2> QED BY <2>1, TrackEffect DEF ImagesAssumption
<1>18. CASE InstallPackages
  <2>1. job.call.image \in Names /\ ReportBuild(job.call.image, "running")
    BY <1>18 DEF InstallPackages, ImagesInv, JobIsOn
  <2>2. "running" \in States \ {"none"}
    BY DEF States
  <2> QED BY <2>1, <2>2, ReportEffect
<1>19. CASE BuildFails
  <2>1. job.call.image \in Names /\ ReportBuild(job.call.image, "error")
    BY <1>19 DEF BuildFails, ImagesInv, JobIsOn
  <2>2. "error" \in States \ {"none"}
    BY DEF States
  <2> QED BY <2>1, <2>2, ReportEffect
<1>20. CASE Convert
  <2>1. job.call.image \in Names /\ ReportBuild(job.call.image, "done")
    BY <1>20 DEF Convert, ImagesInv, JobIsOn
  <2>2. "done" \in States \ {"none"}
    BY DEF States
  <2> QED BY <2>1, <2>2, ReportEffect
<1> QED BY <1>1, <1>2, <1>3, <1>4, <1>5, <1>6, <1>7, <1>8, <1>9, <1>10, <1>11, <1>12,
           <1>13, <1>14, <1>15, <1>16, <1>17, <1>18, <1>19, <1>20 DEF ImagesStep,
           JobStep

\* The queue keeps its type.
LEMMA ImagesJobsType ==
    ASSUME ImagesAssumption, ImagesInv, [ImagesStep]_imagesVars
    PROVE  (jobs \in Seq(Call))'
<1> USE DEF ImagesAssumption, ImagesInv, ImagesTypeOK, Call, BuildStages,
            Leaving, Thread, config, tracker
<1>1. ASSUME NEW c \in Clients, NEW i \in Names, RemoveImage(c, i)
      PROVE  (jobs \in Seq(Call))'
  BY <1>1 DEF RemoveImage, Idle, NoCall, Called
<1>2. ASSUME NEW c \in Clients, Unregister(c)
      PROVE  (jobs \in Seq(Call))'
  BY <1>2 DEF Unregister, Idle, NoCall
<1>3. ASSUME NEW c \in Clients, Unlink(c)
      PROVE  (jobs \in Seq(Call))'
  BY <1>3 DEF Unlink
<1>4. ASSUME NEW c \in Clients, Pop(c)
      PROVE  (jobs \in Seq(Call))'
  BY <1>4 DEF Pop, Idle, NoCall
<1>5. ASSUME NEW c \in Clients, ClientBinds(c)
      PROVE  (jobs \in Seq(Call))'
  BY <1>5, ClientBindsEffect
<1>6. CASE TakeJob
  BY <1>6 DEF TakeJob, Idle, NoCall
<1>7. CASE PlanAgain
  BY <1>7 DEF PlanAgain
<1>8. CASE StartBuild
  BY <1>8 DEF StartBuild
<1>9. CASE InstallPackages
  BY <1>9 DEF InstallPackages
<1>10. CASE BuildFails
  BY <1>10 DEF BuildFails, Torn, Idle, NoCall
<1>11. CASE Convert
  BY <1>11 DEF Convert
<1>12. CASE RegisterImage
  BY <1>12 DEF RegisterImage, Persist
<1>13. CASE ApplyImage
  BY <1>13 DEF ApplyImage, Idle, NoCall
<1>14. CASE JobBinds
  BY <1>14, JobBindsEffect
<1>15. ASSUME NEW i \in Names, SeatMade(i)
      PROVE  (jobs \in Seq(Call))'
  BY <1>15 DEF SeatMade
<1>16. ASSUME NEW i \in Names, SeatGone(i)
      PROVE  (jobs \in Seq(Call))'
  BY <1>16 DEF SeatGone
<1>17. CASE ImagesRestart
  BY <1>17 DEF ImagesRestart, Torn, Idle, NoCall
<1>18. CASE UNCHANGED imagesVars
  BY <1>18 DEF imagesVars
<1> HIDE DEF ImagesAssumption, ImagesInv, ImagesTypeOK, Call,
             BuildStages, Leaving, Thread, config, tracker
<1>19. ASSUME NEW c \in Clients, NEW p \in Projects, NEW want \in SUBSET Packages,
           NEW approved \in BOOLEAN, Ensure(c, p, want, approved)
      PROVE  (jobs \in Seq(Call))'
  <2>0. EnsureDoes(c, p)
    BY <1>19, EnsureEffect
  <2>1. jobs \in Seq(Call)
    BY DEF ImagesInv, ImagesTypeOK
  <2> QED BY <2>0, <2>1, AppendProperties DEF EnsureDoes
<1>20. ASSUME NEW c \in Clients, NEW i \in Names, NEW want \in SUBSET Packages,
           NEW approved \in BOOLEAN, Build(c, i, want, approved)
      PROVE  (jobs \in Seq(Call))'
  <2>1. [NoCall EXCEPT !.image = i, !.want = want, !.approved = approved] \in Call
    BY DEF NoCall, Call
  <2>2. jobs \in Seq(Call)
    BY DEF ImagesInv, ImagesTypeOK
  <2> QED BY <1>20, <2>1, <2>2, AppendProperties DEF Build
<1> QED BY <1>1, <1>2, <1>3, <1>4, <1>5, <1>6, <1>7, <1>8, <1>9, <1>10, <1>11, <1>12,
           <1>13, <1>14, <1>15, <1>16, <1>17, <1>18, <1>19, <1>20 DEF ImagesStep,
           JobStep

\* The job thread keeps its type.
LEMMA ImagesJobType ==
    ASSUME ImagesAssumption, ImagesInv, [ImagesStep]_imagesVars
    PROVE  (job \in Thread)'
<1> USE DEF ImagesAssumption, ImagesInv, ImagesTypeOK, Call, JobIsOn,
            BuildStages, Leaving, Thread, config, tracker
<1>1. ASSUME NEW c \in Clients, NEW i \in Names, NEW want \in SUBSET Packages,
           NEW approved \in BOOLEAN, Build(c, i, want, approved)
      PROVE  (job \in Thread)'
  BY <1>1 DEF Build, Idle, NoCall, Called
<1>2. ASSUME NEW c \in Clients, NEW i \in Names, RemoveImage(c, i)
      PROVE  (job \in Thread)'
  BY <1>2 DEF RemoveImage, Idle, NoCall, Called
<1>3. ASSUME NEW c \in Clients, Unregister(c)
      PROVE  (job \in Thread)'
  BY <1>3 DEF Unregister, Idle, NoCall
<1>4. ASSUME NEW c \in Clients, Unlink(c)
      PROVE  (job \in Thread)'
  BY <1>4 DEF Unlink
<1>5. ASSUME NEW c \in Clients, Pop(c)
      PROVE  (job \in Thread)'
  BY <1>5 DEF Pop, Idle, NoCall
<1>6. ASSUME NEW c \in Clients, ClientBinds(c)
      PROVE  (job \in Thread)'
  BY <1>6, ClientBindsEffect
<1>7. CASE InstallPackages
  BY <1>7 DEF InstallPackages
<1>8. CASE BuildFails
  BY <1>8 DEF BuildFails, Torn, Idle, NoCall
<1>9. CASE Convert
  BY <1>9 DEF Convert
<1>10. CASE RegisterImage
  BY <1>10 DEF RegisterImage
<1>11. CASE ApplyImage
  BY <1>11 DEF ApplyImage, Idle, NoCall
<1>12. CASE JobBinds
  BY <1>12, JobBindsEffect
<1>13. ASSUME NEW i \in Names, SeatMade(i)
      PROVE  (job \in Thread)'
  BY <1>13 DEF SeatMade
<1>14. ASSUME NEW i \in Names, SeatGone(i)
      PROVE  (job \in Thread)'
  BY <1>14 DEF SeatGone
<1>15. CASE ImagesRestart
  BY <1>15 DEF ImagesRestart, Torn, Idle, NoCall
<1>16. CASE UNCHANGED imagesVars
  BY <1>16 DEF imagesVars
<1> HIDE DEF ImagesAssumption, ImagesInv, ImagesTypeOK, Call, JobIsOn,
             BuildStages, Leaving, Thread, config, tracker
<1>17. ASSUME NEW c \in Clients, NEW p \in Projects, NEW want \in SUBSET Packages,
           NEW approved \in BOOLEAN, Ensure(c, p, want, approved)
      PROVE  (job \in Thread)'
  <2>0. EnsureDoes(c, p)
    BY <1>17, EnsureEffect
  <2>1. UNCHANGED job
    BY <2>0 DEF EnsureDoes
  <2> QED BY <2>1 DEF ImagesInv, ImagesTypeOK
<1>18. CASE TakeJob
  <2> DEFINE next == Head(jobs)
  <2>1. jobs \in Seq(Call) /\ jobs # <<>>
    BY <1>18 DEF TakeJob, ImagesInv, ImagesTypeOK
  <2>2. next \in Call
    BY <2>1, HeadTailProperties
  <2>3. \/ job' = [Idle EXCEPT !.at = "plan", !.call = next]
        \/ job' = [Idle EXCEPT !.at = "start", !.call = next, !.recipe = next.want]
        \/ job' = Idle
    BY <1>18 DEF TakeJob
  <2>4. Idle \in Thread
    BY DEF Idle, NoCall, Thread, Call
  <2>5. next.want \in SUBSET Packages
    BY <2>2 DEF Call
  <2> HIDE DEF next
  <2> QED BY <2>2, <2>3, <2>4, <2>5 DEF Thread
<1>19. CASE PlanAgain
  <2>1. job.call \in Call /\ job.call.kind = "ensure" /\ job.call.project \in Projects
    BY <1>19 DEF PlanAgain, ImagesInv, ImagesTypeOK, Thread, JobIsOn
  <2>2. ImagesAssumption /\ ImagesTypeOK
    BY DEF ImagesAssumption, ImagesInv
  <2>3. Planned(job.call) \in Thread /\ Planned(job.call).at \in {"idle", "bind", "start"}
    BY <2>1, <2>2, PlannedFacts
  <2> QED BY <1>19, <2>3 DEF PlanAgain
<1>20. CASE StartBuild
  <2> DEFINE kept == Recorded(job.call.image) \cup job.recipe
  <2>1. job \in Thread /\ job.call.image \in Names /\ mem \in Registry
    BY <1>20 DEF StartBuild, ImagesInv, ImagesTypeOK, JobIsOn
  <2>2. kept \in SUBSET Packages
    BY <2>1 DEF Recorded, Registry, Thread
  <2>3. job' = [job EXCEPT !.at = "boot", !.recorded = kept]
    BY <1>20 DEF StartBuild
  <2> HIDE DEF kept
  <2> QED BY <2>1, <2>2, <2>3 DEF Thread
<1> QED BY <1>1, <1>2, <1>3, <1>4, <1>5, <1>6, <1>7, <1>8, <1>9, <1>10, <1>11, <1>12,
           <1>13, <1>14, <1>15, <1>16, <1>17, <1>18, <1>19, <1>20 DEF ImagesStep,
           JobStep

\* The connection threads keep theirs.
LEMMA ImagesClientType ==
    ASSUME ImagesAssumption, ImagesInv, [ImagesStep]_imagesVars
    PROVE  (client \in [Clients -> Thread])'
<1> USE DEF ImagesAssumption, ImagesInv, ImagesTypeOK, Call, BuildStages,
            Leaving, Thread, config, tracker
<1>1. ASSUME NEW c \in Clients, NEW i \in Names, NEW want \in SUBSET Packages,
           NEW approved \in BOOLEAN, Build(c, i, want, approved)
      PROVE  (client \in [Clients -> Thread])'
  BY <1>1 DEF Build, Idle, NoCall, Called
<1>2. ASSUME NEW c \in Clients, NEW i \in Names, RemoveImage(c, i)
      PROVE  (client \in [Clients -> Thread])'
  BY <1>2 DEF RemoveImage, Idle, NoCall, Called
<1>3. ASSUME NEW c \in Clients, Pop(c)
      PROVE  (client \in [Clients -> Thread])'
  BY <1>3 DEF Pop, Idle, NoCall
<1>4. ASSUME NEW c \in Clients, ClientBinds(c)
      PROVE  (client \in [Clients -> Thread])'
  BY <1>4, ClientBindsEffect
<1>5. CASE TakeJob
  BY <1>5 DEF TakeJob, Idle, NoCall
<1>6. CASE PlanAgain
  BY <1>6 DEF PlanAgain
<1>7. CASE StartBuild
  BY <1>7 DEF StartBuild
<1>8. CASE InstallPackages
  BY <1>8 DEF InstallPackages
<1>9. CASE BuildFails
  BY <1>9 DEF BuildFails, Torn, Idle, NoCall
<1>10. CASE Convert
  BY <1>10 DEF Convert
<1>11. CASE RegisterImage
  BY <1>11 DEF RegisterImage
<1>12. CASE ApplyImage
  BY <1>12 DEF ApplyImage, Idle, NoCall
<1>13. CASE JobBinds
  BY <1>13, JobBindsEffect
<1>14. ASSUME NEW i \in Names, SeatMade(i)
      PROVE  (client \in [Clients -> Thread])'
  BY <1>14 DEF SeatMade
<1>15. ASSUME NEW i \in Names, SeatGone(i)
      PROVE  (client \in [Clients -> Thread])'
  BY <1>15 DEF SeatGone
<1>16. CASE ImagesRestart
  BY <1>16 DEF ImagesRestart, Torn, Idle, NoCall
<1>17. CASE UNCHANGED imagesVars
  BY <1>17 DEF imagesVars
<1> HIDE DEF ImagesAssumption, ImagesInv, ImagesTypeOK, Call,
             BuildStages, Leaving, Thread, config, tracker
<1>18. ASSUME NEW c \in Clients, NEW p \in Projects, NEW want \in SUBSET Packages,
           NEW approved \in BOOLEAN, Ensure(c, p, want, approved)
      PROVE  (client \in [Clients -> Thread])'
  <2>0. EnsureDoes(c, p)
    BY <1>18, EnsureEffect
  <2> QED BY <2>0 DEF EnsureDoes
<1>19. ASSUME NEW c \in Clients, Unregister(c)
      PROVE  (client \in [Clients -> Thread])'
  <2>1. client \in [Clients -> Thread] /\ client[c] \in Thread
    BY DEF ImagesInv, ImagesTypeOK
  <2>2. [client[c] EXCEPT !.at = "unlink"] \in Thread
    BY <2>1 DEF Thread
  <2>3. Idle \in Thread
    BY DEF Idle, NoCall, Thread, Call
  <2>4. \/ client' = [client EXCEPT ![c] = Idle]
        \/ client' = [client EXCEPT ![c] = [client[c] EXCEPT !.at = "unlink"]]
    BY <1>19 DEF Unregister
  <2> QED BY <2>1, <2>2, <2>3, <2>4
<1>20. ASSUME NEW c \in Clients, Unlink(c)
      PROVE  (client \in [Clients -> Thread])'
  <2>1. client \in [Clients -> Thread] /\ client[c] \in Thread
    BY DEF ImagesInv, ImagesTypeOK
  <2>2. [client[c] EXCEPT !.at = "pop"] \in Thread
    BY <2>1 DEF Thread
  <2>3. client' = [client EXCEPT ![c] = [client[c] EXCEPT !.at = "pop"]]
    BY <1>20 DEF Unlink
  <2> QED BY <2>1, <2>2, <2>3
<1> QED BY <1>1, <1>2, <1>3, <1>4, <1>5, <1>6, <1>7, <1>8, <1>9, <1>10, <1>11, <1>12,
           <1>13, <1>14, <1>15, <1>16, <1>17, <1>18, <1>19, <1>20 DEF ImagesStep,
           JobStep

\* So do the counters.
LEMMA ImagesCounters ==
    ASSUME ImagesAssumption, ImagesInv, [ImagesStep]_imagesVars
    PROVE  CountersTypeOK'
<1> USE DEF CountersTypeOK, ImagesAssumption, ImagesInv, ImagesTypeOK, Called,
            BuildStages, Leaving, Thread, config, tracker
<1>1. ASSUME NEW c \in Clients, NEW i \in Names, NEW want \in SUBSET Packages,
           NEW approved \in BOOLEAN, Build(c, i, want, approved)
      PROVE  CountersTypeOK'
  BY <1>1 DEF Build, Idle, NoCall, Called
<1>2. ASSUME NEW c \in Clients, NEW i \in Names, RemoveImage(c, i)
      PROVE  CountersTypeOK'
  BY <1>2 DEF RemoveImage, Idle, NoCall, Called
<1>3. ASSUME NEW c \in Clients, Unregister(c)
      PROVE  CountersTypeOK'
  BY <1>3 DEF Unregister, Idle, NoCall
<1>4. ASSUME NEW c \in Clients, Unlink(c)
      PROVE  CountersTypeOK'
  BY <1>4 DEF Unlink
<1>5. ASSUME NEW c \in Clients, Pop(c)
      PROVE  CountersTypeOK'
  BY <1>5 DEF Pop, Idle, NoCall
<1>6. CASE TakeJob
  BY <1>6 DEF TakeJob, Idle, NoCall
<1>7. CASE PlanAgain
  BY <1>7 DEF PlanAgain
<1>8. CASE StartBuild
  BY <1>8 DEF StartBuild
<1>9. CASE InstallPackages
  BY <1>9 DEF InstallPackages, ReportBuild
<1>10. CASE BuildFails
  BY <1>10 DEF BuildFails, Torn, Idle, NoCall, ReportBuild
<1>11. CASE Convert
  BY <1>11 DEF Convert, ReportBuild
<1>12. CASE RegisterImage
  BY <1>12 DEF RegisterImage, Persist
<1>13. CASE ApplyImage
  BY <1>13 DEF ApplyImage, Idle, NoCall
<1>14. ASSUME NEW i \in Names, SeatMade(i)
      PROVE  CountersTypeOK'
  BY <1>14 DEF SeatMade
<1>15. ASSUME NEW i \in Names, SeatGone(i)
      PROVE  CountersTypeOK'
  BY <1>15 DEF SeatGone
<1>16. CASE ImagesRestart
  BY <1>16 DEF ImagesRestart, Torn, Idle, NoCall
<1>17. CASE UNCHANGED imagesVars
  BY <1>17 DEF imagesVars
<1> HIDE DEF CountersTypeOK, ImagesAssumption, ImagesInv, ImagesTypeOK, Called,
             BuildStages, Leaving, Thread, config, tracker
<1>18. ASSUME NEW c \in Clients, NEW p \in Projects, NEW want \in SUBSET Packages,
           NEW approved \in BOOLEAN, Ensure(c, p, want, approved)
      PROVE  CountersTypeOK'
  <2>1. calls < MaxCalls /\ calls' = calls + 1 /\ UNCHANGED <<live, deaths>>
    BY <1>18 DEF Ensure, Called
  <2> QED BY <2>1 DEF CountersTypeOK, ImagesInv, ImagesTypeOK, ImagesAssumption
<1>19. ASSUME NEW c \in Clients, ClientBinds(c)
      PROVE  CountersTypeOK'
  BY <1>19 DEF ClientBinds, CountersTypeOK, ImagesInv, ImagesTypeOK
<1>20. CASE JobBinds
  BY <1>20 DEF JobBinds, CountersTypeOK, ImagesInv, ImagesTypeOK
<1> QED BY <1>1, <1>2, <1>3, <1>4, <1>5, <1>6, <1>7, <1>8, <1>9, <1>10, <1>11, <1>12,
           <1>13, <1>14, <1>15, <1>16, <1>17, <1>18, <1>19, <1>20 DEF ImagesStep,
           JobStep

\* An image that nothing is left of, and that nobody uses, is sound.
LEMMA ForgottenIsSound ==
    ASSUME NEW i \in Names, Forgotten(i)', ~Spoils(i)', JobIsOn',
           (\A c \in Clients : ClientIsOn(c) /\ BindsWhatItPlanned(client[c]))'
    PROVE  Sound(i)'
<1>1. job'.call.image = i => job'.at = "idle"
  BY DEF Forgotten, InUse, JobIsOn, BuildStages
<1>2. \A c \in Clients : Binding(client[c])' => client'[c].call.image # i
  BY DEF Forgotten, InUse, ClientIsOn, Binding
<1>3. disk'.image[i] = NoEntry /\ mem'.image[i] = NoEntry
  BY DEF Forgotten
<1> QED BY <1>1, <1>2, <1>3 DEF Sound, Holds, Binding

\* Whoever takes up an image while a removal has deleted it spoils it.
LEMMA NobodyUsesTheDeleted ==
    ASSUME NEW i \in Names, ~Spoils(i), JobIsOn,
           \A c \in Clients : ClientIsOn(c)
    PROVE  Deleted(i) => /\ job.at \notin {"idle", "plan"} => job.call.image # i
                         /\ \A c \in Clients : Binding(client[c]) => client[c].call.image # i
                         /\ disk.image[i] = NoEntry
<1> SUFFICES ASSUME Deleted(i)
             PROVE  /\ job.at \notin {"idle", "plan"} => job.call.image # i
                    /\ \A c \in Clients : Binding(client[c]) => client[c].call.image # i
                    /\ disk.image[i] = NoEntry
  OBVIOUS
<1>1. disk.image[i] = NoEntry /\ ~InUse(i)
  BY DEF Spoils
<1>2. job.at \notin {"idle", "plan"} => job.call.image # i
  BY <1>1 DEF InUse, JobIsOn
<1>3. \A c \in Clients : Binding(client[c]) => client[c].call.image # i
  BY <1>1 DEF InUse, ClientIsOn, Binding
<1> QED BY <1>1, <1>2, <1>3

\* The same, of the state after a step.
LEMMA NobodyUsesTheDeletedNext ==
    ASSUME NEW i \in Names, ~Spoils(i)', JobIsOn',
           (\A c \in Clients : ClientIsOn(c))'
    PROVE  Deleted(i)' => /\ job'.at \notin {"idle", "plan"} => job'.call.image # i
                          /\ \A c \in Clients : Binding(client[c])' => client'[c].call.image # i
                          /\ disk'.image[i] = NoEntry
<1> SUFFICES ASSUME Deleted(i)'
             PROVE  /\ job'.at \notin {"idle", "plan"} => job'.call.image # i
                    /\ \A c \in Clients : Binding(client[c])' => client'[c].call.image # i
                    /\ disk'.image[i] = NoEntry
  OBVIOUS
<1>1. disk'.image[i] = NoEntry /\ ~InUse(i)'
  BY DEF Spoils
<1>2. job'.at \notin {"idle", "plan"} => job'.call.image # i
  BY <1>1 DEF InUse, JobIsOn
<1>3. \A c \in Clients : Binding(client[c])' => client'[c].call.image # i
  BY <1>1 DEF InUse, ClientIsOn, Binding
<1> QED BY <1>1, <1>2, <1>3

\* A removal that is past the unlinking stays there until it pops, and no other
\* step of a thread ends it.
LEMMA DeletedStays ==
    ASSUME NEW i \in Names, NEW c \in Clients, client[c].at # "pop",
           \A d \in Clients \ {c} : client'[d] = client[d]
    PROVE  Deleted(i) => Deleted(i)'
BY DEF Deleted

\* An image that is not spoiled stays sound: what is recorded of it, and what the
\* calls that use it go by, is installed in it.
LEMMA ImagesSound ==
    ASSUME ImagesAssumption, ImagesInv, [ImagesStep]_imagesVars,
           NEW i \in Names, Sound(i), ~Spoils(i)', JobIsOn',
           (\A c \in Clients : ClientIsOn(c))'
    PROVE  Sound(i)'
<1> DEFINE OnJob == job.call.image = i =>
              /\ job.at \in {"boot", "convert"} => job.recorded \subseteq file[i].has \cup job.recipe
              /\ job.at \in {"register", "apply"} => Holds(i, job.recorded) /\ Holds(i, job.recipe)
              /\ Binding(job) => Holds(i, job.call.want)
           OnClient(c) == Binding(client[c]) /\ client[c].call.image = i
                            => Holds(i, client[c].call.want)
<1>0. /\ ~Spoils(i) /\ Holds(i, disk.image[i]) /\ (Holds(i, mem.image[i]) \/ Deleted(i))
      /\ OnJob /\ \A c \in Clients : OnClient(c)
  BY DEF Sound
<1>a. /\ Deleted(i) => /\ job.at \notin {"idle", "plan"} => job.call.image # i
                       /\ \A c \in Clients : Binding(client[c]) => client[c].call.image # i
                       /\ disk.image[i] = NoEntry
      /\ Deleted(i)' => /\ job'.at \notin {"idle", "plan"} => job'.call.image # i
                        /\ \A c \in Clients : Binding(client[c])' => client'[c].call.image # i
                        /\ disk'.image[i] = NoEntry
  BY <1>0, NobodyUsesTheDeleted, NobodyUsesTheDeletedNext DEF ImagesInv
<1>b. /\ job \in Thread /\ client \in [Clients -> Thread] /\ jobs \in Seq(Call)
      /\ disk \in Registry /\ mem \in Registry
      /\ file \in [Names -> [is: {"none", "whole", "broken"}, has: SUBSET Packages]]
      /\ NoEntry \notin SUBSET Packages
  BY DEF ImagesInv, ImagesTypeOK, ImagesAssumption
<1>c. ASSUME /\ Holds(i, disk.image[i])' /\ (Holds(i, mem.image[i]) \/ Deleted(i))'
             /\ OnJob' /\ (\A c \in Clients : OnClient(c))'
      PROVE  Sound(i)'
  BY <1>c DEF Sound
<1>1. ASSUME NEW c \in Clients, NEW p \in Projects, NEW want \in SUBSET Packages,
           NEW approved \in BOOLEAN, Ensure(c, p, want, approved)
      PROVE  Sound(i)'
  <2>0. EnsureDoes(c, p)
    BY <1>1, EnsureEffect
  <2>1. /\ UNCHANGED <<disk, mem, file, job>> /\ client[c].at = "idle"
        /\ \A d \in Clients \ {c} : client'[d] = client[d]
        /\ client'[c].at \in {"idle", "bind"}
        /\ client'[c].at = "bind" =>
              /\ client'[c].call.image = Target(p)
              /\ mem.image[Target(p)] # NoEntry
              /\ client'[c].call.want \subseteq mem.image[Target(p)]
    BY <2>0 DEF EnsureDoes, config
  <2>2. Deleted(i) => Deleted(i)'
    BY <2>1, DeletedStays
  <2>3. (\A d \in Clients : OnClient(d))'
    <3> SUFFICES ASSUME NEW d \in Clients, Binding(client[d])', client'[d].call.image = i
                 PROVE  Holds(i, client[d].call.want)'
      OBVIOUS
    <3>1. ~Deleted(i)'
      BY <1>a
    <3>2. Holds(i, mem.image[i])
      BY <1>0, <2>2, <3>1
    <3>3. CASE d = c
      BY <2>1, <3>2, <3>3 DEF Holds, Binding
    <3>4. CASE d # c
      BY <1>0, <2>1, <3>4 DEF Holds, Binding
    <3> QED BY <3>3, <3>4
  <2>4. OnJob'
    BY <1>0, <2>1 DEF Holds, Binding
  <2>5. Holds(i, disk.image[i])' /\ (Holds(i, mem.image[i]) \/ Deleted(i))'
    BY <1>0, <2>1, <2>2 DEF Holds
  <2> QED BY <1>c, <2>3, <2>4, <2>5
<1>2. ASSUME NEW c \in Clients, NEW j \in Names, NEW want \in SUBSET Packages,
           NEW approved \in BOOLEAN, Build(c, j, want, approved)
      PROVE  Sound(i)'
  <2>1. UNCHANGED <<disk, mem, file, job, client>>
    BY <1>2 DEF Build, config
  <2> QED BY <1>0, <1>c, <2>1 DEF Holds, Binding, Deleted
<1>3. ASSUME NEW c \in Clients, NEW j \in Names, RemoveImage(c, j)
      PROVE  Sound(i)'
  <2>1. /\ UNCHANGED <<disk, mem, file, job>> /\ client[c].at = "idle"
        /\ client' = [client EXCEPT ![c] = [Idle EXCEPT !.at = "unregister",
                                            !.call = [NoCall EXCEPT !.kind = "remove", !.image = j]]]
    BY <1>3 DEF RemoveImage, Called, config
  <2>2. /\ \A d \in Clients \ {c} : client'[d] = client[d]
        /\ client'[c].at = "unregister"
    BY <1>b, <2>1 DEF Idle
  <2>3. Deleted(i) => Deleted(i)'
    BY <2>1, <2>2, DeletedStays
  <2> QED BY <1>0, <1>c, <2>1, <2>2, <2>3 DEF Holds, Binding
<1>4. ASSUME NEW c \in Clients, Unregister(c)
      PROVE  Sound(i)'
  <2>1. /\ UNCHANGED <<mem, file, job>>
        /\ disk'.image[i] \in {disk.image[i], NoEntry}
        /\ \A d \in Clients \ {c} : client'[d] = client[d]
        /\ client[c].at = "unregister" /\ client'[c].at \in {"idle", "unlink"}
    BY <1>4, UnregisterEffect
  <2>2. Deleted(i) => Deleted(i)'
    BY <2>1, DeletedStays
  <2> QED BY <1>0, <1>c, <2>1, <2>2 DEF Holds, Binding
<1>5. ASSUME NEW c \in Clients, Unlink(c)
      PROVE  Sound(i)'
  <2> DEFINE j == client[c].call.image
  <2>1. /\ UNCHANGED <<disk, mem, job>> /\ client[c].at = "unlink" /\ j \in Names
        /\ file' = [file EXCEPT ![j] = [is |-> "none", has |-> {}]]
        /\ client' = [client EXCEPT ![c].at = "pop"]
    BY <1>5 DEF Unlink, config, ImagesInv, ClientIsOn
  <2>2. /\ \A d \in Clients \ {c} : client'[d] = client[d]
        /\ client'[c].at = "pop" /\ client'[c].call.image = j
    BY <1>b, <2>1 DEF Thread
  <2>3. Deleted(i) => Deleted(i)'
    BY <2>1, <2>2, DeletedStays
  <2>4. CASE j = i
    <3>1. Deleted(i)'
      BY <2>2, <2>4 DEF Deleted
    <3> QED BY <1>a, <1>c, <2>1, <3>1 DEF Holds, Binding
  <2>5. CASE j # i
    <3>1. file'[i] = file[i]
      BY <1>b, <2>1, <2>5
    <3> HIDE DEF j
    <3> QED BY <1>0, <1>c, <2>1, <2>2, <2>3, <3>1 DEF Holds, Binding
  <2> QED BY <2>4, <2>5
<1>6. ASSUME NEW c \in Clients, Pop(c)
      PROVE  Sound(i)'
  <2> DEFINE j == client[c].call.image
  <2>1. /\ UNCHANGED <<disk, file, job>> /\ client[c].at = "pop" /\ j \in Names
        /\ mem' = [mem EXCEPT !.image[j] = NoEntry]
        /\ client' = [client EXCEPT ![c] = Idle]
    BY <1>6 DEF Pop, ImagesInv, ClientIsOn, Leaving
  <2>2. /\ \A d \in Clients \ {c} : client'[d] = client[d]
        /\ client'[c].at = "idle"
    BY <1>b, <2>1 DEF Idle
  <2>3. (Holds(i, mem.image[i]) \/ Deleted(i))'
    <3>1. mem'.image[i] = IF j = i THEN NoEntry ELSE mem.image[i]
      BY <1>b, <2>1 DEF Registry
    <3>2. CASE j = i
      BY <3>1, <3>2 DEF Holds
    <3>3. CASE j # i
      BY <1>0, <2>1, <2>2, <3>1, <3>3 DEF Holds, Deleted
    <3> QED BY <3>2, <3>3
  <2> HIDE DEF j
  <2> QED BY <1>0, <1>c, <2>1, <2>2, <2>3 DEF Holds, Binding
<1>7. ASSUME NEW c \in Clients, ClientBinds(c)
      PROVE  Sound(i)'
  <2>1. /\ UNCHANGED <<file, job>> /\ mem'.image = mem.image /\ disk'.image = disk.image
        /\ \A d \in Clients \ {c} : client'[d] = client[d]
        /\ client[c].at \in {"bind", "bound", "told"} /\ client'[c].at \in {"idle", "bound", "told"}
        /\ client'[c].at # "idle" => client'[c].call = client[c].call
    BY <1>7, ClientBindsEffect
  <2>2. Deleted(i) => Deleted(i)'
    BY <2>1, DeletedStays
  <2> QED BY <1>0, <1>c, <2>1, <2>2 DEF Holds, Binding
<1>8. CASE TakeJob
  <2>1. UNCHANGED <<disk, mem, file, client>> /\ job'.at \in {"idle", "plan", "start"}
    BY <1>8 DEF TakeJob, config, Idle
  <2> QED BY <1>0, <1>c, <2>1 DEF Holds, Binding, Deleted
<1>9. CASE PlanAgain
  <2>1. job.call \in Call /\ job.call.kind = "ensure" /\ job.call.project \in Projects
    BY <1>9 DEF PlanAgain, ImagesInv, ImagesTypeOK, Thread, JobIsOn
  <2>2. UNCHANGED <<disk, mem, file, client>> /\ job' = Planned(job.call)
    BY <1>9 DEF PlanAgain, config
  <2>3. /\ job'.at \in {"idle", "bind", "start"}
        /\ job'.at = "bind" => /\ job'.call.image = Target(job.call.project)
                               /\ job'.call.want = job.call.want
                               /\ mem.image[Target(job.call.project)] # NoEntry
                               /\ job.call.want \subseteq mem.image[Target(job.call.project)]
    BY <2>1, <2>2, PlanEffect
  <2>4. OnJob'
    <3> SUFFICES ASSUME job'.at = "bind", job'.call.image = i
                 PROVE  Holds(i, job.call.want)'
      BY <2>3 DEF Binding
    <3>1. ~Deleted(i)'
      BY <1>a
    <3>2. Holds(i, mem.image[i])
      BY <1>0, <2>2, <3>1 DEF Deleted
    <3> QED BY <2>2, <2>3, <3>2 DEF Holds
  <2> QED BY <1>0, <1>c, <2>2, <2>4 DEF Holds, Binding, Deleted
<1>10. CASE StartBuild
  <2> DEFINE j == job.call.image
  <2>1. /\ job.at = "start" /\ UNCHANGED <<disk, mem, file, client>>
        /\ job' = [job EXCEPT !.at = "boot", !.recorded = Recorded(j) \cup job.recipe]
    BY <1>10 DEF StartBuild, config
  <2>2. /\ job'.at = "boot" /\ job'.call.image = j
        /\ job'.recorded = Recorded(j) \cup job'.recipe
    BY <1>b, <2>1 DEF Thread
  <2>3. j = i => Recorded(i) \subseteq file[i].has
    <3> SUFFICES ASSUME j = i PROVE Recorded(i) \subseteq file[i].has
      OBVIOUS
    <3>1. ~Deleted(i)
      BY <1>a, <2>1
    <3> QED BY <1>0, <3>1 DEF Recorded, Holds
  <2> HIDE DEF j
  <2>4. OnJob'
    BY <2>1, <2>2, <2>3 DEF Binding
  <2> QED BY <1>0, <1>c, <2>1, <2>4 DEF Holds, Binding, Deleted
<1>11. CASE InstallPackages
  <2>1. /\ job.at = "boot" /\ UNCHANGED <<disk, mem, file, client>>
        /\ job' = [job EXCEPT !.at = "convert", !.delta = file[job.call.image].is = "whole"]
    BY <1>11 DEF InstallPackages, config
  <2>2. /\ job'.at = "convert" /\ job'.call = job.call
        /\ job'.recorded = job.recorded /\ job'.recipe = job.recipe
    BY <1>b, <2>1 DEF Thread
  <2> QED BY <1>0, <1>c, <2>1, <2>2 DEF Holds, Binding, Deleted
<1>12. CASE BuildFails
  <2>1. /\ UNCHANGED <<disk, mem, client>> /\ job'.at = "idle" /\ file' \in {file, Torn}
    BY <1>12 DEF BuildFails, config, Idle
  <2>2. file'[i] = file[i]
    BY <1>b, <2>1 DEF Torn, Spoils
  <2> QED BY <1>0, <1>c, <2>1, <2>2 DEF Holds, Binding, Deleted
<1>13. CASE Convert
  <2> DEFINE j == job.call.image
  <2>1. /\ job.at = "convert" /\ UNCHANGED <<disk, mem, client>> /\ j \in Names
        /\ file' = [file EXCEPT ![j] = [is |-> "whole", has |-> @.has \cup job.recipe]]
        /\ job' = [job EXCEPT !.at = "register"]
    BY <1>13 DEF Convert, config, ImagesInv, JobIsOn
  <2>2. /\ job'.at = "register" /\ job'.call = job.call
        /\ job'.recorded = job.recorded /\ job'.recipe = job.recipe
    BY <1>b, <2>1 DEF Thread
  <2>3. CASE j = i
    <3>1. file'[i].is = "whole" /\ file'[i].has = file[i].has \cup job.recipe
      BY <1>b, <2>1, <2>3
    <3>2. job.recorded \subseteq file[i].has \cup job.recipe
      BY <1>0, <2>1, <2>3
    <3>3. \A kept : Holds(i, kept) => Holds(i, kept)'
      BY <3>1 DEF Holds
    <3> HIDE DEF j
    <3>4. OnJob'
      BY <2>2, <3>1, <3>2 DEF Holds, Binding
    <3> QED BY <1>0, <1>c, <2>1, <3>1, <3>4 DEF Holds, Binding, Deleted
  <2>4. CASE j # i
    <3>1. file'[i] = file[i]
      BY <1>b, <2>1, <2>4
    <3> QED BY <1>0, <1>c, <2>1, <2>2, <2>4, <3>1 DEF Holds, Binding, Deleted
  <2> QED BY <2>3, <2>4
<1>14. CASE RegisterImage
  <2> DEFINE j == job.call.image
  <2>1. /\ job.at = "register" /\ UNCHANGED <<mem, file, client>> /\ j \in Names
        /\ disk' \in {disk, [disk EXCEPT !.image[j] = job.recorded]}
        /\ job' = [job EXCEPT !.at = "apply"]
    BY <1>14 DEF RegisterImage, Persist, ImagesInv, JobIsOn
  <2>2. /\ job'.at = "apply" /\ job'.call = job.call
        /\ job'.recorded = job.recorded /\ job'.recipe = job.recipe
    BY <1>b, <2>1 DEF Thread
  <2>3. disk'.image[i] = disk.image[i] \/ (j = i /\ disk'.image[i] = job.recorded)
    BY <1>b, <2>1 DEF Registry
  <2>4. Holds(i, disk.image[i])'
    BY <1>0, <2>1, <2>3 DEF Holds
  <2>5. OnJob'
    BY <1>0, <2>1, <2>2 DEF Holds, Binding
  <2> QED BY <1>0, <1>c, <2>1, <2>4, <2>5 DEF Holds, Binding, Deleted
<1>15. CASE ApplyImage
  <2> DEFINE j == job.call.image
  <2>1. /\ job.at = "apply" /\ UNCHANGED <<disk, file, client>> /\ j \in Names
        /\ mem' = [mem EXCEPT !.image[j] = job.recorded]
        /\ job' = IF job.call.kind = "ensure" THEN [job EXCEPT !.at = "bind"] ELSE Idle
        /\ job.call.want \subseteq job.recipe
    BY <1>15 DEF ApplyImage, ImagesInv, JobIsOn, BuildStages
  <2>2. job'.at = "idle" \/ (job'.at = "bind" /\ job'.call = job.call)
    BY <1>b, <2>1 DEF Thread, Idle
  <2>3. mem'.image[i] = IF j = i THEN job.recorded ELSE mem.image[i]
    BY <1>b, <2>1 DEF Registry
  <2>4. (Holds(i, mem.image[i]) \/ Deleted(i))'
    BY <1>0, <2>1, <2>3 DEF Holds, Deleted
  <2>5. OnJob'
    <3>1. job.recipe # NoEntry
      BY <1>b DEF Thread
    <3> QED BY <1>0, <2>1, <2>2, <3>1 DEF Holds, Binding
  <2> QED BY <1>0, <1>c, <2>1, <2>4, <2>5 DEF Holds, Binding
<1>16. CASE JobBinds
  <2>1. /\ UNCHANGED <<file, client>> /\ mem'.image = mem.image /\ disk'.image = disk.image
        /\ job.at \in {"bind", "bound", "told"} /\ job'.at \in {"idle", "bound", "told"}
        /\ job'.at # "idle" => job'.call = job.call
    BY <1>16, JobBindsEffect
  <2> QED BY <1>0, <1>c, <2>1 DEF Holds, Binding, Deleted
<1>17. ASSUME NEW j \in Names, SeatMade(j) \/ SeatGone(j)
       PROVE  Sound(i)'
  <2>1. UNCHANGED <<disk, mem, file, job, client>>
    BY <1>17 DEF SeatMade, SeatGone, config
  <2> QED BY <1>0, <1>c, <2>1 DEF Holds, Binding, Deleted
<1>18. CASE ImagesRestart
  <2>1. /\ UNCHANGED disk /\ mem' = disk /\ job'.at = "idle" /\ file' \in {file, Torn}
        /\ \A c \in Clients : client'[c].at = "idle"
    BY <1>18 DEF ImagesRestart, Idle
  <2>2. file'[i] = file[i]
    BY <1>b, <2>1 DEF Torn, Spoils
  <2> QED BY <1>0, <1>c, <2>1, <2>2 DEF Holds, Binding
<1>19. CASE UNCHANGED imagesVars
  <2>1. UNCHANGED <<disk, mem, file, job, client>>
    BY <1>19 DEF imagesVars, config
  <2> QED BY <1>0, <1>c, <2>1 DEF Holds, Binding, Deleted
<1> QED BY <1>1, <1>2, <1>3, <1>4, <1>5, <1>6, <1>7, <1>8, <1>9, <1>10, <1>11, <1>12,
           <1>13, <1>14, <1>15, <1>16, <1>17, <1>18, <1>19 DEF ImagesStep, JobStep

\* A build that starts is reported, unless its name was in the order and its record
\* is pruned at once; its record then changes when the build ends, and no other does.
LEMMA ImagesReports ==
    ASSUME ImagesAssumption, ImagesInv, [ImagesStep]_imagesVars
    PROVE  OnlyBuildsAreReported' /\ StatusStep
<1>a. /\ job \in Thread /\ records \in [Names -> States]
      /\ \A i \in Names : Reported(i) => Building(i)
  BY DEF ImagesInv, ImagesTypeOK, States, OnlyBuildsAreReported
<1>b. ASSUME UNCHANGED records,
             \A i \in Names : Building(i)' <=> Building(i)
      PROVE  OnlyBuildsAreReported' /\ StatusStep
  BY <1>a, <1>b DEF OnlyBuildsAreReported, StatusStep, Reported
<1>c. ASSUME UNCHANGED records, job.at \notin {"boot", "convert"}, job'.at \notin {"boot", "convert"}
      PROVE  OnlyBuildsAreReported' /\ StatusStep
  BY <1>b, <1>c DEF Building
<1>d. ASSUME UNCHANGED <<records, job>>
      PROVE  OnlyBuildsAreReported' /\ StatusStep
  BY <1>b, <1>d DEF Building
<1>e. ASSUME job.at \in {"boot", "convert"}, job'.at \notin {"boot", "convert"},
             \A i \in Names : Building(i) => ~Reported(i)',
             \A i \in Names : ~Building(i) => records'[i] = records[i]
      PROVE  OnlyBuildsAreReported' /\ StatusStep
  BY <1>a, <1>e DEF OnlyBuildsAreReported, StatusStep, Reported, Building
<1>1. ASSUME NEW c \in Clients, NEW p \in Projects, NEW want \in SUBSET Packages,
           NEW approved \in BOOLEAN, Ensure(c, p, want, approved)
      PROVE  OnlyBuildsAreReported' /\ StatusStep
  BY <1>1, <1>d DEF Ensure, tracker
<1>2. ASSUME NEW c \in Clients, NEW i \in Names, NEW want \in SUBSET Packages,
           NEW approved \in BOOLEAN, Build(c, i, want, approved)
      PROVE  OnlyBuildsAreReported' /\ StatusStep
  BY <1>2, <1>d DEF Build, tracker
<1>3. ASSUME NEW c \in Clients, NEW i \in Names, RemoveImage(c, i)
      PROVE  OnlyBuildsAreReported' /\ StatusStep
  BY <1>3, <1>d DEF RemoveImage, tracker
<1>4. ASSUME NEW c \in Clients, Unregister(c) \/ Unlink(c) \/ Pop(c) \/ ClientBinds(c)
      PROVE  OnlyBuildsAreReported' /\ StatusStep
  BY <1>4, <1>d DEF Unregister, Unlink, Pop, ClientBinds, tracker
<1>5. CASE TakeJob
  BY <1>5, <1>c DEF TakeJob, tracker, Idle
<1>6. CASE PlanAgain
  <2>1. job.call \in Call /\ job.call.kind = "ensure" /\ job.call.project \in Projects
    BY <1>6 DEF PlanAgain, ImagesInv, ImagesTypeOK, Thread, JobIsOn
  <2>2. Planned(job.call).at \in {"idle", "bind", "start"}
    BY <2>1, PlanEffect
  <2> QED BY <1>6, <1>c, <2>2 DEF PlanAgain, tracker
<1>7. CASE StartBuild
  <2>1. PICK i \in Names : i = job.call.image /\ Track(i) /\ job.at = "start"
    BY <1>7 DEF StartBuild, ImagesInv, JobIsOn
  <2>2. job'.at = "boot" /\ job'.call.image = i
    BY <1>7, <1>a, <2>1 DEF StartBuild, Thread
  <2>3. \A j \in Names : ~Reported(j) /\ ~Building(j)
    BY <1>a, <2>1 DEF Building
  <2>4. /\ \A j \in Names \ {i} : records'[j] \in {records[j], "none"}
        /\ (\A k \in DOMAIN listed : listed[k] # i) => records'[i] = "pending"
    BY <2>1, TrackEffect
  <2>5. \A j \in Names : Building(j)' <=> j = i
    BY <2>2 DEF Building
  <2>6. \A j \in Names \ {i} : ~Reported(j)'
    BY <2>3, <2>4 DEF Reported
  <2>7. Reported(i)' \/ \E k \in DOMAIN listed : listed[k] = i
    BY <2>4 DEF Reported
  <2>8. OnlyBuildsAreReported'
    BY <2>5, <2>6 DEF OnlyBuildsAreReported
  <2>9. StatusStep
    BY <2>3, <2>5, <2>6, <2>7 DEF StatusStep
  <2> QED BY <2>8, <2>9
<1>8. CASE InstallPackages
  <2>1. /\ job.at = "boot" /\ job'.at = "convert" /\ job'.call = job.call
        /\ records' = [records EXCEPT ![job.call.image] = IF @ = "none" THEN @ ELSE "running"]
    BY <1>8, <1>a DEF InstallPackages, ReportBuild, Thread
  <2>2. \A i \in Names : Building(i)' <=> Building(i)
    BY <2>1 DEF Building
  <2>3. \A i \in Names : ~Building(i) => records'[i] = records[i]
    BY <1>a, <2>1 DEF Building
  <2>4. \A i \in Names : Reported(i) => Reported(i)'
    BY <1>a, <2>1 DEF Reported
  <2> QED BY <1>a, <2>2, <2>3, <2>4 DEF OnlyBuildsAreReported, StatusStep, Reported
<1>9. CASE BuildFails
  <2>1. /\ job.at \in {"boot", "convert"} /\ job'.at = "idle"
        /\ records' = [records EXCEPT ![job.call.image] = IF @ = "none" THEN @ ELSE "error"]
    BY <1>9 DEF BuildFails, ReportBuild, Idle
  <2>2. /\ \A i \in Names : Building(i) => ~Reported(i)'
        /\ \A i \in Names : ~Building(i) => records'[i] = records[i]
    BY <1>a, <2>1 DEF Building, Reported
  <2> QED BY <1>e, <2>1, <2>2
<1>10. CASE Convert
  <2>1. /\ job.at = "convert" /\ job'.at = "register"
        /\ records' = [records EXCEPT ![job.call.image] = IF @ = "none" THEN @ ELSE "done"]
    BY <1>10, <1>a DEF Convert, ReportBuild, Thread
  <2>2. /\ \A i \in Names : Building(i) => ~Reported(i)'
        /\ \A i \in Names : ~Building(i) => records'[i] = records[i]
    BY <1>a, <2>1 DEF Building, Reported
  <2> QED BY <1>e, <2>1, <2>2
<1>11. CASE RegisterImage
  BY <1>11, <1>a, <1>c DEF RegisterImage, tracker, Thread
<1>12. CASE ApplyImage
  BY <1>12, <1>a, <1>c DEF ApplyImage, tracker, Thread, Idle
<1>13. CASE JobBinds
  <2>1. /\ UNCHANGED records /\ job.at \in {"bind", "bound", "told"}
        /\ job'.at \in {"idle", "bound", "told"}
    BY <1>13, JobBindsEffect DEF tracker
  <2> QED BY <1>c, <2>1
<1>14. ASSUME NEW i \in Names, SeatMade(i) \/ SeatGone(i)
       PROVE  OnlyBuildsAreReported' /\ StatusStep
  BY <1>14, <1>d DEF SeatMade, SeatGone, tracker
<1>15. CASE ImagesRestart
  <2>1. job'.at = "idle" /\ \A i \in Names : ~Reported(i)'
    BY <1>15 DEF ImagesRestart, Idle, Reported
  <2> QED BY <2>1 DEF OnlyBuildsAreReported, StatusStep, Building
<1>16. CASE UNCHANGED imagesVars
  BY <1>16, <1>d DEF imagesVars, tracker
<1> QED BY <1>1, <1>2, <1>3, <1>4, <1>5, <1>6, <1>7, <1>8, <1>9, <1>10, <1>11, <1>12,
           <1>13, <1>14, <1>15, <1>16 DEF ImagesStep, JobStep

\* The daemon starts with empty registries and no work.
LEMMA ImagesInitInv == ASSUME ImagesAssumption, ImagesInit PROVE ImagesInv
<1> USE DEF ImagesAssumption, ImagesInit
<1>1. /\ disk \in Registry /\ mem \in Registry
      /\ \A i \in Names : disk.image[i] = NoEntry /\ mem.image[i] = NoEntry
  BY DEF Registry
<1>2. Idle \in Thread /\ Idle.at = "idle"
  BY DEF Idle, NoCall, Thread, Call
<1>3. ImagesTypeOK
  BY <1>1, <1>2 DEF ImagesTypeOK
<1>4. TrackedIsListed /\ OnlyBuildsAreReported
  BY DEF TrackedIsListed, ListedIn, Tracked, OnlyBuildsAreReported, Reported
<1>5. JobIsOn /\ JobsAreCalls /\ BindsWhatItPlanned(job)
  BY <1>2 DEF JobIsOn, JobsAreCalls, BindsWhatItPlanned, Binding, BuildStages
<1>6. \A c \in Clients : ClientIsOn(c) /\ BindsWhatItPlanned(client[c])
  BY <1>2 DEF ClientIsOn, BindsWhatItPlanned, Binding, Leaving
<1>7. ASSUME NEW i \in Names PROVE Sound(i)
  <2>1. ~Spoils(i)
    BY <1>2 DEF Spoils, Deleted
  <2> QED BY <1>1, <1>2, <2>1 DEF Sound, Holds, Binding
<1> QED BY <1>3, <1>4, <1>5, <1>6, <1>7 DEF ImagesInv

\* Every step keeps the invariant.
LEMMA ImagesNextInv ==
    ASSUME ImagesAssumption, ImagesInv, [ImagesNext]_imagesVars
    PROVE  ImagesInv' /\ StatusStep
<1>0. [ImagesStep]_imagesVars
  BY DEF ImagesNext
<1>1. (spoiled \subseteq Names)'
  BY DEF ImagesNext, imagesVars, ImagesInv, ImagesTypeOK
<1>2. ImagesTypeOK' /\ TrackedIsListed'
  BY <1>0, <1>1, ImagesConfig, ImagesFile, ImagesTracker, ImagesJobsType, ImagesJobType,
     ImagesClientType, ImagesCounters DEF ImagesTypeOK, FileTypeOK, CountersTypeOK, States
<1>3. (JobIsOn /\ JobsAreCalls /\ BindsWhatItPlanned(job))'
  BY <1>0, ImagesJob, ImagesCalls
<1>4. (\A c \in Clients : ClientIsOn(c) /\ BindsWhatItPlanned(client[c]))'
  BY <1>0, ImagesClient
<1>5. OnlyBuildsAreReported' /\ StatusStep
  BY <1>0, ImagesReports
<1>6. ASSUME NEW i \in Names, i \notin spoiled' PROVE Sound(i)'
  <2>1. CASE ImagesNext
    <3>1. ~Spoils(i)' /\ (i \notin spoiled \/ Forgotten(i)')
      BY <1>6, <2>1 DEF ImagesNext
    <3>2. CASE i \notin spoiled
      <4>1. Sound(i)
        BY <3>2 DEF ImagesInv
      <4>2. (\A c \in Clients : ClientIsOn(c))'
        BY <1>4
      <4> QED BY <1>0, <1>3, <3>1, <4>1, <4>2, ImagesSound
    <3>3. CASE Forgotten(i)'
      BY <1>3, <1>4, <3>1, <3>3, ForgottenIsSound
    <3> QED BY <3>1, <3>2, <3>3
  <2>2. CASE UNCHANGED imagesVars
    <3>1. UNCHANGED <<disk, mem, file, job, client, spoiled>>
      BY <2>2 DEF imagesVars, config
    <3>2. Sound(i)
      BY <1>6, <3>1 DEF ImagesInv
    <3> QED BY <3>1, <3>2 DEF Sound, Spoils, Deleted, InUse, Holds, Binding
  <2> QED BY <2>1, <2>2
<1>7. (\A i \in Names \ spoiled : Sound(i))'
  BY <1>6
<1> QED BY <1>2, <1>3, <1>4, <1>5, <1>7 DEF ImagesInv

\* The invariant holds throughout.
LEMMA ImagesInvAlways == ASSUME ImagesAssumption PROVE ImagesSpec => []ImagesInv
BY ImagesInitInv, ImagesNextInv, PTL DEF ImagesSpec

(* Every variable of Images keeps its type: the tracker may drop records,  *)
(* but always finds in its order the ones it still has.                    *)
THEOREM ImageTypes == ASSUME ImagesAssumption PROVE ImagesSpec => []ImagesTypeOK
<1>1. ImagesInv => ImagesTypeOK
  BY DEF ImagesInv
<1> QED BY <1>1, ImagesInvAlways, PTL

\* Who is told has the binding, and a sound image has what the call wants.
LEMMA ImagesUsable == ASSUME ImagesAssumption, ImagesInv PROVE SatisfiedIsUsable
<1>0. NoEntry \notin SUBSET Packages
  BY DEF ImagesAssumption
<1> SUFFICES ASSUME NEW t \in {job} \cup {client[c] : c \in Clients}, t.at = "told"
             PROVE  /\ mem.project[t.call.project] = t.call.image
                    /\ t.call.image \notin spoiled =>
                          /\ file[t.call.image].is = "whole"
                          /\ t.call.want \subseteq file[t.call.image].has
  BY DEF SatisfiedIsUsable
<1> DEFINE i == t.call.image
<1>1. BindsWhatItPlanned(t) /\ t \in Thread /\ i \in Names
  BY DEF ImagesInv, ImagesTypeOK, JobIsOn, ClientIsOn
<1>2. Binding(t)
  BY DEF Binding
<1>3. mem.project[t.call.project] = i
  BY <1>1, <1>2 DEF BindsWhatItPlanned
<1>4. t.call.want # NoEntry
  BY <1>0, <1>1 DEF Thread, Call
<1>5. i \notin spoiled => Holds(i, t.call.want)
  <2> SUFFICES ASSUME i \notin spoiled PROVE Holds(i, t.call.want)
    OBVIOUS
  <2>1. Sound(i)
    BY <1>1 DEF ImagesInv
  <2> QED BY <1>2, <2>1 DEF Sound
<1> QED BY <1>3, <1>4, <1>5 DEF Holds

(* A call of image_ensure that is told its image is there has its project  *)
(* bound to it, and the image is whole and has the packages the call asked *)
(* for unless it is spoiled, for any number of images, packages, projects  *)
(* and clients.  What a client or a job planned from is read long before it*)
(* acts: no other build, binding, failed write or restart in between makes *)
(* the answer wrong, and a removal only if it met a call or a failed write.*)
THEOREM AnswersAreUsable == ASSUME ImagesAssumption PROVE ImagesSpec => []SatisfiedIsUsable
<1>1. ImagesInv => SatisfiedIsUsable
  BY ImagesUsable
<1> QED BY <1>1, ImagesInvAlways, PTL

(* Only a build that runs has a record that says so, and its record lasts  *)
(* as long as the build does, however few records the tracker keeps and    *)
(* however many others it drops for it; only a record whose name was in    *)
(* the order already may be dropped by the very call that makes it.        *)
THEOREM StatusStaysLive == ASSUME ImagesAssumption PROVE ImagesSpec => StatusIsLive
<1>1. ImagesInv /\ [ImagesNext]_imagesVars => [StatusStep]_imagesVars
  BY ImagesNextInv
<1> QED BY <1>1, ImagesInvAlways, PTL DEF ImagesSpec, StatusIsLive

-----------------------------------------------------------------------------
(* Settings.                                                               *)

\* Only the thread that holds the lock is between its read and the end of its write.
LockHeld == \A e \in Editors : editor[e].at \in {"read", "write", "flush"} => lock = e

\* What a thread is about to write back is what the file has now, or had before this
\* thread emptied it.
ReadIsFresh == \A e \in Editors : editor[e].at = "write" => editor[e].read = onDisk

\* What it writes was found valid.
FlushIsValid ==
    \A e \in Editors : editor[e].at = "flush" => Valid(Merged(editor[e].read, editor[e].change))

SettingsInv == SettingsTypeOK /\ LockHeld /\ ReadIsFresh /\ FlushIsValid

\* A merge of a document and a change is a document.
LEMMA MergedType ==
    ASSUME NEW d \in Document, NEW change \in Change
    PROVE  Merged(d, change) \in Document
<1> SUFFICES ASSUME NEW k \in Keys
             PROVE  (IF k \in DOMAIN change THEN change[k] ELSE d[k]) \in Widths
  BY DEF Merged, Document
<1>1. d[k] \in Widths
  BY DEF Document
<1>2. PICK K \in SUBSET Keys : change \in [K -> Widths]
  BY DEF Change
<1> QED BY <1>1, <1>2

\* The document every thread starts from.
LEMMA DefaultType == ASSUME SettingsAssumption PROVE Default \in Document /\ Default \in Change
<1>1. 0 \in Widths
  BY DEF SettingsAssumption, Widths
<1>2. Default \in Document
  BY <1>1 DEF Default, Document
<1>3. Keys # {}
  BY DEF Keys
<1>4. Document \subseteq Change
  BY <1>3 DEF Document, Change
<1> QED BY <1>2, <1>4

LEMMA SettingsInitInv == ASSUME SettingsAssumption, SettingsInit PROVE SettingsInv
<1>1. SettingsTypeOK
  BY DefaultType DEF SettingsAssumption, SettingsInit, SettingsTypeOK, Ready
<1>2. LockHeld /\ ReadIsFresh /\ FlushIsValid
  BY DEF SettingsInit, LockHeld, ReadIsFresh, FlushIsValid, Ready
<1> QED BY <1>1, <1>2 DEF SettingsInv

Editing == [at: {"idle", "lock", "read", "write", "flush", "apply"}, change: Change, read: Document]

\* A thread that moves keeps what it changes and what it has read.
LEMMA SettingsMoved ==
    ASSUME SettingsTypeOK, NEW e \in Editors, NEW from,
           NEW to \in {"read", "flush", "apply", "idle"}, Move(e, from, to)
    PROVE  /\ editor' \in [Editors -> Editing]
           /\ editor[e].at = from /\ editor'[e].at = to
           /\ editor'[e].change = editor[e].change /\ editor'[e].read = editor[e].read
           /\ \A f \in Editors \ {e} : editor'[f] = editor[f]
<1>1. /\ editor'[e].at = to
      /\ editor'[e].change = editor[e].change /\ editor'[e].read = editor[e].read
      /\ \A f \in Editors \ {e} : editor'[f] = editor[f]
  BY DEF Move, SettingsTypeOK
<1>2. editor' \in [Editors -> Editing]
  BY DEF Move, SettingsTypeOK, Editing
<1> QED BY <1>1, <1>2 DEF Move

LEMMA SettingsNextInv ==
    ASSUME SettingsAssumption, SettingsInv, [SettingsNext]_settingsVars
    PROVE  SettingsInv'
<1> USE DEF SettingsInv
<1>1. ASSUME NEW e \in Editors, NEW change \in Change, SetConfigValues(e, change)
      PROVE  SettingsInv'
  <2>1. SettingsTypeOK'
    BY <1>1, DefaultType DEF SetConfigValues, SettingsTypeOK, SettingsAssumption
  <2>2. /\ editor'[e].at = "lock" /\ \A f \in Editors \ {e} : editor'[f] = editor[f]
        /\ UNCHANGED <<lock, onDisk>>
    BY <1>1 DEF SetConfigValues, SettingsTypeOK
  <2>3. LockHeld' /\ ReadIsFresh' /\ FlushIsValid'
    BY <2>2 DEF LockHeld, ReadIsFresh, FlushIsValid, Merged
  <2> QED BY <2>1, <2>3
<1>2. ASSUME NEW e \in Editors, Acquire(e)
      PROVE  SettingsInv'
  <2>1. SettingsTypeOK'
    BY <1>2, SettingsMoved DEF Acquire, SettingsTypeOK, Editing
  <2>2. LockHeld' /\ ReadIsFresh' /\ FlushIsValid'
    BY <1>2, SettingsMoved DEF Acquire, LockHeld, ReadIsFresh, FlushIsValid, Merged, SettingsAssumption
  <2> QED BY <2>1, <2>2
<1>3. ASSUME NEW e \in Editors, ReadFile(e)
      PROVE  SettingsInv'
  <2>1. SettingsTypeOK'
    BY <1>3 DEF ReadFile, SettingsTypeOK
  <2>2. /\ editor[e].at = "read" /\ editor'[e].at = "write" /\ editor'[e].read = onDisk
        /\ \A f \in Editors \ {e} : editor'[f] = editor[f]
        /\ UNCHANGED <<lock, onDisk>>
    BY <1>3 DEF ReadFile, SettingsTypeOK
  <2>3. LockHeld' /\ ReadIsFresh' /\ FlushIsValid'
    BY <2>2 DEF LockHeld, ReadIsFresh, FlushIsValid, Merged
  <2> QED BY <2>1, <2>3
<1>4. ASSUME NEW e \in Editors, Truncate(e)
      PROVE  SettingsInv'
  <2>1. SettingsTypeOK'
    BY <1>4, SettingsMoved, DefaultType DEF Truncate, SettingsTypeOK, Editing
  <2>2. LockHeld' /\ ReadIsFresh' /\ FlushIsValid'
    BY <1>4, SettingsMoved DEF Truncate, LockHeld, ReadIsFresh, FlushIsValid, Merged
  <2> QED BY <2>1, <2>2
<1>5. ASSUME NEW e \in Editors, WriteFile(e)
      PROVE  SettingsInv'
  <2>1. onDisk' \in Document
    BY <1>5, MergedType DEF WriteFile, SettingsTypeOK
  <2>2. SettingsTypeOK'
    BY <1>5, <2>1, SettingsMoved DEF WriteFile, SettingsTypeOK, Editing
  <2>3. LockHeld' /\ ReadIsFresh' /\ FlushIsValid'
    BY <1>5, SettingsMoved DEF WriteFile, LockHeld, ReadIsFresh, FlushIsValid, Merged, SettingsAssumption
  <2> QED BY <2>2, <2>3
<1>6. ASSUME NEW e \in Editors, Reject(e)
      PROVE  SettingsInv'
  <2>1. SettingsTypeOK'
    BY <1>6, SettingsMoved DEF Reject, SettingsTypeOK, Editing
  <2>2. LockHeld' /\ ReadIsFresh' /\ FlushIsValid'
    BY <1>6, SettingsMoved DEF Reject, LockHeld, ReadIsFresh, FlushIsValid, Merged, SettingsAssumption
  <2> QED BY <2>1, <2>2
<1>7. ASSUME NEW e \in Editors, Apply(e)
      PROVE  SettingsInv'
  <2>1. inMemory' \in Document
    BY <1>7, MergedType DEF Apply, SettingsTypeOK
  <2>2. SettingsTypeOK'
    BY <1>7, <2>1, SettingsMoved DEF Apply, SettingsTypeOK, Editing
  <2>3. LockHeld' /\ ReadIsFresh' /\ FlushIsValid'
    BY <1>7, SettingsMoved DEF Apply, LockHeld, ReadIsFresh, FlushIsValid, Merged
  <2> QED BY <2>2, <2>3
<1>8. CASE Restart
  <2>1. SettingsTypeOK'
    BY <1>8, DefaultType DEF Restart, SettingsTypeOK, Ready, SettingsAssumption
  <2>2. LockHeld' /\ ReadIsFresh' /\ FlushIsValid'
    BY <1>8 DEF Restart, LockHeld, ReadIsFresh, FlushIsValid, Ready
  <2> QED BY <2>1, <2>2
<1>9. CASE UNCHANGED settingsVars
  BY <1>9 DEF settingsVars, SettingsTypeOK, LockHeld, ReadIsFresh, FlushIsValid, Merged
<1> QED BY <1>1, <1>2, <1>3, <1>4, <1>5, <1>6, <1>7, <1>8, <1>9 DEF SettingsNext

LEMMA SettingsInvHolds == ASSUME SettingsAssumption PROVE SettingsSpec => []SettingsInv
<1>1. SettingsInit => SettingsInv
  BY SettingsInitInv
<1>2. SettingsInv /\ [SettingsNext]_settingsVars => SettingsInv'
  BY SettingsNextInv
<1> QED BY <1>1, <1>2, PTL DEF SettingsSpec

\* Every variable of the configuration and its writers keeps its type: the file and
\* the copy in memory are whole documents.
THEOREM SettingsTypes == ASSUME SettingsAssumption PROVE SettingsSpec => []SettingsTypeOK
<1>1. SettingsInv => SettingsTypeOK
  BY DEF SettingsInv
<1> QED BY <1>1, SettingsInvHolds, PTL

-----------------------------------------------------------------------------
(* Settings implements Updates: a change takes effect when it is written,  *)
(* and every other step changes what is pending, or nothing that counts.   *)

\* What is pending on the file.
Pending == [e \in Editors |-> Asked(e)]

LEMMA ContentType == ASSUME SettingsInv PROVE Content \in Document
  BY DEF Content, SettingsInv, SettingsTypeOK

\* The change of a document is the one Updates speaks of.
LEMMA WithIsMerged ==
    ASSUME SettingsInv, NEW change PROVE File!With(change) = Merged(Content, change)
<1>1. DOMAIN Content = Keys
  BY ContentType DEF Document
<1> QED BY <1>1 DEF File!With, Merged

\* One thread's change of state is one thread's change of what is pending.
LEMMA PendingMoves ==
    ASSUME NEW e \in Editors, \A f \in Editors \ {e} : editor'[f] = editor[f]
    PROVE  Pending' = [Pending EXCEPT ![e] = Asked(e)']
<1>1. \A f \in Editors \ {e} : Asked(f)' = Asked(f)
  BY DEF Asked
<1> QED BY <1>1 DEF Pending

\* A step that leaves what is pending and what the file says.
LEMMA FileStutters ==
    ASSUME NEW e \in Editors, \A f \in Editors \ {e} : editor'[f] = editor[f],
           Asked(e)' = Asked(e), Content' = Content
    PROVE  UNCHANGED File!vars
<1>1. Pending' = Pending
  BY PendingMoves DEF Pending
<1> QED BY <1>1 DEF File!vars, Pending

\* What the file says changes when a write ends.
LEMMA ContentStays ==
    ASSUME SettingsAssumption, SettingsInv, NEW e \in Editors,
           \A f \in Editors \ {e} : editor'[f] = editor[f],
           editor[e].at # "flush", editor'[e].at # "flush", UNCHANGED onDisk,
           lock' = lock \/ {lock, lock'} \subseteq {e, Nobody}
    PROVE  Content' = Content
  BY DEF Content, SettingsInv, SettingsTypeOK

LEMMA FileStep ==
    ASSUME SettingsAssumption, WriteTears = FALSE, SettingsInv, [SettingsNext]_settingsVars
    PROVE  [File!Next]_File!vars
<1>1. ASSUME NEW e \in Editors, NEW change \in Change, SetConfigValues(e, change)
      PROVE  File!Next
  <2>1. /\ editor[e].at = "idle" /\ editor'[e].at = "lock" /\ editor'[e].change = change
        /\ \A f \in Editors \ {e} : editor'[f] = editor[f]
        /\ UNCHANGED <<lock, onDisk>>
    BY <1>1 DEF SetConfigValues, SettingsInv, SettingsTypeOK
  <2>2. Asked(e) = {} /\ Asked(e)' = {change} /\ Content' = Content
    BY <2>1, ContentStays DEF Asked
  <2>3. Pending' = [Pending EXCEPT ![e] = {change}] /\ Pending[e] = {}
    BY <2>1, <2>2, PendingMoves DEF Pending
  <2>4. File!Ask(e, change)
    BY <2>2, <2>3 DEF File!Ask, Pending
  <2> QED BY <2>4 DEF File!Next
<1>2. ASSUME NEW e \in Editors, Acquire(e) \/ ReadFile(e)
      PROVE  UNCHANGED File!vars
  <2>1. /\ \A f \in Editors \ {e} : editor'[f] = editor[f]
        /\ editor[e].at \in {"lock", "read"} /\ editor'[e].at \in {"read", "write"}
        /\ editor'[e].change = editor[e].change /\ UNCHANGED onDisk
        /\ lock' = lock \/ {lock, lock'} \subseteq {e, Nobody}
    BY <1>2, SettingsMoved DEF Acquire, ReadFile, SettingsInv, SettingsTypeOK
  <2>2. Asked(e)' = Asked(e) /\ Content' = Content
    BY <2>1, ContentStays DEF Asked
  <2> QED BY <2>1, <2>2, FileStutters
<1>3. ASSUME NEW e \in Editors, Truncate(e)
      PROVE  UNCHANGED File!vars
  <2>1. /\ \A f \in Editors \ {e} : editor'[f] = editor[f]
        /\ editor[e].at = "write" /\ editor'[e].at = "flush"
        /\ editor'[e].change = editor[e].change /\ editor'[e].read = editor[e].read
        /\ UNCHANGED lock
    BY <1>3, SettingsMoved DEF Truncate, SettingsInv
  <2>2. lock = e /\ editor[e].read = onDisk /\ e # Nobody
    BY <2>1 DEF SettingsInv, LockHeld, ReadIsFresh, SettingsAssumption
  <2>3. Asked(e)' = Asked(e) /\ Content' = Content
    BY <2>1, <2>2 DEF Asked, Content
  <2> QED BY <2>1, <2>3, FileStutters
<1>4. ASSUME NEW e \in Editors, WriteFile(e)
      PROVE  File!Next
  <2>1. /\ \A f \in Editors \ {e} : editor'[f] = editor[f]
        /\ editor[e].at = "flush" /\ editor'[e].at = "apply" /\ lock' = Nobody
        /\ onDisk' = Merged(editor[e].read, editor[e].change)
    BY <1>4, SettingsMoved DEF WriteFile, SettingsInv
  <2>2. lock = e /\ e # Nobody
    BY <2>1 DEF SettingsInv, LockHeld, SettingsAssumption
  <2>3. Content = editor[e].read /\ Content' = Merged(Content, editor[e].change)
    BY <2>1, <2>2 DEF Content
  <2>4. Asked(e) = {editor[e].change} /\ Asked(e)' = {}
    BY <2>1 DEF Asked
  <2>5. Pending[e] = {editor[e].change} /\ Pending' = [Pending EXCEPT ![e] = {}]
    BY <2>1, <2>4, PendingMoves DEF Pending
  <2>6. Merged(Content, editor[e].change) \in {d \in Document : Valid(d)}
    BY <2>1, <2>3, MergedType DEF SettingsInv, FlushIsValid, SettingsTypeOK
  <2>7. File!Commit(e)
    BY <2>3, <2>5, <2>6, WithIsMerged DEF File!Commit, Pending
  <2> QED BY <2>7 DEF File!Next
<1>5. ASSUME NEW e \in Editors, Reject(e)
      PROVE  File!Next
  <2>1. /\ \A f \in Editors \ {e} : editor'[f] = editor[f]
        /\ editor[e].at = "write" /\ editor'[e].at = "idle" /\ lock' = Nobody
        /\ UNCHANGED onDisk /\ ~Valid(Merged(editor[e].read, editor[e].change))
    BY <1>5, SettingsMoved DEF Reject, SettingsInv
  <2>2. lock = e /\ editor[e].read = onDisk
    BY <2>1 DEF SettingsInv, LockHeld, ReadIsFresh
  <2>3. Content = onDisk /\ Content' = Content
    BY <2>1, <2>2, ContentStays DEF Content
  <2>4. Asked(e) = {editor[e].change} /\ Asked(e)' = {}
    BY <2>1 DEF Asked
  <2>5. Pending[e] = {editor[e].change} /\ Pending' = [Pending EXCEPT ![e] = {}]
    BY <2>1, <2>4, PendingMoves DEF Pending
  <2>6. File!Refuse(e)
    BY <2>1, <2>2, <2>3, <2>5, WithIsMerged DEF File!Refuse, Pending
  <2> QED BY <2>6 DEF File!Next
<1>6. ASSUME NEW e \in Editors, Apply(e)
      PROVE  UNCHANGED File!vars
  <2>1. /\ \A f \in Editors \ {e} : editor'[f] = editor[f]
        /\ editor[e].at = "apply" /\ editor'[e].at = "idle" /\ UNCHANGED <<lock, onDisk>>
    BY <1>6, SettingsMoved DEF Apply, SettingsInv
  <2>2. Asked(e)' = Asked(e) /\ Content' = Content
    BY <2>1, ContentStays DEF Asked
  <2> QED BY <2>1, <2>2, FileStutters
<1>7. CASE Restart
  <2>1. /\ \A e \in Editors : editor[e].at # "flush" /\ editor'[e].at = "idle"
        /\ lock' = Nobody /\ UNCHANGED onDisk
    BY <1>7 DEF Restart, Ready
  <2>2. Content' = Content
    BY <2>1 DEF Content, SettingsInv, SettingsTypeOK
  <2>3. Pending' = [e \in Editors |-> {}]
    BY <2>1 DEF Pending, Asked
  <2>4. File!Forget
    BY <2>2, <2>3 DEF File!Forget, Pending
  <2> QED BY <2>4 DEF File!Next
<1>8. CASE UNCHANGED settingsVars
  BY <1>8 DEF settingsVars, File!vars, Content, Asked
<1> QED BY <1>1, <1>2, <1>3, <1>4, <1>5, <1>6, <1>7, <1>8 DEF SettingsNext

LEMMA FileStarts == ASSUME SettingsInit PROVE File!Init
<1>1. Content = Default /\ \A e \in Editors : Asked(e) = {}
  BY DEF SettingsInit, Content, Asked, Ready
<1> QED BY <1>1 DEF File!Init

(* Changes of the configuration take effect one after the other, for any   *)
(* number of threads and any documents: the lock makes the document a      *)
(* thread writes back the one that is in the file, but for the keys it     *)
(* changes.  It takes a daemon that is not killed inside write_text.       *)
THEOREM UpdatesAreAtomic ==
    ASSUME SettingsAssumption, WriteTears = FALSE PROVE SettingsSpec => UpdatePromise
<1>1. SettingsInit => File!Init
  BY FileStarts
<1>2. SettingsInv /\ [SettingsNext]_settingsVars => [File!Next]_File!vars
  <2> SUFFICES ASSUME SettingsInv, [SettingsNext]_settingsVars PROVE [File!Next]_File!vars
    OBVIOUS
  <2> QED BY FileStep DEF File!vars
<1> QED BY <1>1, <1>2, SettingsInvHolds, PTL DEF SettingsSpec, UpdatePromise, File!Spec

-----------------------------------------------------------------------------
(* What the daemon keeps on disk (MCStorage): a step of one component      *)
(* leaves the variables of the others alone, so the invariants hold side   *)
(* by side.                                                                *)

StorageHypothesis ==
    ExportAssumption /\ MachinesAssumption /\ ImagesAssumption /\ SettingsAssumption

StorageInv == Inv /\ ControlTyped /\ MachinesInv /\ ImagesInv /\ SettingsInv

\* A step of the storage is a step of each component, or leaves it alone.
LEMMA StorageParts ==
    ASSUME [StorageNext]_<<vars, machinesVars, imagesVars, settingsVars, part>>
    PROVE  /\ [Next]_vars /\ [MachinesNext]_machinesVars
           /\ [ImagesNext]_imagesVars /\ [SettingsNext]_settingsVars
BY DEF StorageNext, ExportRuns, MachinesRun, ImagesRun, SettingsRun

LEMMA StorageInitInv == ASSUME StorageHypothesis, StorageInit PROVE StorageInv
<1>1. Inv /\ ControlTyped
  BY InitInv, InitControl DEF StorageHypothesis, StorageInit
<1>2. MachinesInv /\ ImagesInv /\ SettingsInv
  BY MachinesInitInv, ImagesInitInv, SettingsInitInv DEF StorageHypothesis, StorageInit
<1> QED BY <1>1, <1>2 DEF StorageInv

LEMMA StorageNextInv ==
    ASSUME StorageHypothesis, StorageInv,
           [StorageNext]_<<vars, machinesVars, imagesVars, settingsVars, part>>
    PROVE  StorageInv'
<1>1. Inv' /\ ControlTyped'
  BY StorageParts, StepKeepsInv, StepKeepsControl DEF StorageHypothesis, StorageInv
<1>2. MachinesInv' /\ ImagesInv' /\ SettingsInv'
  BY StorageParts, MachinesNextInv, ImagesNextInv, SettingsNextInv DEF StorageHypothesis, StorageInv
<1> QED BY <1>1, <1>2 DEF StorageInv

LEMMA StorageInvAlways == ASSUME StorageHypothesis PROVE StorageSpec => []StorageInv
BY StorageInitInv, StorageNextInv, PTL DEF StorageSpec

(* Every variable of the storage keeps its type, whichever component the   *)
(* behaviour is about: histories of commits, whole machines and images or  *)
(* none, and documents.                                                    *)
THEOREM StorageTypes == ASSUME StorageHypothesis PROVE StorageSpec => []StorageTypeOK
<1>1. Inv /\ ControlTyped => TypeOK
  BY DEF Inv, HistoriesTyped, ControlTyped, TypeOK
<1>2. StorageInv => StorageTypeOK
  BY <1>1 DEF StorageInv, MachinesInv, ImagesInv, SettingsInv, StorageTypeOK
<1> QED BY <1>2, StorageInvAlways, PTL

(* What each component promises, it promises beside the others: an export  *)
(* that was reported has landed, a seat has an identity and an address of  *)
(* its own, and an image that is answered for and not spoiled is usable.   *)
THEOREM StorageIsSafe ==
    ASSUME StorageHypothesis
    PROVE  StorageSpec => [](OkMeansLanded /\ OwnIdentity /\ DistinctAddresses /\ SatisfiedIsUsable)
<1>1. StorageInv => OkMeansLanded /\ OwnIdentity /\ DistinctAddresses /\ SatisfiedIsUsable
  BY MachinesOwn, ImagesUsable DEF StorageInv, StorageHypothesis, Inv, MachinesInv
<1> QED BY <1>1, StorageInvAlways, PTL DEF StorageSpec

(* What is exported is what the gate approved and lands once, and a change *)
(* of the settings takes effect at once and whole, beside whatever else the*)
(* daemon stores: the two abstract specifications are implemented by the   *)
(* storage as they are by Export and Settings alone, and the record of a   *)
(* build lasts as long as the build, as it does in Images alone.           *)
THEOREM StorageKeepsPromises ==
    ASSUME StorageHypothesis, WriteTears = FALSE
    PROVE  StorageSpec => ExportPromise /\ UpdatePromise /\ StatusIsLive
<1>1. StorageInit => Landing!Init /\ File!Init
  BY LandingStarts, FileStarts DEF StorageInit
<1>2. StorageInv /\ StorageInv' /\ [StorageNext]_<<vars, machinesVars, imagesVars, settingsVars, part>>
      => [Landing!Next]_Landing!vars
  <2> SUFFICES ASSUME StorageInv, StorageInv', [Next]_vars
               PROVE  [Landing!Next]_Landing!vars
    BY StorageParts
  <2> QED BY LandingStep DEF Landing!vars, StorageInv, StorageHypothesis
<1>3. StorageInv /\ [StorageNext]_<<vars, machinesVars, imagesVars, settingsVars, part>>
      => [File!Next]_File!vars
  <2> SUFFICES ASSUME StorageInv, [SettingsNext]_settingsVars
               PROVE  [File!Next]_File!vars
    BY StorageParts
  <2> QED BY FileStep DEF File!vars, StorageInv, StorageHypothesis
<1>4. StorageInv /\ [StorageNext]_<<vars, machinesVars, imagesVars, settingsVars, part>>
      => [StatusStep]_imagesVars
  <2> SUFFICES ASSUME StorageInv, [ImagesNext]_imagesVars
               PROVE  [StatusStep]_imagesVars
    BY StorageParts
  <2> QED BY ImagesNextInv DEF StorageInv, StorageHypothesis
<1> QED BY <1>1, <1>2, <1>3, <1>4, StorageInvAlways, PTL
    DEF StorageSpec, ExportPromise, UpdatePromise, StatusIsLive, Landing!Spec, File!Spec
=============================================================================
