------------------------------ MODULE Machines ------------------------------
(***************************************************************************)
(* What a seat's VM is made of (manager/libvirt_provisioner.py): its       *)
(* domain, its overlay with the identity and the boot mode of the guest,   *)
(* its metadata file and its pinned host key.  One thread, the manager's   *)
(* tick, creates, boots, resets and destroys seats, one call at a time; a  *)
(* build VM lives on the job thread.  Every step of a call may be its      *)
(* last: it fails, or the daemon dies and starts again.                    *)
(***************************************************************************)
EXTENDS Integers, FiniteSets

CONSTANTS Vms,             \* seats
          BuildVm,         \* the scratch domain of an image build
          PoolSize,        \* addresses of the [network] host range
          Hash,            \* where the search for a name's address starts
          MaxIdentities,   \* bound: identities generated
          MaxRestarts,     \* bound: crashes of the daemon
          BuildsAlone      \* no build VM runs while a seat has an address

MachinesAssumption ==
    /\ Vms # {} /\ BuildVm \notin Vms
    /\ PoolSize \in Nat \ {0}
    /\ Hash \in [Vms \cup {BuildVm} -> 0..(PoolSize - 1)]
    /\ MaxIdentities \in Nat /\ MaxRestarts \in Nat
    /\ BuildsAlone \in BOOLEAN

Addresses == 0..(PoolSize - 1)
NoAddress == -1
Golden == 0          \* the identity every image ships
NoIdentity == -1

VARIABLES domain,    \* the libvirt domain of a seat
          overlay,   \* its disk: the guest's identity, and its boot mode
          meta,      \* seat.json
          pinned,    \* the key in the seat's known_hosts
          recorded,  \* seats whose creation returned their reference
          usable,    \* seats wait_ready reported ready, until they change
          call,      \* where the tick thread's call is
          vm,        \* the seat it works on
          stale,     \* the metadata wait_ready loaded first
          build,     \* the build VM's address while its domain exists
          made,      \* identities generated so far
          restarts

machine == <<domain, overlay, meta, pinned>>
callVars == <<call, vm, stale>>
machinesVars == <<machine, recorded, usable, callVars, build, made, restarts>>

NoMeta == [ip |-> NoAddress, ready |-> FALSE, generation |-> 0]
NoDisk == [id |-> NoIdentity, mode |-> "none"]

Meta == [ip: Addresses \cup {NoAddress}, ready: BOOLEAN, generation: 0..MaxIdentities]

MachinesTypeOK ==
    /\ domain \in [Vms -> {"none", "off", "running"}]
    /\ overlay \in [Vms -> [id: NoIdentity..MaxIdentities, mode: {"none", "image", "seat"}]]
    /\ meta \in [Vms -> Meta]
    /\ pinned \in [Vms -> NoIdentity..MaxIdentities]
    /\ recorded \subseteq Vms
    /\ usable \subseteq recorded
    /\ call \in {"idle", "overlay", "define", "save", "start", "load", "rotate", "pin",
               "mode", "note", "ssh", "rebuild", "clear", "remove"}
    /\ vm \in Vms
    /\ stale \in Meta
    /\ build \in Addresses \cup {NoAddress}
    /\ made \in 0..MaxIdentities
    /\ restarts \in 0..MaxRestarts

MachinesInit ==
    /\ domain = [s \in Vms |-> "none"]
    /\ overlay = [s \in Vms |-> NoDisk]
    /\ meta = [s \in Vms |-> NoMeta]
    /\ pinned = [s \in Vms |-> NoIdentity]
    /\ recorded = {} /\ usable = {}
    /\ call = "idle" /\ vm = (CHOOSE s \in Vms : TRUE) /\ stale = NoMeta
    /\ build = NoAddress
    /\ made = 0 /\ restarts = 0

-----------------------------------------------------------------------------
(***************************************************************************)
(* Addresses: NetworkConfig.allocate over the addresses of the metadata    *)
(* files.                                                                  *)
(***************************************************************************)
\* Mutant: only seats that were ready keep their address.
UsedByReady(name) == {meta[s].ip : s \in {t \in Vms \ {name} : meta[t].ready}} \ {NoAddress}

Used(name) == {meta[s].ip : s \in Vms \ {name}} \ {NoAddress}

\* Mutant: the search runs out of the pool.
ProbeOnwards(name, k) == Hash[name] + k

\* Linear probing from the hash of the name, around the pool.
Probe(name, k) == (Hash[name] + k) % PoolSize

Free(name) == {k \in 0..(PoolSize - 1) : Probe(name, k) \notin Used(name)}

Allocated(name) == Probe(name, CHOOSE k \in Free(name) : \A j \in Free(name) : k <= j)

-----------------------------------------------------------------------------
CallGoes(from, to) == call = from /\ call' = to

BeginCall(s, to) ==
    /\ call = "idle"
    /\ call' = to
    /\ vm' = s

(***************************************************************************)
(* create_from_image.  The scheduler asks for a seat it has no VM of; a    *)
(* domain or an overlay that is there already is an error.                 *)
(***************************************************************************)
BeginCreate(s) ==
    /\ s \notin recorded
    /\ domain[s] = "none"
    /\ overlay[s] = NoDisk
    /\ BeginCall(s, "overlay")
    /\ UNCHANGED <<machine, recorded, usable, stale, build, made, restarts>>

CreateOverlay ==
    /\ CallGoes("overlay", "define")
    /\ overlay' = [overlay EXCEPT ![vm] = [id |-> Golden, mode |-> "image"]]
    /\ UNCHANGED <<domain, meta, pinned, recorded, usable, vm, stale, build, made, restarts>>

\* The address is chosen before the domain is defined, and recorded after.
DefineDomain ==
    /\ CallGoes("define", "save")
    /\ Free(vm) # {}
    /\ BuildsAlone => build = NoAddress
    /\ domain' = [domain EXCEPT ![vm] = "off"]
    /\ stale' = [NoMeta EXCEPT !.ip = Allocated(vm)]
    /\ UNCHANGED <<overlay, meta, pinned, recorded, usable, vm, build, made, restarts>>

\* virsh define fails: the seat's directory is removed.
DefineFails ==
    /\ CallGoes("define", "idle")
    /\ overlay' = [overlay EXCEPT ![vm] = NoDisk]
    /\ UNCHANGED <<domain, meta, pinned, recorded, usable, vm, stale, build, made, restarts>>

\* The reference is returned and the scheduler boots the seat.
SaveCreated ==
    /\ CallGoes("save", "start")
    /\ meta' = [meta EXCEPT ![vm] = stale]
    /\ recorded' = recorded \cup {vm}
    /\ UNCHANGED <<domain, overlay, pinned, usable, vm, stale, build, made, restarts>>

StartDomain ==
    /\ CallGoes("start", "load")
    /\ domain[vm] # "none"
    /\ domain' = [domain EXCEPT ![vm] = "running"]
    /\ UNCHANGED <<overlay, meta, pinned, recorded, usable, vm, stale, build, made, restarts>>

-----------------------------------------------------------------------------
(***************************************************************************)
(* wait_ready                                                              *)
(***************************************************************************)
LoadMeta ==
    /\ CallGoes("load", IF meta[vm].ready THEN "pin" ELSE "rotate")
    /\ stale' = meta[vm]
    /\ UNCHANGED <<machine, recorded, usable, vm, build, made, restarts>>

\* _ensure_identity: new host keys and a new machine id, in the guest ...
RotateIdentity ==
    /\ CallGoes("rotate", "pin")
    /\ made < MaxIdentities
    /\ made' = made + 1
    /\ overlay' = [overlay EXCEPT ![vm].id = made + 1]
    /\ UNCHANGED <<domain, meta, pinned, recorded, usable, vm, stale, build, restarts>>

\* ... whose key is read through the agent, pinned and noted.
PinIdentity ==
    /\ CallGoes("pin", "mode")
    /\ pinned' = [pinned EXCEPT ![vm] = overlay[vm].id]
    /\ meta' = [meta EXCEPT ![vm].ready = TRUE,
                            ![vm].generation = IF stale.ready THEN @ ELSE @ + 1]
    /\ UNCHANGED <<domain, overlay, recorded, usable, vm, stale, build, made, restarts>>

\* _apply_boot_mode: the guest, rebooted if its mode changes, and then the
\* metadata wait_ready loaded, identity fields included.
ApplyBootMode ==
    /\ CallGoes("mode", "note")
    /\ overlay' = [overlay EXCEPT ![vm].mode = "seat"]
    /\ UNCHANGED <<domain, meta, pinned, recorded, usable, vm, stale, build, made, restarts>>

NoteBootMode ==
    /\ CallGoes("note", "ssh")
    /\ meta' = [meta EXCEPT ![vm] = stale]
    /\ UNCHANGED <<domain, overlay, pinned, recorded, usable, vm, stale, build, made, restarts>>

\* SSH answers only when the guest's key is the pinned one.
SeatReady ==
    /\ CallGoes("ssh", "idle")
    /\ domain[vm] = "running"
    /\ overlay[vm].id = pinned[vm]
    /\ usable' = usable \cup {vm}
    /\ UNCHANGED <<machine, recorded, vm, stale, build, made, restarts>>

-----------------------------------------------------------------------------
(***************************************************************************)
(* reset                                                                   *)
(***************************************************************************)
BeginReset(s) ==
    /\ s \in recorded
    /\ meta[s] # NoMeta
    /\ BeginCall(s, "rebuild")
    /\ domain' = [domain EXCEPT ![s] = IF @ = "none" THEN @ ELSE "off"]
    /\ usable' = usable \ {s}
    /\ UNCHANGED <<overlay, meta, pinned, recorded, stale, build, made, restarts>>

RebuildOverlay ==
    /\ CallGoes("rebuild", "clear")
    /\ overlay' = [overlay EXCEPT ![vm] = [id |-> Golden, mode |-> "image"]]
    /\ UNCHANGED <<domain, meta, pinned, recorded, usable, vm, stale, build, made, restarts>>

\* Mutant: the rebuilt guest still counts as one that has its identity.
ClearMetaGeneration ==
    /\ CallGoes("clear", "start")
    /\ meta' = [meta EXCEPT ![vm].generation = @ + 1]
    /\ UNCHANGED <<domain, overlay, pinned, recorded, usable, vm, stale, build, made, restarts>>

\* The identity is gone with the overlay; the address stays.
ClearMeta ==
    /\ CallGoes("clear", "start")
    /\ meta' = [meta EXCEPT ![vm].ready = FALSE]
    /\ UNCHANGED <<domain, overlay, pinned, recorded, usable, vm, stale, build, made, restarts>>

-----------------------------------------------------------------------------
(***************************************************************************)
(* destroy: of a seat the scheduler is done with, or of an orphan domain   *)
(* (reconcile); the domain first, then the seat's directory.               *)
(***************************************************************************)
BeginDestroy(s) ==
    /\ s \in recorded \/ domain[s] # "none"
    /\ BeginCall(s, "remove")
    /\ domain' = [domain EXCEPT ![s] = "none"]
    /\ usable' = usable \ {s}
    /\ UNCHANGED <<overlay, meta, pinned, recorded, stale, build, made, restarts>>

RemoveDirectory ==
    /\ CallGoes("remove", "idle")
    /\ overlay' = [overlay EXCEPT ![vm] = NoDisk]
    /\ meta' = [meta EXCEPT ![vm] = NoMeta]
    /\ pinned' = [pinned EXCEPT ![vm] = NoIdentity]
    /\ recorded' = recorded \ {vm}
    /\ UNCHANGED <<domain, usable, vm, stale, build, made, restarts>>

-----------------------------------------------------------------------------
\* Any step may fail; what it did before stays.
CallFails ==
    /\ call \notin {"idle", "remove"}
    /\ call' = "idle"
    /\ UNCHANGED <<machine, recorded, usable, vm, stale, build, made, restarts>>

(***************************************************************************)
(* The build VM's address is allocated like a seat's and recorded nowhere. *)
(***************************************************************************)
StartBuildVm ==
    /\ build = NoAddress
    /\ Free(BuildVm) # {}
    /\ BuildsAlone => Used(BuildVm) = {} /\ call # "save"
    /\ build' = Allocated(BuildVm)
    /\ UNCHANGED <<machine, recorded, usable, callVars, made, restarts>>

\* _remove_build
RemoveBuildVm ==
    /\ build # NoAddress
    /\ build' = NoAddress
    /\ UNCHANGED <<machine, recorded, usable, callVars, made, restarts>>

\* The VMs outlive the daemon.
MachinesCrash ==
    /\ restarts < MaxRestarts
    /\ restarts' = restarts + 1
    /\ call' = "idle"
    /\ UNCHANGED <<machine, recorded, usable, vm, stale, build, made>>

CallStep ==
    \/ CreateOverlay \/ DefineDomain \/ DefineFails \/ SaveCreated \/ StartDomain
    \/ LoadMeta \/ RotateIdentity \/ PinIdentity \/ ApplyBootMode \/ NoteBootMode \/ SeatReady
    \/ RebuildOverlay \/ ClearMeta \/ RemoveDirectory \/ CallFails

MachinesNext ==
    \/ \E s \in Vms : BeginCreate(s) \/ BeginReset(s) \/ BeginDestroy(s)
    \/ CallStep
    \/ StartBuildVm \/ RemoveBuildVm
    \/ MachinesCrash

MachinesSpec == MachinesInit /\ [][MachinesNext]_machinesVars

-----------------------------------------------------------------------------
(* A seat that was reported ready has an identity of its own, neither its  *)
(* image's nor another seat's, the one its known_hosts pins, and its own   *)
(* boot mode (reset: "regenerated after the reboot to preserve the         *)
(* no-shared-identity invariant").                                         *)
OwnIdentity ==
    \A s \in usable :
        /\ overlay[s].id # Golden
        /\ overlay[s].id = pinned[s]
        /\ overlay[s].mode = "seat"
        /\ \A t \in usable \ {s} : overlay[t].id # overlay[s].id

(* No two seats are given the same address (_allocate_static_ip: "a        *)
(* unique, per-seat-deterministic address").                               *)
DistinctAddresses ==
    \A s, t \in Vms : (s # t /\ meta[s].ip # NoAddress) => meta[s].ip # meta[t].ip

(* Nor a seat that runs and the build VM (allocate: "uniqueness against    *)
(* every address already handed out").                                     *)
BuildAddressIsOwn ==
    \A s \in Vms : (build # NoAddress /\ domain[s] = "running") => meta[s].ip # build
=============================================================================
