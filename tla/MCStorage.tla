----------------------------- MODULE MCStorage -----------------------------
(***************************************************************************)
(* What the daemon keeps on disk and hands to git and libvirt, for TLC:    *)
(* the exports (Export), the seats' VMs (Machines), the images and their   *)
(* registry (Images) and the settings (Settings).  The components share no *)
(* variable, so a behaviour of the run is a behaviour of one of them,      *)
(* chosen by part.                                                         *)
(***************************************************************************)
EXTENDS Export, Machines, Images, Settings, TLC

CONSTANTS s1, s2, bv, i1, p1  \* the seats, the build VM, an image, a project

VARIABLE part       \* the component this behaviour is about

\* Every name starts at the last address, so that the others go around.
SameHash == [v \in {s1, s2, bv} |-> PoolSize - 1]
DerivedImage == [p \in {p1} |-> i1]

\* Threads differ in nothing but their name.
ThreadSymmetry == Permutations(Clients) \cup Permutations(Editors)

ASSUME StorageAssumption ==
    ExportAssumption /\ MachinesAssumption /\ ImagesAssumption /\ SettingsAssumption

StorageInit ==
    /\ Init /\ MachinesInit /\ ImagesInit /\ SettingsInit
    /\ part \in {"export", "machines", "images", "settings"}

ExportRuns == part = "export" /\ Next /\ UNCHANGED <<machinesVars, imagesVars, settingsVars, part>>

MachinesRun == part = "machines" /\ MachinesNext /\ UNCHANGED <<vars, imagesVars, settingsVars, part>>

ImagesRun == part = "images" /\ ImagesNext /\ UNCHANGED <<vars, machinesVars, settingsVars, part>>

SettingsRun == part = "settings" /\ SettingsNext /\ UNCHANGED <<vars, machinesVars, imagesVars, part>>

StorageNext == ExportRuns \/ MachinesRun \/ ImagesRun \/ SettingsRun

StorageSpec == StorageInit /\ [][StorageNext]_<<vars, machinesVars, imagesVars, settingsVars, part>>

-----------------------------------------------------------------------------
(* Every variable of the four components keeps its type.                   *)
StorageTypeOK ==
    /\ part = "export" => TypeOK
    /\ part = "machines" => MachinesTypeOK
    /\ part = "images" => ImagesTypeOK
    /\ part = "settings" => SettingsTypeOK
=============================================================================
