------------------------------- MODULE Images -------------------------------
(***************************************************************************)
(* Project images: the registry (the configuration file and its copy in    *)
(* memory), the image files, the builds and their tracker                  *)
(* (manager/__init__.py, config.py, BuildTracker in manager/provisioner.py)*)
(* Builds and ensures run one at a time on the daemon's job thread; every  *)
(* client has a connection thread of its own, where image_ensure plans and *)
(* image_rm removes.  A recipe is its set of packages; its base and its    *)
(* post commands are left out.                                             *)
(***************************************************************************)
EXTENDS Naturals, Sequences, FiniteSets

CONSTANTS Names,         \* image names
          Packages,
          Projects,
          Clients,
          NoEntry,       \* no registration, no binding
          Derived,       \* the image name derived from a project's name
          Policy,        \* images.build_policy: ask, auto or allowlist
          Allowlist,     \* images.allowlist
          MaxRecords,    \* BuildTracker.max_records
          MaxCalls,      \* bound: calls of all clients
          MaxDeaths,     \* bound: crashes of the daemon
          Defaults       \* the images configured for the seat types

ImagesAssumption ==
    /\ NoEntry \notin Names /\ NoEntry \notin Projects /\ \A P \in SUBSET Packages : P # NoEntry
    /\ Derived \in [Projects -> Names]
    /\ Policy \in {"ask", "auto", "allowlist"}
    /\ Allowlist \subseteq Packages
    /\ MaxRecords \in Nat \ {0} /\ MaxCalls \in Nat /\ MaxDeaths \in Nat
    /\ Defaults \subseteq Names

VARIABLES disk,     \* [images] and [projects] of the configuration file
          mem,      \* the same in memory
          file,     \* the image files, and what is installed in them
          records,  \* BuildTracker._records: the state of each, or none
          listed,   \* BuildTracker._order
          jobs,     \* the submitted jobs
          job,      \* the job thread
          client,   \* the connection threads
          live,     \* images that back a seat
          calls, deaths,
          spoiled   \* history: images whose entry need not tell of their file

config == <<disk, mem>>
tracker == <<records, listed>>
imagesVars == <<config, file, tracker, jobs, job, client, live, calls, deaths, spoiled>>

Registry == [image: [Names -> (SUBSET Packages) \cup {NoEntry}],
             project: [Projects -> Names \cup {NoEntry}]]

Call == [kind: {"ensure", "build", "remove"}, project: Projects \cup {NoEntry},
         image: Names \cup {NoEntry}, want: SUBSET Packages, approved: BOOLEAN]

NoCall == [kind |-> "build", project |-> NoEntry, image |-> NoEntry, want |-> {}, approved |-> FALSE]

Thread == [at: {"idle", "plan", "start", "boot", "convert", "register", "apply",
                "bind", "bound", "told", "unregister", "unlink", "pop"},
           call: Call, recipe: SUBSET Packages, recorded: SUBSET Packages, delta: BOOLEAN]

Idle == [at |-> "idle", call |-> NoCall, recipe |-> {}, recorded |-> {}, delta |-> FALSE]

ImagesTypeOK ==
    /\ disk \in Registry /\ mem \in Registry
    /\ file \in [Names -> [is: {"none", "whole", "broken"}, has: SUBSET Packages]]
    /\ records \in [Names -> {"none", "pending", "running", "done", "error"}]
    /\ listed \in Seq(Names)
    /\ jobs \in Seq(Call)
    /\ job \in Thread
    /\ client \in [Clients -> Thread]
    /\ live \subseteq Names
    /\ calls \in 0..MaxCalls
    /\ deaths \in 0..MaxDeaths
    /\ spoiled \subseteq Names

ImagesInit ==
    /\ disk = [image |-> [i \in Names |-> NoEntry], project |-> [p \in Projects |-> NoEntry]]
    /\ mem = disk
    /\ file = [i \in Names |-> [is |-> "none", has |-> {}]]
    /\ records = [i \in Names |-> "none"] /\ listed = <<>>
    /\ jobs = <<>> /\ job = Idle
    /\ client = [c \in Clients |-> Idle]
    /\ live = {}
    /\ calls = 0 /\ deaths = 0 /\ spoiled = {}

-----------------------------------------------------------------------------
(***************************************************************************)
(* BuildTracker.                                                           *)
(***************************************************************************)
Tracked(r) == {i \in Names : r[i] # "none"}

\* _prune_locked: names are popped from the order until few enough are left.
Pruned(r, o) ==
    LET first == {n \in 0..Len(o) :
                    Cardinality(Tracked(r) \ {o[k] : k \in 1..n}) <= MaxRecords}
        n == CHOOSE k \in first : \A m \in first : k <= m
        gone == {o[k] : k \in 1..n}
    IN  [records |-> [i \in Names |-> IF i \in gone THEN "none" ELSE r[i]],
         order |-> SubSeq(o, n + 1, Len(o))]

\* start: the name is appended, also when it is in the order already.
Track(i) ==
    LET p == Pruned([records EXCEPT ![i] = "pending"], Append(listed, i)) IN
    /\ records' = p.records
    /\ listed' = p.order

\* append_log and finish change a record that is still there.
ReportBuild(i, s) ==
    /\ records' = [records EXCEPT ![i] = IF @ = "none" THEN @ ELSE s]
    /\ UNCHANGED listed

-----------------------------------------------------------------------------
(***************************************************************************)
(* plan_image and image_build_decision.                                    *)
(***************************************************************************)
Target(p) == IF mem.project[p] # NoEntry THEN mem.project[p] ELSE Derived[p]

Recorded(i) == IF mem.image[i] = NoEntry THEN {} ELSE mem.image[i]

\* Mutant: an image of the name is enough.
SatisfiedByName(p, want) ==
    /\ mem.image[Target(p)] # NoEntry

Satisfied(p, want) ==
    /\ mem.image[Target(p)] # NoEntry
    /\ want \subseteq Recorded(Target(p))

MayBuild(want, approved) ==
    \/ approved
    \/ Policy = "auto"
    \/ Policy = "allowlist" /\ want \subseteq Allowlist

\* plan_ensure for the call of a thread: what the thread does next.
Planned(c) ==
    LET i == Target(c.project) IN
    IF Satisfied(c.project, c.want) THEN [Idle EXCEPT !.at = "bind", !.call = [c EXCEPT !.image = i]]
    ELSE IF MayBuild(c.want, c.approved)
         THEN [Idle EXCEPT !.at = "start", !.call = [c EXCEPT !.image = i],
                           !.recipe = Recorded(i) \cup c.want]
         ELSE Idle

\* A change of the configuration file that cannot be written is only logged,
\* and the caller goes on.
Persist(d) == disk' \in {disk, d}

\* _bind_project, on either kind of thread: the file, then the memory; a
\* binding that holds already is left alone.
Binding(t) == t.at \in {"bind", "bound", "told"}

AfterBind(t) ==
    IF t.at = "told" THEN Idle
    ELSE IF t.at = "bind" /\ mem.project[t.call.project] # t.call.image
         THEN [t EXCEPT !.at = "bound"]
         ELSE [t EXCEPT !.at = "told"]

BindConfig(t) ==
    LET p == t.call.project
        i == t.call.image IN
    /\ IF t.at = "bind" /\ mem.project[p] # i
       THEN Persist([disk EXCEPT !.project[p] = i])
       ELSE UNCHANGED disk
    /\ mem' = IF t.at = "bound" THEN [mem EXCEPT !.project[p] = i] ELSE mem

-----------------------------------------------------------------------------
(***************************************************************************)
(* The connection threads.                                                 *)
(***************************************************************************)
Called(c) ==
    /\ client[c].at = "idle"
    /\ calls < MaxCalls
    /\ calls' = calls + 1

\* image_ensure: satisfied, needs_approval, or a job that plans once more.
Ensure(c, p, want, approved) ==
    /\ Called(c)
    /\ LET a == [NoCall EXCEPT !.kind = "ensure", !.project = p, !.want = want, !.approved = approved]
           t == Planned(a) IN
       IF t.at = "start"
       THEN jobs' = Append(jobs, a) /\ UNCHANGED client
       ELSE client' = [client EXCEPT ![c] = t] /\ UNCHANGED jobs
    /\ UNCHANGED <<config, file, tracker, job, live, deaths>>

Build(c, i, want, approved) ==
    /\ Called(c)
    /\ jobs' = Append(jobs, [NoCall EXCEPT !.image = i, !.want = want, !.approved = approved])
    /\ UNCHANGED <<config, file, tracker, job, client, live, deaths>>

\* remove_image: every check first ...
RemoveImage(c, i) ==
    /\ Called(c)
    /\ mem.image[i] # NoEntry
    /\ i \notin Defaults
    /\ \A p \in Projects : mem.project[p] # i
    /\ i \notin live
    /\ client' = [client EXCEPT ![c] = [Idle EXCEPT !.at = "unregister",
                                                    !.call = [NoCall EXCEPT !.kind = "remove", !.image = i]]]
    /\ UNCHANGED <<config, file, tracker, jobs, job, live, deaths>>

\* ... then the file's entry (none to remove is an error), the image, and the
\* entry in memory.
Unregister(c) ==
    /\ client[c].at = "unregister"
    /\ LET i == client[c].call.image IN
       IF disk.image[i] = NoEntry
       THEN client' = [client EXCEPT ![c] = Idle] /\ UNCHANGED disk
       ELSE /\ Persist([disk EXCEPT !.image[i] = NoEntry])
            /\ client' = [client EXCEPT ![c].at = "unlink"]
    /\ UNCHANGED <<mem, file, tracker, jobs, job, live, calls, deaths>>

Unlink(c) ==
    /\ client[c].at = "unlink"
    /\ file' = [file EXCEPT ![client[c].call.image] = [is |-> "none", has |-> {}]]
    /\ client' = [client EXCEPT ![c].at = "pop"]
    /\ UNCHANGED <<config, tracker, jobs, job, live, calls, deaths>>

Pop(c) ==
    /\ client[c].at = "pop"
    /\ mem' = [mem EXCEPT !.image[client[c].call.image] = NoEntry]
    /\ client' = [client EXCEPT ![c] = Idle]
    /\ UNCHANGED <<disk, file, tracker, jobs, job, live, calls, deaths>>

ClientBinds(c) ==
    /\ Binding(client[c])
    /\ BindConfig(client[c])
    /\ client' = [client EXCEPT ![c] = AfterBind(client[c])]
    /\ UNCHANGED <<file, tracker, jobs, job, live, calls, deaths>>

-----------------------------------------------------------------------------
(***************************************************************************)
(* The job thread: build_image, also as the second half of ensure_image.   *)
(***************************************************************************)
\* A build that was not approved is refused in the job.
TakeJob ==
    /\ job.at = "idle"
    /\ jobs # <<>>
    /\ jobs' = Tail(jobs)
    /\ LET c == Head(jobs) IN
       job' = IF c.kind = "ensure" THEN [Idle EXCEPT !.at = "plan", !.call = c]
              ELSE IF c.approved THEN [Idle EXCEPT !.at = "start", !.call = c, !.recipe = c.want]
              ELSE Idle
    /\ UNCHANGED <<config, file, tracker, client, live, calls, deaths>>

PlanAgain ==
    /\ job.at = "plan"
    /\ job' = Planned(job.call)
    /\ UNCHANGED <<config, file, tracker, jobs, client, live, calls, deaths>>

\* What will be recorded is cumulative, what is installed is the recipe.
StartBuild ==
    /\ job.at = "start"
    /\ job' = [job EXCEPT !.at = "boot", !.recorded = Recorded(job.call.image) \cup job.recipe]
    /\ Track(job.call.image)
    /\ UNCHANGED <<config, file, jobs, client, live, calls, deaths>>

\* The build VM boots, installs and is shut down; its overlay is on the
\* image's own file when there is one.
InstallPackages ==
    /\ job.at = "boot"
    /\ file[job.call.image].is # "broken"
    /\ job' = [job EXCEPT !.at = "convert", !.delta = file[job.call.image].is = "whole"]
    /\ ReportBuild(job.call.image, "running")
    /\ UNCHANGED <<config, file, jobs, client, live, calls, deaths>>

\* A conversion that is interrupted leaves a torn file behind.
Torn == IF job.at = "convert" THEN [file EXCEPT ![job.call.image].is = "broken"] ELSE file

\* Mutant: a failed build does not finish its record.
BuildFailsUnseen ==
    /\ job.at \in {"boot", "convert"}
    /\ file' \in {file, Torn}
    /\ job' = Idle
    /\ UNCHANGED <<config, tracker, jobs, client, live, calls, deaths>>

BuildFails ==
    /\ job.at \in {"boot", "convert"}
    /\ file' \in {file, Torn}
    /\ job' = Idle
    /\ ReportBuild(job.call.image, "error")
    /\ UNCHANGED <<config, jobs, client, live, calls, deaths>>

\* qemu-img convert flattens the overlay into the image's file; it cannot when
\* the file that the overlay is on was deleted.
Convert ==
    /\ job.at = "convert"
    /\ job.delta => file[job.call.image].is # "none"
    /\ LET i == job.call.image IN
       /\ file' = [file EXCEPT ![i] = [is |-> "whole", has |-> @.has \cup job.recipe]]
       /\ ReportBuild(i, "done")
    /\ job' = [job EXCEPT !.at = "register"]
    /\ UNCHANGED <<config, jobs, client, live, calls, deaths>>

RegisterImage ==
    /\ job.at = "register"
    /\ Persist([disk EXCEPT !.image[job.call.image] = job.recorded])
    /\ job' = [job EXCEPT !.at = "apply"]
    /\ UNCHANGED <<mem, file, tracker, jobs, client, live, calls, deaths>>

ApplyImage ==
    /\ job.at = "apply"
    /\ mem' = [mem EXCEPT !.image[job.call.image] = job.recorded]
    /\ job' = IF job.call.kind = "ensure" THEN [job EXCEPT !.at = "bind"] ELSE Idle
    /\ UNCHANGED <<disk, file, tracker, jobs, client, live, calls, deaths>>

JobBinds ==
    /\ Binding(job)
    /\ BindConfig(job)
    /\ job' = AfterBind(job)
    /\ UNCHANGED <<file, tracker, jobs, client, live, calls, deaths>>

-----------------------------------------------------------------------------
(***************************************************************************)
(* Seats come and go; the daemon dies and starts with what the file says.  *)
(***************************************************************************)
SeatMade(i) ==
    /\ i \notin live
    /\ mem.image[i] # NoEntry
    /\ file[i].is = "whole"
    /\ live' = live \cup {i}
    /\ UNCHANGED <<config, file, tracker, jobs, job, client, calls, deaths>>

SeatGone(i) ==
    /\ i \in live
    /\ live' = live \ {i}
    /\ UNCHANGED <<config, file, tracker, jobs, job, client, calls, deaths>>

ImagesRestart ==
    /\ deaths < MaxDeaths
    /\ deaths' = deaths + 1
    /\ mem' = disk
    /\ file' \in {file, Torn}
    /\ records' = [i \in Names |-> "none"] /\ listed' = <<>>
    /\ jobs' = <<>> /\ job' = Idle
    /\ client' = [c \in Clients |-> Idle]
    /\ UNCHANGED <<disk, live, calls>>

JobStep ==
    \/ TakeJob \/ PlanAgain \/ StartBuild \/ InstallPackages \/ BuildFails
    \/ Convert \/ RegisterImage \/ ApplyImage \/ JobBinds

ImagesStep ==
    \/ \E c \in Clients, p \in Projects, want \in SUBSET Packages, approved \in BOOLEAN :
          Ensure(c, p, want, approved)
    \/ \E c \in Clients, i \in Names, want \in SUBSET Packages, approved \in BOOLEAN :
          Build(c, i, want, approved)
    \/ \E c \in Clients, i \in Names : RemoveImage(c, i)
    \/ \E c \in Clients : Unregister(c) \/ Unlink(c) \/ Pop(c) \/ ClientBinds(c)
    \/ JobStep
    \/ \E i \in Names : SeatMade(i) \/ SeatGone(i)
    \/ ImagesRestart

(***************************************************************************)
(* History: an image is spoiled when its file is torn, or when a removal   *)
(* has deleted the file while a call used the image or while its entry is  *)
(* in the configuration file; it stays so until nothing of it is left.     *)
(***************************************************************************)
InUse(i) == \E t \in {job} \cup {client[c] : c \in Clients} :
              t.at # "idle" /\ t.call.kind # "remove" /\ t.call.image = i

Deleted(i) == \E c \in Clients : client[c].at = "pop" /\ client[c].call.image = i

Spoils(i) ==
    \/ file[i].is = "broken"
    \/ Deleted(i) /\ (InUse(i) \/ disk.image[i] # NoEntry)

Forgotten(i) ==
    /\ disk.image[i] = NoEntry /\ mem.image[i] = NoEntry
    /\ file[i].is = "none"
    /\ ~InUse(i)

ImagesNext ==
    /\ ImagesStep
    /\ spoiled' = {i \in Names : Spoils(i)' \/ (i \in spoiled /\ ~Forgotten(i)')}

ImagesSpec == ImagesInit /\ [][ImagesNext]_imagesVars

-----------------------------------------------------------------------------
(* When image_ensure answers satisfied or built, the project is bound to   *)
(* its image, and that image's file is whole and has every package the     *)
(* call asked for, whatever was built, planned, refused, removed or left   *)
(* unwritten by others since the first plan ("Idempotently make the        *)
(* project image satisfy tools/packages").  The exceptions are the spoiled *)
(* images, of which the code does not promise this: the image torn by an   *)
(* interrupted conversion, and the image that image_rm deleted while a     *)
(* call used it or while its entry stayed in the configuration file, each  *)
(* until it is removed altogether.                                         *)
SatisfiedIsUsable ==
    \A t \in {job} \cup {client[c] : c \in Clients} :
        t.at = "told" =>
            /\ mem.project[t.call.project] = t.call.image
            /\ t.call.image \notin spoiled =>
                 /\ file[t.call.image].is = "whole"
                 /\ t.call.want \subseteq file[t.call.image].has

Building(i) == job.at \in {"boot", "convert"} /\ job.call.image = i

Reported(i) == records[i] \in {"pending", "running"}

StatusStep ==
    \A i \in Names :
        /\ Reported(i)' => Building(i)'
        /\ Building(i)' => \/ Reported(i)'
                           \/ IF Building(i) THEN ~Reported(i)
                              ELSE \E k \in DOMAIN listed : listed[k] = i

(* An image's record says pending or running only while its build runs, so *)
(* nobody waits for a build that ended, and a build has such a record from *)
(* its start to its end however many others are evicted for it: the record *)
(* of a running build is never pruned afterwards, and a new one is pruned  *)
(* at once only when its name was in the order already                     *)
(* (pool_status.builds).                                                   *)
StatusIsLive == [][StatusStep]_imagesVars

(* The file of an image that backs a seat is not deleted (remove_image:    *)
(* "Refuses while the image ... backs a live seat").                       *)
LiveImageKept == \A i \in live : file[i].is # "none"

(* view() finds the record of every name in the order.                     *)
ViewIsDefined == \A k \in DOMAIN listed : records[listed[k]] # "none"
=============================================================================
