------------------------------ MODULE Settings ------------------------------
(***************************************************************************)
(* Changing the configuration of a running daemon (config.py:              *)
(* update_config, set_config_values, Config.set_values; daemon.py:         *)
(* _set_config_values)  Each connection has a thread; a change is written  *)
(* to the file under a process-wide lock and applied to the configuration  *)
(* in memory after it, without one.                                        *)
(***************************************************************************)
EXTENDS Naturals, FiniteSets

CONSTANTS Editors,      \* connection threads that change settings
          Nobody,
          MaxWidth,     \* bound: widths are 0..MaxWidth
          MaxEdits,     \* bound: changes requested
          MaxReloads,   \* bound: restarts of the daemon
          WriteTears    \* the daemon may be killed between emptying the file and writing it

SettingsAssumption ==
    /\ Nobody \notin Editors
    /\ MaxWidth \in Nat /\ MaxEdits \in Nat /\ MaxReloads \in Nat
    /\ WriteTears \in BOOLEAN

Keys == {"thumbnail_width", "focused_width"}
Widths == 0..MaxWidth
Document == [Keys -> Widths]
Change == UNION {[K -> Widths] : K \in (SUBSET Keys) \ {{}}}

VARIABLES onDisk,    \* the section [gui] of the configuration file
          inMemory,  \* the same of the running configuration
          lock,      \* who holds _CONFIG_WRITE_LOCK
          editor,    \* the connection threads: where they are, what they
                     \* change and the document they read
          edits, reloads

settingsVars == <<onDisk, inMemory, lock, editor, edits, reloads>>

\* GuiConfig.__post_init__
Valid(d) == d["focused_width"] >= d["thumbnail_width"]

Default == [k \in Keys |-> 0]

Ready == [at |-> "idle", change |-> Default, read |-> Default]

SettingsTypeOK ==
    /\ onDisk \in Document /\ inMemory \in Document
    /\ lock \in Editors \cup {Nobody}
    /\ editor \in [Editors -> [at: {"idle", "lock", "read", "write", "flush", "apply"},
                              change: Change, read: Document]]
    /\ edits \in 0..MaxEdits /\ reloads \in 0..MaxReloads

SettingsInit ==
    /\ onDisk = Default /\ inMemory = Default
    /\ lock = Nobody
    /\ editor = [e \in Editors |-> Ready]
    /\ edits = 0 /\ reloads = 0

-----------------------------------------------------------------------------
Merged(d, change) == [k \in Keys |-> IF k \in DOMAIN change THEN change[k] ELSE d[k]]

Move(e, from, to) ==
    /\ editor[e].at = from
    /\ editor' = [editor EXCEPT ![e].at = to]

SetConfigValues(e, change) ==
    /\ edits < MaxEdits
    /\ edits' = edits + 1
    /\ editor[e].at = "idle"
    /\ editor' = [editor EXCEPT ![e] = [at |-> "lock", change |-> change, read |-> Default]]
    /\ UNCHANGED <<onDisk, inMemory, lock, reloads>>

\* Mutant: the lock is the thread's own.
AcquireShared(e) ==
    /\ lock' = e
    /\ Move(e, "lock", "read")
    /\ UNCHANGED <<onDisk, inMemory, edits, reloads>>

Acquire(e) ==
    /\ lock = Nobody
    /\ lock' = e
    /\ Move(e, "lock", "read")
    /\ UNCHANGED <<onDisk, inMemory, edits, reloads>>

\* _read_config_data
ReadFile(e) ==
    /\ editor[e].at = "read"
    /\ editor' = [editor EXCEPT ![e].at = "write", ![e].read = onDisk]
    /\ UNCHANGED <<onDisk, inMemory, lock, edits, reloads>>

\* The merged document is parsed as a whole before the file is touched.
\* write_text opens it, which empties it, and an empty one loads as the default;
Truncate(e) ==
    /\ Valid(Merged(editor[e].read, editor[e].change))
    /\ onDisk' = Default
    /\ Move(e, "write", "flush")
    /\ UNCHANGED <<inMemory, lock, edits, reloads>>

\* then it writes.
WriteFile(e) ==
    /\ onDisk' = Merged(editor[e].read, editor[e].change)
    /\ lock' = Nobody
    /\ Move(e, "flush", "apply")
    /\ UNCHANGED <<inMemory, edits, reloads>>

Reject(e) ==
    /\ ~Valid(Merged(editor[e].read, editor[e].change))
    /\ lock' = Nobody
    /\ Move(e, "write", "idle")
    /\ UNCHANGED <<onDisk, inMemory, edits, reloads>>

\* set_values on the configuration in memory: a change that makes that one
\* invalid raises, although the file has it.
Apply(e) ==
    /\ LET d == Merged(inMemory, editor[e].change) IN
       inMemory' = IF Valid(d) THEN d ELSE inMemory
    /\ Move(e, "apply", "idle")
    /\ UNCHANGED <<onDisk, lock, edits, reloads>>

Restart ==
    /\ WriteTears \/ \A e \in Editors : editor[e].at # "flush"
    /\ reloads < MaxReloads
    /\ reloads' = reloads + 1
    /\ inMemory' = onDisk
    /\ lock' = Nobody
    /\ editor' = [e \in Editors |-> Ready]
    /\ UNCHANGED <<onDisk, edits>>

SettingsNext ==
    \/ \E e \in Editors :
        \/ \E change \in Change : SetConfigValues(e, change)
        \/ Acquire(e) \/ ReadFile(e) \/ Truncate(e) \/ WriteFile(e) \/ Reject(e) \/ Apply(e)
    \/ Restart

SettingsSpec == SettingsInit /\ [][SettingsNext]_settingsVars

-----------------------------------------------------------------------------
\* What the file has, or had before the write under way emptied it.
Content == IF lock # Nobody /\ editor[lock].at = "flush" THEN editor[lock].read ELSE onDisk

\* The change a thread has asked for and that is not in the file yet.
Asked(e) == IF editor[e].at \in {"lock", "read", "write", "flush"} THEN {editor[e].change} ELSE {}

File == INSTANCE Updates WITH
    Threads <- Editors, Changes <- Change, First <- Default,
    Accepted <- {d \in Document : Valid(d)},
    document <- Content, pending <- [e \in Editors |-> Asked(e)]

(* Changes take effect one after the other, each as a whole on the file as *)
(* it is then: none undoes another thread's, none is refused for a value   *)
(* that is not in the file any more, the file stays one the loader accepts,*)
(* and a restart takes nothing away that was written (update_config:       *)
(* "Atomically mutate the raw config document and persist it").            *)
UpdatePromise == File!Spec

(* When no change is under way, the running configuration is the file's    *)
(* ("so subsequent reads agree").                                          *)
ReadsAgree == (\A e \in Editors : editor[e].at = "idle") => inMemory = onDisk
=============================================================================
