--------------------------- MODULE ExtensionStore ---------------------------
(***************************************************************************)
(* The installed extension of one name: its package directory, the manager's*)
(* entry for it and its settings (extension_manager.go, extension_manager_ *)
(* package.go, extension_settings.go).  Calls come from threads of the     *)
(* host: install, upgrade and remove hold mutationMu, unloading, enabling  *)
(* and the settings do not.  The process may die at any step; the next one *)
(* reads the settings and loads the package directories.                   *)
(*                                                                         *)
(* A version stands for a whole package; a staging directory is seen by its*)
(* own call only, so what it holds is the local `version`.  The runtimes of*)
(* an extension are the subject of ExtensionRuntime: here a version either *)
(* starts or is one of Broken.                                             *)
(***************************************************************************)
EXTENDS Integers, FiniteSets, Sequences

CONSTANTS
    Threads,    \* threads of the host
    Versions,   \* versions of the extension, integers
    Broken,     \* the versions that fail validateExtensionLoad
    None,       \* no version, no entry, no value
    Overlapping,\* calls on the enabled flag may run at the same time
    MaxCalls,   \* bound: calls of a behaviour
    MaxCrashes  \* bound: crashes of a behaviour

VARIABLES
    dir,        \* version in extensionsDir/<id>
    backups,    \* versions in the hidden backup directories
    entry,      \* the loadedExtension in m.extensions, an index of `objects`
    objects,    \* every loadedExtension made by this process
    mutator,    \* the thread that holds mutationMu
    settings,   \* the settings in memory
    saved,      \* settings.enc
    call,       \* the locals of each thread
    owned,      \* history: the version the user has, or None
    calls, crashes

disk == <<dir, backups, saved>>
bounds == <<calls, crashes>>
vars == <<disk, entry, objects, mutator, settings, call, owned, bounds>>

\* `user`: the user has entered settings of the extension.
NoSettings == [enabled |-> None, user |-> FALSE]

Idle == [pc |-> "idle", version |-> None, object |-> None, was |-> FALSE]

Kinds == {"extract", "activate", "insert", "validate", "backup", "swap", "unload",
          "restore", "replace", "drop", "source", "data"}

\* The calls that read or write the enabled flag.
Flagging(t) ==
    call[t].pc \in {"start", "storeEnabled", "storeDisabled"} \cup (Kinds \ {"source", "data"})

TypeOK ==
    /\ dir \in Versions \cup {None} /\ backups \subseteq Versions
    /\ entry \in DOMAIN objects \cup {None}
    /\ \A o \in DOMAIN objects : objects[o].version \in Versions
    /\ mutator \in Threads \cup {None}
    /\ mutator # None <=> \E t \in Threads : call[t].pc \in Kinds
    /\ owned \in Versions \cup {None}

Init ==
    /\ dir = None /\ backups = {} /\ saved = NoSettings
    /\ entry = None /\ objects = <<>> /\ mutator = None /\ settings = NoSettings
    /\ call = [t \in Threads |-> Idle]
    /\ owned = None /\ calls = 0 /\ crashes = 0

(***************************************************************************)
(* Parts of the calls.                                                     *)
(***************************************************************************)
Goes(t, pc) == call' = [call EXCEPT ![t].pc = pc]

Returns(t) ==
    /\ call' = [call EXCEPT ![t] = Idle]
    /\ mutator' = IF mutator = t THEN None ELSE mutator

Begin(t) ==
    /\ call[t].pc = "idle" /\ calls < MaxCalls
    /\ calls' = calls + 1
    /\ UNCHANGED crashes

\* Calls on the enabled flag that overlap are left out unless Overlapping.
FlagFree == Overlapping \/ \A t \in Threads : ~Flagging(t)

MakeObject(t, enabled) ==
    objects' = Append(objects, [version |-> call[t].version, enabled |-> enabled])

SetFlag(o, b) == objects' = [objects EXCEPT ![o].enabled = b]

\* The settings change in memory; writing them to the disk may fail.
Store(new) ==
    /\ settings' = new
    /\ saved' \in {new, saved}

(***************************************************************************)
(* loadExtensionFromFileLocked, which upgrades an entry it finds           *)
(***************************************************************************)
InstallPackage(t, v) ==
    /\ Begin(t) /\ FlagFree
    /\ mutator = None /\ entry = None /\ dir = None
    /\ mutator' = t
    /\ call' = [call EXCEPT ![t] = [Idle EXCEPT !.pc = "extract", !.version = v]]
    /\ UNCHANGED <<disk, entry, objects, settings, owned>>

\* The package is extracted to a staging directory and tried; an extension
\* that fails is installed with its error.
Extract(t) ==
    /\ call[t].pc = "extract"
    /\ \/ /\ MakeObject(t, FALSE)
          /\ call' = [call EXCEPT ![t].pc = "activate", ![t].object = Len(objects) + 1]
          /\ UNCHANGED mutator
       \/ Returns(t) /\ UNCHANGED objects
    /\ UNCHANGED <<disk, entry, settings, owned, bounds>>

Activate(t) ==
    /\ call[t].pc = "activate"
    /\ \/ /\ dir' = call[t].version /\ owned' = dir'
          /\ Goes(t, "insert") /\ UNCHANGED mutator
       \/ Returns(t) /\ UNCHANGED <<dir, owned>>
    /\ UNCHANGED <<backups, saved, entry, objects, settings, bounds>>

Insert(t) ==
    /\ call[t].pc = "insert"
    /\ entry' = call[t].object
    /\ Returns(t)
    /\ UNCHANGED <<disk, objects, settings, owned, bounds>>

(***************************************************************************)
(* upgradeExtensionLocked                                                  *)
(***************************************************************************)
UpgradePackage(t, v) ==
    /\ Begin(t) /\ FlagFree
    /\ mutator = None /\ entry # None
    /\ v > objects[entry].version
    /\ mutator' = t
    /\ call' = [call EXCEPT ![t] = [pc |-> "validate", version |-> v, object |-> entry,
                                    was |-> objects[entry].enabled]]
    /\ UNCHANGED <<disk, entry, objects, settings, owned>>

Validate(t) ==
    /\ call[t].pc = "validate"
    /\ \/ call[t].version \notin Broken /\ Goes(t, "backup") /\ UNCHANGED mutator
       \/ Returns(t)
    /\ UNCHANGED <<disk, entry, objects, settings, owned, bounds>>

\* Mutant: the old package is deleted, not kept as a backup.
Backup_Bug(t) ==
    /\ call[t].pc = "backup"
    /\ dir' = None
    /\ Goes(t, "swap")
    /\ UNCHANGED <<backups, saved, entry, objects, mutator, settings, owned,
                   bounds>>

Backup(t) ==
    /\ call[t].pc = "backup"
    /\ \/ /\ backups' = backups \cup {dir} /\ dir' = None
          /\ Goes(t, "swap") /\ UNCHANGED mutator
       \/ Returns(t) /\ UNCHANGED <<dir, backups>>
    /\ UNCHANGED <<saved, entry, objects, settings, owned, bounds>>

OldVersion(t) == objects[call[t].object].version

Swap(t) ==
    /\ call[t].pc = "swap"
    /\ \/ /\ dir' = call[t].version /\ owned' = dir'
          /\ Goes(t, "unload") /\ UNCHANGED <<backups, mutator>>
       \/ /\ dir' = OldVersion(t) /\ backups' = backups \ {dir'}
          /\ Returns(t) /\ UNCHANGED owned
    /\ UNCHANGED <<saved, entry, objects, settings, bounds>>

\* The old entry goes; when somebody else has unloaded it, the new package
\* is removed again and the old one put back.
UnloadOld(t) ==
    /\ call[t].pc = "unload"
    /\ SetFlag(call[t].object, FALSE)
    /\ IF entry # None
       THEN entry' = None /\ Goes(t, "replace") /\ UNCHANGED <<dir, owned>>
       ELSE /\ dir' = None /\ owned' = OldVersion(t)
            /\ Goes(t, "restore") /\ UNCHANGED entry
    /\ UNCHANGED <<backups, saved, mutator, settings, bounds>>

Restore(t) ==
    /\ call[t].pc = "restore"
    /\ dir' = OldVersion(t) /\ backups' = backups \ {dir'}
    /\ SetFlag(call[t].object, call[t].was)
    /\ Returns(t)
    /\ UNCHANGED <<saved, entry, settings, owned, bounds>>

Replace(t) ==
    /\ call[t].pc = "replace"
    /\ MakeObject(t, call[t].was)
    /\ entry' = Len(objects) + 1
    /\ Goes(t, "drop")
    /\ UNCHANGED <<disk, mutator, settings, owned, bounds>>

DropBackup(t) ==
    /\ call[t].pc = "drop"
    /\ backups' \in {backups, backups \ {OldVersion(t)}}
    /\ Returns(t)
    /\ UNCHANGED <<dir, saved, entry, objects, settings, owned, bounds>>

(***************************************************************************)
(* UnloadExtension and RemoveExtension                                     *)
(***************************************************************************)
Unload(t) ==
    /\ Begin(t) /\ entry # None
    /\ SetFlag(entry, FALSE) /\ entry' = None
    /\ UNCHANGED <<disk, mutator, settings, call, owned>>

Remove(t) ==
    /\ Begin(t) /\ entry # None /\ mutator = None
    /\ SetFlag(entry, FALSE) /\ entry' = None
    /\ mutator' = t
    /\ Goes(t, "source")
    /\ UNCHANGED <<disk, settings, owned>>

\* What cannot be removed is logged.
RemoveSource(t) ==
    /\ call[t].pc = "source"
    /\ \/ dir' = None /\ owned' = None
       \/ UNCHANGED <<dir, owned>>
    /\ Goes(t, "data")
    /\ UNCHANGED <<backups, saved, entry, objects, mutator, settings, bounds>>

RemoveData(t) ==
    /\ call[t].pc = "data"
    /\ saved' = NoSettings
    /\ Returns(t)
    /\ UNCHANGED <<dir, backups, entry, objects, settings, owned, bounds>>

(***************************************************************************)
(* SetExtensionEnabled: the flag, then the runtime, then the settings      *)
(***************************************************************************)
SetEnabled(t, b) ==
    /\ Begin(t) /\ FlagFree
    /\ entry # None
    /\ SetFlag(entry, b)
    /\ call' = [call EXCEPT ![t] = [Idle EXCEPT !.object = entry,
                                    !.pc = IF b THEN "start" ELSE "storeDisabled"]]
    /\ UNCHANGED <<disk, entry, mutator, settings, owned>>

\* Mutant: a failed start stores FALSE but leaves the flag of the entry.
Start_Bug(t) ==
    LET o == call[t].object IN
    /\ call[t].pc = "start"
    /\ IF entry # o \/ ~objects[o].enabled
       THEN Returns(t)
       ELSE /\ UNCHANGED mutator
            /\ \/ objects[o].version \notin Broken /\ Goes(t, "storeEnabled")
               \/ Goes(t, "storeDisabled")
    /\ UNCHANGED <<disk, entry, objects, settings, owned, bounds>>

Start(t) ==
    LET o == call[t].object IN
    /\ call[t].pc = "start"
    /\ IF entry # o \/ ~objects[o].enabled
       THEN Returns(t) /\ UNCHANGED objects
       ELSE /\ UNCHANGED mutator
            /\ \/ objects[o].version \notin Broken
                  /\ Goes(t, "storeEnabled") /\ UNCHANGED objects
               \/ SetFlag(o, FALSE) /\ Goes(t, "storeDisabled")
    /\ UNCHANGED <<disk, entry, settings, owned, bounds>>

StoreEnabled(t) ==
    /\ call[t].pc \in {"storeEnabled", "storeDisabled"}
    /\ Store([settings EXCEPT !.enabled = call[t].pc = "storeEnabled"])
    /\ Returns(t)
    /\ UNCHANGED <<dir, backups, entry, objects, owned, bounds>>

\* SetExtensionSettingsJSON with the settings the app has read and edited.
SetSettings(t) ==
    /\ Begin(t) /\ FlagFree
    /\ entry # None
    /\ Store([settings EXCEPT !.user = TRUE])
    /\ UNCHANGED <<dir, backups, entry, objects, mutator, call, owned>>

(***************************************************************************)
(* The process dies; the next one loads the settings and the directory     *)
(* before it makes another call.  Hidden directories are refused: their    *)
(* name is not that of their manifest.                                     *)
(***************************************************************************)
Restart ==
    /\ crashes < MaxCrashes /\ crashes' = crashes + 1
    /\ settings' = saved
    /\ IF dir = None
       THEN entry' = None /\ objects' = <<>>
       ELSE /\ entry' = 1
            /\ objects' = <<[version |-> dir,
                             enabled |-> saved.enabled = TRUE /\ dir \notin Broken]>>
    /\ mutator' = None
    /\ call' = [t \in Threads |-> Idle]
    /\ UNCHANGED <<disk, owned, calls>>

Next ==
    \/ \E t \in Threads :
        \/ \E v \in Versions : InstallPackage(t, v) \/ UpgradePackage(t, v)
        \/ Extract(t) \/ Activate(t) \/ Insert(t)
        \/ Validate(t) \/ Backup(t) \/ Swap(t) \/ UnloadOld(t) \/ Restore(t)
        \/ Replace(t) \/ DropBackup(t)
        \/ Unload(t) \/ Remove(t) \/ RemoveSource(t) \/ RemoveData(t)
        \/ \E b \in BOOLEAN : SetEnabled(t, b)
        \/ Start(t) \/ StoreEnabled(t) \/ SetSettings(t)
    \/ Restart

Spec == Init /\ [][Next]_vars

(***************************************************************************)
(* Properties                                                              *)
(***************************************************************************)
\* A version the user has installed and not removed is whole on the disk at
\* every moment, in its own place or, while the directories are exchanged,
\* as a backup; and what an entry runs is what the next start finds, except
\* while a call that holds mutationMu is between the two.
VersionSafe ==
    /\ owned # None => dir = owned \/ (dir = None /\ owned \in backups)
    /\ entry # None /\ mutator = None => dir = objects[entry].version

\* When no call is running and no write has been refused, an enabled entry
\* is one whose stored flag says so: an upgrade keeps the flag, a failed
\* start takes it back and a new installation never inherits one.
EnabledIsStored ==
    entry # None /\ objects[entry].enabled /\ (\A t \in Threads : call[t].pc = "idle")
    => settings.enabled = TRUE

=============================================================================
