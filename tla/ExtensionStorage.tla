-------------------------- MODULE ExtensionStorage --------------------------
(***************************************************************************)
(* One of the two files in which the runtimes of an extension keep data    *)
(* (extension_runtime_storage.go): storage.json, or .credentials.enc, which*)
(* is encrypted and may still be in the format of an earlier release.  The *)
(* runtimes share the file, its lock and a decoded copy that is trusted as *)
(* long as the file has the size and time it had when the copy was made;   *)
(* `stamp` stands for those.  A file is written as .tmp and renamed.       *)
(***************************************************************************)
EXTENDS Naturals, FiniteSets

CONSTANTS
    Runtimes,    \* runtimes of the extension, each with a script
    Keys, Values,
    NoValue, NoFile, NoAnswer, Failed,
    MaxOps,      \* bound: operations of a behaviour
    MaxFaults    \* bound: crashes and removals of the extension

VARIABLES
    encrypted,   \* the file is .credentials.enc
    file,        \* [map, stamp, legacy], or NoFile
    cache,       \* extensionJSONCaches: [map, stamp], or NoFile
    present,     \* does the data directory exist?
    lock,        \* the runtime that holds extensionFileMu, or NoFile
    closed,      \* the runtimes whose storage is closed
    op,          \* the operation of each runtime
    answer,      \* what the script is told
    stamp,       \* the last stamp given to a file
    ops, faults

shared == <<encrypted, file, cache>>
vars == <<shared, present, lock, closed, op, answer, stamp, ops, faults>>

Empty == [k \in Keys |-> NoValue]
Idle == [pc |-> "idle", key |-> NoValue, value |-> NoValue, snapshot |-> Empty]

\* An earlier release may have left credentials in its own format.
Legacy == {[map |-> [k \in Keys |-> v], stamp |-> 1, legacy |-> TRUE] : v \in Values}

Init ==
    /\ encrypted \in BOOLEAN
    /\ file \in {NoFile} \cup (IF encrypted THEN Legacy ELSE {})
    /\ cache = NoFile /\ present = TRUE /\ lock = NoFile /\ closed = {}
    /\ op = [r \in Runtimes |-> Idle]
    /\ answer = [r \in Runtimes |-> NoAnswer]
    /\ stamp = 1 /\ ops = 0 /\ faults = 0

(***************************************************************************)
(* The file and its cached copy, read under the lock                       *)
(***************************************************************************)
Stamp == IF file = NoFile THEN 0 ELSE file.stamp
Cached == cache # NoFile /\ cache.stamp = Stamp

Contents == IF Cached THEN cache.map ELSE IF file = NoFile THEN Empty ELSE file.map

\* readCredentialsFileLocked encrypts an old file anew; the stamp of the
\* copy is the one the file had before.
Load ==
    IF Cached THEN UNCHANGED <<shared, stamp>>
    ELSE /\ cache' = [map |-> Contents, stamp |-> Stamp]
         /\ IF file # NoFile /\ file.legacy
            THEN /\ stamp' = stamp + 1
                 /\ file' = [map |-> file.map, stamp |-> stamp', legacy |-> FALSE]
            ELSE UNCHANGED <<file, stamp>>
         /\ UNCHANGED encrypted

\* storage.get, credentials.get and has: all of it is under the lock.
Get(r, k) ==
    /\ op[r].pc = "idle" /\ answer[r] = NoAnswer
    /\ lock = NoFile /\ ops < MaxOps /\ ops' = ops + 1
    /\ \/ /\ Load
          /\ answer' = [answer EXCEPT ![r] = Contents[k]]
       \/ answer' = [answer EXCEPT ![r] = Failed] /\ UNCHANGED <<shared, stamp>>
    /\ UNCHANGED <<present, lock, closed, op, faults>>

(***************************************************************************)
(* mutateStorage and mutateCredentials, with their steps                   *)
(***************************************************************************)
Finish(r, a) ==
    /\ op' = [op EXCEPT ![r] = Idle]
    /\ answer' = [answer EXCEPT ![r] = a]

\* A write of NoValue removes the key.  Only storage.json asks whether it is
\* closed, and it asks before it takes the lock.
Mutate(r, k, v) ==
    /\ op[r].pc = "idle" /\ answer[r] = NoAnswer
    /\ ops < MaxOps /\ ops' = ops + 1
    /\ IF r \in closed /\ ~encrypted
       THEN Finish(r, Failed)
       ELSE /\ op' = [op EXCEPT ![r] = [Idle EXCEPT !.pc = "lock", !.key = k, !.value = v]]
            /\ UNCHANGED answer
    /\ UNCHANGED <<shared, present, lock, closed, stamp, faults>>

\* Mutant: the snapshot is read before the lock is taken.
Read_Bug(r) ==
    /\ op[r].pc = "lock"
    /\ Load
    /\ op' = [op EXCEPT ![r].pc = "write",
                        ![r].snapshot = [Contents EXCEPT ![op[r].key] = op[r].value]]
    /\ UNCHANGED <<present, lock, closed, answer, ops, faults>>

Read(r) ==
    /\ op[r].pc = "lock" /\ lock = NoFile
    /\ \/ /\ Load
          /\ IF ~encrypted /\ Contents[op[r].key] = NoValue /\ op[r].value = NoValue
             THEN Finish(r, NoValue) /\ UNCHANGED lock
             ELSE /\ lock' = r
                  /\ op' = [op EXCEPT ![r].pc = "write", ![r].snapshot =
                                       [Contents EXCEPT ![op[r].key] = op[r].value]]
                  /\ UNCHANGED answer
       \/ Finish(r, Failed) /\ UNCHANGED <<shared, stamp, lock>>
    /\ UNCHANGED <<present, closed, ops, faults>>

\* The rename; without the data directory, or when the storage refuses, the
\* file stays as it was.
Write(r) ==
    /\ op[r].pc = "write"
    /\ \/ /\ present
          /\ stamp' = stamp + 1
          /\ file' = [map |-> op[r].snapshot, stamp |-> stamp', legacy |-> FALSE]
          /\ answer' = [answer EXCEPT ![r] = op[r].value]
          /\ op' = [op EXCEPT ![r].pc = "cache"]
          /\ UNCHANGED lock
       \/ /\ Finish(r, Failed)
          /\ lock' = NoFile
          /\ UNCHANGED <<file, stamp>>
    /\ UNCHANGED <<encrypted, cache, present, closed, ops, faults>>

\* Mutant: the decoded copy is not updated, only its stamp.
StoreCache_Bug(r) ==
    /\ op[r].pc = "cache"
    /\ cache' = [map |-> cache.map, stamp |-> Stamp]
    /\ lock' = NoFile
    /\ op' = [op EXCEPT ![r] = Idle]
    /\ UNCHANGED <<encrypted, file, present, closed, answer, stamp, ops, faults>>

StoreCache(r) ==
    /\ op[r].pc = "cache"
    /\ cache' = [map |-> op[r].snapshot, stamp |-> Stamp]
    /\ lock' = NoFile
    /\ op' = [op EXCEPT ![r] = Idle]
    /\ UNCHANGED <<encrypted, file, present, closed, answer, stamp, ops, faults>>

Take(r) ==
    /\ op[r].pc = "idle" /\ answer[r] # NoAnswer
    /\ answer' = [answer EXCEPT ![r] = NoAnswer]
    /\ UNCHANGED <<shared, present, lock, closed, op, stamp, ops, faults>>

(***************************************************************************)
(* Teardown of a runtime, removal and installation of the extension, which *)
(* take no file lock, and the death of the process.  An extension is       *)
(* removed between the calls: an isolated runtime that is in the middle of *)
(* one is not modelled.                                                    *)
(***************************************************************************)
Close(r) ==
    /\ r \notin closed /\ closed' = closed \cup {r}
    /\ UNCHANGED <<shared, present, lock, op, answer, stamp, ops, faults>>

RemoveData ==
    /\ present /\ lock = NoFile
    /\ faults < MaxFaults /\ faults' = faults + 1
    /\ present' = FALSE /\ file' = NoFile
    /\ UNCHANGED <<encrypted, cache, lock, closed, op, answer, stamp, ops>>

Install ==
    /\ ~present /\ present' = TRUE
    /\ UNCHANGED <<shared, lock, closed, op, answer, stamp, ops, faults>>

Crash ==
    /\ faults < MaxFaults /\ faults' = faults + 1
    /\ cache' = NoFile /\ lock' = NoFile /\ closed' = {}
    /\ op' = [r \in Runtimes |-> Idle]
    /\ answer' = [r \in Runtimes |-> NoAnswer]
    /\ UNCHANGED <<encrypted, file, present, stamp, ops>>

Next ==
    \/ \E r \in Runtimes, k \in Keys : Get(r, k) \/ \E v \in Values \cup {NoValue} : Mutate(r, k, v)
    \/ \E r \in Runtimes : Read(r) \/ Write(r) \/ StoreCache(r) \/ Take(r) \/ Close(r)
    \/ RemoveData \/ Install \/ Crash

Spec == Init /\ [][Next]_vars

(***************************************************************************)
(* Properties                                                              *)
(***************************************************************************)
\* The runtimes together see one atomic, persistent map: no write of one is
\* lost to another, no read is older than a finished write, a failed write
\* has changed nothing and a crash loses nothing.
Map == INSTANCE AtomicMap WITH map <- IF file = NoFile THEN Empty ELSE file.map
Atomic == Map!Spec

\* Whenever the lock is free, a decoded copy that would be trusted is the file.
CopyCurrent ==
    lock = NoFile /\ Cached => cache.map = IF file = NoFile THEN Empty ELSE file.map

=============================================================================
