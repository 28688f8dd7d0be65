----------------------------- MODULE ISRCIndex -----------------------------
(***************************************************************************)
(* The index of the recordings in a download directory (duplicate.go).  It *)
(* is built by a walk, which takes over what an earlier build has read of  *)
(* the files that have not changed, replaced as a whole, and kept up to    *)
(* date by the downloads.  An index that a caller holds may have been      *)
(* replaced since.  One directory; a stamp stands for a file's size and    *)
(* modification time, and every write of a file gives it a new one.        *)
(***************************************************************************)
EXTENDS Naturals, Sequences

CONSTANTS
    Callers, Paths, ISRCs, None,
    TTL,
    MaxWrites,     \* bound: writes of files, the stamps
    MaxBuilds,     \* bound: indexes built
    MaxTime        \* bound: the clock

VARIABLES
    now,
    disk,          \* the files: [isrc, stamp] or None
    writes,
    indexes,       \* the indexes built: [index, files, time]
    cached,        \* isrcIndexCache: the number of an index, 0 for none
    building,      \* isrcBuildingMu: who holds it
    caller         \* what each caller does

vars == <<now, disk, writes, indexes, cached, building, caller>>

Idle == [pc |-> "idle", isrc |-> None, path |-> None, idx |-> 0,
         seen |-> [p \in Paths |-> None], known |-> [p \in Paths |-> None], time |-> 0]

Init ==
    /\ now = 0 /\ writes = 0
    /\ disk \in [Paths -> {None} \cup [isrc : ISRCs, stamp : {0}]]   \* files of earlier
    /\ indexes = <<>> /\ cached = 0 /\ building = None
    /\ caller = [c \in Callers |-> Idle]

At(c, pc) == caller[c].pc = pc

Goes(c, to) == caller' = [caller EXCEPT ![c] = to]

\* isFresh
Fresh(idx) == idx # 0 /\ now < indexes[idx].time + TTL

\* GetISRCIndex, for checkISRCExistsInternal and for CheckFilesExistParallel.
Start(c) ==
    /\ At(c, "idle")
    /\ Goes(c, [Idle EXCEPT !.idx = IF Fresh(cached) THEN cached ELSE 0,
                            !.pc = IF Fresh(cached) THEN "lookup" ELSE "lock"])
    /\ UNCHANGED <<now, disk, writes, indexes, cached, building>>

\* One caller at a time builds for itself, and looks again first.
Lock(c) ==
    /\ At(c, "lock") /\ building = None
    /\ IF Fresh(cached)
       THEN Goes(c, [caller[c] EXCEPT !.idx = cached, !.pc = "lookup"]) /\ UNCHANGED building
       ELSE Goes(c, [caller[c] EXCEPT !.pc = "walk"]) /\ building' = c
    /\ UNCHANGED <<now, disk, writes, indexes, cached>>

\* PreBuildISRCIndex builds without the lock.
PreBuild(c) ==
    /\ At(c, "idle") /\ Goes(c, [Idle EXCEPT !.pc = "walk"])
    /\ UNCHANGED <<now, disk, writes, indexes, cached, building>>

\* buildISRCIndex: what the last build knows of the files that are there and
\* have not changed, and what the walk has seen of the others.
Walk(c) ==
    /\ At(c, "walk")
    /\ LET known == IF cached = 0 THEN Idle.known ELSE indexes[cached].files
           same(p) == known[p] # None /\ disk[p] # None /\ known[p].stamp = disk[p].stamp
       IN Goes(c, [caller[c] EXCEPT
                     !.pc = "parse", !.time = now,
                     !.known = [p \in Paths |-> IF same(p) THEN known[p] ELSE None],
                     !.seen = [p \in Paths |-> IF disk[p] = None \/ same(p) THEN None
                                               ELSE disk[p].stamp]])
    /\ UNCHANGED <<now, disk, writes, indexes, cached, building>>

\* The workers read the files that the walk has not known, as they are now.
Parse(c) ==
    /\ At(c, "parse")
    /\ Goes(c, [caller[c] EXCEPT
                  !.pc = "publish",
                  !.known = [p \in Paths |->
                      IF caller[c].seen[p] = None THEN @[p]
                      ELSE [stamp |-> caller[c].seen[p],
                            isrc |-> IF disk[p] = None THEN None ELSE disk[p].isrc]]])
    /\ UNCHANGED <<now, disk, writes, indexes, cached, building>>

\* Of two files with one ISRC either may be the one that is indexed.
Publishes(c, files) ==
    /\ At(c, "publish") /\ Len(indexes) < MaxBuilds
    /\ \E index \in [ISRCs -> Paths \cup {None}] :
          /\ \A i \in ISRCs :
                LET of == {p \in Paths : files[p] # None /\ files[p].isrc = i}
                IN index[i] \in IF of = {} THEN {None} ELSE of
          /\ indexes' = Append(indexes, [index |-> index, files |-> files,
                                         time |-> caller[c].time])
    /\ cached' = Len(indexes')
    /\ Goes(c, IF building # c THEN Idle
               ELSE [caller[c] EXCEPT !.idx = cached', !.pc = "lookup", !.time = 0,
                                      !.known = Idle.known, !.seen = Idle.seen])
    /\ building' = IF building = c THEN None ELSE building
    /\ UNCHANGED <<now, disk, writes>>

\* Mutant: the files are stamped when they have been read.
Publish_Bug(c) ==
    Publishes(c, [p \in Paths |->
        IF caller[c].seen[p] = None \/ disk[p] = None THEN caller[c].known[p]
        ELSE [caller[c].known[p] EXCEPT !.stamp = disk[p].stamp]])

Publish(c) == Publishes(c, caller[c].known)

\* checkISRCExistsInternal: the file that the index names is tested, and the
\* ISRC forgotten when it is gone.  CheckFilesExistParallel tests none.
Lookup(c) ==
    /\ At(c, "lookup")
    /\ \/ Goes(c, Idle)
       \/ \E i \in ISRCs :
            LET found == indexes[caller[c].idx].index[i] IN
            found # None /\ Goes(c, [caller[c] EXCEPT !.pc = "stat", !.path = found, !.isrc = i])
    /\ UNCHANGED <<now, disk, writes, indexes, cached, building>>

Stat(c) ==
    /\ At(c, "stat")
    /\ Goes(c, IF disk[caller[c].path] # None THEN Idle
               ELSE [caller[c] EXCEPT !.pc = "remove", !.path = None])
    /\ UNCHANGED <<now, disk, writes, indexes, cached, building>>

Remove(c) ==
    /\ At(c, "remove")
    /\ indexes' = [indexes EXCEPT ![caller[c].idx].index[caller[c].isrc] = None]
    /\ Goes(c, Idle)
    /\ UNCHANGED <<now, disk, writes, cached, building>>

\* InvalidateISRCCache
Invalidate ==
    /\ cached # 0 /\ cached' = 0
    /\ UNCHANGED <<now, disk, writes, indexes, building, caller>>

\* No two downloads under way write one file, and none is edited before it
\* is done.
Free(p) == \A c \in Callers : caller[c].pc \in {"index", "add"} => caller[c].path # p

Writes(p, file) == writes < MaxWrites /\ writes' = writes + 1
                   /\ disk' = [disk EXCEPT ![p] = [isrc |-> file, stamp |-> writes']]

\* A download has written its file; AddToISRCIndex takes the index that is
\* cached.
Download(c, p, i) ==
    /\ At(c, "idle") /\ Free(p) /\ Writes(p, i)
    /\ Goes(c, [Idle EXCEPT !.pc = "index", !.path = p, !.isrc = i])
    /\ UNCHANGED <<now, indexes, cached, building>>

AddToIndex(c) ==
    /\ At(c, "index")
    /\ Goes(c, IF cached = 0 THEN Idle ELSE [caller[c] EXCEPT !.pc = "add", !.idx = cached])
    /\ UNCHANGED <<now, disk, writes, indexes, cached, building>>

\* Add
Add(c) ==
    /\ At(c, "add")
    /\ LET f == disk[caller[c].path] IN
       indexes' = [indexes EXCEPT
           ![caller[c].idx] =
               [index |-> [@.index EXCEPT ![caller[c].isrc] = caller[c].path],
                files |-> IF f = None THEN @.files
                          ELSE [@.files EXCEPT ![caller[c].path] =
                                  [stamp |-> f.stamp, isrc |-> caller[c].isrc]],
                time |-> now]]
    /\ Goes(c, Idle)
    /\ UNCHANGED <<now, disk, writes, cached, building>>

\* Somebody deletes a file, or edits its tags.
Delete(p) ==
    /\ disk[p] # None /\ disk' = [disk EXCEPT ![p] = None]
    /\ UNCHANGED <<now, writes, indexes, cached, building, caller>>

Retag(p, i) ==
    /\ disk[p] # None /\ Free(p) /\ Writes(p, i)
    /\ UNCHANGED <<now, indexes, cached, building, caller>>

Tick ==
    /\ now < MaxTime /\ now' = now + 1
    /\ UNCHANGED <<disk, writes, indexes, cached, building, caller>>

Calls(c) ==
    \/ Start(c) \/ Lock(c) \/ PreBuild(c) \/ Walk(c) \/ Parse(c) \/ Publish(c)
    \/ Lookup(c) \/ Stat(c) \/ Remove(c)
    \/ \E p \in Paths : \E i \in ISRCs : Download(c, p, i)
    \/ AddToIndex(c) \/ Add(c)

Next ==
    \/ \E c \in Callers : Calls(c)
    \/ Invalidate \/ Tick
    \/ \E p \in Paths : Delete(p) \/ \E i \in ISRCs : Retag(p, i)

Spec == Init /\ [][Next]_vars

\* No index, and no build under way, believes that it has read a file when
\* what it remembers is not what is in the file: the next build would take
\* it over unread, and a track would be skipped, or downloaded again, for
\* good.
CacheHonest ==
    LET honest(files) ==
            \A p \in Paths : files[p] # None /\ disk[p] # None
                              /\ files[p].stamp = disk[p].stamp
                            => files[p].isrc = disk[p].isrc
    IN /\ \A k \in DOMAIN indexes : honest(indexes[k].files)
       /\ \A c \in Callers : At(c, "publish") => honest(caller[c].known)

=============================================================================
