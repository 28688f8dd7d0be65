----------------------------- MODULE DataProofs -----------------------------
(***************************************************************************)
(* What MCData says of the index of a download directory, of a scan of the *)
(* library and of the answers of services, for every value of the          *)
(* constants and every input; and what the tags of a file are made of.     *)
(***************************************************************************)
EXTENDS MCData, TLAPS, WellFoundedInduction, SequenceTheorems, FiniteSetTheorems

-----------------------------------------------------------------------------
(* The index of a directory.  What is remembered of a file carries the     *)
(* stamp of a write that has been, and is what that write has made of it.  *)
Pcs == {"idle", "lock", "walk", "parse", "publish", "lookup", "stat", "remove", "index", "add"}
Files == [Paths -> [stamp : Nat, isrc : ISRCs \cup {None}] \cup {None}]
Indexes == [index : [ISRCs -> Paths \cup {None}], files : Files, time : Nat]
Local == [pc : Pcs, isrc : ISRCs \cup {None}, path : Paths \cup {None}, idx : Nat,
          seen : [Paths -> Nat \cup {None}], known : Files, time : Nat]

IndexTyped ==
    /\ now \in Nat /\ writes \in Nat
    /\ disk \in [Paths -> [isrc : ISRCs, stamp : Nat] \cup {None}]
    /\ indexes \in Seq(Indexes) /\ cached \in 0..Len(indexes)
    /\ caller \in [Callers -> Local]

\* What is known of the files was known in time, and is true of those that are
\* as they were.
Sound(files, d, n) ==
    \A p \in Paths : files[p] # None =>
        /\ files[p].stamp <= n
        /\ d[p] # None /\ files[p].stamp = d[p].stamp => files[p].isrc = d[p].isrc

\* A caller knows what is sound, and a download that has written its file still
\* finds its recording there.
CallerSound(r, d, n, built) ==
    /\ Sound(r.known, d, n)
    /\ \A p \in Paths : r.seen[p] # None => r.seen[p] <= n
    /\ r.pc \in {"lookup", "stat", "remove", "add"} => r.idx \in 1..built
    /\ r.pc \in {"index", "add"} =>
         /\ r.path \in Paths /\ r.isrc \in ISRCs
         /\ d[r.path] # None => d[r.path].isrc = r.isrc

IndexIInv ==
    /\ IndexTyped
    /\ \A p \in Paths : disk[p] # None => disk[p].stamp <= writes
    /\ \A k \in 1..Len(indexes) : Sound(indexes[k].files, disk, writes)
    /\ \A c \in Callers : CallerSound(caller[c], disk, writes, Len(indexes))

-----------------------------------------------------------------------------
\* A caller goes on, and nothing else changes.
LEMMA GoesKeeps ==
  ASSUME IndexIInv, NEW c \in Callers, NEW r \in Local, caller' = [caller EXCEPT ![c] = r],
         CallerSound(r, disk, writes, Len(indexes)),
         UNCHANGED <<now, disk, writes, indexes>>, cached' \in 0..Len(indexes)
  PROVE  IndexIInv'
<1>1. IndexTyped'
  BY DEF IndexIInv, IndexTyped
<1>2. \A d \in Callers : caller'[d] = IF d = c THEN r ELSE caller[d]
  BY DEF IndexIInv, IndexTyped
<1> QED
  BY <1>1, <1>2 DEF IndexIInv

\* A caller that is idle knows nothing.
LEMMA IdleSound ==
  /\ Index!Idle \in Local
  /\ \A d, n, b : CallerSound(Index!Idle, d, n, b)
<1>1. Index!Idle.pc = "idle" /\ Index!Idle.seen = [p \in Paths |-> None]
      /\ Index!Idle.known = [p \in Paths |-> None] /\ Index!Idle \in Local
  BY DEF Index!Idle, Local, Pcs, Files
<1>2. \A d, n : Sound(Index!Idle.known, d, n)
  BY <1>1 DEF Sound
<1> QED
  BY <1>1, <1>2 DEF CallerSound

\* What a change of the place or the index makes of a caller that does not add.
LEMMA PlaceSound ==
  ASSUME NEW r, NEW s, NEW d, NEW n, NEW b, CallerSound(r, d, n, b),
         s.known = r.known, s.seen = r.seen, s.pc \notin {"index", "add"},
         s.pc \in {"lookup", "stat", "remove"} => s.idx \in 1..b
  PROVE  CallerSound(s, d, n, b)
BY DEF CallerSound

\* A caller starts with the published index, if it is fresh.
LEMMA StartKeeps ==
  ASSUME IndexIInv, NEW c \in Callers, Index!Start(c)
  PROVE  IndexIInv'
<1> DEFINE r == [Index!Idle EXCEPT !.idx = IF Index!Fresh(cached) THEN cached ELSE 0,
                             !.pc = IF Index!Fresh(cached) THEN "lookup" ELSE "lock"]
<1>1. cached \in 0..Len(indexes) /\ Len(indexes) \in Nat
  BY DEF IndexIInv, IndexTyped
<1>2. r \in Local /\ CallerSound(r, disk, writes, Len(indexes))
  <2>1. CASE Index!Fresh(cached)
    <3>1. /\ r \in Local /\ r.pc = "lookup" /\ r.idx = cached
          /\ r.known = Index!Idle.known /\ r.seen = Index!Idle.seen
      <4>1. r = [Index!Idle EXCEPT !.idx = cached, !.pc = "lookup"]
        BY <2>1
      <4>2. cached \in Nat /\ Index!Idle \in Local
        BY <1>1, IdleSound
      <4> HIDE DEF r
      <4> QED
        BY <4>1, <4>2 DEF Local, Pcs
    <3>2. cached \in 1..Len(indexes)
      BY <1>1, <2>1 DEF Index!Fresh
    <3>3. CallerSound(Index!Idle, disk, writes, Len(indexes))
      BY IdleSound
    <3> HIDE DEF r
    <3> QED
      BY <3>1, <3>2, <3>3, PlaceSound
  <2>2. CASE ~Index!Fresh(cached)
    <3>1. /\ r \in Local /\ r.pc = "lock" /\ r.known = Index!Idle.known
             /\ r.seen = Index!Idle.seen
      BY <1>1, <2>2, IdleSound DEF Local, Pcs
    <3>2. CallerSound(Index!Idle, disk, writes, Len(indexes))
      BY IdleSound
    <3> HIDE DEF r
    <3> QED
      BY <3>1, <3>2, PlaceSound
  <2> QED
    BY <2>1, <2>2
<1>3. caller' = [caller EXCEPT ![c] = r]
  BY DEF Index!Start, Index!Goes
<1> HIDE DEF r
<1> QED
  BY <1>1, <1>2, <1>3, GoesKeeps DEF Index!Start

\* A caller goes to a place where it reads or waits.
LEMMA WaitKeeps ==
  ASSUME IndexIInv, NEW c \in Callers, NEW pc \in Pcs \ {"index", "add"}, NEW i \in Nat,
         pc \in {"lookup", "stat", "remove"} => i \in 1..Len(indexes),
         Index!Goes(c, [caller[c] EXCEPT !.idx = i, !.pc = pc]),
         UNCHANGED <<now, disk, writes, indexes, cached>>
  PROVE  IndexIInv'
<1> DEFINE r == [caller[c] EXCEPT !.idx = i, !.pc = pc]
<1>1. caller[c] \in Local /\ CallerSound(caller[c], disk, writes, Len(indexes))
      /\ Len(indexes) \in Nat
  BY DEF IndexIInv, IndexTyped
<1>2. /\ r \in Local /\ r.pc = pc /\ r.idx = i
      /\ r.known = caller[c].known /\ r.seen = caller[c].seen
  BY <1>1 DEF Local
<1>3. caller' = [caller EXCEPT ![c] = r]
  BY DEF Index!Goes
<1> HIDE DEF r
<1>4. CallerSound(r, disk, writes, Len(indexes))
  BY <1>1, <1>2, PlaceSound
<1> QED
  BY <1>2, <1>3, <1>4, GoesKeeps DEF IndexIInv, IndexTyped

\* Before it builds, it looks once more whether there is a fresh index.
LEMMA LockKeeps ==
  ASSUME IndexIInv, NEW c \in Callers, Index!Lock(c)
  PROVE  IndexIInv'
<1>1. cached \in 0..Len(indexes) /\ Len(indexes) \in Nat /\ caller[c] \in Local
  BY DEF IndexIInv, IndexTyped
<1>2. CASE Index!Fresh(cached)
  <2>1. Index!Goes(c, [caller[c] EXCEPT !.idx = cached, !.pc = "lookup"])
    BY <1>2 DEF Index!Lock
  <2>2. cached \in Nat /\ cached \in 1..Len(indexes)
    BY <1>1, <1>2 DEF Index!Fresh
  <2> QED
    BY <2>1, <2>2, WaitKeeps DEF Pcs, Index!Lock
<1>3. CASE ~Index!Fresh(cached)
  <2>1. [caller[c] EXCEPT !.pc = "walk"] = [caller[c] EXCEPT !.idx = caller[c].idx, !.pc = "walk"]
    BY <1>1 DEF Local
  <2>2. caller[c].idx \in Nat
    BY <1>1 DEF Local
  <2>3. Index!Goes(c, [caller[c] EXCEPT !.idx = caller[c].idx, !.pc = "walk"])
    BY <1>3, <2>1 DEF Index!Lock
  <2> QED
    BY <2>2, <2>3, WaitKeeps DEF Pcs, Index!Lock
<1> QED
  BY <1>2, <1>3

LEMMA PreBuildKeeps ==
  ASSUME IndexIInv, NEW c \in Callers, Index!PreBuild(c)
  PROVE  IndexIInv'
<1> DEFINE r == [Index!Idle EXCEPT !.pc = "walk"]
<1>1. r \in Local /\ r.pc = "walk" /\ r.known = Index!Idle.known /\ r.seen = Index!Idle.seen
  BY IdleSound DEF Local, Pcs
<1>2. CallerSound(Index!Idle, disk, writes, Len(indexes))
  BY IdleSound
<1>3. caller' = [caller EXCEPT ![c] = r]
  BY DEF Index!PreBuild, Index!Goes
<1> HIDE DEF r
<1>4. CallerSound(r, disk, writes, Len(indexes))
  BY <1>1, <1>2, PlaceSound
<1> QED
  BY <1>1, <1>3, <1>4, GoesKeeps DEF Index!PreBuild, IndexIInv, IndexTyped

\* The walk takes over what is true still.
LEMMA WalkKeeps ==
  ASSUME IndexIInv, NEW c \in Callers, Index!Walk(c)
  PROVE  IndexIInv'
<1> DEFINE old == IF cached = 0 THEN Index!Idle.known ELSE indexes[cached].files
           same(p) == old[p] # None /\ disk[p] # None /\ old[p].stamp = disk[p].stamp
           known == [p \in Paths |-> IF same(p) THEN old[p] ELSE None]
           seen == [p \in Paths |-> IF disk[p] = None \/ same(p) THEN None ELSE disk[p].stamp]
           r == [caller[c] EXCEPT !.pc = "parse", !.time = now, !.known = known, !.seen = seen]
<1>1. caller' = [caller EXCEPT ![c] = r]
  BY DEF Index!Walk, Index!Goes
<1>2. old \in Files /\ Sound(old, disk, writes)
  <2>1. CASE cached = 0
    BY <2>1, IdleSound DEF CallerSound, Local
  <2>2. CASE cached # 0
    <3>1. cached \in 1..Len(indexes) /\ indexes \in Seq(Indexes)
      BY <2>2 DEF IndexIInv, IndexTyped
    <3>2. indexes[cached] \in Indexes
      BY <3>1
    <3>3. indexes[cached].files \in Files
      BY <3>2 DEF Indexes
    <3> QED
      BY <2>2, <3>1, <3>3 DEF IndexIInv
  <2> QED
    BY <2>1, <2>2
<1> HIDE DEF old
<1>3. known \in Files
  BY <1>2 DEF Files
<1>4. Sound(known, disk, writes)
  BY <1>2 DEF Sound
<1>5. /\ seen \in [Paths -> Nat \cup {None}]
      /\ \A p \in Paths : seen[p] # None => seen[p] <= writes
  BY DEF IndexIInv, IndexTyped
<1> HIDE DEF known, seen
<1>6. r \in Local
  BY <1>3, <1>5, ZenonT(30) DEF IndexIInv, IndexTyped, Local, Pcs
<1>7. r.pc = "parse" /\ r.known = known /\ r.seen = seen
  BY DEF IndexIInv, IndexTyped, Local
<1> HIDE DEF r
<1>8. CallerSound(r, disk, writes, Len(indexes))
  BY <1>4, <1>5, <1>7 DEF CallerSound
<1> QED
  BY <1>1, <1>6, <1>8, GoesKeeps DEF Index!Walk, IndexIInv, IndexTyped

\* What is read now of a file with the stamp that was seen, is of that file or
\* of one that has another stamp.
LEMMA ParseKeeps ==
  ASSUME IndexIInv, NEW c \in Callers, Index!Parse(c)
  PROVE  IndexIInv'
<1> DEFINE l == caller[c]
           known == [p \in Paths |->
                       IF l.seen[p] = None THEN l.known[p]
                       ELSE [stamp |-> l.seen[p],
                             isrc |-> IF disk[p] = None THEN None ELSE disk[p].isrc]]
           r == [l EXCEPT !.pc = "publish", !.known = known]
<1>1. caller' = [caller EXCEPT ![c] = r]
  BY DEF Index!Parse, Index!Goes
<1>2. l \in Local /\ CallerSound(l, disk, writes, Len(indexes))
  BY DEF IndexIInv, IndexTyped
<1>3. l.seen \in [Paths -> Nat \cup {None}] /\ l.known \in Files
  BY <1>2 DEF Local
<1> HIDE DEF l
<1>4. known \in Files
  BY <1>3 DEF Files, IndexIInv, IndexTyped
<1>5. Sound(known, disk, writes)
  BY <1>2, <1>3 DEF CallerSound, Sound
<1> HIDE DEF known
<1>6. r \in Local /\ r.pc = "publish" /\ r.known = known /\ r.seen = l.seen
  BY <1>2, <1>4 DEF Local, Pcs
<1> HIDE DEF r
<1>7. CallerSound(r, disk, writes, Len(indexes))
  BY <1>2, <1>5, <1>6 DEF CallerSound
<1> QED
  BY <1>1, <1>6, <1>7, GoesKeeps DEF Index!Parse, IndexIInv, IndexTyped

\* What a caller is about to publish is sound.
LEMMA PublishKeeps ==
  ASSUME IndexIInv, NEW c \in Callers, Index!Publish(c)
  PROVE  IndexIInv'
<1> DEFINE l == caller[c]
           n == Len(indexes)
<1>1. l \in Local /\ CallerSound(l, disk, writes, n) /\ n \in Nat
  BY DEF IndexIInv, IndexTyped
<1>2. l.known \in Files /\ Sound(l.known, disk, writes) /\ l.time \in Nat
  BY <1>1 DEF CallerSound, Local
<1>3. PICK index \in [ISRCs -> Paths \cup {None}] :
        indexes' = Append(indexes, [index |-> index, files |-> l.known, time |-> l.time])
  BY DEF Index!Publish, Index!Publishes
<1> DEFINE e == [index |-> index, files |-> l.known, time |-> l.time]
<1>4. e \in Indexes /\ e.files = l.known
  BY <1>2 DEF Indexes
<1> HIDE DEF e
<1>5. /\ indexes' \in Seq(Indexes) /\ Len(indexes') = n + 1 /\ indexes'[n + 1] = e
      /\ \A k \in 1..n : indexes'[k] = indexes[k]
  <2>1. indexes \in Seq(Indexes) /\ indexes' = Append(indexes, e)
    BY <1>3 DEF IndexIInv, IndexTyped, e
  <2> QED
    BY <1>4, <2>1
<1>6. cached' = n + 1 /\ UNCHANGED <<now, disk, writes>>
  BY <1>5 DEF Index!Publish, Index!Publishes
<1>7. PICK r \in Local : /\ caller' = [caller EXCEPT ![c] = r]
                         /\ CallerSound(r, disk, writes, n + 1)
  <2>1. CASE building # c
    BY <2>1, IdleSound DEF Index!Publish, Index!Publishes, Index!Goes
  <2>2. CASE building = c
    <3> DEFINE known == Index!Idle.known
               seen == Index!Idle.seen
               k == cached'
               r == [l EXCEPT !.idx = k, !.pc = "lookup", !.time = 0,
                              !.known = known, !.seen = seen]
    <3>1. caller' = [caller EXCEPT ![c] = r]
      BY <2>2 DEF Index!Publish, Index!Publishes, Index!Goes
    <3>2. /\ known \in Files /\ seen \in [Paths -> Nat \cup {None}]
          /\ Sound(known, disk, writes) /\ \A p \in Paths : seen[p] = None
          /\ k = n + 1 /\ k \in Nat
      BY <1>1, <1>6, IdleSound DEF Index!Idle, CallerSound, Local
    <3> HIDE DEF known, seen, k
    <3>3. r \in Local /\ r.pc = "lookup" /\ r.idx = k /\ r.known = known /\ r.seen = seen
      <4> HIDE DEF l
      <4> QED
        BY <1>1, <3>2 DEF Local, Pcs
    <3> HIDE DEF r
    <3>4. CallerSound(r, disk, writes, n + 1)
      BY <1>1, <3>2, <3>3 DEF CallerSound
    <3> QED
      BY <3>1, <3>3, <3>4
  <2> QED
    BY <2>1, <2>2
<1>8. IndexTyped'
  BY <1>1, <1>5, <1>6, <1>7 DEF IndexIInv, IndexTyped
<1>9. \A k \in 1..Len(indexes') : Sound(indexes'[k].files, disk, writes)
  BY <1>1, <1>2, <1>4, <1>5 DEF IndexIInv
<1>10. \A d \in Callers : CallerSound(caller'[d], disk, writes, Len(indexes'))
  <2>1. \A d \in Callers : caller'[d] = IF d = c THEN r ELSE caller[d]
    BY <1>7 DEF IndexIInv, IndexTyped
  <2>2. \A d \in Callers : CallerSound(caller[d], disk, writes, n + 1)
    BY <1>1 DEF IndexIInv, CallerSound
  <2> QED
    BY <1>5, <1>7, <2>1, <2>2
<1> QED
  BY <1>6, <1>8, <1>9, <1>10 DEF IndexIInv

\* A caller looks a recording up in the index it has.
LEMMA LookupKeeps ==
  ASSUME IndexIInv, NEW c \in Callers, Index!Lookup(c)
  PROVE  IndexIInv'
<1>1. CASE Index!Goes(c, Index!Idle)
  BY <1>1, IdleSound, GoesKeeps DEF Index!Lookup, Index!Goes, IndexIInv, IndexTyped
<1>2. ASSUME NEW i \in ISRCs,
             LET found == indexes[caller[c].idx].index[i] IN
             found # None
             /\ Index!Goes(c, [caller[c] EXCEPT !.pc = "stat", !.path = found, !.isrc = i])
      PROVE  IndexIInv'
  <2> DEFINE l == caller[c]
             found == indexes[l.idx].index[i]
             r == [l EXCEPT !.pc = "stat", !.path = found, !.isrc = i]
  <2>1. l \in Local /\ CallerSound(l, disk, writes, Len(indexes)) /\ l.idx \in 1..Len(indexes)
    BY DEF IndexIInv, IndexTyped, Index!Lookup, Index!At, CallerSound
  <2>2. indexes[l.idx] \in Indexes
    BY <2>1 DEF IndexIInv, IndexTyped
  <2>3. found \in Paths \cup {None}
    BY <2>2 DEF Indexes
  <2>4. caller' = [caller EXCEPT ![c] = r]
    BY <1>2 DEF Index!Goes
  <2> HIDE DEF found
  <2>5. /\ r \in Local /\ r.pc = "stat" /\ r.idx = l.idx
        /\ r.known = l.known /\ r.seen = l.seen
    BY <2>1, <2>3 DEF Local, Pcs
  <2> HIDE DEF r
  <2>6. CallerSound(r, disk, writes, Len(indexes))
    BY <2>1, <2>5 DEF CallerSound
  <2> QED
    BY <2>4, <2>5, <2>6, GoesKeeps DEF Index!Lookup, IndexIInv, IndexTyped
<1> QED
  BY <1>1, <1>2 DEF Index!Lookup

LEMMA StatKeeps ==
  ASSUME IndexIInv, NEW c \in Callers, Index!Stat(c)
  PROVE  IndexIInv'
<1>1. CASE Index!Goes(c, Index!Idle)
  BY <1>1, IdleSound, GoesKeeps DEF Index!Stat, Index!Goes, IndexIInv, IndexTyped
<1>2. CASE Index!Goes(c, [caller[c] EXCEPT !.pc = "remove", !.path = None])
  <2> DEFINE l == caller[c]
             r == [l EXCEPT !.pc = "remove", !.path = None]
  <2>1. l \in Local /\ CallerSound(l, disk, writes, Len(indexes)) /\ l.idx \in 1..Len(indexes)
    BY DEF IndexIInv, IndexTyped, Index!Stat, Index!At, CallerSound
  <2>2. caller' = [caller EXCEPT ![c] = r]
    BY <1>2 DEF Index!Goes
  <2>3. /\ r \in Local /\ r.pc = "remove" /\ r.idx = l.idx
        /\ r.known = l.known /\ r.seen = l.seen
    BY <2>1 DEF Local, Pcs
  <2> HIDE DEF r
  <2>4. CallerSound(r, disk, writes, Len(indexes))
    BY <2>1, <2>3 DEF CallerSound
  <2> QED
    BY <2>2, <2>3, <2>4, GoesKeeps DEF Index!Stat, IndexIInv, IndexTyped
<1> QED
  BY <1>1, <1>2 DEF Index!Stat

\* An index changes, whose files stay sound.
LEMMA IndexKeeps ==
  ASSUME IndexIInv, NEW c \in Callers, NEW k \in 1..Len(indexes), NEW e \in Indexes,
         indexes' = [indexes EXCEPT ![k] = e], Sound(e.files, disk, writes),
         Index!Goes(c, Index!Idle), UNCHANGED <<now, disk, writes, cached>>
  PROVE  IndexIInv'
<1>1. /\ indexes' \in Seq(Indexes) /\ Len(indexes') = Len(indexes)
      /\ \A j \in 1..Len(indexes) : indexes'[j] = IF j = k THEN e ELSE indexes[j]
  BY DEF IndexIInv, IndexTyped
<1>2. \A d \in Callers : caller'[d] = IF d = c THEN Index!Idle ELSE caller[d]
  BY DEF IndexIInv, IndexTyped, Index!Goes
<1>3. IndexTyped'
  BY <1>1, IdleSound DEF IndexIInv, IndexTyped, Index!Goes
<1> QED
  BY <1>1, <1>2, <1>3, IdleSound DEF IndexIInv

LEMMA RemoveKeeps ==
  ASSUME IndexIInv, NEW c \in Callers, Index!Remove(c)
  PROVE  IndexIInv'
<1> DEFINE k == caller[c].idx
           e == [indexes[k] EXCEPT !.index[caller[c].isrc] = None]
<1>1. k \in 1..Len(indexes)
  BY DEF IndexIInv, Index!Remove, Index!At, CallerSound
<1>2. indexes[k] \in Indexes /\ Sound(indexes[k].files, disk, writes)
  BY <1>1 DEF IndexIInv, IndexTyped
<1>3. e \in Indexes /\ e.files = indexes[k].files
  BY <1>2 DEF Indexes
<1>4. indexes' = [indexes EXCEPT ![k] = e]
  BY <1>1 DEF Index!Remove, IndexIInv, IndexTyped
<1> HIDE DEF e
<1> QED
  BY <1>1, <1>2, <1>3, <1>4, IndexKeeps DEF Index!Remove

LEMMA AddKeeps ==
  ASSUME IndexIInv, NEW c \in Callers, Index!Add(c)
  PROVE  IndexIInv'
<1> DEFINE l == caller[c]
           old == indexes[l.idx]
           f == disk[l.path]
           files == IF f = None THEN old.files
                    ELSE [old.files EXCEPT ![l.path] = [stamp |-> f.stamp, isrc |-> l.isrc]]
           index == [old.index EXCEPT ![l.isrc] = l.path]
           e == [index |-> index, files |-> files, time |-> now]
<1>1. /\ l \in Local /\ l.idx \in 1..Len(indexes) /\ l.path \in Paths /\ l.isrc \in ISRCs
      /\ f # None => f.isrc = l.isrc
  BY DEF IndexIInv, IndexTyped, Index!Add, Index!At, CallerSound
<1>2. old \in Indexes /\ Sound(old.files, disk, writes)
  BY <1>1 DEF IndexIInv, IndexTyped
<1>3. old.files \in Files /\ old.index \in [ISRCs -> Paths \cup {None}]
  BY <1>2 DEF Indexes
<1>4. f # None => f.stamp \in Nat /\ f.stamp <= writes
  BY <1>1 DEF IndexIInv, IndexTyped
<1>5. indexes' = [indexes EXCEPT ![l.idx] = e]
  BY <1>1 DEF Index!Add, IndexIInv, IndexTyped
<1>6. files \in Files
  BY <1>1, <1>3, <1>4 DEF Files
<1>7. Sound(files, disk, writes)
  BY <1>1, <1>2, <1>3, <1>4 DEF Sound, Files
<1>8. index \in [ISRCs -> Paths \cup {None}]
  BY <1>1, <1>3
<1> HIDE DEF files, index
<1>9. e \in Indexes /\ e.files = files
  BY <1>6, <1>8 DEF Indexes, IndexIInv, IndexTyped
<1> HIDE DEF e
<1> QED
  BY <1>1, <1>5, <1>7, <1>9, IndexKeeps DEF Index!Add

\* A download adds its file to the index that has been published.
LEMMA AddToIndexKeeps ==
  ASSUME IndexIInv, NEW c \in Callers, Index!AddToIndex(c)
  PROVE  IndexIInv'
<1>1. CASE cached = 0
  BY <1>1, IdleSound, GoesKeeps DEF Index!AddToIndex, Index!Goes, IndexIInv, IndexTyped
<1>2. CASE cached # 0
  <2> DEFINE l == caller[c]
             r == [l EXCEPT !.pc = "add", !.idx = cached]
  <2>1. l \in Local /\ CallerSound(l, disk, writes, Len(indexes)) /\ l.pc = "index"
    BY DEF IndexIInv, IndexTyped, Index!AddToIndex, Index!At
  <2>2. cached \in 1..Len(indexes) /\ cached \in Nat
    BY <1>2 DEF IndexIInv, IndexTyped
  <2>3. caller' = [caller EXCEPT ![c] = r]
    BY <1>2 DEF Index!AddToIndex, Index!Goes
  <2>4. /\ r \in Local /\ r.pc = "add" /\ r.idx = cached /\ r.path = l.path /\ r.isrc = l.isrc
        /\ r.known = l.known /\ r.seen = l.seen
    BY <2>1, <2>2 DEF Local, Pcs
  <2> HIDE DEF r
  <2>5. CallerSound(r, disk, writes, Len(indexes))
    BY <2>1, <2>2, <2>4 DEF CallerSound
  <2> QED
    BY <2>3, <2>4, <2>5, GoesKeeps DEF Index!AddToIndex, IndexIInv, IndexTyped
<1> QED
  BY <1>1, <1>2

-----------------------------------------------------------------------------
Deleted(p) == disk' = [disk EXCEPT ![p] = None] /\ writes' = writes
Rewritten(p, i) ==
    /\ i \in ISRCs /\ writes' = writes + 1
    /\ disk' = [disk EXCEPT ![p] = [isrc |-> i, stamp |-> writes']]

\* A file that is written has a stamp that nobody has seen; one that is deleted
\* has none.
LEMMA DiskKeeps ==
  ASSUME IndexIInv, NEW p \in Paths, NEW i,
         Deleted(p) \/ Rewritten(p, i)
  PROVE  /\ writes' \in Nat /\ writes <= writes'
         /\ disk' \in [Paths -> [isrc : ISRCs, stamp : Nat] \cup {None}]
         /\ \A q \in Paths : disk'[q] # None => disk'[q].stamp <= writes'
         /\ \A q \in Paths : q # p => disk'[q] = disk[q]
         /\ \A files \in Files :
              Sound(files, disk, writes) => Sound(files, disk', writes')
<1>1. writes \in Nat /\ disk \in [Paths -> [isrc : ISRCs, stamp : Nat] \cup {None}]
  BY DEF IndexIInv, IndexTyped
<1>2. /\ writes' \in Nat /\ writes <= writes'
      /\ disk' \in [Paths -> [isrc : ISRCs, stamp : Nat] \cup {None}]
      /\ \A q \in Paths : q # p => disk'[q] = disk[q]
      /\ disk'[p] = None \/ (disk'[p].stamp = writes' /\ writes' = writes + 1)
  BY <1>1 DEF Deleted, Rewritten
<1>3. \A q \in Paths : disk'[q] # None => disk'[q].stamp <= writes'
  BY <1>1, <1>2 DEF IndexIInv
<1>4. ASSUME NEW files \in Files, Sound(files, disk, writes), NEW q \in Paths, files[q] # None
      PROVE  /\ files[q].stamp <= writes'
             /\ disk'[q] # None /\ files[q].stamp = disk'[q].stamp
                  => files[q].isrc = disk'[q].isrc
  <2>1. files[q].stamp <= writes /\ files[q].stamp \in Nat
    BY <1>4 DEF Sound, Files
  <2>2. CASE q = p
    BY <1>1, <1>2, <2>1, <2>2
  <2>3. CASE q # p
    BY <1>1, <1>2, <1>4, <2>1, <2>3 DEF Sound
  <2> QED
    BY <2>2, <2>3
<1>5. \A files \in Files : Sound(files, disk, writes) => Sound(files, disk', writes')
  BY <1>4 DEF Sound
<1> QED
  BY <1>2, <1>3, <1>5

\* The callers that do not write the file go on as before.
LEMMA CallerKeeps ==
  ASSUME IndexIInv, NEW p \in Paths, NEW i, NEW d \in Callers,
         Deleted(p) \/ (Rewritten(p, i) /\ Index!Free(p))
  PROVE  CallerSound(caller[d], disk', writes', Len(indexes))
<1> DEFINE l == caller[d]
<1>1. l \in Local /\ CallerSound(l, disk, writes, Len(indexes))
  BY DEF IndexIInv, IndexTyped
<1>2. l.known \in Files /\ l.seen \in [Paths -> Nat \cup {None}]
  BY <1>1 DEF Local
<1>3. Sound(l.known, disk', writes')
  BY <1>1, <1>2, DiskKeeps DEF CallerSound
<1>4. \A q \in Paths : l.seen[q] # None => l.seen[q] <= writes'
  <2>1. writes \in Nat /\ writes' \in Nat /\ writes <= writes'
    BY DiskKeeps DEF IndexIInv, IndexTyped
  <2>2. \A q \in Paths : l.seen[q] # None => l.seen[q] \in Nat /\ l.seen[q] <= writes
    BY <1>1, <1>2 DEF CallerSound
  <2> HIDE DEF l
  <2> QED
    BY <2>1, <2>2
<1>5. ASSUME l.pc \in {"index", "add"}
      PROVE  /\ l.path \in Paths /\ l.isrc \in ISRCs
             /\ disk'[l.path] # None => disk'[l.path].isrc = l.isrc
  <2>1. /\ l.path \in Paths /\ l.isrc \in ISRCs
        /\ disk[l.path] # None => disk[l.path].isrc = l.isrc
    BY <1>1, <1>5 DEF CallerSound
  <2>2. CASE l.path # p
    BY <2>1, <2>2, DiskKeeps
  <2>3. CASE l.path = p
    <3>1. CASE Deleted(p)
      BY <2>1, <2>3, <3>1 DEF Deleted, IndexIInv, IndexTyped
    <3>2. CASE Rewritten(p, i) /\ Index!Free(p)
      BY <1>5, <2>1, <2>3, <3>2 DEF Index!Free
    <3> QED
      BY <2>1, <3>1, <3>2
  <2> QED
    BY <2>1, <2>2, <2>3
<1> QED
  BY <1>1, <1>3, <1>4, <1>5 DEF CallerSound

\* What the published indexes know of the files stays sound when one changes.
LEMMA FilesKeep ==
  ASSUME IndexIInv, NEW p \in Paths, NEW i,
         Deleted(p) \/ Rewritten(p, i)
  PROVE  \A k \in 1..Len(indexes) : Sound(indexes[k].files, disk', writes')
<1>1. ASSUME NEW k \in 1..Len(indexes)
      PROVE  indexes[k].files \in Files /\ Sound(indexes[k].files, disk, writes)
  <2>1. indexes[k] \in Indexes
    BY DEF IndexIInv, IndexTyped
  <2> QED
    BY <2>1 DEF Indexes, IndexIInv
<1> QED
  BY <1>1, DiskKeeps

\* A file is deleted, or tagged anew, by somebody else.
LEMMA EditKeeps ==
  ASSUME IndexIInv, NEW p \in Paths, NEW i,
         Index!Delete(p) \/ (i \in ISRCs /\ Index!Retag(p, i))
  PROVE  IndexIInv'
<1>1. Deleted(p) \/ (Rewritten(p, i) /\ Index!Free(p))
  BY DEF Index!Delete, Index!Retag, Index!Writes, Deleted, Rewritten
<1>2. UNCHANGED <<now, indexes, cached, caller>>
  BY DEF Index!Delete, Index!Retag
<1>3. IndexTyped'
  BY <1>1, <1>2, DiskKeeps DEF IndexIInv, IndexTyped
<1> QED
  BY <1>1, <1>2, <1>3, DiskKeeps, CallerKeeps, FilesKeep DEF IndexIInv

\* A download has written its file, and goes on to add it.
LEMMA DownloadKeeps ==
  ASSUME IndexIInv, NEW c \in Callers, NEW p \in Paths, NEW i \in ISRCs, Index!Download(c, p, i)
  PROVE  IndexIInv'
<1> DEFINE r == [Index!Idle EXCEPT !.pc = "index", !.path = p, !.isrc = i]
<1>1. Rewritten(p, i) /\ Index!Free(p)
  BY DEF Index!Download, Index!Writes, Rewritten
<1>2. UNCHANGED <<now, indexes, cached>> /\ caller' = [caller EXCEPT ![c] = r]
  BY DEF Index!Download, Index!Goes
<1>3. /\ r \in Local /\ r.pc = "index" /\ r.path = p /\ r.isrc = i
      /\ r.known = Index!Idle.known /\ r.seen = Index!Idle.seen
  BY IdleSound DEF Local, Pcs
<1> HIDE DEF r
<1>4. disk'[p] # None => disk'[p].isrc = i
  BY <1>1 DEF IndexIInv, IndexTyped, Rewritten
<1>5. CallerSound(r, disk', writes', Len(indexes))
  <2>1. CallerSound(Index!Idle, disk', writes', Len(indexes))
    BY IdleSound
  <2> QED
    BY <1>3, <1>4, <2>1 DEF CallerSound
<1>6. IndexTyped'
  BY <1>1, <1>2, <1>3, DiskKeeps DEF IndexIInv, IndexTyped
<1>7. \A d \in Callers : caller'[d] = IF d = c THEN r ELSE caller[d]
  BY <1>2 DEF IndexIInv, IndexTyped
<1>8. \A d \in Callers : CallerSound(caller[d], disk', writes', Len(indexes))
  BY <1>1, CallerKeeps
<1> QED
  BY <1>1, <1>2, <1>5, <1>6, <1>7, <1>8, DiskKeeps, FilesKeep DEF IndexIInv

-----------------------------------------------------------------------------
LEMMA IndexIInvInit == Index!Init => IndexIInv
<1> SUFFICES ASSUME Index!Init PROVE IndexIInv
  OBVIOUS
<1>1. IndexTyped
  <2>1. indexes \in Seq(Indexes) /\ Len(indexes) = 0
    BY DEF Index!Init
  <2>2. disk \in [Paths -> [isrc : ISRCs, stamp : Nat] \cup {None}]
    BY DEF Index!Init
  <2>3. caller \in [Callers -> Local]
    BY IdleSound DEF Index!Init
  <2> QED
    BY <2>1, <2>2, <2>3 DEF Index!Init, IndexTyped
<1>2. \A p \in Paths : disk[p] # None => disk[p].stamp <= writes
  BY DEF Index!Init
<1>3. Len(indexes) = 0
  BY DEF Index!Init
<1>4. \A c \in Callers : caller[c] = Index!Idle
  BY DEF Index!Init
<1> QED
  BY <1>1, <1>2, <1>3, <1>4, IdleSound DEF IndexIInv

\* The invariant is kept by every step.
LEMMA IndexIInvInductive == IndexIInv /\ (Index!Next \/ UNCHANGED Index!vars) => IndexIInv'
<1> SUFFICES ASSUME IndexIInv, Index!Next \/ UNCHANGED Index!vars PROVE IndexIInv'
  OBVIOUS
<1>1. ASSUME NEW c \in Callers, Index!Calls(c) PROVE IndexIInv'
  BY <1>1, StartKeeps, LockKeeps, PreBuildKeeps, WalkKeeps, ParseKeeps, PublishKeeps,
     LookupKeeps, StatKeeps, RemoveKeeps, DownloadKeeps, AddToIndexKeeps,
     AddKeeps DEF Index!Calls
<1>2. CASE Index!Invalidate
  BY <1>2 DEF Index!Invalidate, IndexIInv, IndexTyped
<1>3. CASE Index!Tick
  BY <1>3 DEF Index!Tick, IndexIInv, IndexTyped
<1>4. ASSUME NEW p \in Paths, Index!Delete(p) PROVE IndexIInv'
  BY <1>4, EditKeeps
<1>5. ASSUME NEW p \in Paths, NEW i \in ISRCs, Index!Retag(p, i) PROVE IndexIInv'
  BY <1>5, EditKeeps
<1>6. CASE UNCHANGED Index!vars
  BY <1>6 DEF Index!vars, IndexIInv, IndexTyped
<1> QED
  BY <1>1, <1>2, <1>3, <1>4, <1>5, <1>6 DEF Index!Next

\* CacheHonest follows from it.
LEMMA HonestHolds == IndexIInv => Index!CacheHonest
<1>1. ASSUME IndexIInv, NEW k \in DOMAIN indexes
      PROVE  Sound(indexes[k].files, disk, writes)
  BY <1>1 DEF IndexIInv, IndexTyped
<1> QED
  BY <1>1 DEF IndexIInv, CallerSound, Sound, Index!CacheHonest


\* CacheHonest, for any callers, files and builds: what an index, or a build
\* under way, remembers of a file that is as it was is what the file says, so
\* that no later build takes over what is not true (buildISRCIndex).
THEOREM CacheHonestHolds == MCSpec => []CacheHonest
<1>1. MCInit => IndexIInv
  BY IndexIInvInit DEF MCInit
<1>2. IndexIInv /\ [MCNext]_<<edit, indexing>> => IndexIInv'
  <2>1. [MCNext]_<<edit, indexing>> => Index!Next \/ UNCHANGED Index!vars
    BY DEF MCNext, indexing, Index!vars
  <2> QED
    BY <2>1, IndexIInvInductive
<1>3. IndexIInv => CacheHonest
  BY HonestHolds DEF CacheHonest
<1> QED
  BY <1>1, <1>2, <1>3, PTL DEF MCSpec

-----------------------------------------------------------------------------
(* The rows of a scan, and a rescan of what has changed.                   *)
LEMMA RowIs == \A p, t : Library!Row(p, t).path = p /\ Library!Row(p, t).track = t
  BY DEF Library!Row

\* The files of a scan that have rows, and how many.
Shown(folder, files, p, t) ==
    /\ p \in files
    /\ IF p.ext = "cue" THEN t \in 1..folder[p].tracks
       /\ Library!Resolve(folder, p) # Library!Nowhere
       ELSE t = 0 /\ p \notin Library!Referenced(folder, files \cap Library!Cues(folder))

\* A scan gives the rows of the files it shows, each at the time of the last
\* change of its file.
LEMMA RowsAre ==
  ASSUME NEW folder, NEW files \in SUBSET DOMAIN folder
  PROVE  /\ \A r \in DOMAIN Library!Rows(folder, files) :
              /\ r = Library!Row(r.path, r.track) /\ Shown(folder, files, r.path, r.track)
              /\ Library!Rows(folder, files)[r] = folder[r.path].time
         /\ \A p, t : Shown(folder, files, p, t) =>
              Library!Row(p, t) \in DOMAIN Library!Rows(folder, files)
<1> DEFINE cues == files \cap Library!Cues(folder)
           read == {c \in cues : Library!Resolve(folder, c) # Library!Nowhere}
           tracks == UNION {{Library!Row(c, i) : i \in 1..folder[c].tracks} : c \in read}
           others == {Library!Row(p, 0) :
                        p \in files \ (cues \cup Library!Referenced(folder, cues))}
<1>1. /\ DOMAIN Library!Rows(folder, files) = tracks \cup others
      /\ \A r \in tracks \cup others : Library!Rows(folder, files)[r] = folder[r.path].time
  <2>1. Library!Rows(folder, files) = [r \in tracks \cup others |-> folder[r.path].time]
    BY DEF Library!Rows
  <2> HIDE DEF tracks, others
  <2> QED
    BY <2>1
<1>2. \A p \in files : p \in cues <=> p.ext = "cue"
  BY DEF Library!Cues
<1>3. ASSUME NEW r \in tracks
      PROVE  r = Library!Row(r.path, r.track) /\ Shown(folder, files, r.path, r.track)
  <2>1. PICK c \in read : \E i \in 1..folder[c].tracks : r = Library!Row(c, i)
    BY <1>3
  <2>2. PICK i \in 1..folder[c].tracks : r = Library!Row(c, i)
    BY <2>1
  <2>3. r.path = c /\ r.track = i
    BY <2>2, RowIs
  <2>4. c \in files /\ c.ext = "cue" /\ Library!Resolve(folder, c) # Library!Nowhere
    BY <1>2
  <2> QED
    BY <2>2, <2>3, <2>4 DEF Shown
<1>4. ASSUME NEW r \in others
      PROVE  r = Library!Row(r.path, r.track) /\ Shown(folder, files, r.path, r.track)
  <2>1. PICK p \in files \ (cues \cup Library!Referenced(folder, cues)) : r = Library!Row(p, 0)
    BY <1>4
  <2> QED
    BY <1>2, <2>1, RowIs DEF Shown
<1>5. ASSUME NEW p, NEW t, Shown(folder, files, p, t)
      PROVE  Library!Row(p, t) \in tracks \cup others
  <2>1. CASE p.ext = "cue"
    <3>1. p \in read /\ t \in 1..folder[p].tracks
      BY <1>2, <1>5, <2>1 DEF Shown
    <3> QED
      BY <3>1
  <2>2. CASE p.ext # "cue"
    <3>1. t = 0 /\ p \in files \ (cues \cup Library!Referenced(folder, cues))
      BY <1>2, <1>5, <2>2 DEF Shown
    <3> QED
      BY <3>1
  <2> QED
    BY <2>1, <2>2
<1> HIDE DEF tracks, others
<1> QED
  BY <1>1, <1>3, <1>4, <1>5

\* A row that a full scan gives is given by the scan of any files with its own.
LEMMA RowsOfFewer ==
  ASSUME NEW folder, NEW files \in SUBSET DOMAIN folder, NEW r \in DOMAIN Library!Full(folder),
         r.path \in files
  PROVE  r \in DOMAIN Library!Rows(folder, files)
<1>1. r = Library!Row(r.path, r.track) /\ Shown(folder, DOMAIN folder, r.path, r.track)
  BY RowsAre DEF Library!Full
<1>2. files \cap Library!Cues(folder) \subseteq DOMAIN folder \cap Library!Cues(folder)
  OBVIOUS
<1>3. Library!Referenced(folder, files \cap Library!Cues(folder))
        \subseteq Library!Referenced(folder, DOMAIN folder \cap Library!Cues(folder))
  BY <1>2 DEF Library!Referenced
<1>4. Shown(folder, files, r.path, r.track)
  BY <1>1, <1>3 DEF Shown
<1> QED
  BY <1>1, <1>4, RowsAre

\* What a rescan takes to be as it was is as it was, and has rows.
LEMMA KnownAsItWas ==
  ASSUME NEW old, NEW new, Library!Changes(old, new),
         \A p \in DOMAIN new : new[p].time # 0,
         NEW seen \in Library!Seen(new, Library!Full(old)), NEW p \in DOMAIN new,
         seen[p] = new[p].time
  PROVE  /\ p \in DOMAIN old /\ old[p] = new[p]
         /\ \E t : Shown(old, DOMAIN old, p, t)
<1>1. seen[p] \in Library!KnownTimes(Library!Full(old), p)
  BY DEF Library!Seen
<1>2. PICK r \in DOMAIN Library!Full(old) : r.path = p /\ Library!Full(old)[r] = seen[p]
  BY <1>1, RowIs DEF Library!KnownTimes
<1>3. /\ Shown(old, DOMAIN old, p, r.track)
      /\ Library!Full(old)[r] = old[p].time
  BY <1>2, RowsAre DEF Library!Full
<1>4. old[p].time = new[p].time /\ p \in DOMAIN old
  BY <1>2, <1>3 DEF Shown
<1> QED
  BY <1>3, <1>4 DEF Library!Changes

\* Whatever happened to a folder between two scans, and whichever of its tracks' times
\* a cue sheet is remembered by, the rescan leaves what a full scan would give, nothing
\* of a file that is gone, and besides only the audio of cue sheets and their former
\* tracks.
LEMMA RescanKeeps ==
  ASSUME NEW old, NEW new,
         \A p \in DOMAIN new : new[p].time # 0
  PROVE  Library!RescanKeepsUp(old, new)
<1> SUFFICES ASSUME Library!Changes(old, new), NEW seen \in Library!Seen(new, Library!Full(old))
             PROVE  LET library == Library!Rescan(new, Library!Full(old), seen)
                        full == Library!Full(new)
                    IN /\ \A r \in DOMAIN full : r \in DOMAIN library /\ library[r] = full[r]
                       /\ \A r \in DOMAIN library : r.path \in DOMAIN new
                       /\ \A r \in DOMAIN library \ DOMAIN full :
                             Library!Leftover(old, new, r)
  BY DEF Library!RescanKeepsUp
<1> DEFINE files == Library!ToScan(new, Library!Full(old), seen)
           scanned == Library!Rows(new, files)
           gone == Library!Deleted(new, Library!Full(old))
           kept == Library!Restrict(Library!Full(old), DOMAIN Library!Full(old) \ gone)
           library == Library!Rescan(new, Library!Full(old), seen)
<1>1. files \in SUBSET DOMAIN new
  BY DEF Library!ToScan
<1>2. /\ DOMAIN kept = DOMAIN Library!Full(old) \ gone
      /\ \A r \in DOMAIN kept : kept[r] = Library!Full(old)[r]
  BY DEF Library!Restrict
<1>3. /\ DOMAIN library = DOMAIN scanned \cup DOMAIN kept
      /\ \A r \in DOMAIN library :
            library[r] = IF r \in DOMAIN scanned THEN scanned[r] ELSE kept[r]
  BY DEF Library!Rescan
<1> HIDE DEF files, scanned, gone, kept, library
<1>4. \A r \in DOMAIN scanned : r.path \in files /\ scanned[r] = new[r.path].time
  BY <1>1, RowsAre DEF Shown, scanned
<1>5. ASSUME NEW r \in DOMAIN library
      PROVE  r.path \in DOMAIN new
  <2>1. CASE r \in DOMAIN scanned
    BY <1>1, <1>4, <2>1
  <2>2. CASE r \in DOMAIN kept
    BY <1>2, <2>2 DEF gone, Library!Deleted
  <2> QED
    BY <1>3, <1>5, <2>1, <2>2
<1>6. ASSUME NEW r \in DOMAIN Library!Full(new)
      PROVE  r \in DOMAIN library /\ library[r] = Library!Full(new)[r]
  <2>1. /\ r = Library!Row(r.path, r.track) /\ Shown(new, DOMAIN new, r.path, r.track)
        /\ Library!Full(new)[r] = new[r.path].time /\ r.path \in DOMAIN new
    <3>1. /\ r = Library!Row(r.path, r.track) /\ Shown(new, DOMAIN new, r.path, r.track)
          /\ Library!Full(new)[r] = new[r.path].time
      BY RowsAre DEF Library!Full
    <3> QED
      BY <3>1 DEF Shown
  <2>2. CASE r.path \in files
    <3>1. r \in DOMAIN scanned
      BY <1>1, <2>2, RowsOfFewer DEF scanned
    <3> QED
      BY <1>3, <1>4, <2>1, <3>1
  <2>3. CASE r.path \notin files
    <3>1. seen[r.path] = new[r.path].time
      BY <2>1, <2>3 DEF files, Library!ToScan
    <3>2. /\ r.path \in DOMAIN old /\ old[r.path] = new[r.path]
          /\ \E t : Shown(old, DOMAIN old, r.path, t)
      BY <2>1, <3>1, KnownAsItWas
    <3>3. Shown(old, DOMAIN old, r.path, r.track)
      <4>1. PICK t : Shown(old, DOMAIN old, r.path, t)
        BY <3>2
      <4>2. CASE r.path.ext = "cue"
        BY <2>1, <3>2, <4>1, <4>2 DEF Shown
      <4>3. CASE r.path.ext # "cue"
        BY <2>1, <3>2, <4>1, <4>3 DEF Shown
      <4> QED
        BY <4>2, <4>3
    <3>4. r \in DOMAIN Library!Full(old)
      BY <2>1, <3>3, RowsAre DEF Library!Full
    <3>5. Library!Full(old)[r] = old[r.path].time
      BY <3>4, RowsAre DEF Library!Full
    <3>6. r \in DOMAIN kept
      BY <1>2, <2>1, <3>4 DEF gone, Library!Deleted
    <3> QED
      BY <1>2, <1>3, <1>4, <2>1, <2>3, <3>2, <3>5, <3>6
  <2> QED
    BY <2>2, <2>3
<1>7. ASSUME NEW r \in DOMAIN library, r \notin DOMAIN Library!Full(new)
      PROVE  Library!Leftover(old, new, r)
  <2>1. r.path \in DOMAIN new /\ ~Shown(new, DOMAIN new, r.path, r.track)
    <3>1. CASE r \in DOMAIN scanned
      BY <1>1, <1>5, <1>7, <3>1, RowsAre DEF Library!Full, scanned
    <3>2. CASE r \in DOMAIN kept
      BY <1>2, <1>5, <1>7, <3>2, RowsAre DEF Library!Full
    <3> QED
      BY <1>3, <1>7, <3>1, <3>2
  <2>2. CASE r.path.ext = "cue"
    <3>1. r \notin DOMAIN scanned
      <4>1. r \in DOMAIN scanned => Shown(new, files, r.path, r.track)
        BY <1>1, RowsAre DEF scanned
      <4>2. Shown(new, files, r.path, r.track) => Shown(new, DOMAIN new, r.path, r.track)
        BY <2>1, <2>2 DEF Shown
      <4> QED
        BY <2>1, <4>1, <4>2
    <3>2. r \in DOMAIN Library!Full(old)
      BY <1>2, <1>3, <1>7, <3>1
    <3> QED
      BY <2>1, <2>2, <3>2 DEF Library!Leftover, Library!Cues
  <2>3. CASE r.path.ext # "cue"
    <3>1. r.track = 0
      <4>1. CASE r \in DOMAIN scanned
        <5>1. Shown(new, files, r.path, r.track)
          BY <1>1, <4>1, RowsAre DEF scanned
        <5> QED
          BY <2>3, <5>1 DEF Shown
      <4>2. CASE r \in DOMAIN kept
        <5>1. Shown(old, DOMAIN old, r.path, r.track)
          BY <1>2, <4>2, RowsAre DEF Library!Full
        <5> QED
          BY <2>3, <5>1 DEF Shown
      <4> QED
        BY <1>3, <1>7, <4>1, <4>2
    <3>2. r.path \in Library!Referenced(new, DOMAIN new \cap Library!Cues(new))
      BY <2>1, <2>3, <3>1 DEF Shown
    <3>3. DOMAIN new \cap Library!Cues(new) = Library!Cues(new)
      BY DEF Library!Cues
    <3> QED
      BY <3>1, <3>2, <3>3 DEF Library!Leftover
  <2> QED
    BY <2>2, <2>3
<1> QED
  BY <1>5, <1>6, <1>7 DEF library


\* The files of a folder have the times that they are given.
LEMMA FolderTimes ==
  ASSUME NEW times, NEW folder \in Folders(times), NEW p \in DOMAIN folder
  PROVE  folder[p].time \in times
<1>1. PICK cue \in {<<>>} \cup [{P("c", "cue")} -> CueFiles(times)],
           one \in {<<>>} \cup [{P("a", "mp3")} -> AudioFiles(times)],
           two \in {<<>>} \cup [{P("b", "mp3")} -> AudioFiles(times)] :
        folder = [q \in DOMAIN cue \cup DOMAIN one \cup DOMAIN two |->
                    IF q \in DOMAIN cue THEN cue[q]
                    ELSE IF q \in DOMAIN one THEN one[q] ELSE two[q]]
  <2> DEFINE Sheets == {<<>>} \cup [{P("c", "cue")} -> CueFiles(times)]
             One == {<<>>} \cup [{P("a", "mp3")} -> AudioFiles(times)]
             Two == {<<>>} \cup [{P("b", "mp3")} -> AudioFiles(times)]
             Of(cue, one, two) ==
                [q \in DOMAIN cue \cup DOMAIN one \cup DOMAIN two |->
                    IF q \in DOMAIN cue THEN cue[q]
                    ELSE IF q \in DOMAIN one THEN one[q] ELSE two[q]]
  <2>1. Folders(times) = UNION {{Of(cue, one, two) : cue \in Sheets, one \in One} : two \in Two}
    BY DEF Folders
  <2> HIDE DEF Sheets, One, Two, Of
  <2>2. \E cue \in Sheets, one \in One, two \in Two : folder = Of(cue, one, two)
    BY <2>1
  <2> QED
    BY <2>2 DEF Sheets, One, Two, Of
<1>2. \A q \in DOMAIN cue : cue[q].time \in times
  BY DEF CueFiles
<1>3. \A q \in DOMAIN one : one[q].time \in times
  BY DEF AudioFiles
<1>4. \A q \in DOMAIN two : two[q].time \in times
  BY DEF AudioFiles
<1> QED
  BY <1>1, <1>2, <1>3, <1>4

\* What the kinds of inputs are of which more is said here.
LEMMA InputsAre ==
  ASSUME MCInit
  PROVE  /\ input[1] = "comments" =>
              \E c \in CommentLists, e \in CommentEdits, split \in BOOLEAN :
                 input = <<"comments", c, e, split>>
         /\ input[1] = "download" =>
              \E c \in CommentLists, d \in Downloads, split \in BOOLEAN :
                 input = <<"download", c, d, split>>
         /\ input[1] = "flac" => \E n \in 0..3 :
              \E bs \in [1..n -> Blocks], e \in CommentEdits, cover \in Covers :
                 input = <<"flac", bs, e, cover>>
         /\ input[1] = "folder" => \E first \in Folders({1}), second \in Folders({1, 2}) :
              input = <<"folder", first, second>>
         /\ input[1] = "disc" => \E performer \in {Cue!NoText, "band"}, disc \in Discs :
              input = <<"disc", performer, disc>>
         /\ input[1] = "lyrics" => \E request \in Requests, answers \in LyricsAnswers :
              input = <<"lyrics", request, answers>>
         /\ input[1] = "check" => \E c \in Health!Check, a \in Health!Answer :
              input = <<"check", c, a>>
         /\ input[1] = "checks" => \E n \in 0..3 :
              \E rs \in [1..n -> [status : {"online", "degraded", "offline", "unknown"},
                                  required : BOOLEAN]] : input = <<"checks", rs>>
<1>1. CASE input[1] \in {"index", "mp4", "ogg", "links"}
  BY <1>1
<1>2. CASE input[1] \notin {"index", "mp4", "ogg", "links"}
  <2>1. /\ \A a : <<a>>[1] = a
        /\ \A a, b : <<a, b>>[1] = a
        /\ \A a, b, c : <<a, b, c>>[1] = a
        /\ \A a, b, c, d : <<a, b, c, d>>[1] = a
    OBVIOUS
  <2>2. Algorithms
    <3>1. /\ input # <<"index">>
          /\ \A e : input # <<"mp4", e>> /\ input # <<"ogg", e>>
      BY <1>2, <2>1
    <3> QED
      BY <3>1 DEF MCInit
  <2>3. \A a, b, c : input # <<"links", a, b, c>>
    BY <1>2, <2>1
  <2>4. \/ \E c \in CommentLists, e \in CommentEdits, split \in BOOLEAN :
              input = <<"comments", c, e, split>>
        \/ \E c \in CommentLists, d \in Downloads, split \in BOOLEAN :
              input = <<"download", c, d, split>>
        \/ \E n \in 0..3 :
              \E bs \in [1..n -> Blocks], e \in CommentEdits, cover \in Covers :
                 input = <<"flac", bs, e, cover>>
        \/ \E first \in Folders({1}), second \in Folders({1, 2}) :
              input = <<"folder", first, second>>
        \/ \E performer \in {Cue!NoText, "band"}, disc \in Discs :
              input = <<"disc", performer, disc>>
        \/ \E request \in Requests, answers \in LyricsAnswers :
              input = <<"lyrics", request, answers>>
        \/ \E c \in Health!Check, a \in Health!Answer : input = <<"check", c, a>>
        \/ \E n \in 0..3 :
              \E rs \in [1..n -> [status : {"online", "degraded", "offline", "unknown"},
                                  required : BOOLEAN]] : input = <<"checks", rs>>
    BY ONLY <2>2, <2>3 DEF Algorithms
  <2>5. /\ \A a, b : /\ <<"folder", a, b>>[1] = "folder" /\ <<"lyrics", a, b>>[1] = "lyrics"
                      /\ <<"check", a, b>>[1] = "check" /\ <<"disc", a, b>>[1] = "disc"
        /\ \A a : <<"checks", a>>[1] = "checks"
        /\ \A a, b, c : /\ <<"comments", a, b, c>>[1] = "comments"
                        /\ <<"download", a, b, c>>[1] = "download"
                        /\ <<"flac", a, b, c>>[1] = "flac"
    BY ONLY <2>1
  <2> QED
    BY ONLY <2>4, <2>5
<1> QED
  BY <1>1, <1>2

\* An input stays what it is.
LEMMA InputStays == [MCNext]_<<edit, indexing>> => input' = input
  BY DEF MCNext, edit

-----------------------------------------------------------------------------
\* Some number of a set of numbers is the least.
LEMMA LeastOf ==
  ASSUME NEW T \in SUBSET Nat, T # {}
  PROVE  \E n \in T : \A m \in T : ~ (m < n)
<1> DEFINE R == {ss \in Nat \X Nat : ss[1] < ss[2]}
<1>1. OpToRel(<, Nat) = R
  BY DEF OpToRel
<1>2. IsWellFoundedOn(R, Nat)
  BY <1>1, NatLessThanWellFounded
<1> HIDE DEF R
<1>3. \E n \in T : \A m \in T : ~ (<<m, n>> \in R)
  BY <1>2, WFMin
<1> QED
  BY <1>3 DEF R

\* A set that has 0 and with each number below n the next has all up to n.
LEMMA UpTo ==
  ASSUME NEW n \in Nat, NEW T, 0 \in T, \A i \in 0..n : i \in T /\ i < n => i + 1 \in T
  PROVE  0..n \subseteq T
<1> DEFINE U == (0..n) \ T
<1> SUFFICES ASSUME U # {} PROVE FALSE
  OBVIOUS
<1>0. U \in SUBSET Nat
  OBVIOUS
<1>1. PICK k \in U : \A m \in U : ~ (m < k)
  <2> HIDE DEF U
  <2> QED
    BY <1>0, LeastOf
<1>2. k - 1 \in 0..n /\ k - 1 \notin U /\ k - 1 < n
  BY <1>1
<1>3. k \in T
  BY <1>2
<1> QED
  BY <1>3


-----------------------------------------------------------------------------
(* How LRCLIB is asked.                                                    *)
\* A record of an answer, and an answer.
RecordType == [matches : BOOLEAN, synced : BOOLEAN, plain : BOOLEAN, instrumental : BOOLEAN]
AnswerType == [said : {"unavailable", "error", "records"}, records : Seq(RecordType)]

\* A record is asked for by its name, several by a search.
Reply(q, answer) ==
    /\ answer \in AnswerType
    /\ q \notin {"search", "search simplified"} => Len(answer.records) <= 1

\* There is a least of any numbers.
LEMMA MinIn ==
  ASSUME NEW T \in SUBSET Nat, T # {}
  PROVE  Lyrics!Min(T) \in T
<1>1. PICK n \in T : \A m \in T : ~ (m < n)
  BY LeastOf
<1>2. \A m \in T : n <= m
  BY <1>1
<1> QED
  BY <1>2 DEF Lyrics!Min

\* Of no records the first is none, of some it is one of them.
LEMMA FirstIs ==
  ASSUME NEW S, NEW records \in Seq(S), NEW those \in SUBSET DOMAIN records
  PROVE  IF those = {} THEN Lyrics!First(records, those) = <<>>
         ELSE \E i \in those : Lyrics!First(records, those) = <<records[i]>>
<1>1. those \in SUBSET Nat
  OBVIOUS
<1>2. CASE those = {}
  BY <1>2 DEF Lyrics!First
<1>3. CASE those # {}
  BY <1>1, <1>3, MinIn DEF Lyrics!First
<1> QED
  BY <1>2, <1>3

\* What is found is of the song; a search that has found something with lyrics
\* says so, and one with timed lyrics if there is one.
LEMMA FoundIs ==
  ASSUME NEW q, NEW answer, Reply(q, answer)
  PROVE  \/ /\ Lyrics!Found(q, answer) = <<>>
            /\ ~Lyrics!HasSynced(answer) /\ ~Lyrics!HasPlain(answer)
            /\ Lyrics!HasSilence(answer) => q \in Lyrics!Searches
         \/ \E i \in Lyrics!Matching(answer.records) :
              /\ Lyrics!Found(q, answer) = <<answer.records[i]>>
              /\ Lyrics!HasSynced(answer) => answer.records[i].synced
              /\ Lyrics!HasPlain(answer) => answer.records[i].synced \/ answer.records[i].plain
              /\ Lyrics!HasSilence(answer) =>
                   q \in Lyrics!Searches \/ answer.records[i].instrumental
<1> DEFINE records == answer.records
           synced == {i \in Lyrics!Matching(records) : records[i].synced}
           plain == {i \in Lyrics!Matching(records) : records[i].plain}
<1>1. records \in Seq(RecordType) /\ Lyrics!Matching(records) \in SUBSET DOMAIN records
  BY DEF Reply, AnswerType, Lyrics!Matching
<1>2. CASE q \in Lyrics!Searches
  <2> DEFINE those == IF synced # {} THEN synced ELSE plain
  <2>1. Lyrics!Found(q, answer) = Lyrics!First(records, those)
    BY <1>2 DEF Lyrics!Found, Lyrics!Best
  <2>2. those \in SUBSET DOMAIN records
    BY <1>1
  <2>3. CASE those = {}
    <3>1. synced = {} /\ plain = {}
      BY <2>3
    <3>2. Lyrics!Found(q, answer) = <<>>
      BY <2>1, <2>3 DEF Lyrics!First
    <3> QED
      BY <1>2, <3>1, <3>2 DEF Lyrics!HasSynced, Lyrics!HasPlain
  <2>4. CASE those # {}
    <3>1. PICK i \in those : Lyrics!Found(q, answer) = <<records[i]>>
      <4> HIDE DEF those, records
      <4> QED
        BY <1>1, <2>1, <2>2, <2>4, FirstIs
    <3>2. i \in Lyrics!Matching(records) /\ (synced # {} => records[i].synced)
          /\ (records[i].synced \/ records[i].plain)
      BY <3>1
    <3> QED
      BY <1>2, <3>1, <3>2 DEF Lyrics!HasSynced, Lyrics!HasPlain
  <2> QED
    BY <2>3, <2>4
<1>3. CASE q \notin Lyrics!Searches
  <2>1. Lyrics!Found(q, answer) = Lyrics!First(records, Lyrics!Matching(records))
        /\ Len(records) <= 1
    BY <1>3 DEF Lyrics!Found, Lyrics!Searches, Reply
  <2>2. CASE Lyrics!Matching(records) = {}
    BY <2>1, <2>2 DEF Lyrics!First, Lyrics!HasSynced, Lyrics!HasPlain, Lyrics!HasSilence
  <2>3. CASE Lyrics!Matching(records) # {}
    <3>1. PICK i \in Lyrics!Matching(records) : Lyrics!Found(q, answer) = <<records[i]>>
      <4> HIDE DEF records
      <4> QED
        BY <1>1, <2>1, <2>3, FirstIs
    <3>2. \A j \in Lyrics!Matching(records) : j = i
      BY <1>1, <2>1
    <3> QED
      BY <3>1, <3>2 DEF Lyrics!HasSynced, Lyrics!HasPlain, Lyrics!HasSilence
  <2> QED
    BY <2>2, <2>3
<1> QED
  BY <1>2, <1>3

\* What an answer is said to be is what it is.
LEMMA SaidIs ==
  ASSUME NEW q, NEW answer, Reply(q, answer)
  PROVE  CASE Lyrics!Said(q, answer) = "unavailable" -> answer.said = "unavailable"
           [] Lyrics!Said(q, answer) = "nothing" ->
                answer.said # "unavailable" /\ ~Lyrics!HasSynced(answer)
                /\ ~Lyrics!HasPlain(answer)
                /\ (Lyrics!HasSilence(answer) => q \in Lyrics!Searches)
           [] Lyrics!Said(q, answer) = "synced" -> Lyrics!HasSynced(answer)
           [] Lyrics!Said(q, answer) = "plain" -> Lyrics!HasPlain(answer)
           /\ ~Lyrics!HasSynced(answer)
           [] Lyrics!Said(q, answer) = "instrumental" ->
                Lyrics!HasSilence(answer)
           [] OTHER -> FALSE
<1>1. CASE answer.said = "unavailable"
  BY <1>1 DEF Lyrics!Said
<1>2. CASE answer.said # "unavailable" /\ Lyrics!Found(q, answer) = <<>>
  <2>1. /\ ~Lyrics!HasSynced(answer) /\ ~Lyrics!HasPlain(answer)
        /\ Lyrics!HasSilence(answer) => q \in Lyrics!Searches
    BY <1>2, FoundIs
  <2>2. Lyrics!Said(q, answer) = "nothing"
    BY <1>2 DEF Lyrics!Said
  <2> QED
    BY <1>2, <2>1, <2>2
<1>3. ASSUME answer.said # "unavailable", Lyrics!Found(q, answer) # <<>>
      PROVE  \E i \in Lyrics!Matching(answer.records) :
               /\ Lyrics!HasSynced(answer) => answer.records[i].synced
               /\ Lyrics!HasPlain(answer) => answer.records[i].synced \/ answer.records[i].plain
               /\ Lyrics!HasSilence(answer) =>
                    q \in Lyrics!Searches \/ answer.records[i].instrumental
               /\ Lyrics!Said(q, answer) = IF answer.records[i].synced THEN "synced"
                                    ELSE IF answer.records[i].plain THEN "plain"
                                    ELSE IF answer.records[i].instrumental THEN "instrumental"
                                    ELSE "nothing"
  <2>1. PICK i \in Lyrics!Matching(answer.records) :
              /\ Lyrics!Found(q, answer) = <<answer.records[i]>>
              /\ Lyrics!HasSynced(answer) => answer.records[i].synced
              /\ Lyrics!HasPlain(answer) => answer.records[i].synced \/ answer.records[i].plain
              /\ Lyrics!HasSilence(answer) =>
                   q \in Lyrics!Searches \/ answer.records[i].instrumental
    BY <1>3, FoundIs
  <2>2. Lyrics!Found(q, answer)[1] = answer.records[i]
    BY <2>1
  <2> QED
    BY <1>3, <2>1, <2>2 DEF Lyrics!Said, Lyrics!Usable
<1>4. CASE answer.said # "unavailable" /\ Lyrics!Found(q, answer) # <<>>
  BY <1>3, <1>4 DEF Lyrics!HasSynced, Lyrics!HasPlain, Lyrics!HasSilence
<1> QED
  BY <1>1, <1>2, <1>4

Asked == {"get", "get credit", "get simplified", "search", "search simplified"}

LEMMA JoinedIn == \A S : \A s, t \in Seq(S) : s \o t \in Seq(S)
  OBVIOUS

\* Which queries a request has.
LEMMA QueriesAre ==
  ASSUME NEW request \in [credit : BOOLEAN, simplified : BOOLEAN]
  PROVE  Lyrics!Queries(request) \in Seq(Asked)
<1> DEFINE credit == IF request.credit THEN <<"get credit">> ELSE <<>>
           simple == IF request.simplified THEN <<"get simplified">> ELSE <<>>
           search == IF request.simplified THEN <<"search simplified">> ELSE <<>>
<1>1. /\ <<>> \in Seq(Asked) /\ <<"get">> \in Seq(Asked) /\ <<"search">> \in Seq(Asked)
      /\ <<"get credit">> \in Seq(Asked) /\ <<"get simplified">> \in Seq(Asked)
      /\ <<"search simplified">> \in Seq(Asked)
  <2>1. \A x \in Asked : <<x>> \in Seq(Asked)
    OBVIOUS
  <2> QED
    BY <2>1 DEF Asked
<1>3. credit \in Seq(Asked)
  BY <1>1
<1>4. simple \in Seq(Asked) /\ search \in Seq(Asked)
  BY <1>1
<1>2. Lyrics!Queries(request) = <<"get">> \o credit \o simple \o <<"search">> \o search
  BY DEF Lyrics!Queries
<1> HIDE DEF credit, simple, search
<1>5. <<"get">> \o credit \in Seq(Asked)
  BY <1>1, <1>3, JoinedIn
<1>6. <<"get">> \o credit \o simple \in Seq(Asked)
  BY <1>4, <1>5, JoinedIn
<1>7. <<"get">> \o credit \o simple \o <<"search">> \in Seq(Asked)
  BY <1>1, <1>6, JoinedIn
<1> QED
  BY <1>2, <1>4, <1>7, JoinedIn

\* What is said of the song is what some query was answered, and nothing is only
\* said when there was nothing.
LEMMA LyricsAsMeant ==
  ASSUME NEW request \in [credit : BOOLEAN, simplified : BOOLEAN], NEW answers,
         \A i \in DOMAIN Lyrics!Queries(request) :
            Reply(Lyrics!Queries(request)[i], answers[Lyrics!Queries(request)[i]])
  PROVE  Lyrics!SaysWhatItHas(request, answers)
<1> DEFINE queries == Lyrics!Queries(request)
           ending == {i \in DOMAIN queries :
                        Lyrics!Said(queries[i], answers[queries[i]]) # "nothing"}
           query == queries[Lyrics!Min(ending)]
           result == Lyrics!TryLRCLIB(request, answers)
<1>1. result = IF ending = {} THEN [said |-> "not found", by |-> ""]
               ELSE [said |-> Lyrics!Said(query, answers[query]), by |-> query]
  BY DEF Lyrics!TryLRCLIB
<1>2. ending \in SUBSET Nat
  BY QueriesAre
<1>3. CASE ending = {}
  <2>1. \A i \in DOMAIN queries : Lyrics!Said(queries[i], answers[queries[i]]) = "nothing"
    BY <1>3
  <2>2. \A i \in DOMAIN queries : /\ answers[queries[i]].said # "unavailable"
                                  /\ ~Lyrics!HasSynced(answers[queries[i]])
                                  /\ ~Lyrics!HasPlain(answers[queries[i]])
                                  /\ Lyrics!HasSilence(answers[queries[i]]) =>
                                       queries[i] \in Lyrics!Searches
    BY <2>1, SaidIs
  <2>3. result.said = "not found"
    <3> HIDE DEF result, query, ending
    <3> QED
      BY <1>1, <1>3
  <2> HIDE DEF result, queries
  <2> QED
    BY <2>2, <2>3 DEF Lyrics!SaysWhatItHas, result, queries
<1>4. CASE ending # {}
  <2>1. Lyrics!Min(ending) \in ending
    BY <1>2, <1>4, MinIn
  <2>2. Reply(query, answers[query]) /\ Lyrics!Said(query, answers[query]) # "nothing"
    BY <2>1
  <2>3. result.by = query /\ result.said = Lyrics!Said(query, answers[query])
    <3> HIDE DEF result, query, ending
    <3> QED
      BY <1>1, <1>4
  <2> HIDE DEF result, query, ending
  <2>4. Lyrics!Said(query, answers[query]) \in {"unavailable", "synced", "plain", "instrumental"}
    <3>1. \A a : Reply(query, a) /\ Lyrics!Said(query, a) # "nothing" =>
             Lyrics!Said(query, a) \in {"unavailable", "synced", "plain", "instrumental"}
      BY SaidIs
    <3> QED
      BY <2>2, <3>1
  <2>5. result.said # "not found"
    BY ONLY <2>3, <2>4
  <2> QED
    BY <2>2, <2>3, <2>5, SaidIs, ZenonT(30) DEF Lyrics!SaysWhatItHas, result
<1> QED
  BY <1>3, <1>4

-----------------------------------------------------------------------------
(* Health checks.                                                          *)
StatusAt(results, f, i) == IF i = 0 THEN "online" ELSE Health!Counted(f[i - 1], results[i])

\* The status after each of the checks is well defined.
LEMMA StatusDefined ==
  ASSUME NEW results, NEW len \in Nat
  PROVE  \E f : f = [i \in 0..len |-> StatusAt(results, f, i)]
<1> DEFINE Solved(n) == \E f : f = [i \in 0..n |-> StatusAt(results, f, i)]
           T == {n \in 0..len : Solved(n)}
<1>1. 0 \in T
  <2> DEFINE f == [i \in 0..0 |-> "online"]
  <2>1. f = [i \in 0..0 |-> StatusAt(results, f, i)]
    BY DEF StatusAt
  <2>2. Solved(0)
    BY <2>1
  <2> QED
    BY <2>2
<1>2. ASSUME NEW n \in 0..len, n \in T, n < len
      PROVE  n + 1 \in T
  <2>1. PICK f : f = [i \in 0..n |-> StatusAt(results, f, i)]
    BY <1>2
  <2> DEFINE last == Health!Counted(f[n], results[n + 1])
             g == [i \in 0..n + 1 |-> IF i = n + 1 THEN last ELSE f[i]]
  <2>2. ASSUME NEW i \in 0..n
        PROVE  g[i] = f[i] /\ f[i] = StatusAt(results, f, i)
    <3>1. i \in 0..n + 1 /\ i # n + 1
      OBVIOUS
    <3>2. g[i] = f[i]
      BY <3>1
    <3>3. f[i] = StatusAt(results, f, i)
      <4> HIDE DEF g
      <4> QED
        BY <2>1
    <3> QED
      BY <3>2, <3>3
  <2>3. g[n + 1] = last
    OBVIOUS
  <2>4. DOMAIN g = 0..n + 1 /\ g = [i \in 0..n + 1 |-> g[i]]
    OBVIOUS
  <2> HIDE DEF g
  <2>5. ASSUME NEW i \in 0..n + 1
        PROVE  g[i] = StatusAt(results, g, i)
    <3>1. CASE i = n + 1
      BY <3>1, <2>2, <2>3 DEF StatusAt
    <3>2. CASE i = 0
      BY <3>2, <2>2 DEF StatusAt
    <3>3. CASE i # 0 /\ i # n + 1
      <4>1. i \in 0..n /\ i - 1 \in 0..n
        BY <3>3
      <4> QED
        BY <3>3, <4>1, <2>2 DEF StatusAt
    <3> QED
      BY <3>1, <3>2, <3>3
  <2>6. g = [i \in 0..n + 1 |-> StatusAt(results, g, i)]
    BY <2>4, <2>5
  <2>7. Solved(n + 1)
    BY <2>6
  <2> QED
    BY <1>2, <2>7
<1> HIDE DEF Solved
<1>3. 0..len \subseteq T
  BY <1>1, <1>2, UpTo
<1> QED
  BY <1>3 DEF Solved

Result == [status : {"online", "degraded", "offline", "unknown"}, required : BOOLEAN]

\* StatusOfAll holds of any checks: the status folds them one by one.
LEMMA StatusAsMeant ==
  ASSUME NEW results \in Seq(Result)
  PROVE  Health!StatusOfAll(results)
<1> DEFINE f == CHOOSE f : f = [i \in 0..Len(results) |-> StatusAt(results, f, i)]
           Good(n) ==
             /\ f[n] \in {"online", "degraded", "offline", "unknown"}
             /\ f[n] = "offline"
                  <=> \E i \in 1..n : results[i].required /\ results[i].status = "offline"
             /\ f[n] = "online" <=> \A i \in 1..n : results[i].status = "online"
           T == {n \in 0..Len(results) : Good(n)}
<1>0. Len(results) \in Nat
  OBVIOUS
<1>1. f = [i \in 0..Len(results) |-> StatusAt(results, f, i)]
  BY <1>0, StatusDefined
<1>2. results # <<>> => Health!ExtensionStatus(results) = f[Len(results)]
  BY DEF Health!ExtensionStatus, StatusAt
<1> HIDE DEF f
<1>3. ASSUME NEW i \in 0..Len(results)
      PROVE  f[i] = StatusAt(results, f, i)
  BY <1>1
<1>4. 0 \in T
  <2>1. f[0] = "online"
    BY <1>0, <1>3 DEF StatusAt
  <2> QED
    BY <1>0, <2>1
<1>5. ASSUME NEW n \in 0..Len(results), n \in T, n < Len(results)
      PROVE  n + 1 \in T
  <2>1. Good(n) /\ n + 1 \in 0..Len(results) /\ n + 1 \in 1..Len(results)
    BY <1>0, <1>5
  <2>2. f[n + 1] = Health!Counted(f[n], results[n + 1]) /\ results[n + 1] \in Result
    BY <1>3, <2>1 DEF StatusAt
  <2>3. \A i \in 1..n + 1 : i \in 1..n \/ i = n + 1
    OBVIOUS
  <2>4. n + 1 \in 1..n + 1 /\ 1..n \subseteq 1..n + 1
    BY <2>1
  <2>5. Good(n + 1)
    BY <2>1, <2>2, <2>3, <2>4 DEF Health!Counted, Result
  <2> QED
    BY <2>1, <2>5
<1> HIDE DEF Good
<1>6. 0..Len(results) \subseteq T
  <2> HIDE DEF T
  <2> QED
    BY <1>0, <1>4, <1>5, UpTo
<1>7. Good(Len(results))
  <2>1. Len(results) \in 0..Len(results)
    BY <1>0
  <2> QED
    BY <1>6, <2>1
<1>8. {results[i] : i \in DOMAIN results} = {results[i] : i \in 1..Len(results)}
  OBVIOUS
<1> QED
  BY <1>2, <1>7, <1>8 DEF Health!StatusOfAll, Good

\* No word but "down" makes a check offline.
LEMMA WordIs ==
  ASSUME NEW word \in Health!Words, word # "down", NEW otherwise, otherwise # "offline"
  PROVE  Health!ByWord(word, otherwise) # "offline"
BY DEF Health!ByWord, Health!Words

\* TransientNotOffline holds whatever the endpoint answers.
LEMMA TransientAsMeant ==
  ASSUME NEW check \in Health!Check, NEW answer \in Health!Answer
  PROVE  Health!TransientNotOffline(check, answer)
<1> SUFFICES ASSUME check.allowed, check.method # "POST", Health!IsTransient(check, answer)
             PROVE  Health!CheckStatus(check, answer) # "offline"
  BY DEF Health!TransientNotOffline
<1>1. CASE answer.kind \in {"timeout", "unreachable"}
  BY <1>1 DEF Health!CheckStatus
<1>2. CASE answer.kind \notin {"timeout", "unreachable"}
  <2>1. answer.kind = "answered" /\ answer.body.kind = "payload"
    BY <1>2 DEF Health!IsTransient
  <2>2. answer.body \in Health!Body /\ answer.body.status \in Health!Words
        /\ answer.body.text \in {"plain", "transient"}
        /\ answer.body.service \in Health!Service \cup {[kind |-> "no_services"]}
    BY <2>1 DEF Health!Answer, Health!Body
  <2>3. Health!CheckStatus(check, answer) = IF check.method = "HEAD" THEN "online"
                                     ELSE Health!ClassifyBody(answer.body, check.named)
    BY <2>1 DEF Health!CheckStatus
  <2>4. CASE check.named /\ answer.body.service.kind # "no_services"
    <3>1. answer.body.service.kind = "entry" /\ answer.body.service.text = "transient"
      BY <1>2, <2>4 DEF Health!IsTransient
    <3>2. Health!ClassifyService(answer.body.service) # "offline"
      BY <3>1 DEF Health!ClassifyService, Health!ByCode
    <3> QED
      BY <2>1, <2>3, <2>4, <3>2 DEF Health!ClassifyBody
  <2>5. CASE ~(check.named /\ answer.body.service.kind # "no_services")
    <3>1. answer.body.text = "transient"
      BY <1>2, <2>5 DEF Health!IsTransient
    <3> QED
      BY <2>1, <2>2, <2>3, <2>5, <3>1, WordIs DEF Health!ClassifyBody
  <2> QED
    BY <2>4, <2>5
<1> QED
  BY <1>1, <1>2

-----------------------------------------------------------------------------
(* The links of the resolvers.                                             *)
LinksAt(answers, f, i) == IF i = 0 THEN Links!NoLinks ELSE Links!Answered(f[i - 1], answers[i])

\* The links after each of the answers are well defined.
LEMMA LinksDefined ==
  ASSUME NEW answers, NEW len \in Nat
  PROVE  \E f : f = [i \in 0..len |-> LinksAt(answers, f, i)]
<1> DEFINE Solved(n) == \E f : f = [i \in 0..n |-> LinksAt(answers, f, i)]
           T == {n \in 0..len : Solved(n)}
<1>1. 0 \in T
  <2> DEFINE f == [i \in 0..0 |-> Links!NoLinks]
  <2>1. f = [i \in 0..0 |-> LinksAt(answers, f, i)]
    BY DEF LinksAt
  <2>2. Solved(0)
    BY <2>1
  <2> QED
    BY <2>2
<1>2. ASSUME NEW n \in 0..len, n \in T, n < len
      PROVE  n + 1 \in T
  <2>1. PICK f : f = [i \in 0..n |-> LinksAt(answers, f, i)]
    BY <1>2
  <2> DEFINE last == Links!Answered(f[n], answers[n + 1])
             g == [i \in 0..n + 1 |-> IF i = n + 1 THEN last ELSE f[i]]
  <2>2. ASSUME NEW i \in 0..n
        PROVE  g[i] = f[i] /\ f[i] = LinksAt(answers, f, i)
    <3>1. i \in 0..n + 1 /\ i # n + 1
      OBVIOUS
    <3>2. g[i] = f[i]
      BY <3>1
    <3>3. f[i] = LinksAt(answers, f, i)
      <4> HIDE DEF g
      <4> QED
        BY <2>1
    <3> QED
      BY <3>2, <3>3
  <2>3. g[n + 1] = last
    OBVIOUS
  <2>4. DOMAIN g = 0..n + 1 /\ g = [i \in 0..n + 1 |-> g[i]]
    OBVIOUS
  <2> HIDE DEF g
  <2>5. ASSUME NEW i \in 0..n + 1
        PROVE  g[i] = LinksAt(answers, g, i)
    <3>1. CASE i = n + 1
      BY <3>1, <2>2, <2>3 DEF LinksAt
    <3>2. CASE i = 0
      BY <3>2, <2>2 DEF LinksAt
    <3>3. CASE i # 0 /\ i # n + 1
      <4>1. i \in 0..n /\ i - 1 \in 0..n
        BY <3>3
      <4> QED
        BY <3>3, <4>1, <2>2 DEF LinksAt
    <3> QED
      BY <3>1, <3>2, <3>3
  <2>6. g = [i \in 0..n + 1 |-> LinksAt(answers, g, i)]
    BY <2>4, <2>5
  <2>7. Solved(n + 1)
    BY <2>6
  <2> QED
    BY <1>2, <2>7
<1> HIDE DEF Solved
<1>3. 0..len \subseteq T
  BY <1>1, <1>2, UpTo
<1> QED
  BY <1>3 DEF Solved

\* Each link is one to its platform.
AllDirect(links) == \A p \in DOMAIN links : Links!Direct(p, links[p])

\* What a resolver answers adds direct links, and replaces none.
LEMMA AnsweredKeeps ==
  ASSUME NEW links, AllDirect(links), NEW answer
  PROVE  /\ AllDirect(Links!Answered(links, answer))
         /\ \A p \in DOMAIN links : /\ p \in DOMAIN Links!Answered(links, answer)
                                    /\ Links!Answered(links, answer)[p] = links[p]
BY DEF Links!Answered, Links!Merge, AllDirect

\* So does the link that was given to begin with.
LEMMA SourceKeeps ==
  ASSUME NEW links, AllDirect(links), NEW source
  PROVE  /\ AllDirect(Links!AddSource(links, source))
         /\ \A p \in DOMAIN Links!AddSource(links, source) : p \in DOMAIN links
            \/ p = source.host
         /\ \A p \in DOMAIN links : /\ p \in DOMAIN Links!AddSource(links, source)
                                    /\ Links!AddSource(links, source)[p] = links[p]
BY DEF Links!AddSource, Links!Add, AllDirect

\* The links that a resolver has found, after the first of the answers.
Chain(answers) == CHOOSE f : f = [i \in 0..Len(answers) |-> LinksAt(answers, f, i)]

\* Links!Resolve folds the answers: Chain is the links after each of them.
LEMMA ChainIs ==
  ASSUME NEW S, NEW answers \in Seq(S)
  PROVE  /\ \A source : Links!Resolve(source, answers)
                         = Links!AddSource(Chain(answers)[Len(answers)], source)
         /\ Chain(answers)[0] = Links!NoLinks
         /\ \A i \in 1..Len(answers) :
              Chain(answers)[i] = Links!Answered(Chain(answers)[i - 1], answers[i])
<1> DEFINE f == Chain(answers)
<1>0. Len(answers) \in Nat
  OBVIOUS
<1>1. f = [i \in 0..Len(answers) |-> LinksAt(answers, f, i)]
  BY <1>0, LinksDefined DEF Chain
<1>2. ASSUME NEW source
      PROVE  Links!Resolve(source, answers) = Links!AddSource(f[Len(answers)], source)
  BY DEF Links!Resolve, Chain, LinksAt
<1> HIDE DEF f
<1>3. ASSUME NEW i \in 0..Len(answers)
      PROVE  f[i] = LinksAt(answers, f, i)
  BY <1>1
<1>4. f[0] = Links!NoLinks
  BY <1>0, <1>3 DEF LinksAt
<1>5. ASSUME NEW i \in 1..Len(answers)
      PROVE  f[i] = Links!Answered(f[i - 1], answers[i])
  BY <1>0, <1>3 DEF LinksAt
<1> QED
  BY <1>2, <1>4, <1>5 DEF f

\* They stay direct.
LEMMA ChainDirect ==
  ASSUME NEW S, NEW answers \in Seq(S)
  PROVE  \A n \in 0..Len(answers) : AllDirect(Chain(answers)[n])
<1> DEFINE T == {n \in 0..Len(answers) : AllDirect(Chain(answers)[n])}
<1>0. Len(answers) \in Nat
  OBVIOUS
<1>1. 0 \in T
  BY <1>0, ChainIs DEF Links!NoLinks, AllDirect
<1>2. ASSUME NEW n \in 0..Len(answers), n \in T, n < Len(answers)
      PROVE  n + 1 \in T
  <2>1. n + 1 \in 1..Len(answers) /\ (n + 1) - 1 = n
    BY <1>0, <1>2
  <2>2. Chain(answers)[n + 1] = Links!Answered(Chain(answers)[n], answers[n + 1])
    BY <2>1, ChainIs
  <2> QED
    BY <1>2, <2>1, <2>2, AnsweredKeeps
<1>3. 0..Len(answers) \subseteq T
  BY <1>0, <1>1, <1>2, UpTo
<1> QED
  BY <1>3

\* What one answer fewer makes of it.
LEMMA ChainOfFewer ==
  ASSUME NEW S, NEW answers \in Seq(S), answers # <<>>
  PROVE  LET fewer == SubSeq(answers, 1, Len(answers) - 1)
         IN  /\ fewer \in Seq(S) /\ Len(fewer) = Len(answers) - 1
             /\ Chain(fewer)[Len(fewer)] = Chain(answers)[Len(fewer)]
<1> DEFINE fewer == SubSeq(answers, 1, Len(answers) - 1)
           T == {n \in 0..Len(fewer) : Chain(fewer)[n] = Chain(answers)[n]}
<1>1. /\ fewer \in Seq(S) /\ Len(fewer) = Len(answers) - 1 /\ Len(fewer) \in Nat
      /\ \A i \in 1..Len(fewer) : fewer[i] = answers[i]
  <2>1. Len(answers) \in Nat \ {0} /\ answers \in [1..Len(answers) -> S]
    OBVIOUS
  <2>2. Len(answers) - 1 \in Nat /\ Len(answers) - 1 <= Len(answers)
    BY <2>1
  <2>3. fewer = [i \in 1..Len(answers) - 1 |-> answers[i]]
    BY <2>1, <2>2
  <2> HIDE DEF fewer
  <2> QED
    BY <2>1, <2>2, <2>3
<1> HIDE DEF fewer
<1>2. 0 \in T
  BY <1>1, ChainIs
<1>3. ASSUME NEW n \in 0..Len(fewer), n \in T, n < Len(fewer)
      PROVE  n + 1 \in T
  <2>1. n + 1 \in 1..Len(fewer) /\ n + 1 \in 1..Len(answers) /\ (n + 1) - 1 = n
    BY <1>1, <1>3
  <2>2. Chain(fewer)[n + 1] = Links!Answered(Chain(fewer)[n], fewer[n + 1])
    BY <1>1, <2>1, ChainIs
  <2>3. Chain(answers)[n + 1] = Links!Answered(Chain(answers)[n], answers[n + 1])
    BY <2>1, ChainIs
  <2> QED
    BY <1>1, <1>3, <2>1, <2>2, <2>3
<1>4. 0..Len(fewer) \subseteq T
  BY <1>1, <1>2, <1>3, UpTo
<1> QED
  BY <1>1, <1>4 DEF fewer

\* LinksAreDirect holds whatever the resolvers answer, and however many they are.
LEMMA LinksAsMeant ==
  ASSUME NEW source, NEW S, NEW answers \in Seq(S)
  PROVE  Links!LinksAreDirect(source, answers)
<1> DEFINE links == Links!Resolve(source, answers)
           fewer == SubSeq(answers, 1, Len(answers) - 1)
           earlier == Links!Resolve(source, fewer)
<1>0. Len(answers) \in Nat
  OBVIOUS
<1>1. links = Links!AddSource(Chain(answers)[Len(answers)], source)
      /\ AllDirect(Chain(answers)[Len(answers)])
  BY <1>0, ChainIs, ChainDirect
<1>2. AllDirect(links)
  BY <1>1, SourceKeeps
<1>3. ASSUME answers # <<>>, NEW p \in DOMAIN earlier \ {source.host}
      PROVE  links[p] = earlier[p]
  <2>1. fewer \in Seq(S) /\ Len(fewer) = Len(answers) - 1
        /\ Chain(fewer)[Len(fewer)] = Chain(answers)[Len(fewer)]
    BY <1>3, ChainOfFewer
  <2> DEFINE last == Chain(answers)[Len(fewer)]
  <2>2. earlier = Links!AddSource(last, source)
    BY <2>1, ChainIs
  <2>3. Len(answers) \in 1..Len(answers) /\ Len(fewer) \in 0..Len(answers)
    BY <1>0, <1>3, <2>1
  <2>4. AllDirect(last)
    BY <2>3, ChainDirect
  <2>5. Chain(answers)[Len(answers)] = Links!Answered(last, answers[Len(answers)])
    BY <2>1, <2>3, ChainIs
  <2> HIDE DEF last, fewer, earlier, links
  <2>6. p \in DOMAIN last /\ earlier[p] = last[p]
    BY <1>3, <2>2, <2>4, SourceKeeps
  <2>7. p \in DOMAIN Chain(answers)[Len(answers)]
        /\ Chain(answers)[Len(answers)][p] = last[p]
    BY <2>4, <2>5, <2>6, AnsweredKeeps
  <2> QED
    BY <1>1, <2>6, <2>7, SourceKeeps
<1> QED
  BY <1>2, <1>3 DEF Links!LinksAreDirect, AllDirect, Links!Direct


-----------------------------------------------------------------------------
\* What LRCLIB may answer.
LEMMA RepliesAre ==
  ASSUME NEW answers \in LyricsAnswers, NEW q \in Asked
  PROVE  Reply(q, answers[q])
<1> DEFINE records == {Song, [Song EXCEPT !.synced = TRUE], [Song EXCEPT !.plain = TRUE],
                       [Song EXCEPT !.instrumental = TRUE],
                       [Song EXCEPT !.matches = FALSE, !.plain = TRUE]}
           found == Lyrics!Records(<<[Song EXCEPT !.plain = TRUE]>>)
           searched == Searches \cup {Lyrics!Unavailable, Lyrics!Missing, found}
<1>1. \A r \in records : r \in RecordType
  <2>1. Song \in RecordType
    BY DEF Song, RecordType
  <2>2. \A r \in RecordType : \A b \in BOOLEAN :
          /\ [r EXCEPT !.synced = b] \in RecordType /\ [r EXCEPT !.plain = b] \in RecordType
          /\ [r EXCEPT !.instrumental = b] \in RecordType
          /\ [r EXCEPT !.matches = FALSE, !.plain = b] \in RecordType
    BY DEF RecordType
  <2> QED
    BY <2>1, <2>2
<1>2. \A r \in Record : r \in RecordType
  BY DEF RecordType, Record
<1>3. Lyrics!Unavailable \in AnswerType /\ Lyrics!Missing \in AnswerType
      /\ Len(Lyrics!Unavailable.records) = 0 /\ Len(Lyrics!Missing.records) = 0
  BY DEF Lyrics!Unavailable, Lyrics!Missing, AnswerType
<1>4. /\ \A r \in RecordType : Lyrics!Records(<<r>>) \in AnswerType
                             /\ Len(Lyrics!Records(<<r>>).records) <= 1
      /\ \A r, s \in RecordType : Lyrics!Records(<<r, s>>) \in AnswerType
  <2>1. \A S : \A r, s \in S : <<r>> \in Seq(S) /\ <<r, s>> \in Seq(S)
    OBVIOUS
  <2>2. \A r : Len(<<r>>) = 1
    OBVIOUS
  <2> QED
    BY <2>1, <2>2 DEF Lyrics!Records, AnswerType
<1>5. \A a \in Gets : a \in AnswerType /\ Len(a.records) <= 1
  <2>1. \A a \in Gets : \/ a = Lyrics!Unavailable \/ a = Lyrics!Missing
                        \/ \E r \in records : a = Lyrics!Records(<<r>>)
    BY DEF Gets
  <2>2. ASSUME NEW r \in records
        PROVE  Lyrics!Records(<<r>>) \in AnswerType /\ Len(Lyrics!Records(<<r>>).records) <= 1
    <3>1. r \in RecordType
      BY <1>1
    <3> QED
      BY ONLY <1>4, <3>1
  <2>3. Len(Lyrics!Unavailable.records) <= 1 /\ Len(Lyrics!Missing.records) <= 1
    BY <1>3
  <2> HIDE DEF records, found, searched
  <2> QED
    BY <1>3, <2>1, <2>2, <2>3
<1>6. \A a \in searched : a \in AnswerType
  <2>1. [Song EXCEPT !.plain = TRUE] \in RecordType
    BY <1>1
  <2>2. found \in AnswerType
    BY <1>4, <2>1
  <2>3. \A a \in Searches : \/ a = Lyrics!Unavailable
                            \/ \E r, s \in Record : a = Lyrics!Records(<<r, s>>)
    BY DEF Searches
  <2> HIDE DEF found
  <2> QED
    BY <1>2, <1>3, <1>4, <2>2, <2>3
<1>7. q \in GetQueries \cup SearchQueries
      /\ (q \in {"search", "search simplified"} <=> q \notin GetQueries)
  BY DEF Asked, GetQueries, SearchQueries
<1>8. \E g \in [GetQueries -> Gets], s \in [SearchQueries -> searched] :
        answers = [x \in GetQueries \cup SearchQueries |->
                     IF x \in GetQueries THEN g[x] ELSE s[x]]
  <2> DEFINE Either(g, s) == [x \in GetQueries \cup SearchQueries |->
                                IF x \in GetQueries THEN g[x] ELSE s[x]]
             few == {Lyrics!Unavailable, Lyrics!Missing, found}
  <2>1. LyricsAnswers = {Either(g, s) : g \in [GetQueries -> Gets], s \in [SearchQueries -> few]}
                        \cup {Either(g, s) : g \in [GetQueries -> {Lyrics!Missing}],
                                             s \in [SearchQueries -> Searches]}
    BY DEF LyricsAnswers
  <2> HIDE DEF Either, few
  <2>2. \/ \E g \in [GetQueries -> Gets], s \in [SearchQueries -> few] : answers = Either(g, s)
        \/ \E g \in [GetQueries -> {Lyrics!Missing}], s \in [SearchQueries -> Searches] :
              answers = Either(g, s)
    BY <2>1
  <2>3. {Lyrics!Missing} \subseteq Gets /\ few \subseteq searched /\ Searches \subseteq searched
    BY DEF Gets, few
  <2>4. \A A, S, T : S \subseteq T => \A f \in [A -> S] : f \in [A -> T]
    OBVIOUS
  <2>5. \E g \in [GetQueries -> Gets], s \in [SearchQueries -> searched] :
          answers = Either(g, s)
    <3> HIDE DEF searched
    <3> QED
      BY <2>2, <2>3, <2>4
  <2> QED
    BY <2>5 DEF Either
<1> HIDE DEF searched, found, records
<1>9. CASE q \in GetQueries
  <2>1. answers[q] \in AnswerType /\ Len(answers[q].records) <= 1
    BY <1>5, <1>7, <1>8, <1>9
  <2> QED
    BY <2>1 DEF Reply
<1>10. CASE q \notin GetQueries
  <2>1. q \in SearchQueries
    BY <1>7, <1>10
  <2>2. answers[q] \in AnswerType
    BY <1>6, <1>7, <1>8, <1>10, <2>1
  <2> QED
    BY <1>7, <1>10, <2>2 DEF Reply
<1> QED
  BY <1>9, <1>10

\* AnswersAsMeant: LRCLIB is said to have what it has and an outage is never taken
\* for an answer, though a search passes over a song that has no lyrics
\* (tryLRCLIB); a check that has timed out or whose host cannot be reached is not
\* offline and an extension is what its checks are (CheckExtensionHealth); every link leads to the
\* platform it is listed under, and none replaces an earlier one
\* (platformResolverChain.Resolve).
THEOREM AnswersAsMeantHolds == MCSpec => []AnswersAsMeant
<1>1. ASSUME MCInit, input[1] = "lyrics"
      PROVE  Lyrics!SaysWhatItHas(input[2], input[3])
  <2>1. PICK request \in Requests, answers \in LyricsAnswers :
          input = <<"lyrics", request, answers>>
    BY <1>1, InputsAre
  <2>2. request \in [credit : BOOLEAN, simplified : BOOLEAN]
    BY DEF Requests
  <2>3. \A i \in DOMAIN Lyrics!Queries(request) : Lyrics!Queries(request)[i] \in Asked
    BY <2>2, QueriesAre
  <2>4. Lyrics!SaysWhatItHas(request, answers)
    BY <2>2, <2>3, RepliesAre, LyricsAsMeant
  <2> QED
    BY <2>1, <2>4
<1>2. ASSUME MCInit, input[1] = "check"
      PROVE  Health!TransientNotOffline(input[2], input[3])
  <2>1. PICK c \in Health!Check, a \in Health!Answer : input = <<"check", c, a>>
    BY <1>2, InputsAre
  <2> QED
    BY <2>1, TransientAsMeant
<1>3. ASSUME MCInit, input[1] = "checks"
      PROVE  Health!StatusOfAll(input[2])
  <2>1. PICK n \in 0..3 : \E rs \in [1..n -> Result] : input = <<"checks", rs>>
    BY <1>3, InputsAre DEF Result
  <2>2. PICK rs \in [1..n -> Result] : input = <<"checks", rs>>
    BY <2>1
  <2>3. rs \in Seq(Result)
    OBVIOUS
  <2> QED
    BY <2>2, <2>3, StatusAsMeant
<1>4. Links!LinksAreDirect(input[2],
        <<Answered(input[2], input[3], <<input[2]>>), Links!Unitune(TRUE, input[4], FALSE),
          Links!Squigly(TRUE, TRUE, input[4], FALSE)>>)
  <2>1. \A a, b, c : <<a, b, c>> \in Seq({a, b, c})
    OBVIOUS
  <2> QED
    BY <2>1, LinksAsMeant
<1>5. MCInit => AnswersAsMeant
  BY <1>1, <1>2, <1>3, <1>4 DEF AnswersAsMeant
<1>6. AnswersAsMeant /\ [MCNext]_<<edit, indexing>> => AnswersAsMeant'
  BY InputStays DEF AnswersAsMeant
<1> QED
  BY <1>5, <1>6, PTL DEF MCSpec

-----------------------------------------------------------------------------
(* Sequences. *)

\* What is made step after step, from a, by a function of the step and what was.
Steps(len, S) == [(1..len) \X S -> S]
Follows(f, next, a, len, S) ==
    f \in [0..len -> S] /\ f[0] = a /\ \A i \in 1..len : f[i] = next[<<i, f[i - 1]>>]

\* There is a function that each step makes of the last one.
LEMMA Recursion ==
  ASSUME NEW S, NEW len \in Nat, NEW a \in S, NEW next \in Steps(len, S)
  PROVE  \E f : Follows(f, next, a, len, S)
<1>0. next \in [(1..len) \X S -> S]
  BY DEF Steps
<1> DEFINE Solved(n) == \E f \in [0..n -> S] : /\ f[0] = a
                            /\ \A i \in 1..n : f[i] = next[<<i, f[i - 1]>>]
           T == {n \in 0..len : Solved(n)}
<1>1. 0 \in T
  <2> DEFINE f == [i \in 0..0 |-> a]
  <2>1. f \in [0..0 -> S] /\ f[0] = a /\ 1..0 = {}
    OBVIOUS
  <2>2. Solved(0)
    BY <2>1
  <2> QED
    BY <2>2
<1>2. ASSUME NEW n \in 0..len, n \in T, n < len
      PROVE  n + 1 \in T
  <2>1. PICK f \in [0..n -> S] : f[0] = a /\ \A i \in 1..n : f[i] = next[<<i, f[i - 1]>>]
    BY <1>2
  <2> DEFINE g == [i \in 0..n + 1 |-> IF i = n + 1 THEN next[<<n + 1, f[n]>>] ELSE f[i]]
  <2>2. f[n] \in S /\ n + 1 \in 1..len
    BY <1>2, <2>1
  <2>3. next[<<n + 1, f[n]>>] \in S
    BY <1>0, <2>2
  <2>4. g \in [0..n + 1 -> S] /\ \A i \in 0..n : g[i] = f[i]
    BY <2>1, <2>3
  <2>5. g[n + 1] = next[<<n + 1, f[n]>>]
    OBVIOUS
  <2> HIDE DEF g
  <2>6. g[0] = a
    BY <2>1, <2>4
  <2>7. ASSUME NEW i \in 1..n + 1
        PROVE  g[i] = next[<<i, g[i - 1]>>]
    <3>1. i - 1 \in 0..n /\ g[i - 1] = f[i - 1]
      BY <2>4
    <3>2. CASE i = n + 1
      BY <3>1, <3>2, <2>5
    <3>3. CASE i # n + 1
      BY <3>1, <3>3, <2>1, <2>4
    <3> QED
      BY <3>2, <3>3
  <2>8. Solved(n + 1)
    BY <2>4, <2>6, <2>7
  <2> HIDE DEF Solved
  <2>9. n + 1 \in 0..len
    BY <1>2
  <2> QED
    BY <2>8, <2>9
<1> HIDE DEF Solved
<1>3. 0..len \subseteq T
  BY <1>1, <1>2, UpTo
<1>4. Solved(len)
  BY <1>3
<1> QED
  BY <1>4 DEF Solved, Follows

\* One sequence after another.
Cat(s, t) == s \o t

\* The laws of that.
LEMMA CatIs ==
  ASSUME NEW S
  PROVE  /\ <<>> \in Seq(S)
         /\ \A s \in Seq(S) : Cat(<<>>, s) = s /\ Cat(s, <<>>) = s
         /\ \A s, t \in Seq(S) : Cat(s, t) \in Seq(S)
         /\ \A s, t, u \in Seq(S) : Cat(Cat(s, t), u) = Cat(s, Cat(t, u))
<1>1. ASSUME NEW s \in Seq(S), NEW t \in Seq(S), NEW u \in Seq(S)
      PROVE  Cat(Cat(s, t), u) = Cat(s, Cat(t, u))
  BY DEF Cat
<1>2. <<>> \in Seq(S) /\ \A s \in Seq(S) : Cat(<<>>, s) = s /\ Cat(s, <<>>) = s
  BY DEF Cat
<1>3. \A s, t \in Seq(S) : Cat(s, t) \in Seq(S)
  BY DEF Cat
<1> QED
  BY <1>1, <1>2, <1>3

\* The parts of a sequence of sequences come one after another.
LEMMA FlattenIs ==
  ASSUME NEW S, NEW seqs \in Seq(Seq(S))
  PROVE  \E f \in [0..Len(seqs) -> Seq(S)] :
            /\ f[0] = <<>> /\ FlattenSeq(seqs) = f[Len(seqs)]
            /\ \A i \in 1..Len(seqs) : f[i] = Cat(f[i - 1], seqs[i])
<1> DEFINE len == Len(seqs)
           Good(g) == g = [i \in 1..len |-> IF i = 1 THEN seqs[i] ELSE Cat(g[i - 1], seqs[i])]
           next == [p \in (1..len) \X Seq(S) |-> Cat(p[2], seqs[p[1]])]
           flatten == CHOOSE g : Good(g)
<1>1. len \in Nat /\ \A i \in 1..len : seqs[i] \in Seq(S)
  OBVIOUS
<1>2. /\ <<>> \in Seq(S) /\ \A s \in Seq(S) : Cat(<<>>, s) = s
      /\ \A s, t \in Seq(S) : Cat(s, t) \in Seq(S)
  BY CatIs
<1>3. len = 0 => seqs = <<>>
  OBVIOUS
<1>4. FlattenSeq(seqs) = IF len = 0 THEN seqs ELSE flatten[len]
  BY DEF FlattenSeq, Cat
<1> HIDE DEF len, flatten
<1>5. next \in Steps(len, Seq(S))
  BY <1>1, <1>2 DEF Steps
<1>6. \A i \in 1..len : \A s \in Seq(S) : next[<<i, s>>] = Cat(s, seqs[i])
  OBVIOUS
<1> HIDE DEF next
<1>7. PICK f : Follows(f, next, <<>>, len, Seq(S))
  BY <1>1, <1>2, <1>5, Recursion
<1>8. f \in [0..len -> Seq(S)] /\ f[0] = <<>>
  BY <1>7 DEF Follows
<1>9. ASSUME NEW i \in 1..len
      PROVE  f[i] = Cat(f[i - 1], seqs[i])
  <2>1. i - 1 \in 0..len /\ f[i] = next[<<i, f[i - 1]>>]
    BY <1>1, <1>7 DEF Follows
  <2> QED
    BY <2>1, <1>6, <1>8
<1>10. FlattenSeq(seqs) = f[len]
  <2>1. CASE len = 0
    BY <2>1, <1>3, <1>4, <1>8
  <2>2. CASE len # 0
    <3>1. 1 \in 1..len /\ f[1] = seqs[1]
      <4>1. 1 \in 1..len /\ 1 - 1 = 0
        BY <2>2, <1>1
      <4> QED
        BY <4>1, <1>1, <1>2, <1>8, <1>9
    <3> DEFINE h == [i \in 1..len |-> f[i]]
    <3>2. \A i \in 1..len : h[i] = f[i]
      OBVIOUS
    <3>3. h = [i \in 1..len |-> h[i]]
      OBVIOUS
    <3> HIDE DEF h
    <3>4. ASSUME NEW i \in 1..len
          PROVE  h[i] = IF i = 1 THEN seqs[i] ELSE Cat(h[i - 1], seqs[i])
      <4>1. CASE i = 1
        BY <4>1, <3>1, <3>2
      <4>2. CASE i # 1
        <5>1. i - 1 \in 1..len
          BY <4>2, <1>1
        <5> QED
          BY <5>1, <4>2, <3>2, <1>9
      <4> QED
        BY <4>1, <4>2
    <3>5. Good(h)
      BY <3>3, <3>4
    <3>6. Good(flatten)
      <4> HIDE DEF Good
      <4> QED
        BY <3>5 DEF flatten
    <3>7. \A i \in 1..len : flatten[i] = IF i = 1 THEN seqs[i] ELSE Cat(flatten[i - 1], seqs[i])
      BY <3>6
    <3> HIDE DEF Good
    <3> DEFINE T == {n \in 0..len : n > 0 => flatten[n] = f[n]}
    <3>8. ASSUME NEW n \in 0..len, n \in T, n < len
          PROVE  n + 1 \in T
      <4>1. n + 1 \in 1..len /\ n + 1 - 1 = n
        BY <3>8, <1>1
      <4>2. CASE n = 0
        BY <4>1, <4>2, <3>1, <3>7
      <4>3. CASE n # 0
        BY <4>1, <4>3, <3>7, <3>8, <1>9
      <4> QED
        BY <4>2, <4>3
    <3>9. 0 \in T
      BY <1>1
    <3>10. 0..len \subseteq T
      <4> HIDE DEF T
      <4> QED
        BY <3>8, <3>9, <1>1, UpTo
    <3>11. len \in T /\ len > 0
      BY <3>10, <2>2, <1>1
    <3> QED
      BY <3>11, <2>2, <1>4
  <2> QED
    BY <2>1, <2>2
<1> QED
  BY <1>8, <1>9, <1>10 DEF len

\* The components flatten sequences with the same operator.
LEMMA SameFlatten == \A s : Cue!FlattenSeq(s) = FlattenSeq(s)
  BY Zenon DEF Cue!FlattenSeq, FlattenSeq

-----------------------------------------------------------------------------
(* Cue sheets. *)

\* The length of the first tracks.
LEMMA LengthIs ==
  ASSUME NEW disc, Len(disc) \in Nat,
         \A i \in 1..Len(disc) : disc[i].gap \in Nat /\ disc[i].length \in Nat
  PROVE  /\ Cue!LengthOf(disc, 0) = 0
         /\ \A n \in 0..Len(disc) : Cue!LengthOf(disc, n) \in Nat
         /\ \A n \in 1..Len(disc) :
              Cue!LengthOf(disc, n) = Cue!LengthOf(disc, n - 1) + disc[n].gap + disc[n].length
<1> DEFINE len == Len(disc)
           next == [p \in (1..len) \X Nat |-> p[2] + disc[p[1]].gap + disc[p[1]].length]
           Good(g) == g = [n \in 0..len |->
                              IF n = 0 THEN 0 ELSE g[n - 1] + disc[n].gap + disc[n].length]
           length == CHOOSE g : Good(g)
<1>1. next \in Steps(len, Nat)
  BY DEF Steps
<1>2. \A i \in 1..len : \A s \in Nat : next[<<i, s>>] = s + disc[i].gap + disc[i].length
  OBVIOUS
<1> HIDE DEF next
<1>3. PICK f : Follows(f, next, 0, len, Nat)
  <2>1. len \in Nat /\ 0 \in Nat
    OBVIOUS
  <2> HIDE DEF len
  <2> QED
    BY <1>1, <2>1, Recursion
<1>4. ASSUME NEW i \in 1..len
      PROVE  f[i] = f[i - 1] + disc[i].gap + disc[i].length
  <2>1. i - 1 \in 0..len /\ f \in [0..len -> Nat] /\ f[i] = next[<<i, f[i - 1]>>]
    BY <1>3 DEF Follows
  <2>2. f[i - 1] \in Nat
    BY <2>1
  <2> QED
    BY <1>2, <2>1, <2>2
<1>4a. f \in [0..len -> Nat] /\ f[0] = 0
  BY <1>3 DEF Follows
<1>5. Good(f)
  <2>1. f = [n \in 0..len |-> f[n]]
    BY <1>4a
  <2>2. ASSUME NEW n \in 0..len
        PROVE  f[n] = IF n = 0 THEN 0 ELSE f[n - 1] + disc[n].gap + disc[n].length
    BY <1>4, <1>4a
  <2> QED
    BY <2>1, <2>2
<1>6. Good(length)
  <2> HIDE DEF Good
  <2> QED
    BY <1>5
<1>7. \A n : Cue!LengthOf(disc, n) = length[n]
  BY DEF Cue!LengthOf
<1> HIDE DEF length
<1>8. \A n \in 0..len :
        length[n] = IF n = 0 THEN 0 ELSE length[n - 1] + disc[n].gap + disc[n].length
  BY <1>6
<1> DEFINE T == {n \in 0..len : length[n] \in Nat}
<1>9. 0 \in T
  BY <1>8
<1>10. ASSUME NEW n \in 0..len, n \in T, n < len PROVE n + 1 \in T
  <2>1. n + 1 \in 1..len /\ n + 1 - 1 = n
    BY <1>10
  <2> QED
    <3>1. length[n + 1] = length[n] + disc[n + 1].gap + disc[n + 1].length
      BY <2>1, <1>8
    <3>2. disc[n + 1].gap \in Nat /\ disc[n + 1].length \in Nat /\ length[n] \in Nat
      BY <2>1, <1>10
    <3> QED
      BY <2>1, <3>1, <3>2
<1>11. 0..len \subseteq T
  <2>1. len \in Nat
    OBVIOUS
  <2> HIDE DEF T, len
  <2> QED
    BY <1>9, <1>10, <2>1, UpTo
<1> QED
  BY <1>7, <1>8, <1>11

\* What is read line after line.
LinesAt(lines, f, n) ==
    IF n = 0 THEN Cue!Sheet(Cue!NoText, Cue!NoText, <<>>) ELSE Cue!Read(f[n - 1], lines[n])

\* There is a function that reads line after line.
LEMMA SheetDefined ==
  ASSUME NEW lines, NEW len \in Nat
  PROVE  \E f : f = [i \in 0..len |-> LinesAt(lines, f, i)]
<1> DEFINE Solved(n) == \E f : f = [i \in 0..n |-> LinesAt(lines, f, i)]
           T == {n \in 0..len : Solved(n)}
<1>1. 0 \in T
  <2> DEFINE f == [i \in 0..0 |-> Cue!Sheet(Cue!NoText, Cue!NoText, <<>>)]
  <2>1. f = [i \in 0..0 |-> LinesAt(lines, f, i)]
    BY DEF LinesAt
  <2>2. Solved(0)
    BY <2>1
  <2> QED
    BY <2>2
<1>2. ASSUME NEW n \in 0..len, n \in T, n < len
      PROVE  n + 1 \in T
  <2>1. PICK f : f = [i \in 0..n |-> LinesAt(lines, f, i)]
    BY <1>2
  <2> DEFINE last == Cue!Read(f[n], lines[n + 1])
             g == [i \in 0..n + 1 |-> IF i = n + 1 THEN last ELSE f[i]]
  <2>2. ASSUME NEW i \in 0..n
        PROVE  g[i] = f[i] /\ f[i] = LinesAt(lines, f, i)
    <3>1. i \in 0..n + 1 /\ i # n + 1
      OBVIOUS
    <3>2. g[i] = f[i]
      BY <3>1
    <3>3. f[i] = LinesAt(lines, f, i)
      <4> HIDE DEF g
      <4> QED
        BY <2>1
    <3> QED
      BY <3>2, <3>3
  <2>3. g[n + 1] = last
    OBVIOUS
  <2>4. DOMAIN g = 0..n + 1 /\ g = [i \in 0..n + 1 |-> g[i]]
    OBVIOUS
  <2> HIDE DEF g
  <2>5. ASSUME NEW i \in 0..n + 1
        PROVE  g[i] = LinesAt(lines, g, i)
    <3>1. CASE i = n + 1
      BY <3>1, <2>2, <2>3 DEF LinesAt
    <3>2. CASE i = 0
      BY <3>2, <2>2 DEF LinesAt
    <3>3. CASE i # 0 /\ i # n + 1
      <4>1. i \in 0..n /\ i - 1 \in 0..n
        BY <3>3
      <4> QED
        BY <3>3, <4>1, <2>2 DEF LinesAt
    <3> QED
      BY <3>1, <3>2, <3>3
  <2>6. g = [i \in 0..n + 1 |-> LinesAt(lines, g, i)]
    BY <2>4, <2>5
  <2>7. Solved(n + 1)
    BY <2>6
  <2> QED
    BY <1>2, <2>7
<1> HIDE DEF Solved
<1>3. 0..len \subseteq T
  BY <1>1, <1>2, UpTo
<1> QED
  BY <1>3 DEF Solved

\* So a sheet is what its lines have made of it, one after the other.
LEMMA ParseIs ==
  ASSUME NEW lines, Len(lines) \in Nat
  PROVE  \E f : /\ Cue!ParseCueFile(lines) = f[Len(lines)]
                /\ f[0] = Cue!Sheet(Cue!NoText, Cue!NoText, <<>>)
                /\ \A i \in 1..Len(lines) : f[i] = Cue!Read(f[i - 1], lines[i])
<1> DEFINE f == CHOOSE g : g = [i \in 0..Len(lines) |-> LinesAt(lines, g, i)]
<1>1. f = [i \in 0..Len(lines) |-> LinesAt(lines, f, i)]
  BY SheetDefined
<1>2. Cue!ParseCueFile(lines) = f[Len(lines)]
  BY DEF Cue!ParseCueFile, LinesAt
<1> HIDE DEF f
<1>3. \A i \in 0..Len(lines) : f[i] = LinesAt(lines, f, i)
  BY <1>1
<1>4. f[0] = Cue!Sheet(Cue!NoText, Cue!NoText, <<>>)
  BY <1>3 DEF LinesAt
<1>5. ASSUME NEW i \in 1..Len(lines) PROVE f[i] = Cue!Read(f[i - 1], lines[i])
  BY <1>3 DEF LinesAt
<1> QED
  BY <1>2, <1>4, <1>5

\* One more line.
LEMMA ParseOneMore ==
  ASSUME NEW S, NEW lines \in Seq(S), NEW l \in S
  PROVE  /\ Cue!ParseCueFile(lines \o <<l>>) = Cue!Read(Cue!ParseCueFile(lines), l)
         /\ lines \o <<l>> \in Seq(S)
<1> DEFINE more == lines \o <<l>>
           n == Len(lines)
<1>1. more \in Seq(S) /\ Len(more) = n + 1 /\ n \in Nat /\ more[n + 1] = l
      /\ \A i \in 1..n : more[i] = lines[i]
  OBVIOUS
<1> HIDE DEF more
<1>2. PICK f : /\ Cue!ParseCueFile(lines) = f[n] /\ f[0] = Cue!Sheet(Cue!NoText, Cue!NoText, <<>>)
               /\ \A i \in 1..n : f[i] = Cue!Read(f[i - 1], lines[i])
  BY <1>1, ParseIs
<1>3. PICK g : /\ Cue!ParseCueFile(more) = g[n + 1]
               /\ g[0] = Cue!Sheet(Cue!NoText, Cue!NoText, <<>>)
               /\ \A i \in 1..n + 1 : g[i] = Cue!Read(g[i - 1], more[i])
  <2>1. Len(more) \in Nat
    BY <1>1
  <2>2. \E g : /\ Cue!ParseCueFile(more) = g[Len(more)]
               /\ g[0] = Cue!Sheet(Cue!NoText, Cue!NoText, <<>>)
               /\ \A i \in 1..Len(more) : g[i] = Cue!Read(g[i - 1], more[i])
    BY <2>1, ParseIs
  <2> QED
    BY <2>2, <1>1
<1> DEFINE T == {i \in 0..n : f[i] = g[i]}
<1>4. 0 \in T
  BY <1>1, <1>2, <1>3
<1>5. ASSUME NEW i \in 0..n, i \in T, i < n PROVE i + 1 \in T
  <2>1. i + 1 \in 1..n /\ i + 1 \in 1..n + 1 /\ i + 1 - 1 = i
    BY <1>5, <1>1
  <2>2. f[i + 1] = Cue!Read(f[i], lines[i + 1]) /\ g[i + 1] = Cue!Read(g[i], more[i + 1])
    BY <2>1, <1>2, <1>3
  <2> QED
    BY <2>1, <2>2, <1>1, <1>5
<1>6. 0..n \subseteq T
  <2> HIDE DEF T, n
  <2> QED
    BY <1>1, <1>4, <1>5, UpTo
<1>7. f[n] = g[n]
  BY <1>6, <1>1
<1>8. g[n + 1] = Cue!Read(g[n], l)
  <2>1. n + 1 \in 1..n + 1 /\ n + 1 - 1 = n
    BY <1>1
  <2> QED
    BY <2>1, <1>1, <1>3
<1> QED
  BY <1>1, <1>2, <1>3, <1>7, <1>8 DEF more

\* The row of a track, and the sheet when the last of i tracks is as given.
TrackOf(disc, j) ==
    [number |-> j, performer |-> disc[j].performer,
     start |-> Cue!LengthOf(disc, j - 1) + disc[j].gap,
     preGap |-> IF disc[j].gap = 0 THEN -1 ELSE Cue!LengthOf(disc, j - 1)]

TracksWith(disc, i, last) == [j \in 1..i |-> IF j < i THEN TrackOf(disc, j) ELSE last]
SheetWith(performer, disc, i, last) == Cue!Sheet("disc.flac", performer, TracksWith(disc, i, last))
TracksOf(disc, i) == [j \in 1..i |-> TrackOf(disc, j)]
SheetAfter(performer, disc, i) == Cue!Sheet("disc.flac", performer, TracksOf(disc, i))

\* What is said of the track that is being read changes it alone.
LEMMA InTrackIs ==
  ASSUME NEW performer, NEW disc, NEW i \in Nat \ {0}, NEW row, NEW t
  PROVE  LET sheet == SheetWith(performer, disc, i, row)
         IN  /\ Cue!InTrack(sheet, t) = SheetWith(performer, disc, i, t)
             /\ Cue!Current(sheet) = row /\ sheet.tracks # <<>>
<1> DEFINE sheet == SheetWith(performer, disc, i, row)
           tracks == TracksWith(disc, i, row)
           new == TracksWith(disc, i, t)
<1>1. /\ sheet.tracks = tracks
      /\ sheet = [file |-> "disc.flac", performer |-> performer, tracks |-> tracks]
  BY DEF SheetWith, Cue!Sheet
<1>2. Len(tracks) = i /\ tracks # <<>> /\ i \in 1..i
  BY DEF TracksWith
<1>3. tracks[i] = row
  BY <1>2 DEF TracksWith
<1>4. [tracks EXCEPT ![i] = t] = new
  <2>1. DOMAIN tracks = 1..i /\ new = [j \in 1..i |-> new[j]]
    BY DEF TracksWith
  <2>2. \A j \in 1..i : new[j] = IF j = i THEN t ELSE tracks[j]
    BY DEF TracksWith
  <2> HIDE DEF tracks, new
  <2>3. [tracks EXCEPT ![i] = t] = [j \in 1..i |-> IF j = i THEN t ELSE tracks[j]]
    BY <1>2, <2>1
  <2> QED
    BY <2>1, <2>2, <2>3
<1> HIDE DEF sheet, tracks, new
<1>5. Cue!InTrack(sheet, t) = Cue!Sheet("disc.flac", performer, new)
  <2>1. Cue!InTrack(sheet, t) = [sheet EXCEPT !.tracks[i] = t]
    BY <1>1, <1>2 DEF Cue!InTrack
  <2>2. [sheet EXCEPT !.tracks[i] = t]
          = [file |-> "disc.flac", performer |-> performer, tracks |-> [tracks EXCEPT ![i] = t]]
    BY <1>1
  <2> QED
    BY <2>1, <2>2, <1>4 DEF Cue!Sheet
<1>6. Cue!Current(sheet) = row /\ sheet.tracks # <<>>
  BY <1>1, <1>2, <1>3 DEF Cue!Current
<1> QED
  BY <1>5, <1>6 DEF SheetWith, sheet, new

\* What is said of a disc.
Said(performer, disc) ==
    [cmd : {"TRACK", "PERFORMER", "INDEX_00", "INDEX_01", "FILE"},
     arg : Int \cup {performer, "disc.flac"} \cup {disc[i].performer : i \in 1..Len(disc)}]

IsDisc(disc) ==
    /\ Len(disc) \in Nat /\ DOMAIN disc = 1..Len(disc)
    /\ \A i \in 1..Len(disc) : disc[i].gap \in Nat /\ disc[i].length \in Nat

\* The lines of a track are lines of the disc.
LEMMA TrackTyped ==
  ASSUME NEW performer, NEW disc, IsDisc(disc), NEW i \in 1..Len(disc)
  PROVE  Cue!TrackLines(disc, i) \in Seq(Said(performer, disc))
<1> DEFINE S == Said(performer, disc)
           at == Cue!LengthOf(disc, i - 1)
           t  == disc[i]
           A  == <<Cue!Line("TRACK", i)>>
           B  == IF t.performer = Cue!NoText THEN <<>> ELSE <<Cue!Line("PERFORMER", t.performer)>>
           C  == IF t.gap = 0 THEN <<>> ELSE <<Cue!Line("INDEX_00", at)>>
           D  == <<Cue!Line("INDEX_01", at + t.gap)>>
<1>1. at \in Nat /\ t.gap \in Nat
  <2>1. i - 1 \in 0..Len(disc)
    BY DEF IsDisc
  <2> QED
    BY <2>1, LengthIs DEF IsDisc
<1>2. Cue!TrackLines(disc, i) = A \o B \o C \o D
  BY DEF Cue!TrackLines
<1>3. /\ Cue!Line("TRACK", i) \in S /\ Cue!Line("PERFORMER", t.performer) \in S
      /\ Cue!Line("INDEX_00", at) \in S /\ Cue!Line("INDEX_01", at + t.gap) \in S
  BY <1>1 DEF Cue!Line, Said
<1>4. A \in Seq(S) /\ B \in Seq(S) /\ C \in Seq(S) /\ D \in Seq(S)
  <2>1. \A l \in S : <<l>> \in Seq(S)
    OBVIOUS
  <2>2. <<>> \in Seq(S)
    OBVIOUS
  <2> HIDE DEF S
  <2> QED
    BY <2>1, <2>2, <1>3
<1> HIDE DEF A, B, C, D, S
<1> QED
  BY <1>2, <1>4, ConcatProperties DEF S

\* Five sequences, one after the other.
LEMMA CatAll ==
  ASSUME NEW S, NEW s \in Seq(S), NEW a \in Seq(S), NEW b \in Seq(S), NEW c \in Seq(S),
         NEW d \in Seq(S)
  PROVE  Cat(s, Cat(Cat(Cat(a, b), c), d)) = Cat(Cat(Cat(Cat(s, a), b), c), d)
<1>1. Cat(a, b) \in Seq(S) /\ Cat(Cat(a, b), c) \in Seq(S)
  BY CatIs
<1>2. /\ Cat(s, Cat(Cat(Cat(a, b), c), d)) = Cat(Cat(s, Cat(Cat(a, b), c)), d)
      /\ Cat(s, Cat(Cat(a, b), c)) = Cat(Cat(s, Cat(a, b)), c)
      /\ Cat(s, Cat(a, b)) = Cat(Cat(s, a), b)
  BY <1>1, CatIs
<1> QED
  BY <1>2

\* What a line says.
LEMMA ReadIs ==
  ASSUME NEW sheet, NEW a
  PROVE  /\ Cue!Read(sheet, Cue!Line("FILE", a)) = [sheet EXCEPT !.file = a]
         /\ Cue!Read(sheet, Cue!Line("TRACK", a))
              = [sheet EXCEPT !.tracks = Append(@, Cue!NewTrack(a))]
         /\ sheet.tracks = <<>> =>
              Cue!Read(sheet, Cue!Line("PERFORMER", a)) = [sheet EXCEPT !.performer = a]
         /\ sheet.tracks # <<>> =>
              /\ Cue!Read(sheet, Cue!Line("PERFORMER", a))
                   = Cue!InTrack(sheet, [Cue!Current(sheet) EXCEPT !.performer = a])
              /\ Cue!Read(sheet, Cue!Line("INDEX_00", a))
                   = Cue!InTrack(sheet, [Cue!Current(sheet) EXCEPT !.preGap = a])
              /\ Cue!Read(sheet, Cue!Line("INDEX_01", a))
                   = Cue!InTrack(sheet, [Cue!Current(sheet) EXCEPT !.start = a])
<1>1. \A c, b : Cue!Line(c, b).cmd = c /\ Cue!Line(c, b).arg = b
  BY DEF Cue!Line
<1>2. Cue!Read(sheet, Cue!Line("FILE", a)) = [sheet EXCEPT !.file = a]
  BY <1>1 DEF Cue!Read
<1>3. Cue!Read(sheet, Cue!Line("TRACK", a)) = [sheet EXCEPT !.tracks = Append(@, Cue!NewTrack(a))]
  BY <1>1 DEF Cue!Read
<1>4. sheet.tracks = <<>> =>
        Cue!Read(sheet, Cue!Line("PERFORMER", a)) = [sheet EXCEPT !.performer = a]
  BY <1>1 DEF Cue!Read
<1>5. ASSUME sheet.tracks # <<>>
      PROVE  /\ Cue!Read(sheet, Cue!Line("PERFORMER", a))
                   = Cue!InTrack(sheet, [Cue!Current(sheet) EXCEPT !.performer = a])
             /\ Cue!Read(sheet, Cue!Line("INDEX_00", a))
                   = Cue!InTrack(sheet, [Cue!Current(sheet) EXCEPT !.preGap = a])
             /\ Cue!Read(sheet, Cue!Line("INDEX_01", a))
                   = Cue!InTrack(sheet, [Cue!Current(sheet) EXCEPT !.start = a])
  BY <1>1, <1>5 DEF Cue!Read
<1> QED
  BY <1>2, <1>3, <1>4, <1>5

\* The lines of a track add it to the sheet.
LEMMA TrackReads ==
  ASSUME NEW performer, NEW disc, IsDisc(disc), NEW i \in 1..Len(disc),
         NEW lines \in Seq(Said(performer, disc)),
         Cue!ParseCueFile(lines) = SheetAfter(performer, disc, i - 1)
  PROVE  /\ Cue!TrackLines(disc, i) \in Seq(Said(performer, disc))
         /\ Cue!ParseCueFile(lines \o Cue!TrackLines(disc, i)) = SheetAfter(performer, disc, i)
<1> DEFINE S == Said(performer, disc)
           at == Cue!LengthOf(disc, i - 1)
           t  == disc[i]
           A  == <<Cue!Line("TRACK", i)>>
           B  == IF t.performer = Cue!NoText THEN <<>> ELSE <<Cue!Line("PERFORMER", t.performer)>>
           C  == IF t.gap = 0 THEN <<>> ELSE <<Cue!Line("INDEX_00", at)>>
           D  == <<Cue!Line("INDEX_01", at + t.gap)>>
<1>0. lines \in Seq(S)
  OBVIOUS
<1>1. at \in Nat /\ t.gap \in Nat /\ i \in Nat \ {0}
  <2>1. i - 1 \in 0..Len(disc)
    BY DEF IsDisc
  <2> QED
    BY <2>1, LengthIs DEF IsDisc
<1>2. Cue!TrackLines(disc, i) = A \o B \o C \o D
  BY DEF Cue!TrackLines
<1>4. /\ Cue!Line("TRACK", i) \in S /\ Cue!Line("PERFORMER", t.performer) \in S
      /\ Cue!Line("INDEX_00", at) \in S /\ Cue!Line("INDEX_01", at + t.gap) \in S
  BY <1>1 DEF Cue!Line, Said
<1>5. A \in Seq(S) /\ B \in Seq(S) /\ C \in Seq(S) /\ D \in Seq(S)
  <2>1. \A l \in S : <<l>> \in Seq(S)
    OBVIOUS
  <2>2. <<>> \in Seq(S)
    OBVIOUS
  <2> HIDE DEF S
  <2> QED
    BY <2>1, <2>2, <1>4
<1>6. lines \o (A \o B \o C \o D) = ((lines \o A) \o B) \o C \o D
  <2> HIDE DEF A, B, C, D, S
  <2>1. Cat(lines, Cat(Cat(Cat(A, B), C), D)) = Cat(Cat(Cat(Cat(lines, A), B), C), D)
    BY <1>0, <1>5, CatAll
  <2> QED
    BY <2>1 DEF Cat
<1> DEFINE row(p, s, g) == [number |-> i, performer |-> p, start |-> s, preGap |-> g]
           With(last) == SheetWith(performer, disc, i, last)
<1>7. lines \o A \in Seq(S) /\ Cue!ParseCueFile(lines \o A) = With(row(Cue!NoText, 0, -1))
  <2>1. /\ lines \o A \in Seq(S)
        /\ Cue!ParseCueFile(lines \o A) = Cue!Read(Cue!ParseCueFile(lines), Cue!Line("TRACK", i))
    <3> HIDE DEF S
    <3> QED
      BY <1>0, <1>4, ParseOneMore
  <2> DEFINE previous == SheetAfter(performer, disc, i - 1)
             old == TracksOf(disc, i - 1)
  <2>3. previous = [file |-> "disc.flac", performer |-> performer, tracks |-> old]
    BY DEF SheetAfter, Cue!Sheet
  <2>4. Cue!Read(previous, Cue!Line("TRACK", i))
          = [file |-> "disc.flac", performer |-> performer, tracks |-> Append(old, Cue!NewTrack(i))]
    <3> HIDE DEF previous, old
    <3>1. Cue!Read(previous, Cue!Line("TRACK", i))
            = [previous EXCEPT !.tracks = Append(@, Cue!NewTrack(i))]
      BY ReadIs
    <3> QED
      BY <2>3, <3>1
  <2>5. Append(old, Cue!NewTrack(i)) = TracksWith(disc, i, Cue!NewTrack(i))
    BY <1>1 DEF TracksOf, TracksWith
  <2>6. Cue!NewTrack(i) = row(Cue!NoText, 0, -1)
    BY DEF Cue!NewTrack
  <2> HIDE DEF previous, old, row
  <2> QED
    BY <2>1, <2>4, <2>5, <2>6 DEF SheetWith, Cue!Sheet, previous
<1> DEFINE more == lines \o A
<1>8. more \o B \in Seq(S) /\ Cue!ParseCueFile(more \o B) = With(row(t.performer, 0, -1))
  <2>1. CASE t.performer = Cue!NoText
    <3>1. more \o B = more
      <4>1. B = <<>>
        BY <2>1
      <4> HIDE DEF B, more, S
      <4> QED
        BY <1>7, <4>1, ConcatEmptySeq DEF more
    <3> QED
      BY <2>1, <3>1, <1>7
  <2>2. CASE t.performer # Cue!NoText
    <3> DEFINE l == Cue!Line("PERFORMER", t.performer)
    <3>1. B = <<l>>
      BY <2>2
    <3>2. Cue!ParseCueFile(more \o <<l>>) = Cue!Read(Cue!ParseCueFile(more), l)
          /\ more \o <<l>> \in Seq(S)
      <4> HIDE DEF S, more, row
      <4> QED
        BY <1>4, <1>7, ParseOneMore DEF more
    <3>3. Cue!Read(With(row(Cue!NoText, 0, -1)), l) = With(row(t.performer, 0, -1))
      <4> DEFINE sheet == With(row(Cue!NoText, 0, -1))
      <4>1. Cue!Current(sheet) = row(Cue!NoText, 0, -1) /\ sheet.tracks # <<>>
            /\ Cue!InTrack(sheet, row(t.performer, 0, -1)) = With(row(t.performer, 0, -1))
        BY <1>1, InTrackIs
      <4>2. [row(Cue!NoText, 0, -1) EXCEPT !.performer = t.performer] = row(t.performer, 0, -1)
        OBVIOUS
      <4> HIDE DEF row, sheet
      <4>3. Cue!Read(sheet, l)
              = Cue!InTrack(sheet, [Cue!Current(sheet) EXCEPT !.performer = t.performer])
        BY <4>1, ReadIs, ZenonT(30)
      <4> QED
        BY <4>1, <4>2, <4>3 DEF sheet
    <3> HIDE DEF B, row, S
    <3> QED
      BY <3>1, <3>2, <3>3, <1>7
  <2> QED
    BY <2>1, <2>2
<1> HIDE DEF more
<1> DEFINE again == more \o B
           gap == IF t.gap = 0 THEN -1 ELSE at
<1>9. again \o C \in Seq(S) /\ Cue!ParseCueFile(again \o C) = With(row(t.performer, 0, gap))
  <2>1. CASE t.gap = 0
    <3>1. again \o C = again
      <4>1. C = <<>>
        BY <2>1
      <4> HIDE DEF C, again, S
      <4> QED
        BY <1>8, <4>1, ConcatEmptySeq DEF again
    <3> QED
      BY <2>1, <3>1, <1>8
  <2>2. CASE t.gap # 0
    <3> DEFINE l == Cue!Line("INDEX_00", at)
    <3>1. C = <<l>> /\ gap = at
      BY <2>2
    <3>2. Cue!ParseCueFile(again \o <<l>>) = Cue!Read(Cue!ParseCueFile(again), l)
          /\ again \o <<l>> \in Seq(S)
      <4> HIDE DEF S, again, row, at
      <4> QED
        BY <1>4, <1>8, ParseOneMore DEF again
    <3>3. Cue!Read(With(row(t.performer, 0, -1)), l) = With(row(t.performer, 0, at))
      <4> DEFINE sheet == With(row(t.performer, 0, -1))
      <4>1. Cue!Current(sheet) = row(t.performer, 0, -1) /\ sheet.tracks # <<>>
            /\ Cue!InTrack(sheet, row(t.performer, 0, at)) = With(row(t.performer, 0, at))
        BY <1>1, InTrackIs
      <4>2. [row(t.performer, 0, -1) EXCEPT !.preGap = at] = row(t.performer, 0, at)
        OBVIOUS
      <4> HIDE DEF row, sheet, at
      <4>3. Cue!Read(sheet, l) = Cue!InTrack(sheet, [Cue!Current(sheet) EXCEPT !.preGap = at])
        BY <4>1, ReadIs, ZenonT(30)
      <4> QED
        BY <4>1, <4>2, <4>3 DEF sheet
    <3> HIDE DEF C, row, S, gap, at
    <3> QED
      BY <3>1, <3>2, <3>3, <1>8
  <2> QED
    BY <2>1, <2>2
<1> HIDE DEF again
<1> DEFINE last == again \o C
           l == Cue!Line("INDEX_01", at + t.gap)
<1>10. Cue!ParseCueFile(last \o D) = With(row(t.performer, at + t.gap, gap))
  <2>2. Cue!ParseCueFile(last \o D) = Cue!Read(Cue!ParseCueFile(last), l)
    <3> HIDE DEF S, last
    <3> QED
      BY <1>4, <1>9, ParseOneMore DEF last
  <2> DEFINE sheet == With(row(t.performer, 0, gap))
             start == at + t.gap
  <2>3. Cue!Current(sheet) = row(t.performer, 0, gap) /\ sheet.tracks # <<>>
        /\ Cue!InTrack(sheet, row(t.performer, start, gap)) = With(row(t.performer, start, gap))
    BY <1>1, InTrackIs
  <2>4. [row(t.performer, 0, gap) EXCEPT !.start = start] = row(t.performer, start, gap)
    OBVIOUS
  <2> HIDE DEF row, sheet, start
  <2>5. Cue!Read(sheet, l) = Cue!InTrack(sheet, [Cue!Current(sheet) EXCEPT !.start = start])
    BY <2>3, ReadIs DEF start
  <2> HIDE DEF last, l, D, gap
  <2> QED
    BY <2>2, <2>3, <2>4, <2>5, <1>9 DEF sheet, last, start
<1>11. With(row(t.performer, at + t.gap, gap)) = SheetAfter(performer, disc, i)
  <2>1. row(t.performer, at + t.gap, gap) = TrackOf(disc, i)
    BY DEF TrackOf
  <2>2. TracksWith(disc, i, TrackOf(disc, i)) = TracksOf(disc, i)
    BY <1>1 DEF TracksWith, TracksOf
  <2> HIDE DEF row, gap
  <2> QED
    BY <2>1, <2>2 DEF SheetWith, SheetAfter
<1>12. Cue!TrackLines(disc, i) \in Seq(S)
  <2> HIDE DEF A, B, C, D, S
  <2> QED
    BY <1>2, <1>5, ConcatProperties
<1> HIDE DEF A, B, C, D, S, row, gap, at, With
<1> QED
  BY <1>2, <1>6, <1>10, <1>11, <1>12 DEF last, again, more, S

\* The sheet of a disc is read as the tracks of the disc.
LEMMA SheetReads ==
  ASSUME NEW performer, NEW disc, IsDisc(disc)
  PROVE  Cue!ParseCueFile(Cue!SheetOf(performer, disc)) = SheetAfter(performer, disc, Len(disc))
<1> DEFINE S == Said(performer, disc)
           own == IF performer = Cue!NoText THEN <<>> ELSE <<Cue!Line("PERFORMER", performer)>>
           named == <<Cue!Line("FILE", "disc.flac")>>
           parts == [i \in DOMAIN disc |-> Cue!TrackLines(disc, i)]
           n == Len(disc)
           none == Cue!Sheet(Cue!NoText, Cue!NoText, <<>>)
<1>1. Cue!SheetOf(performer, disc) = own \o named \o FlattenSeq(parts)
  BY SameFlatten DEF Cue!SheetOf
<1>2. Cue!Line("PERFORMER", performer) \in S /\ Cue!Line("FILE", "disc.flac") \in S
  BY DEF Cue!Line, Said
<1>3. /\ <<>> \in Seq(S) /\ Len(<<>>) = 0 /\ \A l \in S : <<l>> \in Seq(S) /\ <<>> \o <<l>> = <<l>>
      /\ \A s \in Seq(S) : s \o <<>> = s
  OBVIOUS
<1>4. Cue!ParseCueFile(<<>>) = none
  BY <1>3, ParseIs
<1>5. own \in Seq(S) /\ Cue!ParseCueFile(own) = Cue!Sheet(Cue!NoText, performer, <<>>)
  <2>1. CASE performer = Cue!NoText
    <3>1. own = <<>>
      BY <2>1
    <3> HIDE DEF own, S
    <3> QED
      BY <2>1, <3>1, <1>3, <1>4
  <2>2. CASE performer # Cue!NoText
    <3> DEFINE l == Cue!Line("PERFORMER", performer)
    <3>1. own = <<l>>
      BY <2>2
    <3>2. none.tracks = <<>>
          /\ [none EXCEPT !.performer = performer] = Cue!Sheet(Cue!NoText, performer, <<>>)
      BY DEF Cue!Sheet
    <3> HIDE DEF own, S, none
    <3>3. Cue!ParseCueFile(<<>> \o <<l>>) = Cue!Read(Cue!ParseCueFile(<<>>), l)
      BY <1>2, <1>3, ParseOneMore
    <3> QED
      BY <3>1, <3>2, <3>3, <1>2, <1>3, <1>4, ReadIs
  <2> QED
    BY <2>1, <2>2
<1>6. own \o named \in Seq(S) /\ Cue!ParseCueFile(own \o named) = SheetAfter(performer, disc, 0)
  <2>1. TracksOf(disc, 0) = <<>>
    BY DEF TracksOf
  <2> DEFINE l == Cue!Line("FILE", "disc.flac")
             sheet == Cue!Sheet(Cue!NoText, performer, <<>>)
  <2>2. [sheet EXCEPT !.file = "disc.flac"] = Cue!Sheet("disc.flac", performer, <<>>)
    BY DEF Cue!Sheet
  <2> HIDE DEF own, S, sheet
  <2>3. Cue!ParseCueFile(own \o <<l>>) = Cue!Read(Cue!ParseCueFile(own), l)
        /\ own \o <<l>> \in Seq(S)
    BY <1>2, <1>5, ParseOneMore
  <2>4. Cue!Read(sheet, l) = Cue!Sheet("disc.flac", performer, <<>>)
    BY <2>2, ReadIs
  <2> QED
    BY <2>1, <2>3, <2>4, <1>5 DEF SheetAfter, sheet
<1>7. ASSUME NEW i \in 1..n PROVE Cue!TrackLines(disc, i) \in Seq(S)
  <2> SUFFICES Cue!TrackLines(disc, i) \in Seq(Said(performer, disc))
    OBVIOUS
  <2> QED
    BY TrackTyped
<1>8. parts \in Seq(Seq(S)) /\ Len(parts) = n /\ \A i \in 1..n : parts[i] = Cue!TrackLines(disc, i)
  <2>1. n \in Nat /\ DOMAIN disc = 1..n
    BY DEF IsDisc
  <2> HIDE DEF n, S
  <2> QED
    BY <2>1, <1>7
<1> DEFINE H == own \o named
<1>8a. Cue!SheetOf(performer, disc) = Cat(H, FlattenSeq(parts))
  BY <1>1 DEF Cat
<1>8b. H \in Seq(S) /\ Cue!ParseCueFile(H) = SheetAfter(performer, disc, 0)
  BY <1>6
<1> HIDE DEF own, named, parts, H, S
<1>9. PICK f \in [0..n -> Seq(S)] : /\ f[0] = <<>> /\ FlattenSeq(parts) = f[n]
                                   /\ \A i \in 1..n : f[i] = Cat(f[i - 1], parts[i])
  <2>1. \E f \in [0..Len(parts) -> Seq(S)] :
            /\ f[0] = <<>> /\ FlattenSeq(parts) = f[Len(parts)]
            /\ \A i \in 1..Len(parts) : f[i] = Cat(f[i - 1], parts[i])
    BY <1>8, FlattenIs
  <2> QED
    BY <2>1, <1>8
<1> DEFINE T == {i \in 0..n : Cue!ParseCueFile(Cat(H, f[i])) = SheetAfter(performer, disc, i)}
<1>9a. n \in Nat
  BY DEF IsDisc
<1>10. 0 \in T
  BY <1>8b, <1>9, <1>9a, CatIs
<1>11. ASSUME NEW i \in 0..n, i \in T, i < n
       PROVE  i + 1 \in T
  <2> DEFINE lines == Cat(H, f[i])
             t == Cue!TrackLines(disc, i + 1)
  <2>1. i + 1 \in 1..n /\ i + 1 - 1 = i /\ f[i] \in Seq(S)
    BY <1>9a, <1>11
  <2>2. f[i + 1] = Cat(f[i], t) /\ t \in Seq(S)
    <3>1. parts[i + 1] = t /\ t \in Seq(S)
      BY <2>1, <1>7, <1>8
    <3> HIDE DEF t
    <3>2. f[i + 1] = Cat(f[(i + 1) - 1], parts[i + 1])
      BY <2>1, <1>9
    <3> QED
      BY <2>1, <3>1, <3>2
  <2> HIDE DEF t
  <2>3. lines \in Seq(S) /\ Cat(H, f[i + 1]) = Cat(lines, t)
    BY <2>1, <2>2, <1>8b, CatIs
  <2>4. Cue!ParseCueFile(lines) = SheetAfter(performer, disc, (i + 1) - 1)
    BY <2>1, <1>11
  <2> HIDE DEF lines
  <2>5. Cue!ParseCueFile(Cat(lines, t)) = SheetAfter(performer, disc, i + 1)
    BY <2>1, <2>3, <2>4, TrackReads DEF S, Cat, t
  <2> QED
    BY <2>1, <2>3, <2>5
<1>12. 0..n \subseteq T
  <2> HIDE DEF T, n
  <2> QED
    BY <1>9a, <1>10, <1>11, UpTo
<1> QED
  BY <1>8a, <1>9, <1>9a, <1>12

\* A disc is split into its tracks.
LEMMA DiscSplit ==
  ASSUME NEW performer, NEW disc, IsDisc(disc)
  PROVE  Cue!SplitsDisc(performer, disc, Cue!LengthOf(disc, Len(disc)))
<1> DEFINE n == Len(disc)
           length == Cue!LengthOf(disc, n)
           sheet == Cue!ParseCueFile(Cue!SheetOf(performer, disc))
           tracks == TracksOf(disc, n)
           parts == Cue!Split(sheet)
           shown == Cue!LibraryTracks(sheet, length)
           mine(i) == IF disc[i].performer # Cue!NoText THEN disc[i].performer ELSE performer
           end(i) == IF parts[i].end = -1 THEN length ELSE parts[i].end
<1>1. n \in Nat /\ DOMAIN disc = 1..n
      /\ \A i \in 1..n : disc[i].gap \in Nat /\ disc[i].length \in Nat
  BY DEF IsDisc
<1>2. sheet.file = "disc.flac" /\ sheet.performer = performer /\ sheet.tracks = tracks
  BY SheetReads DEF SheetAfter, Cue!Sheet
<1>3. /\ DOMAIN tracks = 1..n /\ Len(tracks) = n
      /\ \A i \in 1..n : tracks[i] = TrackOf(disc, i)
  BY <1>1 DEF TracksOf
<1>4. /\ Cue!LengthOf(disc, 0) = 0
      /\ \A i \in 0..n : Cue!LengthOf(disc, i) \in Nat
      /\ \A i \in 1..n :
           Cue!LengthOf(disc, i) = Cue!LengthOf(disc, i - 1) + disc[i].gap + disc[i].length
  BY <1>1, LengthIs
<1> HIDE DEF tracks, length, sheet
<1>5. ASSUME NEW i \in 1..n
      PROVE  /\ tracks[i].number = i /\ tracks[i].performer = disc[i].performer
             /\ tracks[i].start = Cue!LengthOf(disc, i - 1) + disc[i].gap
             /\ tracks[i].preGap = IF disc[i].gap = 0 THEN -1 ELSE Cue!LengthOf(disc, i - 1)
  BY <1>3 DEF TrackOf
<1>6. ASSUME NEW i \in 1..n, i < n
      PROVE  Cue!NextStart(sheet, i) = Cue!LengthOf(disc, i)
  <2>1. i + 1 \in 1..n /\ i + 1 - 1 = i /\ i \in 0..n
    BY <1>1, <1>6
  <2>2. Cue!LengthOf(disc, i) \in Nat
    BY <2>1, <1>4
  <2>3. /\ tracks[i + 1].start = Cue!LengthOf(disc, i) + disc[i + 1].gap
        /\ tracks[i + 1].preGap = IF disc[i + 1].gap = 0 THEN -1 ELSE Cue!LengthOf(disc, i)
    BY <2>1, <1>5
  <2>4. Cue!NextStart(sheet, i) = IF tracks[i + 1].preGap >= 0 THEN tracks[i + 1].preGap
                              ELSE tracks[i + 1].start
    BY <1>2 DEF Cue!NextStart
  <2>5. disc[i + 1].gap \in Nat
    BY <2>1, <1>1
  <2> QED
    BY <2>2, <2>3, <2>4, <2>5
<1>7. ASSUME NEW i \in 1..n
      PROVE  Cue!Performer(sheet, i) = mine(i)
  BY <1>2, <1>5 DEF Cue!Performer
<1>8. ASSUME NEW i \in 1..n
      PROVE  /\ parts[i].number = i /\ parts[i].artist = mine(i)
             /\ parts[i].start = Cue!LengthOf(disc, i - 1) + disc[i].gap
             /\ end(i) = Cue!LengthOf(disc, i)
  <2>1. i \in 0..n /\ Cue!LengthOf(disc, i) \in Nat
    BY <1>1, <1>4
  <2>2. parts[i] = [number |-> tracks[i].number, artist |-> Cue!Performer(sheet, i),
                    start |-> tracks[i].start,
                    end |-> IF i < n THEN Cue!NextStart(sheet, i) ELSE -1]
    BY <1>2, <1>3 DEF Cue!Split
  <2>3. parts[i].end = IF i < n THEN Cue!LengthOf(disc, i) ELSE -1
    BY <2>2, <1>6
  <2>4. end(i) = Cue!LengthOf(disc, i)
    <3>1. CASE i < n
      BY <3>1, <2>1, <2>3
    <3>2. CASE ~(i < n)
      <4>1. i = n
        BY <1>1, <3>2
      <4> QED
        BY <4>1, <2>3, <3>2 DEF length
    <3> QED
      BY <3>1, <3>2
  <2> HIDE DEF parts, mine
  <2> QED
    BY <2>2, <2>4, <1>5, <1>7
<1>9. DOMAIN parts = 1..n
  BY <1>2, <1>3 DEF Cue!Split
<1>10. ASSUME NEW i \in 1..n
       PROVE  shown[i].duration = disc[i].length
  <2>1. i \in 0..n /\ i - 1 \in 0..n
    BY <1>1
  <2>2. /\ Cue!LengthOf(disc, i) \in Nat /\ Cue!LengthOf(disc, i - 1) \in Nat
        /\ Cue!LengthOf(disc, i) = Cue!LengthOf(disc, i - 1) + disc[i].gap + disc[i].length
        /\ disc[i].gap \in Nat /\ disc[i].length \in Nat
        /\ tracks[i].start = Cue!LengthOf(disc, i - 1) + disc[i].gap
    BY <1>1, <1>4, <1>5, <2>1
  <2>3. shown[i].duration = IF i < n THEN Cue!NextStart(sheet, i) - tracks[i].start
                            ELSE IF length > 0 THEN length - tracks[i].start ELSE 0
    BY <1>2, <1>3 DEF Cue!LibraryTracks
  <2>4. CASE i < n
    BY <2>2, <2>3, <2>4, <1>6
  <2>5. CASE ~(i < n)
    <3>1. length = Cue!LengthOf(disc, i)
      BY <1>1, <2>5 DEF length
    <3> QED
      BY <2>2, <2>3, <2>5, <3>1
  <2> QED
    BY <2>4, <2>5
<1> HIDE DEF parts, shown, mine, end
<1>11. ASSUME NEW i \in 1..n
       PROVE  /\ end(i) - parts[i].start = disc[i].length
              /\ i > 1 => parts[i].start = end(i - 1) + disc[i].gap
  <2>1. i \in 0..n /\ i - 1 \in 0..n
    BY <1>1
  <2>2. /\ Cue!LengthOf(disc, i) \in Nat /\ Cue!LengthOf(disc, i - 1) \in Nat
        /\ Cue!LengthOf(disc, i) = Cue!LengthOf(disc, i - 1) + disc[i].gap + disc[i].length
        /\ disc[i].gap \in Nat /\ disc[i].length \in Nat
    BY <1>1, <1>4, <2>1
  <2>3. ASSUME i > 1 PROVE end(i - 1) = Cue!LengthOf(disc, i - 1)
    <3>1. i - 1 \in 1..n
      BY <1>1, <2>3
    <3> QED
      BY <3>1, <1>8
  <2> QED
    BY <2>2, <2>3, <1>8
<1> QED
  BY <1>1, <1>2, <1>8, <1>9, <1>10, <1>11
     DEF Cue!SplitsDisc, sheet, parts, shown, mine, end, length

-----------------------------------------------------------------------------
\* A disc of the inputs is a disc.
LEMMA DiscsAre == \A disc \in Discs : IsDisc(disc)
<1> SUFFICES ASSUME NEW disc \in Discs PROVE IsDisc(disc)
  OBVIOUS
<1> DEFINE Rows == [performer : {Cue!NoText, "guest"}, gap : {0, 2}, length : {3, 5}]
<1>1. PICK n \in 1..3 : disc \in [1..n -> Rows]
  BY DEF Discs
<1>2. Len(disc) = n /\ DOMAIN disc = 1..n /\ \A i \in 1..n : disc[i] \in Rows
  BY <1>1
<1>3. \A r \in Rows : r.gap \in Nat /\ r.length \in Nat
  OBVIOUS
<1> HIDE DEF Rows
<1> QED
  BY <1>2, <1>3 DEF IsDisc

\* LibraryKept: after any change of a folder a rescan leaves the library with every
\* row that a full scan gives, with none of a file that is gone, and with no other
\* row than the audio of a .cue file, which an unchanged .cue file does not keep from
\* becoming a row of its own, and former tracks of a .cue file
\* (scanLibraryFolderIncrementalWithExistingFiles); a disc that is one file is split
\* into its tracks, of which none has sound of another and no sound is lost but the
\* pre-gaps (BuildCueSplitInfo).
THEOREM LibraryKeptHolds == MCSpec => []LibraryKept
<1>1. ASSUME MCInit, input[1] = "folder"
      PROVE  Library!RescanKeepsUp(input[2], input[3])
  <2>1. PICK first \in Folders({1}), second \in Folders({1, 2}) :
          input = <<"folder", first, second>>
    BY <1>1, InputsAre
  <2>2. \A p \in DOMAIN second : second[p].time # 0
    BY FolderTimes
  <2> QED
    BY <2>1, <2>2, RescanKeeps
<1>2. ASSUME MCInit, input[1] = "disc"
      PROVE  Cue!SplitsDisc(input[2], input[3], Cue!LengthOf(input[3], Len(input[3])))
  <2>1. PICK performer \in {Cue!NoText, "band"}, disc \in Discs :
          input = <<"disc", performer, disc>>
    BY <1>2, InputsAre
  <2>2. Cue!SplitsDisc(performer, disc, Cue!LengthOf(disc, Len(disc)))
    BY DiscsAre, DiscSplit
  <2> QED
    BY <2>1, <2>2
<1>3. MCInit => LibraryKept
  BY <1>1, <1>2 DEF LibraryKept
<1>4. LibraryKept /\ [MCNext]_<<edit, indexing>> => LibraryKept'
  BY InputStays DEF LibraryKept
<1> QED
  BY <1>3, <1>4, PTL DEF MCSpec

-----------------------------------------------------------------------------
(* Sequences made of parts. *)

\* A set of sequences that has the empty one, and with each of them those that
\* are longer by one element, has all.
LEMMA AllSeq ==
  ASSUME NEW S, NEW T, <<>> \in T,
         \A s \in Seq(S) : \A x \in S : s \in T => Append(s, x) \in T
  PROVE  Seq(S) \subseteq T
<1> SUFFICES ASSUME NEW s \in Seq(S) PROVE s \in T
  OBVIOUS
<1> DEFINE n == Len(s)
           first(i) == SubSeq(s, 1, i)
           U == {i \in 0..n : first(i) \in T}
<1>0. n \in Nat
  OBVIOUS
<1>1. 0 \in U
  <2>1. first(0) = <<>>
    OBVIOUS
  <2> HIDE DEF first
  <2>2. first(0) \in T
    BY <2>1
  <2> QED
    BY <2>2, <1>0
<1>2. ASSUME NEW i \in 0..n, i \in U, i < n
      PROVE  i + 1 \in U
  <2>1. first(i) \in Seq(S) /\ s[i + 1] \in S /\ first(i + 1) = Append(first(i), s[i + 1])
    BY <1>2
  <2>2. first(i) \in T
    BY <1>2
  <2> HIDE DEF first
  <2>3. Append(first(i), s[i + 1]) \in T
    BY <2>1, <2>2, Zenon
  <2>4. i + 1 \in 0..n
    BY <1>0, <1>2
  <2> QED
    BY <2>1, <2>3, <2>4, Zenon
<1>3. 0..n \subseteq U
  <2> HIDE DEF U, n
  <2> QED
    BY <1>0, <1>1, <1>2, UpTo
<1>4. first(n) = s
  OBVIOUS
<1> HIDE DEF first
<1> QED
  BY <1>0, <1>3, <1>4

\* One part more.
LEMMA FlattenMore ==
  ASSUME NEW S, NEW seqs \in Seq(Seq(S)), NEW s \in Seq(S)
  PROVE  /\ FlattenSeq(Append(seqs, s)) = Cat(FlattenSeq(seqs), s)
         /\ FlattenSeq(seqs) \in Seq(S)
<1> DEFINE more == Append(seqs, s)
           n == Len(seqs)
<1>1. more \in Seq(Seq(S)) /\ Len(more) = n + 1 /\ n \in Nat /\ more[n + 1] = s
      /\ \A i \in 1..n : more[i] = seqs[i]
  OBVIOUS
<1> HIDE DEF more
<1>2. PICK f \in [0..n -> Seq(S)] :
        /\ f[0] = <<>> /\ FlattenSeq(seqs) = f[n]
        /\ \A i \in 1..n : f[i] = Cat(f[i - 1], seqs[i])
  BY FlattenIs
<1>3. PICK g \in [0..n + 1 -> Seq(S)] :
        /\ g[0] = <<>> /\ FlattenSeq(more) = g[n + 1]
        /\ \A i \in 1..n + 1 : g[i] = Cat(g[i - 1], more[i])
  <2>1. \E g \in [0..Len(more) -> Seq(S)] :
          /\ g[0] = <<>> /\ FlattenSeq(more) = g[Len(more)]
          /\ \A i \in 1..Len(more) : g[i] = Cat(g[i - 1], more[i])
    BY <1>1, FlattenIs
  <2> QED
    BY <1>1, <2>1
<1> DEFINE T == {i \in 0..n : f[i] = g[i]}
<1> HIDE DEF n
<1>4. 0 \in T
  BY <1>1, <1>2, <1>3
<1>5. ASSUME NEW i \in 0..n, i \in T, i < n
      PROVE  i + 1 \in T
  <2>1. i + 1 \in 1..n /\ i + 1 \in 1..n + 1 /\ i + 1 - 1 = i
    BY <1>1, <1>5
  <2>2. f[i + 1] = Cat(f[i], seqs[i + 1]) /\ g[i + 1] = Cat(g[i], more[i + 1])
    BY <2>1, <1>2, <1>3
  <2>3. more[i + 1] = seqs[i + 1] /\ f[i] = g[i]
    BY <2>1, <1>1, <1>5
  <2> QED
    BY <2>1, <2>2, <2>3
<1>6. 0..n \subseteq T
  <2> HIDE DEF T
  <2> QED
    BY <1>1, <1>4, <1>5, UpTo
<1>7. g[n + 1] = Cat(g[n], s) /\ f[n] = g[n] /\ f[n] \in Seq(S)
  <2>1. n + 1 \in 1..n + 1 /\ n + 1 - 1 = n /\ n \in 0..n
    BY <1>1
  <2>2. g[n + 1] = Cat(g[(n + 1) - 1], more[n + 1])
    BY <2>1, <1>3
  <2> QED
    BY <2>1, <2>2, <1>1, <1>2, <1>6
<1> QED
  BY <1>2, <1>3, <1>7 DEF more

\* No parts.
LEMMA FlattenNone == FlattenSeq(<<>>) = <<>>
<1>1. Len(<<>>) = 0
  OBVIOUS
<1> QED
  BY <1>1 DEF FlattenSeq

\* What two sequences give when they are one after another.
LEMMA FlattenCat ==
  ASSUME NEW S, NEW a \in Seq(Seq(S)), NEW b \in Seq(Seq(S))
  PROVE  FlattenSeq(Cat(a, b)) = Cat(FlattenSeq(a), FlattenSeq(b))
<1> DEFINE T == {c \in Seq(Seq(S)) : FlattenSeq(Cat(a, c)) = Cat(FlattenSeq(a), FlattenSeq(c))}
<1>1. <<>> \in T
  <2>1. Cat(a, <<>>) = a /\ <<>> \in Seq(Seq(S))
    BY CatIs
  <2>2. FlattenSeq(a) \in Seq(S)
    BY CatIs, FlattenMore
  <2> QED
    BY <2>1, <2>2, FlattenNone, CatIs
<1>2. ASSUME NEW c \in Seq(Seq(S)), NEW x \in Seq(S), c \in T
      PROVE  Append(c, x) \in T
  <2>1. Cat(a, Append(c, x)) = Append(Cat(a, c), x) /\ Append(c, x) \in Seq(Seq(S))
    BY SMTT(30) DEF Cat
  <2>2. Cat(a, c) \in Seq(Seq(S))
    BY CatIs
  <2>3. FlattenSeq(Append(Cat(a, c), x)) = Cat(FlattenSeq(Cat(a, c)), x)
    BY <2>2, FlattenMore
  <2>4. FlattenSeq(Append(c, x)) = Cat(FlattenSeq(c), x)
    BY FlattenMore
  <2>5. FlattenSeq(a) \in Seq(S) /\ FlattenSeq(c) \in Seq(S)
    BY FlattenMore
  <2>6. FlattenSeq(Cat(a, c)) = Cat(FlattenSeq(a), FlattenSeq(c))
    BY <1>2
  <2>7. Cat(Cat(FlattenSeq(a), FlattenSeq(c)), x) = Cat(FlattenSeq(a), Cat(FlattenSeq(c), x))
    BY <2>5, CatIs
  <2> QED
    BY <2>1, <2>3, <2>4, <2>6, <2>7
<1>3. Seq(Seq(S)) \subseteq T
  <2> HIDE DEF T
  <2> QED
    BY <1>1, <1>2, AllSeq
<1> QED
  BY <1>3

\* The operators of Ogg are those that are meant here.
LEMMA SameOgg ==
  /\ \A s : Ogg!FlattenSeq(s) = FlattenSeq(s)
  /\ \A S : Ogg!SetToSeq(S) = SetToSeq(S)
<1>1. \A s : Ogg!FlattenSeq(s) = FlattenSeq(s)
  BY Zenon DEF Ogg!FlattenSeq, FlattenSeq
<1>2. \A f : Ogg!IsInjective(f) = IsInjective(f)
  BY Zenon DEF Ogg!IsInjective, IsInjective
<1>3. \A S : Ogg!Cardinality(S) = Cardinality(S)
  BY Zenon DEF Ogg!Cardinality, Cardinality
<1>4. \A S : Ogg!SetToSeq(S) = SetToSeq(S)
  BY Zenon, <1>2, <1>3 DEF Ogg!SetToSeq, SetToSeq
<1> QED
  BY <1>1, <1>4

-----------------------------------------------------------------------------
(* What is picked of a sequence. *)

\* What a function gives for each element.
MapSeq(cs, of) == [i \in DOMAIN cs |-> of[cs[i]]]
Picked(cs, of) == FlattenSeq(MapSeq(cs, of))

\* The functions of a set.
Maps(S, R) == [S -> R]

\* A function of the elements of a sequence, and of one element more.
LEMMA MapIs ==
  ASSUME NEW S, NEW R, NEW of \in Maps(S, R)
  PROVE  /\ MapSeq(<<>>, of) = <<>>
         /\ \A cs \in Seq(S) : MapSeq(cs, of) \in Seq(R)
         /\ \A cs \in Seq(S) : \A c \in S :
                   MapSeq(Append(cs, c), of) = Append(MapSeq(cs, of), of[c])
<1>0. of \in [S -> R]
  BY DEF Maps
<1>1. MapSeq(<<>>, of) = <<>>
  BY DEF MapSeq
<1>2. \A cs \in Seq(S) : MapSeq(cs, of) \in Seq(R)
  BY <1>0 DEF MapSeq
<1>3. ASSUME NEW cs \in Seq(S), NEW c \in S
      PROVE  MapSeq(Append(cs, c), of) = Append(MapSeq(cs, of), of[c])
  <2> DEFINE more == Append(cs, c)
             m == MapSeq(cs, of)
             n == Len(cs)
  <2>1. /\ n \in Nat /\ DOMAIN cs = 1..n /\ DOMAIN more = 1..n + 1 /\ more[n + 1] = c
        /\ \A i \in 1..n : more[i] = cs[i]
    OBVIOUS
  <2>2. /\ m \in Seq(R) /\ Len(m) = n /\ of[c] \in R
        /\ \A i \in 1..n : m[i] = of[cs[i]]
    BY <1>0 DEF MapSeq
  <2>3. MapSeq(more, of) = [i \in 1..n + 1 |-> of[more[i]]]
    BY <2>1 DEF MapSeq
  <2> HIDE DEF m, more, n
  <2>4. /\ Append(m, of[c]) = [i \in 1..n + 1 |-> IF i = n + 1 THEN of[c] ELSE m[i]]
    BY <2>1, <2>2
  <2>5. \A i \in 1..n + 1 : of[more[i]] = IF i = n + 1 THEN of[c] ELSE m[i]
    BY <2>1, <2>2
  <2> QED
    BY <2>3, <2>4, <2>5 DEF m, more
<1> QED
  BY <1>1, <1>2, <1>3

\* What picks of each element of S some elements of R.
Pickers(S, R) == Maps(S, Seq(R))

\* What is picked of no element, and of one more.
LEMMA PickedIs ==
  ASSUME NEW S, NEW R, NEW of \in Pickers(S, R)
  PROVE  /\ Picked(<<>>, of) = <<>>
         /\ \A cs \in Seq(S) : Picked(cs, of) \in Seq(R)
         /\ \A cs \in Seq(S) : \A c \in S : Picked(Append(cs, c), of) = Cat(Picked(cs, of), of[c])
<1>0. of \in Maps(S, Seq(R)) /\ \A c \in S : of[c] \in Seq(R)
  BY DEF Pickers, Maps
<1>1. Picked(<<>>, of) = <<>>
  <2>1. MapSeq(<<>>, of) = <<>>
    BY <1>0, MapIs
  <2> QED
    BY <2>1, FlattenNone DEF Picked
<1>2. ASSUME NEW cs \in Seq(S)
      PROVE  Picked(cs, of) \in Seq(R)
  <2>1. MapSeq(cs, of) \in Seq(Seq(R))
    BY <1>0, MapIs
  <2>2. <<>> \in Seq(R)
    BY CatIs
  <2>3. FlattenSeq(MapSeq(cs, of)) \in Seq(R)
    BY <2>1, <2>2, FlattenMore
  <2> QED
    BY <2>3 DEF Picked
<1>3. ASSUME NEW cs \in Seq(S), NEW c \in S
      PROVE  Picked(Append(cs, c), of) = Cat(Picked(cs, of), of[c])
  <2>1. MapSeq(cs, of) \in Seq(Seq(R))
    BY <1>0, MapIs
  <2>2. MapSeq(Append(cs, c), of) = Append(MapSeq(cs, of), of[c])
    BY <1>0, MapIs
  <2>3. of[c] \in Seq(R)
    BY <1>0
  <2>4. FlattenSeq(Append(MapSeq(cs, of), of[c])) = Cat(FlattenSeq(MapSeq(cs, of)), of[c])
    BY <2>1, <2>3, FlattenMore
  <2> QED
    BY <2>2, <2>4 DEF Picked
<1> QED
  BY <1>1, <1>2, <1>3

\* Of two sequences, one after the other, what is picked of each.
LEMMA PickedCat ==
  ASSUME NEW S, NEW R, NEW of \in Pickers(S, R), NEW a \in Seq(S), NEW b \in Seq(S)
  PROVE  Picked(Cat(a, b), of) = Cat(Picked(a, of), Picked(b, of))
<1>0. \A c \in S : of[c] \in Seq(R)
  BY DEF Pickers, Maps
<1> DEFINE T == {c \in Seq(S) : Picked(Cat(a, c), of) = Cat(Picked(a, of), Picked(c, of))}
<1>1. <<>> \in T
  <2>1. Cat(a, <<>>) = a /\ <<>> \in Seq(S)
    BY CatIs
  <2>2. Picked(a, of) \in Seq(R) /\ Picked(<<>>, of) = <<>>
    BY PickedIs
  <2>3. Cat(Picked(a, of), <<>>) = Picked(a, of)
    BY <2>2, CatIs
  <2> QED
    BY <2>1, <2>2, <2>3
<1>2. ASSUME NEW c \in Seq(S), NEW x \in S, c \in T
      PROVE  Append(c, x) \in T
  <2>1. Cat(a, Append(c, x)) = Append(Cat(a, c), x) /\ Append(c, x) \in Seq(S)
    BY DEF Cat
  <2>2. /\ Cat(a, c) \in Seq(S) /\ of[x] \in Seq(R)
        /\ Picked(a, of) \in Seq(R) /\ Picked(c, of) \in Seq(R)
    <3>1. Cat(a, c) \in Seq(S)
      BY CatIs
    <3>2. Picked(a, of) \in Seq(R) /\ Picked(c, of) \in Seq(R)
      BY PickedIs
    <3> QED
      BY <1>0, <3>1, <3>2
  <2>3. Picked(Append(Cat(a, c), x), of) = Cat(Picked(Cat(a, c), of), of[x])
        /\ Picked(Append(c, x), of) = Cat(Picked(c, of), of[x])
    <3> DEFINE d == Cat(a, c)
    <3>1. d \in Seq(S)
      BY <2>2
    <3> HIDE DEF d
    <3>2. Picked(Append(d, x), of) = Cat(Picked(d, of), of[x])
      BY <3>1, PickedIs
    <3>3. Picked(Append(c, x), of) = Cat(Picked(c, of), of[x])
      BY PickedIs
    <3> QED
      BY <3>2, <3>3 DEF d
  <2>4. Picked(Cat(a, c), of) = Cat(Picked(a, of), Picked(c, of))
    BY <1>2
  <2>5. Cat(Cat(Picked(a, of), Picked(c, of)), of[x])
          = Cat(Picked(a, of), Cat(Picked(c, of), of[x]))
    <3> DEFINE p == Picked(a, of)
               q == Picked(c, of)
               t == of[x]
    <3>1. p \in Seq(R) /\ q \in Seq(R) /\ t \in Seq(R)
      BY <2>2
    <3> HIDE DEF p, q, t
    <3>2. Cat(Cat(p, q), t) = Cat(p, Cat(q, t))
      BY <3>1, CatIs
    <3> QED
      BY <3>2 DEF p, q, t
  <2> QED
    BY <2>1, <2>3, <2>4, <2>5
<1>3. Seq(S) \subseteq T
  <2> HIDE DEF T
  <2> QED
    BY <1>1, <1>2, AllSeq
<1> QED
  BY <1>3

-----------------------------------------------------------------------------
(* Comments. *)

\* Any string; the provers are not told that the literals are strings, so they
\* are listed.
Word ==
    STRING \cup {"TITLE", "ALBUM", "DATE", "ISRC", "GENRE", "ORGANIZATION", "COPYRIGHT",
                  "COMPOSER", "COMMENT", "ITUNESADVISORY", "RELEASETYPE", "BARCODE",
                  "COMPILATION", "REPLAYGAIN_TRACK_GAIN", "REPLAYGAIN_TRACK_PEAK",
                  "REPLAYGAIN_ALBUM_GAIN", "REPLAYGAIN_ALBUM_PEAK", "YEAR", "LABEL",
                  "PUBLISHER", "UPC", "ARTIST", "ALBUMARTIST", "ALBUM-ARTIST",
                  "ALBUM_ARTIST", "LYRICS", "UNSYNCEDLYRICS", "SYNCEDLYRICS", "TRACKNUMBER",
                  "TRACK", "DISCNUMBER", "DISC", "0", "1", "2", "3", "compilation",
                  "new", "old", "older", "x", "a", "b", "c",
                  "d", "s", "t", "opus", "vorbis", "vendor", "setup", "frame", "audio",
                  "OTHER", "R128_TRACK_GAIN", "R128_ALBUM_GAIN", "METADATA_BLOCK_PICTURE"}

\* A text is a sequence of words, and a comment has a key and a text.
Words == Seq(Word)
Tagged == [key : Word, value : Words]

\* The value of a comment when it has a key; a comment when it has none of some.
ValueUnder(key) == [c \in Tagged |-> IF c.key = key THEN <<c.value>> ELSE <<>>]
Outside(keys) == [c \in Tagged |-> IF c.key \in keys THEN <<>> ELSE <<c>>]

\* What is picked of a comment for its value, and to leave keys out.
LEMMA UnderIs ==
  ASSUME NEW key
  PROVE  /\ ValueUnder(key) \in Pickers(Tagged, Words)
         /\ \A c \in Tagged : ValueUnder(key)[c] = IF c.key = key THEN <<c.value>> ELSE <<>>
<1>1. <<>> \in Seq(Words) /\ \A t \in Words : <<t>> \in Seq(Words)
  OBVIOUS
<1>2. \A c \in Tagged : c.value \in Words
  BY DEF Tagged
<1>3. \A c \in Tagged : (IF c.key = key THEN <<c.value>> ELSE <<>>) \in Seq(Words)
  BY <1>1, <1>2
<1> QED
  BY <1>3 DEF ValueUnder, Pickers, Maps

\* What is picked of a comment to leave keys out.
LEMMA OutsideIs ==
  ASSUME NEW keys
  PROVE  /\ Outside(keys) \in Pickers(Tagged, Tagged)
         /\ \A c \in Tagged : Outside(keys)[c] = IF c.key \in keys THEN <<>> ELSE <<c>>
<1>1. <<>> \in Seq(Tagged) /\ \A c \in Tagged : <<c>> \in Seq(Tagged)
  OBVIOUS
<1>2. \A c \in Tagged : (IF c.key \in keys THEN <<>> ELSE <<c>>) \in Seq(Tagged)
  BY <1>1
<1> QED
  BY <1>2 DEF Outside, Pickers, Maps

\* The values under a key, and the comments without some keys, are picked so.
LEMMA ValuesPicked ==
  ASSUME NEW cs \in Seq(Tagged), NEW key
  PROVE  Ogg!Values(cs, key) = Picked(cs, ValueUnder(key))
<1>1. \A i \in DOMAIN cs : cs[i] \in Tagged
  OBVIOUS
<1>2. MapSeq(cs, ValueUnder(key))
        = [i \in DOMAIN cs |-> IF cs[i].key = key THEN <<cs[i].value>> ELSE <<>>]
  BY <1>1 DEF MapSeq, ValueUnder
<1> QED
  BY <1>2, SameOgg DEF Ogg!Values, Picked

\* To leave keys out is to pick what is outside them.
LEMMA WithoutPicked ==
  ASSUME NEW cs \in Seq(Tagged), NEW keys
  PROVE  Ogg!Without(cs, keys) = Picked(cs, Outside(keys))
<1>1. \A i \in DOMAIN cs : cs[i] \in Tagged
  OBVIOUS
<1>2. MapSeq(cs, Outside(keys))
        = [i \in DOMAIN cs |-> IF cs[i].key \in keys THEN <<>> ELSE <<cs[i]>>]
  BY <1>1 DEF MapSeq, Outside
<1> QED
  BY <1>2, SameOgg DEF Ogg!Without, Picked

\* The values of no comment, and of one more.
LEMMA ValuesMore ==
  ASSUME NEW key, NEW cs \in Seq(Tagged)
  PROVE  /\ Ogg!Values(<<>>, key) = <<>> /\ Ogg!Values(cs, key) \in Seq(Words)
         /\ \A c \in Tagged :
              Ogg!Values(Append(cs, c), key) = IF c.key = key
                                               THEN Append(Ogg!Values(cs, key), c.value)
                                               ELSE Ogg!Values(cs, key)
<1> DEFINE under == ValueUnder(key)
<1>0. <<>> \in Seq(Tagged)
  BY CatIs
<1>1. under \in Pickers(Tagged, Words)
      /\ \A c \in Tagged : under[c] = IF c.key = key THEN <<c.value>> ELSE <<>>
  BY UnderIs
<1> HIDE DEF under
<1>2. Picked(<<>>, under) = <<>> /\ Picked(cs, under) \in Seq(Words)
  BY <1>1, PickedIs
<1>3. Ogg!Values(<<>>, key) = Picked(<<>>, under)
  BY <1>0, ValuesPicked DEF under
<1>4. Ogg!Values(cs, key) = Picked(cs, under)
  BY ValuesPicked DEF under
<1>5. ASSUME NEW c \in Tagged
      PROVE  Ogg!Values(Append(cs, c), key) = IF c.key = key
                                              THEN Append(Ogg!Values(cs, key), c.value)
                                              ELSE Ogg!Values(cs, key)
  <2> DEFINE more == Append(cs, c)
  <2>1. more \in Seq(Tagged)
    OBVIOUS
  <2>2. Picked(more, under) = Cat(Picked(cs, under), under[c])
    BY <1>1, PickedIs
  <2> HIDE DEF more
  <2>3. Ogg!Values(more, key) = Picked(more, under)
    BY <2>1, ValuesPicked DEF under
  <2>4. \A s \in Seq(Words) : \A t \in Words : Cat(s, <<t>>) = Append(s, t) /\ Cat(s, <<>>) = s
    BY DEF Cat
  <2>5. c.value \in Words
    BY DEF Tagged
  <2> QED
    BY <2>2, <2>3, <2>4, <2>5, <1>1, <1>2, <1>4 DEF more
<1> QED
  BY <1>2, <1>3, <1>4, <1>5

\* And of two lists.
LEMMA ValuesCat ==
  ASSUME NEW key, NEW a \in Seq(Tagged), NEW b \in Seq(Tagged)
  PROVE  Ogg!Values(Cat(a, b), key) = Cat(Ogg!Values(a, key), Ogg!Values(b, key))
<1> DEFINE under == ValueUnder(key)
           c == Cat(a, b)
<1>1. under \in Pickers(Tagged, Words)
  BY UnderIs
<1>2. c \in Seq(Tagged)
  BY CatIs
<1>3. Ogg!Values(a, key) = Picked(a, under) /\ Ogg!Values(b, key) = Picked(b, under)
  BY ValuesPicked
<1> HIDE DEF under
<1>4. Picked(c, under) = Cat(Picked(a, under), Picked(b, under))
  BY <1>1, PickedCat
<1> HIDE DEF c
<1>5. Ogg!Values(c, key) = Picked(c, under)
  BY <1>2, ValuesPicked DEF under
<1> QED
  BY <1>3, <1>4, <1>5 DEF c

\* The keys that are taken away have no value, the others theirs.
LEMMA WithoutIs ==
  ASSUME NEW comments \in Seq(Tagged), NEW keys
  PROVE  /\ Ogg!Without(comments, keys) \in Seq(Tagged)
         /\ \A key : Ogg!Values(Ogg!Without(comments, keys), key)
                           = IF key \in keys THEN <<>> ELSE Ogg!Values(comments, key)
<1> DEFINE outside == Outside(keys)
<1>a. outside \in Pickers(Tagged, Tagged)
      /\ \A c \in Tagged : outside[c] = IF c.key \in keys THEN <<>> ELSE <<c>>
  BY OutsideIs
<1>b. \A cs \in Seq(Tagged) : Ogg!Without(cs, keys) = Picked(cs, outside)
  BY WithoutPicked
<1> HIDE DEF outside
<1>1. ASSUME NEW cs \in Seq(Tagged)
      PROVE  Ogg!Without(cs, keys) \in Seq(Tagged)
  BY <1>a, <1>b, PickedIs
<1>2. ASSUME NEW key
      PROVE  Ogg!Values(Ogg!Without(comments, keys), key)
                   = IF key \in keys THEN <<>> ELSE Ogg!Values(comments, key)
  <2> DEFINE Right(cs) == Ogg!Values(Ogg!Without(cs, keys), key)
                                = IF key \in keys THEN <<>> ELSE Ogg!Values(cs, key)
             T == {cs \in Seq(Tagged) : Right(cs)}
  <2>1. <<>> \in T
    <3>1. <<>> \in Seq(Tagged)
      BY CatIs
    <3>2. Picked(<<>>, outside) = <<>>
      BY <1>a, PickedIs
    <3>3. Ogg!Without(<<>>, keys) = <<>>
      BY <3>1, <3>2, <1>b
    <3>4. Ogg!Values(<<>>, key) = <<>>
      BY <3>1, ValuesMore
    <3> QED
      BY <3>1, <3>3, <3>4
  <2>2. ASSUME NEW cs \in Seq(Tagged), NEW c \in Tagged, cs \in T
        PROVE  Append(cs, c) \in T
    <3> DEFINE more == Append(cs, c)
               kept == Ogg!Without(cs, keys)
    <3>1. more \in Seq(Tagged)
      OBVIOUS
    <3>2. Picked(more, outside) = Cat(Picked(cs, outside), outside[c])
      BY <1>a, PickedIs
    <3>3. Ogg!Values(more, key) = IF c.key = key THEN Append(Ogg!Values(cs, key), c.value)
                                  ELSE Ogg!Values(cs, key)
      BY ValuesMore
    <3> HIDE DEF more
    <3>4. \A s \in Seq(Tagged) : Cat(s, <<c>>) = Append(s, c) /\ Cat(s, <<>>) = s
      BY DEF Cat
    <3>5. kept \in Seq(Tagged)
      BY <1>1
    <3>6. Ogg!Without(more, keys) = IF c.key \in keys THEN kept ELSE Append(kept, c)
      BY <3>1, <3>2, <3>4, <3>5, <1>a, <1>b
    <3>7. Ogg!Values(kept, key) = IF key \in keys THEN <<>> ELSE Ogg!Values(cs, key)
      BY <2>2
    <3> HIDE DEF kept
    <3>8. Ogg!Values(Append(kept, c), key) = IF c.key = key
                                             THEN Append(Ogg!Values(kept, key), c.value)
                                             ELSE Ogg!Values(kept, key)
      BY <3>5, ValuesMore
    <3>9. Right(more)
      BY <3>3, <3>6, <3>7, <3>8
    <3> QED
      BY <3>1, <3>9 DEF more
  <2>3. Seq(Tagged) \subseteq T
    <3> HIDE DEF T
    <3> QED
      BY <2>1, <2>2, AllSeq
  <2> QED
    BY <2>3
<1> QED
  BY <1>1, <1>2

-----------------------------------------------------------------------------
(* What segments make. *)

\* A segment, and what segments have been made into: packets, and the cells of one
\* that goes on.
Segment == Seq(Tagged)
Assembling == [packets : Seq(Segment), open : Segment]
Nothing == [packets |-> <<>>, open |-> <<>>]

\* What a segment adds.
LEMMA TakenIs ==
  ASSUME NEW so \in Assembling, NEW x \in Segment
  PROVE  /\ Ogg!Taken(so, x) \in Assembling
         /\ Ogg!Ends(x) => /\ Ogg!Taken(so, x).packets = Append(so.packets, Cat(so.open, x))
                           /\ Ogg!Taken(so, x).open = <<>>
         /\ ~ Ogg!Ends(x) => /\ Ogg!Taken(so, x).packets = so.packets
                             /\ Ogg!Taken(so, x).open = Cat(so.open, x)
<1>1. Cat(so.open, x) \in Segment /\ <<>> \in Segment /\ so.packets \in Seq(Segment)
  BY CatIs DEF Assembling, Segment
<1>2. Ogg!Taken(so, x) = IF Ogg!Ends(x)
                         THEN [packets |-> Append(so.packets, Cat(so.open, x)), open |-> <<>>]
                         ELSE [packets |-> so.packets, open |-> Cat(so.open, x)]
  BY DEF Ogg!Taken, Cat
<1>3. Append(so.packets, Cat(so.open, x)) \in Seq(Segment)
  BY <1>1
<1> QED
  BY <1>1, <1>2, <1>3 DEF Assembling

\* Nothing is an assembling.
LEMMA NothingIs == Nothing \in Assembling
<1>1. <<>> \in Segment /\ <<>> \in Seq(Segment)
  BY DEF Segment
<1> QED
  BY <1>1 DEF Nothing, Assembling

\* Segments are taken one after another.
LEMMA AssembledIs ==
  ASSUME NEW segments \in Seq(Segment)
  PROVE  \E f \in [0..Len(segments) -> Assembling] :
            /\ f[0] = Nothing /\ Ogg!Assembled(segments) = f[Len(segments)]
            /\ \A n \in 1..Len(segments) : f[n] = Ogg!Taken(f[n - 1], segments[n])
<1> DEFINE len == Len(segments)
           Good(g) == g = [n \in 0..len |-> IF n = 0 THEN Nothing
                                            ELSE Ogg!Taken(g[n - 1], segments[n])]
           next == [p \in (1..len) \X Assembling |-> Ogg!Taken(p[2], segments[p[1]])]
           once == CHOOSE g : Good(g)
<1>1. len \in Nat /\ \A n \in 1..len : segments[n] \in Segment
  OBVIOUS
<1>2. \A s \in Assembling : \A x \in Segment : Ogg!Taken(s, x) \in Assembling
  BY TakenIs
<1>3. Ogg!Assembled(segments) = once[len]
  BY DEF Ogg!Assembled, Nothing
<1> HIDE DEF len, once
<1>4. next \in Steps(len, Assembling)
  BY <1>1, <1>2 DEF Steps
<1>5. \A n \in 1..len : \A s \in Assembling : next[<<n, s>>] = Ogg!Taken(s, segments[n])
  OBVIOUS
<1> HIDE DEF next
<1>6. PICK f : Follows(f, next, Nothing, len, Assembling)
  BY <1>1, <1>4, NothingIs, Recursion
<1>7. f \in [0..len -> Assembling] /\ f[0] = Nothing
  BY <1>6 DEF Follows
<1>8. ASSUME NEW n \in 1..len
      PROVE  f[n] = Ogg!Taken(f[n - 1], segments[n])
  <2>1. n - 1 \in 0..len /\ f[n] = next[<<n, f[n - 1]>>]
    BY <1>1, <1>6 DEF Follows
  <2> QED
    BY <2>1, <1>5, <1>7
<1>9. Good(f)
  <2>1. f = [n \in 0..len |-> f[n]]
    BY <1>7
  <2>2. \A n \in 0..len : f[n] = IF n = 0 THEN Nothing ELSE Ogg!Taken(f[n - 1], segments[n])
    BY <1>7, <1>8
  <2> QED
    BY <2>1, <2>2
<1>10. Good(once)
  <2> HIDE DEF Good
  <2> QED
    BY <1>9 DEF once
<1>11. \A n \in 0..len : once[n] = IF n = 0 THEN Nothing
                                   ELSE Ogg!Taken(once[n - 1], segments[n])
  BY <1>10
<1> HIDE DEF Good
<1> DEFINE T == {n \in 0..len : once[n] = f[n]}
<1>12. 0 \in T
  BY <1>1, <1>7, <1>11
<1>13. ASSUME NEW n \in 0..len, n \in T, n < len
       PROVE  n + 1 \in T
  <2>1. n + 1 \in 1..len /\ n + 1 \in 0..len /\ n + 1 - 1 = n /\ n + 1 # 0
    BY <1>1, <1>13
  <2>2. once[n + 1] = Ogg!Taken(once[n], segments[n + 1])
    BY <2>1, <1>11
  <2>3. f[n + 1] = Ogg!Taken(f[n], segments[n + 1])
    BY <2>1, <1>8
  <2> QED
    BY <2>1, <2>2, <2>3, <1>13
<1>14. 0..len \subseteq T
  <2> HIDE DEF T
  <2> QED
    BY <1>1, <1>12, <1>13, UpTo
<1>15. Ogg!Assembled(segments) = f[len]
  BY <1>1, <1>3, <1>14
<1> QED
  BY <1>7, <1>8, <1>15 DEF len

\* Of no segments nothing is made, and one more is taken last.
LEMMA AssembledMore ==
  /\ Ogg!Assembled(<<>>) = Nothing
  /\ \A segments \in Seq(Segment) :
       /\ Ogg!Assembled(segments) \in Assembling
       /\ \A x \in Segment : Ogg!Assembled(Append(segments, x))
                               = Ogg!Taken(Ogg!Assembled(segments), x)
<1>1. Ogg!Assembled(<<>>) = Nothing
  <2>1. <<>> \in Seq(Segment) /\ Len(<<>>) = 0
    OBVIOUS
  <2>2. PICK f \in [0..0 -> Assembling] : f[0] = Nothing /\ Ogg!Assembled(<<>>) = f[0]
    BY <2>1, AssembledIs
  <2> QED
    BY <2>2
<1>2. ASSUME NEW segments \in Seq(Segment)
      PROVE  Ogg!Assembled(segments) \in Assembling
  <2>1. PICK f \in [0..Len(segments) -> Assembling] :
          Ogg!Assembled(segments) = f[Len(segments)]
    BY AssembledIs
  <2> QED
    BY <2>1
<1>3. ASSUME NEW segments \in Seq(Segment), NEW x \in Segment
      PROVE  Ogg!Assembled(Append(segments, x)) = Ogg!Taken(Ogg!Assembled(segments), x)
  <2> DEFINE n == Len(segments)
             more == Append(segments, x)
  <2>0. n \in Nat
    OBVIOUS
  <2>1. /\ more \in Seq(Segment) /\ Len(more) = n + 1 /\ more[n + 1] = x
        /\ \A i \in 1..n : more[i] = segments[i]
    OBVIOUS
  <2>2. PICK f \in [0..n -> Assembling] :
          /\ f[0] = Nothing /\ Ogg!Assembled(segments) = f[n]
          /\ \A i \in 1..n : f[i] = Ogg!Taken(f[i - 1], segments[i])
    BY AssembledIs
  <2> HIDE DEF more, n
  <2>3. PICK g \in [0..n + 1 -> Assembling] :
          /\ g[0] = Nothing /\ Ogg!Assembled(more) = g[n + 1]
          /\ \A i \in 1..n + 1 : g[i] = Ogg!Taken(g[i - 1], more[i])
    <3>1. \E g \in [0..Len(more) -> Assembling] :
            /\ g[0] = Nothing /\ Ogg!Assembled(more) = g[Len(more)]
            /\ \A i \in 1..Len(more) : g[i] = Ogg!Taken(g[i - 1], more[i])
      BY <2>1, AssembledIs
    <3> QED
      BY <2>1, <3>1
  <2> DEFINE T == {i \in 0..n : f[i] = g[i]}
  <2>4. 0 \in T
    BY <2>0, <2>2, <2>3
  <2>5. ASSUME NEW i \in 0..n, i \in T, i < n
        PROVE  i + 1 \in T
    <3>1. i + 1 \in 1..n /\ i + 1 \in 1..n + 1 /\ i + 1 \in 0..n /\ i + 1 - 1 = i
      BY <2>0, <2>5
    <3>2. f[i + 1] = Ogg!Taken(f[(i + 1) - 1], segments[i + 1])
      BY <3>1, <2>2
    <3>3. g[i + 1] = Ogg!Taken(g[(i + 1) - 1], more[i + 1])
      BY <3>1, <2>3
    <3> QED
      BY <3>1, <3>2, <3>3, <2>1, <2>5
  <2>6. 0..n \subseteq T
    <3> HIDE DEF T
    <3> QED
      BY <2>0, <2>4, <2>5, UpTo
  <2>7. f[n] = g[n]
    BY <2>0, <2>6
  <2>8. n + 1 \in 1..n + 1 /\ (n + 1) - 1 = n
    BY <2>0
  <2>9. g[n + 1] = Ogg!Taken(g[(n + 1) - 1], more[n + 1])
    BY <2>8, <2>3
  <2> QED
    BY <2>1, <2>2, <2>3, <2>7, <2>8, <2>9 DEF more
<1> QED
  BY <1>1, <1>2, <1>3


\* The laws of one element more.
LEMMA AppendIs ==
  ASSUME NEW S
  PROVE  /\ \A s \in Seq(S) : \A x \in S : Append(s, x) \in Seq(S) /\ Len(Append(s, x)) = Len(s) + 1
         /\ \A s, t \in Seq(S) : \A x \in S : Cat(s, Append(t, x)) = Append(Cat(s, t), x)
         /\ \A s, t \in Seq(S) : Len(Cat(s, t)) = Len(s) + Len(t)
<1>1. ASSUME NEW s \in Seq(S), NEW t \in Seq(S), NEW x \in S
      PROVE  Cat(s, Append(t, x)) = Append(Cat(s, t), x)
  BY DEF Cat
<1>2. ASSUME NEW s \in Seq(S), NEW t \in Seq(S)
      PROVE  Len(Cat(s, t)) = Len(s) + Len(t)
  BY DEF Cat
<1>3. ASSUME NEW s \in Seq(S), NEW x \in S
      PROVE  Append(s, x) \in Seq(S) /\ Len(Append(s, x)) = Len(s) + 1
  OBVIOUS
<1> QED
  BY <1>1, <1>2, <1>3

\* What two sequences are, one after another.
IsBoth(S, s, t, both) ==
    /\ both \in Seq(S) /\ Len(both) = Len(s) + Len(t)
    /\ \A i \in 1..Len(s) : both[i] = s[i]
    /\ \A i \in 1..Len(t) : both[Len(s) + i] = t[i]

\* What two sequences make, place by place.
LEMMA CatAt ==
  ASSUME NEW S, NEW s \in Seq(S), NEW t \in Seq(S)
  PROVE  IsBoth(S, s, t, Cat(s, t))
<1>1. Len(s) \in Nat /\ Len(t) \in Nat
  OBVIOUS
<1>2. /\ Cat(s, t) \in Seq(S) /\ Len(Cat(s, t)) = Len(s) + Len(t)
      /\ \A i \in 1..Len(s) + Len(t) :
           Cat(s, t)[i] = IF i <= Len(s) THEN s[i] ELSE t[i - Len(s)]
  BY DEF Cat
<1>3. ASSUME NEW i \in 1..Len(s)
      PROVE  Cat(s, t)[i] = s[i]
  BY <1>1, <1>2
<1>4. ASSUME NEW i \in 1..Len(t)
      PROVE  Cat(s, t)[Len(s) + i] = t[i]
  <2>1. /\ Len(s) + i \in 1..Len(s) + Len(t) /\ ~ (Len(s) + i <= Len(s))
        /\ (Len(s) + i) - Len(s) = i
    BY <1>1
  <2>2. Cat(s, t)[Len(s) + i] = t[(Len(s) + i) - Len(s)]
    BY <2>1, <1>2
  <2> QED
    BY <2>1, <2>2
<1> QED
  BY <1>2, <1>3, <1>4 DEF IsBoth

\* An element at the end of the second sequence is at the end of both.
LEMMA CatAppend ==
  ASSUME NEW S, NEW s \in Seq(S), NEW t \in Seq(S), NEW x \in S
  PROVE  Cat(s, Append(t, x)) = Append(Cat(s, t), x)
<1> QED
  BY DEF Cat

\* Segments after others that leave nothing open make what they make alone.
LEMMA AssembledCat ==
  ASSUME NEW a \in Seq(Segment), NEW b \in Seq(Segment), Ogg!Assembled(a).open = <<>>
  PROVE  /\ Ogg!Assembled(Cat(a, b)).packets
              = Cat(Ogg!Assembled(a).packets, Ogg!Assembled(b).packets)
         /\ Ogg!Assembled(Cat(a, b)).open = Ogg!Assembled(b).open
<1> DEFINE p == Ogg!Assembled(a).packets
           Alike(c) == /\ Ogg!Assembled(Cat(a, c)).packets = Cat(p, Ogg!Assembled(c).packets)
                       /\ Ogg!Assembled(Cat(a, c)).open = Ogg!Assembled(c).open
           T == {c \in Seq(Segment) : Alike(c)}
<1>0. p \in Seq(Segment)
  <2>1. Ogg!Assembled(a) \in Assembling
    BY AssembledMore
  <2> QED
    BY <2>1 DEF Assembling
<1>1. <<>> \in T
  <2>1. Cat(a, <<>>) = a /\ <<>> \in Seq(Segment)
    BY CatIs
  <2>2. Ogg!Assembled(<<>>).packets = <<>> /\ Ogg!Assembled(<<>>).open = <<>>
    BY AssembledMore DEF Nothing
  <2>3. Cat(p, <<>>) = p
    BY <1>0, CatIs
  <2> QED
    BY <2>1, <2>2, <2>3
<1>2. ASSUME NEW c \in Seq(Segment), NEW x \in Segment, c \in T
      PROVE  Append(c, x) \in T
  <2> DEFINE d == Cat(a, c)
             of == Ogg!Assembled(c)
             all == Ogg!Assembled(d)
  <2>1. Cat(a, Append(c, x)) = Append(d, x) /\ Append(c, x) \in Seq(Segment) /\ d \in Seq(Segment)
    <3>1. Cat(a, Append(c, x)) = Append(Cat(a, c), x) /\ Append(c, x) \in Seq(Segment)
      BY AppendIs
    <3>2. Cat(a, c) \in Seq(Segment)
      BY CatIs
    <3> QED
      BY <3>1, <3>2
  <2> HIDE DEF p, d
  <2>2. /\ of \in Assembling /\ Ogg!Assembled(Append(c, x)) = Ogg!Taken(of, x)
    BY AssembledMore
  <2>3. /\ all \in Assembling /\ Ogg!Assembled(Append(d, x)) = Ogg!Taken(all, x)
    BY <2>1, AssembledMore
  <2>4. all.packets = Cat(p, of.packets) /\ all.open = of.open
    BY <1>2 DEF d
  <2>5. of.packets \in Seq(Segment) /\ of.open \in Segment
    BY <2>2 DEF Assembling
  <2> HIDE DEF of, all
  <2>6. /\ Ogg!Taken(all, x).packets = Cat(p, Ogg!Taken(of, x).packets)
        /\ Ogg!Taken(all, x).open = Ogg!Taken(of, x).open
    <3>1. CASE Ogg!Ends(x)
      <4> DEFINE y == Cat(of.open, x)
      <4>1. y \in Segment
        BY <2>5, CatIs DEF Segment
      <4>2. Ogg!Taken(of, x).packets = Append(of.packets, y) /\ Ogg!Taken(of, x).open = <<>>
        BY <2>2, <3>1, TakenIs
      <4>3. Ogg!Taken(all, x).packets = Append(all.packets, y) /\ Ogg!Taken(all, x).open = <<>>
        BY <2>3, <2>4, <3>1, TakenIs
      <4> HIDE DEF y
      <4>4. Cat(p, Append(of.packets, y)) = Append(Cat(p, of.packets), y)
        <5> DEFINE q == of.packets
        <5>1. q \in Seq(Segment)
          BY <2>5
        <5> HIDE DEF q
        <5>2. Cat(p, Append(q, y)) = Append(Cat(p, q), y)
          BY <1>0, <4>1, <5>1, CatAppend
        <5> QED
          BY <5>2 DEF q
      <4> QED
        BY <4>2, <4>3, <4>4, <2>4
    <3>2. CASE ~ Ogg!Ends(x)
      <4>1. Ogg!Taken(of, x).packets = of.packets /\ Ogg!Taken(of, x).open = Cat(of.open, x)
        BY <2>2, <3>2, TakenIs
      <4>2. Ogg!Taken(all, x).packets = all.packets /\ Ogg!Taken(all, x).open = Cat(all.open, x)
        BY <2>3, <3>2, TakenIs
      <4> QED
        BY <4>1, <4>2, <2>4
    <3> QED
      BY <3>1, <3>2
  <2>7. Alike(Append(c, x))
    <3>1. Ogg!Assembled(Cat(a, Append(c, x))) = Ogg!Taken(all, x)
      BY <2>1, <2>3
    <3>2. Ogg!Assembled(Append(c, x)) = Ogg!Taken(of, x)
      BY <2>2
    <3> QED
      BY <3>1, <3>2, <2>6
  <2> HIDE DEF Alike
  <2> QED
    BY <2>1, <2>7
<1>3. Seq(Segment) \subseteq T
  <2> HIDE DEF T
  <2> QED
    BY <1>1, <1>2, AllSeq
<1> QED
  BY <1>3

\* More segments make no fewer packets.
LEMMA AssembledGrows ==
  ASSUME NEW a \in Seq(Segment), NEW b \in Seq(Segment)
  PROVE  /\ Len(Ogg!Assembled(a).packets) \in Nat
         /\ Len(Ogg!Assembled(a).packets) <= Len(Ogg!Assembled(Cat(a, b)).packets)
<1> DEFINE L(s) == Len(Ogg!Assembled(s).packets)
           T == {c \in Seq(Segment) : L(a) <= L(Cat(a, c))}
<1>0. \A s \in Seq(Segment) : L(s) \in Nat
  <2> SUFFICES ASSUME NEW s \in Seq(Segment) PROVE L(s) \in Nat
    OBVIOUS
  <2>1. Ogg!Assembled(s) \in Assembling
    BY AssembledMore
  <2>2. Ogg!Assembled(s).packets \in Seq(Segment)
    BY <2>1 DEF Assembling
  <2> QED
    BY <2>2
<1>1. <<>> \in T
  <2>1. Cat(a, <<>>) = a /\ <<>> \in Seq(Segment)
    BY CatIs
  <2>2. L(a) \in Nat
    BY <1>0
  <2> HIDE DEF L
  <2> QED
    BY <2>1, <2>2
<1>2. ASSUME NEW c \in Seq(Segment), NEW x \in Segment, c \in T
      PROVE  Append(c, x) \in T
  <2> DEFINE d == Cat(a, c)
  <2>1. Cat(a, Append(c, x)) = Append(d, x) /\ Append(c, x) \in Seq(Segment) /\ d \in Seq(Segment)
    <3>1. Cat(a, Append(c, x)) = Append(Cat(a, c), x) /\ Append(c, x) \in Seq(Segment)
      BY AppendIs
    <3>2. Cat(a, c) \in Seq(Segment)
      BY CatIs
    <3> QED
      BY <3>1, <3>2
  <2>2. L(a) <= L(d)
    BY <1>2
  <2> HIDE DEF d
  <2>3. L(d) <= L(Append(d, x))
    <3> DEFINE all == Ogg!Assembled(d)
    <3>1. all \in Assembling /\ Ogg!Assembled(Append(d, x)) = Ogg!Taken(all, x)
      BY <2>1, AssembledMore
    <3> HIDE DEF all
    <3>2. \/ Ogg!Taken(all, x).packets = Append(all.packets, Cat(all.open, x))
          \/ Ogg!Taken(all, x).packets = all.packets
      BY <3>1, TakenIs
    <3>3. all.packets \in Seq(Segment)
      BY <3>1 DEF Assembling
    <3> DEFINE y == Cat(all.open, x)
    <3> HIDE DEF y
    <3>4. Len(Append(all.packets, y)) = Len(all.packets) + 1 /\ Len(all.packets) \in Nat
      BY <3>3
    <3>5. Len(all.packets) <= Len(Ogg!Taken(all, x).packets)
      BY <3>2, <3>4 DEF y
    <3> QED
      BY <3>1, <3>5 DEF all
  <2>4. L(a) \in Nat /\ L(d) \in Nat /\ L(Append(d, x)) \in Nat
    <3>1. Append(d, x) \in Seq(Segment)
      BY <2>1
    <3> QED
      BY <1>0, <2>1, <3>1
  <2> DEFINE l == L(a)
             m == L(d)
             n == L(Append(d, x))
  <2>5. l <= n
    <3>1. l \in Nat /\ m \in Nat /\ n \in Nat /\ l <= m /\ m <= n
      BY <2>2, <2>3, <2>4
    <3> HIDE DEF l, m, n
    <3> QED
      BY <3>1
  <2>6. L(a) <= L(Cat(a, Append(c, x)))
    BY <2>1, <2>5
  <2> HIDE DEF L
  <2> QED
    BY <2>1, <2>6
<1>3. Seq(Segment) \subseteq T
  <2> HIDE DEF T
  <2> QED
    BY <1>1, <1>2, AllSeq
<1> QED
  BY <1>0, <1>3

\* When the last segment ends its packet, nothing is open, and without it there is
\* a packet less.
LEMMA AssembledEnds ==
  ASSUME NEW s \in Seq(Segment), NEW x \in Segment, Ogg!Ends(x)
  PROVE  /\ Ogg!Assembled(Append(s, x)).open = <<>>
         /\ Ogg!Assembled(Append(s, x)).packets
              = Append(Ogg!Assembled(s).packets, Cat(Ogg!Assembled(s).open, x))
         /\ Len(Ogg!Assembled(Append(s, x)).packets) = Len(Ogg!Assembled(s).packets) + 1
<1> DEFINE all == Ogg!Assembled(s)
           y == Cat(all.open, x)
<1>1. all \in Assembling /\ Ogg!Assembled(Append(s, x)) = Ogg!Taken(all, x)
  BY AssembledMore
<1> HIDE DEF all
<1>2. Ogg!Taken(all, x).packets = Append(all.packets, y) /\ Ogg!Taken(all, x).open = <<>>
  BY <1>1, TakenIs
<1>3. all.packets \in Seq(Segment) /\ y \in Segment
  BY <1>1, CatIs DEF Assembling, Segment
<1> HIDE DEF y
<1>4. Len(Append(all.packets, y)) = Len(all.packets) + 1
  BY <1>3
<1> QED
  BY <1>1, <1>2, <1>4 DEF all, y

\* Parts of a sequence.
LEMMA SubCat ==
  ASSUME NEW S, NEW s \in Seq(S), NEW i \in 0..Len(s), NEW j \in 0..Len(s), i <= j
  PROVE  /\ SubSeq(s, 1, i) \in Seq(S) /\ SubSeq(s, i + 1, j) \in Seq(S)
         /\ Cat(SubSeq(s, 1, i), SubSeq(s, i + 1, j)) = SubSeq(s, 1, j)
<1> DEFINE a == SubSeq(s, 1, i)
           b == SubSeq(s, i + 1, j)
           c == SubSeq(s, 1, j)
<1>0. Len(s) \in Nat /\ i \in Nat /\ j \in Nat
  OBVIOUS
<1>1. a \in Seq(S) /\ Len(a) = i /\ \A n \in 1..i : a[n] = s[n]
  BY <1>0
<1>2. b \in Seq(S) /\ Len(b) = j - i /\ \A n \in 1..j - i : b[n] = s[i + n]
  BY <1>0
<1>3. c \in Seq(S) /\ Len(c) = j /\ \A n \in 1..j : c[n] = s[n]
  BY <1>0
<1> HIDE DEF a, b, c
<1> DEFINE d == Cat(a, b)
<1>4. /\ d \in Seq(S) /\ Len(d) = Len(a) + Len(b)
      /\ \A n \in 1..Len(a) + Len(b) : d[n] = IF n <= Len(a) THEN a[n] ELSE b[n - Len(a)]
  BY <1>1, <1>2 DEF Cat
<1> HIDE DEF d
<1>5. Len(d) = j
  BY <1>0, <1>1, <1>2, <1>4
<1>6. ASSUME NEW n \in 1..j
      PROVE  d[n] = c[n]
  <2>1. CASE n <= i
    <3>1. n \in 1..i /\ n \in 1..Len(a) + Len(b) /\ n <= Len(a)
      BY <2>1, <1>0, <1>1, <1>2
    <3>2. d[n] = a[n]
      BY <3>1, <1>4
    <3> QED
      BY <3>1, <3>2, <1>1, <1>3
  <2>2. CASE ~ (n <= i)
    <3>1. n - i \in 1..j - i /\ i + (n - i) = n
      BY <2>2, <1>0
    <3> QED
      <4>1. n \in 1..Len(a) + Len(b) /\ ~ (n <= Len(a)) /\ Len(a) = i
        BY <2>2, <1>0, <1>1, <1>2
      <4>2. d[n] = b[n - i]
        BY <4>1, <1>4
      <4>3. b[n - i] = s[i + (n - i)]
        BY <3>1, <1>2
      <4> QED
        BY <4>2, <4>3, <3>1, <1>3
  <2> QED
    BY <2>1, <2>2
<1>7. d = c
  <2>1. d = [n \in 1..j |-> d[n]] /\ c = [n \in 1..j |-> c[n]]
    BY <1>3, <1>4, <1>5
  <2> QED
    BY <2>1, <1>6
<1> QED
  BY <1>1, <1>2, <1>7 DEF a, b, c, d

\* The first elements of a sequence, and one element more.
LEMMA SubMore ==
  ASSUME NEW S, NEW s \in Seq(S), NEW i \in 0..Len(s), i < Len(s)
  PROVE  s[i + 1] \in S /\ SubSeq(s, 1, i + 1) = Append(SubSeq(s, 1, i), s[i + 1])
<1> QED
  OBVIOUS

\* A sequence that has been cut at some places.
LEMMA CutIs ==
  ASSUME NEW S, NEW s \in Seq(S), NEW m \in Nat, NEW at \in Maps(0..m, 0..Len(s)),
         NEW parts \in Seq(Seq(S)), Len(parts) = m, at[0] = 0, at[m] = Len(s),
         \A k \in 1..m : at[k - 1] <= at[k] /\ parts[k] = SubSeq(s, at[k - 1] + 1, at[k])
  PROVE  FlattenSeq(parts) = s
<1> DEFINE first(k) == SubSeq(parts, 1, k)
           Done(k) == FlattenSeq(first(k)) = SubSeq(s, 1, at[k])
           T == {k \in 0..m : Done(k)}
<1>0. Len(s) \in Nat /\ \A k \in 0..m : at[k] \in 0..Len(s)
  BY DEF Maps
<1>1. 0 \in T
  <2>1. first(0) = <<>> /\ SubSeq(s, 1, 0) = <<>>
    OBVIOUS
  <2> HIDE DEF first
  <2>2. Done(0)
    BY <2>1, FlattenNone
  <2> HIDE DEF Done
  <2> QED
    BY <2>2
<1>2. ASSUME NEW k \in 0..m, k \in T, k < m
      PROVE  k + 1 \in T
  <2>0. k + 1 \in 1..m /\ k + 1 \in 0..m /\ (k + 1) - 1 = k
    BY <1>2
  <2> DEFINE i == at[k]
             j == at[k + 1]
             p == parts[k + 1]
  <2>1. first(k) \in Seq(Seq(S)) /\ first(k + 1) = Append(first(k), p)
    <3>1. /\ parts[k + 1] \in Seq(S)
          /\ SubSeq(parts, 1, k + 1) = Append(SubSeq(parts, 1, k), parts[k + 1])
      BY <1>2, SubMore
    <3>2. SubSeq(parts, 1, k) \in Seq(Seq(S))
      BY <1>2
    <3> QED
      BY <3>1, <3>2
  <2>2. i \in 0..Len(s) /\ j \in 0..Len(s)
    BY <2>0, <1>0
  <2>3. i <= j /\ p = SubSeq(s, i + 1, j)
    <3>1. at[(k + 1) - 1] <= at[k + 1] /\ parts[k + 1] = SubSeq(s, at[(k + 1) - 1] + 1, at[k + 1])
      BY <2>0
    <3> QED
      BY <3>1, <2>0
  <2>4. FlattenSeq(first(k)) = SubSeq(s, 1, i)
    BY <1>2
  <2> HIDE DEF first, i, j, p
  <2>5. Cat(SubSeq(s, 1, i), p) = SubSeq(s, 1, j) /\ p \in Seq(S)
    BY <2>2, <2>3, SubCat
  <2> DEFINE f == first(k)
  <2>6. f \in Seq(Seq(S))
    BY <2>1
  <2> HIDE DEF f
  <2>7. FlattenSeq(Append(f, p)) = Cat(FlattenSeq(f), p)
    BY <2>5, <2>6, FlattenMore
  <2>8. FlattenSeq(first(k + 1)) = SubSeq(s, 1, j)
    BY <2>1, <2>4, <2>5, <2>7 DEF f
  <2>9. Done(k + 1)
    BY <2>8 DEF j
  <2> HIDE DEF Done
  <2> QED
    BY <2>0, <2>9
<1>3. 0..m \subseteq T
  <2> HIDE DEF T
  <2> QED
    BY <1>1, <1>2, UpTo
<1>4. first(m) = parts
  OBVIOUS
<1>5. SubSeq(s, 1, Len(s)) = s
  OBVIOUS
<1> HIDE DEF first
<1>6. Done(m)
  BY <1>3
<1> QED
  BY <1>4, <1>5, <1>6

\* A product grows with its factor.
LEMMA TimesLess ==
  ASSUME NEW i \in Nat, NEW j \in Nat, NEW n \in Nat, i <= j
  PROVE  i * n \in Nat /\ i * n <= j * n
<1>1. i * n \in Nat /\ j * n \in Nat /\ (j - i) * n \in Nat /\ j * n = i * n + (j - i) * n
  OBVIOUS
<1> QED
  BY <1>1

\* The length of a sequence that is cut into parts of n each.
LEMMA QuotientIs ==
  ASSUME NEW len \in Nat, NEW n \in Nat \ {0}
  PROVE  /\ len \div n \in Nat
         /\ (len \div n) * n <= len /\ len < (len \div n + 1) * n
<1>1. len = (len \div n) * n + (len % n) /\ (len % n) \in 0..n - 1 /\ len \div n \in Int
  OBVIOUS
<1> DEFINE q == len \div n
           r == len % n
<1>2. len = q * n + r /\ r \in 0..n - 1 /\ q \in Int
  BY <1>1
<1> HIDE DEF q, r
<1>3. q \in Nat
  <2> SUFFICES ASSUME q < 0 PROVE FALSE
    BY <1>2
  <2>1. q + 1 <= 0 /\ (-(q + 1)) * n >= 0
    BY <1>2
  <2>2. q * n = (q + 1) * n - n
    BY <1>2
  <2> QED
    BY <1>2, <2>1, <2>2
<1>4. (q + 1) * n = q * n + n
  BY <1>2
<1>5. q * n <= len /\ len < (q + 1) * n
  BY <1>2, <1>3, <1>4
<1> QED
  BY <1>3, <1>5 DEF q

\* The less of two numbers.
LEMMA MinOfTwo ==
  ASSUME NEW i \in Nat, NEW j \in Nat
  PROVE  Ogg!Min({i, j}) = IF i <= j THEN i ELSE j
<1> DEFINE least == IF i <= j THEN i ELSE j
<1>1. least \in {i, j} /\ \A y \in {i, j} : least <= y
  OBVIOUS
<1>2. \A x \in {i, j} : (\A y \in {i, j} : x <= y) => x = least
  OBVIOUS
<1> HIDE DEF least
<1>3. (CHOOSE x \in {i, j} : \A y \in {i, j} : x <= y) = least
  BY <1>1, <1>2
<1> QED
  BY <1>3 DEF Ogg!Min, least

\* What a part of a sequence is.
LEMMA PartIs ==
  ASSUME NEW S, NEW s \in Seq(S), NEW i \in 0..Len(s), NEW j \in 0..Len(s), i <= j
  PROVE  /\ SubSeq(s, i + 1, j) \in Seq(S) /\ Len(SubSeq(s, i + 1, j)) = j - i
         /\ i < j => SubSeq(s, i + 1, j)[j - i] = s[j]
<1>1. Len(s) \in Nat /\ i \in Nat /\ j \in Nat /\ j - i \in Nat
  OBVIOUS
<1>2. SubSeq(s, i + 1, j) \in Seq(S) /\ Len(SubSeq(s, i + 1, j)) = j - i
  BY <1>1
<1>3. ASSUME i < j
      PROVE  SubSeq(s, i + 1, j)[j - i] = s[j]
  <2>1. \A n \in 1..j - i : SubSeq(s, i + 1, j)[n] = s[i + n]
    BY <1>1
  <2>2. j - i \in 1..j - i /\ i + (j - i) = j
    BY <1>1, <1>3
  <2> QED
    BY <2>1, <2>2
<1> QED
  BY <1>2, <1>3

\* A sequence that is cut into m parts of n each, the last of which may be short.
CutInto(s, n, m) == [k \in 1..m |-> SubSeq(s, (k - 1) * n + 1, Ogg!Min({k * n, Len(s)}))]

Fits(len, n, m) == (m - 1) * n <= len /\ len <= m * n

CutWell(S, s, n, m, parts) ==
    /\ parts \in Seq(Seq(S)) /\ Len(parts) = m /\ FlattenSeq(parts) = s
    /\ \A k \in 1..m - 1 : Len(parts[k]) = n /\ k * n \in 1..Len(s) /\ parts[k][n] = s[k * n]
    /\ Len(parts[m]) = Len(s) - (m - 1) * n
    /\ (m - 1) * n < Len(s) => parts[m][Len(parts[m])] = s[Len(s)]

\* A sequence that fits into parts is cut well into them.
LEMMA CutIntoIs ==
  ASSUME NEW S, NEW s \in Seq(S), NEW n \in Nat \ {0}, NEW m \in Nat \ {0}, Fits(Len(s), n, m)
  PROVE  CutWell(S, s, n, m, CutInto(s, n, m))
<1> DEFINE len == Len(s)
           at == [k \in 0..m |-> IF k < m THEN k * n ELSE len]
           parts == CutInto(s, n, m)
<1>0. len \in Nat /\ m \in Nat /\ n \in Nat /\ m - 1 \in Nat /\ (m - 1) * n <= len /\ len <= m * n
  BY DEF Fits
<1>1. \A k \in 0..m - 1 : k * n \in Nat /\ k * n <= len
  <2> SUFFICES ASSUME NEW k \in 0..m - 1 PROVE k * n \in Nat /\ k * n <= len
    OBVIOUS
  <2>1. k \in Nat /\ k <= m - 1
    BY <1>0
  <2>2. k * n \in Nat /\ k * n <= (m - 1) * n
    BY <1>0, <2>1, TimesLess
  <2>3. (m - 1) * n \in Nat
    BY <1>0, TimesLess
  <2> QED
    BY <2>2, <2>3, <1>0
<1>2. ASSUME NEW k \in 1..m
      PROVE  /\ at[k - 1] = (k - 1) * n /\ Ogg!Min({k * n, len}) = at[k]
             /\ at[k - 1] \in 0..len /\ at[k] \in 0..len /\ at[k - 1] <= at[k]
             /\ k < m => at[k] = k * n /\ at[k] = at[k - 1] + n
             /\ k = m => at[k] = len
  <2>1. k - 1 \in 0..m - 1 /\ k - 1 \in 0..m /\ k \in 0..m /\ k \in Nat
    BY <1>0
  <2>2. (k - 1) * n \in Nat /\ (k - 1) * n <= len
    BY <2>1, <1>1
  <2>3. k * n = (k - 1) * n + n /\ k * n \in Nat
    BY <2>1, <2>2, <1>0
  <2>4. at[k - 1] = (k - 1) * n
    BY <2>1
  <2>5. at[k] = IF k < m THEN k * n ELSE len
    BY <2>1
  <2>6. k < m => k * n <= len
    <3> HAVE k < m
    <3>1. k \in 0..m - 1
      BY <2>1
    <3> QED
      BY <3>1, <1>1
  <2>7. k = m => k * n >= len
    BY <1>0
  <2>8. Ogg!Min({k * n, len}) = IF k * n <= len THEN k * n ELSE len
    BY <2>3, <1>0, MinOfTwo
  <2>9. at[k] = IF k * n <= len THEN k * n ELSE len
    <3> DEFINE i == k * n
    <3>1. i \in Nat /\ (k < m => i <= len) /\ (k = m => i >= len) /\ (k < m \/ k = m)
      BY <2>1, <2>3, <2>6, <2>7, <1>0
    <3>2. at[k] = IF k < m THEN i ELSE len
      BY <2>5
    <3> HIDE DEF i, at
    <3>3. at[k] = IF i <= len THEN i ELSE len
      BY <3>1, <3>2, <1>0
    <3> QED
      BY <3>3 DEF i
  <2> DEFINE i == k * n
             h == (k - 1) * n
  <2>10. i \in Nat /\ h \in Nat /\ i = h + n /\ h <= len /\ at[k - 1] = h
         /\ at[k] = (IF i <= len THEN i ELSE len) /\ at[k] = (IF k < m THEN i ELSE len)
    BY <2>2, <2>3, <2>4, <2>5, <2>9
  <2> HIDE DEF at, i, h, len
  <2>11. /\ at[k - 1] \in 0..len /\ at[k] \in 0..len /\ at[k - 1] <= at[k]
         /\ k < m => at[k] = i /\ at[k] = at[k - 1] + n
         /\ k = m => at[k] = len
    BY <2>10, <1>0
  <2> QED
    BY <2>4, <2>8, <2>9, <2>11 DEF i
<1>3. ASSUME NEW k \in 1..m
      PROVE  /\ parts[k] = SubSeq(s, at[k - 1] + 1, at[k])
             /\ parts[k] \in Seq(S) /\ Len(parts[k]) = at[k] - at[k - 1]
             /\ at[k - 1] < at[k] => parts[k][at[k] - at[k - 1]] = s[at[k]]
  <2>1. parts[k] = SubSeq(s, (k - 1) * n + 1, Ogg!Min({k * n, len}))
    BY DEF CutInto
  <2> DEFINE i == at[k - 1]
             j == at[k]
  <2>2. parts[k] = SubSeq(s, i + 1, j) /\ i \in 0..len /\ j \in 0..len /\ i <= j
    <3> HIDE DEF parts, at
    <3> QED
      BY <2>1, <1>2
  <2> HIDE DEF parts, at, i, j
  <2>3. SubSeq(s, i + 1, j) \in Seq(S) /\ Len(SubSeq(s, i + 1, j)) = j - i
        /\ (i < j => SubSeq(s, i + 1, j)[j - i] = s[j])
    BY <2>2, PartIs, SMTT(30)
  <2> QED
    BY <2>2, <2>3 DEF i, j
<1>4. at[0] = 0 /\ at[m] = len
  BY <1>0
<1>5. at \in Maps(0..m, 0..len)
  <2>1. \A k \in 0..m : at[k] \in 0..len
    <3> SUFFICES ASSUME NEW k \in 0..m PROVE at[k] \in 0..len
      OBVIOUS
    <3>1. CASE k = 0
      BY <3>1, <1>4, <1>0
    <3>2. CASE k # 0
      <4>1. k \in 1..m
        BY <3>2, <1>0
      <4> HIDE DEF at
      <4> QED
        BY <4>1, <1>2
    <3> QED
      BY <3>1, <3>2
  <2> QED
    BY <2>1 DEF Maps
<1>6. DOMAIN parts = 1..m
  BY DEF CutInto
<1>6a. parts = [k \in 1..m |-> parts[k]]
  BY DEF CutInto
<1> HIDE DEF parts, at
<1>7. parts \in Seq(Seq(S)) /\ Len(parts) = m
  <2>1. parts \in [1..m -> Seq(S)]
    BY <1>3, <1>6, <1>6a
  <2> QED
    BY <2>1, <1>0
<1>8. FlattenSeq(parts) = s
  <2>1. \A k \in 1..m : at[k - 1] <= at[k] /\ parts[k] = SubSeq(s, at[k - 1] + 1, at[k])
    BY <1>2, <1>3
  <2> QED
    BY <2>1, <1>0, <1>4, <1>5, <1>7, CutIs
<1>9. ASSUME NEW k \in 1..m - 1
      PROVE  Len(parts[k]) = n /\ k * n \in 1..len /\ parts[k][n] = s[k * n]
  <2>1. k \in 1..m /\ k < m
    BY <1>0
  <2>2. /\ at[k] = k * n /\ at[k] = at[k - 1] + n
        /\ at[k - 1] \in 0..len /\ at[k] \in 0..len
    BY <2>1, <1>2
  <2>3. at[k] - at[k - 1] = n /\ at[k - 1] < at[k] /\ at[k] \in 1..len
    BY <2>2, <1>0
  <2>4. Len(parts[k]) = at[k] - at[k - 1] /\ parts[k][at[k] - at[k - 1]] = s[at[k]]
    BY <2>1, <2>3, <1>3
  <2> QED
    BY <2>2, <2>3, <2>4
<1>10. /\ Len(parts[m]) = len - (m - 1) * n
       /\ (m - 1) * n < len => parts[m][Len(parts[m])] = s[len]
  <2>1. m \in 1..m
    BY <1>0
  <2>2. at[m - 1] = (m - 1) * n
    BY <2>1, <1>2
  <2>3. Len(parts[m]) = at[m] - at[m - 1]
        /\ (at[m - 1] < at[m] => parts[m][at[m] - at[m - 1]] = s[at[m]])
    BY <2>1, <1>3
  <2> QED
    BY <2>2, <2>3, <1>4
<1> QED
  BY <1>7, <1>8, <1>9, <1>10 DEF parts, len, CutWell

\* Full segments complete no packet.
LEMMA AssembledFull ==
  ASSUME NEW s \in Seq(Segment), \A i \in 1..Len(s) : ~ Ogg!Ends(s[i])
  PROVE  /\ Ogg!Assembled(s).packets = <<>>
         /\ Ogg!Assembled(s).open = FlattenSeq(s)
<1> DEFINE Full(c) == \A i \in 1..Len(c) : ~ Ogg!Ends(c[i])
           Open(c) == /\ Ogg!Assembled(c).packets = <<>>
                      /\ Ogg!Assembled(c).open = FlattenSeq(c)
           T == {c \in Seq(Segment) : Full(c) => Open(c)}
<1>1. <<>> \in T
  <2>1. Ogg!Assembled(<<>>).packets = <<>> /\ Ogg!Assembled(<<>>).open = <<>>
    BY AssembledMore DEF Nothing
  <2>2. Open(<<>>)
    BY <2>1, FlattenNone
  <2>3. <<>> \in Seq(Segment)
    OBVIOUS
  <2> HIDE DEF Full, Open
  <2> QED
    BY <2>2, <2>3
<1>2. ASSUME NEW c \in Seq(Segment), NEW x \in Segment, c \in T
      PROVE  Append(c, x) \in T
  <2>1. SUFFICES ASSUME Full(Append(c, x)) PROVE Open(Append(c, x))
    <3> HIDE DEF Full, Open
    <3>1. Append(c, x) \in Seq(Segment)
      OBVIOUS
    <3> QED
      BY <3>1
  <2>2. Full(c) /\ ~ Ogg!Ends(x)
    <3>1. /\ Len(Append(c, x)) = Len(c) + 1 /\ Append(c, x)[Len(c) + 1] = x /\ Len(c) \in Nat
          /\ \A i \in 1..Len(c) : Append(c, x)[i] = c[i]
      OBVIOUS
    <3>2. \A i \in 1..Len(c) + 1 : ~ Ogg!Ends(Append(c, x)[i])
      BY <2>1, <3>1
    <3> DEFINE d == Append(c, x)
    <3> HIDE DEF d
    <3>3. \A i \in 1..Len(c) : ~ Ogg!Ends(c[i])
      <4> SUFFICES ASSUME NEW i \in 1..Len(c) PROVE ~ Ogg!Ends(c[i])
        OBVIOUS
      <4>1. i \in 1..Len(c) + 1
        BY <3>1
      <4> QED
        BY <4>1, <3>1, <3>2
    <3>4. ~ Ogg!Ends(x)
      <4>1. Len(c) + 1 \in 1..Len(c) + 1
        BY <3>1
      <4> QED
        BY <4>1, <3>1, <3>2
    <3> QED
      BY <3>3, <3>4
  <2>3. Open(c)
    <3> HIDE DEF Full, Open
    <3> QED
      BY <1>2, <2>2
  <2> DEFINE so == Ogg!Assembled(c)
  <2>4. so \in Assembling /\ Ogg!Assembled(Append(c, x)) = Ogg!Taken(so, x)
    BY AssembledMore
  <2>5. so.packets = <<>> /\ so.open = FlattenSeq(c)
    BY <2>3
  <2> HIDE DEF so
  <2>6. Ogg!Taken(so, x).packets = so.packets /\ Ogg!Taken(so, x).open = Cat(so.open, x)
    BY <2>2, <2>4, TakenIs
  <2>7. FlattenSeq(Append(c, x)) = Cat(FlattenSeq(c), x)
    <3>1. c \in Seq(Seq(Tagged)) /\ x \in Seq(Tagged)
      BY DEF Segment
    <3> QED
      BY <3>1, FlattenMore
  <2> QED
    BY <2>4, <2>5, <2>6, <2>7
<1>3. Seq(Segment) \subseteq T
  <2> HIDE DEF T
  <2> QED
    BY <1>1, <1>2, AllSeq
<1>4. s \in T /\ Full(s)
  BY <1>3
<1> HIDE DEF Full
<1> QED
  BY <1>4

\* The last of some segments.
LastEnds(segments) == segments # <<>> /\ Ogg!Ends(segments[Len(segments)])

\* Two sequences of segments end as the second does.
LEMMA LastOfCat ==
  ASSUME NEW a \in Seq(Segment), NEW b \in Seq(Segment), LastEnds(b)
  PROVE  LastEnds(Cat(a, b))
<1>1. b # <<>> /\ Len(b) \in Nat \ {0} /\ Len(a) \in Nat
  BY DEF LastEnds
<1>2. /\ Len(Cat(a, b)) = Len(a) + Len(b)
      /\ Cat(a, b)[Len(a) + Len(b)] = b[Len(b)]
  BY <1>1 DEF Cat
<1>3. Cat(a, b) # <<>>
  <2>1. Len(Cat(a, b)) # 0
    BY <1>1, <1>2
  <2> QED
    BY <2>1
<1> QED
  BY <1>2, <1>3 DEF LastEnds

\* The segments that a packet is cut into make that packet again.
LEMMA SegmentsAre ==
  ASSUME NEW packet \in Segment
  PROVE  /\ Ogg!Segments(packet) \in Seq(Segment) /\ LastEnds(Ogg!Segments(packet))
         /\ Ogg!Assembled(Ogg!Segments(packet)).packets = <<packet>>
         /\ Ogg!Assembled(Ogg!Segments(packet)).open = <<>>
<1> DEFINE q == Len(packet) \div Lace
           m == q + 1
           parts == CutInto(packet, Lace, m)
           full == SubSeq(parts, 1, q)
           x == parts[m]
<1>0. Lace \in Nat \ {0} /\ packet \in Seq(Tagged) /\ Len(packet) \in Nat
  BY PageLimits DEF Segment
<1>1. q \in Nat /\ q * Lace <= Len(packet) /\ Len(packet) < (q + 1) * Lace
  BY <1>0, QuotientIs
<1>2. Ogg!Segments(packet) = parts
  BY DEF Ogg!Segments, CutInto
<1> HIDE DEF q
<1>2a. m \in Nat \ {0} /\ m - 1 = q /\ (m - 1) * Lace <= Len(packet) /\ Len(packet) <= m * Lace
  <2>1. (q + 1) * Lace \in Nat
    BY <1>0, <1>1, TimesLess
  <2> QED
    BY <1>0, <1>1, <2>1
<1> HIDE DEF m
<1>3. /\ parts \in Seq(Seq(Tagged)) /\ Len(parts) = m /\ FlattenSeq(parts) = packet
      /\ \A k \in 1..m - 1 : Len(parts[k]) = Lace
      /\ Len(parts[m]) = Len(packet) - (m - 1) * Lace
  <2>1. CutWell(Tagged, packet, Lace, m, CutInto(packet, Lace, m))
    <3>1. Fits(Len(packet), Lace, m)
      BY <1>2a DEF Fits
    <3> QED
      BY <1>0, <1>2a, <3>1, CutIntoIs
  <2> HIDE DEF parts
  <2> QED
    BY <2>1 DEF CutWell, parts
<1> HIDE DEF parts
<1>4. parts \in Seq(Segment) /\ x \in Segment /\ full \in Seq(Segment)
      /\ parts = Append(full, x) /\ Len(full) = q /\ \A k \in 1..q : full[k] = parts[k]
  <2>1. parts \in Seq(Segment)
    BY <1>3 DEF Segment
  <2>2. m \in 1..Len(parts) /\ q \in 0..Len(parts) /\ q < Len(parts) /\ q + 1 = m
    BY <1>1, <1>2a, <1>3
  <2>3. x \in Segment /\ full \in Seq(Segment) /\ Len(full) = q
    BY <2>1, <2>2
  <2>4. SubSeq(parts, 1, q + 1) = Append(full, parts[q + 1])
    BY <2>1, <2>2, SubMore
  <2>5. SubSeq(parts, 1, m) = parts
    BY <1>3, <2>1
  <2>6. \A k \in 1..q : full[k] = parts[k]
    BY <2>1, <2>2
  <2> QED
    BY <2>1, <2>2, <2>3, <2>4, <2>5, <2>6
<1>5. \A k \in 1..q : ~ Ogg!Ends(full[k])
  BY <1>0, <1>2a, <1>3, <1>4 DEF Ogg!Ends
<1>6. Ogg!Ends(x)
  <2> DEFINE i == q * Lace
  <2>1. (q + 1) * Lace = i + Lace /\ i \in Nat
    BY <1>0, <1>1
  <2>2. Len(x) = Len(packet) - i
    BY <1>2a, <1>3
  <2> HIDE DEF i, x
  <2>3. Len(packet) - i < Lace
    BY <1>0, <1>1, <2>1
  <2> QED
    BY <2>2, <2>3 DEF Ogg!Ends
<1> HIDE DEF full, x
<1>7. Ogg!Assembled(full).packets = <<>> /\ Ogg!Assembled(full).open = FlattenSeq(full)
  BY <1>4, <1>5, AssembledFull
<1>8. Ogg!Assembled(parts).packets = Append(Ogg!Assembled(full).packets,
                                            Cat(Ogg!Assembled(full).open, x))
      /\ Ogg!Assembled(parts).open = <<>>
  BY <1>4, <1>6, AssembledEnds
<1>9. Cat(FlattenSeq(full), x) = packet
  <2>1. full \in Seq(Seq(Tagged)) /\ x \in Seq(Tagged)
    BY <1>4 DEF Segment
  <2>2. FlattenSeq(Append(full, x)) = Cat(FlattenSeq(full), x)
    BY <2>1, FlattenMore
  <2> QED
    BY <2>2, <1>3, <1>4
<1>10. Ogg!Assembled(parts).packets = <<packet>>
  <2>1. Append(<<>>, packet) = <<packet>>
    BY <1>0
  <2> QED
    BY <2>1, <1>7, <1>8, <1>9
<1>11. LastEnds(parts)
  <2>1. parts # <<>> /\ parts[Len(parts)] = x
    BY <1>2a, <1>3, <1>4 DEF x
  <2> QED
    BY <2>1, <1>6 DEF LastEnds
<1> QED
  BY <1>2, <1>4, <1>8, <1>10, <1>11

\* The segments of packets, one packet after another.
Cut == [packet \in Segment |-> Ogg!Segments(packet)]

\* They make the packets again.
LEMMA LaidIs ==
  ASSUME NEW packets \in Seq(Segment)
  PROVE  /\ Cut \in Pickers(Segment, Segment) /\ Picked(packets, Cut) \in Seq(Segment)
         /\ Ogg!Assembled(Picked(packets, Cut)).packets = packets
         /\ Ogg!Assembled(Picked(packets, Cut)).open = <<>>
         /\ packets # <<>> => LastEnds(Picked(packets, Cut))
<1>0. Cut \in Pickers(Segment, Segment)
  <2>1. \A packet \in Segment : Ogg!Segments(packet) \in Seq(Segment)
    BY SegmentsAre
  <2> QED
    BY <2>1 DEF Cut, Pickers, Maps
<1>0a. \A packet \in Segment : Cut[packet] = Ogg!Segments(packet)
  BY DEF Cut
<1> DEFINE Made(c) == /\ Ogg!Assembled(Picked(c, Cut)).packets = c
                      /\ Ogg!Assembled(Picked(c, Cut)).open = <<>>
                      /\ c # <<>> => LastEnds(Picked(c, Cut))
           T == {c \in Seq(Segment) : Made(c)}
<1>1. <<>> \in T
  <2>1. Picked(<<>>, Cut) = <<>>
    BY <1>0, PickedIs
  <2>2. Ogg!Assembled(<<>>).packets = <<>> /\ Ogg!Assembled(<<>>).open = <<>>
    BY AssembledMore DEF Nothing
  <2>3. Made(<<>>)
    BY <2>1, <2>2
  <2>4. <<>> \in Seq(Segment)
    OBVIOUS
  <2> HIDE DEF Made
  <2> QED
    BY <2>3, <2>4
<1>2. ASSUME NEW c \in Seq(Segment), NEW x \in Segment, c \in T
      PROVE  Append(c, x) \in T
  <2> DEFINE a == Picked(c, Cut)
             b == Ogg!Segments(x)
  <2>1. a \in Seq(Segment) /\ Picked(Append(c, x), Cut) = Cat(a, Cut[x])
    BY <1>0, PickedIs
  <2>2. /\ b \in Seq(Segment) /\ LastEnds(b)
        /\ Ogg!Assembled(b).packets = <<x>> /\ Ogg!Assembled(b).open = <<>>
    BY SegmentsAre
  <2>3. Ogg!Assembled(a).packets = c /\ Ogg!Assembled(a).open = <<>>
    BY <1>2
  <2>4. Picked(Append(c, x), Cut) = Cat(a, b)
    BY <2>1, <1>0a
  <2> HIDE DEF a, b
  <2>5. /\ Ogg!Assembled(Cat(a, b)).packets = Cat(c, <<x>>)
        /\ Ogg!Assembled(Cat(a, b)).open = <<>>
    <3>1. /\ Ogg!Assembled(Cat(a, b)).packets
               = Cat(Ogg!Assembled(a).packets, Ogg!Assembled(b).packets)
          /\ Ogg!Assembled(Cat(a, b)).open = Ogg!Assembled(b).open
      BY <2>1, <2>2, <2>3, AssembledCat
    <3> QED
      BY <3>1, <2>2, <2>3
  <2>6. Cat(c, <<x>>) = Append(c, x)
    BY DEF Cat
  <2>7. LastEnds(Cat(a, b))
    BY <2>1, <2>2, LastOfCat
  <2>8. Made(Append(c, x))
    BY <2>4, <2>5, <2>6, <2>7
  <2>9. Append(c, x) \in Seq(Segment)
    OBVIOUS
  <2> HIDE DEF Made
  <2> QED
    BY <2>8, <2>9
<1>3. Seq(Segment) \subseteq T
  <2> HIDE DEF T
  <2> QED
    BY <1>1, <1>2, AllSeq
<1>4. Made(packets)
  BY <1>3
<1>5. Picked(packets, Cut) \in Seq(Segment)
  BY <1>0, PickedIs
<1> QED
  BY <1>0, <1>4, <1>5

=============================================================================
