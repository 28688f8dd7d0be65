---------------------------- MODULE LyricsCache -----------------------------
(***************************************************************************)
(* What is remembered of lyrics searches (lyrics.go, lyrics_config.go): the*)
(* songs without lyrics for minutes, the lyrics that were found for a day, *)
(* in memory and, by a goroutine that writes whole snapshots, in a file. A *)
(* song's key is made of the song and of the settings at that moment.      *)
(* LyricsSearch models the search between a miss and its answer.           *)
(***************************************************************************)
EXTENDS Naturals, FiniteSets, SequencesExt

CONSTANTS
    Songs, Options,
    Selecting,       \* the options that select an extension's provider
    Limit,           \* lyricsCacheMaxEntries
    MaxNegative,
    MaxChanges,      \* bound: changes of the cache in one run of the app
    MaxRestarts      \* bound: restarts

Keys == Songs \X Options
Sources == {"builtin", "extension"}

VARIABLES
    options,         \* the settings in force
    clearing,        \* a change of the settings has the cache yet to clear
    cache,           \* entries [key, source], the oldest first
    negative,        \* keys without lyrics
    searching,       \* the flights: [key, old] and what they found in the cache
    file,            \* the entries of the file
    opened,          \* is the persistence path set?
    generation,      \* persistGeneration
    writer,          \* the goroutine: [pc, entries, generation]
    restarts,        \* bound: restarts so far
    dropped,         \* history: what DropMemory released of the file, or of what
                     \* the goroutine writes, not cleared since
    behind           \* history: a write failed, or lyrics were found before
                     \* there was a file, and nothing was written since

disk == <<file, opened, generation, writer, restarts>>
history == <<dropped, behind>>
vars == <<options, clearing, cache, negative, searching, disk, history>>

NoWriter == [pc |-> "none", entries |-> {}, generation |-> 0]

Init ==
    /\ options \in Options /\ clearing = FALSE
    /\ cache = <<>> /\ negative = {} /\ searching = {}
    /\ file = {} /\ opened = FALSE /\ generation = 0 /\ writer = NoWriter /\ restarts = 0
    /\ dropped = {} /\ behind = FALSE

KeysOf(entries) == {e.key : e \in entries}
Entry(k) == {e \in ToSet(cache) : e.key = k}

\* schedulePersistenceLocked
Schedule ==
    IF opened
    THEN /\ generation' = generation + 1
         /\ writer' = IF writer.pc = "none" THEN [writer EXCEPT !.pc = "asleep"] ELSE writer
    ELSE UNCHANGED <<generation, writer>>

\* lyricsCache.Set: the oldest make room, and the entry of the key is replaced.
Put(key, source) ==
    LET room == IF Len(cache) >= Limit THEN SubSeq(cache, Len(cache) - Limit + 2, Len(cache))
                ELSE cache
        same == {i \in DOMAIN room : room[i].key = key}
        kept == IF same = {} THEN room ELSE RemoveAt(room, CHOOSE i \in same : TRUE)
    IN /\ cache' = Append(kept, [key |-> key, source |-> source])
       /\ Schedule
       /\ UNCHANGED <<file, opened, restarts>>

\* FetchLyricsAllSources: neither known to have none, nor looked for already,
\* nor cached from a source that is selected.
Search(song) ==
    LET key == <<song, options>>
        served == {e \in Entry(key) : (e.source = "extension") = (options \in Selecting)}
    IN /\ key \notin negative /\ served = {}
       /\ \A f \in searching : f.key # key
       /\ searching' = searching \cup {[key |-> key,
                                      old |-> {e \in Entry(key) : e.source = "builtin"}]}
       /\ UNCHANGED <<options, clearing, cache, negative, disk, history>>

Found(f) ==
    /\ f \in searching /\ searching' = searching \ {f}
    /\ generation < MaxChanges
    /\ \E source \in IF f.key[2] \in Selecting THEN Sources ELSE {"builtin"} :
         Put(<<f.key[1], options>>, source)
    /\ negative' = negative \ {f.key}
    /\ UNCHANGED <<options, clearing, history>>

\* cacheNegativeLyrics, unless an old answer of another source is left.
NotFound(f) ==
    /\ f \in searching /\ searching' = searching \ {f}
    /\ IF f.old # {} THEN negative' = negative \ {f.key}
       ELSE \E keep \in SUBSET negative :
              /\ IF Cardinality(negative) < MaxNegative THEN keep = negative
                 ELSE Cardinality(keep) = MaxNegative - 1
              /\ negative' = keep \cup {f.key}
    /\ UNCHANGED <<options, clearing, cache, disk, history>>

NegativeExpires(k) ==
    /\ k \in negative /\ negative' = negative \ {k}
    /\ UNCHANGED <<options, clearing, cache, searching, disk, history>>

\* The time of the oldest entry is over, or of one that only the file has: Get
\* and SetPersistencePath pass it by and Set makes room of it first, so that it
\* is as good as gone wherever it is.
Expires ==
    /\ \E gone \in SUBSET (file \cup writer.entries \cup ToSet(cache)) :
         /\ \/ cache # <<>> /\ cache' = Tail(cache) /\ gone = ToSet(cache) \ ToSet(cache')
            \/ UNCHANGED cache /\ Cardinality(gone) = 1 /\ gone \cap ToSet(cache) = {}
         /\ file' = file \ gone /\ dropped' = dropped \ gone
         /\ writer' = [writer EXCEPT !.entries = @ \ gone]
    /\ UNCHANGED <<options, clearing, negative, searching, opened, generation, restarts, behind>>

\* SetLyricsFetchOptions, SetLyricsProviderOrder: the settings change under
\* one lock ...  Bound: one such call at a time.
SetOptions(o) ==
    /\ o # options /\ options' = o
    /\ ~clearing /\ clearing' = TRUE
    /\ generation < MaxChanges
    /\ UNCHANGED <<cache, negative, searching, disk, history>>

\* ... and ClearAll empties the cache under another.
ClearAll ==
    /\ clearing /\ clearing' = FALSE
    /\ cache' = <<>> /\ dropped' = {} /\ Schedule
    /\ UNCHANGED <<options, negative, searching, file, opened, restarts, behind>>

\* The memory is released; nothing is scheduled.
DropMemory ==
    /\ cache # <<>> /\ cache' = <<>>
    /\ dropped' = (dropped \cup ToSet(cache)) \cap (file \cup writer.entries)
    /\ UNCHANGED <<options, clearing, negative, searching, disk, behind>>

\* SetPersistencePath, once after the start: what is loaded yields to what
\* has been found meanwhile.
Open ==
    /\ ~opened /\ opened' = TRUE
    /\ LET loaded == {e \in file : e.key \notin KeysOf(ToSet(cache))} IN
       cache' = SetToSeq(loaded) \o cache
    /\ behind' = (cache # <<>>)
    /\ UNCHANGED <<options, clearing, negative, searching, file, generation, writer, restarts,
                   dropped>>

\* persistAfterDebounce
Snapshot ==
    /\ writer.pc = "asleep"
    /\ writer' = [pc |-> "writing", entries |-> ToSet(cache), generation |-> generation]
    /\ UNCHANGED <<options, clearing, cache, negative, searching, file, opened, generation,
                   restarts, history>>

Write ==
    /\ writer.pc = "writing"
    /\ writer' = [writer EXCEPT !.pc = "written"]
    /\ \/ file' = writer.entries /\ behind' = FALSE
       \/ UNCHANGED file /\ behind' = TRUE
    /\ UNCHANGED <<options, clearing, cache, negative, searching, opened, generation, restarts,
                   dropped>>

\* Mutant: the goroutine ends without looking for changes made meanwhile.
Finish_Bug ==
    /\ writer.pc = "written"
    /\ writer' = NoWriter
    /\ UNCHANGED <<options, clearing, cache, negative, searching, file, opened, generation,
                   restarts, history>>

Finish ==
    /\ writer.pc = "written"
    /\ writer' = IF writer.generation = generation THEN NoWriter
                 ELSE [writer EXCEPT !.pc = "asleep"]
    /\ UNCHANGED <<options, clearing, cache, negative, searching, file, opened, generation,
                   restarts, history>>

\* The app dies: a snapshot is in the file or not, never in part.
Crash ==
    /\ restarts < MaxRestarts /\ restarts' = restarts + 1
    /\ cache' = <<>> /\ negative' = {} /\ searching' = {}
    /\ opened' = FALSE /\ generation' = 0 /\ writer' = NoWriter
    /\ clearing' = FALSE /\ dropped' = {} /\ behind' = FALSE
    /\ UNCHANGED <<options, file>>

Next ==
    \/ \E song \in Songs : Search(song)
    \/ \E f \in searching : Found(f) \/ NotFound(f)
    \/ \E k \in negative : NegativeExpires(k)
    \/ \E o \in Options : SetOptions(o)
    \/ Expires \/ ClearAll \/ DropMemory \/ Open \/ Snapshot \/ Write \/ Finish \/ Crash

Spec == Init /\ [][Next]_vars

\* While no goroutine is to write and no write has failed, the file holds what
\* the cache holds, and nothing else but what was dropped from the memory since
\* the settings changed: no change made while a snapshot was being written, or
\* between the two locks of a change of the settings, is forgotten.
FileCaughtUp ==
    opened /\ writer.pc = "none" /\ ~behind =>
      ToSet(cache) \subseteq file /\ file \subseteq ToSet(cache) \cup dropped

\* "DropMemory releases the in-memory snapshot without deleting the persistent
\* cache ... a later app start can still restore successful lyrics lookups from
\* disk" (lyrics_config.go:444-446): what was dropped and is in the file stays
\* there while it is good, for as long as there is room.
KeepsDropped ==
    \A e \in file \cap dropped' : Cardinality(file') < Limit => e.key \in KeysOf(file')
DroppedAreKept == [][KeepsDropped]_vars

=============================================================================
