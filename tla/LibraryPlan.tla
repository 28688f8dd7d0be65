----------------------------- MODULE LibraryPlan -----------------------------
(***************************************************************************)
(* Which files of a folder a library scan reads and what becomes of the    *)
(* rows of the library (library_scan.go, library_scan_incremental.go,      *)
(* cue_parser.go).  A folder is a function from paths, [base, ext], to     *)
(* files: the time of the last change and, of a .cue file, the path it     *)
(* names (None when it has no FILE line) and its number of tracks, 0 when  *)
(* it cannot be read.  A library is a function from rows, [path, track],   *)
(* to times; track 0 is the file itself.                                   *)
(***************************************************************************)
EXTENDS Naturals, FiniteSets, Functions

Nowhere == [base |-> "", ext |-> ""]

\* What a .cue file without a FILE line names is the directory.
Directory == [base |-> ".", ext |-> ""]

Cues(folder) == {p \in DOMAIN folder : p.ext = "cue"}
Audio(folder) == DOMAIN folder \ Cues(folder)

\* Of the files with a name, the one whose extension comes first.
Named(folder, base) ==
    LET same == {p \in Audio(folder) : p.base = base}
    IN  IF same = {} THEN Nowhere
        ELSE IF \E p \in same : p.ext = "flac" THEN CHOOSE p \in same : p.ext = "flac"
        ELSE CHOOSE p \in same : TRUE

\* ResolveCueAudioPath: as it is named; with another extension; under the
\* name of the .cue file; the only audio file.
Resolve(folder, cue) ==
    LET file == folder[cue].file IN
    IF file = Directory \/ file \in DOMAIN folder THEN file
    ELSE IF Named(folder, file.base) # Nowhere THEN Named(folder, file.base)
    ELSE IF Named(folder, cue.base) # Nowhere THEN Named(folder, cue.base)
    ELSE IF Cardinality(Audio(folder)) = 1 THEN CHOOSE p \in Audio(folder) : TRUE
    ELSE Nowhere

\* The audio that some .cue file stands for.
Referenced(folder, cues) ==
    {Resolve(folder, c) : c \in {d \in cues : folder[d].tracks > 0 /\ folder[d].file # Directory}}
      \ {Nowhere}

Row(path, track) == [path |-> path, track |-> track]

\* The rows that the scan of some of the files gives.
Rows(folder, files) ==
    LET cues == files \cap Cues(folder)
        read == {c \in cues : Resolve(folder, c) # Nowhere}
        rows == (UNION {{Row(c, i) : i \in 1..folder[c].tracks} : c \in read})
                \cup {Row(p, 0) : p \in files \ (cues \cup Referenced(folder, cues))}
    IN  [r \in rows |-> folder[r.path].time]

\* scanLibraryFolderWithSink
Full(folder) == Rows(folder, DOMAIN folder)

\* scanLibraryFolderIncrementalWithExistingFiles: a .cue file has the time of
\* one of its tracks, whichever comes first.
KnownTimes(library, p) ==
    IF Row(p, 0) \in DOMAIN library THEN {library[Row(p, 0)]}
    ELSE IF p.ext = "cue" THEN {library[r] : r \in {q \in DOMAIN library : q.path = p}}
    ELSE {}

ToScan(folder, library, seen) == {p \in DOMAIN folder : seen[p] # folder[p].time}

\* Each file's known time, 0 when it has none.
Seen(folder, library) ==
    {s \in [DOMAIN folder -> {0} \cup Range(library)] :
       \A p \in DOMAIN folder :
          LET known == KnownTimes(library, p) IN s[p] \in IF known = {} THEN {0} ELSE known}

\* Mutant: a track of a .cue file is looked for among the files.
Deleted_Bug(folder, library) ==
    {r \in DOMAIN library : r.path \notin DOMAIN folder \/ r.track > 0}

Deleted(folder, library) == {r \in DOMAIN library : r.path \notin DOMAIN folder}

\* What the library is when the deleted rows are gone and the scanned ones
\* are in.
Rescan(folder, library, seen) ==
    LET scanned == Rows(folder, ToScan(folder, library, seen))
        kept == Restrict(library, DOMAIN library \ Deleted(folder, library))
    IN  [r \in DOMAIN scanned \cup DOMAIN kept |->
            IF r \in DOMAIN scanned THEN scanned[r] ELSE kept[r]]

\* A file that is changed gets another time.
Changes(before, after) ==
    \A p \in DOMAIN before \cap DOMAIN after :
       before[p].time = after[p].time => before[p] = after[p]

\* What the library may hold that a full scan would not give: the audio that a
\* .cue file stands for, whose row is added or kept when that .cue file is not
\* scanned with it, and tracks that a .cue file had when it was scanned before.
Leftover(before, after, r) ==
    \/ r.track = 0 /\ r.path \in Referenced(after, Cues(after))
    \/ r.path \in Cues(after) /\ r \in DOMAIN Full(before)

\* After any change of a folder, an incremental scan leaves the library with
\* every row that a full scan gives, as of the last change of its file, with
\* none of a file that is gone, and with no other row than the leftovers.
RescanKeepsUp(before, after) ==
    Changes(before, after) => \A seen \in Seen(after, Full(before)) :
       LET library == Rescan(after, Full(before), seen)
           full == Full(after)
       IN /\ \A r \in DOMAIN full : r \in DOMAIN library /\ library[r] = full[r]
          /\ \A r \in DOMAIN library : r.path \in DOMAIN after
          /\ \A r \in DOMAIN library \ DOMAIN full : Leftover(before, after, r)

=============================================================================
