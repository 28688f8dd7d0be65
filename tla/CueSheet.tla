------------------------------ MODULE CueSheet ------------------------------
(***************************************************************************)
(* Cue sheets (cue_parser.go): the sheet that the lines of a .cue file say,*)
(* the parts its audio file is split into, and the rows of the library     *)
(* that its tracks are.  A line is its command and its argument; times are *)
(* in frames.                                                              *)
(***************************************************************************)
EXTENDS Integers, Sequences, SequencesExt

\* The text of what a sheet does not say.
NoText == ""

Line(cmd, arg) == [cmd |-> cmd, arg |-> arg]

Sheet(file, performer, tracks) == [file |-> file, performer |-> performer, tracks |-> tracks]
NewTrack(n) == [number |-> n, performer |-> NoText, start |-> 0, preGap |-> -1]

\* The track whose lines are being read is the last one.
Current(sheet) == sheet.tracks[Len(sheet.tracks)]
InTrack(sheet, track) == [sheet EXCEPT !.tracks[Len(sheet.tracks)] = track]

\* ParseCueFile, one line.  TITLE, SONGWRITER and REM COMPOSER are taken as
\* PERFORMER is; ISRC belongs to a track only, as INDEX does.
Read(sheet, line) ==
    IF line.cmd = "FILE" THEN [sheet EXCEPT !.file = line.arg]
    ELSE IF line.cmd = "PERFORMER"
         THEN IF sheet.tracks = <<>> THEN [sheet EXCEPT !.performer = line.arg]
              ELSE InTrack(sheet, [Current(sheet) EXCEPT !.performer = line.arg])
    ELSE IF line.cmd = "TRACK" THEN [sheet EXCEPT !.tracks = Append(@, NewTrack(line.arg))]
    ELSE IF line.cmd = "INDEX_00" /\ sheet.tracks # <<>>
         THEN InTrack(sheet, [Current(sheet) EXCEPT !.preGap = line.arg])
    ELSE IF line.cmd = "INDEX_01" /\ sheet.tracks # <<>>
         THEN InTrack(sheet, [Current(sheet) EXCEPT !.start = line.arg])
    ELSE sheet

\* ParseCueFile, line after line.
ParseCueFile(lines) ==
    LET sheet[n \in 0..Len(lines)] ==
            IF n = 0 THEN Sheet(NoText, NoText, <<>>) ELSE Read(sheet[n - 1], lines[n])
    IN  sheet[Len(lines)]

Performer(sheet, i) ==
    IF sheet.tracks[i].performer # NoText THEN sheet.tracks[i].performer ELSE sheet.performer

\* Where the next track begins: its pre-gap is nobody's.  Mutant: a pre-gap
\* goes to the track before it.
NextStart_Bug(sheet, i) == sheet.tracks[i + 1].start

NextStart(sheet, i) ==
    LET next == sheet.tracks[i + 1] IN IF next.preGap >= 0 THEN next.preGap ELSE next.start

\* BuildCueSplitInfo: the last track goes on to the end, -1.
Split(sheet) ==
    [i \in DOMAIN sheet.tracks |->
        [number |-> sheet.tracks[i].number, artist |-> Performer(sheet, i),
         start |-> sheet.tracks[i].start,
         end |-> IF i < Len(sheet.tracks) THEN NextStart(sheet, i) ELSE -1]]

\* scanCueSheetForLibrary; the length of the audio file is 0 when unknown.
LibraryTracks(sheet, length) ==
    [i \in DOMAIN sheet.tracks |->
        [number |-> sheet.tracks[i].number,
         artist |-> IF Performer(sheet, i) = NoText THEN "Unknown_Artist" ELSE Performer(sheet, i),
         duration |-> IF i < Len(sheet.tracks) THEN NextStart(sheet, i) - sheet.tracks[i].start
                      ELSE IF length > 0 THEN length - sheet.tracks[i].start ELSE 0]]

-----------------------------------------------------------------------------
\* A disc: its performer and its tracks, each with a performer of its own or
\* none, a pre-gap or 0, and a length.  How long are its first tracks?
LengthOf(disc, count) ==
    LET length[n \in 0..Len(disc)] ==
            IF n = 0 THEN 0 ELSE length[n - 1] + disc[n].gap + disc[n].length
    IN  length[count]

\* A track comes after those before it.
TrackLines(disc, i) ==
    LET at == LengthOf(disc, i - 1)
        t  == disc[i]
    IN  <<Line("TRACK", i)>>
        \o (IF t.performer = NoText THEN <<>> ELSE <<Line("PERFORMER", t.performer)>>)
        \o (IF t.gap = 0 THEN <<>> ELSE <<Line("INDEX_00", at)>>)
        \o <<Line("INDEX_01", at + t.gap)>>

\* The sheet of a disc that is one file.
SheetOf(performer, disc) ==
    (IF performer = NoText THEN <<>> ELSE <<Line("PERFORMER", performer)>>)
    \o <<Line("FILE", "disc.flac")>>
    \o FlattenSeq([i \in DOMAIN disc |-> TrackLines(disc, i)])

\* A disc is split into its tracks: each has its own performer, or the
\* disc's, and its own length, which the library shows as well; no sound is
\* in two of them, and none is lost but the pre-gaps.
SplitsDisc(performer, disc, length) ==
    LET sheet == ParseCueFile(SheetOf(performer, disc))
        parts == Split(sheet)
        shown == LibraryTracks(sheet, length)
        mine(i) == IF disc[i].performer # NoText THEN disc[i].performer ELSE performer
        end(i) == IF parts[i].end = -1 THEN length ELSE parts[i].end
    IN /\ sheet.file = "disc.flac" /\ DOMAIN parts = DOMAIN disc
       /\ \A i \in DOMAIN disc :
             /\ parts[i].number = i /\ parts[i].artist = mine(i)
             /\ end(i) - parts[i].start = disc[i].length
             /\ shown[i].duration = disc[i].length
             /\ i > 1 => parts[i].start = end(i - 1) + disc[i].gap

=============================================================================
