------------------------------- MODULE MCData -------------------------------
(***************************************************************************)
(* TLC: files, folders and what services answer.  The algorithms run over  *)
(* every input of a bounded set: a state is an input, with the file an edit *)
(* is asked to change and what it makes of it, and nothing happens to it.  *)
(* With the input "index", the index of a download directory is at work.   *)
(***************************************************************************)
EXTENDS Integers, SequencesExt, FiniteSetsExt, TLC

CONSTANTS
    EntryLimit, Lace, PageSegments, MaxHeaderPages,
    \* ISRCIndex
    Callers, Paths, ISRCs, None, TTL, MaxWrites, MaxBuilds, MaxTime

ASSUME PageLimits == Lace \in Nat \ {0, 1} /\ PageSegments \in Nat \ {0}

Tag == INSTANCE M4ATags
Ogg == INSTANCE OggPages
Cue == INSTANCE CueSheet
Library == INSTANCE LibraryPlan
Lyrics == INSTANCE LRCLib
Health == INSTANCE HealthStatus
Links == INSTANCE LinkResolvers

VARIABLES
    input, before, after,   \* an input, and what an edit makes of a file
    \* ISRCIndex
    now, disk, writes, indexes, cached, building, caller

edit == <<input, before, after>>
indexing == <<now, disk, writes, indexes, cached, building, caller>>

Index == INSTANCE ISRCIndex

-----------------------------------------------------------------------------
(* MP4 files. *)

SomeTags ==
    Tag!TextTag("nam", "old") \o Tag!IndexTag("trkn", 1, 2) \o Tag!TextTag("gnre", "old")
    \o Tag!Freeform("ISRC", "old") \o Tag!Freeform("ORGANIZATION", "old")
    \o Tag!Freeform("SYNCEDLYRICS", "old") \o Tag!Freeform("replaygain_track_gain", "old")
    \o Tag!Freeform("iTunNORM", "old")
    \o Tag!TextTag("covr", "old") \o Tag!TextTag("rtng", "1")

UdtaKinds == {"none", "empty", "bare", "meta", "tags", "quicktime", "outer"}

UdtaBox(kind) ==
    IF kind = "none" THEN <<>>
    ELSE IF kind = "empty" THEN Tag!Atom("udta", <<>>)
    ELSE IF kind = "bare" THEN Tag!Atom("udta", Tag!Atom("meta", <<Tag!Data("version")>>))
    ELSE IF kind = "meta" THEN Tag!Atom("udta", Tag!MetaBox(<<>>))
    ELSE IF kind = "tags" THEN Tag!Atom("udta", Tag!MetaBox(SomeTags))
    ELSE IF kind = "quicktime"
         THEN Tag!Atom("udta", Tag!Atom("meta", Tag!Atom("hdlr", <<Tag!Data("mdta")>>)
                                                \o Tag!Atom("ilst", SomeTags)))
    ELSE Tag!MetaBox(SomeTags)

Entries == [mp4a |-> Tag!Atom("mp4a", <<Tag!Data("v0")>>),
            v0 |-> Tag!Atom("ac-4", <<Tag!Data("v0")>>),
            v1 |-> Tag!Atom("ac-4", <<Tag!Data("v1"), Tag!Data("added")>>),
            short |-> Tag!Atom("ac-4", <<Tag!Data("v1")>>),
            ready |-> Tag!Atom("ac-4", <<Tag!Data("v1"), Tag!Data("added")>>
                                       \o Tag!Atom("dac4", <<Tag!Data("old")>>))]

\* The entries of a table name samples, until the places of these are known.
TrakBox(entry, table, samples) ==
    Tag!Atom("trak", Tag!Atom("mdia", Tag!Atom("minf", Tag!Atom("stbl",
        Tag!Atom("stsd", <<Tag!Data("fields")>> \o Entries[entry])
        \o Tag!Atom(table, [i \in DOMAIN samples |-> Tag!Entry(table, samples[i])])))))

Resolved(file) ==
    LET PlaceOf(k) == CHOOSE i \in DOMAIN file : file[i] = Tag!Sample(k)
    IN  [i \in DOMAIN file |-> IF file[i].kind = "entry"
                               THEN [file[i] EXCEPT !.n = PlaceOf(file[i].n)] ELSE file[i]]

Ftyp == Tag!Atom("ftyp", <<Tag!Data("qt"), Tag!Data("qt")>>)
Mdat(samples) == Tag!Atom("mdat", [i \in DOMAIN samples |-> Tag!Sample(samples[i])])

\* The box with the samples comes before moov, after it, or both; a moov box at
\* the end may say that it goes on to the end.
Layouts == [udta : UdtaKinds, first : BOOLEAN, entry : DOMAIN Entries,
            tables : {<<"stco">>, <<"co64">>, <<"stco", "co64">>},
            order : {"before", "after", "both", "open"}]

FileOf(l) ==
    LET traks == TrakBox(l.entry, l.tables[1], <<1, 2>>)
                 \o (IF Len(l.tables) = 1 THEN <<>> ELSE TrakBox("mp4a", l.tables[2], <<3>>))
        moov  == Tag!Atom("moov", IF l.first THEN UdtaBox(l.udta) \o traks
                                  ELSE traks \o UdtaBox(l.udta))
        open  == [moov EXCEPT ![1].n = 0]
    IN  Resolved(IF l.order = "before" THEN Ftyp \o moov \o Mdat(<<1, 2, 3>>)
                 ELSE IF l.order = "after" THEN Ftyp \o Mdat(<<1, 2, 3>>) \o moov
                 ELSE IF l.order = "open" THEN Ftyp \o Mdat(<<1, 2, 3>>) \o open
                 ELSE Ftyp \o Mdat(<<1>>) \o moov \o Mdat(<<2, 3>>))

FieldEdits == {
    [title |-> "new", genre |-> "new", cover_path |-> "new"],
    [title |-> "", lyrics |-> "new"],
    [isrc |-> "new", label |-> ""], [isrc |-> "", upc |-> "new", explicit |-> ""],
    [track_number |-> "2"], [track_total |-> "1", disc_total |-> "1"],
    [track_number |-> "", disc_number |-> "1", compilation |-> "true"],
    [replaygain_track_gain |-> "2", replaygain_track_peak |-> "1", title |-> "new"],
    [replaygain_track_gain |-> "2", cover_path |-> "unreadable"],
    [replaygain_album_gain |-> "new", explicit |-> "yes"], [replaygain_track_gain |-> ""]}

Edits == [op : {"fields", "gains", "text"}, fields : FieldEdits]
Extras == {[op |-> "config"], [op |-> "no_config"], [op |-> "tags"]}

Edited(file, e) ==
    IF e.op = "fields" THEN Tag!EditFields(file, e.fields)
    ELSE IF e.op = "gains" THEN Tag!EditGains(file, e.fields)
    ELSE IF e.op = "text" THEN Tag!EditText(file, e.fields)
    ELSE IF e.op = "config"
         THEN Tag!EnsureConfig(file, Tag!Atom("dac4", <<Tag!Data("new")>>))
    ELSE IF e.op = "no_config" THEN Tag!EnsureConfig(file, <<>>)
    ELSE Tag!WriteAC4Tags(file, Tag!TextTag("nam", "new"))

-----------------------------------------------------------------------------
(* Vorbis comments, and Ogg files. *)

V(key, value) == <<Ogg!Comment(key, value)>>

\* The comments of a file: what it may have under each of some fields.
Spelled == <<
    {<<>>, V("ORGANIZATION", <<"old">>), V("LABEL", <<"old">>),
     V("PUBLISHER", <<"older">>) \o V("ORGANIZATION", <<"old">>)},
    {<<>>, V("DATE", <<"old">>), V("YEAR", <<"old">>)},
    {<<>>, V("TRACKNUMBER", <<"1", "2">>), V("TRACK", <<"1", "2">>),
     V("TRACKNUMBER", <<"x">>) \o V("TRACK", <<"1">>)},
    {<<>>, V("ARTIST", <<"a", "b">>), V("ARTIST", <<"a">>) \o V("ARTIST", <<"b">>)},
    {<<>>, V("UPC", <<"old">>), V("BARCODE", <<"old">>), V("COMPILATION", <<"1">>)},
    {<<>>, V("LYRICS", <<"old">>), V("SYNCEDLYRICS", <<"old">>)}>>

CommentLists ==
    {a \o b \o c \o d \o e \o f : a \in Spelled[1], b \in Spelled[2], c \in Spelled[3],
                                  d \in Spelled[4], e \in Spelled[5], f \in Spelled[6]}

CommentEdits == {
    [title |-> <<"new">>, artist |-> <<"a", "b", "a">>, album_artist |-> <<"c">>],
    [label |-> <<"new">>, upc |-> <<"new">>, date |-> <<>>],
    [label |-> <<>>, upc |-> <<>>, lyrics |-> <<"new">>],
    [track_number |-> <<"2">>], [track_total |-> <<"3">>, lyrics |-> <<>>],
    [track_number |-> <<>>, disc_number |-> <<"1">>, disc_total |-> <<"2">>],
    [album_type |-> <<>>, artist |-> <<>>],
    [compilation |-> <<"1">>, replaygain_track_gain |-> <<"new">>]}

Downloads == {
    [title |-> <<"new">>, artist |-> <<"a", "b", "a">>, track |-> <<"2", "3">>, label |-> <<"new">>],
    [album_type |-> <<"compilation">>, lyrics |-> <<"new">>, date |-> <<>>, disc |-> <<"1">>]}

Blocks == {Ogg!Block("comments", V("LYRICS", <<"old">>)), Ogg!Block("comments", V("TITLE", <<"old">>)),
           Ogg!Block("picture", V("old", <<"old">>)), Ogg!Block("other", <<>>)}
Covers == {"none", "good", "unfit"}

Streams == [codec : {"opus", "vorbis"}, comments : 0..7, setup : 0..3, audio : 0..2,
            mixed : BOOLEAN]

\* The file of an encoder: its identification has a page of its own.
StreamOf(s) ==
    LET comments == [i \in 1..s.comments |->
                        Ogg!Comment(IF i = 1 THEN "TITLE" ELSE "OTHER", <<"old">>)]
        tags  == Ogg!CommentPacket(Ogg!Mark("vendor"), comments, s.codec)
        setup == IF s.codec = "opus" THEN <<>>
                 ELSE <<[i \in 1..s.setup |-> Ogg!Mark("setup")]>>
        pages == <<Ogg!Page("s", 0, FALSE, <<<<Ogg!Mark(s.codec)>>>>)>>
                 \o Ogg!Paginate(<<tags>> \o setup, "s", 1)
    IN  pages \o [i \in 1..s.audio |->
                     Ogg!Page(IF s.mixed /\ i = 2 THEN "t" ELSE "s", Len(pages) + i - 1, FALSE,
                              <<<<Ogg!Mark("audio"), Ogg!Mark("audio")>>, <<>>>>)]

StreamEdits == {
    [title |-> <<"new">>], [title |-> <<>>], [genre |-> <<"new">>, cover_path |-> <<"new">>],
    [title |-> <<>>, replaygain_track_gain |-> <<"new">>],
    [artist |-> <<"a">>, album |-> <<"b">>, lyrics |-> <<"c">>, cover_path |-> <<"d">>]}

-----------------------------------------------------------------------------
(* Cue sheets, and the folders they are in. *)

Discs == UNION {[1..n -> [performer : {Cue!NoText, "guest"}, gap : {0, 2}, length : {3, 5}]] : n \in 1..3}

P(base, ext) == [base |-> base, ext |-> ext]
CueFiles(times) == [time : times, tracks : 0..2,
                    file : {P("a", "flac"), P("b", "mp3"), P("x", "wav"), Library!Directory}]
AudioFiles(times) == [time : times, tracks : {0}, file : {Library!Directory}]

Folders(times) ==
    UNION {{[p \in DOMAIN cue \cup DOMAIN one \cup DOMAIN two |->
                IF p \in DOMAIN cue THEN cue[p] ELSE IF p \in DOMAIN one THEN one[p] ELSE two[p]] :
              cue \in {<<>>} \cup [{P("c", "cue")} -> CueFiles(times)],
              one \in {<<>>} \cup [{P("a", "mp3")} -> AudioFiles(times)]} :
           two \in {<<>>} \cup [{P("b", "mp3")} -> AudioFiles(times)]}

-----------------------------------------------------------------------------
(* What services answer. *)

\* A song that is known to have no lyrics has none.
Record == {r \in [matches : BOOLEAN, synced : BOOLEAN, plain : BOOLEAN, instrumental : BOOLEAN] :
             r.instrumental => ~r.synced /\ ~r.plain}
Song == [matches |-> TRUE, synced |-> FALSE, plain |-> FALSE, instrumental |-> FALSE]

\* A record is one record; a search may find several.
Gets == {Lyrics!Unavailable, Lyrics!Missing}
        \cup {Lyrics!Records(<<r>>) : r \in {Song, [Song EXCEPT !.synced = TRUE],
                                            [Song EXCEPT !.plain = TRUE],
                                            [Song EXCEPT !.instrumental = TRUE],
                                            [Song EXCEPT !.matches = FALSE, !.plain = TRUE]}}
Searches == {Lyrics!Unavailable} \cup {Lyrics!Records(<<r, s>>) : r \in Record, s \in Record}

GetQueries == {"get", "get credit", "get simplified"}
SearchQueries == {"search", "search simplified"}
Requests == [credit : BOOLEAN, simplified : BOOLEAN]

LyricsAnswers ==
    LET Either(g, s) == [q \in GetQueries \cup SearchQueries |->
                            IF q \in GetQueries THEN g[q] ELSE s[q]]
        found == Lyrics!Records(<<[Song EXCEPT !.plain = TRUE]>>)
    IN  {Either(g, s) : g \in [GetQueries -> Gets],
                        s \in [SearchQueries -> {Lyrics!Unavailable, Lyrics!Missing, found}]}
        \cup {Either(g, s) : g \in [GetQueries -> {Lyrics!Missing}],
                             s \in [SearchQueries -> Searches]}

Url == [https : BOOLEAN, host : {"deezer", "tidal"}, search : BOOLEAN]
PartialMaps == UNION {[ps -> Url] : ps \in SUBSET {"deezer", "tidal"}}

Candidates == [score : {80, 95}, title : BOOLEAN, artist : {TRUE}, id : {1, 2}]

LinkAnswers ==
    {<<"web", landed, anchors>> : landed \in BOOLEAN, anchors \in {<<u, v>> : u \in Url, v \in Url}}
    \cup {<<"musicbrainz", TRUE, cs>> : cs \in {<<c, d>> : c \in Candidates, d \in Candidates}}

Answered(source, a, page) ==
    IF a[1] = "web" THEN Links!SongLinkWeb(source, TRUE, a[2], a[3])
    ELSE Links!MusicBrainz(a[2], a[3], <<page, Reverse(page)>>)

-----------------------------------------------------------------------------

Algorithms ==
    \/ \E c \in CommentLists, e \in CommentEdits, split \in BOOLEAN :
           input = <<"comments", c, e, split>>
    \/ \E c \in CommentLists, d \in Downloads, split \in BOOLEAN :
           input = <<"download", c, d, split>>
    \/ \E n \in 0..3 : \E bs \in [1..n -> Blocks], e \in CommentEdits, cover \in Covers :
           input = <<"flac", bs, e, cover>>
    \/ \E performer \in {Cue!NoText, "band"}, disc \in Discs : input = <<"disc", performer, disc>>
    \/ \E first \in Folders({1}), second \in Folders({1, 2}) :
           input = <<"folder", first, second>>
    \/ \E request \in Requests, answers \in LyricsAnswers : input = <<"lyrics", request, answers>>
    \/ \E c \in Health!Check, a \in Health!Answer : input = <<"check", c, a>>
    \/ \E n \in 0..3 : \E rs \in [1..n -> [status : {"online", "degraded", "offline", "unknown"},
                                          required : BOOLEAN]] : input = <<"checks", rs>>
    \/ \E source \in Url, a \in LinkAnswers, services \in PartialMaps :
           input = <<"links", source, a, services>>

\* Of the ISRCs, which differ in nothing but their names, the old files have one.
MCInit ==
    /\ Index!Init
    /\ \/ (Algorithms \/ input = <<"index">>) /\ before = <<>> /\ after = <<>>
       \/ \E l \in Layouts, e \in Edits \cup Extras :
              input = <<"mp4", e>> /\ before = FileOf(l) /\ after = Edited(before, e)
       \/ \E s \in Streams, e \in StreamEdits :
              input = <<"ogg", e>> /\ before = StreamOf(s) /\ after = Ogg!EditOgg(before, e)
    /\ \A p \in Paths : disk[p] # None =>
         input = <<"index">> /\ disk[p].isrc = CHOOSE i \in ISRCs : TRUE
MCNext == input = <<"index">> /\ Index!Next /\ UNCHANGED edit
MCSpec == MCInit /\ [][MCNext]_<<edit, indexing>>


\* An edit of comments, and the tags of a download, read back as they were asked
\* for; an edit of a FLAC file touches nothing else, and the stream of an Ogg file
\* stays whole.
TagsAsAsked ==
    /\ input[1] = "comments" => Ogg!EditReadsBack(input[2], input[3], input[4])
    /\ input[1] = "download" => Ogg!EmbedReadsBack(input[2], input[3], input[4])
    /\ input[1] = "flac" => Ogg!FlacReadsBack(input[2], input[3], FALSE, input[4])
    /\ input[1] = "ogg" => Ogg!EditKeepsStream(before, input[2], after)

\* What a service has answered is told as it is.
AnswersAsMeant ==
    /\ input[1] = "lyrics" => Lyrics!SaysWhatItHas(input[2], input[3])
    /\ input[1] = "check" => Health!TransientNotOffline(input[2], input[3])
    /\ input[1] = "checks" => Health!StatusOfAll(input[2])
    /\ input[1] = "links" =>
         Links!LinksAreDirect(input[2],
             <<Answered(input[2], input[3], <<input[2]>>), Links!Unitune(TRUE, input[4], FALSE),
               Links!Squigly(TRUE, TRUE, input[4], FALSE)>>)

\* A rescan leaves the library with every row that a full scan gives and with none
\* of a file that is gone; what else it leaves is the audio of a .cue file as a row
\* of its own and former tracks of a .cue file.  A disc that is one file is split
\* into its tracks.
LibraryKept ==
    /\ input[1] = "folder" => Library!RescanKeepsUp(input[2], input[3])
    /\ input[1] = "disc" =>
         Cue!SplitsDisc(input[2], input[3], Cue!LengthOf(input[3], Len(input[3])))

\* The index of a directory never takes what it has read of a file for what
\* the file has become (duplicate.go).
CacheHonest == input = <<"index">> => Index!CacheHonest
=============================================================================
