--------------------------- MODULE VorbisComments ---------------------------
(***************************************************************************)
(* Tags kept as Vorbis comments (metadata.go): what an edit, or the        *)
(* metadata of a download, makes of the comments of a file, and what is    *)
(* read back from them.                                                    *)
(*                                                                         *)
(* A comment has a key, whatever its case, and a value, a sequence of      *)
(* words: the names of a credit, a number and a total, or one word for any *)
(* other text; the empty sequence is the empty text.                       *)
(***************************************************************************)
EXTENDS Naturals, SequencesExt

Empty == <<>>
Comment(key, value) == [key |-> key, value |-> value]

\* getCommentValues, getComment, removeCommentKey
Values(comments, key) ==
    FlattenSeq([i \in DOMAIN comments |->
                   IF comments[i].key = key THEN <<comments[i].value>> ELSE <<>>])

First(comments, key) ==
    IF Values(comments, key) = <<>> THEN Empty ELSE Head(Values(comments, key))

Without(comments, keys) ==
    FlattenSeq([i \in DOMAIN comments |->
                   IF comments[i].key \in keys THEN <<>> ELSE <<comments[i]>>])

\* splitArtistTagValues, joinVorbisCommentValues: each name once.
Distinct(words) ==
    LET once[n \in 0..Len(words)] ==
            IF n = 0 THEN <<>>
            ELSE IF words[n] \in Range(once[n - 1]) THEN once[n - 1]
            ELSE Append(once[n - 1], words[n])
    IN  once[Len(words)]

Joined(comments, key) == Distinct(FlattenSeq(Values(comments, key)))

\* formatIndexValue, parseIndexPair, parsePositiveInt: a number that is not
\* positive is 0.
Digits == {"1", "2", "3"}
Parsed(value) == IF value # Empty /\ Head(value) \in Digits THEN Head(value) ELSE "0"
Pair(value) == <<Parsed(value), IF Len(value) = 2 THEN Parsed(Tail(value)) ELSE "0">>
IndexValue(num, total) ==
    IF num = "0" THEN Empty ELSE IF total = "0" THEN <<num>> ELSE <<num, total>>

-----------------------------------------------------------------------------
(* applyVorbisFieldEdits *)

SimpleKeys ==
    [title |-> "TITLE", album |-> "ALBUM", date |-> "DATE", isrc |-> "ISRC",
     genre |-> "GENRE", label |-> "ORGANIZATION", copyright |-> "COPYRIGHT",
     composer |-> "COMPOSER", comment |-> "COMMENT", explicit |-> "ITUNESADVISORY",
     album_type |-> "RELEASETYPE", upc |-> "BARCODE", compilation |-> "COMPILATION",
     replaygain_track_gain |-> "REPLAYGAIN_TRACK_GAIN",
     replaygain_track_peak |-> "REPLAYGAIN_TRACK_PEAK",
     replaygain_album_gain |-> "REPLAYGAIN_ALBUM_GAIN",
     replaygain_album_peak |-> "REPLAYGAIN_ALBUM_PEAK"]
Credits == [artist |-> "ARTIST", album_artist |-> "ALBUMARTIST"]
Lyrics  == {"LYRICS", "UNSYNCEDLYRICS"}
Indexes == [track |-> [keys |-> <<"TRACKNUMBER", "TRACK">>,
                       fields |-> <<"track_number", "track_total">>],
            disc |-> [keys |-> <<"DISCNUMBER", "DISC">>,
                      fields |-> <<"disc_number", "disc_total">>]]

\* Keys of other taggers that give way to the one a field is kept under.
\* ALBUM-ARTIST stands for the key ALBUM ARTIST.  Mutant: the label's are
\* forgotten.
Aliases_Bug == [label |-> {}, date |-> {"YEAR"}, lyrics |-> {"SYNCEDLYRICS"},
                album_artist |-> {"ALBUM-ARTIST", "ALBUM_ARTIST"}]
Aliases == [label |-> {"LABEL", "PUBLISHER"}, date |-> {"YEAR"}, lyrics |-> {"SYNCEDLYRICS"},
            album_artist |-> {"ALBUM-ARTIST", "ALBUM_ARTIST"}]

EditsIndex(fields, x) == Range(Indexes[x].fields) \cap DOMAIN fields # {}

Removed(fields) ==
    LET given == DOMAIN fields
    IN  {SimpleKeys[k] : k \in given \cap DOMAIN SimpleKeys}
        \cup {Credits[k] : k \in given \cap DOMAIN Credits}
        \cup (UNION {Aliases[k] : k \in given \cap DOMAIN Aliases})
        \cup (IF "lyrics" \in given THEN Lyrics ELSE {})
        \cup UNION {Range(Indexes[x].keys) : x \in {y \in DOMAIN Indexes : EditsIndex(fields, y)}}

\* The numbers the file has, under either key, and what an edit makes of them.
NewIndex(comments, fields, x) ==
    LET keys == Indexes[x].keys
        own  == Pair(First(comments, keys[1]))
        old  == IF own = <<"0", "0">> THEN Pair(First(comments, keys[2])) ELSE own
        Value(i) == IF Indexes[x].fields[i] \in DOMAIN fields
                    THEN Parsed(fields[Indexes[x].fields[i]]) ELSE old[i]
    IN  IndexValue(Value(1), Value(2))

One(key, value) == IF value = Empty THEN <<>> ELSE <<Comment(key, value)>>

\* setArtistComments: in split mode, a comment for each name.
Credit(key, value, split) ==
    IF ~split THEN One(key, value)
    ELSE LET names == Distinct(value)
         IN  [i \in DOMAIN names |-> Comment(key, <<names[i]>>)]

\* The comments that a function gives for each of some fields.
Each(of) ==
    LET order == SetToSeq(DOMAIN of) IN FlattenSeq([i \in DOMAIN order |-> of[order[i]]])

\* What some fields, and some indexes, are kept as.
Put(fields, indexes, split) ==
    LET given == DOMAIN fields
    IN  Each([k \in given \cap DOMAIN SimpleKeys |-> One(SimpleKeys[k], fields[k])])
        \o Each([k \in given \cap DOMAIN Credits |-> Credit(Credits[k], fields[k], split)])
        \o Each([x \in DOMAIN indexes |-> One(Indexes[x].keys[1], indexes[x])])
        \o Each([key \in IF "lyrics" \in given THEN Lyrics ELSE {} |->
                    One(key, fields["lyrics"])])

\* One comment after another, in any order: the code ranges over a map.
EditComments(comments, fields, split) ==
    LET index == [x \in {y \in DOMAIN Indexes : EditsIndex(fields, y)} |->
                     NewIndex(comments, fields, x)]
    IN  Without(comments, Removed(fields)) \o Put(fields, index, split)

\* writeVorbisMetadata: the metadata of a download; empty fields are skipped.
\* The number and the total of an index come as one field here.
EmbedComments(comments, metadata, split) ==
    LET given == {k \in DOMAIN metadata : metadata[k] # Empty}
        index == {x \in DOMAIN Indexes \cap given : Parsed(metadata[x]) # "0"}
        compilation == "album_type" \in given /\ metadata["album_type"] = <<"compilation">>
        keys  == {SimpleKeys[k] : k \in given \cap DOMAIN SimpleKeys}
                 \cup {Credits[k] : k \in given \cap DOMAIN Credits}
                 \cup {Indexes[x].keys[1] : x \in index}
                 \cup (IF "lyrics" \in given THEN Lyrics ELSE {})
                 \cup (IF compilation THEN {"COMPILATION"} ELSE {})
    IN  Without(comments, keys)
        \o Put([k \in given |-> metadata[k]], [x \in index |-> metadata[x]], split)
        \o (IF compilation THEN One("COMPILATION", <<"1">>) ELSE <<>>)

\* RewriteSplitArtistTags
RewriteCredits(comments, metadata) ==
    EmbedComments(comments, [k \in DOMAIN Credits |-> metadata[k]], TRUE)

-----------------------------------------------------------------------------
(* metadataFromParsedFlac: a field is read under the first of its keys that *)
(* has a text.                                                             *)

Sources ==
    [title |-> <<"TITLE">>, album |-> <<"ALBUM">>, date |-> <<"DATE", "YEAR">>,
     isrc |-> <<"ISRC">>, genre |-> <<"GENRE">>, copyright |-> <<"COPYRIGHT">>,
     label |-> <<"ORGANIZATION", "LABEL", "PUBLISHER">>, composer |-> <<"COMPOSER">>,
     comment |-> <<"COMMENT">>, upc |-> <<"BARCODE", "UPC">>,
     lyrics |-> <<"LYRICS", "UNSYNCEDLYRICS", "SYNCEDLYRICS">>,
     replaygain_track_gain |-> <<"REPLAYGAIN_TRACK_GAIN">>,
     replaygain_track_peak |-> <<"REPLAYGAIN_TRACK_PEAK">>,
     replaygain_album_gain |-> <<"REPLAYGAIN_ALBUM_GAIN">>,
     replaygain_album_peak |-> <<"REPLAYGAIN_ALBUM_PEAK">>]
CreditSources == [artist |-> <<"ARTIST">>,
                  album_artist |-> <<"ALBUMARTIST", "ALBUM-ARTIST", "ALBUM_ARTIST">>]

Least(numbers) == CHOOSE i \in numbers : \A j \in numbers : i <= j

FirstOf(values) ==
    LET found == {i \in DOMAIN values : values[i] # Empty}
    IN  IF found = {} THEN Empty ELSE values[Least(found)]

ReadIndex(comments, x) ==
    LET own == Pair(First(comments, Indexes[x].keys[1]))
    IN  IF own[1] # "0" \/ First(comments, Indexes[x].keys[2]) = Empty THEN own
        ELSE Pair(First(comments, Indexes[x].keys[2]))

ReadAlbumType(comments) ==
    IF First(comments, "RELEASETYPE") # Empty THEN First(comments, "RELEASETYPE")
    ELSE IF First(comments, "COMPILATION") = <<"1">> THEN <<"compilation">> ELSE Empty

Readable == DOMAIN Sources \cup DOMAIN CreditSources \cup {"album_type"}

ReadField(comments, k) ==
    IF k = "album_type" THEN ReadAlbumType(comments)
    ELSE IF k \in DOMAIN Sources
    THEN FirstOf([i \in DOMAIN Sources[k] |-> First(comments, Sources[k][i])])
    ELSE FirstOf([i \in DOMAIN CreditSources[k] |-> Joined(comments, CreditSources[k][i])])

-----------------------------------------------------------------------------
(* A FLAC file: its metadata blocks.  updateFlacVorbis: the first block of   *)
(* comments is rewritten, or one is added at the end.  A cover is "none",    *)
(* "good", or "unfit", when no picture can be made of it: the old ones are   *)
(* gone then.                                                                *)

Block(type, body) == [type |-> type, body |-> body]

CommentBlocks(blocks) == {i \in DOMAIN blocks : blocks[i].type = "comments"}

CommentsIn(blocks) ==
    IF CommentBlocks(blocks) = {} THEN <<>> ELSE blocks[Least(CommentBlocks(blocks))].body

WithComments(blocks, comments) ==
    LET new == Block("comments", comments)
    IN  IF CommentBlocks(blocks) = {} THEN Append(blocks, new)
        ELSE [blocks EXCEPT ![Least(CommentBlocks(blocks))] = new]

\* replaceFlacPictures
WithPicture(blocks, cover) ==
    IF cover = "none" THEN blocks
    ELSE FlattenSeq([i \in DOMAIN blocks |->
                        IF blocks[i].type = "picture" THEN <<>> ELSE <<blocks[i]>>])
         \o (IF cover = "good" THEN <<Block("picture", One("new", <<"new">>))>> ELSE <<>>)

\* EditFlacFields, EmbedMetadata
EditFlac(blocks, fields, split, cover) ==
    WithComments(WithPicture(blocks, cover), EditComments(CommentsIn(blocks), fields, split))

EmbedFlac(blocks, metadata, split, cover) ==
    WithComments(WithPicture(blocks, cover), EmbedComments(CommentsIn(blocks), metadata, split))

\* extractLyricsFromFlac: of the first block of comments that has any.
FlacLyrics(blocks) ==
    LET found == {i \in CommentBlocks(blocks) : ReadField(blocks[i].body, "lyrics") # Empty}
    IN  IF found = {} THEN Empty ELSE ReadField(blocks[Least(found)].body, "lyrics")

-----------------------------------------------------------------------------

\* A field that an edit sets is read back as it was set, in either mode of
\* writing credits; the fields it does not name, and the numbers, read as they
\* did, however other taggers have spelled them.
EditReadsBack(comments, fields, split) ==
    LET edited == EditComments(comments, fields, split)
    IN  /\ \A k \in Readable \cap DOMAIN fields :
               fields[k] # Empty => ReadField(edited, k) = Distinct(fields[k])
        /\ \A k \in {"title", "label", "date", "lyrics"} \cap DOMAIN fields :
               fields[k] = Empty => ReadField(edited, k) = Empty
        /\ \A k \in Readable \ DOMAIN fields :
               \/ k = "album_type" /\ "compilation" \in DOMAIN fields
               \/ ReadField(edited, k) = ReadField(comments, k)
        /\ \A x \in DOMAIN Indexes :
               IF ~EditsIndex(fields, x) THEN ReadIndex(edited, x) = ReadIndex(comments, x)
               ELSE ReadIndex(edited, x) = Pair(NewIndex(comments, fields, x))

\* So is every field of a download that has a value.
EmbedReadsBack(comments, metadata, split) ==
    LET embedded == EmbedComments(comments, metadata, split)
    IN  /\ \A k \in Readable \cap DOMAIN metadata :
               metadata[k] # Empty => ReadField(embedded, k) = Distinct(metadata[k])
        /\ \A k \in Readable \ DOMAIN metadata :
               ReadField(embedded, k) = ReadField(comments, k)
        /\ \A x \in DOMAIN Indexes \cap DOMAIN metadata :
               Parsed(metadata[x]) # "0" => ReadIndex(embedded, x) = Pair(metadata[x])

OfType(blocks, type) ==
    FlattenSeq([i \in DOMAIN blocks |-> IF blocks[i].type = type THEN <<blocks[i]>> ELSE <<>>])

\* An edit of a FLAC file reads back in its comments, shows the new cover alone
\* when there is one, and touches no other block; the lyrics that are found
\* later are those of the edit.
FlacReadsBack(blocks, fields, split, cover) ==
    LET edited == EditFlac(blocks, fields, split, cover)
    IN  /\ CommentsIn(edited) = EditComments(CommentsIn(blocks), fields, split)
        /\ OfType(edited, "other") = OfType(blocks, "other")
        /\ Len(OfType(edited, "picture")) = IF cover = "good" THEN 1 ELSE IF cover = "unfit" THEN 0
                                            ELSE Len(OfType(blocks, "picture"))
        /\ "lyrics" \in DOMAIN fields /\ fields["lyrics"] # Empty
           => FlacLyrics(edited) = fields["lyrics"]

=============================================================================
