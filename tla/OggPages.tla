------------------------------ MODULE OggPages ------------------------------
(***************************************************************************)
(* Editing the tags of an Ogg file (ogg_edit.go).  Packets are cut into    *)
(* segments, a segment that is not full ends its packet, and a page holds  *)
(* a limited number of segments.  The header packets are laid out anew,    *)
(* and the audio pages follow, with new numbers when they have moved.      *)
(*                                                                         *)
(* A packet is a sequence of cells, each a comment or a mark; a page is    *)
(* its stream, its number, whether it continues a packet, and segments.    *)
(***************************************************************************)
EXTENDS VorbisComments, FiniteSetsExt

CONSTANTS
    Lace,           \* cells of a full segment: 255 bytes in the code
    PageSegments,   \* segments of a page: 255 in the code
    MaxHeaderPages  \* pages the header packets may span: 1024 in the code

Page(serial, seq, continued, segments) ==
    [serial |-> serial, seq |-> seq, continued |-> continued, segments |-> segments]

Ends(segment) == Len(segment) < Lace

Mark(name)   == Comment(name, Empty)
Frame(codec) == IF codec = "opus" THEN <<>> ELSE <<Mark("frame")>>

\* paginateOggPackets.  Mutant: a packet that fills its last segment is not
\* ended.
Segments_Bug(packet) ==
    [i \in 1..((Len(packet) + Lace - 1) \div Lace) |->
        SubSeq(packet, (i - 1) * Lace + 1, Min({i * Lace, Len(packet)}))]

Segments(packet) ==
    [i \in 1..(Len(packet) \div Lace + 1) |->
        SubSeq(packet, (i - 1) * Lace + 1, Min({i * Lace, Len(packet)}))]

Paginate(packets, serial, firstSeq) ==
    LET segments == FlattenSeq([p \in DOMAIN packets |-> Segments(packets[p])])
    IN  [k \in 1..((Len(segments) + PageSegments - 1) \div PageSegments) |->
            Page(serial, firstSeq + k - 1,
                 k > 1 /\ ~Ends(segments[(k - 1) * PageSegments]),
                 SubSeq(segments, (k - 1) * PageSegments + 1,
                        Min({k * PageSegments, Len(segments)})))]

\* assembleOggHeaderPackets, on the first pages of a file.
AllSegments(pages) == FlattenSeq([k \in DOMAIN pages |-> pages[k].segments])

\* The packets that segments complete, and the cells of one that goes on.
Taken(so, segment) ==
    LET open == so.open \o segment
    IN  IF Ends(segment) THEN [packets |-> Append(so.packets, open), open |-> <<>>]
        ELSE [packets |-> so.packets, open |-> open]

Assembled(segments) ==
    LET so[i \in 0..Len(segments)] ==
            IF i = 0 THEN [packets |-> <<>>, open |-> <<>>] ELSE Taken(so[i - 1], segments[i])
    IN  so[Len(segments)]

Packets(pages) == Assembled(AllSegments(pages)).packets

\* How many pages hold the first packets; 0 if there are too few, if another
\* stream is mixed in, or if the last of them does not end its page.
HeaderPages(file, count) ==
    LET Enough(k) == Len(Packets(SubSeq(file, 1, k))) >= count
        Counted(header) ==
            IF \E i \in DOMAIN header : header[i].serial # file[1].serial THEN 0
            ELSE IF Len(Packets(header)) > count \/ ~Ends(Last(Last(header).segments)) THEN 0
            ELSE Len(header)
    IN  IF ~Enough(Len(file)) THEN 0
        ELSE Counted(SubSeq(file, 1, CHOOSE k \in DOMAIN file :
                                         Enough(k) /\ (k = 1 \/ ~Enough(k - 1))))

\* parseVorbisCommentBlock, serializeVorbisCommentBlock: a mark, the vendor,
\* the comments, and in a Vorbis file the framing bit.
CommentsOf(packet, codec) == SubSeq(packet, 3, Len(packet) - Len(Frame(codec)))

CommentPacket(vendor, comments, codec) ==
    <<Mark(codec), vendor>> \o comments \o Frame(codec)

\* applyOpusReplayGainEdits: an Opus file keeps its gains in comments of its own.
Scopes == [replaygain_track_gain |-> [gain |-> "R128_TRACK_GAIN",
                                      old |-> {"REPLAYGAIN_TRACK_GAIN", "REPLAYGAIN_TRACK_PEAK"}],
           replaygain_album_gain |-> [gain |-> "R128_ALBUM_GAIN",
                                      old |-> {"REPLAYGAIN_ALBUM_GAIN", "REPLAYGAIN_ALBUM_PEAK"}]]

OpusGains(comments, fields) ==
    LET given == DOMAIN fields \cap DOMAIN Scopes
    IN  Without(comments, UNION {{Scopes[k].gain} \cup Scopes[k].old : k \in given})
        \o Each([k \in given |-> One(Scopes[k].gain, fields[k])])

WithCover(comments, fields) ==
    IF "cover_path" \notin DOMAIN fields \/ fields["cover_path"] = Empty THEN comments
    ELSE Without(comments, {"METADATA_BLOCK_PICTURE"})
         \o One("METADATA_BLOCK_PICTURE", fields["cover_path"])

EditedComments(comments, fields, codec) ==
    LET plain == EditComments(comments, fields, FALSE)
    IN  WithCover(IF codec = "opus" THEN OpusGains(plain, fields) ELSE plain, fields)

\* EditOggFields.  The audio pages keep their bytes when they follow as many
\* header pages as before.  Mutant: also when they follow fewer.
Renumbered_Bug(audio, headerPages, oldHeaderPages) ==
    IF headerPages <= oldHeaderPages THEN audio
    ELSE [i \in DOMAIN audio |-> [audio[i] EXCEPT !.seq = headerPages + i - 1]]

Renumbered(audio, headerPages, oldHeaderPages) ==
    IF headerPages = oldHeaderPages THEN audio
    ELSE [i \in DOMAIN audio |-> [audio[i] EXCEPT !.seq = headerPages + i - 1]]

CodecOf(file) == file[1].segments[1][1].key

HeaderCount(codec) == IF codec = "opus" THEN 2 ELSE 3

\* The comments are replaced, and what follows them stays.
NewHeader(file, packets, fields, codec) ==
    <<file[1]>>
    \o Paginate(<<CommentPacket(packets[2][2],
                                 EditedComments(CommentsOf(packets[2], codec), fields, codec),
                                 codec)>>
                 \o SubSeq(packets, 3, HeaderCount(codec)), file[1].serial, 1)

WithHeader(file, k, header) ==
    LET audio == SubSeq(file, k + 1, Len(file))
    IN  IF Len(header) # k /\ \E i \in DOMAIN audio : audio[i].serial # file[1].serial
        THEN file
        ELSE header \o Renumbered(audio, Len(header), k)

EditOgg(file, fields) ==
    LET codec == CodecOf(file)
        Edit(k) ==
            IF k = 0 \/ k > MaxHeaderPages THEN file
            ELSE WithHeader(file, k,
                            NewHeader(file, Packets(SubSeq(file, 1, k)), fields, codec))
    IN  Edit(HeaderPages(file, HeaderCount(codec)))

-----------------------------------------------------------------------------

Consecutive(file) == \A i \in DOMAIN file : file[i].seq = i - 1

ContinuedRight(file) ==
    \A i \in 2..Len(file) :
        file[i].continued = ~Ends(Last(file[i - 1].segments))

\* An edit, whatever it makes of the length of the comments, leaves a file whose
\* packets are the old ones but for the comments, whose pages are numbered one
\* after another and say rightly whether they continue a packet, and whose audio
\* starts on a page of its own.
EditKeepsStream(file, fields, edited) ==
    LET codec  == CodecOf(file)
        SamePackets(old, new) ==
            /\ Len(new) = Len(old)
            /\ \A p \in DOMAIN old : p # 2 => new[p] = old[p]
            /\ CommentsOf(new[2], codec)
               = EditedComments(CommentsOf(old[2], codec), fields, codec)
    IN  \/ edited = file
        \/ /\ Consecutive(file) => Consecutive(edited)
           /\ ContinuedRight(file) => ContinuedRight(edited)
           /\ HeaderPages(edited, HeaderCount(codec)) # 0
           /\ SamePackets(Packets(file), Packets(edited))

=============================================================================
