------------------------------ MODULE M4ATags ------------------------------
(***************************************************************************)
(* Editing the tags of an MP4 file.  First how an edit rewrites the file   *)
(* (ac4_config.go, ac4_metadata.go, m4a_edit.go, m4a_stream.go,            *)
(* metadata_m4a.go): boxes are grown, inserted and spliced in a copy of    *)
(* the moov box, the chunk tables follow what moves, and the copy replaces *)
(* the box in the file.  Then which atoms an edit of an M4A file drops and *)
(* appends (m4a_edit.go, metadata_m4a.go), and the file it leaves.         *)
(*                                                                         *)
(* A file is a sequence of cells: the header of a box with its declared    *)
(* size (0: up to the end of what is being read), an entry of a chunk      *)
(* table, which names a place of the file, and data.  A copy of a part of  *)
(* the file that starts after `base' cells holds at i the cell base + i.   *)
(*                                                                         *)
(* The fields of an edit are a function from their keys to their values;   *)
(* blank stands for any value of white space.                              *)
(***************************************************************************)
EXTENDS Integers, SequencesExt, FiniteSetsExt

CONSTANT EntryLimit   \* what a 32-bit table entry counts up to

Box(typ, size)   == [kind |-> "box", typ |-> typ, n |-> size]
Entry(table, at) == [kind |-> "entry", typ |-> table, n |-> at]
Data(value)      == [kind |-> "data", typ |-> value, n |-> 0]
Number(k)        == [kind |-> "data", typ |-> "number", n |-> k]
Sample(k)        == [kind |-> "data", typ |-> "sample", n |-> k]

\* buildM4AAtom
Atom(typ, body) == <<Box(typ, Len(body) + 1)>> \o body

-----------------------------------------------------------------------------
(* Finding boxes. *)

NoBox == [at |-> 0, size |-> 0, typ |-> "none"]
End(b) == b.at + b.size

\* readMP4Box: a header whose box would not end inside the copy is no box.
ReadBox(data, pos) ==
    IF pos \notin DOMAIN data \/ data[pos].kind # "box" THEN NoBox
    ELSE LET size == IF data[pos].n = 0 THEN Len(data) - pos + 1 ELSE data[pos].n
         IN  IF pos + size - 1 > Len(data) THEN NoBox
             ELSE [at |-> pos, size |-> size, typ |-> data[pos].typ]

\* eachChildMP4: the boxes from pos on, as far as they can be read.
Boxes(data, pos, end) ==
    LET from[at \in Nat] ==
            LET b == ReadBox(data, at)
            IN  IF at >= end \/ b = NoBox THEN <<>> ELSE <<b>> \o from[End(b)]
    IN  from[pos]

\* findChildMP4, findAtomInRange
FirstOr(none, found) == IF found = <<>> THEN none ELSE Head(found)

FindChild(data, start, end, typ) ==
    FirstOr(NoBox, SelectSeq(Boxes(data, start, end), LAMBDA b : b.typ = typ))

Top(data, typ) == FindChild(data, 1, Len(data) + 1, typ)

\* Two boxes have fields before their children: the version of a meta box,
\* the version and the number of entries of an stsd box.
Child(data, b, typ) ==
    IF b = NoBox THEN NoBox
    ELSE FindChild(data, b.at + (IF b.typ \in {"meta", "stsd"} THEN 2 ELSE 1),
                   End(b), typ)

\* The boxes along a path from b on; those that are not there are NoBox.
Chain(data, b, types) ==
    FoldLeft(LAMBDA chain, typ : Append(chain, Child(data, Last(chain), typ)), <<b>>, types)

\* A box is found with the boxes around it: the first chain that reaches its end,
\* or the empty one.
FirstWhole(chains) == FirstOr(<<>>, SelectSeq(chains, LAMBDA chain : Last(chain) # NoBox))

\* locateM4AIlstInBuf
LocateIlst(data) ==
    FirstWhole(<<Chain(data, Top(data, "moov"), <<"udta", "meta", "ilst">>),
                 Chain(data, Top(data, "moov"), <<"meta", "ilst">>)>>)

\* findIlstInMeta also reads a meta box of a QuickTime file, which has no
\* version before its children.
IlstInMeta(data, meta) ==
    FirstOr(NoBox, SelectSeq(<<Child(data, meta, "ilst"),
                               FindChild(data, meta.at + 1, End(meta), "ilst")>>,
                             LAMBDA b : meta # NoBox /\ b # NoBox))

\* findM4AMetadataPath
WithIlst(data, chain) == Append(chain, IlstInMeta(data, Last(chain)))

MetadataPath(data) ==
    FirstWhole(<<WithIlst(data, Chain(data, Top(data, "moov"), <<"udta", "meta">>)),
                 WithIlst(data, Chain(data, Top(data, "moov"), <<"meta">>))>>)

\* locateAC4Entry: the sample entry of the first AC-4 track.
EntryPath == <<"mdia", "minf", "stbl", "stsd", "ac-4">>

Traks(data, moov) ==
    IF moov = NoBox THEN <<>>
    ELSE SelectSeq(Boxes(data, moov.at + 1, End(moov)), LAMBDA b : b.typ = "trak")

AC4Chains(data, moov, traks) ==
    [i \in DOMAIN traks |-> <<moov>> \o Chain(data, traks[i], EntryPath)]

LocateAC4(data) ==
    LET moov == Top(data, "moov")
    IN  FirstWhole(AC4Chains(data, moov, Traks(data, moov)))

-----------------------------------------------------------------------------
(* Rewriting. *)

\* The bytes from `from' up to `to' give way to new ones.
Splice(data, from, to, new) ==
    SubSeq(data, 1, from - 1) \o new \o SubSeq(data, to, Len(data))

\* growBoxSize, writeAtomSize
Grow(data, boxes, delta) ==
    [i \in DOMAIN data |->
        IF \E k \in DOMAIN boxes : boxes[k].at = i
        THEN LET b == CHOOSE b \in Range(boxes) : b.at = i IN [data[i] EXCEPT !.n = b.size + delta]
        ELSE data[i]]

Tables(data) ==
    (UNION {{Last(Chain(data, trak, <<"mdia", "minf", "stbl", table>>)) :
                 table \in {"stco", "co64"}} : trak \in Range(Traks(data, Top(data, "moov")))})
    \ {NoBox}

\* shiftChunkOffsets: the entries that name the place `from' of the file or a
\* later one.  Those of an stco table are 32 bits wide.
ShiftOffsets(data, from, delta) ==
    LET entries == UNION {(t.at + 1)..(End(t) - 1) : t \in Tables(data)}
        Moved(e) == [e EXCEPT !.n = IF e.typ = "stco" THEN (e.n + delta) % EntryLimit
                                    ELSE e.n + delta]
    IN  [i \in DOMAIN data |->
            IF i \in entries /\ data[i].n >= from THEN Moved(data[i]) ELSE data[i]]

\* replaceFileSectionsStreaming: each section of the file is replaced, and
\* overlapping sections leave it alone.
Publish(file, sections) ==
    LET overlapping == \E s, t \in sections : s # t /\ s.from <= t.from /\ t.from < s.to
        fromTheLast == SetToSortSeq(sections, LAMBDA s, t : s.from > t.from)
    IN  IF overlapping THEN file
        ELSE FoldLeft(LAMBDA f, s : Splice(f, s.from, s.to, s.data), file, fromTheLast)

Section(b, data) == [from |-> b.at, to |-> End(b), data |-> data]
Loaded(file, b)  == SubSeq(file, b.at, End(b) - 1)

-----------------------------------------------------------------------------
(* The tags' box. *)

\* buildM4AMetaBox
MetaBox(ilst) == Atom("meta", <<Data("version")>> \o Atom("hdlr", <<Data("mdir")>>)
                              \o Atom("ilst", ilst))

\* ensureM4AIlstInBuf: what is missing is created at the end of the deepest of
\* the boxes that are there.
Missing(host) ==
    CASE host.typ = "meta" -> Atom("ilst", <<>>)
      [] host.typ = "udta" -> MetaBox(<<>>)
      [] OTHER -> Atom("udta", MetaBox(<<>>))

Inserted(data, base, around, at, new) ==
    ShiftOffsets(Grow(Splice(data, at, at, new), around, Len(new)), base + at, Len(new))

EnsureIlst(data, base) ==
    LET In(around) == Inserted(data, base, around, End(Last(around)), Missing(Last(around)))
    IN  IF LocateIlst(data) # <<>> THEN data
        ELSE In(SelectSeq(Chain(data, Top(data, "moov"), <<"udta", "meta">>),
                          LAMBDA b : b # NoBox))

\* The end of EditM4AFields and of writeM4AFreeformTags.
Replaced(data, place, from, to, around, new) ==
    ShiftOffsets(Grow(Splice(data, from, to, new), around, Len(new) - (to - from)),
                 place, Len(new) - (to - from))


ReplaceIlst(data, base, chain, body) ==
    Replaced(data, base + Last(chain).at, Last(chain).at, End(Last(chain)), Front(chain),
             Atom("ilst", body))

\* writeMP4iTunesMetadata: a udta box that holds the tags alone takes the place
\* of the udta box, or comes last in moov.
WriteUdta(data, base, ilst) ==
    LET moov == Top(data, "moov")
        Write(from, size, new) ==
            Splice(Grow(ShiftOffsets(data, base + from, Len(new) - size), <<moov>>,
                        Len(new) - size), from, from + size, new)
        Over(old) == Write(IF old = NoBox THEN End(moov) ELSE old.at, old.size,
                           Atom("udta", MetaBox(ilst)))
    IN  Over(Child(data, moov, "udta"))

-----------------------------------------------------------------------------
(* An AC-4 track.                                                          *)

\* audioSampleEntryHeaderLen: of what version the entry is, then, but in
\* version 0, the fields the version adds.  0: they are not all there.
HeaderLen(data, entry) ==
    LET len == IF data[entry.at + 1].typ = "v0" THEN 1 ELSE 2
    IN  IF entry.size <= len THEN 0 ELSE len

\* normalizeQuickTimeBrandsInBuf: the major brand and the compatible ones.
PlainBrands(ftyp) ==
    [i \in DOMAIN ftyp |->
        IF i = 2 THEN Data("mp42")
        ELSE IF ftyp[i] = Data("qt") THEN Data("isom") ELSE ftyp[i]]

\* normalizeQuickTimeAudioEntry: an entry of version 1 becomes one of version
\* 0, which does not have the added fields.
NormalizeEntry(data, base, chain) ==
    LET entry == Last(chain)
        ext   == entry.at + 2
        plain == [data EXCEPT ![entry.at + 1] = Data("v0")]
    IN  IF data[entry.at + 1].typ # "v1" \/ ext >= End(entry) THEN data
        ELSE Splice(Grow(ShiftOffsets(plain, base + ext, -1), chain, -1),
                    ext, ext + 1, <<>>)

\* EnsureAC4ConfigBox.  `dac4' is the box found in the original file, or empty.
\* A failure leaves the file as it is.
Failure == <<>>

WithConfig(data, base, chain, start, dac4) ==
    IF FindChild(data, start, End(Last(chain)), "dac4") # NoBox THEN data
    ELSE IF dac4 = <<>> THEN Failure
    ELSE Splice(Grow(ShiftOffsets(data, base + start, Len(dac4)), chain, Len(dac4)),
                start, start, dac4)

Configured(data, base, chain, dac4) ==
    LET entry == Last(chain)
        len   == HeaderLen(data, entry)
    IN  IF len = 0 THEN Failure
        ELSE WithConfig(data, base, chain, entry.at + 1 + len, dac4)

\* The copies of moov and, when there is one, of ftyp are published together.
PublishConfig(file, moov, ftyp, new) ==
    IF new = Failure THEN file
    ELSE Publish(file, {Section(moov, new)}
                       \cup {Section(b, PlainBrands(Loaded(file, b))) : b \in {ftyp} \ {NoBox}})

EnsureConfig(file, dac4) ==
    LET moov == Top(file, "moov")
        Rewritten(data) == Configured(data, moov.at - 1, LocateAC4(data), dac4)
        Within(copy, chain) ==
            IF chain = <<>> THEN Failure
            ELSE Rewritten(NormalizeEntry(copy, moov.at - 1, chain))
    IN  IF moov = NoBox THEN file
        ELSE PublishConfig(file, moov, Top(file, "ftyp"),
                           Within(Loaded(file, moov), LocateAC4(Loaded(file, moov))))

\* WriteAC4MetadataIfApplicable
WriteAC4Tags(file, ilst) ==
    LET moov == Top(file, "moov")
        copy == Loaded(file, moov)
    IN  IF moov = NoBox \/ LocateAC4(copy) = <<>> THEN file
        ELSE Publish(file, {Section(moov, WriteUdta(copy, moov.at - 1, ilst))})

-----------------------------------------------------------------------------
(* What an edit owes the file. *)

Containers == {"moov", "trak", "mdia", "minf", "stbl", "stsd", "ac-4", "udta",
               "meta", "ilst"}

Nested(file) ==
    LET nested[pos \in Nat, end \in Nat] ==
            LET b     == ReadBox(file, pos)
                inner == Min({i \in (pos + 1)..End(b) : i = End(b) \/ file[i].kind = "box"})
            IN  \/ pos = end
                \/ /\ pos < end /\ b # NoBox /\ End(b) <= end
                   /\ b.typ \in Containers => nested[inner, End(b)]
                   /\ nested[End(b), end]
    IN  nested[1, Len(file) + 1]

Places(file, kinds) == {i \in DOMAIN file : file[i].kind \in kinds}
Cells(file, places) ==
    LET order == SetToSortSeq(places, LAMBDA i, j : i < j)
    IN  [k \in DOMAIN order |-> file[order[k]]]
PointedAt(file) ==
    LET entries == Cells(file, Places(file, {"entry"}))
    IN  [k \in DOMAIN entries |->
            IF entries[k].n \in DOMAIN file THEN file[entries[k].n] ELSE entries[k]]

\* After every edit, the chunk tables point at the samples they pointed at, and
\* every box ends with the last of its children.  A 32-bit table is only asked
\* to while the file is small enough for it.
SamplesKept(before, after) ==
    \/ Len(after) >= EntryLimit /\ \E i \in DOMAIN after : after[i].typ = "stco"
    \/ PointedAt(after) = PointedAt(before) /\ Nested(after)

-----------------------------------------------------------------------------
(* The tags of a file. *)

Blank == ""

\* m4aTextAtoms
TextAtoms == [title |-> "nam", artist |-> "ART", album |-> "alb", album_artist |-> "aART",
              date |-> "day", genre |-> "gen", composer |-> "wrt", comment |-> "cmt",
              copyright |-> "cprt", lyrics |-> "lyr"]

\* The fields kept in freeform atoms, and the names that give way to them.
Freeforms == [isrc |-> "ISRC", label |-> "LABEL", album_type |-> "RELEASETYPE",
              upc |-> "BARCODE"]
Aliases == [isrc |-> {"ISRC"}, label |-> {"LABEL", "ORGANIZATION"},
            album_type |-> {"RELEASETYPE"}, upc |-> {"BARCODE"},
            lyrics |-> {"LYRICS", "UNSYNCEDLYRICS", "SYNCEDLYRICS"}]
Flags == [explicit |-> "rtng", compilation |-> "cpil"]
Gains == <<"replaygain_track_gain", "replaygain_track_peak",
           "replaygain_album_gain", "replaygain_album_peak">>
GainNames == Range(Gains) \cup {"iTunNORM"}

\* The name of a freeform atom, whatever its case: the names here are told
\* apart without it.
TextTag(typ, value)      == Atom(typ, <<Data(value)>>)
Freeform(name, value)    == Atom("----", <<Data(name), Data(value)>>)
IndexTag(typ, num, total) == Atom(typ, <<Number(num), Number(total)>>)

\* parsePositiveInt, isTruthyTagValue
Parsed(value) == IF value = "1" THEN 1 ELSE IF value = "2" THEN 2 ELSE 0
Truthy(value) == value \in {"1", "true", "yes", "explicit"}

\* collectM4AReplayGainFields: the values that are given, and the normalisation,
\* which is computed when the track's gain and peak are numbers, both of them.
GainFields(fields) ==
    LET given == {k \in Range(Gains) \cap DOMAIN fields : fields[k] # Blank}
        norm  == IF /\ {"replaygain_track_gain", "replaygain_track_peak"} \subseteq given
                    /\ Parsed(fields["replaygain_track_gain"]) # 0
                    /\ Parsed(fields["replaygain_track_peak"]) # 0
                 THEN {"iTunNORM"} ELSE {}
    IN  [k \in given \cup norm |-> IF k = "iTunNORM" THEN "norm" ELSE fields[k]]

GainTags(gains) ==
    LET written == SelectSeq(Append(Gains, "iTunNORM"), LAMBDA k : k \in DOMAIN gains)
    IN  FlattenSeq([i \in DOMAIN written |-> Freeform(written[i], gains[written[i]])])

\* The tags of an ilst box, each with its cells.
Tags(data, ilst) ==
    LET boxes == Boxes(data, ilst.at + 1, End(ilst))
    IN  [i \in DOMAIN boxes |-> Loaded(data, boxes[i])]

Typ(tag)  == tag[1].typ
Name(tag) == IF Typ(tag) = "----" THEN tag[2].typ ELSE "none"

-----------------------------------------------------------------------------
(* EditM4AFields *)

\* A cover that cannot be read, or is empty, is as good as none.
Unreadable == "unreadable"
HasCover(fields) ==
    "cover_path" \in DOMAIN fields /\ fields["cover_path"] \notin {Blank, Unreadable}

DropsAtoms(fields) ==
    {TextAtoms[k] : k \in DOMAIN TextAtoms \cap DOMAIN fields}
    \cup (IF "genre" \in DOMAIN fields THEN {"gnre"} ELSE {})
    \cup {Flags[k] : k \in DOMAIN Flags \cap DOMAIN fields}
    \cup (IF HasCover(fields) THEN {"covr"} ELSE {})

DropsNames(fields) ==
    (UNION {Aliases[k] : k \in DOMAIN Aliases \cap DOMAIN fields})
    \cup (IF DOMAIN GainFields(fields) # {} THEN GainNames ELSE {})

\* The two fields of an index pair: its number and its total.
Pairs == [trkn |-> <<"track_number", "track_total">>, disk |-> <<"disc_number", "disc_total">>]
EditsPair(fields, typ) == Range(Pairs[typ]) \cap DOMAIN fields # {}

\* Mutant: the old cover stays.
Keeps_Bug(fields, tag) ==
    /\ Typ(tag) \notin DropsAtoms(fields) \ {"covr"}
    /\ Typ(tag) \in DOMAIN Pairs => ~EditsPair(fields, Typ(tag))
    /\ Name(tag) \notin DropsNames(fields)

Keeps(fields, tag) ==
    /\ Typ(tag) \notin DropsAtoms(fields)
    /\ Typ(tag) \in DOMAIN Pairs => ~EditsPair(fields, Typ(tag))
    /\ Name(tag) \notin DropsNames(fields)

\* What the file has of a pair; the last of several counts.
CurrentPair(tags, typ) ==
    LET found == SelectSeq(tags, LAMBDA tag : Typ(tag) = typ)
    IN  IF found = <<>> THEN <<0, 0>> ELSE <<Last(found)[2].n, Last(found)[3].n>>

PairTag(fields, tags, typ) ==
    LET Value(i) == IF Pairs[typ][i] \in DOMAIN fields THEN Parsed(fields[Pairs[typ][i]])
                    ELSE CurrentPair(tags, typ)[i]
    IN  IF EditsPair(fields, typ) /\ Value(1) > 0
        THEN IndexTag(typ, Value(1), Value(2)) ELSE <<>>

\* The text atoms are appended in any order: the code ranges over a map.
Appends(fields, tags) ==
    LET texts == SetToSeq({k \in DOMAIN TextAtoms \cap DOMAIN fields : fields[k] # Blank})
        names == SetToSeq({k \in DOMAIN Freeforms \cap DOMAIN fields : fields[k] # Blank})
        flags == SetToSeq({k \in DOMAIN Flags \cap DOMAIN fields : Truthy(fields[k])})
        cover == IF HasCover(fields) THEN TextTag("covr", fields["cover_path"]) ELSE <<>>
    IN  FlattenSeq([i \in DOMAIN texts |-> TextTag(TextAtoms[texts[i]], fields[texts[i]])])
        \o FlattenSeq([i \in DOMAIN flags |-> TextTag(Flags[flags[i]], "1")])
        \o FlattenSeq([i \in DOMAIN names |->
                          Freeform(Freeforms[names[i]], fields[names[i]])])
        \o GainTags(GainFields(fields))
        \o PairTag(fields, tags, "trkn") \o PairTag(fields, tags, "disk") \o cover

EditMoov(data, base, chain, tags, fields) ==
    ReplaceIlst(data, base, chain,
                FlattenSeq(SelectSeq(tags, LAMBDA tag : Keeps(fields, tag)))
                \o Appends(fields, tags))

EditFields(file, fields) ==
    LET moov == Top(file, "moov")
        base == moov.at - 1
        Save(data, chain) ==
            IF chain = <<>> THEN file
            ELSE Publish(file, {Section(moov, EditMoov(data, base, chain,
                                                       Tags(data, Last(chain)), fields))})
        Edit(data) == Save(data, LocateIlst(data))
    IN  IF moov = NoBox THEN file ELSE Edit(EnsureIlst(Loaded(file, moov), base))

-----------------------------------------------------------------------------
(* writeM4AFreeformTags: a file without an ilst box is left as it is. *)

WriteFreeform(file, names, tags) ==
    LET moov == Top(file, "moov")
        base == moov.at - 1
        Rel(chain) == [i \in DOMAIN chain |-> [chain[i] EXCEPT !.at = @ - base]]
        Kept(ilst) == SelectSeq(Tags(file, ilst), LAMBDA tag : Name(tag) \notin names)
        Write(chain) ==
            IF chain = <<>> THEN file
            ELSE Publish(file, {Section(moov, ReplaceIlst(Loaded(file, moov), base, Rel(chain),
                                                          FlattenSeq(Kept(Last(chain))) \o tags))})
    IN  Write(MetadataPath(file))

\* EditM4AReplayGain
EditGains(file, fields) ==
    IF DOMAIN GainFields(fields) = {} THEN file
    ELSE WriteFreeform(file, GainNames, GainTags(GainFields(fields)))

\* EditM4AFreeformText
EditText(file, fields) ==
    LET keys == SelectSeq(<<"isrc", "label">>, LAMBDA k : k \in DOMAIN fields)
        set  == SelectSeq(keys, LAMBDA k : fields[k] # Blank)
    IN  IF keys = <<>> THEN file
        ELSE WriteFreeform(file, UNION {Aliases[k] : k \in Range(keys)},
                           FlattenSeq([i \in DOMAIN set |->
                                          Freeform(Freeforms[set[i]], fields[set[i]])]))

-----------------------------------------------------------------------------
(* What an edit owes the tags. *)

TagsOf(file) ==
    LET In(data, chain) == IF chain = <<>> THEN <<>> ELSE Tags(data, Last(chain))
        Of(moov) == In(Loaded(file, moov), MetadataPath(Loaded(file, moov)))
    IN  IF Top(file, "moov") = NoBox THEN <<>> ELSE Of(Top(file, "moov"))

\* What a player reads under a field.
ValueOf(tags, key) ==
    LET OfTyp(typ) == SelectSeq(tags, LAMBDA tag : Typ(tag) = typ)
        Named(name) == SelectSeq(tags, LAMBDA tag : Name(tag) = name)
        Text(found, i) == IF found = <<>> THEN Blank ELSE Head(found)[i].typ
    IN  IF key \in DOMAIN TextAtoms THEN Text(OfTyp(TextAtoms[key]), 2)
        ELSE IF key \in DOMAIN Freeforms THEN Text(Named(Freeforms[key]), 3)
        ELSE IF key \in DOMAIN Flags THEN Text(OfTyp(Flags[key]), 2)
        ELSE IF key \in GainNames THEN Text(Named(key), 3)
        ELSE Text(OfTyp("covr"), 2)

Settable == DOMAIN TextAtoms \cup DOMAIN Freeforms \cup DOMAIN Flags \cup {"cover_path"}

\* What an edit asks of a field that it names.
Asked(fields, before, k) ==
    IF k \in DOMAIN Flags THEN (IF Truthy(fields[k]) THEN "1" ELSE Blank)
    ELSE IF k = "cover_path" /\ ~HasCover(fields) THEN ValueOf(before, k)
    ELSE fields[k]

\* The number and the total that an edit leaves, which may name one of them; a
\* total without a number is none.
AskedPair(fields, before, typ) ==
    LET Wants(i) == IF Pairs[typ][i] \in DOMAIN fields THEN Parsed(fields[Pairs[typ][i]])
                    ELSE CurrentPair(before, typ)[i]
    IN  IF EditsPair(fields, typ) /\ Wants(1) = 0 THEN <<0, 0>> ELSE <<Wants(1), Wants(2)>>

\* EditM4AFields can edit the file: it has a box for the tags, or a place for one.
Editable(file) ==
    LET moov == Top(file, "moov")
    IN  moov # NoBox /\ LocateIlst(EnsureIlst(Loaded(file, moov), moov.at - 1)) # <<>>

\* After an edit each text, freeform, flag and cover that it sets has its new
\* value, or is gone, each that it leaves out is as before, and so are numbers and
\* totals; the gains are those it gives, with no normalisation that is not
\* computed of them, or as before when it gives none; and no field has a second
\* atom.  Which of the gains that it does not name outlive it is not said:
\* it removes them.  before and after are the tags of the file.
FieldsAsAsked(fields, before, after) ==
    /\ \A k \in Settable :
           ValueOf(after, k) = IF k \in DOMAIN fields THEN Asked(fields, before, k)
                               ELSE ValueOf(before, k)
    /\ \A typ \in DOMAIN Pairs :
           CurrentPair(after, typ) = AskedPair(fields, before, typ)
    /\ LET gains == GainFields(fields)
       IN  IF DOMAIN gains = {}
           THEN \A k \in GainNames : ValueOf(after, k) = ValueOf(before, k)
           ELSE \A k \in DOMAIN gains \cup {"iTunNORM"} :
                  ValueOf(after, k) = IF k \in DOMAIN gains THEN gains[k] ELSE Blank
    /\ \A typ \in Range(TextAtoms) \cup Range(Flags) \cup {"covr", "trkn", "disk"} :
           Len(SelectSeq(after, LAMBDA tag : Typ(tag) = typ)) <= 1
    /\ \A name \in Range(Freeforms) \cup GainNames :
           Len(SelectSeq(after, LAMBDA tag : Name(tag) = name)) <= 1

=============================================================================
