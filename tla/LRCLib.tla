------------------------------- MODULE LRCLib -------------------------------
(***************************************************************************)
(* How one provider of lyrics is asked (lyrics.go): LRCLIB's record for the*)
(* artist, for the whole credit and for the simplified title, then what a  *)
(* search finds, by the title and by the simplified title.  A record is    *)
(* [matches, synced, plain, instrumental]: is it of this song, within the  *)
(* tolerance of its length, and what has it got?                           *)
(***************************************************************************)
EXTENDS Naturals, Sequences, FiniteSetsExt

Unavailable == [said |-> "unavailable", records |-> <<>>]
Missing == [said |-> "error", records |-> <<>>]
Records(rs) == [said |-> "records", records |-> rs]

\* A request may have a whole credit, or a simplified title, of its own.
Queries(request) ==
    <<"get">> \o (IF request.credit THEN <<"get credit">> ELSE <<>>)
    \o (IF request.simplified THEN <<"get simplified">> ELSE <<>>)
    \o <<"search">> \o (IF request.simplified THEN <<"search simplified">> ELSE <<>>)

Searches == {"search", "search simplified"}

\* The first of some of the records, in a sequence of its own.
First(records, those) == IF those = {} THEN <<>> ELSE <<records[Min(those)]>>

Matching(records) == {i \in DOMAIN records : records[i].matches}

\* findBestLRCLibSearchMatch: the first of those with timed lyrics, or else
\* of those with lyrics; one that is known to have none is passed over.  Mutant:
\* the first of those with lyrics.
Best_Bug(records) ==
    First(records, {i \in Matching(records) : records[i].synced \/ records[i].plain})

Best(records) ==
    LET synced == {i \in Matching(records) : records[i].synced}
        plain  == {i \in Matching(records) : records[i].plain}
    IN  First(records, IF synced # {} THEN synced ELSE plain)

\* FetchLyricsWithMetadata and fetchLyricsFromLRCLibSearch
Found(query, answer) ==
    IF query \in Searches THEN Best(answer.records)
    ELSE First(answer.records, Matching(answer.records))

\* parseLRCLibResponse: is there a line, or is it known to have none?
Usable(record) == record.synced \/ record.plain \/ record.instrumental

\* What a query is answered ends the asking: there is nobody to ask, or
\* something has been found.
Said(q, answer) ==
    LET found == Found(q, answer)
    IN  IF answer.said = "unavailable" THEN "unavailable"
        ELSE IF found = <<>> \/ ~Usable(found[1]) THEN "nothing"
        ELSE IF found[1].synced THEN "synced"
        ELSE IF found[1].plain THEN "plain" ELSE "instrumental"

\* tryLRCLIB, of what each query would be answered.
TryLRCLIB(request, answers) ==
    LET queries == Queries(request)
        ending  == {i \in DOMAIN queries : Said(queries[i], answers[queries[i]]) # "nothing"}
        query   == queries[Min(ending)]
    IN  IF ending = {} THEN [said |-> "not found", by |-> ""]
        ELSE [said |-> Said(query, answers[query]), by |-> query]

\* What an answer has got of the song.
HasSynced(answer) == \E i \in Matching(answer.records) : answer.records[i].synced
HasPlain(answer)  == \E i \in Matching(answer.records) : answer.records[i].plain
HasSilence(answer) == \E i \in Matching(answer.records) : answer.records[i].instrumental

\* What LRCLIB is said to have is of the song, and the best that the query
\* which found it was answered; it is said to have nothing only when no query
\* was answered with lyrics, none but a search with a song that has none, and it
\* was there to be asked: an outage is never taken for an answer.
SaysWhatItHas(request, answers) ==
    LET queries == Queries(request)
        result  == TryLRCLIB(request, answers)
        answer  == answers[result.by]
    IN /\ result.said = "not found" =>
            \A i \in DOMAIN queries : /\ answers[queries[i]].said # "unavailable"
                                      /\ ~HasSynced(answers[queries[i]])
                                      /\ ~HasPlain(answers[queries[i]])
                                      /\ HasSilence(answers[queries[i]]) =>
                                           queries[i] \in Searches
       /\ result.said = "unavailable" => answer.said = "unavailable"
       /\ result.said = "synced" => HasSynced(answer)
       /\ result.said = "plain" => HasPlain(answer) /\ ~HasSynced(answer)
       /\ result.said = "instrumental" => HasSilence(answer)

=============================================================================
