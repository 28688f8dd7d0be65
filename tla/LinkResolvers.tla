--------------------------- MODULE LinkResolvers ---------------------------
(***************************************************************************)
(* How the resolvers read links out of what they are given (platform_      *)
(* resolver_fallbacks.go) and what is made of the links (songlink.go).  A  *)
(* URL is told by what the filters look at: its scheme, the platform whose *)
(* host it has ("" for any other) and whether it is a search page.  Links  *)
(* are a function from platforms to URLs.                                  *)
(***************************************************************************)
EXTENDS Naturals, Sequences, SequencesExt, FiniteSets

Url(https, host, search) == [https |-> https, host |-> host, search |-> search]

NoLinks == [p \in {} |-> Url(TRUE, "", FALSE)]
NoAnswer == [failed |-> TRUE, links |-> NoLinks, titled |-> FALSE]
Answer(links, titled) == [failed |-> FALSE, links |-> links, titled |-> titled]

\* directResolverURL.  Mutant: a search page is taken for the track's.
Direct_Bug(platform, url) ==
    platform # "" /\ url.https /\ url.host = platform

Direct(platform, url) ==
    platform # "" /\ url.https /\ url.host = platform /\ ~url.search

\* The first of two links to a platform stays.
Add(links, platform, url) ==
    IF platform \in DOMAIN links \/ ~Direct(platform, url) THEN links
    ELSE [p \in DOMAIN links \cup {platform} |-> IF p = platform THEN url ELSE links[p]]

\* mergeResolverLinks
Merge(links, more) ==
    [p \in DOMAIN links \cup {q \in DOMAIN more : Direct(q, more[q])} |->
        IF p \in DOMAIN links THEN links[p] ELSE more[p]]

\* addResolverSourceLink
AddSource(links, source) == Add(links, source.host, source)

\* The links of a list, each under the platform of its host, the first of
\* each platform.
ByHost(urls) ==
    LET good == SelectSeq(urls, LAMBDA u : Direct(u.host, u))
    IN  [p \in {u.host : u \in ToSet(good)} |->
            good[CHOOSE i \in DOMAIN good : good[i].host = p
                                            /\ \A j \in 1..i - 1 : good[j].host # p]]

\* songLinkWebResolver: the anchors of the page that song.link ends at.
SongLinkWeb(source, ok, landed, anchors) ==
    LET links == AddSource(ByHost(anchors), source) IN
    IF Direct(source.host, source) /\ ok /\ landed /\ Cardinality(DOMAIN links) >= 2
    THEN Answer(links, FALSE) ELSE NoAnswer

\* unituneResolver and squiglyResolver: links under the platforms they name.
\* UniTune may know the title only.
Named(services) == Merge(NoLinks, services)

Unitune(ok, services, titled) ==
    IF ok /\ (Named(services) # NoLinks \/ titled) THEN Answer(Named(services), titled)
    ELSE NoAnswer

Squigly(ok, ownPage, services, titled) ==
    IF ok /\ ownPage /\ Named(services) # NoLinks THEN Answer(Named(services), titled)
    ELSE NoAnswer

\* musicBrainzPlatformResolver: the relations of the first recording that is
\* verified to be the one looked for; candidates are [score, title, artist],
\* the last two saying whether they match.
Verified(c) == c.score >= 90 /\ c.title /\ c.artist

MusicBrainz(titled, candidates, relations) ==
    LET found == SelectSeq(candidates, Verified) IN
    IF titled /\ found # <<>> /\ ByHost(relations[found[1].id]) # NoLinks
    THEN Answer(ByHost(relations[found[1].id]), TRUE) ELSE NoAnswer

\* platformResolverChain.Resolve, of what its resolvers would answer.
Enough(links) ==
    /\ Cardinality(DOMAIN links) >= 4
    /\ Cardinality(DOMAIN links \cap {"deezer", "tidal", "amazonMusic", "qobuz"}) >= 2

Answered(links, answer) ==
    IF answer.failed \/ Enough(links) THEN links ELSE Merge(links, answer.links)

Resolve(source, answers) ==
    LET links[n \in 0..Len(answers)] ==
            IF n = 0 THEN NoLinks ELSE Answered(links[n - 1], answers[n])
    IN  AddSource(links[Len(answers)], source)

\* buildTrackAvailabilityFromSongLinkLinks: the services that have a track.
Services == {"tidal", "amazonMusic", "qobuz", "deezer"}

Availability(links) ==
    {s \in Services : s \in DOMAIN links}
      \cup (IF {"youtubeMusic", "youtube"} \cap DOMAIN links # {} THEN {"youtube"} ELSE {})

\* checkAvailabilityFromDeezerSongLink
AvailabilityFromDeezer(links) == Availability(links) \cup {"deezer"}

\* Whatever the resolvers answer, a link that the app is given leads, by
\* https, to a page of the platform it is listed under, and what one
\* resolver has found no later one replaces.
LinksAreDirect(source, answers) ==
    LET links == Resolve(source, answers)
        before == Resolve(source, SubSeq(answers, 1, Len(answers) - 1)) IN
    /\ \A p \in DOMAIN links : links[p].https /\ links[p].host = p /\ ~links[p].search
    /\ answers # <<>> => \A p \in DOMAIN before \ {source.host} : links[p] = before[p]

=============================================================================
