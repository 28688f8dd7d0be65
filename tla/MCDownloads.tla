---------------------------- MODULE MCDownloads -----------------------------
(***************************************************************************)
(* TLC: the cancellation of downloads and, by itself, a download that falls *)
(* back: a source catalog that downloads too, a provider that the user     *)
(* selects and one more to fall back to.  `which` names the part that runs *)
(* in a behaviour; the other stays where it begins.                        *)
(***************************************************************************)
EXTENDS DownloadCancel, Sequences

CONSTANTS
    Extensions, Downloaders, Catalogs, Stoppers, Allowed, Toggled,
    Orders, Requests, NoExt,    \* those of DownloadFallback
    catalog, chosen, spare      \* the extensions of the runs

VARIABLES which, place, call, response, entry, cancelled, enabled, file, paused

falling == <<place, call, response, entry, cancelled, enabled, file, paused>>

Asked(service, source, fallback, fields) ==
    [service |-> service, source |-> source, fallback |-> fallback, has |-> fields]

SomeRequests ==
    {Asked(chosen, catalog, TRUE, {"ids"}), Asked(chosen, catalog, FALSE, {"core"}),
     Asked(catalog, catalog, TRUE, {"ids"}), Asked(NoExt, chosen, FALSE, {"core"}),
     Asked(NoExt, NoExt, TRUE, {"core"})}
SomeOrders == {<<catalog, chosen, spare>>}

Falling == INSTANCE DownloadFallback WITH at <- place

\* Only installed extensions download, are toggled, asked for and ordered.
ASSUME FallbackAssumption ==
    /\ NoExt \notin Extensions
    /\ Downloaders \subseteq Extensions
    /\ Toggled \subseteq Extensions
    /\ Orders \subseteq Seq(Extensions)
    /\ Requests \subseteq Falling!Request

MCInit ==
    /\ which \in {"cancel", "fallback"}
    /\ Init /\ Falling!Init
    /\ which = "fallback" => of = [d \in Calls |-> CHOOSE i \in Ids : TRUE]

MCNext ==
    \/ which = "cancel" /\ Next /\ UNCHANGED <<which, falling>>
    \/ which = "fallback" /\ Falling!Next /\ UNCHANGED <<which, vars>>

MCSpec ==
    /\ MCInit /\ [][MCNext]_<<which, vars, falling>>
    /\ WF_falling(which = "fallback" /\ Falling!CallStep)

\* Who may download: nobody after one that asked not to fall back, nobody
\* before the selected one, nobody else for a download without fallback.
OrderKept ==
    /\ Falling!TypeOK /\ Falling!SkipHonoured
    /\ Falling!SelectedFirst /\ Falling!StrictKept
\* The error, its type and its delay that the caller is told are all of the
\* provider that the answer names (extension_fallback.go).
ErrorOwned == Falling!ErrorOwned

\* A call resumes what was prepared exactly if its item was paused last for
\* the same request and the entry is still kept
\* (download_preparation_cache.go).
PauseResumes == Falling!PauseResumes

\* Every call of DownloadWithExtensionFallback returns.
CallsReturn == Falling!CallsReturn

\* A resumed download has all that its preparation had found.
PreparedComplete == Falling!PreparedComplete
=============================================================================
