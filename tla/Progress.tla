------------------------------ MODULE Progress ------------------------------
(***************************************************************************)
(* The progress table of the download backend (progress.go): workers of    *)
(* many downloads update the items, and clients (the screen, the native    *)
(* worker) follow them by deltas: each asks for what changed since the     *)
(* revision it saw last, by polling or by waiting on a channel that is     *)
(* closed at the next revision.                                            *)
(*                                                                         *)
(* A client sees an item's bridge state only: bytes rounded down to        *)
(* buckets of Threshold, progress in percent.  A worker's update that      *)
(* leaves the bridge state as it is makes no revision.                     *)
(***************************************************************************)
EXTENDS Integers, FiniteSets

CONSTANTS
    Items,       \* ids of the downloads
    Clients,     \* followers of the table
    MaxBytes,    \* bytes of a transfer
    Threshold,   \* progressUpdateThreshold, at least 1
    Full,        \* the progress value 1.0, in steps of a percent
    Speeds,      \* measured speeds
    Stages,      \* preparation stages
    NoStage,     \* the empty stage
    NoItem,      \* what the table has for an id that is not in it
    MaxRemoved,  \* maxRemovedProgressEntries
    MaxSeq       \* bound: the revisions that a behaviour may make

VARIABLES
    items,    \* the item of every id, or NoItem: multiProgress.Items
    seq,      \* multiProgressSeq
    reset,    \* multiProgressReset
    removed,  \* revision of the removal of an id, or 0: removedProgressSeq
    dirty,    \* multiProgressDirty
    cached,   \* what cachedMultiProgress shows of every id
    since,    \* the last revision that each client saw
    view,     \* what each client shows of every id
    parked    \* the revision whose successor closes the channel on which the
              \* client waits, or Awake

vars == <<items, seq, reset, removed, dirty, cached, since, view, parked>>
table == <<items, seq, reset, removed, dirty, cached>>
clients == <<since, view, parked>>

Awake == -1
Bytes == 0..MaxBytes
Status == {"preparing", "downloading", "completed", "finalizing"}

Item == [received : Bytes, total : Bytes, progress : 0..Full, speed : Speeds,
         on : BOOLEAN, status : Status, stage : Stages, rev : Nat]

\* What the bridge tells of an item (itemProgressBridgeState).
Bridge(item) ==
    IF item = NoItem THEN NoItem
    ELSE [bucket |-> item.received \div Threshold, total |-> item.total,
          progress |-> item.progress, speed |-> item.speed,
          on |-> item.on, status |-> item.status, stage |-> item.stage]

Shown == [bucket : Nat, total : Bytes, progress : 0..Full, speed : Speeds,
          on : BOOLEAN, status : Status, stage : Stages] \cup {NoItem}

Snapshot == [i \in Items |-> Bridge(items[i])]

\* Faulty variant: more bytes than announced are more than all of it.
Ratio_Bug(received, total) == (2 * received * Full + total) \div (2 * total)

\* received / total as a progress value, rounded and at most Full.
Ratio(received, total) ==
    IF received >= total THEN Full
    ELSE (2 * received * Full + total) \div (2 * total)

TypeOK ==
    /\ items \in [Items -> Item \cup {NoItem}]
    /\ \A i \in Items : items[i] # NoItem => items[i].rev \in 1..seq
    /\ seq \in 0..MaxSeq
    /\ reset \in 0..seq
    /\ removed \in [Items -> 0..seq]
    /\ dirty \in BOOLEAN
    /\ cached \in [Items -> Shown]
    /\ since \in [Clients -> 0..seq]
    /\ view \in [Clients -> [Items -> Shown]]
    /\ parked \in [Clients -> 0..seq \cup {Awake}]

(***************************************************************************)
(* The workers.                                                            *)
(***************************************************************************)
\* nextMultiProgressSeqLocked: the next revision; it closes the channel that
\* every waiting client holds.
Revise ==
    /\ seq < MaxSeq
    /\ seq' = seq + 1

\* Faulty variant: an id that starts again keeps the removal of its last run.
StartItem_Bug(i) ==
    /\ Revise
    /\ items' = [items EXCEPT ![i] =
           [received |-> 0, total |-> 0, progress |-> 0, speed |-> 0,
            on |-> FALSE, status |-> "preparing", stage |-> NoStage,
            rev |-> seq + 1]]
    /\ dirty' = TRUE
    /\ UNCHANGED <<reset, cached, removed>> /\ UNCHANGED clients

StartItem(i) ==
    /\ Revise
    /\ items' = [items EXCEPT ![i] =
           [received |-> 0, total |-> 0, progress |-> 0, speed |-> 0,
            on |-> FALSE, status |-> "preparing", stage |-> NoStage,
            rev |-> seq + 1]]
    /\ removed' = [removed EXCEPT ![i] = 0]
    /\ dirty' = TRUE
    /\ UNCHANGED <<reset, cached>> /\ UNCHANGED clients

\* Faulty variant: a change is judged from its bytes alone.
Update_Bug(i, after) ==
    /\ items[i] # NoItem
    /\ IF after.received \div Threshold = items[i].received \div Threshold
       THEN /\ items' = [items EXCEPT ![i] = after]
            /\ UNCHANGED <<seq, dirty>>
       ELSE /\ Revise
            /\ items' = [items EXCEPT ![i] = [after EXCEPT !.rev = seq + 1]]
            /\ dirty' = TRUE
    /\ UNCHANGED <<reset, removed, cached>> /\ UNCHANGED clients

\* Puts `after`, the update of a known item, in the table: only a change that
\* the bridge shows makes a revision (markMultiProgressDirtyIfChangedLocked).
Update(i, after) ==
    /\ items[i] # NoItem
    /\ IF Bridge(after) = Bridge(items[i])
       THEN /\ items' = [items EXCEPT ![i] = after]
            /\ UNCHANGED <<seq, dirty>>
       ELSE /\ Revise
            /\ items' = [items EXCEPT ![i] = [after EXCEPT !.rev = seq + 1]]
            /\ dirty' = TRUE
    /\ UNCHANGED <<reset, removed, cached>> /\ UNCHANGED clients

SetPreparing(i, stage) ==
    Update(i, [items[i] EXCEPT !.progress = 0, !.received = 0, !.total = 0,
                               !.speed = 0, !.on = TRUE,
                               !.status = "preparing", !.stage = stage])

\* The fields that mark a transfer in progress.
Transferring(item) ==
    [item EXCEPT !.on = TRUE, !.status = "downloading", !.stage = NoStage]

SetDownloading(i) == Update(i, Transferring(items[i]))

SetBytesTotal(i, total) == Update(i, [items[i] EXCEPT !.total = total])

\* SetItemBytesReceived and SetItemBytesReceivedWithSpeed (another speed).
SetBytesReceived(i, received, speed) ==
    LET item == items[i]
        counted == [item EXCEPT !.received = received, !.speed = speed,
                        !.progress = IF item.total > 0
                                     THEN Ratio(received, item.total) ELSE @]
    IN Update(i, IF received > 0 THEN Transferring(counted) ELSE counted)

Complete(i) ==
    Update(i, [items[i] EXCEPT !.progress = Full, !.on = FALSE,
                               !.status = "completed", !.stage = NoStage])

SetProgress(i, progress, received, total) ==
    LET item == items[i]
        hasBytes == received > 0 \/ total > 0
        counted == [item EXCEPT
            !.progress = IF \/ item.status # "preparing"
                            \/ hasBytes
                            \/ progress >= Full
                         THEN progress ELSE 0,
            !.received = IF received > 0 THEN received ELSE @,
            !.total = IF total > 0 THEN total ELSE @]
    IN Update(i, IF \/ hasBytes
                    \/ progress >= Full
                    \/ item.status = "downloading"
                 THEN Transferring(counted) ELSE counted)

SetFinalizing(i) ==
    Update(i, [items[i] EXCEPT !.progress = Full, !.status = "finalizing",
                               !.stage = NoStage])

\* The removals that are remembered, and their revisions.
Tombs(rem) == {i \in Items : rem[i] > 0}
Revisions(rem) == {rem[i] : i \in Tombs(rem)}

\* The median revision: revisions[len(revisions)/2] of the sorted slice.
Median(rem, cutoff) ==
    /\ cutoff \in Revisions(rem)
    /\ Cardinality({r \in Revisions(rem) : r < cutoff}) =
           Cardinality(Revisions(rem)) \div 2

\* Faulty variant: the clients that miss the forgotten removals are not reset.
Prune_Bug(rem) ==
    \E cutoff \in Revisions(rem) :
        /\ Median(rem, cutoff)
        /\ removed' = [i \in Items |-> IF rem[i] <= cutoff THEN 0 ELSE rem[i]]
        /\ reset' = reset

\* pruneRemovedProgressLocked: forgets the older half of the removals `rem`;
\* a client that has not seen them is told to start anew.
Prune(rem) ==
    \E cutoff \in Revisions(rem) :
        /\ Median(rem, cutoff)
        /\ removed' = [i \in Items |-> IF rem[i] <= cutoff THEN 0 ELSE rem[i]]
        /\ reset' = IF cutoff > reset THEN cutoff ELSE reset

RemoveItem(i) ==
    /\ IF items[i] = NoItem
       THEN UNCHANGED <<items, seq, removed, reset>>
       ELSE LET rem == [removed EXCEPT ![i] = seq + 1]
            IN /\ Revise
               /\ items' = [items EXCEPT ![i] = NoItem]
               /\ IF Cardinality(Tombs(rem)) > MaxRemoved
                  THEN Prune(rem)
                  ELSE removed' = rem /\ reset' = reset
    /\ dirty' = TRUE
    /\ UNCHANGED cached /\ UNCHANGED clients

ClearAll ==
    /\ Revise
    /\ items' = [i \in Items |-> NoItem]
    /\ removed' = [i \in Items |-> 0]
    /\ reset' = seq + 1
    /\ dirty' = TRUE
    /\ UNCHANGED cached /\ UNCHANGED clients

(***************************************************************************)
(* The clients.                                                            *)
(***************************************************************************)
\* GetMultiProgress: the whole table, marshalled again only when dirty.
GetAll ==
    /\ dirty
    /\ cached' = Snapshot
    /\ dirty' = FALSE
    /\ UNCHANGED <<items, seq, reset, removed>> /\ UNCHANGED clients

\* GetMultiProgressDelta as client c applies it: a reset replaces its view,
\* another delta puts the revised items in it and takes out the removed ones.
Delta(c) ==
    LET fresh == since[c] <= 0 \/ since[c] < reset
    IN [i \in Items |->
           IF fresh THEN Bridge(items[i])
           ELSE IF items[i] # NoItem /\ items[i].rev > since[c]
                THEN Bridge(items[i])
                ELSE IF removed[i] > since[c] THEN NoItem ELSE view[c][i]]

GetDelta(c) ==
    /\ since[c] < seq
    /\ view' = [view EXCEPT ![c] = Delta(c)]
    /\ since' = [since EXCEPT ![c] = seq]

Poll(c) ==
    /\ parked[c] = Awake
    /\ GetDelta(c)
    /\ UNCHANGED parked /\ UNCHANGED table

\* Faulty variant: the revision is tested before the lock is taken for the
\* channel.
Park_Bug(c) ==
    /\ parked[c] = Awake
    /\ parked' = [parked EXCEPT ![c] = seq]
    /\ UNCHANGED <<since, view>> /\ UNCHANGED table

\* WaitForMultiProgressDelta: nothing new, so the client takes the current
\* channel under the lock and waits on it.
Park(c) ==
    /\ parked[c] = Awake
    /\ since[c] >= seq
    /\ parked' = [parked EXCEPT ![c] = seq]
    /\ UNCHANGED <<since, view>> /\ UNCHANGED table

\* The channel is closed: the loop tests the revision again and returns the
\* delta.
Wake(c) ==
    /\ parked[c] # Awake
    /\ seq > parked[c]
    /\ parked' = [parked EXCEPT ![c] = Awake]
    /\ GetDelta(c)
    /\ UNCHANGED table

\* The heartbeat timer fires first: the client gets no delta.
Heartbeat(c) ==
    /\ parked[c] # Awake
    /\ parked' = [parked EXCEPT ![c] = Awake]
    /\ UNCHANGED <<since, view>> /\ UNCHANGED table

(***************************************************************************)
(* The specification.                                                      *)
(***************************************************************************)
Init ==
    /\ items = [i \in Items |-> NoItem]
    /\ seq = 0
    /\ reset = 0
    /\ removed = [i \in Items |-> 0]
    /\ dirty = TRUE
    /\ cached = [i \in Items |-> NoItem]
    /\ since = [c \in Clients |-> 0]
    /\ view = [c \in Clients |-> [i \in Items |-> NoItem]]
    /\ parked = [c \in Clients |-> Awake]

Worker(i) ==
    \/ StartItem(i)
    \/ \E stage \in Stages : SetPreparing(i, stage)
    \/ SetDownloading(i)
    \/ \E total \in Bytes : SetBytesTotal(i, total)
    \/ \E received \in Bytes, speed \in Speeds :
          SetBytesReceived(i, received, speed)
    \/ Complete(i)
    \/ \E progress \in 0..Full, received, total \in Bytes :
          SetProgress(i, progress, received, total)
    \/ SetFinalizing(i)
    \/ RemoveItem(i)

Client(c) == Poll(c) \/ Park(c) \/ Wake(c) \/ Heartbeat(c)

Next ==
    \/ \E i \in Items : Worker(i)
    \/ ClearAll
    \/ GetAll
    \/ \E c \in Clients : Client(c)

Spec == Init /\ [][Next]_vars

\* A waiting client whose channel is closed is scheduled; nothing is assumed
\* of its timer or of the workers.
FairSpec == Spec /\ \A c \in Clients : WF_vars(Wake(c))

(***************************************************************************)
(* Properties.                                                             *)
(***************************************************************************)
\* A client that has seen the current revision shows exactly what the bridge
\* tells of every item: no update that was judged too small to revise, no
\* removal that was pruned and no cleared table leaves it behind.
CaughtUp == \A c \in Clients : since[c] = seq => view[c] = Snapshot

\* A remembered removal and a live item of the same id exclude each other, so
\* a delta never both shows and removes an id.
RemovedIsGone == \A i \in Items : removed[i] > 0 => items[i] = NoItem

\* The cached table shows what the bridge tells of every item unless it is
\* marked dirty.
CacheFresh == dirty \/ cached = Snapshot

\* A client that waits while a new revision is out is woken by it or has
\* given up: the wake-up is not lost between its test of the revision and its
\* wait on the channel.
WaitersWoken ==
    \A c \in Clients :
        (parked[c] # Awake /\ since[c] < seq) ~> (since[c] = seq \/ parked[c] = Awake)

=============================================================================
