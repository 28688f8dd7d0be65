---------------------------- MODULE LibraryScan -----------------------------
(***************************************************************************)
(* The scan of the music library (library_scan.go): a feeder, a few workers*)
(* and a collector, joined by channels, and a cancel channel that a user or*)
(* the next scan closes.  LibraryPlan says which files become tasks.       *)
(***************************************************************************)
EXTENDS Naturals, Sequences, FiniteSets

CONSTANTS
    Scans,        \* calls of ScanLibraryFolderToNDJSONFile, one after another or not
    Workers,
    Tasks,        \* 1 .. N: the files to scan
    None

VARIABLES
    scan,         \* each scan: see New
    worker,       \* scan -> worker -> Ready, a task or Gone
    current,      \* libraryScanCancel: the scan whose channel it is, or None
    progress,     \* libraryScanProgress: does it say complete?
    output        \* the scan's file: "none", "partial" or "complete"

vars == <<scan, worker, current, progress, output>>

N == Cardinality(Tasks)

Ready == 0
Gone == N + 1

New == [pc |-> "new", fed |-> 0, closed |-> FALSE, cancelled |-> FALSE, sinkFailed |-> FALSE,
        completed |-> 0, emitted |-> {}, errors |-> 0, buffer |-> {}]

Init ==
    /\ scan = [s \in Scans |-> New]
    /\ worker = [s \in Scans |-> [w \in Workers |-> Ready]]
    /\ current = None
    /\ progress = FALSE
    /\ output = [s \in Scans |-> "none"]

\* The cancel channel of the scan that is under way is closed.
Closing == [s \in Scans |-> IF s = current THEN [scan[s] EXCEPT !.cancelled = TRUE] ELSE scan[s]]

Start(s) ==
    /\ scan[s].pc = "new"
    /\ scan' = [Closing EXCEPT ![s].pc = "collecting"]
    /\ current' = s
    /\ progress' = FALSE
    /\ output' = [output EXCEPT ![s] = "partial"]
    /\ UNCHANGED worker

Fails(s) ==
    /\ scan' = [scan EXCEPT ![s].pc = "failed"]
    /\ output' = [output EXCEPT ![s] = "none"]

\* collectLibraryAudioFiles, and the rows of the cue sheets, which the sink may
\* refuse.  The audio files are read by workers or, when they are few, one by
\* one (libraryScanWorkerCount).
Collect(s) ==
    /\ scan[s].pc = "collecting"
    /\ \/ /\ ~scan[s].cancelled /\ UNCHANGED output
          /\ \E pc \in {"scanning", "alone"} : scan' = [scan EXCEPT ![s].pc = pc]
       \/ Fails(s)
    /\ UNCHANGED <<worker, current, progress>>

\* Without workers: each file is begun only while there is no cancel ...
NextAlone(s) ==
    /\ scan[s].pc = "alone" /\ scan[s].fed = scan[s].completed /\ scan[s].fed < N
    /\ IF scan[s].cancelled THEN Fails(s)
       ELSE scan' = [scan EXCEPT ![s].fed = @ + 1] /\ UNCHANGED output
    /\ UNCHANGED <<worker, current, progress>>

\* ... and is written, or could not be read, or the sink fails and the scan.
ReadAlone(s) ==
    /\ scan[s].pc = "alone" /\ scan[s].completed < scan[s].fed
    /\ \/ /\ \E ok \in BOOLEAN :
               scan' = [scan EXCEPT ![s].completed = @ + 1,
                                    ![s].emitted = IF ok THEN @ \cup {scan[s].fed} ELSE @,
                                    ![s].errors = IF ok THEN @ ELSE @ + 1]
          /\ UNCHANGED output
       \/ Fails(s)
    /\ UNCHANGED <<worker, current, progress>>

\* The feeder hands the next task to a worker, or sees that it is cancelled.
Feed(s, w) ==
    /\ scan[s].pc = "scanning" /\ worker[s][w] = Ready
    /\ ~scan[s].closed /\ scan[s].fed < N
    /\ scan' = [scan EXCEPT ![s].fed = @ + 1]
    /\ worker' = [worker EXCEPT ![s][w] = IF scan[s].cancelled THEN Gone ELSE scan[s].fed + 1]
    /\ UNCHANGED <<current, progress, output>>

\* Mutant: the feeder that is cancelled leaves its channel open.
FeederEnds_Bug(s) ==
    /\ scan[s].pc = "scanning" /\ ~scan[s].closed
    /\ scan[s].fed = N \/ scan[s].cancelled
    /\ scan' = [scan EXCEPT ![s].fed = N, ![s].closed = ~scan[s].cancelled]
    /\ UNCHANGED <<worker, current, progress, output>>

FeederEnds(s) ==
    /\ scan[s].pc = "scanning" /\ ~scan[s].closed
    /\ scan[s].fed = N \/ scan[s].cancelled
    /\ scan' = [scan EXCEPT ![s].closed = TRUE]
    /\ UNCHANGED <<worker, current, progress, output>>

\* A worker has read its file, or could not.
Send(s, w) ==
    /\ worker[s][w] \in Tasks
    /\ Cardinality(scan[s].buffer) < Cardinality(Workers)
    /\ \E ok \in BOOLEAN :
         scan' = [scan EXCEPT ![s].buffer = @ \cup {[task |-> worker[s][w], ok |-> ok]}]
    /\ worker' = [worker EXCEPT ![s][w] = Ready]
    /\ UNCHANGED <<current, progress, output>>

WorkerEnds(s, w) ==
    /\ scan[s].pc = "scanning"
    /\ \/ worker[s][w] \in Tasks /\ scan[s].cancelled
       \/ worker[s][w] = Ready /\ scan[s].closed
    /\ worker' = [worker EXCEPT ![s][w] = Gone]
    /\ UNCHANGED <<scan, current, progress, output>>

\* The collector: once the sink has failed no row is written any more, but the
\* workers' results are taken until the channel is closed.
Receive(s) ==
    /\ scan[s].pc = "scanning"
    /\ \E r \in scan[s].buffer, written \in BOOLEAN :
         LET row == r.ok /\ ~scan[s].sinkFailed IN
         scan' = [scan EXCEPT ![s].buffer = @ \ {r}, ![s].completed = @ + 1,
                              ![s].emitted = IF row /\ written THEN @ \cup {r.task} ELSE @,
                              ![s].sinkFailed = @ \/ (row /\ ~written),
                              ![s].errors = IF r.ok THEN @ ELSE @ + 1]
    /\ UNCHANGED <<worker, current, progress, output>>

Drained(s) ==
    \/ /\ scan[s].pc = "scanning" /\ scan[s].buffer = {}
       /\ \A w \in Workers : worker[s][w] = Gone
    \/ scan[s].pc = "alone" /\ scan[s].completed = N

\* Mutant: the sink's error is forgotten with the rows that were not written.
End_Bug(s) ==
    /\ Drained(s)
    /\ IF scan[s].pc = "scanning" /\ scan[s].cancelled THEN Fails(s)
       ELSE scan' = [scan EXCEPT ![s].pc = "ending"] /\ UNCHANGED output
    /\ UNCHANGED <<worker, current, progress>>

\* Read one by one, the files are not followed by a look at the cancel.
End(s) ==
    /\ Drained(s)
    /\ IF scan[s].pc = "scanning" /\ (scan[s].sinkFailed \/ scan[s].cancelled) THEN Fails(s)
       ELSE scan' = [scan EXCEPT ![s].pc = "ending"] /\ UNCHANGED output
    /\ UNCHANGED <<worker, current, progress>>

\* The progress says complete before the file is flushed and closed.
Complete(s) ==
    /\ scan[s].pc = "ending" /\ scan' = [scan EXCEPT ![s].pc = "flushing"]
    /\ progress' = TRUE
    /\ UNCHANGED <<worker, current, output>>

\* writer.Flush and file.Close, whose error removes the file.
Flush(s) ==
    /\ scan[s].pc = "flushing"
    /\ \/ /\ scan' = [scan EXCEPT ![s].pc = "done"]
          /\ output' = [output EXCEPT ![s] = "complete"]
       \/ Fails(s)
    /\ UNCHANGED <<worker, current, progress>>

\* CancelLibraryScan
Cancel ==
    /\ current # None /\ current' = None
    /\ scan' = Closing
    /\ UNCHANGED <<worker, progress, output>>

Work(s, w) == Feed(s, w) \/ Send(s, w) \/ WorkerEnds(s, w)
Goes(s) ==
    \/ Collect(s) \/ NextAlone(s) \/ ReadAlone(s) \/ FeederEnds(s) \/ Receive(s)
    \/ End(s) \/ Complete(s) \/ Flush(s)

Next == Cancel \/ \E s \in Scans : Start(s) \/ Goes(s) \/ \E w \in Workers : Work(s, w)

Spec == Init /\ [][Next]_vars

FairSpec ==
    Spec /\ \A s \in Scans : WF_vars(Goes(s)) /\ \A w \in Workers : WF_vars(Work(s, w))

\* A scan is done only when it has a row or an error for every file, however
\* its workers, a cancel and a sink that fails interleave, and only a scan that
\* is done leaves a file; a scan that has failed leaves none.
ScanIsComplete ==
    \A s \in Scans :
      /\ scan[s].pc = "done" => /\ scan[s].completed = N
                                /\ Cardinality(scan[s].emitted) + scan[s].errors = N
      /\ output[s] = "complete" <=> scan[s].pc = "done"
      /\ scan[s].pc = "failed" => output[s] = "none"

\* Every scan ends, its workers first: nobody is left waiting at a channel,
\* whenever it is cancelled and whatever the sink says.
ScansEnd ==
    \A s \in Scans :
      scan[s].pc # "new" ~> /\ scan[s].pc \in {"done", "failed"}
                           /\ \A w \in Workers : worker[s][w] \notin Tasks

=============================================================================
