-------------------------- MODULE ReliableTransfer --------------------------
(***************************************************************************)
(* The transfers behind a script's file.download and file.downloadSegments *)
(* to one output path: reliableFileDownload ("ranged"), fileDownloadChunked*)
(* ("chunked") and fileDownloadSegments ("segmented").  All three write a  *)
(* staged file `<output>.partial`, note in a checkpoint how much of it can *)
(* be trusted, and rename it over the output when it is complete; a later  *)
(* call, perhaps of a new process, continues from the checkpoint.  The lock*)
(* of lockDownloadOutputPath makes the calls for one path sequential.      *)
(*                                                                         *)
(* A file is a sequence of blocks <<object, position>>.  The object behind *)
(* the URL is one of Versions; Tag is the validator its responses carry.   *)
(* `synced` blocks of the staged file survive a loss of power, the rest    *)
(* may be lost from the end; renames, removals and truncations are durable.*)
(***************************************************************************)
EXTENDS Integers, Sequences, FiniteSets

CONSTANTS
  Versions,     \* versions of the object behind the URL, served one at a time
  Lists,        \* segment lists a segmented call may be given
  Size,         \* Size[o]: blocks (for a list: segments) of an object, at least 1
  Tag,          \* Tag[v]: the ETag or Last-Modified of a version, or NoTag
  NoTag, NoFile, NoCheckpoint,
  MaxAttempts,  \* policy.MaxAttempts
  MaxParallel,  \* policy.MaxParallelSegments
  ChunkSize,    \* blocks of a chunk
  Scenarios,    \* what may go wrong together, see `scenario`
  MaxCalls      \* bound: calls of a behaviour

Objects == Versions \cup Lists

VARIABLES
  staged,    \* blocks of the staged file, <<>> when there is none
  synced,    \* how many of them are on stable storage
  ckpt,      \* `.partial.checkpoint.json`
  segCkpt,   \* `.partial.checkpoint.json.segments`
  final,     \* blocks of the file at the output path, or NoFile
  server,    \* version the server has now
  call,      \* the locals of the call that is running
  calls,     \* calls begun
  scenario   \* [engines, versions, crash, fail]: the engines used, the versions
             \* the object takes, whether the process dies, the storage refuses

disk == <<staged, synced, ckpt, segCkpt, final>>
vars == <<disk, server, call, calls, scenario>>

Idle == [pc |-> "idle", engine |-> "ranged", resume |-> FALSE, keep |-> FALSE,
         attempt |-> 0, tag |-> NoTag, total |-> 0, body |-> NoFile, full |-> FALSE,
         start |-> 0, end |-> 0, at |-> 0,
         list |-> NoFile, segments |-> <<>>, next |-> 0]

Min2(a, b) == IF a < b THEN a ELSE b
Whole(o) == [i \in 1..Size[o] |-> <<o, i>>]
Written == Len(staged)
Goto(p) == call' = [call EXCEPT !.pc = p]

Init ==
  /\ scenario \in Scenarios
  /\ staged = <<>> /\ synced = 0 /\ final = NoFile
  /\ ckpt = NoCheckpoint /\ segCkpt = NoCheckpoint
  /\ server \in scenario.versions
  /\ call = Idle /\ calls = 0

(***************************************************************************)
(* The staged file and its checkpoints                                     *)
(***************************************************************************)
TruncateTo(n) ==
  /\ staged' = SubSeq(staged, 1, n)
  /\ synced' = Min2(synced, n)

WriteBlock(b) == staged' = Append(staged, b)

(* The sync and the save of a checkpoint `entry` of the file as it is after *)
(* the step.  At a moment the 8 MiB and 5 s limits choose (unless `must`)  *)
(* nothing is due; otherwise both succeed, or the storage refuses one and  *)
(* the error is dropped.                                                   *)
Checkpoint(due, must, entry) ==
  LET saved == IF call.engine = "segmented"
               THEN segCkpt' = entry /\ UNCHANGED ckpt
               ELSE ckpt' = entry /\ UNCHANGED segCkpt
  IN \/ due /\ synced' = entry.bytes /\ saved
     \/ /\ due /\ scenario.fail
        /\ synced' \in {synced, entry.bytes}
        /\ UNCHANGED <<ckpt, segCkpt>>
     \/ ~(due /\ must) /\ UNCHANGED <<synced, ckpt, segCkpt>>

SaveCheckpoint(file, must) ==
  Checkpoint(call.keep /\ call.tag # NoTag /\ file # <<>>, must,
             [tag |-> call.tag, bytes |-> Len(file), total |-> call.total])

SaveSegments(file, next, must) ==
  Checkpoint(call.keep /\ next > 0 /\ file # <<>>, must,
             [list |-> call.list, bytes |-> Len(file), next |-> next])

DropCheckpoint ==
  IF call.engine = "segmented"
  THEN segCkpt' = NoCheckpoint /\ UNCHANGED ckpt
  ELSE ckpt' = NoCheckpoint /\ UNCHANGED segCkpt

(* A call that cannot go on saves what it has, then fails.                 *)
GiveUp ==
  /\ call.pc = "giveup"
  /\ IF call.engine = "segmented" THEN SaveSegments(staged, call.next, TRUE)
                                  ELSE SaveCheckpoint(staged, TRUE)
  /\ Goto("fail")
  /\ UNCHANGED <<staged, final, server, calls, scenario>>

(* The deferred clean-up of a call that did not promote its file.          *)
Discard ==
  IF call.keep
  THEN UNCHANGED <<staged, synced, ckpt, segCkpt>>
  ELSE TruncateTo(0) /\ DropCheckpoint

Fail ==
  /\ call.pc = "fail"
  /\ Discard
  /\ call' = Idle
  /\ UNCHANGED <<final, server, calls, scenario>>

(* Sync, close and rename; the storage may refuse any of them.             *)
Publish ==
  /\ call.pc = "publish"
  /\ \/ /\ final' = staged /\ staged' = <<>> /\ synced' = 0
        /\ Goto("published")
     \/ /\ scenario.fail
        /\ synced' \in {synced, Written}
        /\ Goto("fail")
        /\ UNCHANGED <<staged, final>>
  /\ UNCHANGED <<ckpt, segCkpt, server, calls, scenario>>

(* The checkpoint is removed after the rename, then the call succeeds.     *)
Succeed ==
  /\ call.pc = "published"
  /\ DropCheckpoint
  /\ call' = Idle
  /\ UNCHANGED <<staged, synced, final, server, calls, scenario>>

(* Without a usable checkpoint the staged file and then the checkpoint are *)
(* removed before the staged file is created.                              *)
Clear ==
  /\ call.pc = "clear"
  /\ TruncateTo(0)
  /\ Goto("drop")
  /\ UNCHANGED <<ckpt, segCkpt, final, server, calls, scenario>>

Drop ==
  /\ call.pc = "drop"
  /\ DropCheckpoint
  /\ Goto(IF call.engine = "segmented" THEN "segments" ELSE "request")
  /\ UNCHANGED <<staged, synced, final, server, calls, scenario>>

(* The process dies and another is started.                                *)
Crash ==
  /\ scenario.crash /\ call.pc # "idle"
  /\ \E n \in synced..Written : staged' = SubSeq(staged, 1, n)
  /\ call' = Idle
  /\ UNCHANGED <<synced, ckpt, segCkpt, final, server, calls, scenario>>

(* The server has a new version of the object.                             *)
Change ==
  /\ \E v \in scenario.versions : v > server /\ server' = v
  /\ UNCHANGED <<disk, call, calls, scenario>>

-----------------------------------------------------------------------------

(***************************************************************************)
(* The engines.  A response is read block by block from `at`, where the    *)
(* range it answers begins, and each block is appended to the staged file. *)
(***************************************************************************)
Begin(c) ==
  /\ call.pc = "idle" /\ calls < MaxCalls
  /\ c.engine \in scenario.engines
  /\ call' = c
  /\ calls' = calls + 1
  /\ UNCHANGED <<disk, server, scenario>>

(* The read of a block: it is written, or the storage refuses it.          *)
BlockRead == <<call.body, call.at + 1>>

Block(save) ==
  \/ /\ WriteBlock(BlockRead)
     /\ save
     /\ call' = [call EXCEPT !.at = @ + 1]
     /\ UNCHANGED <<final, server, calls, scenario>>
  \/ /\ scenario.fail
     /\ Goto("fail")
     /\ UNCHANGED <<disk, server, calls, scenario>>

(* The pc after an attempt that failed; a status outside 408, 425, 429 and *)
(* 5xx fails at once.                                                      *)
AfterFailure == {"fail"} \cup (IF call.attempt + 1 < MaxAttempts THEN {"request"} ELSE {})

(***************************************************************************)
(* reliableFileDownload                                                    *)
(***************************************************************************)
Ranged(p) == call.engine = "ranged" /\ call.pc = p

RangedStart(resume, persistent) ==
  LET keep == resume /\ persistent
  IN Begin([Idle EXCEPT !.pc = IF keep /\ ckpt # NoCheckpoint THEN "restore" ELSE "clear",
                        !.resume = resume, !.keep = keep])

(* A checkpoint of the whole object is published without a request.        *)
RangedRestore ==
  /\ Ranged("restore")
  /\ LET n == Min2(ckpt.bytes, Written)
         complete == n > 0 /\ ckpt.total > 0 /\ n = ckpt.total
     IN /\ TruncateTo(n)
        /\ call' = [call EXCEPT !.tag = ckpt.tag, !.total = ckpt.total,
                                !.pc = IF complete THEN "publish" ELSE "request"]
  /\ UNCHANGED <<ckpt, segCkpt, final, server, calls, scenario>>

RangeFrom == IF call.resume /\ Written > 0 /\ call.tag # NoTag THEN Written ELSE 0

(* Bug: the attempts are not counted.                                      *)
RangedNoBody_Bug ==
  /\ Ranged("request")
  /\ call' \in {[call EXCEPT !.pc = p] : p \in AfterFailure}
  /\ UNCHANGED <<disk, server, calls, scenario>>

(* No response, or a status of failure.                                    *)
RangedNoBody ==
  /\ Ranged("request")
  /\ call' \in {[call EXCEPT !.pc = p, !.attempt = @ + 1] : p \in AfterFailure}
  /\ \/ UNCHANGED <<staged, synced>>
     \/ call'.pc = "request" /\ RangeFrom = 0 /\ TruncateTo(0)
  /\ UNCHANGED <<ckpt, segCkpt, final, server, calls, scenario>>

(* 200: the body starts at 0; the length of the body may be unknown.       *)
RangedFull ==
  /\ Ranged("request")
  /\ IF RangeFrom > 0 THEN TruncateTo(0) ELSE UNCHANGED <<staged, synced>>
  /\ \E total \in {Size[server], 0} :
       call' = [call EXCEPT !.pc = "body", !.attempt = @ + 1, !.body = server,
                            !.tag = IF Tag[server] # NoTag THEN Tag[server] ELSE @,
                            !.total = total, !.at = 0]
  /\ UNCHANGED <<ckpt, segCkpt, final, server, calls, scenario>>

(* 206: the server has the version the validator in If-Range names.        *)
RangedPartial ==
  /\ Ranged("request")
  /\ RangeFrom > 0 /\ RangeFrom < Size[server] /\ Tag[server] = call.tag
  /\ call' = [call EXCEPT !.pc = "body", !.attempt = @ + 1, !.body = server,
                          !.total = Size[server], !.at = RangeFrom]
  /\ UNCHANGED <<disk, server, calls, scenario>>

(* 206 of another range, or of a version with another validator.           *)
RangedMismatch ==
  /\ Ranged("request") /\ RangeFrom > 0
  /\ Goto("fail")
  /\ UNCHANGED <<disk, server, calls, scenario>>

RangedBlock ==
  /\ Ranged("body") /\ call.at < Size[call.body]
  /\ Block(SaveCheckpoint(Append(staged, BlockRead), FALSE))

RangedEnd ==
  /\ Ranged("body") /\ call.at = Size[call.body]
  /\ call.total \in {0, Written}
  /\ Goto("publish")
  /\ UNCHANGED <<disk, server, calls, scenario>>

(* The body breaks off, also after its last block, or it stalls: what is   *)
(* there is saved and the next attempt continues from it, or, without a    *)
(* validator, starts again.                                                *)
RangedCut ==
  /\ Ranged("body")
  /\ \/ Goto("giveup") /\ UNCHANGED <<staged, synced, ckpt, segCkpt>>
     \/ /\ call.attempt < MaxAttempts
        /\ IF ~call.resume \/ call.tag = NoTag
           THEN /\ TruncateTo(0) /\ DropCheckpoint
                /\ call' = [call EXCEPT !.pc = "request", !.tag = NoTag]
           ELSE /\ SaveCheckpoint(staged, TRUE)
                /\ Goto("request") /\ UNCHANGED staged
  /\ UNCHANGED <<final, server, calls, scenario>>

(***************************************************************************)
(* fileDownloadChunked                                                     *)
(***************************************************************************)
Chunked(p) == call.engine = "chunked" /\ call.pc = p

ChunkedStart(persistent) ==
  Begin([Idle EXCEPT !.engine = "chunked", !.pc = "probe", !.keep = persistent])

(* The loop's head: another chunk, or the check of the size after it.      *)
NextChunk(c, written) ==
  [c EXCEPT !.pc = IF c.total = 0 \/ written < c.total THEN "request"
                   ELSE IF written = c.total THEN "publish" ELSE "fail",
            !.attempt = 0, !.start = written,
            !.end = IF c.total > 0 THEN Min2(written + ChunkSize, c.total)
                                   ELSE written + ChunkSize]

(* bytes=0-1: the validator and, if the response has it, the total.        *)
ChunkedProbe ==
  /\ Chunked("probe")
  /\ \/ Goto("fail")
     \/ \E total \in {Size[server], 0} :
          LET tag == Tag[server]
              keep == call.keep /\ tag # NoTag
              usable == /\ ckpt # NoCheckpoint
                        /\ ckpt.tag = tag
                        /\ ckpt.total = 0 \/ total = 0 \/ ckpt.total = total
              c == [call EXCEPT !.tag = tag, !.total = total, !.keep = keep]
          IN call' = IF keep /\ usable THEN [c EXCEPT !.pc = "restore"]
                     ELSE [NextChunk(c, 0) EXCEPT !.pc = "clear"]
  /\ UNCHANGED <<disk, server, calls, scenario>>

ChunkedRestore ==
  /\ Chunked("restore")
  /\ LET n == Min2(ckpt.bytes, Written)
     IN TruncateTo(n) /\ call' = NextChunk(call, n)
  /\ UNCHANGED <<ckpt, segCkpt, final, server, calls, scenario>>

ChunkedNoBody ==
  /\ Chunked("request")
  /\ \E p \in AfterFailure :
       call' = [call EXCEPT !.pc = IF p = "fail" THEN "giveup" ELSE p, !.attempt = @ + 1]
  /\ UNCHANGED <<disk, server, calls, scenario>>

(* 206 of the version If-Range names, of any version without a validator.  *)
ChunkedPartial ==
  /\ Chunked("request")
  /\ call.start < Size[server] /\ call.tag \in {NoTag, Tag[server]}
  /\ call' = [call EXCEPT !.pc = "body", !.attempt = @ + 1, !.body = server,
                          !.full = FALSE, !.at = call.start]
  /\ UNCHANGED <<disk, server, calls, scenario>>

(* 200: the range was ignored; the transfer starts again from 0.  A range  *)
(* that begins past the end is refused (416), never answered in full.      *)
ChunkedFull ==
  /\ Chunked("request") /\ call.start < Size[server]
  /\ ~(call.tag # NoTag /\ Tag[server] # NoTag /\ Tag[server] # call.tag)
  /\ \E length \in {Size[server], 0} :
       call' = [call EXCEPT !.pc = "body", !.attempt = @ + 1, !.body = server,
                            !.full = TRUE, !.start = 0, !.at = 0,
                            !.total = IF call.start > 0 /\ length > 0 THEN length ELSE @]
  /\ IF call.start > 0
     THEN TruncateTo(0) /\ DropCheckpoint
     ELSE UNCHANGED <<staged, synced, ckpt, segCkpt>>
  /\ UNCHANGED <<final, server, calls, scenario>>

ChunkedMismatch ==
  /\ Chunked("request")
  /\ Goto("fail")
  /\ UNCHANGED <<disk, server, calls, scenario>>

ChunkLimit == IF call.full THEN Size[call.body] ELSE Min2(call.end, Size[call.body])

ChunkedBlock ==
  /\ Chunked("body") /\ call.at < ChunkLimit
  /\ Block(UNCHANGED <<synced, ckpt, segCkpt>>)

ChunkedEnd ==
  /\ Chunked("body") /\ call.at = ChunkLimit
  /\ LET short == call.total = 0 /\ Written - call.start < ChunkSize
     IN call' = IF call.total = 0 /\ (call.full \/ short) THEN [call EXCEPT !.pc = "publish"]
                ELSE IF call.full
                THEN [call EXCEPT !.pc = IF Written = call.total THEN "publish" ELSE "fail"]
                ELSE NextChunk(call, Written)
  /\ SaveCheckpoint(staged, FALSE)
  /\ UNCHANGED <<staged, final, server, calls, scenario>>

(* Bug: what has arrived of the chunk stays in the file.                   *)
ChunkedCut_Bug ==
  /\ Chunked("body")
  /\ \/ Goto("giveup")
     \/ call.attempt < MaxAttempts /\ Goto("request")
  /\ UNCHANGED <<disk, server, calls, scenario>>

(* An incomplete chunk is rolled back before it is asked for again.        *)
ChunkedCut ==
  /\ Chunked("body")
  /\ TruncateTo(call.start)
  /\ \/ Goto("giveup")
     \/ call.attempt < MaxAttempts /\ Goto("request")
  /\ UNCHANGED <<ckpt, segCkpt, final, server, calls, scenario>>

(***************************************************************************)
(* fileDownloadSegments                                                    *)
(***************************************************************************)
Segmented(p) == call.engine = "segmented" /\ call.pc = p

Pending(list) == [i \in 1..Size[list] |-> "todo"]

SegmentedStart(list, persistent) ==
  LET usable == segCkpt # NoCheckpoint /\ segCkpt.list = list
                  /\ segCkpt.next <= Size[list]
  IN Begin([Idle EXCEPT !.engine = "segmented", !.keep = persistent, !.list = list,
                        !.segments = Pending(list),
                        !.pc = IF persistent /\ usable THEN "restore" ELSE "clear"])

SegmentedRestore ==
  /\ Segmented("restore")
  /\ IF Written >= segCkpt.bytes
     THEN /\ TruncateTo(segCkpt.bytes)
          /\ call' = [call EXCEPT !.next = segCkpt.next,
                                  !.pc = IF segCkpt.next = Size[call.list]
                                         THEN "publish" ELSE "segments"]
          /\ UNCHANGED <<ckpt, segCkpt>>
     ELSE TruncateTo(0) /\ DropCheckpoint /\ Goto("segments")
  /\ UNCHANGED <<final, server, calls, scenario>>

Indices(state) == {i \in DOMAIN call.segments : call.segments[i] = state}
SetSegment(i, state) == call' = [call EXCEPT !.segments[i] = state]

(* The jobs are handed to the workers in the order of the list.            *)
SegmentBegin(i) ==
  /\ Segmented("segments") /\ ~call.full
  /\ i > call.next /\ call.segments[i] = "todo"
  /\ \A j \in Indices("todo") : j > call.next => i <= j
  /\ Cardinality(Indices("busy")) < MaxParallel
  /\ SetSegment(i, "busy")
  /\ UNCHANGED <<disk, server, calls, scenario>>

(* fetchSegmentToTemp has the whole segment in its own file.               *)
SegmentFetched(i) ==
  /\ Segmented("segments") /\ call.segments[i] = "busy"
  /\ SetSegment(i, "ready")
  /\ UNCHANGED <<disk, server, calls, scenario>>

(* Its attempts are used up: the others are cancelled (`full` notes it),   *)
(* what they have delivered is still appended.                             *)
SegmentFailed(i) ==
  /\ Segmented("segments") /\ call.segments[i] = "busy"
  /\ call' = [call EXCEPT !.segments[i] = "todo", !.full = TRUE]
  /\ UNCHANGED <<disk, server, calls, scenario>>

(* Bug: the checkpoint is written before the bytes it counts.              *)
SegmentAppend_Bug ==
  LET i == call.next + 1
  IN /\ Segmented("segments")
     /\ i \in Indices("ready")
     /\ staged' = Append(staged, <<call.list, i>>)
     /\ SaveSegments(staged, i, FALSE)
     /\ call' = [call EXCEPT !.next = i, !.segments[i] = "done"]
     /\ UNCHANGED <<final, server, calls, scenario>>

(* The next segment is appended, whatever the order of the arrivals.       *)
SegmentAppend ==
  LET i == call.next + 1
      file == Append(staged, <<call.list, i>>)
  IN /\ Segmented("segments")
     /\ i \in Indices("ready")
     /\ staged' = file
     /\ SaveSegments(file, i, FALSE)
     /\ call' = [call EXCEPT !.next = i, !.segments[i] = "done"]
     /\ UNCHANGED <<final, server, calls, scenario>>

(* The first failure, a cancellation or a refused append ends the call; a  *)
(* cancellation may lose every result, and then nothing is saved.          *)
SegmentedStop ==
  /\ Segmented("segments")
  /\ IF call.next = Size[call.list] /\ ~call.full
     THEN Goto("publish")
     ELSE Goto("giveup") \/ (~call.full /\ Goto("fail"))
  /\ UNCHANGED <<disk, server, calls, scenario>>

(***************************************************************************)
(* Specification                                                           *)
(***************************************************************************)
Start ==
  \/ \E resume, persistent \in BOOLEAN : RangedStart(resume, persistent)
  \/ \E persistent \in BOOLEAN : ChunkedStart(persistent)
  \/ \E list \in Lists, persistent \in BOOLEAN : SegmentedStart(list, persistent)

Step ==
  \/ Clear \/ Drop \/ GiveUp \/ Fail \/ Publish \/ Succeed
  \/ RangedRestore \/ RangedNoBody \/ RangedFull \/ RangedPartial \/ RangedMismatch
  \/ RangedBlock \/ RangedEnd \/ RangedCut
  \/ ChunkedProbe \/ ChunkedRestore \/ ChunkedNoBody \/ ChunkedPartial \/ ChunkedFull
  \/ ChunkedMismatch \/ ChunkedBlock \/ ChunkedEnd \/ ChunkedCut
  \/ SegmentedRestore \/ SegmentAppend \/ SegmentedStop
  \/ \E i \in DOMAIN call.segments :
       SegmentBegin(i) \/ SegmentFetched(i) \/ SegmentFailed(i)

Done == calls = MaxCalls /\ call.pc = "idle" /\ UNCHANGED vars

Next == Start \/ Step \/ Crash \/ Change \/ Done

(* A call runs on its own goroutine and its reads are watched for a stall, *)
(* so it always takes its next step.                                       *)
Spec == Init /\ [][Next]_vars /\ WF_vars(Step)

(***************************************************************************)
(* Properties                                                              *)
(***************************************************************************)

(* The engines implement AtomicDownload: whatever fails, is cut, is        *)
(* restarted or continued, the rename at the end of fileDownload and of    *)
(* fileDownloadSegments puts one whole object at the output path.          *)
Phase == CASE call.pc = "idle" -> "idle"
           [] call.pc = "published" -> "published"
           [] OTHER -> "working"

Promise == INSTANCE AtomicDownload
             WITH Objects <- {Whole(o) : o \in Objects}, output <- final, phase <- Phase

Atomic == Promise!Spec

(* Between calls, also after a crash, the bytes a checkpoint would have a  *)
(* later call keep are the beginning of the one object it identifies       *)
(* (transfer.go:355 "a valid checkpoint must never advertise bytes that    *)
(* were only in page cache"; segments.go:103), and a checkpoint that says  *)
(* complete names a complete file.                                         *)
CheckpointHonest ==
  call.pc = "idle" =>
    /\ ckpt # NoCheckpoint =>
         LET n == Min2(ckpt.bytes, Written)
         IN \E v \in Versions :
              /\ Tag[v] = ckpt.tag
              /\ SubSeq(staged, 1, n) = SubSeq(Whole(v), 1, n)
              /\ ckpt.total \in {0, Size[v]}
    /\ segCkpt # NoCheckpoint /\ Written >= segCkpt.bytes =>
         SubSeq(staged, 1, segCkpt.bytes) = SubSeq(Whole(segCkpt.list), 1, segCkpt.next)

(* Every call returns: the attempts, the chunks and the segments are       *)
(* bounded, and no restart from zero can go on for ever.                   *)
CallsReturn == []<>(call.pc = "idle")

=============================================================================
