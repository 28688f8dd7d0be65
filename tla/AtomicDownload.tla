--------------------------- MODULE AtomicDownload ---------------------------
(***************************************************************************)
(* What a script may rely on when it asks file.download,                   *)
(* file.download with `chunked`, or file.downloadSegments to fill one      *)
(* output path: the file at that path is replaced at one instant by one    *)
(* whole object or not touched at all, and a call that reports success has *)
(* replaced it.                                                            *)
(***************************************************************************)

CONSTANTS
  Objects,   \* the media objects a call may publish
  NoFile     \* no file at the output path

VARIABLES
  output,    \* the object at the output path, or NoFile
  phase      \* "idle", "working" or, once the file is replaced, "published"

vars == <<output, phase>>

Init == output = NoFile /\ phase = "idle"

Begin == phase = "idle" /\ phase' = "working" /\ UNCHANGED output

Publish(o) == phase = "working" /\ phase' = "published" /\ output' = o

(* Success is reported from "published" only, failure from "working" only. *)
Return == phase # "idle" /\ phase' = "idle" /\ UNCHANGED output

Next == Begin \/ Return \/ \E o \in Objects : Publish(o)

Spec == Init /\ [][Next]_vars

=============================================================================
