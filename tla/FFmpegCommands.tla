--------------------------- MODULE FFmpegCommands ---------------------------
(***************************************************************************)
(* The commands that scripts leave for the host's FFmpeg (extension_runtime*)
(* _ffmpeg.go, WaitForPendingFFmpegCommandsJSON).  A script inserts a      *)
(* command, leaves a token in a channel of one place and waits for the     *)
(* result; a pump of the host claims what it finds, or sleeps until there  *)
(* is a token or its time is over.                                         *)
(***************************************************************************)
EXTENDS FiniteSets, Naturals

CONSTANTS Commands, Pumps

VARIABLES
    command,  \* for each command: what its script does
    entry,    \* for each command: its entry in ffmpegCommands
    token,    \* is there a token in ffmpegCommandQueued?
    pump,     \* what each pump does
    batch,    \* the commands each pump has been given and runs
    runs      \* history: how often a command has been given out

vars == <<command, entry, token, pump, batch, runs>>

Init ==
    /\ command = [c \in Commands |-> "new"]
    /\ entry = [c \in Commands |-> "none"]
    /\ token = FALSE
    /\ pump = [p \in Pumps |-> "idle"]
    /\ batch = [p \in Pumps |-> {}]
    /\ runs = [c \in Commands |-> 0]

Moves(c, pc) == command' = [command EXCEPT ![c] = pc]
Enters(c, e) == entry' = [entry EXCEPT ![c] = e]

\* Scripts: executeFFmpegCommand
Insert(c) ==
    /\ command[c] = "new"
    /\ Moves(c, "inserted") /\ Enters(c, "queued")
    /\ UNCHANGED <<token, pump, batch, runs>>

Notify(c) ==
    /\ command[c] = "inserted"
    /\ Moves(c, "waiting") /\ token' = TRUE
    /\ UNCHANGED <<entry, pump, batch, runs>>

\* Mutant: the token is left before the command is inserted.
Insert_Bug(c) ==
    \/ /\ command[c] = "new" /\ ~token
       /\ token' = TRUE /\ Moves(c, "notified")
       /\ UNCHANGED <<entry, pump, batch, runs>>
    \/ /\ command[c] = "notified"
       /\ Moves(c, "waiting") /\ Enters(c, "queued")
       /\ UNCHANGED <<token, pump, batch, runs>>

GetResult(c) ==
    /\ command[c] = "waiting" /\ entry[c] = "completed"
    /\ Moves(c, "ended") /\ Enters(c, "none")
    /\ UNCHANGED <<token, pump, batch, runs>>

\* Cancelled, or after five minutes.
GiveUp(c) ==
    /\ command[c] = "waiting"
    /\ Moves(c, "ended") /\ Enters(c, "none")
    /\ UNCHANGED <<token, pump, batch, runs>>

\* Pumps: WaitForPendingFFmpegCommandsJSON
Unclaimed == {c \in Commands : entry[c] = "queued"}

Wait(p) ==
    /\ pump[p] = "idle" /\ batch[p] = {}
    /\ pump' = [pump EXCEPT ![p] = "scanning"]
    /\ UNCHANGED <<command, entry, token, batch, runs>>

\* Mutant: the commands are given out without being claimed.
Scan_Bug(p) ==
    /\ pump[p] = "scanning"
    /\ batch' = [batch EXCEPT ![p] = Unclaimed]
    /\ runs' = [c \in Commands |-> IF c \in Unclaimed THEN runs[c] + 1 ELSE runs[c]]
    /\ pump' = [pump EXCEPT ![p] = IF Unclaimed = {} THEN "asleep" ELSE "idle"]
    /\ UNCHANGED <<command, entry, token>>

Scan(p) ==
    /\ pump[p] = "scanning"
    /\ batch' = [batch EXCEPT ![p] = Unclaimed]
    /\ entry' = [c \in Commands |-> IF c \in Unclaimed THEN "claimed" ELSE entry[c]]
    /\ runs' = [c \in Commands |-> IF c \in Unclaimed THEN runs[c] + 1 ELSE runs[c]]
    /\ pump' = [pump EXCEPT ![p] = IF Unclaimed = {} THEN "asleep" ELSE "idle"]
    /\ UNCHANGED <<command, token>>

Wake(p) ==
    /\ pump[p] = "asleep" /\ token
    /\ token' = FALSE
    /\ pump' = [pump EXCEPT ![p] = "scanning"]
    /\ UNCHANGED <<command, entry, batch, runs>>

Deadline(p) ==
    /\ pump[p] = "asleep"
    /\ pump' = [pump EXCEPT ![p] = "idle"]
    /\ UNCHANGED <<command, entry, token, batch, runs>>

\* The host has run a command: SetFFmpegCommandResult, for one that is gone
\* or has a result without effect.
SetResult(p, c) ==
    /\ c \in batch[p]
    /\ batch' = [batch EXCEPT ![p] = @ \ {c}]
    /\ IF entry[c] = "claimed" THEN Enters(c, "completed") ELSE UNCHANGED entry
    /\ UNCHANGED <<command, token, pump, runs>>

Script(c) == Insert(c) \/ Notify(c) \/ GetResult(c) \/ GiveUp(c)
Pump(p) == Wait(p) \/ Scan(p) \/ Wake(p) \/ Deadline(p)
           \/ \E c \in Commands : SetResult(p, c)

Next == (\E c \in Commands : Script(c)) \/ (\E p \in Pumps : Pump(p))

Spec == Init /\ [][Next]_vars

\* While a command waits to be claimed, a pump is asleep only if there is a token
\* for it, or the script is about to leave one, or another pump is about to look.
NoneOverlooked ==
    Unclaimed # {} /\ (\E p \in Pumps : pump[p] = "asleep")
    => \/ token \/ \E p \in Pumps : pump[p] = "scanning"
       \/ \E c \in Unclaimed : command[c] = "inserted"

\* No command is given out twice, and none is overlooked.
ServedOnce == NoneOverlooked /\ \A c \in Commands : runs[c] <= 1
=============================================================================
