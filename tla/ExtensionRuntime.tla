-------------------------- MODULE ExtensionRuntime --------------------------
(***************************************************************************)
(* The JavaScript runtimes of one installed extension (extension_manager.go,*)
(* extension_manager_runtime.go, extension_timeout.go, extension_provider_ *)
(* wrapper.go).  The extension has a shared runtime, used by one operation *)
(* at a time under VMMu, and downloads take isolated runtimes, one of      *)
(* which may be kept idle for the next download.  A script that does not   *)
(* react to its interrupt keeps running: its runtime is quarantined, and   *)
(* no other runtime is built until its goroutine exits.                    *)
(*                                                                         *)
(* An operation is a thread; it holds VMMu from its Lock action to its     *)
(* return.  The JavaScript of an operation begins in one action and ends   *)
(* in another, with a value, with an error or stuck.                       *)
(***************************************************************************)
EXTENDS Naturals, FiniteSets

CONSTANTS
    Threads,   \* threads of the host that call into the extension
    VMs,       \* runtimes that the model may build
    NoVM,      \* no runtime
    Nobody     \* VMMu is free

ASSUME VMsAssumption == NoVM \notin VMs
ASSUME ThreadsAssumption == IsFiniteSet(Threads) /\ Nobody \notin Threads

VARIABLES
    installed,     \* is the extension in the manager's map?
    enabled,       \* ext.Enabled
    unloaded,      \* history: has the teardown of UnloadExtension ended?
    mu,            \* the thread that holds VMMu
    vm,            \* ext.VM, with its ext.runtime
    initialized,   \* has the shared runtime been given its settings?
    pooled,        \* the idle isolated runtime, of at most one
    state,         \* what has become of each runtime
    quarantined,   \* ext.quarantinedRuntimes
    op,            \* the operation of each thread
    at,            \* where each thread is in its operation
    using          \* the runtime that each thread works on

extension == <<installed, enabled, unloaded>>
vars == <<installed, enabled, unloaded, mu, vm, initialized, pooled, state,
          quarantined, op, at, using>>

Operations == {"call", "action", "download", "enable", "disable", "unload",
               "initialize", "cleanup", "release"}

\* The places in which a thread runs JavaScript.
Executing == {"program", "settings", "running", "draining", "cleanup"}

Flags ==
    /\ installed \in BOOLEAN /\ enabled \in BOOLEAN /\ unloaded \in BOOLEAN
    /\ initialized \in BOOLEAN

TypeOK ==
    /\ Flags
    /\ mu \in Threads \cup {Nobody}
    /\ mu # Nobody => at[mu] \notin {"idle", "acquiring", "locking", "failing"}
    /\ vm \in VMs \cup {NoVM}
    /\ pooled \in VMs \cup {NoVM}
    /\ state \in [VMs -> {"none", "live", "stuck"}]
    /\ quarantined \in Nat
    /\ op \in [Threads -> Operations]
    /\ at \in [Threads -> Executing \cup
                  {"idle", "acquiring", "locking", "ready", "pooling", "drain",
                   "cleaning", "failing"}]
    /\ using \in [Threads -> VMs \cup {NoVM}]

(***************************************************************************)
(* Parts of the operations.                                                *)
(***************************************************************************)
Isolated(t) == op[t] = "download"

Goes(t, place) == at' = [at EXCEPT ![t] = place]
Uses(t, v) == using' = [using EXCEPT ![t] = v]

\* The operation goes on without a runtime and without VMMu.
Leaves(t, place) ==
    /\ Goes(t, place)
    /\ Uses(t, NoVM)
    /\ mu' = IF mu = t THEN Nobody ELSE mu

Returns(t) == Leaves(t, "idle")

\* An operation whose runtime is not ready returns an error; enabling goes on
\* to take the extension back to disabled.
Fails(t) == Leaves(t, IF op[t] = "enable" THEN "failing" ELSE "idle")

\* The name of the next runtime, while there is one.
Fresh ==
    IF \E v \in VMs : state[v] = "none"
    THEN {CHOOSE v \in VMs : state[v] = "none"} ELSE {}

Build(v) ==
    /\ state' = [state EXCEPT ![v] = "live"]
    /\ UNCHANGED quarantined

\* What happens to a runtime that is given up, after a script that returned
\* (it is closed) or one that did not (it is quarantined).
Discard(v, result) ==
    IF result = "stuck"
    THEN /\ state' = [state EXCEPT ![v] = "stuck"]
         /\ quarantined' = quarantined + 1
    ELSE /\ state' = [state EXCEPT ![v] = "none"]
         /\ UNCHANGED quarantined

Results == {"value", "error", "stuck"}

NoShared == vm' = NoVM /\ initialized' = FALSE

(***************************************************************************)
(* The operations begin.                                                   *)
(***************************************************************************)
Begin(t, o, place) ==
    /\ at[t] = "idle"
    /\ installed
    /\ op' = [op EXCEPT ![t] = o]
    /\ Goes(t, place)
    /\ UNCHANGED <<unloaded, mu, vm, initialized, pooled, state, quarantined,
                   using>>

\* callExtensionMethod of the bridge does not ask whether it is enabled.
Call(t) == Begin(t, "call", "locking") /\ UNCHANGED <<installed, enabled>>

InvokeAction(t) ==
    enabled /\ Begin(t, "action", "locking") /\ UNCHANGED <<installed, enabled>>

DownloadPrepared(t) ==
    enabled /\ Begin(t, "download", "acquiring")
            /\ UNCHANGED <<installed, enabled>>

InitializeExtension(t) ==
    Begin(t, "initialize", "locking") /\ UNCHANGED <<installed, enabled>>

CleanupExtension(t) ==
    Begin(t, "cleanup", "locking") /\ UNCHANGED <<installed, enabled>>

Enable(t) ==
    Begin(t, "enable", "locking") /\ enabled' = TRUE /\ UNCHANGED installed

Disable(t) ==
    Begin(t, "disable", "locking") /\ enabled' = FALSE /\ UNCHANGED installed

UnloadExtension(t) ==
    Begin(t, "unload", "locking") /\ enabled' = FALSE /\ installed' = FALSE

\* The app is short of memory: drops the idle runtimes, without VMMu.
ReleaseMemory(t) ==
    Begin(t, "release", "drain") /\ UNCHANGED <<installed, enabled>>

(***************************************************************************)
(* The runtime of an operation.                                            *)
(***************************************************************************)
\* acquireIsolatedExtensionRuntime: takes the idle runtime, or waits for VMMu
\* to build one.
Acquire(t) ==
    /\ at[t] = "acquiring"
    /\ IF quarantined > 0
       THEN Returns(t) /\ UNCHANGED pooled
       ELSE /\ Goes(t, IF pooled = NoVM THEN "locking" ELSE "running")
            /\ Uses(t, pooled)
            /\ pooled' = NoVM
            /\ UNCHANGED mu
    /\ UNCHANGED <<vm, initialized, state, quarantined, op>>
    /\ UNCHANGED extension

\* The test of an operation that has waited for VMMu.
StillValid(t) ==
    /\ op[t] \in {"action", "enable"} => installed /\ enabled
    /\ op[t] \in {"initialize", "cleanup"} => installed

NeedsRuntime(t) ==
    op[t] \in {"call", "action", "download", "enable", "initialize"}

CanLock(t) == at[t] = "locking" /\ mu = Nobody

LockInvalid(t) ==
    /\ CanLock(t)
    /\ ~StillValid(t)
    /\ Returns(t)
    /\ UNCHANGED <<vm, initialized, pooled, state, quarantined, op>>
    /\ UNCHANGED extension

\* Faulty variant: a gated operation waits until the stuck goroutine has exited.
LockGated_Bug(t) ==
    /\ CanLock(t)
    /\ StillValid(t)
    /\ NeedsRuntime(t) /\ quarantined > 0
    /\ UNCHANGED vars

LockGated(t) ==
    /\ CanLock(t)
    /\ StillValid(t)
    /\ NeedsRuntime(t) /\ quarantined > 0
    /\ Fails(t)
    /\ UNCHANGED <<vm, initialized, pooled, state, quarantined, op>>
    /\ UNCHANGED extension

\* Faulty variant: VMMu is given back once the runtime is known to be ready.
LockReady_Bug(t) ==
    /\ CanLock(t)
    /\ StillValid(t)
    /\ NeedsRuntime(t) /\ ~Isolated(t) /\ quarantined = 0 /\ vm # NoVM
    /\ Uses(t, vm)
    /\ Goes(t, "ready")
    /\ UNCHANGED <<mu, vm, initialized, pooled, state, quarantined, op>>
    /\ UNCHANGED extension

\* ensureRuntimeReadyLocked finds the shared runtime.
LockReady(t) ==
    /\ CanLock(t)
    /\ StillValid(t)
    /\ NeedsRuntime(t) /\ ~Isolated(t) /\ quarantined = 0 /\ vm # NoVM
    /\ mu' = t
    /\ Uses(t, vm)
    /\ Goes(t, "ready")
    /\ UNCHANGED <<vm, initialized, pooled, state, quarantined, op>>
    /\ UNCHANGED extension

\* Faulty variant: the gate is not asked again after the wait for VMMu.
LockBuild_Bug(t) ==
    /\ CanLock(t)
    /\ StillValid(t)
    /\ NeedsRuntime(t)
    /\ \E v \in Fresh :
          /\ Build(v)
          /\ Uses(t, v)
          /\ IF Isolated(t)
             THEN UNCHANGED <<vm, initialized>>
             ELSE vm = NoVM /\ vm' = v /\ initialized' = FALSE
    /\ mu' = t
    /\ Goes(t, "program")
    /\ UNCHANGED <<pooled, op>>
    /\ UNCHANGED extension

\* initializeVMLocked and newIsolatedExtensionRuntime: a new runtime runs the
\* extension's program.
LockBuild(t) ==
    /\ CanLock(t)
    /\ StillValid(t)
    /\ NeedsRuntime(t) /\ quarantined = 0
    /\ \E v \in Fresh :
          /\ Build(v)
          /\ Uses(t, v)
          /\ IF Isolated(t)
             THEN UNCHANGED <<vm, initialized>>
             ELSE vm = NoVM /\ vm' = v /\ initialized' = FALSE
    /\ mu' = t
    /\ Goes(t, "program")
    /\ UNCHANGED <<pooled, op>>
    /\ UNCHANGED extension

\* Disabling and unloading tear the runtimes down.
LockTeardown(t) ==
    /\ CanLock(t)
    /\ op[t] \in {"disable", "unload"}
    /\ mu' = t
    /\ Goes(t, "drain")
    /\ UNCHANGED <<vm, initialized, pooled, state, quarantined, op, using>>
    /\ UNCHANGED extension

LockCleanup(t) ==
    /\ CanLock(t)
    /\ op[t] = "cleanup" /\ StillValid(t)
    /\ IF vm = NoVM
       THEN Returns(t)
       ELSE mu' = t /\ Uses(t, vm) /\ Goes(t, "cleanup")
    /\ UNCHANGED <<vm, initialized, pooled, state, quarantined, op>>
    /\ UNCHANGED extension

(***************************************************************************)
(* JavaScript ends.                                                        *)
(***************************************************************************)
\* Faulty variant: VMMu is kept when the program fails.
ProgramEnds_Bug(t, result) ==
    /\ at[t] = "program"
    /\ IF result = "value"
       THEN /\ Goes(t, "ready")
            /\ UNCHANGED <<mu, vm, initialized, state, quarantined, using>>
            /\ UNCHANGED enabled
       ELSE /\ Discard(using[t], result)
            /\ Goes(t, "idle") /\ Uses(t, NoVM) /\ UNCHANGED mu
            /\ IF Isolated(t)
               THEN UNCHANGED <<vm, initialized, enabled>>
               ELSE NoShared /\ enabled' = FALSE
    /\ UNCHANGED <<installed, unloaded, pooled, op>>

ProgramEnds(t, result) ==
    /\ at[t] = "program"
    /\ IF result = "value"
       THEN /\ Goes(t, "ready")
            /\ UNCHANGED <<mu, vm, initialized, state, quarantined, using>>
            /\ UNCHANGED enabled
       ELSE /\ Discard(using[t], result)
            /\ Fails(t)
            /\ IF Isolated(t)
               THEN UNCHANGED <<vm, initialized, enabled>>
               ELSE NoShared /\ enabled' = FALSE
    /\ UNCHANGED <<installed, unloaded, pooled, op>>

\* The settings in the store, if there are any, are given to the runtime.
ApplySettings(t) ==
    /\ at[t] = "ready"
    /\ Isolated(t) \/ op[t] = "initialize" \/ ~initialized
    /\ Goes(t, "settings")
    /\ UNCHANGED <<mu, vm, initialized, pooled, state, quarantined, op, using>>
    /\ UNCHANGED extension

\* The runtime is ready: enabling and initializing return, an isolated runtime
\* is used without VMMu.
Proceed(t) ==
    IF op[t] \in {"enable", "initialize"}
    THEN Returns(t)
    ELSE /\ Goes(t, "running")
         /\ mu' = IF Isolated(t) THEN Nobody ELSE mu
         /\ UNCHANGED using

NoSettings(t) ==
    /\ at[t] = "ready"
    /\ op[t] # "initialize"
    /\ initialized' = IF Isolated(t) THEN initialized ELSE TRUE
    /\ Proceed(t)
    /\ UNCHANGED <<vm, pooled, state, quarantined, op>>
    /\ UNCHANGED extension

SettingsApplied(t) ==
    /\ at[t] = "settings"
    /\ initialized' = IF Isolated(t) THEN initialized ELSE TRUE
    /\ Proceed(t)
    /\ UNCHANGED <<vm, pooled, state, quarantined, op>>
    /\ UNCHANGED extension

\* A shared runtime that refuses its settings is torn down, except by
\* InitializeExtension, which leaves it as it is.
SettingsRefused(t, result) ==
    /\ at[t] = "settings"
    /\ result # "value"
    /\ IF Isolated(t)
       THEN /\ Discard(using[t], result)
            /\ Fails(t)
            /\ UNCHANGED <<vm, initialized, enabled>>
       ELSE /\ IF result = "stuck"
               THEN Discard(using[t], result) /\ NoShared
               ELSE UNCHANGED <<state, quarantined, vm, initialized>>
            /\ IF op[t] = "initialize"
               THEN Returns(t)
               ELSE Goes(t, "drain") /\ Uses(t, NoVM) /\ UNCHANGED mu
            /\ enabled' = FALSE
    /\ UNCHANGED <<installed, unloaded, pooled, op>>

\* An operation's own script on the shared runtime.
SharedCallEnds(t, result) ==
    /\ at[t] = "running" /\ ~Isolated(t)
    /\ IF result = "stuck"
       THEN Discard(using[t], result) /\ NoShared
       ELSE UNCHANGED <<state, quarantined, vm, initialized>>
    /\ Returns(t)
    /\ UNCHANGED <<pooled, op>>
    /\ UNCHANGED extension

\* A download's script on its isolated runtime; releaseIsolatedExtension-
\* Runtime keeps a healthy one, while the extension is enabled.
DownloadEnds(t, result) ==
    /\ at[t] = "running" /\ Isolated(t)
    /\ IF result = "stuck"
       THEN Discard(using[t], result) /\ Returns(t)
       ELSE /\ Goes(t, IF result = "value" /\ enabled
                          THEN "pooling" ELSE "cleanup")
            /\ UNCHANGED <<state, quarantined, using, mu>>
    /\ UNCHANGED <<vm, initialized, pooled, op>>
    /\ UNCHANGED extension

\* Faulty variant: the runtime takes the place of an idle one.
Keep_Bug(t) ==
    /\ at[t] = "pooling"
    /\ pooled' = using[t]
    /\ Returns(t)
    /\ UNCHANGED <<vm, initialized, state, quarantined, op>>
    /\ UNCHANGED extension

Keep(t) ==
    /\ at[t] = "pooling"
    /\ IF pooled = NoVM
       THEN pooled' = using[t] /\ Returns(t)
       ELSE Goes(t, "cleanup") /\ UNCHANGED <<pooled, using, mu>>
    /\ UNCHANGED <<vm, initialized, state, quarantined, op>>
    /\ UNCHANGED extension

(***************************************************************************)
(* Runtimes are torn down.                                                 *)
(***************************************************************************)
\* drainIsolatedRuntimePool takes the idle runtime out and cleans it up.
Drain(t) ==
    /\ at[t] = "drain"
    /\ pooled' = NoVM
    /\ IF pooled # NoVM
       THEN Uses(t, pooled) /\ Goes(t, "draining") /\ UNCHANGED mu
       ELSE IF op[t] = "release" THEN Returns(t)
       ELSE Goes(t, "cleaning") /\ UNCHANGED <<mu, using>>
    /\ UNCHANGED <<vm, initialized, state, quarantined, op>>
    /\ UNCHANGED extension

\* Faulty variant: a stuck clean-up is not counted.
DrainEnds_Bug(t, result) ==
    /\ at[t] = "draining"
    /\ state' = [state EXCEPT ![using[t]] =
                     IF result = "stuck" THEN "stuck" ELSE "none"]
    /\ IF op[t] = "release"
       THEN Returns(t)
       ELSE Goes(t, "cleaning") /\ Uses(t, NoVM) /\ UNCHANGED mu
    /\ UNCHANGED <<vm, initialized, pooled, quarantined, op>>
    /\ UNCHANGED extension

DrainEnds(t, result) ==
    /\ at[t] = "draining"
    /\ Discard(using[t], result)
    /\ IF op[t] = "release"
       THEN Returns(t)
       ELSE Goes(t, "cleaning") /\ Uses(t, NoVM) /\ UNCHANGED mu
    /\ UNCHANGED <<vm, initialized, pooled, op>>
    /\ UNCHANGED extension

TeardownEnds(t) ==
    /\ Fails(t)
    /\ unloaded' = (unloaded \/ op[t] = "unload")
    /\ UNCHANGED <<installed, enabled>>

\* teardownVMLocked goes on with the shared runtime.
CleanShared(t) ==
    /\ at[t] = "cleaning"
    /\ IF vm = NoVM
       THEN TeardownEnds(t) /\ UNCHANGED initialized
       ELSE /\ Uses(t, vm) /\ Goes(t, "cleanup")
            /\ UNCHANGED <<mu, initialized>> /\ UNCHANGED extension
    /\ UNCHANGED <<vm, pooled, state, quarantined, op>>

\* cleanup() of a runtime that is given up: a teardown's or a download's.
CleanupEnds(t, result) ==
    /\ at[t] = "cleanup" /\ op[t] # "cleanup"
    /\ Discard(using[t], result)
    /\ IF Isolated(t)
       THEN Returns(t) /\ UNCHANGED <<vm, initialized>> /\ UNCHANGED extension
       ELSE TeardownEnds(t) /\ NoShared
    /\ UNCHANGED <<pooled, op>>

\* CleanupExtension keeps the runtime that it has cleaned up.
CleanupExtensionEnds(t, result) ==
    /\ at[t] = "cleanup" /\ op[t] = "cleanup"
    /\ IF result = "stuck"
       THEN Discard(using[t], result) /\ NoShared
       ELSE UNCHANGED <<state, quarantined, vm, initialized>>
    /\ Returns(t)
    /\ UNCHANGED <<pooled, op>>
    /\ UNCHANGED extension

\* SetExtensionEnabled takes a failed enabling back.
EnableFails(t) ==
    /\ at[t] = "failing"
    /\ enabled' = (enabled /\ ~installed)
    /\ Returns(t)
    /\ UNCHANGED <<installed, unloaded, vm, initialized, pooled, state,
                   quarantined, op>>

\* The goroutine of a stuck script exits; its runtime is closed.
GoroutineExits(v) ==
    /\ state[v] = "stuck"
    /\ state' = [state EXCEPT ![v] = "none"]
    /\ quarantined' = IF quarantined > 0 THEN quarantined - 1 ELSE quarantined
    /\ UNCHANGED <<mu, vm, initialized, pooled, op, at, using>>
    /\ UNCHANGED extension

(***************************************************************************)
(* The specification.                                                      *)
(***************************************************************************)
Init ==
    /\ installed = TRUE /\ enabled \in BOOLEAN /\ unloaded = FALSE
    /\ mu = Nobody
    /\ vm = NoVM /\ initialized = FALSE /\ pooled = NoVM
    /\ state = [v \in VMs |-> "none"]
    /\ quarantined = 0
    /\ op = [t \in Threads |-> "call"]
    /\ at = [t \in Threads |-> "idle"]
    /\ using = [t \in Threads |-> NoVM]

Starts(t) ==
    \/ Call(t) \/ InvokeAction(t) \/ DownloadPrepared(t)
    \/ InitializeExtension(t) \/ CleanupExtension(t)
    \/ Enable(t) \/ Disable(t) \/ UnloadExtension(t) \/ ReleaseMemory(t)

Locks(t) ==
    \/ LockInvalid(t) \/ LockGated(t) \/ LockReady(t) \/ LockBuild(t)
    \/ LockTeardown(t) \/ LockCleanup(t)

JavaScriptEnds(t) ==
    \/ SettingsApplied(t)
    \/ \E result \in Results :
          \/ ProgramEnds(t, result)
          \/ SettingsRefused(t, result)
          \/ SharedCallEnds(t, result)
          \/ DownloadEnds(t, result)
          \/ DrainEnds(t, result)
          \/ CleanupEnds(t, result)
          \/ CleanupExtensionEnds(t, result)

Continues(t) ==
    \/ Acquire(t)
    \/ ApplySettings(t) \/ NoSettings(t)
    \/ Keep(t)
    \/ Drain(t) \/ CleanShared(t)
    \/ EnableFails(t)

Next ==
    \/ \E t \in Threads :
          Starts(t) \/ Locks(t) \/ JavaScriptEnds(t) \/ Continues(t)
    \/ \E v \in VMs : GoroutineExits(v)

Spec == Init /\ [][Next]_vars

\* A Go mutex is handed to every thread that waits for it in the end, and the
\* wait for a script is bounded by its timeout and the interrupt's grace
\* period.  Nothing is assumed of a stuck goroutine.
FairSpec ==
    Spec /\ \A t \in Threads :
                WF_vars(JavaScriptEnds(t) \/ Continues(t)) /\ SF_vars(Locks(t))

(***************************************************************************)
(* Properties.                                                             *)
(***************************************************************************)
\* A runtime is used by one goroutine at a time, also one that was given up
\* with its script still running: goja is not thread-safe.
VMExclusive ==
    /\ \A t, u \in Threads :
          /\ at[t] \in Executing /\ at[u] \in Executing
          /\ using[t] = using[u]
          => t = u
    /\ \A t \in Threads : at[t] \in Executing => state[using[t]] = "live"

\* A runtime that is shared, idle or taken for a download has not been closed
\* or quarantined, and every runtime that was built and is neither is one of
\* these: none is used after its end and none is lost without it.
NoLeak ==
    \A v \in VMs :
        state[v] = "live" <=>
            \/ v = vm
            \/ v = pooled
            \/ \E t \in Threads : using[t] = v

Stuck == {v \in VMs : state[v] = "stuck"}

\* The extension is gated while some script of it is stuck, and no longer.
GateExact == quarantined = Cardinality(Stuck)

Built == {v \in VMs : state[v] # "none"}

\* An extension whose scripts never end does not accumulate runtimes: there
\* is one for each thread, the shared one and the idle one.
RuntimesBounded ==
    Cardinality(Built) <= Cardinality(Threads) + 2

\* Every operation returns, whatever the scripts do and whoever waits for VMMu.
OperationsEnd == \A t \in Threads : at[t] # "idle" ~> at[t] = "idle"

\* Once an extension that was removed has been torn down, no operation gives
\* it a runtime again.
UnloadedStaysDown == unloaded => vm = NoVM /\ pooled = NoVM

=============================================================================
