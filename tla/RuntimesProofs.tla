----------------------- MODULE RuntimesProofs ---------------------------
(***************************************************************************)
(* Theorems about the runtimes of an extension, for every number of host   *)
(* threads and runtimes: one goroutine per runtime, and none lost or used  *)
(* after its end.  They rest on an ownership discipline: a thread works    *)
(* either on the shared runtime, and then holds VMMu, or on a runtime that *)
(* neither the extension nor another thread refers to.                     *)
(*                                                                         *)
(* About the downloads that wait for a verification, a part of MCRuntimes: *)
(* a latch is released only after an exchange, and each verification that  *)
(* is pending is withdrawn by the download that made it.                   *)
(***************************************************************************)
EXTENDS MCRuntimes, FiniteSetTheorems, TLAPS

\* The places in which a thread has a runtime.
Holds(t) == at[t] \in Executing \cup {"ready", "pooling"}

\* The thread's runtime is its own: a download's, or one out of the pool.
Private(t) == Holds(t) /\ (op[t] = "download" \/ at[t] = "draining")

\* The places that an operation of each kind may be in.
Placed ==
    \A t \in Threads :
        /\ at[t] \in {"acquiring", "pooling"} => op[t] = "download"
        /\ at[t] \in {"drain", "draining", "cleaning"} => op[t] # "download"
        /\ at[t] \in {"locking", "program", "ready", "settings", "cleaning"} =>
               op[t] # "release"

\* Who holds VMMu.
Locked ==
    \A t \in Threads :
        /\ at[t] \in {"program", "ready", "settings", "cleaning"} => mu = t
        /\ at[t] \in {"drain", "draining"} /\ op[t] # "release" => mu = t

\* A thread works on the shared runtime under VMMu or on one of its own.
Owned ==
    \A t \in Threads :
        /\ using[t] # NoVM <=> Holds(t)
        /\ Holds(t) /\ ~Private(t) => mu = t /\ using[t] = vm
        /\ Private(t) => using[t] # vm /\ using[t] # pooled

\* No two references to a runtime, other than those of VMMu's holder.
Distinct ==
    /\ vm = pooled => vm = NoVM
    /\ \A t, u \in Threads :
          Private(t) /\ Private(u) /\ using[t] = using[u] => t = u

\* The inductive invariant.
IInv == TypeOK /\ Placed /\ Locked /\ Owned /\ Distinct /\ NoLeak

-----------------------------------------------------------------------------
\* The name that a new runtime gets is a free one.
LEMMA FreshFree ==
  ASSUME NEW v \in Fresh
  PROVE  v \in VMs /\ state[v] = "none"
BY DEF Fresh

\* The flags are Boolean initially and after every step.
LEMMA FlagsInit == Init => Flags
BY DEF Init, Flags

\* Every action keeps the Boolean-valued variables Boolean.
LEMMA FlagsStep ==
  ASSUME Flags, Next
  PROVE  Flags'
<1> USE DEF Flags, extension
<1>1. ASSUME NEW t \in Threads, Starts(t)
      PROVE  Flags'
  BY <1>1, Zenon DEF Starts, Call, InvokeAction, DownloadPrepared,
       InitializeExtension, CleanupExtension, Enable, Disable, UnloadExtension,
       ReleaseMemory, Begin
<1>2. ASSUME NEW t \in Threads, Locks(t)
      PROVE  Flags'
  <2>1. CASE LockBuild(t)
    <3>1. initialized' \in BOOLEAN
      BY <2>1, Zenon DEF LockBuild
    <3> QED
      BY <2>1, <3>1, Zenon DEF LockBuild
  <2>2. CASE ~LockBuild(t)
    BY <1>2, <2>2, Zenon DEF Locks, LockInvalid, LockGated, LockReady,
         LockTeardown, LockCleanup
  <2> QED
    BY <2>1, <2>2
<1>3. ASSUME NEW t \in Threads, JavaScriptEnds(t)
      PROVE  Flags'
  <2>1. CASE SettingsApplied(t)
    <3>1. initialized' \in BOOLEAN
      BY <2>1, Zenon DEF SettingsApplied
    <3> QED
      BY <2>1, <3>1, Zenon DEF SettingsApplied
  <2>2. ASSUME NEW r \in Results, ProgramEnds(t, r)
        PROVE  Flags'
    BY <2>2, Zenon DEF ProgramEnds, NoShared
  <2>3. ASSUME NEW r \in Results, SettingsRefused(t, r)
        PROVE  Flags'
    BY <2>3, Zenon DEF SettingsRefused, NoShared
  <2>4. ASSUME NEW r \in Results, SharedCallEnds(t, r) \/ DownloadEnds(t, r)
                 \/ DrainEnds(t, r) \/ CleanupExtensionEnds(t, r)
        PROVE  Flags'
    BY <2>4, Zenon DEF SharedCallEnds, DownloadEnds, DrainEnds,
         CleanupExtensionEnds, NoShared
  <2>5. ASSUME NEW r \in Results, CleanupEnds(t, r)
        PROVE  Flags'
    BY <2>5, Zenon DEF CleanupEnds, TeardownEnds, NoShared
  <2> QED
    BY <1>3, <2>1, <2>2, <2>3, <2>4, <2>5 DEF JavaScriptEnds
<1>4. ASSUME NEW t \in Threads, Continues(t)
      PROVE  Flags'
  <2>1. CASE NoSettings(t)
    <3>1. initialized' \in BOOLEAN
      BY <2>1, Zenon DEF NoSettings
    <3> QED
      BY <2>1, <3>1, Zenon DEF NoSettings
  <2>2. CASE CleanShared(t)
    BY <2>2, Zenon DEF CleanShared, TeardownEnds
  <2>3. CASE Acquire(t) \/ ApplySettings(t) \/ Keep(t) \/ Drain(t) \/ EnableFails(t)
    BY <2>3, Zenon DEF Acquire, ApplySettings, Keep, Drain, EnableFails
  <2> QED
    BY <1>4, <2>1, <2>2, <2>3 DEF Continues
<1>5. ASSUME NEW v \in VMs, GoroutineExits(v)
      PROVE  Flags'
  BY <1>5 DEF GoroutineExits
<1> QED
  BY <1>1, <1>2, <1>3, <1>4, <1>5 DEF Next

\* The type invariant holds initially and every step preserves it.
LEMMA TypeInit == Init => TypeOK
BY FlagsInit DEF Init, TypeOK, Operations, Executing

\* Every action keeps the types.
LEMMA TypeStep ==
  ASSUME TypeOK, Next
  PROVE  TypeOK'
<1> USE DEF TypeOK
<1>0. Flags'
  BY FlagsStep
<1>1. ASSUME NEW t \in Threads, Starts(t)
      PROVE  TypeOK'
  <2>1. PICK o \in Operations, p \in {"locking", "acquiring", "drain"} : Begin(t, o, p)
    BY <1>1 DEF Starts, Call, InvokeAction, DownloadPrepared, InitializeExtension,
         CleanupExtension, Enable, Disable, UnloadExtension, ReleaseMemory,
         Operations
  <2> QED
    BY <1>0, <2>1 DEF Begin, Goes
<1>2. ASSUME NEW t \in Threads, Locks(t)
      PROVE  TypeOK'
  <2> USE <1>0 DEF CanLock, Goes, Uses, Leaves
  <2>1. CASE LockInvalid(t)
    BY <2>1 DEF LockInvalid, Returns
  <2>2. CASE LockGated(t)
    BY <2>2 DEF LockGated, Fails
  <2>3. CASE LockReady(t)
    BY <2>3 DEF LockReady
  <2>4. CASE LockBuild(t)
    BY <2>4, FreshFree DEF LockBuild, Build, Executing
  <2>5. CASE LockTeardown(t)
    BY <2>5 DEF LockTeardown
  <2>6. CASE LockCleanup(t)
    BY <2>6 DEF LockCleanup, Returns, Executing
  <2> QED
    BY <1>2, <2>1, <2>2, <2>3, <2>4, <2>5, <2>6 DEF Locks
<1>3. ASSUME NEW t \in Threads, JavaScriptEnds(t)
      PROVE  TypeOK'
  <2> USE <1>0 DEF Goes, Uses, Leaves, Discard, NoShared, Executing
  <2>1. CASE SettingsApplied(t)
    BY <2>1 DEF SettingsApplied, Proceed, Returns
  <2>2. ASSUME NEW r \in Results, ProgramEnds(t, r)
        PROVE  TypeOK'
    BY <2>2 DEF ProgramEnds, Fails
  <2>3. ASSUME NEW r \in Results, SettingsRefused(t, r)
        PROVE  TypeOK'
    BY <2>3 DEF SettingsRefused, Fails, Returns
  <2>4. ASSUME NEW r \in Results, SharedCallEnds(t, r)
        PROVE  TypeOK'
    BY <2>4 DEF SharedCallEnds, Returns
  <2>5. ASSUME NEW r \in Results, DownloadEnds(t, r)
        PROVE  TypeOK'
    BY <2>5 DEF DownloadEnds, Returns
  <2>6. ASSUME NEW r \in Results, DrainEnds(t, r)
        PROVE  TypeOK'
    BY <2>6 DEF DrainEnds, Returns
  <2>7. ASSUME NEW r \in Results, CleanupEnds(t, r)
        PROVE  TypeOK'
    BY <2>7 DEF CleanupEnds, TeardownEnds, Fails, Returns
  <2>8. ASSUME NEW r \in Results, CleanupExtensionEnds(t, r)
        PROVE  TypeOK'
    BY <2>8 DEF CleanupExtensionEnds, Returns
  <2> QED
    BY <1>3, <2>1, <2>2, <2>3, <2>4, <2>5, <2>6, <2>7, <2>8 DEF JavaScriptEnds
<1>4. ASSUME NEW t \in Threads, Continues(t)
      PROVE  TypeOK'
  <2> USE <1>0 DEF Goes, Uses, Leaves, Executing
  <2>1. CASE Acquire(t)
    BY <2>1 DEF Acquire, Returns
  <2>2. CASE ApplySettings(t)
    BY <2>2 DEF ApplySettings
  <2>3. CASE NoSettings(t)
    BY <2>3 DEF NoSettings, Proceed, Returns
  <2>4. CASE Keep(t)
    BY <2>4 DEF Keep, Returns
  <2>5. CASE Drain(t)
    BY <2>5 DEF Drain, Returns
  <2>6. CASE CleanShared(t)
    BY <2>6 DEF CleanShared, TeardownEnds, Fails
  <2>7. CASE EnableFails(t)
    BY <2>7 DEF EnableFails, Returns
  <2> QED
    BY <1>4, <2>1, <2>2, <2>3, <2>4, <2>5, <2>6, <2>7 DEF Continues
<1>5. ASSUME NEW v \in VMs, GoroutineExits(v)
      PROVE  TypeOK'
  BY <1>0, <1>5 DEF GoroutineExits
<1> QED
  BY <1>1, <1>2, <1>3, <1>4, <1>5 DEF Next

\* TypeOK for every number of threads and runtimes.
THEOREM TypeCorrect == Spec => []TypeOK
<1>1. TypeOK /\ UNCHANGED vars => TypeOK'
  BY DEF TypeOK, Flags, vars
<1> QED
  BY TypeInit, TypeStep, <1>1, PTL DEF Spec

-----------------------------------------------------------------------------
\* The ownership discipline holds initially.
LEMMA OwnedInit == Init => IInv
BY TypeInit, VMsAssumption, ThreadsAssumption DEF Init, IInv, Placed, Locked, Owned,
   Distinct, NoLeak, Holds, Private, Executing

\* An operation begins without a runtime.
LEMMA StartsOwned ==
  ASSUME IInv, TypeOK', NEW t \in Threads, Starts(t)
  PROVE  IInv'
<1>1. PICK o \in Operations, p \in {"locking", "acquiring", "drain"} :
         /\ Begin(t, o, p)
         /\ p = "locking" => o # "release"
         /\ p = "acquiring" <=> o = "download"
         /\ p = "drain" <=> o = "release"
  BY DEF Starts, Call, InvokeAction, DownloadPrepared, InitializeExtension,
     CleanupExtension, Enable, Disable, UnloadExtension, ReleaseMemory, Operations
<1> QED
  BY <1>1 DEF IInv, TypeOK, Begin, Goes, Placed, Locked, Owned, Distinct, NoLeak,
     Holds, Private, Executing

\* The actions that wait for VMMu preserve the discipline: a runtime that is
\* built is referred to by nobody else.
LEMMA LocksOwned ==
  ASSUME IInv, TypeOK', NEW t \in Threads, Locks(t)
  PROVE  IInv'
<1> USE VMsAssumption, ThreadsAssumption
    DEF IInv, TypeOK, Placed, Locked, Owned, Distinct, NoLeak, Holds, Private,
        Executing, Goes, Uses, Leaves, Isolated, CanLock, NeedsRuntime, StillValid
<1>1. ASSUME LockInvalid(t)
      PROVE  IInv'
  BY <1>1 DEF LockInvalid, Returns
<1>2. ASSUME LockGated(t)
      PROVE  IInv'
  BY <1>2 DEF LockGated, Fails
<1>3. ASSUME LockReady(t)
      PROVE  IInv'
  BY <1>3 DEF LockReady
<1>4. ASSUME LockBuild(t)
      PROVE  IInv'
  BY <1>4, FreshFree DEF LockBuild, Build
<1>5. ASSUME LockTeardown(t)
      PROVE  IInv'
  BY <1>5 DEF LockTeardown
<1>6. ASSUME LockCleanup(t)
      PROVE  IInv'
  BY <1>6 DEF LockCleanup, Returns
<1> QED
  BY <1>1, <1>2, <1>3, <1>4, <1>5, <1>6 DEF Locks

\* Scripts end: a runtime that is closed or quarantined is referred to by
\* nobody afterwards.
LEMMA ScriptEndsOwned ==
  ASSUME IInv, TypeOK', NEW t \in Threads, JavaScriptEnds(t)
  PROVE  IInv'
<1> USE VMsAssumption, ThreadsAssumption
    DEF IInv, TypeOK, Placed, Locked, Owned, Distinct, NoLeak, Holds, Private,
        Executing, Goes, Uses, Leaves, Isolated, Discard, NoShared
<1>1. ASSUME SettingsApplied(t)
      PROVE  IInv'
  BY <1>1 DEF SettingsApplied, Proceed, Returns
<1>2. ASSUME NEW r \in Results, ProgramEnds(t, r)
      PROVE  IInv'
  BY <1>2 DEF ProgramEnds, Fails
<1>3. ASSUME NEW r \in Results, SettingsRefused(t, r)
      PROVE  IInv'
  BY <1>3 DEF SettingsRefused, Fails, Returns
<1>4. ASSUME NEW r \in Results, SharedCallEnds(t, r)
      PROVE  IInv'
  BY <1>4 DEF SharedCallEnds, Returns
<1>5. ASSUME NEW r \in Results, DownloadEnds(t, r)
      PROVE  IInv'
  BY <1>5 DEF DownloadEnds, Returns
<1>6. ASSUME NEW r \in Results, DrainEnds(t, r)
      PROVE  IInv'
  BY <1>6 DEF DrainEnds, Returns
<1>7. ASSUME NEW r \in Results, CleanupEnds(t, r)
      PROVE  IInv'
  BY <1>7 DEF CleanupEnds, TeardownEnds, Fails, Returns
<1>8. ASSUME NEW r \in Results, CleanupExtensionEnds(t, r)
      PROVE  IInv'
  BY <1>8 DEF CleanupExtensionEnds, Returns
<1> QED
  BY <1>1, <1>2, <1>3, <1>4, <1>5, <1>6, <1>7, <1>8 DEF JavaScriptEnds

\* The other steps of an operation hand runtimes over.
LEMMA ContinuesOwned ==
  ASSUME IInv, TypeOK', NEW t \in Threads, Continues(t)
  PROVE  IInv'
<1> USE VMsAssumption, ThreadsAssumption
    DEF IInv, TypeOK, Placed, Locked, Owned, Distinct, NoLeak, Holds, Private,
        Executing, Goes, Uses, Leaves, Isolated
<1>1. ASSUME Acquire(t)
      PROVE  IInv'
  BY <1>1 DEF Acquire, Returns
<1>2. ASSUME ApplySettings(t)
      PROVE  IInv'
  BY <1>2 DEF ApplySettings
<1>3. ASSUME NoSettings(t)
      PROVE  IInv'
  BY <1>3 DEF NoSettings, Proceed, Returns
<1>4. ASSUME Keep(t)
      PROVE  IInv'
  BY <1>4 DEF Keep, Returns
<1>5. ASSUME Drain(t)
      PROVE  IInv'
  BY <1>5 DEF Drain, Returns
<1>6. ASSUME CleanShared(t)
      PROVE  IInv'
  BY <1>6 DEF CleanShared, TeardownEnds, Fails
<1>7. ASSUME EnableFails(t)
      PROVE  IInv'
  BY <1>7 DEF EnableFails, Returns
<1> QED
  BY <1>1, <1>2, <1>3, <1>4, <1>5, <1>6, <1>7 DEF Continues

\* Every action keeps the ownership discipline.
LEMMA OwnedStep ==
  ASSUME IInv, Next
  PROVE  IInv'
<1>1. TypeOK'
  BY TypeStep DEF IInv
<1>2. ASSUME NEW v \in VMs, GoroutineExits(v)
      PROVE  IInv'
  BY <1>1, <1>2 DEF IInv, TypeOK, GoroutineExits, Placed, Locked, Owned, Distinct,
     NoLeak, Holds, Private
<1> QED
  BY <1>1, <1>2, StartsOwned, LocksOwned, ScriptEndsOwned, ContinuesOwned DEF Next

\* A step that changes nothing keeps it too.
LEMMA OwnedStutter == IInv /\ UNCHANGED vars => IInv'
BY DEF vars, IInv, TypeOK, Flags, Placed, Locked, Owned, Distinct, NoLeak, Holds,
   Private

\* The ownership discipline of initializeVMLocked, the pool and the quarantine:
\* a thread works on the shared runtime under VMMu or on one that only it has.
THEOREM OwnershipHolds == Spec => []IInv
BY OwnedInit, OwnedStep, OwnedStutter, PTL DEF Spec

\* VMExclusive, for every number of threads and runtimes: no runtime is used
\* by two goroutines at a time.
THEOREM VMExclusiveHolds == Spec => []VMExclusive
<1>1. IInv => VMExclusive
  <2> SUFFICES ASSUME IInv
               PROVE  VMExclusive
    OBVIOUS
  <2> USE DEF IInv, TypeOK, Owned, Distinct, NoLeak, Holds, Private
  <2>1. ASSUME NEW t \in Threads, NEW u \in Threads, at[t] \in Executing,
               at[u] \in Executing, using[t] = using[u]
        PROVE  t = u
    BY <2>1
  <2>2. ASSUME NEW t \in Threads, at[t] \in Executing
        PROVE  state[using[t]] = "live"
    BY <2>2
  <2> QED
    BY <2>1, <2>2 DEF VMExclusive
<1> QED
  BY <1>1, OwnershipHolds, PTL

\* NoLeak, for every number of threads and runtimes: a runtime is open exactly
\* while the extension, the pool or a thread refers to it.
THEOREM NoLeakHolds == Spec => []NoLeak
<1>1. IInv => NoLeak
  BY DEF IInv
<1> QED
  BY <1>1, OwnershipHolds, PTL

-----------------------------------------------------------------------------
\* The gate counts the stuck runtimes, and the runtimes are few.
Gated ==
    /\ IsFiniteSet(Built)
    /\ GateExact
    /\ RuntimesBounded

\* The steps that neither build a runtime nor end its use.
LEMMA QuietStep ==
  ASSUME NEW t, Starts(t) \/ Locks(t) \/ Continues(t), ~LockBuild(t)
  PROVE  state' = state /\ quarantined' = quarantined
<1>1. CASE Starts(t)
  BY <1>1 DEF Starts, Call, InvokeAction, DownloadPrepared, InitializeExtension,
     CleanupExtension, Enable, Disable, UnloadExtension, ReleaseMemory, Begin
<1>2. CASE Locks(t)
  BY <1>2 DEF Locks, LockInvalid, LockGated, LockReady, LockTeardown, LockCleanup
<1>3. CASE Continues(t)
  <2>1. CASE Acquire(t) \/ ApplySettings(t) \/ NoSettings(t) \/ EnableFails(t)
    BY <2>1, Zenon DEF Acquire, ApplySettings, NoSettings, EnableFails
  <2>2. CASE Keep(t) \/ Drain(t) \/ CleanShared(t)
    BY <2>2, Zenon DEF Keep, Drain, CleanShared
  <2> QED
    BY <1>3, <2>1, <2>2 DEF Continues
<1> QED
  BY <1>1, <1>2, <1>3

\* The end of a script gives up the runtime it ran on, or none.
LEMMA ScriptEndsStep ==
  ASSUME IInv, NEW t \in Threads, JavaScriptEnds(t)
  PROVE  \/ state' = state /\ quarantined' = quarantined
         \/ /\ \E r \in Results : Discard(using[t], r)
            /\ using[t] \in VMs /\ state[using[t]] = "live"
<1>1. at[t] \in Executing
  BY DEF JavaScriptEnds, SettingsApplied, ProgramEnds, SettingsRefused,
     SharedCallEnds, DownloadEnds, DrainEnds, CleanupEnds, CleanupExtensionEnds,
     Executing
<1>2. using[t] \in VMs /\ state[using[t]] = "live"
  BY <1>1 DEF IInv, TypeOK, Owned, NoLeak, Holds
<1>3. CASE SettingsApplied(t)
  BY <1>3, Zenon DEF SettingsApplied
<1>4. ASSUME NEW r \in Results,
             \/ ProgramEnds(t, r) \/ SettingsRefused(t, r)
             \/ SharedCallEnds(t, r) \/ DownloadEnds(t, r)
      PROVE  (state' = state /\ quarantined' = quarantined) \/ Discard(using[t], r)
  BY <1>4, Zenon DEF ProgramEnds, SettingsRefused, SharedCallEnds, DownloadEnds
<1>5. ASSUME NEW r \in Results,
             DrainEnds(t, r) \/ CleanupEnds(t, r) \/ CleanupExtensionEnds(t, r)
      PROVE  (state' = state /\ quarantined' = quarantined) \/ Discard(using[t], r)
  BY <1>5, Zenon DEF DrainEnds, CleanupEnds, CleanupExtensionEnds
<1> QED
  BY <1>2, <1>3, <1>4, <1>5 DEF JavaScriptEnds

\* Each step leaves the stuck runtimes alone, adds one to them or takes one
\* from them, and the counter follows; runtimes are built only while none is
\* stuck.
LEMMA StuckStep ==
  ASSUME IInv, Next
  PROVE  /\ \/ Stuck' = Stuck /\ quarantined' = quarantined
            \/ \E v \in VMs \ Stuck : /\ Stuck' = Stuck \cup {v}
                                      /\ quarantined' = quarantined + 1
            \/ \E v \in Stuck : /\ Stuck' = Stuck \ {v}
                                /\ quarantined > 0 =>
                                       quarantined' = quarantined - 1
         /\ Built' \subseteq Built \/ (quarantined = 0 /\ Stuck' = Stuck)
<1> USE DEF IInv, TypeOK, Stuck, Built
<1>1. ASSUME NEW t \in Threads, LockBuild(t)
      PROVE  Stuck' = Stuck /\ quarantined' = quarantined /\ quarantined = 0
  BY <1>1, FreshFree DEF LockBuild, Build
<1>2. ASSUME NEW t \in Threads, Starts(t) \/ Locks(t) \/ Continues(t), ~LockBuild(t)
      PROVE  Stuck' = Stuck /\ quarantined' = quarantined /\ Built' = Built
  BY <1>2, QuietStep
<1>3. ASSUME NEW v \in VMs, NEW r \in Results, Discard(v, r), state[v] = "live"
      PROVE  /\ \/ Stuck' = Stuck /\ quarantined' = quarantined
                \/ \E w \in VMs \ Stuck : /\ Stuck' = Stuck \cup {w}
                                          /\ quarantined' = quarantined + 1
             /\ Built' \subseteq Built
  BY <1>3 DEF Discard
<1>4. ASSUME NEW t \in Threads, JavaScriptEnds(t)
      PROVE  /\ \/ Stuck' = Stuck /\ quarantined' = quarantined
                \/ \E w \in VMs \ Stuck : /\ Stuck' = Stuck \cup {w}
                                          /\ quarantined' = quarantined + 1
             /\ Built' \subseteq Built
  <2>1. CASE state' = state /\ quarantined' = quarantined
    BY <2>1
  <2>2. CASE ~(state' = state /\ quarantined' = quarantined)
    BY <1>3, <1>4, <2>2, ScriptEndsStep
  <2> QED
    BY <2>1, <2>2
<1>5. ASSUME NEW v \in VMs, GoroutineExits(v)
      PROVE  /\ \E w \in Stuck : /\ Stuck' = Stuck \ {w}
                                 /\ quarantined > 0 =>
                                        quarantined' = quarantined - 1
             /\ Built' \subseteq Built
  BY <1>5 DEF GoroutineExits
<1> QED
  BY <1>1, <1>2, <1>4, <1>5 DEF Next

\* Runtimes that are each the shared one, the idle one or a thread's are few.
LEMMA FewReferences ==
  ASSUME NEW use \in [Threads -> VMs \cup {NoVM}], NEW shared, NEW idle,
         NEW S, \A v \in S : v = shared \/ v = idle \/ \E t \in Threads : use[t] = v
  PROVE  IsFiniteSet(S) /\ Cardinality(S) <= Cardinality(Threads) + 2
<1> DEFINE Used == {use[t] : t \in Threads}
           One  == Used \cup {shared}
           Both == One \cup {idle}
<1>1. IsFiniteSet(Used) /\ Cardinality(Used) <= Cardinality(Threads)
  <2>1. use \in Surjection(Threads, Used)
    BY DEF Surjection
  <2> QED
    BY <2>1, ThreadsAssumption, FS_Surjection
<1>2. Cardinality(Threads) \in Nat /\ Cardinality(Used) \in Nat
  BY <1>1, ThreadsAssumption, FS_CardinalityType
<1>3. S \subseteq Both
  OBVIOUS
<1> HIDE DEF Used
<1>4. IsFiniteSet(One) /\ Cardinality(One) <= Cardinality(Used) + 1
  <2>1. /\ IsFiniteSet(Used \cup {shared})
        /\ Cardinality(Used \cup {shared}) =
               IF shared \in Used THEN Cardinality(Used)
                                ELSE Cardinality(Used) + 1
    BY <1>1, FS_AddElement
  <2> QED
    BY <2>1, <1>2
<1>5. Cardinality(One) \in Nat
  BY <1>4, FS_CardinalityType
<1> HIDE DEF One
<1>6. IsFiniteSet(Both) /\ Cardinality(Both) <= Cardinality(One) + 1
  <2>1. /\ IsFiniteSet(One \cup {idle})
        /\ Cardinality(One \cup {idle}) =
               IF idle \in One THEN Cardinality(One)
                              ELSE Cardinality(One) + 1
    BY <1>4, FS_AddElement
  <2> QED
    BY <2>1, <1>5
<1>7. Cardinality(Both) \in Nat
  BY <1>6, FS_CardinalityType
<1> HIDE DEF Both
<1>8. IsFiniteSet(S) /\ Cardinality(S) <= Cardinality(Both)
  BY <1>3, <1>6, FS_Subset
<1>9. Cardinality(S) \in Nat
  BY <1>8, FS_CardinalityType
<1>10. Cardinality(S) <= Cardinality(Threads) + 2
  BY <1>1, <1>2, <1>4, <1>5, <1>6, <1>7, <1>8, <1>9
<1> QED
  BY <1>8, <1>10

\* Before the first call nothing is built and nothing is stuck.
LEMMA GatedInit == Init => Gated
<1> SUFFICES ASSUME Init
             PROVE  Gated
  OBVIOUS
<1>1. Built = {} /\ Stuck = {}
  BY DEF Init, Built, Stuck
<1> QED
  BY <1>1, FS_EmptySet, ThreadsAssumption, FS_CardinalityType
     DEF Init, Gated, GateExact, RuntimesBounded

\* Every action keeps the gate exact and the runtimes bounded.
LEMMA GatedStep ==
  ASSUME IInv, IInv', Gated, Next
  PROVE  Gated'
<1>1. Stuck \subseteq Built /\ IsFiniteSet(Stuck) /\ Cardinality(Stuck) \in Nat
  <2>1. Stuck \subseteq Built
    BY DEF Stuck, Built
  <2> QED
    BY <2>1, FS_Subset, FS_CardinalityType DEF Gated
<1>2. quarantined = Cardinality(Stuck)
  BY DEF Gated, GateExact
<1>3. quarantined' = Cardinality(Stuck')
  <2>1. CASE Stuck' = Stuck /\ quarantined' = quarantined
    BY <2>1, <1>2
  <2>2. ASSUME NEW v \in VMs \ Stuck, Stuck' = Stuck \cup {v},
               quarantined' = quarantined + 1
        PROVE  quarantined' = Cardinality(Stuck')
    BY <2>2, <1>1, <1>2, FS_AddElement
  <2>3. ASSUME NEW v \in Stuck, Stuck' = Stuck \ {v},
               quarantined > 0 => quarantined' = quarantined - 1
        PROVE  quarantined' = Cardinality(Stuck')
    <3>1. Cardinality(Stuck) # 0
      BY <1>1, FS_EmptySet
    <3> QED
      BY <2>3, <3>1, <1>1, <1>2, FS_RemoveElement
  <2> QED
    BY <2>1, <2>2, <2>3, StuckStep
<1>4. IsFiniteSet(Built') /\ Cardinality(Built') <= Cardinality(Threads) + 2
  <2>1. CASE Built' \subseteq Built
    <3>1. IsFiniteSet(Built') /\ Cardinality(Built') <= Cardinality(Built)
      BY <2>1, FS_Subset DEF Gated
    <3>2. /\ Cardinality(Built') \in Nat
          /\ Cardinality(Built) \in Nat
          /\ Cardinality(Threads) \in Nat
      BY <3>1, ThreadsAssumption, FS_CardinalityType DEF Gated
    <3> QED
      BY <3>1, <3>2 DEF Gated, RuntimesBounded
  <2>2. CASE quarantined = 0 /\ Stuck' = Stuck
    <3>1. Stuck' = {}
      BY <2>2, <1>1, <1>2, FS_EmptySet
    <3>2. using' \in [Threads -> VMs \cup {NoVM}]
      BY DEF IInv, TypeOK
    <3>3. \A v \in Built' :
             v = vm' \/ v = pooled' \/ \E t \in Threads : using'[t] = v
      BY <3>1 DEF IInv, TypeOK, NoLeak, Built, Stuck
    <3> QED
      BY <3>2, <3>3, FewReferences
  <2> QED
    BY <2>1, <2>2, StuckStep
<1> QED
  BY <1>3, <1>4 DEF Gated, GateExact, RuntimesBounded

\* Both hold in every reachable state.
LEMMA GatedAlways == Spec => []Gated
<1>1. Gated /\ UNCHANGED vars => Gated'
  BY DEF Gated, GateExact, RuntimesBounded, Built, Stuck, vars
<1> QED
  BY OwnershipHolds, GatedInit, GatedStep, <1>1, PTL DEF Spec

\* GateExact, for every number of threads and runtimes: the gate lifts when
\* the last stuck goroutine has exited.
THEOREM GateExactHolds == Spec => []GateExact
<1>1. Gated => GateExact
  BY DEF Gated
<1> QED
  BY <1>1, GatedAlways, PTL

\* RuntimesBounded, for every number of threads: scripts that never end do not
\* accumulate runtimes.
THEOREM RuntimesBoundedHolds == Spec => []RuntimesBounded
<1>1. Gated => RuntimesBounded
  BY DEF Gated
<1> QED
  BY <1>1, GatedAlways, PTL

-----------------------------------------------------------------------------
(* The verifications that downloads wait for.                              *)
\* What the threads of the downloads and the main thread know: a download that
\* has not ended has no result; a latch is released, and a callback completed,
\* only for a verification whose grant was exchanged.
ReleasedExchanged ==
    /\ \A w \in Waiters : place[w] # "done" => result[w] = "none"
    /\ \A w \in Waiters : latch[w] => w \in exchanged
    /\ main.step = "completed" => main.target \in exchanged

VerifyingIInv == Verifying!TypeOK /\ Verifying!PendingAlive /\ ReleasedExchanged /\ Verifying!TrueMeansExchanged

\* A return leaves everybody else pending and every field of its type.
LEMMA ReturnTyped ==
  ASSUME VerifyingIInv, NEW w \in Waiters, NEW r \in {"true", "false"}, Verifying!Return(w, r),
         place[w] \in {"asking", "starting", "waiting"}, UNCHANGED <<ext, latchOf>>
  PROVE  /\ place' \in [Waiters -> {"idle", "asking", "putting", "starting", "waiting", "done"}]
         /\ result' \in [Waiters -> {"none", "true", "false"}]
         /\ pending' \in [Exts -> Waiters \cup {None}]
         /\ place' = [place EXCEPT ![w] = "done"]
         /\ result' = [result EXCEPT ![w] = r]
         /\ Verifying!PendingAlive'
<1> USE DEF VerifyingIInv, Verifying!TypeOK
<1>1. /\ place' = [place EXCEPT ![w] = "done"] /\ result' = [result EXCEPT ![w] = r]
      /\ pending' = [pending EXCEPT ![ext[w]] = IF @ = w THEN None ELSE @]
  BY DEF Verifying!Return
<1>2. pending' \in [Exts -> Waiters \cup {None}]
  BY <1>1
<1>3. Verifying!PendingAlive'
  <2> SUFFICES ASSUME NEW e \in Exts, pending'[e] # None
               PROVE  /\ place'[pending'[e]] \in {"starting", "waiting"}
                      /\ latchOf'[pending'[e]] = pending'[e]
                      /\ ext'[pending'[e]] = e
    BY DEF Verifying!PendingAlive
  <2>1. pending'[e] = pending[e] /\ pending[e] # w /\ pending[e] \in Waiters
    BY <1>1 DEF Verifying!PendingAlive
  <2> QED
    BY <1>1, <2>1 DEF Verifying!PendingAlive
<1> QED
  BY <1>1, <1>2, <1>3

\* A download that waits for a verification, by each of its steps.
LEMMA WaiterKeeps ==
  ASSUME VerifyingIInv, NEW w \in Waiters, Verifying!Waiter(w)
  PROVE  VerifyingIInv'
<1>1. CASE Verifying!Await(w)
  BY <1>1, WaitersAssumption DEF VerifyingIInv, Verifying!TypeOK, Verifying!PendingAlive,
       ReleasedExchanged, Verifying!TrueMeansExchanged,
     Verifying!Await, Verifying!go
<1>2. CASE Verifying!Ask(w)
  BY <1>2 DEF VerifyingIInv, Verifying!TypeOK, Verifying!PendingAlive, ReleasedExchanged,
       Verifying!TrueMeansExchanged, Verifying!Ask, Verifying!go
<1>3. CASE Verifying!Put(w)
  BY <1>3 DEF VerifyingIInv, Verifying!TypeOK, Verifying!PendingAlive, ReleasedExchanged,
       Verifying!TrueMeansExchanged, Verifying!Put, Verifying!go
<1>4. CASE Verifying!StartPage(w)
  BY <1>4 DEF VerifyingIInv, Verifying!TypeOK, Verifying!PendingAlive, ReleasedExchanged,
       Verifying!TrueMeansExchanged, Verifying!StartPage,
     Verifying!go
<1>5. CASE Verifying!AskFails(w) \/ Verifying!StartFails(w) \/ Verifying!TimesOut(w) \/ Verifying!Released(w)
  <2>1. PICK r \in {"true", "false"} :
          /\ Verifying!Return(w, r)
          /\ place[w] \in {"asking", "starting", "waiting"}
          /\ UNCHANGED <<ext, latchOf, expected, latch, page, main, granted, loggedIn,
                         exchanged>>
          /\ r = "true" => place[w] = "waiting" /\ latch[latchOf[w]]
    BY <1>5 DEF Verifying!AskFails, Verifying!StartFails, Verifying!TimesOut,
         Verifying!Released, Verifying!go
  <2>2. /\ place' = [place EXCEPT ![w] = "done"] /\ result' = [result EXCEPT ![w] = r]
        /\ Verifying!PendingAlive' /\ Verifying!TypeOK'
    BY <2>1, ReturnTyped DEF VerifyingIInv, Verifying!TypeOK
  <2>3. ReleasedExchanged'
    BY <2>1, <2>2 DEF VerifyingIInv, Verifying!TypeOK, ReleasedExchanged
  <2>4. Verifying!TrueMeansExchanged'
    <3> SUFFICES ASSUME NEW v \in Waiters, result'[v] = "true"
                 PROVE  latchOf'[v] \in exchanged'
      BY DEF Verifying!TrueMeansExchanged
    <3>1. CASE v = w
      <4>1. latch[latchOf[w]] /\ latchOf[w] \in Waiters
        BY <2>1, <2>2, <3>1 DEF VerifyingIInv, Verifying!TypeOK
      <4> QED
        BY <2>1, <3>1, <4>1 DEF VerifyingIInv, ReleasedExchanged
    <3>2. CASE v # w
      BY <2>1, <2>2, <3>2 DEF VerifyingIInv, Verifying!TypeOK, Verifying!TrueMeansExchanged
    <3> QED
      BY <3>1, <3>2
  <2> QED
    BY <2>2, <2>3, <2>4 DEF VerifyingIInv
<1> QED
  BY <1>1, <1>2, <1>3, <1>4, <1>5 DEF Verifying!Waiter

\* The page, the main thread and the script, by each of their steps.
LEMMA MainKeeps ==
  ASSUME VerifyingIInv, Verifying!Next, \A w \in Waiters : ~Verifying!Waiter(w)
  PROVE  VerifyingIInv'
<1> USE DEF VerifyingIInv, Verifying!TypeOK, Verifying!PendingAlive, ReleasedExchanged,
  Verifying!TrueMeansExchanged
<1>1. ASSUME NEW w \in Waiters, Verifying!ClosePage(w)
      PROVE  VerifyingIInv'
  BY <1>1 DEF Verifying!ClosePage, Verifying!waiting, Verifying!go
<1>2. ASSUME NEW w \in Waiters, Verifying!Callback(w)
      PROVE  VerifyingIInv'
  <2>1. PICK v \in Verifying!Matches(expected[w]) :
          granted' = granted \cup {ext[v]} /\ main' = [step |-> "granted", target |-> v]
    BY <1>2 DEF Verifying!Callback
  <2>2. v \in Waiters
    BY <2>1 DEF Verifying!Matches
  <2>3. UNCHANGED <<place, ext, latchOf, expected, result, pending, latch, page, loggedIn,
    exchanged>>
    BY <1>2 DEF Verifying!Callback, Verifying!waiting
  <2> QED
    BY <2>1, <2>2, <2>3
<1>3. ASSUME Verifying!CompleteGrant
      PROVE  VerifyingIInv'
  <2>1. /\ main \in [step : {"granted", "exchanging", "completed"}, target : Waiters]
        /\ main.step = "granted"
    BY <1>3 DEF Verifying!CompleteGrant, Verifying!Idle
  <2>2. main' \in {[main EXCEPT !.step = "exchanging"], Verifying!Idle}
    BY <1>3 DEF Verifying!CompleteGrant
  <2>3. /\ main' \in [step : {"exchanging"}, target : Waiters] \cup {Verifying!Idle}
        /\ main'.step # "completed"
    BY <2>1, <2>2 DEF Verifying!Idle
  <2> QED
    BY <1>3, <2>3 DEF Verifying!CompleteGrant, Verifying!waiting, Verifying!go
<1>6. ASSUME Verifying!Confirm
      PROVE  VerifyingIInv'
  <2>1. main.target \in exchanged /\ main' = Verifying!Idle /\ main'.step # "completed"
    BY <1>6 DEF Verifying!Confirm, Verifying!Idle
  <2>2. latch' \in [Waiters -> BOOLEAN] /\ \A w \in Waiters : latch'[w] => w \in exchanged
    BY <1>6, <2>1 DEF Verifying!Confirm
  <2> QED
    BY <1>6, <2>1, <2>2 DEF Verifying!Confirm, Verifying!waiting, Verifying!go
<1>4. ASSUME Verifying!ExchangeEnds
      PROVE  VerifyingIInv'
  <2>1. main.step = "exchanging" /\ main.target \in Waiters
    BY <1>4 DEF Verifying!ExchangeEnds, Verifying!Idle
  <2> QED
    BY <1>4, <2>1 DEF Verifying!ExchangeEnds, Verifying!Idle, Verifying!waiting
<1>5. ASSUME NEW e \in Exts, Verifying!LogInOrOut(e)
      PROVE  VerifyingIInv'
  BY <1>5 DEF Verifying!LogInOrOut, Verifying!waiting
<1> QED
  BY <1>1, <1>2, <1>3, <1>4, <1>5, <1>6 DEF Verifying!Next

LEMMA VerifyingIInvInductive ==
  ASSUME VerifyingIInv, [Verifying!Next]_(Verifying!vars)
  PROVE  VerifyingIInv'
<1>1. CASE UNCHANGED Verifying!vars
  BY <1>1 DEF Verifying!vars, VerifyingIInv, Verifying!TypeOK, Verifying!PendingAlive,
       ReleasedExchanged, Verifying!TrueMeansExchanged
<1> QED
  BY <1>1, WaiterKeeps, MainKeeps

\* VerificationSound, for every number of downloads and extensions: what is
\* pending is a verification that some download waits for, and a download is
\* told that it may go on only if a grant was exchanged (GoBackend.kt).
THEOREM VerificationSoundHolds == MCSpec => []VerificationSound
<1> DEFINE Inv == VerifyingIInv
<1>1. MCInit => Inv
  BY DEF MCInit, Verifying!Init, Verifying!Idle, VerifyingIInv, Verifying!TypeOK,
     Verifying!PendingAlive, ReleasedExchanged, Verifying!TrueMeansExchanged
<1>2. [MCNext]_<<which, vars, verifying>> => Verifying!Next \/ UNCHANGED Verifying!vars
  BY DEF MCNext, verifying, Verifying!vars
<1>3. Inv /\ [MCNext]_<<which, vars, verifying>> => Inv'
  BY <1>2, VerifyingIInvInductive
<1>4. Inv => VerificationSound
  BY DEF VerifyingIInv, VerificationSound
<1> QED
  BY <1>1, <1>3, <1>4, PTL DEF MCSpec
=============================================================================
