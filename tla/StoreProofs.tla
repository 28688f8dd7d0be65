----------------------------- MODULE StoreProofs -----------------------------
(***************************************************************************)
(* Theorems about the extensions that are installed, the repository they   *)
(* come from, the storage of their scripts and the callbacks they wait     *)
(* for, for every value of the constants.  A service is the only one that  *)
(* changes its variables, so that an inductive invariant of the service by *)
(* itself is one of the behaviours of MCSpec that are its own.             *)
(***************************************************************************)
EXTENDS MCServices, TLAPS

\* A step of a behaviour is one of its service, or changes nothing of it.
LEMMA StoreStep ==
  ASSUME [MCNext]_all
  PROVE  /\ which' = which
         /\ which = "store" => [Store!Next]_(Store!vars)
         /\ which = "repo" => [Repo!Next]_(Repo!vars)
         /\ which = "storage" => [Storage!Next]_(Storage!vars)
<1>1. CASE MCNext
  <2>1. which' = which
    BY <1>1 DEF MCNext, Others
  <2> QED
    BY <1>1, <2>1 DEF MCNext
<1>2. CASE UNCHANGED all
  <2>1. UNCHANGED <<which, installing, listing, storing>>
    BY <1>2 DEF all
  <2> QED
    BY <2>1 DEF installing, listing, storing, Store!vars, Store!disk, Store!bounds,
       Repo!vars, Repo!memory, Repo!bounds, Storage!vars, Storage!shared
<1> QED
  BY <1>1, <1>2

-----------------------------------------------------------------------------
(* The registry of callback states, for every number of extensions and of  *)
(* states.  The two maps are kept consistent by every operation on them;   *)
(* that the owner of a state is open follows because an owner is only made *)
(* by a registration or inherited.                                         *)
\* ResolvesLive of a registry.
Resolving(registry) ==
    \A s \in States :
        /\ registry.owner[s] # NoExt => registry.req[registry.owner[s]] = s
        /\ (s \notin lapsed /\ Waiting(s, registry.req) # {})
               => registry.owner[s] # NoExt

Current == [req |-> req, owner |-> owner]

\* The owners of `registry` are inherited from the present ones.
Inherits(registry) ==
    \A s \in States : registry.owner[s] # NoExt => owner[s] # NoExt

\* The inductive invariant.
CallbackInv == TypeOK /\ ResolvesLive /\ \A s \in States : owner[s] # NoExt => s \in open

\* The registration in force is one that its request made and nothing cleared.
LEMMA CurrentGood ==
  ASSUME TypeOK, ResolvesLive
  PROVE  Current \in Registry /\ Resolving(Current) /\ Inherits(Current)
BY DEF Current, Registry, Resolving, Inherits, ResolvesLive, TypeOK

\* Taking out a request leaves a consistent registry without it.
LEMMA RemovedGood ==
  ASSUME TypeOK, ResolvesLive, NEW e \in Exts, NEW registry \in Removed(e)
  PROVE  /\ registry \in Registry
         /\ registry.req = [req EXCEPT ![e] = NoState]
         /\ Resolving(registry)
         /\ Inherits(registry)
         /\ \A s \in States :
               owner[s] \notin {NoExt, e} => registry.owner[s] = owner[s]
<1> DEFINE t == req[e]
           rest == [req EXCEPT ![e] = NoState]
           heirs == IF t \in lapsed THEN {} ELSE Waiting(t, rest)
<1>1. rest \in [Exts -> States \cup {NoState}]
  BY DEF TypeOK
<1>2. \A s \in States : Waiting(s, rest) = Waiting(s, req) \ {e}
  BY <1>1, NoStateAssumption DEF Waiting, TypeOK
<1>3. CASE t = NoState \/ owner[t] # e
  <2>1. registry = [req |-> rest, owner |-> owner]
    BY <1>3 DEF Removed
  <2>2. \A s \in States : owner[s] # e
    BY <1>3, NoStateAssumption, NoExtAssumption DEF ResolvesLive, TypeOK
  <2>3. \A s \in States : owner[s] # NoExt => rest[owner[s]] = s
    BY <2>2 DEF ResolvesLive, TypeOK
  <2> HIDE DEF rest
  <2>4. Resolving(registry)
    BY <1>2, <2>1, <2>3 DEF Resolving, ResolvesLive
  <2> QED
    BY <1>1, <2>1, <2>4 DEF Registry, Inherits, TypeOK, rest
<1>4. CASE t # NoState /\ owner[t] = e
  <2>1. t \in States
    BY <1>4 DEF TypeOK
  <2>2. PICK heir \in IF heirs = {} THEN {NoExt} ELSE heirs :
          registry = [req |-> rest, owner |-> [owner EXCEPT ![t] = heir]]
    BY <1>4 DEF Removed
  <2>3. heir \in Exts \cup {NoExt} /\ (heir # NoExt => rest[heir] = t)
    BY DEF Waiting
  <2>4. (t \notin lapsed /\ Waiting(t, rest) # {}) => heir # NoExt
    BY NoExtAssumption DEF Waiting
  <2> HIDE DEF heirs, t
  <2>5. ASSUME NEW s \in States, s # t
        PROVE  /\ registry.owner[s] = owner[s]
               /\ owner[s] # NoExt => rest[owner[s]] = s
               /\ e \notin Waiting(s, req)
    BY <2>1, <2>2, <2>5 DEF ResolvesLive, TypeOK, Waiting, t
  <2>6. registry.owner[t] = heir
    BY <2>1, <2>2 DEF TypeOK
  <2>7. registry.req = rest
    BY <2>2
  <2> HIDE DEF rest
  <2>8. Resolving(registry)
    <3> SUFFICES ASSUME NEW s \in States
                 PROVE  /\ registry.owner[s] # NoExt
                               => registry.req[registry.owner[s]] = s
                        /\ (s \notin lapsed /\ Waiting(s, registry.req) # {})
                               => registry.owner[s] # NoExt
      BY DEF Resolving
    <3>1. CASE s = t
      BY <2>3, <2>4, <2>6, <2>7, <3>1
    <3>2. CASE s # t
      BY <1>2, <2>5, <2>7, <3>2 DEF ResolvesLive
    <3> QED
      BY <3>1, <3>2
  <2>9. registry \in Registry
    BY <1>1, <2>2, <2>3 DEF Registry, TypeOK
  <2>10. Inherits(registry)
    BY <1>4, <2>5, NoExtAssumption DEF Inherits
  <2> QED
    BY <1>4, <2>5, <2>7, <2>8, <2>9, <2>10 DEF rest
<1> QED
  BY <1>3, <1>4

\* Entering a request for s keeps a registry consistent.
LEMMA RegisteredGood ==
  ASSUME NEW e \in Exts, NEW s \in States, NEW registry \in Registry,
         Resolving(registry), registry.req[e] \in {NoState, s}
  PROVE  /\ Registered(e, s, registry) \in Registry
         /\ Resolving(Registered(e, s, registry))
         /\ \A x \in States : x # s =>
               Registered(e, s, registry).owner[x] = registry.owner[x]
<1> DEFINE new == Registered(e, s, registry)
<1>1. new \in Registry
  BY DEF Registered, Registry
<1>2. /\ new.req = [registry.req EXCEPT ![e] = s]
      /\ \A x \in States : new.owner[x] = IF x = s /\ registry.owner[s] = NoExt
                                          THEN e ELSE registry.owner[x]
  BY DEF Registered, Registry
<1> HIDE DEF new
<1>3. ASSUME NEW x \in States
      PROVE  /\ new.owner[x] # NoExt => new.req[new.owner[x]] = x
             /\ (x \notin lapsed /\ Waiting(x, new.req) # {})
                    => new.owner[x] # NoExt
  <2>1. registry.req \in [Exts -> States \cup {NoState}]
        /\ registry.owner \in [States -> Exts \cup {NoExt}]
    BY DEF Registry
  <2>2. registry.owner[x] # NoExt => registry.req[registry.owner[x]] = x
    BY DEF Resolving
  <2>3. new.owner[x] # NoExt => new.req[new.owner[x]] = x
    BY <1>2, <2>1, <2>2, NoStateAssumption
  <2>4. x # s => Waiting(x, new.req) = Waiting(x, registry.req)
    BY <1>2, <2>1, NoStateAssumption DEF Waiting
  <2>5. x = s => new.owner[x] # NoExt
    BY <1>2, NoExtAssumption
  <2>6. x # s => new.owner[x] = registry.owner[x]
    BY <1>2
  <2> QED
    BY <2>3, <2>4, <2>5, <2>6 DEF Resolving
<1>4. Resolving(new)
  BY <1>3 DEF Resolving
<1> QED
  BY <1>1, <1>2, <1>4 DEF new

\* A registration: consistent maps, and owners only for open states.
LEMMA RegisterStep ==
  ASSUME TypeOK, ResolvesLive, UNCHANGED lapsed,
         NEW e \in Exts, NEW s \in States, Register(e, s)
  PROVE  /\ req' \in [Exts -> States \cup {NoState}]
         /\ owner' \in [States -> Exts \cup {NoExt}]
         /\ ResolvesLive'
         /\ open' = open \cup {s}
         /\ \A x \in States : owner'[x] # NoExt => (owner[x] # NoExt \/ x = s)
         /\ \A x \in States : owner[x] # NoExt =>
               (owner'[x] = owner[x] \/ req'[owner[x]] # x)
<1>1. PICK registry \in IF req[e] \in {NoState, s} THEN {Current} ELSE Removed(e) :
        Set(Registered(e, s, registry))
  BY DEF Register, Current
<1>2. registry \in Registry /\ Resolving(registry) /\ Inherits(registry)
  BY CurrentGood, RemovedGood
<1>3. /\ registry.req[e] \in {NoState, s}
      /\ \A x \in States :
            owner[x] \notin {NoExt, e} => registry.owner[x] = owner[x]
  <2>1. CASE req[e] \in {NoState, s}
    BY <1>1, <2>1 DEF Current
  <2>2. CASE req[e] \notin {NoState, s}
    <3>1. registry \in Removed(e)
      BY <1>1, <2>2
    <3>2. registry.req = [req EXCEPT ![e] = NoState]
          /\ \A x \in States :
                owner[x] \notin {NoExt, e} => registry.owner[x] = owner[x]
      BY <3>1, RemovedGood
    <3> QED
      BY <3>2 DEF TypeOK
  <2> QED
    BY <2>1, <2>2
<1>5. req[e] \in {NoState, s} => registry.owner = owner
  BY DEF Current
<1> DEFINE new == Registered(e, s, registry)
<1>6. new \in Registry /\ Resolving(new)
      /\ \A x \in States : x # s => new.owner[x] = registry.owner[x]
  BY <1>2, <1>3, RegisteredGood
<1>7. req' = new.req /\ owner' = new.owner
  BY <1>1 DEF Set
<1>8. /\ req'[e] = s
      /\ registry.owner[s] # NoExt => new.owner[s] = registry.owner[s]
  BY <1>2, <1>7 DEF Registered, Registry
<1> HIDE DEF new
<1>9. ResolvesLive'
  BY <1>6, <1>7 DEF Resolving, ResolvesLive
<1>10. \A x \in States : owner'[x] # NoExt => (owner[x] # NoExt \/ x = s)
  BY <1>2, <1>6, <1>7 DEF Inherits
<1>11. ASSUME NEW x \in States, owner[x] # NoExt, req'[owner[x]] = x
       PROVE  owner'[x] = owner[x]
  <2>1. CASE owner[x] # e
    BY <1>3, <1>6, <1>7, <1>8, <1>11, <2>1
  <2>2. CASE owner[x] = e
    <3>1. x = s /\ req[e] = s
      BY <1>8, <1>11, <2>2 DEF ResolvesLive
    <3> QED
      BY <1>5, <1>7, <1>8, <1>11, <3>1
  <2> QED
    BY <2>1, <2>2
<1>12. req' \in [Exts -> States \cup {NoState}]
       /\ owner' \in [States -> Exts \cup {NoExt}]
  BY <1>6, <1>7 DEF Registry
<1> QED
  BY <1>9, <1>10, <1>11, <1>12 DEF Register

\* Taking out a request of an extension.
LEMMA RemoveStep ==
  ASSUME TypeOK, ResolvesLive, UNCHANGED lapsed, NEW e \in Exts,
         \E registry \in Removed(e) : Set(registry)
  PROVE  /\ req' \in [Exts -> States \cup {NoState}]
         /\ owner' \in [States -> Exts \cup {NoExt}]
         /\ ResolvesLive'
         /\ \A x \in States : owner'[x] # NoExt => owner[x] # NoExt
         /\ \A x \in States : owner[x] # NoExt =>
               (owner'[x] = owner[x] \/ req'[owner[x]] # x)
<1>1. PICK registry \in Removed(e) : Set(registry)
  OBVIOUS
<1>2. req' = registry.req /\ owner' = registry.owner
  BY <1>1 DEF Set
<1>3. /\ registry \in Registry
      /\ registry.req = [req EXCEPT ![e] = NoState]
      /\ Resolving(registry)
      /\ Inherits(registry)
      /\ \A s \in States :
            owner[s] \notin {NoExt, e} => registry.owner[s] = owner[s]
  BY RemovedGood
<1>4. ResolvesLive'
  BY <1>2, <1>3 DEF Resolving, ResolvesLive
<1>5. \A x \in States : owner[x] # NoExt =>
         (owner'[x] = owner[x] \/ req'[owner[x]] # x)
  <2>1. req'[e] = NoState
    BY <1>2, <1>3 DEF TypeOK
  <2> QED
    BY <1>2, <1>3, <2>1, NoStateAssumption
<1> QED
  BY <1>2, <1>3, <1>4, <1>5 DEF Registry, Inherits

\* Taking out a state with all its requests.
LEMMA DropStep ==
  ASSUME TypeOK, ResolvesLive, UNCHANGED lapsed, NEW s \in States, Set(Dropped(s))
  PROVE  /\ req' \in [Exts -> States \cup {NoState}]
         /\ owner' \in [States -> Exts \cup {NoExt}]
         /\ ResolvesLive'
         /\ owner'[s] = NoExt
         /\ \A x \in States : owner'[x] # NoExt => owner[x] # NoExt
         /\ \A x \in States : owner[x] # NoExt =>
               (owner'[x] = owner[x] \/ req'[owner[x]] # x)
<1>1. /\ req' = [e \in Exts |-> IF req[e] = s THEN NoState ELSE req[e]]
      /\ owner' = [owner EXCEPT ![s] = NoExt]
  BY DEF Set, Dropped
<1>2. \A x \in States : owner'[x] = IF x = s THEN NoExt ELSE owner[x]
  BY <1>1 DEF TypeOK
<1>3. \A e \in Exts : req'[e] = IF req[e] = s THEN NoState ELSE req[e]
  BY <1>1
<1>4. \A x \in States \ {s} : Waiting(x, req') = Waiting(x, req)
  BY <1>3, NoStateAssumption DEF Waiting
<1>5. Waiting(s, req') = {}
  BY <1>3, NoStateAssumption DEF Waiting
<1>6. ResolvesLive'
  <2> SUFFICES ASSUME NEW x \in States
               PROVE  /\ owner'[x] # NoExt => req'[owner'[x]] = x
                      /\ (x \notin lapsed /\ Waiting(x, req') # {})
                             => owner'[x] # NoExt
    BY DEF ResolvesLive, Waiting
  <2>1. CASE x = s
    BY <1>2, <1>5, <2>1
  <2>2. CASE x # s
    BY <1>2, <1>3, <1>4, <2>2 DEF ResolvesLive, TypeOK
  <2> QED
    BY <2>1, <2>2
<1>7. \A x \in States : owner[x] # NoExt =>
         (owner'[x] = owner[x] \/ req'[owner[x]] # x)
  BY <1>2, <1>3, NoStateAssumption DEF ResolvesLive, TypeOK
<1> QED
  BY <1>1, <1>2, <1>6, <1>7 DEF TypeOK

\* The strengthened invariant holds before the first request.
LEMMA CallbackInvInit == Init => CallbackInv
BY NoStateAssumption DEF Init, CallbackInv, TypeOK, ResolvesLive, Waiting

\* Every step preserves the invariant, and no owner loses its state while it
\* waits for it.
LEMMA CallbackInvStep ==
  ASSUME CallbackInv, [Next]_vars
  PROVE  /\ CallbackInv'
         /\ \A s \in States : owner[s] # NoExt =>
               (owner'[s] = owner[s] \/ req'[owner[s]] # s)
<1>0. TypeOK /\ ResolvesLive
  BY DEF CallbackInv
<1>1. ASSUME NEW e \in Exts, NEW s \in States, Register(e, s),
             minted' = minted \cup {s}, UNCHANGED <<lapsed, checked>>
      PROVE  /\ CallbackInv'
             /\ \A x \in States : owner[x] # NoExt =>
                   (owner'[x] = owner[x] \/ req'[owner[x]] # x)
  <2>1. /\ req' \in [Exts -> States \cup {NoState}]
        /\ owner' \in [States -> Exts \cup {NoExt}]
        /\ ResolvesLive'
        /\ open' = open \cup {s}
        /\ \A x \in States : owner'[x] # NoExt => (owner[x] # NoExt \/ x = s)
        /\ \A x \in States : owner[x] # NoExt =>
              (owner'[x] = owner[x] \/ req'[owner[x]] # x)
    BY <1>0, <1>1, RegisterStep
  <2>2. TypeOK'
    BY <1>0, <1>1, <2>1 DEF TypeOK
  <2> QED
    BY <2>1, <2>2 DEF CallbackInv
<1>2. ASSUME NEW e \in Exts, \E registry \in Removed(e) : Set(registry),
             UNCHANGED <<minted, lapsed, open>>,
             checked' \in [Hosts -> Exts \cup {NoExt}]
      PROVE  /\ CallbackInv'
             /\ \A x \in States : owner[x] # NoExt =>
                   (owner'[x] = owner[x] \/ req'[owner[x]] # x)
  <2>1. /\ req' \in [Exts -> States \cup {NoState}]
        /\ owner' \in [States -> Exts \cup {NoExt}]
        /\ ResolvesLive'
        /\ \A x \in States : owner'[x] # NoExt => owner[x] # NoExt
        /\ \A x \in States : owner[x] # NoExt =>
              (owner'[x] = owner[x] \/ req'[owner[x]] # x)
    BY <1>0, <1>2, RemoveStep
  <2>2. TypeOK'
    BY <1>0, <1>2, <2>1 DEF TypeOK
  <2> QED
    BY <1>2, <2>1, <2>2 DEF CallbackInv
<1>3. ASSUME NEW s \in States, Set(Dropped(s)), open' \in {open, open \ {s}},
             UNCHANGED <<minted, lapsed, checked>>
      PROVE  /\ CallbackInv'
             /\ \A x \in States : owner[x] # NoExt =>
                   (owner'[x] = owner[x] \/ req'[owner[x]] # x)
  <2>1. /\ req' \in [Exts -> States \cup {NoState}]
        /\ owner' \in [States -> Exts \cup {NoExt}]
        /\ ResolvesLive'
        /\ owner'[s] = NoExt
        /\ \A x \in States : owner'[x] # NoExt => owner[x] # NoExt
        /\ \A x \in States : owner[x] # NoExt =>
              (owner'[x] = owner[x] \/ req'[owner[x]] # x)
    BY <1>0, <1>3, DropStep
  <2>2. TypeOK'
    BY <1>0, <1>3, <2>1 DEF TypeOK
  <2> QED
    BY <1>3, <2>1, <2>2 DEF CallbackInv
<1>4. ASSUME UNCHANGED <<req, owner, minted, open>>,
             lapsed' \in SUBSET minted, lapsed \subseteq lapsed',
             checked' \in [Hosts -> Exts \cup {NoExt}]
      PROVE  /\ CallbackInv'
             /\ \A x \in States : owner[x] # NoExt =>
                   (owner'[x] = owner[x] \/ req'[owner[x]] # x)
  <2>1. ResolvesLive'
    BY <1>0, <1>4 DEF ResolvesLive, Waiting
  <2>2. TypeOK'
    BY <1>0, <1>4 DEF TypeOK
  <2> QED
    BY <1>4, <2>1, <2>2 DEF CallbackInv
<1>5. ASSUME NEW e \in Exts, ClearRequest(e)
      PROVE  /\ CallbackInv'
             /\ \A x \in States : owner[x] # NoExt =>
                   (owner'[x] = owner[x] \/ req'[owner[x]] # x)
  BY <1>0, <1>2, <1>5 DEF ClearRequest, TypeOK
<1>6. ASSUME NEW e \in Exts, NEW s \in States, NewRequest(e, s)
      PROVE  /\ CallbackInv'
             /\ \A x \in States : owner[x] # NoExt =>
                   (owner'[x] = owner[x] \/ req'[owner[x]] # x)
  BY <1>1, <1>6 DEF NewRequest
<1>7. ASSUME NEW e \in Exts, NEW s \in Challenges, ShareChallenge(e, s)
      PROVE  /\ CallbackInv'
             /\ \A x \in States : owner[x] # NoExt =>
                   (owner'[x] = owner[x] \/ req'[owner[x]] # x)
  <2>1. s \in States /\ minted' = minted \cup {s}
    BY <1>7 DEF ShareChallenge, States
  <2> QED
    BY <1>1, <1>7, <2>1 DEF ShareChallenge
<1>8. ASSUME NEW s \in States, Lapse(s)
      PROVE  /\ CallbackInv'
             /\ \A x \in States : owner[x] # NoExt =>
                   (owner'[x] = owner[x] \/ req'[owner[x]] # x)
  BY <1>0, <1>4, <1>8 DEF Lapse, TypeOK
<1>9. ASSUME NEW s \in States, Reject(s) \/ Consume(s)
      PROVE  /\ CallbackInv'
             /\ \A x \in States : owner[x] # NoExt =>
                   (owner'[x] = owner[x] \/ req'[owner[x]] # x)
  BY <1>3, <1>9 DEF Reject, Consume
<1>10. ASSUME NEW h \in Hosts, ClearLapsed(h)
       PROVE  /\ CallbackInv'
              /\ \A x \in States : owner[x] # NoExt =>
                    (owner'[x] = owner[x] \/ req'[owner[x]] # x)
  <2>1. checked[h] \in Exts /\ checked' \in [Hosts -> Exts \cup {NoExt}]
    BY <1>0, <1>10 DEF ClearLapsed, TypeOK
  <2> QED
    BY <1>2, <1>10, <2>1 DEF ClearLapsed
<1>11. ASSUME NEW h \in Hosts, NEW e \in Exts, FindLapsed(h, e)
       PROVE  /\ CallbackInv'
              /\ \A x \in States : owner[x] # NoExt =>
                    (owner'[x] = owner[x] \/ req'[owner[x]] # x)
  BY <1>0, <1>4, <1>11 DEF FindLapsed, TypeOK
<1>12. CASE UNCHANGED vars
  BY <1>0, <1>4, <1>12 DEF vars, TypeOK
<1> QED
  BY <1>5, <1>6, <1>7, <1>8, <1>9, <1>10, <1>11, <1>12 DEF Next

\* The inductive invariant holds in every reachable state.
THEOREM CallbackInvHolds == Spec => []CallbackInv
BY CallbackInvInit, CallbackInvStep, PTL DEF Spec

\* ResolvesLive: an unexpired state resolves to an extension that waits for it
\* if there is one.
THEOREM ResolvesLiveHolds == Spec => []ResolvesLive
<1>1. CallbackInv => ResolvesLive
  BY DEF CallbackInv
<1> QED
  BY <1>1, CallbackInvHolds, PTL

\* AcceptedOnce: a callback state is accepted at most once per registration.
THEOREM AcceptedOnceHolds == Spec => []AcceptedOnce
<1>1. CallbackInv => AcceptedOnce
  BY DEF CallbackInv, AcceptedOnce, Accepts
<1> QED
  BY <1>1, CallbackInvHolds, PTL

\* OwnerStays: no registration takes a callback away from its extension.
THEOREM OwnerStaysHolds == Spec => OwnerStays
<1>1. CallbackInv /\ [Next]_vars =>
        [\A s \in States : owner[s] # NoExt =>
            (owner'[s] = owner[s] \/ req'[owner[s]] # s)]_vars
  BY CallbackInvStep
<1> QED
  BY <1>1, CallbackInvHolds, PTL DEF Spec, OwnerStays

-----------------------------------------------------------------------------
(* The installed extension.  At each step of the call that holds mutationMu*)
(* the disk and the entry are as CallSafe says; the other calls may take   *)
(* the entry away, and no more.                                            *)
Objects == [version : Versions, enabled : BOOLEAN]
Settings == [enabled : BOOLEAN \cup {None}, user : BOOLEAN]
FlagKinds == {"start", "storeEnabled", "storeDisabled"}
UpgradeKinds == {"validate", "backup", "swap", "unload", "restore", "replace", "drop"}
Locals ==
    {k \in [pc : {"idle"} \cup FlagKinds \cup Store!Kinds, version : Versions \cup {None},
            object : Nat \cup {None}, was : BOOLEAN] : k.pc \in FlagKinds => k.object # None}

StoreTyped ==
    /\ dir \in Versions \cup {None} /\ backups \subseteq Versions
    /\ objects \in Seq(Objects)
    /\ loaded \in DOMAIN objects \cup {None}
    /\ mutator \in Threads \cup {None}
    /\ settings \in Settings /\ saved \in Settings
    /\ call \in [Threads -> Locals]
    /\ owned \in Versions \cup {None}

\* The thread that holds mutationMu is the one that installs, upgrades or removes.
OneMutator == \A t \in Threads : call[t].pc \in Store!Kinds <=> mutator = t

DiskSafe ==
    /\ dir # None => owned = dir
    /\ dir = None => owned = None \/ owned \in backups
    /\ mutator = None /\ loaded # None => dir = objects[loaded].version

\* What the disk and the entry are at each step of a call that holds mutationMu.
CallSafe(k) ==
    LET old == objects[k.object].version IN
    /\ k.pc \in {"extract", "activate", "insert", "replace", "restore", "source", "data"} =>
         loaded = None
    /\ k.pc \in {"extract", "activate", "insert"} \cup UpgradeKinds => k.version \in Versions
    /\ k.pc \in {"activate", "insert"} \cup UpgradeKinds => k.object \in DOMAIN objects
    /\ k.pc \in {"activate", "insert"} => old = k.version
    /\ k.pc \in {"validate", "backup", "swap", "unload"} => loaded \in {None, k.object}
    /\ k.pc \in {"insert", "unload", "replace", "drop"} => dir = k.version
    /\ k.pc \in {"validate", "backup"} => dir = old
    /\ k.pc \in {"swap", "restore"} => owned = old
    /\ k.pc = "swap" => dir = None
    /\ k.pc \in {"swap", "unload"} => old \in backups
    /\ k.pc = "drop" => loaded = None \/ objects[loaded].version = k.version

CallsSafe == \A t \in Threads : CallSafe(call[t])

StoreIInv == StoreTyped /\ OneMutator /\ DiskSafe /\ CallsSafe

\* The objects of the process keep their version, and more are made.
Grown ==
    /\ objects' \in Seq(Objects)
    /\ DOMAIN objects \subseteq DOMAIN objects'
    /\ \A o \in DOMAIN objects : objects'[o].version = objects[o].version

LEMMA SetFlagGrows ==
  ASSUME StoreTyped, NEW o \in DOMAIN objects, NEW b \in BOOLEAN, Store!SetFlag(o, b)
  PROVE  /\ Grown
         /\ DOMAIN objects' = DOMAIN objects
         /\ objects'[o].enabled = b
         /\ \A p \in DOMAIN objects : p # o => objects'[p] = objects[p]
<1>1. objects \in Seq(Objects) /\ objects' = [objects EXCEPT ![o].enabled = b]
  BY DEF StoreTyped, Store!SetFlag
<1>2. objects[o] \in Objects
  BY <1>1
<1> DEFINE new == [objects[o] EXCEPT !.enabled = b]
<1>3. new \in Objects /\ new.version = objects[o].version /\ new.enabled = b
  BY <1>2 DEF Objects
<1>4. objects' = [objects EXCEPT ![o] = new]
  BY <1>1
<1> HIDE DEF new
<1>5. objects' \in Seq(Objects) /\ DOMAIN objects' = DOMAIN objects /\ objects'[o] = new
      /\ \A p \in DOMAIN objects : p # o => objects'[p] = objects[p]
  BY <1>1, <1>3, <1>4
<1> QED
  BY <1>3, <1>5 DEF Grown

LEMMA MakeObjectGrows ==
  ASSUME StoreTyped, NEW t \in Threads, NEW b \in BOOLEAN, call[t].version \in Versions,
         Store!MakeObject(t, b)
  PROVE  /\ Grown
         /\ Len(objects) + 1 \in DOMAIN objects'
         /\ objects'[Len(objects) + 1] = [version |-> call[t].version, enabled |-> b]
         /\ \A p \in DOMAIN objects : objects'[p] = objects[p]
<1> DEFINE new == [version |-> call[t].version, enabled |-> b]
<1>1. objects \in Seq(Objects) /\ objects' = Append(objects, new)
  BY DEF StoreTyped, Store!MakeObject
<1>2. new \in Objects
  BY DEF Objects
<1> HIDE DEF new
<1>3. /\ objects' \in Seq(Objects) /\ DOMAIN objects' = 1..(Len(objects) + 1)
      /\ DOMAIN objects = 1..Len(objects)
      /\ Len(objects) \in Nat
      /\ objects'[Len(objects) + 1] = new
      /\ \A p \in DOMAIN objects : objects'[p] = objects[p]
  BY <1>1, <1>2
<1> QED
  BY <1>3 DEF Grown, new

\* The other calls stay where they are.
Alone(t) ==
    /\ call' \in [Threads -> Locals]
    /\ \A s \in Threads \ {t} : call'[s] = call[s]

LEMMA GoingAlone ==
  ASSUME StoreTyped, NEW t \in Threads, NEW pc \in Store!Kinds, Store!Goes(t, pc)
  PROVE  /\ Alone(t) /\ call'[t].pc = pc
         /\ call'[t].version = call[t].version /\ call'[t].object = call[t].object
         /\ call'[t].was = call[t].was
BY DEF StoreTyped, Store!Goes, Alone, Locals, Store!Kinds, FlagKinds

LEMMA ReturningAlone ==
  ASSUME StoreTyped, NEW t \in Threads, Store!Returns(t)
  PROVE  /\ Alone(t) /\ call'[t] = Store!Idle /\ call'[t].pc = "idle" /\ CallSafe(call[t])'
         /\ mutator' = IF mutator = t THEN None ELSE mutator
<1>1. Store!Idle \in Locals /\ Store!Idle.pc = "idle"
  BY DEF Store!Idle, Locals, FlagKinds
<1>2. Alone(t) /\ call'[t] = Store!Idle
  BY <1>1 DEF StoreTyped, Store!Returns, Alone
<1> QED
  BY <1>1, <1>2 DEF Store!Returns, CallSafe, UpgradeKinds

\* A step of the call that holds mutationMu, or begins to hold it.
LEMMA MutatorStep ==
  ASSUME StoreIInv, NEW t \in Threads, mutator \in {None, t}, Alone(t),
         Grown \/ UNCHANGED objects,
         dir' \in Versions \cup {None}, backups' \subseteq Versions,
         owned' \in Versions \cup {None}, loaded' \in DOMAIN objects' \cup {None},
         settings' = settings, saved' \in Settings,
         \/ call'[t].pc \in Store!Kinds /\ mutator' = t
         \/ call'[t].pc = "idle" /\ mutator' = None,
         CallSafe(call[t])', DiskSafe'
  PROVE  StoreIInv'
<1>1. objects' \in Seq(Objects)
  BY DEF StoreIInv, StoreTyped, Grown
<1>2. StoreTyped'
  BY <1>1 DEF StoreIInv, StoreTyped, Alone
<1>3. \A s \in Threads : s # t => call'[s] = call[s] /\ call[s].pc \notin Store!Kinds
  BY StoreAssumption DEF StoreIInv, StoreTyped, OneMutator, Alone
<1>4. OneMutator'
  BY <1>3, StoreAssumption DEF StoreIInv, OneMutator, Store!Kinds
<1>5. CallsSafe'
  <2> SUFFICES ASSUME NEW s \in Threads, s # t
               PROVE  CallSafe(call[s])'
    BY DEF CallsSafe
  <2> QED
    BY <1>3 DEF CallSafe, Store!Kinds, UpgradeKinds
<1> QED
  BY <1>2, <1>4, <1>5 DEF StoreIInv

\* A step of a call that does not.
LEMMA FreeStep ==
  ASSUME StoreIInv, UNCHANGED <<dir, backups, mutator, owned>>,
         (Grown /\ DOMAIN objects' = DOMAIN objects) \/ UNCHANGED objects,
         loaded' \in {loaded, None}, settings' \in Settings, saved' \in Settings,
         \/ UNCHANGED call
         \/ \E t \in Threads, k \in Locals :
              call[t].pc \notin Store!Kinds /\ k.pc \notin Store!Kinds
              /\ call' = [call EXCEPT ![t] = k]
  PROVE  StoreIInv'
<1>1. objects' \in Seq(Objects) /\ DOMAIN objects' = DOMAIN objects
      /\ \A o \in DOMAIN objects : objects'[o].version = objects[o].version
  BY DEF StoreIInv, StoreTyped, Grown
<1>2. StoreTyped'
  BY <1>1 DEF StoreIInv, StoreTyped
<1>3. \A s \in Threads : call'[s] = call[s]
      \/ (call[s].pc \notin Store!Kinds /\ call'[s].pc \notin Store!Kinds)
  BY DEF StoreIInv, StoreTyped
<1>4. OneMutator'
  BY <1>3 DEF StoreIInv, OneMutator
<1>5. DiskSafe'
  BY <1>1 DEF StoreIInv, StoreTyped, DiskSafe
<1>6. ASSUME NEW k \in Locals, CallSafe(k)
      PROVE  CallSafe(k)'
  <2>1. k.object \in DOMAIN objects => objects'[k.object].version = objects[k.object].version
    BY <1>1
  <2>2. loaded' # None => loaded' = loaded /\ objects'[loaded].version = objects[loaded].version
    BY <1>1 DEF StoreIInv, StoreTyped
  <2> QED
    BY <1>1, <1>6, <2>1, <2>2 DEF CallSafe, UpgradeKinds
<1>7. CallsSafe'
  <2> SUFFICES ASSUME NEW s \in Threads
               PROVE  CallSafe(call[s])'
    BY DEF CallsSafe
  <2>1. CASE call'[s].pc \notin Store!Kinds
    BY <2>1 DEF CallSafe, Store!Kinds, UpgradeKinds
  <2>2. CASE call'[s] = call[s]
    <3>1. call[s] \in Locals /\ CallSafe(call[s])
      BY DEF StoreIInv, StoreTyped, CallsSafe
    <3> QED
      BY <1>6, <2>2, <3>1 DEF CallSafe
  <2> QED
    BY <1>3, <2>1, <2>2
<1> QED
  BY <1>2, <1>4, <1>5, <1>7 DEF StoreIInv

\* An object that the process had keeps its version.
LEMMA KeptObject ==
  ASSUME StoreTyped, Grown, NEW o \in DOMAIN objects
  PROVE  o \in DOMAIN objects' /\ objects'[o].version = objects[o].version
BY DEF Grown

\* The step of an installation.
LEMMA InstallKeeps ==
  ASSUME StoreIInv, NEW t \in Threads,
         (\E v \in Versions : Store!InstallPackage(t, v)) \/ Store!Extract(t)
         \/ Store!Activate(t) \/ Store!Insert(t)
  PROVE  StoreIInv'
<1>1. StoreTyped /\ call[t] \in Locals /\ CallSafe(call[t])
  BY DEF StoreIInv, StoreTyped, CallsSafe
<1>2. ASSUME NEW v \in Versions, Store!InstallPackage(t, v)
      PROVE  StoreIInv'
  <2>1. mutator = None /\ mutator' = t /\ loaded = None
        /\ UNCHANGED <<dir, backups, saved, loaded, objects, settings, owned>>
    BY <1>2 DEF Store!InstallPackage, Store!disk
  <2>2. Alone(t) /\ call'[t].pc = "extract" /\ call'[t].version = v
    BY <1>1, <1>2 DEF Store!InstallPackage, Alone, StoreTyped, Store!Idle, Locals, FlagKinds,
       Store!Kinds
  <2>3. CallSafe(call[t])' /\ DiskSafe'
    BY <2>1, <2>2, StoreAssumption DEF CallSafe, UpgradeKinds, StoreIInv, DiskSafe
  <2> QED
    BY <2>1, <2>2, <2>3, MutatorStep DEF StoreIInv, StoreTyped, Store!Kinds
<1>3. CASE Store!Extract(t)
  <2>1. call[t].pc = "extract" /\ mutator = t /\ loaded = None /\ call[t].version \in Versions
        /\ UNCHANGED <<dir, backups, saved, loaded, settings, owned>>
    BY <1>1, <1>3 DEF Store!Extract, StoreIInv, OneMutator, Store!Kinds, CallSafe, Store!disk
  <2>2. CASE /\ Store!MakeObject(t, FALSE) /\ mutator' = mutator
             /\ call' = [call EXCEPT ![t].pc = "activate", ![t].object = Len(objects) + 1]
    <3>1. Len(objects) + 1 \in Nat
      BY DEF StoreIInv, StoreTyped
    <3>2. /\ Alone(t) /\ call'[t].pc = "activate" /\ call'[t].object = Len(objects) + 1
          /\ call'[t].version = call[t].version
      BY <1>1, <2>2, <3>1 DEF Alone, StoreTyped, Locals, FlagKinds, Store!Kinds
    <3>3. /\ Grown /\ call'[t].object \in DOMAIN objects'
          /\ objects'[call'[t].object].version = call[t].version
      <4>1. /\ Grown /\ Len(objects) + 1 \in DOMAIN objects'
            /\ objects'[Len(objects) + 1] = [version |-> call[t].version, enabled |-> FALSE]
        BY <1>1, <2>1, <2>2, MakeObjectGrows
      <4> QED
        BY <3>2, <4>1
    <3>4. CallSafe(call[t])' /\ DiskSafe'
      BY <2>1, <2>2, <3>2, <3>3 DEF CallSafe, UpgradeKinds, StoreIInv, DiskSafe
    <3> QED
      BY <2>1, <2>2, <3>2, <3>3, <3>4, MutatorStep DEF StoreIInv, StoreTyped, Store!Kinds
  <2>3. CASE Store!Returns(t) /\ UNCHANGED objects
    <3>1. DiskSafe'
      BY <2>1, <2>3 DEF StoreIInv, DiskSafe
    <3> QED
      BY <1>1, <2>1, <2>3, <3>1, ReturningAlone, MutatorStep DEF StoreIInv, StoreTyped
  <2> QED
    BY <1>3, <2>2, <2>3 DEF Store!Extract
<1>4. CASE Store!Activate(t)
  <2>1. /\ call[t].pc = "activate" /\ mutator = t /\ loaded = None
        /\ call[t].version \in Versions /\ call[t].object \in DOMAIN objects
        /\ objects[call[t].object].version = call[t].version
        /\ UNCHANGED <<backups, saved, loaded, objects, settings>>
    BY <1>1, <1>4 DEF Store!Activate, StoreIInv, OneMutator, Store!Kinds, CallSafe, UpgradeKinds
  <2>2. CASE dir' = call[t].version /\ owned' = dir' /\ Store!Goes(t, "insert")
             /\ mutator' = mutator
    <3>1. /\ Alone(t) /\ call'[t].pc = "insert" /\ call'[t].object = call[t].object
          /\ call'[t].version = call[t].version
      BY <1>1, <2>2, GoingAlone DEF Store!Kinds
    <3>2. CallSafe(call[t])' /\ DiskSafe'
      BY <2>1, <2>2, <3>1, StoreAssumption DEF CallSafe, UpgradeKinds, StoreIInv, DiskSafe
    <3> QED
      BY <2>1, <2>2, <3>1, <3>2, MutatorStep DEF StoreIInv, StoreTyped, Store!Kinds
  <2>3. CASE Store!Returns(t) /\ UNCHANGED <<dir, owned>>
    <3>1. DiskSafe'
      BY <2>1, <2>3 DEF StoreIInv, DiskSafe
    <3> QED
      BY <1>1, <2>1, <2>3, <3>1, ReturningAlone, MutatorStep DEF StoreIInv, StoreTyped
  <2> QED
    BY <1>4, <2>2, <2>3 DEF Store!Activate
<1>5. CASE Store!Insert(t)
  <2>1. /\ mutator = t /\ call[t].object \in DOMAIN objects
        /\ objects[call[t].object].version = dir
        /\ loaded' = call[t].object /\ Store!Returns(t)
        /\ UNCHANGED <<dir, backups, saved, objects, settings, owned>>
    BY <1>1, <1>5 DEF Store!Insert, StoreIInv, OneMutator, Store!Kinds, CallSafe, UpgradeKinds,
       Store!disk
  <2>2. DiskSafe'
    BY <2>1 DEF StoreIInv, DiskSafe
  <2> QED
    BY <1>1, <2>1, <2>2, ReturningAlone, MutatorStep DEF StoreIInv, StoreTyped
<1> QED
  BY <1>2, <1>3, <1>4, <1>5

\* The step of an upgrade.
LEMMA UpgradeKeeps ==
  ASSUME StoreIInv, NEW t \in Threads,
         \/ \E v \in Versions : Store!UpgradePackage(t, v)
         \/ Store!Validate(t) \/ Store!Backup(t) \/ Store!Swap(t) \/ Store!UnloadOld(t)
            \/ Store!Restore(t)
         \/ Store!Replace(t) \/ Store!DropBackup(t)
  PROVE  StoreIInv'
<1> DEFINE o == call[t].object
<1>1. StoreTyped /\ call[t] \in Locals /\ CallSafe(call[t])
  BY DEF StoreIInv, StoreTyped, CallsSafe
<1>2. ASSUME NEW v \in Versions, Store!UpgradePackage(t, v)
      PROVE  StoreIInv'
  <2>1. mutator = None /\ mutator' = t /\ loaded # None /\ loaded \in DOMAIN objects
        /\ loaded \in Nat /\ dir = objects[loaded].version
        /\ UNCHANGED <<dir, backups, saved, loaded, objects, settings, owned>>
    BY <1>1, <1>2 DEF Store!UpgradePackage, Store!disk, StoreIInv, DiskSafe, StoreTyped
  <2>2. objects[loaded] \in Objects
    BY <1>1, <2>1 DEF StoreTyped
  <2>3. Alone(t) /\ call'[t].pc = "validate" /\ call'[t].version = v /\ call'[t].object = loaded
    BY <1>1, <1>2, <2>1, <2>2 DEF Store!UpgradePackage, Alone, StoreTyped, Locals, Store!Kinds,
       Objects
  <2>4. CallSafe(call[t])' /\ DiskSafe'
    BY <2>1, <2>3, StoreAssumption DEF CallSafe, UpgradeKinds, StoreIInv, DiskSafe
  <2> QED
    BY <2>1, <2>3, <2>4, MutatorStep DEF StoreIInv, StoreTyped, Store!Kinds
<1>3. ASSUME call[t].pc \in UpgradeKinds
      PROVE  /\ mutator = t /\ call[t].version \in Versions /\ o \in DOMAIN objects
             /\ objects[o].version \in Versions
  <2>1. mutator = t /\ call[t].version \in Versions /\ o \in DOMAIN objects
    BY <1>1, <1>3 DEF StoreIInv, OneMutator, CallSafe, UpgradeKinds, Store!Kinds
  <2>2. objects[o] \in Objects
    BY <1>1, <2>1 DEF StoreTyped
  <2> QED
    BY <2>1, <2>2 DEF Objects
<1>4. CASE Store!Validate(t)
  <2>1. /\ call[t].pc = "validate" /\ mutator = t /\ call[t].version \in Versions
        /\ o \in DOMAIN objects /\ objects[o].version = dir /\ loaded \in {None, o}
        /\ UNCHANGED <<dir, backups, saved, loaded, objects, settings, owned>>
    BY <1>1, <1>3, <1>4 DEF Store!Validate, CallSafe, UpgradeKinds, Store!disk
  <2>2. DiskSafe'
    BY <2>1 DEF StoreIInv, DiskSafe
  <2>3. CASE Store!Goes(t, "backup") /\ mutator' = mutator
    <3>1. Alone(t) /\ call'[t].pc = "backup" /\ call'[t].object = o
          /\ call'[t].version = call[t].version
      BY <1>1, <2>3, GoingAlone DEF Store!Kinds
    <3>2. CallSafe(call[t])'
      BY <2>1, <3>1 DEF CallSafe, UpgradeKinds
    <3> QED
      BY <2>1, <2>2, <2>3, <3>1, <3>2, MutatorStep DEF StoreIInv, StoreTyped, Store!Kinds
  <2>4. CASE Store!Returns(t)
    BY <1>1, <2>1, <2>2, <2>4, ReturningAlone, MutatorStep DEF StoreIInv, StoreTyped
  <2> QED
    BY <1>4, <2>3, <2>4 DEF Store!Validate
<1>5. CASE Store!Backup(t)
  <2>1. /\ call[t].pc = "backup" /\ mutator = t /\ call[t].version \in Versions
        /\ o \in DOMAIN objects /\ objects[o].version = dir /\ loaded \in {None, o}
        /\ dir \in Versions /\ dir # None /\ owned = dir
        /\ UNCHANGED <<saved, loaded, objects, settings, owned>>
    BY <1>1, <1>3, <1>5, StoreAssumption DEF Store!Backup, CallSafe, UpgradeKinds, StoreIInv,
       DiskSafe
  <2>2. CASE backups' = backups \cup {dir} /\ dir' = None /\ Store!Goes(t, "swap")
             /\ mutator' = mutator
    <3>1. Alone(t) /\ call'[t].pc = "swap" /\ call'[t].object = o
          /\ call'[t].version = call[t].version
      BY <1>1, <2>2, GoingAlone DEF Store!Kinds
    <3>2. CallSafe(call[t])' /\ DiskSafe'
      BY <2>1, <2>2, <3>1, StoreAssumption DEF CallSafe, UpgradeKinds, DiskSafe
    <3> QED
      BY <1>1, <2>1, <2>2, <3>1, <3>2, MutatorStep DEF StoreTyped, Store!Kinds
  <2>3. CASE Store!Returns(t) /\ UNCHANGED <<dir, backups>>
    <3>1. DiskSafe'
      BY <2>1, <2>3 DEF StoreIInv, DiskSafe
    <3> QED
      BY <1>1, <2>1, <2>3, <3>1, ReturningAlone, MutatorStep DEF StoreIInv, StoreTyped
  <2> QED
    BY <1>5, <2>2, <2>3 DEF Store!Backup
<1>6. CASE Store!Swap(t)
  <2>1. /\ call[t].pc = "swap" /\ mutator = t /\ call[t].version \in Versions
        /\ o \in DOMAIN objects /\ objects[o].version = owned /\ loaded \in {None, o}
        /\ dir = None /\ owned \in Versions /\ owned \in backups
        /\ UNCHANGED <<saved, loaded, objects, settings>>
    BY <1>1, <1>3, <1>6 DEF Store!Swap, CallSafe, UpgradeKinds
  <2>2. CASE dir' = call[t].version /\ owned' = dir' /\ Store!Goes(t, "unload")
             /\ UNCHANGED <<backups, mutator>>
    <3>1. Alone(t) /\ call'[t].pc = "unload" /\ call'[t].object = o
          /\ call'[t].version = call[t].version
      BY <1>1, <2>2, GoingAlone DEF Store!Kinds
    <3>2. CallSafe(call[t])' /\ DiskSafe'
      BY <2>1, <2>2, <3>1, StoreAssumption DEF CallSafe, UpgradeKinds, DiskSafe
    <3> QED
      BY <1>1, <2>1, <2>2, <3>1, <3>2, MutatorStep DEF StoreTyped, Store!Kinds
  <2>3. CASE dir' = Store!OldVersion(t) /\ backups' = backups \ {dir'} /\ Store!Returns(t)
             /\ owned' = owned
    <3>1. DiskSafe'
      BY <2>1, <2>3, StoreAssumption DEF DiskSafe, Store!OldVersion
    <3> QED
      BY <1>1, <2>1, <2>3, <3>1, ReturningAlone, MutatorStep DEF StoreTyped, Store!OldVersion
  <2> QED
    BY <1>6, <2>2, <2>3 DEF Store!Swap
<1>7. CASE Store!UnloadOld(t)
  <2>1. /\ call[t].pc = "unload" /\ mutator = t /\ call[t].version \in Versions
        /\ o \in DOMAIN objects /\ objects[o].version \in backups /\ loaded \in {None, o}
        /\ dir = call[t].version /\ Store!SetFlag(o, FALSE)
        /\ UNCHANGED <<backups, saved, mutator, settings>>
    BY <1>1, <1>3, <1>7 DEF Store!UnloadOld, CallSafe, UpgradeKinds
  <2>2. /\ Grown /\ DOMAIN objects' = DOMAIN objects
        /\ objects'[o].version = objects[o].version
    BY <1>1, <2>1, SetFlagGrows DEF Grown
  <2>3. CASE loaded' = None /\ Store!Goes(t, "replace") /\ UNCHANGED <<dir, owned>>
    <3>1. Alone(t) /\ call'[t].pc = "replace" /\ call'[t].object = o
          /\ call'[t].version = call[t].version
      BY <1>1, <2>3, GoingAlone DEF Store!Kinds
    <3>2. CallSafe(call[t])' /\ DiskSafe'
      BY <2>1, <2>2, <2>3, <3>1, StoreAssumption DEF CallSafe, UpgradeKinds, DiskSafe, StoreIInv
    <3> QED
      BY <1>1, <2>1, <2>2, <2>3, <3>1, <3>2, MutatorStep DEF StoreTyped, Store!Kinds
  <2>4. CASE loaded = None /\ dir' = None /\ owned' = Store!OldVersion(t)
             /\ Store!Goes(t, "restore")
             /\ loaded' = loaded
    <3>1. Alone(t) /\ call'[t].pc = "restore" /\ call'[t].object = o
          /\ call'[t].version = call[t].version
      BY <1>1, <2>4, GoingAlone DEF Store!Kinds
    <3>2. CallSafe(call[t])' /\ DiskSafe'
      BY <2>1, <2>2, <2>4, <3>1, StoreAssumption DEF CallSafe, UpgradeKinds, DiskSafe,
         Store!OldVersion
    <3> QED
      BY <1>1, <2>1, <2>2, <2>4, <3>1, <3>2, MutatorStep DEF StoreTyped, Store!Kinds,
         Store!OldVersion
  <2> QED
    BY <1>7, <2>3, <2>4 DEF Store!UnloadOld
<1>8. CASE Store!Restore(t)
  <2>1. /\ call[t].pc = "restore" /\ mutator = t /\ o \in DOMAIN objects
        /\ objects[o].version = owned /\ owned \in Versions /\ loaded = None
        /\ dir' = owned /\ backups' = backups \ {dir'} /\ Store!SetFlag(o, call[t].was)
           /\ Store!Returns(t)
        /\ UNCHANGED <<saved, loaded, settings, owned>>
    BY <1>1, <1>3, <1>8 DEF Store!Restore, CallSafe, UpgradeKinds, Store!OldVersion
  <2>2. Grown /\ DOMAIN objects' = DOMAIN objects
    BY <1>1, <2>1, SetFlagGrows DEF Locals
  <2>3. DiskSafe'
    BY <2>1, StoreAssumption DEF DiskSafe
  <2> QED
    BY <1>1, <2>1, <2>2, <2>3, ReturningAlone, MutatorStep DEF StoreTyped
<1>9. CASE Store!Replace(t)
  <2>1. /\ call[t].pc = "replace" /\ mutator = t /\ call[t].version \in Versions
        /\ o \in DOMAIN objects /\ dir = call[t].version
        /\ Store!MakeObject(t, call[t].was) /\ loaded' = Len(objects) + 1
           /\ Store!Goes(t, "drop")
        /\ UNCHANGED <<dir, backups, saved, mutator, settings, owned>>
    BY <1>1, <1>3, <1>9 DEF Store!Replace, CallSafe, UpgradeKinds, Store!disk
  <2>2. /\ Grown /\ Len(objects) + 1 \in DOMAIN objects'
        /\ objects'[Len(objects) + 1] = [version |-> call[t].version, enabled |-> call[t].was]
    BY <1>1, <2>1, MakeObjectGrows DEF Locals
  <2>3. loaded' \in DOMAIN objects' /\ objects'[loaded'].version = call[t].version
        /\ o \in DOMAIN objects'
    BY <2>1, <2>2 DEF Grown
  <2>4. Alone(t) /\ call'[t].pc = "drop" /\ call'[t].object = o
        /\ call'[t].version = call[t].version
    BY <1>1, <2>1, GoingAlone DEF Store!Kinds
  <2>5. CallSafe(call[t])' /\ DiskSafe'
    BY <2>1, <2>3, <2>4, StoreAssumption DEF CallSafe, UpgradeKinds, DiskSafe, StoreIInv
  <2> QED
    BY <1>1, <2>1, <2>2, <2>3, <2>4, <2>5, MutatorStep DEF StoreTyped, Store!Kinds
<1>10. CASE Store!DropBackup(t)
  <2>1. /\ call[t].pc = "drop" /\ mutator = t /\ call[t].version \in Versions
        /\ dir = call[t].version /\ (loaded = None \/ objects[loaded].version = dir)
        /\ backups' \subseteq backups /\ Store!Returns(t)
        /\ UNCHANGED <<dir, saved, loaded, objects, settings, owned>>
    BY <1>1, <1>3, <1>10 DEF Store!DropBackup, CallSafe, UpgradeKinds
  <2>2. DiskSafe'
    BY <1>1, <1>3, <2>1, <1>10, StoreAssumption DEF DiskSafe, StoreIInv, Store!DropBackup,
       CallSafe, UpgradeKinds
  <2> QED
    BY <1>1, <2>1, <2>2, ReturningAlone, MutatorStep DEF StoreTyped
<1> QED
  BY <1>2, <1>4, <1>5, <1>6, <1>7, <1>8, <1>9, <1>10

\* The step of a removal.
LEMMA RemoveKeeps ==
  ASSUME StoreIInv, NEW t \in Threads,
         Store!Remove(t) \/ Store!RemoveSource(t) \/ Store!RemoveData(t)
  PROVE  StoreIInv'
<1>1. StoreTyped /\ call[t] \in Locals /\ CallSafe(call[t]) /\ Store!NoSettings \in Settings
  BY DEF StoreIInv, StoreTyped, CallsSafe, Store!NoSettings, Settings
<1>2. CASE Store!Remove(t)
  <2>1. /\ loaded \in DOMAIN objects /\ Store!SetFlag(loaded, FALSE) /\ loaded' = None
           /\ mutator = None
        /\ mutator' = t /\ Store!Goes(t, "source")
        /\ UNCHANGED <<dir, backups, saved, settings, owned>>
    BY <1>1, <1>2 DEF Store!Remove, StoreTyped, Store!disk
  <2>2. Grown /\ DOMAIN objects' = DOMAIN objects
    BY <1>1, <2>1, SetFlagGrows
  <2>3. Alone(t) /\ call'[t].pc = "source"
    BY <1>1, <2>1, GoingAlone DEF Store!Kinds
  <2>4. CallSafe(call[t])' /\ DiskSafe'
    BY <2>1, <2>3 DEF CallSafe, UpgradeKinds, StoreIInv, DiskSafe
  <2> QED
    BY <1>1, <2>1, <2>2, <2>3, <2>4, MutatorStep DEF StoreTyped, Store!Kinds
<1>3. CASE Store!RemoveSource(t)
  <2>1. /\ mutator = t /\ loaded = None /\ Store!Goes(t, "data")
        /\ UNCHANGED <<backups, saved, loaded, objects, mutator, settings>>
        /\ (dir' = None /\ owned' = None) \/ UNCHANGED <<dir, owned>>
    BY <1>1, <1>3 DEF Store!RemoveSource, StoreIInv, OneMutator, CallSafe, Store!Kinds
  <2>2. Alone(t) /\ call'[t].pc = "data"
    BY <1>1, <2>1, GoingAlone DEF Store!Kinds
  <2>3. CallSafe(call[t])' /\ DiskSafe'
    BY <2>1, <2>2 DEF CallSafe, UpgradeKinds, StoreIInv, DiskSafe
  <2> QED
    BY <1>1, <2>1, <2>2, <2>3, MutatorStep DEF StoreTyped, Store!Kinds
<1>4. CASE Store!RemoveData(t)
  <2>1. /\ mutator = t /\ loaded = None /\ Store!Returns(t) /\ saved' = Store!NoSettings
        /\ UNCHANGED <<dir, backups, loaded, objects, settings, owned>>
    BY <1>1, <1>4 DEF Store!RemoveData, StoreIInv, OneMutator, CallSafe, Store!Kinds
  <2>2. DiskSafe'
    BY <2>1 DEF StoreIInv, DiskSafe
  <2> QED
    BY <1>1, <2>1, <2>2, ReturningAlone, MutatorStep DEF StoreTyped
<1> QED
  BY <1>2, <1>3, <1>4

\* The steps that do not hold mutationMu: unloading, enabling, the settings.
LEMMA StoreOtherKeeps ==
  ASSUME StoreIInv, NEW t \in Threads,
         \/ Store!Unload(t) \/ Store!Start(t) \/ Store!StoreEnabled(t) \/ Store!SetSettings(t)
         \/ \E b \in BOOLEAN : Store!SetEnabled(t, b)
  PROVE  StoreIInv'
<1>1. StoreTyped /\ call[t] \in Locals
  BY DEF StoreIInv, StoreTyped
<1>2. CASE Store!Unload(t)
  <2>1. loaded \in DOMAIN objects /\ Store!SetFlag(loaded, FALSE)
        /\ loaded' = None /\ UNCHANGED <<dir, backups, saved, mutator, settings, call, owned>>
    BY <1>1, <1>2 DEF Store!Unload, StoreTyped, Store!disk
  <2> QED
    BY <1>1, <2>1, SetFlagGrows, FreeStep DEF StoreTyped
<1>3. ASSUME NEW b \in BOOLEAN, Store!SetEnabled(t, b)
      PROVE  StoreIInv'
  <2>1. loaded \in DOMAIN objects /\ Store!SetFlag(loaded, b) /\ call[t].pc = "idle"
        /\ UNCHANGED <<dir, backups, saved, loaded, mutator, settings, owned>>
    BY <1>1, <1>3 DEF Store!SetEnabled, Store!Begin, StoreTyped, Store!disk
  <2>2. \E k \in Locals : k.pc \notin Store!Kinds /\ call' = [call EXCEPT ![t] = k]
    <3> DEFINE k == [Store!Idle EXCEPT !.object = loaded,
                                 !.pc = IF b THEN "start" ELSE "storeDisabled"]
    <3>1. loaded \in Nat /\ loaded # None
      BY <1>1, <2>1, StoreAssumption DEF StoreTyped
    <3>2. k \in Locals /\ k.pc \notin Store!Kinds
      BY <3>1 DEF Store!Idle, Locals, FlagKinds, Store!Kinds
    <3>3. call' = [call EXCEPT ![t] = k]
      BY <1>3 DEF Store!SetEnabled
    <3> QED
      BY <3>2, <3>3
  <2>3. call[t].pc \notin Store!Kinds
    BY <2>1 DEF Store!Kinds
  <2> QED
    BY <1>1, <2>1, <2>2, <2>3, SetFlagGrows, FreeStep DEF StoreTyped
<1>4. \A pc \in FlagKinds :
        call[t].pc \in FlagKinds
        /\ Store!Goes(t, pc) => \E k \in Locals : k.pc \notin Store!Kinds
           /\ call' = [call EXCEPT ![t] = k]
  <2> SUFFICES ASSUME NEW pc \in FlagKinds, call[t].pc \in FlagKinds, Store!Goes(t, pc)
               PROVE  \E k \in Locals : k.pc \notin Store!Kinds
                      /\ call' = [call EXCEPT ![t] = k]
    OBVIOUS
  <2>1. [call[t] EXCEPT !.pc = pc] \in Locals
        /\ [call[t] EXCEPT !.pc = pc].pc \notin Store!Kinds
    BY <1>1 DEF Locals, FlagKinds, Store!Kinds
  <2>2. call' = [call EXCEPT ![t] = [call[t] EXCEPT !.pc = pc]]
    BY <1>1 DEF Store!Goes, StoreTyped
  <2> QED
    BY <2>1, <2>2
<1>5. /\ Store!Idle \in Locals /\ Store!Idle.pc \notin Store!Kinds
      /\ call[t].pc \in FlagKinds => call[t].pc \notin Store!Kinds /\ mutator # t
      /\ Store!Returns(t) /\ mutator # t => call' = [call EXCEPT ![t] = Store!Idle]
         /\ mutator' = mutator
  BY DEF Store!Idle, Locals, FlagKinds, Store!Kinds, StoreIInv, OneMutator, Store!Returns
<1>6. CASE Store!Start(t)
  <2> DEFINE o == call[t].object
  <2>1. call[t].pc = "start" /\ call[t].pc \in FlagKinds
        /\ UNCHANGED <<dir, backups, saved, loaded, settings, owned>>
    BY <1>6 DEF Store!Start, FlagKinds, Store!disk
  <2>2. CASE Store!Returns(t) /\ UNCHANGED objects
    BY <1>1, <1>5, <2>1, <2>2, FreeStep DEF StoreTyped
  <2>3. CASE Store!Goes(t, "storeEnabled") /\ UNCHANGED <<mutator, objects>>
    BY <1>1, <1>4, <1>5, <2>1, <2>3, FreeStep DEF StoreTyped, FlagKinds
  <2>4. CASE Store!SetFlag(o, FALSE) /\ Store!Goes(t, "storeDisabled") /\ UNCHANGED mutator
             /\ loaded = o
    <3>1. o \in DOMAIN objects
      BY <1>1, <2>1, <2>4 DEF StoreTyped, Locals
    <3>2. Grown /\ DOMAIN objects' = DOMAIN objects
      BY <1>1, <2>4, <3>1, SetFlagGrows
    <3> QED
      BY <1>1, <1>4, <1>5, <2>1, <2>4, <3>2, FreeStep DEF StoreTyped, FlagKinds
  <2> QED
    BY <1>6, <2>2, <2>3, <2>4 DEF Store!Start
<1>7. CASE Store!StoreEnabled(t)
  <2>1. call[t].pc \in FlagKinds /\ Store!Returns(t)
        /\ UNCHANGED <<dir, backups, loaded, objects, owned>>
    BY <1>7 DEF Store!StoreEnabled, FlagKinds
  <2>2. settings' \in Settings /\ saved' \in Settings
    BY <1>1, <1>7 DEF Store!StoreEnabled, Store!Store, StoreTyped, Settings
  <2> QED
    BY <1>5, <2>1, <2>2, FreeStep
<1>8. CASE Store!SetSettings(t)
  BY <1>1, <1>8, FreeStep DEF Store!SetSettings, Store!Store, StoreTyped, Settings
<1> QED
  BY <1>2, <1>3, <1>6, <1>7, <1>8

LEMMA StoreRestartKeeps ==
  ASSUME StoreIInv, Store!Restart
  PROVE  StoreIInv'
<1>1. Store!Idle \in Locals /\ Store!Idle.pc = "idle" /\ "idle" \notin Store!Kinds
  BY DEF Store!Idle, Locals, FlagKinds, Store!Kinds
<1>2. /\ UNCHANGED <<dir, backups, saved, owned>> /\ settings' = saved /\ mutator' = None
      /\ call' = [t \in Threads |-> Store!Idle]
  BY DEF Store!Restart, Store!disk
<1>3. /\ objects' \in Seq(Objects) /\ loaded' \in DOMAIN objects' \cup {None}
      /\ loaded' # None => dir = objects'[loaded'].version
  <2>1. CASE dir = None
    BY <2>1 DEF Store!Restart
  <2>2. CASE dir # None
    <3> DEFINE new == [version |-> dir, enabled |-> saved.enabled = TRUE /\ dir \notin Broken]
    <3>1. new \in Objects /\ new.version = dir
      BY <2>2 DEF StoreIInv, StoreTyped, Objects
    <3>2. objects' = <<new>> /\ loaded' = 1
      BY <2>2 DEF Store!Restart
    <3> HIDE DEF new
    <3> QED
      BY <3>1, <3>2
  <2> QED
    BY <2>1, <2>2
<1>4. StoreTyped'
  BY <1>1, <1>2, <1>3 DEF StoreIInv, StoreTyped
<1>5. OneMutator' /\ DiskSafe'
  BY <1>1, <1>2, <1>3, StoreAssumption DEF StoreIInv, OneMutator, DiskSafe
<1>6. CallsSafe'
  BY <1>1, <1>2 DEF CallsSafe, CallSafe, UpgradeKinds
<1> QED
  BY <1>4, <1>5, <1>6 DEF StoreIInv

LEMMA StoreIInvInit == Store!Init => StoreIInv
<1> SUFFICES ASSUME Store!Init PROVE StoreIInv
  OBVIOUS
<1>1. Store!Idle \in Locals /\ Store!Idle.pc = "idle" /\ "idle" \notin Store!Kinds
      /\ Store!NoSettings \in Settings
  BY DEF Store!Idle, Locals, FlagKinds, Store!Kinds, Store!NoSettings, Settings
<1>2. StoreTyped /\ OneMutator /\ DiskSafe
  BY <1>1, StoreAssumption DEF Store!Init, StoreTyped, OneMutator, DiskSafe
<1>3. CallsSafe
  BY <1>1 DEF Store!Init, CallsSafe, CallSafe, UpgradeKinds
<1> QED
  BY <1>2, <1>3 DEF StoreIInv

LEMMA StoreIInvInductive ==
  ASSUME StoreIInv, [Store!Next]_(Store!vars)
  PROVE  StoreIInv'
<1>1. CASE UNCHANGED Store!vars
  BY <1>1 DEF Store!vars, Store!disk, StoreIInv, StoreTyped, OneMutator, DiskSafe, CallsSafe,
     CallSafe
<1>2. CASE Store!Next
  BY <1>2, InstallKeeps, UpgradeKeeps, RemoveKeeps, StoreOtherKeeps,
     StoreRestartKeeps DEF Store!Next
<1> QED
  BY <1>1, <1>2

-----------------------------------------------------------------------------
\* One call at a time is on the enabled flag.
OneFlag == \A s, t \in Threads : Store!Flagging(s) /\ Store!Flagging(t) => s = t

\* What the flag is at the steps of that call.
FlagSafe(k) ==
    /\ k.pc \in FlagKinds => k.object \in DOMAIN objects /\ loaded \in {None, k.object}
    /\ k.pc = "storeDisabled" => ~objects[k.object].enabled
    /\ k.pc \in UpgradeKinds => (k.was => settings.enabled = TRUE)
    /\ k.pc \in {"activate", "insert"} => ~objects[k.object].enabled

FlagsSafe == \A t \in Threads : FlagSafe(call[t])

\* An entry that is enabled is stored so, unless it is being started.
Stored ==
    loaded # None /\ objects[loaded].enabled
      /\ (\A t \in Threads : call[t].pc \notin {"start", "storeEnabled"})
    => settings.enabled = TRUE

FlagInv == OneFlag /\ FlagsSafe /\ Stored

\* A step of the call that is on the flag, or comes to be.
LEMMA FlagStep ==
  ASSUME StoreIInv, FlagInv, NEW t \in Threads, Alone(t),
         \A s \in Threads \ {t} : ~Store!Flagging(s), FlagSafe(call[t])', Stored'
  PROVE  FlagInv'
<1>1. \A s \in Threads : s # t => call'[s] = call[s] /\ ~Store!Flagging(s)'
  BY DEF Alone, Store!Flagging
<1>2. OneFlag'
  BY <1>1 DEF OneFlag
<1>3. FlagsSafe'
  <2> SUFFICES ASSUME NEW s \in Threads, s # t
               PROVE  FlagSafe(call[s])'
    BY DEF FlagsSafe
  <2> QED
    BY <1>1 DEF FlagSafe, Store!Flagging, Store!Kinds, FlagKinds, UpgradeKinds
<1> QED
  BY <1>2, <1>3 DEF FlagInv

\* A step that takes the entry away, or leaves it alone.
LEMMA QuietStep ==
  ASSUME StoreIInv, FlagInv, NEW t \in Threads, Alone(t), settings' = settings,
         ~Store!Flagging(t), ~Store!Flagging(t)',
         \/ UNCHANGED <<loaded, objects>>
         \/ /\ loaded' = None /\ DOMAIN objects' = DOMAIN objects
            /\ \A o \in DOMAIN objects : objects'[o].enabled => objects[o].enabled
  PROVE  FlagInv'
<1>1. \A s \in Threads : s # t => call'[s] = call[s]
  BY DEF Alone
<1>2. \A s \in Threads : Store!Flagging(s)' => Store!Flagging(s) /\ call'[s] = call[s]
  BY <1>1 DEF Store!Flagging
<1>3. OneFlag'
  BY <1>2 DEF OneFlag, FlagInv
<1>4. FlagsSafe'
  <2> SUFFICES ASSUME NEW s \in Threads
               PROVE  FlagSafe(call[s])'
    BY DEF FlagsSafe
  <2>1. CASE ~Store!Flagging(s)'
    BY <2>1 DEF FlagSafe, Store!Flagging, Store!Kinds, FlagKinds, UpgradeKinds
  <2>2. CASE call'[s] = call[s]
    <3>1. FlagSafe(call[s]) /\ CallSafe(call[s])
      BY DEF FlagInv, FlagsSafe, StoreIInv, CallsSafe
    <3> QED
      BY <2>2, <3>1 DEF FlagSafe, FlagKinds, CallSafe, UpgradeKinds
  <2> QED
    BY <1>2, <2>1, <2>2
<1>5. Stored'
  <2>1. CASE loaded' = None
    BY <2>1 DEF Stored
  <2>2. CASE UNCHANGED <<loaded, objects>>
    <3>1. call[t].pc \notin {"start", "storeEnabled"}
      BY DEF Store!Flagging
    <3> QED
      BY <1>1, <2>2, <3>1 DEF Stored, FlagInv
  <2> QED
    BY <2>1, <2>2
<1> QED
  BY <1>3, <1>4, <1>5 DEF FlagInv

\* A call that holds mutationMu to install or upgrade is the one on the flag.
LEMMA OnFlag ==
  ASSUME FlagInv, NEW t \in Threads, Store!Flagging(t)
  PROVE  \A s \in Threads \ {t} : ~Store!Flagging(s)
BY DEF FlagInv, OneFlag

LEMMA FlagInstall ==
  ASSUME ~Overlapping, StoreIInv, FlagInv, NEW t \in Threads,
         (\E v \in Versions : Store!InstallPackage(t, v)) \/ Store!Extract(t)
         \/ Store!Activate(t) \/ Store!Insert(t)
  PROVE  FlagInv'
<1>1. StoreTyped /\ call[t] \in Locals /\ CallSafe(call[t]) /\ FlagSafe(call[t])
  BY DEF StoreIInv, StoreTyped, CallsSafe, FlagInv, FlagsSafe
<1>2. Store!Returns(t) => Alone(t) /\ FlagSafe(call[t])'
  BY <1>1, ReturningAlone DEF FlagSafe, FlagKinds, UpgradeKinds
<1>3. ASSUME NEW v \in Versions, Store!InstallPackage(t, v)
      PROVE  FlagInv'
  <2>1. (\A s \in Threads : ~Store!Flagging(s)) /\ loaded' = None
    BY <1>3 DEF Store!InstallPackage, Store!FlagFree
  <2>2. Alone(t) /\ call'[t].pc = "extract"
    BY <1>1, <1>3 DEF Store!InstallPackage, Alone, StoreTyped, Store!Idle, Locals, FlagKinds,
       Store!Kinds
  <2> QED
    BY <2>1, <2>2, FlagStep DEF FlagSafe, FlagKinds, UpgradeKinds, Stored
<1>4. CASE Store!Extract(t)
  <2>1. call[t].pc = "extract" /\ Store!Flagging(t) /\ loaded' = None
        /\ call[t].version \in Versions
    BY <1>1, <1>4 DEF Store!Extract, CallSafe, Store!Flagging, Store!Kinds
  <2>2. CASE /\ Store!MakeObject(t, FALSE)
             /\ call' = [call EXCEPT ![t].pc = "activate", ![t].object = Len(objects) + 1]
    <3>1. Len(objects) + 1 \in Nat
      BY <1>1 DEF StoreTyped
    <3>2. Alone(t) /\ call'[t].pc = "activate" /\ call'[t].object = Len(objects) + 1
      BY <1>1, <2>2, <3>1 DEF Alone, StoreTyped, Locals, FlagKinds, Store!Kinds
    <3>3. objects'[Len(objects) + 1] = [version |-> call[t].version, enabled |-> FALSE]
      BY <1>1, <2>1, <2>2, MakeObjectGrows
    <3>4. FlagSafe(call[t])'
      BY <3>2, <3>3 DEF FlagSafe, FlagKinds, UpgradeKinds
    <3> QED
      BY <2>1, <3>2, <3>4, FlagStep, OnFlag DEF Stored
  <2> QED
    BY <1>2, <1>4, <2>1, <2>2, FlagStep, OnFlag DEF Store!Extract, Stored
<1>5. CASE Store!Activate(t)
  <2>1. call[t].pc = "activate" /\ Store!Flagging(t) /\ loaded' = None /\ objects' = objects
    BY <1>1, <1>5 DEF Store!Activate, CallSafe, Store!Flagging, Store!Kinds
  <2>2. CASE Store!Goes(t, "insert")
    <3>1. Alone(t) /\ call'[t].pc = "insert" /\ call'[t].object = call[t].object
      BY <1>1, <2>2, GoingAlone DEF Store!Kinds
    <3>2. FlagSafe(call[t])'
      BY <1>1, <2>1, <3>1 DEF FlagSafe, FlagKinds, UpgradeKinds
    <3> QED
      BY <2>1, <3>1, <3>2, FlagStep, OnFlag DEF Stored
  <2> QED
    BY <1>2, <1>5, <2>1, <2>2, FlagStep, OnFlag DEF Store!Activate, Stored
<1>6. CASE Store!Insert(t)
  <2>1. call[t].pc = "insert" /\ Store!Flagging(t) /\ Store!Returns(t)
        /\ loaded' = call[t].object
        /\ objects' = objects
    BY <1>6 DEF Store!Insert, Store!Flagging, Store!Kinds
  <2>2. Stored'
    BY <1>1, <2>1 DEF Stored, FlagSafe
  <2> QED
    BY <1>2, <2>1, <2>2, FlagStep, OnFlag
<1> QED
  BY <1>3, <1>4, <1>5, <1>6

LEMMA FlagUpgrade ==
  ASSUME ~Overlapping, StoreIInv, FlagInv, NEW t \in Threads,
         \/ \E v \in Versions : Store!UpgradePackage(t, v)
         \/ Store!Validate(t) \/ Store!Backup(t) \/ Store!Swap(t) \/ Store!UnloadOld(t)
            \/ Store!Restore(t)
         \/ Store!Replace(t) \/ Store!DropBackup(t)
  PROVE  FlagInv'
<1> DEFINE o == call[t].object
<1>1. StoreTyped /\ call[t] \in Locals /\ CallSafe(call[t]) /\ FlagSafe(call[t])
  BY DEF StoreIInv, StoreTyped, CallsSafe, FlagInv, FlagsSafe
<1>2. Store!Returns(t) => Alone(t) /\ FlagSafe(call[t])' /\ call'[t].pc = "idle"
  BY <1>1, ReturningAlone DEF FlagSafe, FlagKinds, UpgradeKinds
<1>3. ASSUME NEW v \in Versions, Store!UpgradePackage(t, v)
      PROVE  FlagInv'
  <2>1. (\A s \in Threads : ~Store!Flagging(s)) /\ UNCHANGED <<loaded, objects, settings>>
        /\ loaded # None /\ loaded \in DOMAIN objects /\ loaded \in Nat
    BY <1>1, <1>3 DEF Store!UpgradePackage, Store!FlagFree, StoreTyped
  <2>2. objects[loaded] \in Objects /\ (objects[loaded].enabled => settings.enabled = TRUE)
    BY <1>1, <2>1 DEF StoreTyped, FlagInv, Stored, Store!Flagging
  <2>3. Alone(t) /\ call'[t].pc = "validate" /\ call'[t].was = objects[loaded].enabled
    BY <1>1, <1>3, <2>1, <2>2 DEF Store!UpgradePackage, Alone, StoreTyped, Locals, FlagKinds,
       Store!Kinds, Objects
  <2>4. FlagSafe(call[t])' /\ Stored'
    BY <2>1, <2>2, <2>3 DEF FlagSafe, FlagKinds, UpgradeKinds, Stored
  <2> QED
    BY <2>1, <2>3, <2>4, FlagStep
<1>4. ASSUME call[t].pc \in UpgradeKinds
      PROVE  /\ Store!Flagging(t) /\ (\A s \in Threads \ {t} : ~Store!Flagging(s))
             /\ call[t].version \in Versions /\ o \in DOMAIN objects
             /\ call[t].was => settings.enabled = TRUE
             /\ loaded # None /\ objects[loaded].enabled => settings.enabled = TRUE
  <2>1. Store!Flagging(t) /\ \A s \in Threads \ {t} : ~Store!Flagging(s)
    BY <1>4, OnFlag DEF Store!Flagging, Store!Kinds, UpgradeKinds
  <2>2. \A s \in Threads : call[s].pc \notin {"start", "storeEnabled"}
    BY <1>4, <2>1 DEF Store!Flagging, UpgradeKinds
  <2> QED
    BY <1>1, <1>4, <2>1, <2>2 DEF CallSafe, FlagSafe, UpgradeKinds, FlagInv, Stored
<1>5. ASSUME NEW pc \in Store!Kinds, Store!Goes(t, pc), UNCHANGED settings,
             call[t].pc \in UpgradeKinds,
             pc \in UpgradeKinds,
             loaded' # None =>
               \/ loaded # None /\ objects'[loaded'].enabled = objects[loaded].enabled
               \/ objects'[loaded'].enabled = call[t].was
      PROVE  FlagInv'
  <2>1. Alone(t) /\ call'[t].pc = pc /\ call'[t].was = call[t].was
    BY <1>1, <1>5, GoingAlone
  <2>2. FlagSafe(call[t])' /\ Stored'
    BY <1>1, <1>4, <1>5, <2>1 DEF FlagSafe, FlagKinds, UpgradeKinds, Stored
  <2> QED
    BY <1>4, <1>5, <2>1, <2>2, FlagStep
<1>6. ASSUME Store!Returns(t), UNCHANGED <<loaded, settings>>, call[t].pc \in UpgradeKinds,
             loaded # None => objects'[loaded].enabled = objects[loaded].enabled
      PROVE  FlagInv'
  <2>1. Stored'
    BY <1>4, <1>6 DEF Stored
  <2> QED
    BY <1>2, <1>4, <1>6, <2>1, FlagStep
<1>7. CASE Store!Validate(t)
  BY <1>5, <1>6, <1>7 DEF Store!Validate, UpgradeKinds, Store!Kinds
<1>8. CASE Store!Backup(t)
  BY <1>5, <1>6, <1>8 DEF Store!Backup, UpgradeKinds, Store!Kinds
<1>9. CASE Store!Swap(t)
  BY <1>5, <1>6, <1>9 DEF Store!Swap, UpgradeKinds, Store!Kinds
<1>10. CASE Store!UnloadOld(t)
  BY <1>5, <1>10 DEF Store!UnloadOld, UpgradeKinds, Store!Kinds
<1>11. CASE Store!Restore(t)
  <2>1. loaded = None
    BY <1>1, <1>11 DEF Store!Restore, CallSafe
  <2> QED
    BY <1>6, <1>11, <2>1 DEF Store!Restore, UpgradeKinds
<1>12. CASE Store!Replace(t)
  <2>1. call[t].pc = "replace" /\ call[t].version \in Versions
    BY <1>4, <1>12 DEF Store!Replace, UpgradeKinds
  <2>2. loaded' = Len(objects) + 1 /\ Store!MakeObject(t, call[t].was)
        /\ Store!Goes(t, "drop") /\ UNCHANGED settings
    BY <1>12 DEF Store!Replace
  <2>3. objects'[Len(objects) + 1] = [version |-> call[t].version, enabled |-> call[t].was]
    BY <1>1, <2>1, <2>2, MakeObjectGrows DEF Locals
  <2> QED
    BY <1>5, <2>1, <2>2, <2>3 DEF UpgradeKinds, Store!Kinds
<1>13. CASE Store!DropBackup(t)
  BY <1>6, <1>13 DEF Store!DropBackup, UpgradeKinds
<1> QED
  BY <1>3, <1>7, <1>8, <1>9, <1>10, <1>11, <1>12, <1>13

\* The steps that hold no lock of the manager, and those of a removal.
LEMMA FlagOther ==
  ASSUME ~Overlapping, StoreIInv, FlagInv, NEW t \in Threads,
         \/ Store!Remove(t) \/ Store!RemoveSource(t) \/ Store!RemoveData(t)
         \/ Store!Unload(t) \/ Store!Start(t) \/ Store!StoreEnabled(t) \/ Store!SetSettings(t)
         \/ \E b \in BOOLEAN : Store!SetEnabled(t, b)
  PROVE  FlagInv'
<1> DEFINE o == call[t].object
<1>1. StoreTyped /\ call[t] \in Locals /\ FlagSafe(call[t]) /\ FALSE \in BOOLEAN
  BY DEF StoreIInv, StoreTyped, FlagInv, FlagsSafe
<1>2. UNCHANGED call => Alone(t)
  BY <1>1 DEF Alone, StoreTyped
<1>3. loaded \in DOMAIN objects /\ Store!SetFlag(loaded, FALSE) =>
        /\ DOMAIN objects' = DOMAIN objects
        /\ \A p \in DOMAIN objects : objects'[p].enabled => objects[p].enabled
  BY <1>1, SetFlagGrows
<1>4. CASE Store!Remove(t)
  <2>1. /\ call[t].pc = "idle" /\ Store!SetFlag(loaded, FALSE) /\ loaded' = None
           /\ Store!Goes(t, "source")
        /\ settings' = settings /\ loaded \in DOMAIN objects
    BY <1>1, <1>4 DEF Store!Remove, Store!Begin, StoreTyped
  <2>2. Alone(t) /\ call'[t].pc = "source"
    BY <1>1, <2>1, GoingAlone DEF Store!Kinds
  <2> QED
    BY <1>3, <2>1, <2>2, QuietStep DEF Store!Flagging, Store!Kinds
<1>5. CASE Store!RemoveSource(t)
  <2>1. /\ call[t].pc = "source" /\ Store!Goes(t, "data")
           /\ UNCHANGED <<settings, loaded, objects>>
    BY <1>5 DEF Store!RemoveSource
  <2>2. Alone(t) /\ call'[t].pc = "data"
    BY <1>1, <2>1, GoingAlone DEF Store!Kinds
  <2> QED
    BY <2>1, <2>2, QuietStep DEF Store!Flagging, Store!Kinds
<1>6. CASE Store!RemoveData(t)
  <2>1. /\ call[t].pc = "data" /\ Store!Returns(t) /\ UNCHANGED <<settings, loaded, objects>>
    BY <1>6 DEF Store!RemoveData
  <2> QED
    BY <1>1, <2>1, ReturningAlone, QuietStep DEF Store!Flagging, Store!Kinds
<1>7. CASE Store!Unload(t)
  BY <1>1, <1>2, <1>3, <1>7, QuietStep DEF Store!Unload, Store!Begin, StoreTyped,
     Store!Flagging, Store!Kinds
<1>8. CASE Store!SetSettings(t)
  <2>1. (\A s \in Threads : ~Store!Flagging(s)) /\ UNCHANGED <<call, loaded, objects>>
        /\ settings'.enabled = settings.enabled /\ call[t].pc = "idle"
    BY <1>1, <1>8 DEF Store!SetSettings, Store!Begin, Store!FlagFree, Store!Store, StoreTyped,
       Settings
  <2>2. FlagSafe(call[t])' /\ Stored'
    BY <1>1, <2>1 DEF FlagSafe, FlagKinds, UpgradeKinds, FlagInv, Stored
  <2> QED
    BY <1>2, <2>1, <2>2, FlagStep
<1>9. ASSUME NEW b \in BOOLEAN, Store!SetEnabled(t, b)
      PROVE  FlagInv'
  <2>1. /\ \A s \in Threads : ~Store!Flagging(s)
        /\ loaded \in DOMAIN objects /\ loaded' = loaded /\ loaded # None /\ loaded \in Nat
        /\ settings' = settings /\ Store!SetFlag(loaded, b)
    <3>1. (\A s \in Threads : ~Store!Flagging(s)) /\ loaded # None /\ loaded' = loaded
          /\ settings' = settings /\ Store!SetFlag(loaded, b)
      BY <1>9 DEF Store!SetEnabled, Store!FlagFree
    <3> QED
      BY <1>1, <3>1 DEF StoreTyped
  <2>2. /\ Alone(t) /\ call'[t].object = loaded
        /\ call'[t].pc = IF b THEN "start" ELSE "storeDisabled"
    BY <1>1, <1>9, <2>1 DEF Store!SetEnabled, Alone, StoreTyped, Store!Idle, Locals, FlagKinds,
       Store!Kinds
  <2>3. objects'[loaded].enabled = b /\ DOMAIN objects' = DOMAIN objects
    BY <1>1, <2>1, SetFlagGrows
  <2>4. FlagSafe(call[t])' /\ Stored'
    <3>1. CASE b = TRUE
      BY <2>1, <2>2, <2>3, <3>1 DEF FlagSafe, FlagKinds, UpgradeKinds, Stored
    <3>2. CASE b = FALSE
      BY <2>1, <2>2, <2>3, <3>2 DEF FlagSafe, FlagKinds, UpgradeKinds, Stored
    <3> QED
      BY <3>1, <3>2
  <2> QED
    BY <2>1, <2>2, <2>4, FlagStep
<1>10. CASE Store!Start(t)
  <2>1. /\ call[t].pc = "start" /\ Store!Flagging(t)
           /\ (\A s \in Threads \ {t} : ~Store!Flagging(s))
        /\ UNCHANGED <<loaded, settings>> /\ o \in DOMAIN objects /\ o # None
        /\ loaded \in {None, o}
    BY <1>1, <1>10, OnFlag DEF Store!Start, Store!Flagging, FlagSafe, FlagKinds, Locals
  <2>2. \A s \in Threads \ {t} : call[s].pc \notin {"start", "storeEnabled"}
    BY <2>1 DEF Store!Flagging
  <2>3. CASE Store!Returns(t) /\ UNCHANGED objects /\ (loaded # o \/ ~objects[o].enabled)
    <3>1. Alone(t) /\ FlagSafe(call[t])'
      BY <1>1, <2>3, ReturningAlone DEF FlagSafe, FlagKinds, UpgradeKinds
    <3>2. Stored'
      BY <2>1, <2>3 DEF Stored
    <3> QED
      BY <2>1, <3>1, <3>2, FlagStep
  <2>4. CASE Store!Goes(t, "storeEnabled") /\ UNCHANGED objects
    <3>1. Alone(t) /\ call'[t].pc = "storeEnabled" /\ call'[t].object = o
      BY <1>1, <2>1, <2>4 DEF Store!Goes, Alone, StoreTyped, Locals, FlagKinds, Store!Kinds
    <3>2. FlagSafe(call[t])' /\ Stored'
      BY <1>1, <2>1, <2>4, <3>1 DEF FlagSafe, FlagKinds, UpgradeKinds, Stored
    <3> QED
      BY <2>1, <3>1, <3>2, FlagStep
  <2>5. CASE Store!SetFlag(o, FALSE) /\ Store!Goes(t, "storeDisabled")
    <3>1. Alone(t) /\ call'[t].pc = "storeDisabled" /\ call'[t].object = o
      BY <1>1, <2>1, <2>5 DEF Store!Goes, Alone, StoreTyped, Locals, FlagKinds, Store!Kinds
    <3>2. objects'[o].enabled = FALSE /\ DOMAIN objects' = DOMAIN objects
      BY <1>1, <2>1, <2>5, SetFlagGrows
    <3>3. FlagSafe(call[t])' /\ Stored'
      BY <2>1, <3>1, <3>2 DEF FlagSafe, FlagKinds, UpgradeKinds, Stored
    <3> QED
      BY <2>1, <3>1, <3>3, FlagStep
  <2> QED
    BY <1>10, <2>3, <2>4, <2>5 DEF Store!Start
<1>11. CASE Store!StoreEnabled(t)
  <2>1. /\ Store!Flagging(t) /\ (\A s \in Threads \ {t} : ~Store!Flagging(s))
           /\ Store!Returns(t)
        /\ UNCHANGED <<loaded, objects>>
        /\ settings'.enabled = (call[t].pc = "storeEnabled")
    BY <1>1, <1>11, OnFlag DEF Store!StoreEnabled, Store!Store, Store!Flagging, StoreTyped,
       Settings
  <2>2. Alone(t) /\ FlagSafe(call[t])'
    BY <1>1, <2>1, ReturningAlone DEF FlagSafe, FlagKinds, UpgradeKinds
  <2>3. Stored'
    <3>1. CASE call[t].pc = "storeEnabled"
      BY <2>1, <3>1 DEF Stored
    <3>2. CASE call[t].pc = "storeDisabled"
      BY <1>1, <2>1, <3>2 DEF Stored, FlagSafe, FlagKinds
    <3> QED
      BY <1>11, <3>1, <3>2 DEF Store!StoreEnabled
  <2> QED
    BY <2>1, <2>2, <2>3, FlagStep
<1> QED
  BY <1>4, <1>5, <1>6, <1>7, <1>8, <1>9, <1>10, <1>11

LEMMA FlagRestart ==
  ASSUME StoreIInv, Store!Restart
  PROVE  FlagInv'
<1>1. Store!Idle.pc = "idle" /\ settings' = saved /\ call' = [t \in Threads |-> Store!Idle]
  BY DEF Store!Idle, Store!Restart
<1>2. OneFlag' /\ FlagsSafe'
  BY <1>1 DEF OneFlag, Store!Flagging, Store!Kinds, FlagsSafe, FlagSafe, FlagKinds, UpgradeKinds
<1>3. loaded' # None /\ objects'[loaded'].enabled => saved.enabled = TRUE
  <2>1. CASE dir = None
    BY <2>1 DEF Store!Restart
  <2>2. CASE dir # None
    <3> DEFINE new == [version |-> dir, enabled |-> saved.enabled = TRUE /\ dir \notin Broken]
    <3>1. objects' = <<new>> /\ loaded' = 1
      BY <2>2 DEF Store!Restart
    <3>2. new.enabled = (saved.enabled = TRUE /\ dir \notin Broken)
      OBVIOUS
    <3> HIDE DEF new
    <3>3. objects'[loaded'] = new
      BY <3>1
    <3> QED
      BY <3>2, <3>3
  <2> QED
    BY <2>1, <2>2
<1> QED
  BY <1>1, <1>2, <1>3 DEF FlagInv, Stored

LEMMA FlagInit == Store!Init => FlagInv
<1> SUFFICES ASSUME Store!Init PROVE FlagInv
  OBVIOUS
<1>1. Store!Idle.pc = "idle"
  BY DEF Store!Idle
<1> QED
  BY <1>1 DEF Store!Init, FlagInv, OneFlag, Store!Flagging, Store!Kinds, FlagsSafe, FlagSafe,
     FlagKinds,
     UpgradeKinds, Stored

LEMMA FlagInductive ==
  ASSUME ~Overlapping, StoreIInv, FlagInv, [Store!Next]_(Store!vars)
  PROVE  FlagInv'
<1>1. CASE UNCHANGED Store!vars
  BY <1>1 DEF Store!vars, Store!disk, FlagInv, OneFlag, Store!Flagging, FlagsSafe, FlagSafe,
     Stored
<1>2. CASE Store!Next
  BY <1>2, FlagInstall, FlagUpgrade, FlagOther, FlagRestart DEF Store!Next
<1> QED
  BY <1>1, <1>2

\* VersionSafe: a version that the user has is whole in its directory or in
\* the backup at each step of an upgrade, and so after a crash at any of
\* them; and what an entry runs is what the directory holds, whoever unloads
\* it meanwhile (upgradeExtensionLocked, UnloadExtension, RemoveExtension).
THEOREM VersionSafeHolds == MCSpec => []VersionSafe
<1> DEFINE Inv == which = "store" => StoreIInv
<1>1. MCInit => Inv
  BY StoreIInvInit DEF MCInit
<1>2. Inv /\ [MCNext]_all => Inv'
  BY StoreStep, StoreIInvInductive
<1>3. Inv => VersionSafe
  BY StoreAssumption DEF StoreIInv, DiskSafe, VersionSafe, Store!VersionSafe
<1> QED
  BY <1>1, <1>2, <1>3, PTL DEF MCSpec

\* EnabledIsStored: when no call on the enabled flag runs, and the calls on it
\* have come one after the other, an entry that is enabled is stored so, of
\* whatever upgrades, failed starts, removals and crashes there were
\* (SetExtensionEnabled, upgradeExtensionLocked).
THEOREM EnabledIsStoredHolds ==
  ASSUME ~Overlapping
  PROVE  MCSpec => []EnabledIsStored
<1> DEFINE Inv == which = "store" => StoreIInv /\ FlagInv
<1>1. MCInit => Inv
  BY StoreIInvInit, FlagInit DEF MCInit
<1>2. Inv /\ [MCNext]_all => Inv'
  BY StoreStep, StoreIInvInductive, FlagInductive
<1>3. Inv => EnabledIsStored
  BY DEF FlagInv, Stored, EnabledIsStored, Store!EnabledIsStored
<1> QED
  BY <1>1, <1>2, <1>3, PTL DEF MCSpec

-----------------------------------------------------------------------------
(* The repository.  What a request remembers of the cache, and what it was *)
(* answered, is of its URL.                                                *)
Registries == [url : URLs, revision : Int, fetch : Int]
Snapshots == [url : URLs \cup {None}, cache : Registries, etag : Int \cup {None}]
Flights ==
    [pc : {"begin", "request", "store", "snapshot", "write"}, force : BOOLEAN,
     cached : Registries \cup {None}, etag : Int \cup {None},
     registry : Registries \cup {None}, snapshot : Snapshots \cup {None}]
Packages == [revision : Int, whole : BOOLEAN]
Clients ==
    [pc : {"idle", "waiting", "got", "verify", "rename"}, asked : URLs \cup {None},
     got : Registries \cup {None}, content : Packages \cup {None}]

RepoTyped ==
    /\ url \in URLs \cup {None}
    /\ repoCache \in Registries \cup {None}
    /\ etag \in Int \cup {None}
    /\ repoFile \in Snapshots \cup {None}
    /\ repoFlight \in [URLs -> Flights \cup {None}]
    /\ caller \in [Callers -> Clients]
    /\ revision \in [URLs -> Int]
    /\ fetches \in Int

\* A file that has been or is to be written has a registry of its URL and its
\* validator.
Consistent(snapshot) ==
    snapshot.cache.url = snapshot.url /\ snapshot.etag = snapshot.cache.revision

\* What a request remembers of the cache, and what it was answered, is of its
\* URL; the snapshot it is to write is consistent.
FlightHonest(u) ==
    LET f == repoFlight[u] IN
    f # None =>
      /\ f.cached # None => f.cached.url = u
      /\ f.pc \in {"store", "snapshot", "write"} => f.registry \in Registries
         /\ f.registry.url = u
      /\ f.pc = "write" => f.snapshot \in Snapshots /\ Consistent(f.snapshot)

FlightsHonest == \A u \in URLs : FlightHonest(u)

\* A package that has been downloaded is there to be verified, and one that is
\* about to get its name has been.
ClientVerified(k) ==
    /\ k.pc = "verify" => k.content \in Packages
    /\ k.pc = "rename" => \/ k.got.revision \in Unsigned
                          \/ k.content = [revision |-> k.got.revision, whole |-> TRUE]

Verified == \A c \in Callers : ClientVerified(caller[c])

RepoIInv == RepoTyped /\ FlightsHonest /\ Repo!RegistryHonest /\ Verified
/\ Repo!PackageVerified

\* A request ends with an error or with a registry of its URL.
LEMMA LandKeeps ==
  ASSUME RepoIInv, NEW u \in URLs, NEW registry, Repo!Land(u, registry),
         registry # None => registry \in Registries /\ registry.url = u
  PROVE  /\ repoFlight' \in [URLs -> Flights \cup {None}]
         /\ caller' \in [Callers -> Clients]
         /\ \A v \in URLs : repoFlight'[v] # None => repoFlight'[v] = repoFlight[v]
         /\ \A c \in Callers : caller'[c].pc = "got" => caller'[c].got.url = caller'[c].asked
         /\ Verified'
<1>1. /\ repoFlight' = [repoFlight EXCEPT ![u] = None]
      /\ caller' = [c \in Callers |->
           IF caller[c].pc = "waiting" /\ caller[c].asked = u
           THEN IF registry = None THEN Repo!Idle
                ELSE [caller[c] EXCEPT !.pc = "got", !.got = registry]
           ELSE caller[c]]
  BY DEF Repo!Land
<1>2. ASSUME NEW c \in Callers
      PROVE  /\ caller'[c] \in Clients
             /\ caller'[c].pc = "got" => caller'[c].got.url = caller'[c].asked
             /\ caller'[c].pc \in {"verify", "rename"} => caller'[c] = caller[c]
  <2>1. caller[c] \in Clients
    BY DEF RepoIInv, RepoTyped
  <2>2. CASE caller[c].pc = "waiting" /\ caller[c].asked = u /\ registry = None
    BY <1>1, <2>2 DEF Repo!Idle, Clients
  <2>3. CASE caller[c].pc = "waiting" /\ caller[c].asked = u /\ registry # None
    <3>1. caller'[c] = [caller[c] EXCEPT !.pc = "got", !.got = registry]
      BY <1>1, <2>3
    <3> QED
      BY <2>1, <2>3, <3>1 DEF Clients
  <2>4. CASE ~(caller[c].pc = "waiting" /\ caller[c].asked = u)
    <3>1. caller'[c] = caller[c]
      BY <1>1, <2>4
    <3> QED
      BY <2>1, <3>1 DEF RepoIInv, Repo!RegistryHonest
  <2> QED
    BY <2>2, <2>3, <2>4
<1>3. repoFlight' \in [URLs -> Flights \cup {None}]
      /\ \A v \in URLs : repoFlight'[v] # None => repoFlight'[v] = repoFlight[v]
  BY <1>1 DEF RepoIInv, RepoTyped
<1>4. caller' \in [Callers -> Clients]
  BY <1>1, <1>2
<1>5. Verified'
  BY <1>2 DEF RepoIInv, Verified, ClientVerified
<1> QED
  BY <1>2, <1>3, <1>4, <1>5

\* A request goes on, with the next state of its own.
LEMMA RepoStepKeeps ==
  ASSUME RepoIInv, NEW u \in URLs, NEW g \in Flights, Repo!Step(u, g)
  PROVE  /\ repoFlight' \in [URLs -> Flights \cup {None}]
         /\ repoFlight'[u] = g
         /\ \A v \in URLs : v # u => repoFlight'[v] = repoFlight[v]
         /\ caller' = caller
BY DEF RepoIInv, RepoTyped, Repo!Step

\* The steps of a request under way.
LEMMA RequestKeeps ==
  ASSUME RepoIInv, NEW u \in URLs,
         Repo!Begin(u) \/ Repo!Unanswered(u) \/ Repo!NotModified(u) \/ Repo!Answered(u)
         \/ Repo!StoreAnswer(u)
           \/ Repo!Snapshot(u) \/ Repo!WriteFile(u)
  PROVE  RepoIInv'
<1> DEFINE f == repoFlight[u]
<1>1. f \in Flights /\ f # None /\ package' = package /\ revision' = revision
      /\ fetches' = fetches /\ url' = url
  BY DEF RepoIInv, RepoTyped, Repo!Begin, Repo!Unanswered, Repo!NotModified, Repo!Answered,
     Repo!StoreAnswer, Repo!Snapshot, Repo!WriteFile,
     Repo!memory, Repo!bounds
<1>2. Repo!PackageVerified'
  BY <1>1 DEF RepoIInv, Repo!PackageVerified
<1>3. FlightHonest(u)
  BY DEF RepoIInv, FlightsHonest
<1>4. ASSUME NEW registry, Repo!Land(u, registry), UNCHANGED <<repoCache, etag>>,
             repoFile' = repoFile \/ (repoFile' = f.snapshot /\ f.pc = "write"),
             registry # None => registry \in Registries /\ registry.url = u
      PROVE  RepoIInv'
  <2>1. RepoTyped'
    BY <1>1, <1>3, <1>4, LandKeeps DEF RepoIInv, RepoTyped, FlightHonest
  <2>2. FlightsHonest'
    BY <1>4, LandKeeps DEF RepoIInv, FlightsHonest, FlightHonest, Consistent
  <2>3. Repo!RegistryHonest'
    BY <1>1, <1>3, <1>4, LandKeeps DEF RepoIInv, Repo!RegistryHonest, FlightHonest, Consistent
  <2> QED
    BY <1>2, <1>4, <2>1, <2>2, <2>3, LandKeeps DEF RepoIInv
<1>5. ASSUME NEW g \in Flights, Repo!Step(u, g), UNCHANGED <<repoCache, etag, repoFile>>,
             g.cached # None => g.cached.url = u,
             g.pc \in {"store", "snapshot", "write"} => g.registry \in Registries
             /\ g.registry.url = u,
             g.pc = "write" => g.snapshot \in Snapshots /\ Consistent(g.snapshot)
      PROVE  RepoIInv'
  <2>1. RepoTyped'
    BY <1>1, <1>5, RepoStepKeeps DEF RepoIInv, RepoTyped
  <2>2. FlightsHonest'
    BY <1>5, RepoStepKeeps DEF RepoIInv, FlightsHonest, FlightHonest, Consistent
  <2>3. Repo!RegistryHonest' /\ Verified'
    BY <1>1, <1>5, RepoStepKeeps DEF RepoIInv, Repo!RegistryHonest, Verified
  <2> QED
    BY <1>2, <2>1, <2>2, <2>3 DEF RepoIInv
<1>6. CASE Repo!Begin(u)
  <2>1. CASE url # u /\ Repo!Land(u, None)
    BY <1>4, <1>6, <2>1 DEF Repo!Begin, Repo!memory
  <2>2. CASE url = u /\ repoCache # None /\ Repo!Land(u, repoCache)
    <3>1. repoCache \in Registries /\ repoCache.url = u
      BY <2>2 DEF RepoIInv, RepoTyped, Repo!RegistryHonest
    <3> QED
      BY <1>4, <1>6, <2>2, <3>1 DEF Repo!Begin, Repo!memory
  <2>3. CASE url = u
             /\ Repo!Step(u, [f EXCEPT !.pc = "request", !.cached = repoCache, !.etag = etag])
    <3>1. [f EXCEPT !.pc = "request", !.cached = repoCache, !.etag = etag] \in Flights
      BY <1>1 DEF RepoIInv, RepoTyped, Flights
    <3>2. repoCache # None => repoCache.url = u
      BY <2>3 DEF RepoIInv, Repo!RegistryHonest
    <3> QED
      BY <1>1, <1>5, <1>6, <2>3, <3>1, <3>2 DEF Repo!Begin, Repo!memory, Flights
  <2> QED
    BY <1>6, <2>1, <2>2, <2>3 DEF Repo!Begin
<1>7. CASE Repo!Unanswered(u)
  BY <1>1, <1>3, <1>4, <1>7 DEF Repo!Unanswered, Repo!memory, FlightHonest, Flights
<1>8. CASE Repo!NotModified(u)
  <2>1. [f EXCEPT !.pc = "snapshot", !.registry = f.cached] \in Flights
        /\ f.cached \in Registries
    BY <1>1, <1>8 DEF Repo!NotModified, Flights
  <2> QED
    BY <1>1, <1>3, <1>5, <1>8, <2>1 DEF Repo!NotModified, FlightHonest, Flights
<1>9. CASE Repo!Answered(u)
  <2>1. Repo!Registry(u, revision[u], fetches) \in Registries
        /\ Repo!Registry(u, revision[u], fetches).url = u
    BY DEF RepoIInv, RepoTyped, Repo!Registry, Registries
  <2>2. [f EXCEPT !.pc = "store", !.registry = Repo!Registry(u, revision[u], fetches)] \in Flights
    BY <1>1, <2>1 DEF Flights
  <2> QED
    BY <1>1, <1>3, <1>5, <1>9, <2>1, <2>2 DEF Repo!Answered, Repo!memory, FlightHonest, Flights
<1>10. CASE Repo!StoreAnswer(u)
  <2>1. f.pc = "store" /\ f.registry \in Registries /\ f.registry.url = u
    BY <1>1, <1>3, <1>10 DEF Repo!StoreAnswer, FlightHonest
  <2>2. CASE url # u
    BY <1>4, <1>10, <2>1, <2>2 DEF Repo!StoreAnswer
  <2>3. CASE url = u
    <3> DEFINE g == [f EXCEPT !.pc = "snapshot"]
    <3>1. /\ repoCache' = f.registry /\ etag' = f.registry.revision /\ Repo!Step(u, g)
          /\ repoFile' = repoFile
      BY <1>10, <2>3 DEF Repo!StoreAnswer
    <3>2. /\ g \in Flights /\ g.pc = "snapshot" /\ g.cached = f.cached
          /\ g.registry = f.registry
      BY <1>1 DEF Flights
    <3> HIDE DEF g
    <3>3. RepoTyped'
      BY <1>1, <2>1, <3>1, <3>2, RepoStepKeeps DEF RepoIInv, RepoTyped, Registries
    <3>6. repoFlight'[u] = g /\ \A v \in URLs : v # u => repoFlight'[v] = repoFlight[v]
      BY <3>1, <3>2, RepoStepKeeps
    <3>4. FlightsHonest'
      <4>1. FlightHonest(u)'
        BY <1>1, <1>3, <2>1, <3>2, <3>6 DEF FlightHonest
      <4>2. ASSUME NEW v \in URLs, v # u
            PROVE  FlightHonest(v)'
        BY <3>6, <4>2 DEF RepoIInv, FlightsHonest, FlightHonest, Consistent
      <4> QED
        BY <4>1, <4>2 DEF FlightsHonest
    <3>5. Repo!RegistryHonest' /\ Verified'
      BY <1>1, <2>1, <2>3, <3>1, <3>2, RepoStepKeeps DEF RepoIInv, Repo!RegistryHonest, Verified
    <3> QED
      BY <1>2, <3>3, <3>4, <3>5 DEF RepoIInv
  <2> QED
    BY <2>2, <2>3
<1>11. CASE Repo!Snapshot(u)
  <2>1. f.pc = "snapshot" /\ f.registry \in Registries /\ f.registry.url = u
    BY <1>1, <1>3, <1>11 DEF Repo!Snapshot, FlightHonest
  <2>2. CASE repoCache = None
    BY <1>4, <1>11, <2>1, <2>2 DEF Repo!Snapshot, Repo!memory
  <2>3. CASE repoCache # None
    <3> DEFINE s == [url |-> url, cache |-> repoCache, etag |-> etag]
               g == [f EXCEPT !.pc = "write", !.snapshot = s]
    <3>1. s \in Snapshots /\ Consistent(s)
      BY <2>3 DEF RepoIInv, RepoTyped, Snapshots, Consistent, Repo!RegistryHonest
    <3>2. Repo!Step(u, g) /\ UNCHANGED <<repoCache, etag, repoFile>>
      BY <1>11, <2>3 DEF Repo!Snapshot, Repo!memory
    <3> HIDE DEF s
    <3>3. /\ g \in Flights /\ g.snapshot = s /\ g.cached = f.cached
          /\ g.registry = f.registry
      BY <1>1, <3>1 DEF Flights
    <3> HIDE DEF g
    <3> QED
      BY <1>1, <1>3, <1>5, <2>1, <3>1, <3>2, <3>3 DEF FlightHonest
  <2> QED
    BY <2>2, <2>3
<1>12. CASE Repo!WriteFile(u)
  BY <1>1, <1>3, <1>4, <1>12 DEF Repo!WriteFile, Repo!memory, FlightHonest
<1> QED
  BY <1>6, <1>7, <1>8, <1>9, <1>10, <1>11, <1>12

\* The steps of a caller.
LEMMA CallerKeeps ==
  ASSUME RepoIInv, NEW c \in Callers,
         (\E force \in BOOLEAN : Repo!FetchRegistry(c, force))
           \/ Repo!Return(c) \/ Repo!DownloadPackage(c) \/ Repo!VerifyPackage(c)
              \/ Repo!RenamePackage(c)
  PROVE  RepoIInv'
<1>1. caller[c] \in Clients /\ UNCHANGED <<url, repoCache, etag, repoFile, revision>>
  BY DEF RepoIInv, RepoTyped, Repo!FetchRegistry, Repo!Return, Repo!DownloadPackage,
     Repo!VerifyPackage, Repo!RenamePackage, Repo!memory
<1>2. ASSUME NEW k \in Clients, caller' = [caller EXCEPT ![c] = k],
             repoFlight' = repoFlight, fetches' = fetches,
             k.pc = "got" => k.got.url = k.asked, ClientVerified(k)
      PROVE  RepoTyped' /\ FlightsHonest' /\ Repo!RegistryHonest' /\ Verified'
  <2>1. RepoTyped' /\ FlightsHonest'
    BY <1>1, <1>2 DEF RepoIInv, RepoTyped, FlightsHonest, FlightHonest, Consistent
  <2>2. caller'[c] = k /\ \A d \in Callers : d # c => caller'[d] = caller[d]
    BY <1>2 DEF RepoIInv, RepoTyped
  <2>3. Repo!RegistryHonest' /\ Verified'
    BY <1>1, <1>2, <2>2 DEF RepoIInv, Repo!RegistryHonest, Verified
  <2> QED
    BY <2>1, <2>3
<1>3. ASSUME NEW force \in BOOLEAN, Repo!FetchRegistry(c, force)
      PROVE  RepoIInv'
  <2>1. Repo!PackageVerified'
    BY <1>3 DEF Repo!FetchRegistry, RepoIInv, Repo!PackageVerified
  <2>2. CASE ~force /\ repoCache # None /\ fresh
    <3> DEFINE k == [Repo!Idle EXCEPT !.pc = "got", !.asked = url, !.got = repoCache]
    <3>1. k \in Clients /\ k.got.url = k.asked /\ k.pc = "got" /\ ClientVerified(k)
      BY <2>2 DEF RepoIInv, RepoTyped, Repo!Idle, Clients, Repo!RegistryHonest, ClientVerified
    <3>2. caller' = [caller EXCEPT ![c] = k] /\ repoFlight' = repoFlight /\ fetches' = fetches
      BY <1>3, <2>2 DEF Repo!FetchRegistry
    <3> HIDE DEF k
    <3> QED
      BY <1>2, <2>1, <3>1, <3>2 DEF RepoIInv
  <2>3. CASE ~(~force /\ repoCache # None /\ fresh)
    <3> DEFINE k == [Repo!Idle EXCEPT !.pc = "waiting", !.asked = url]
               g == [pc |-> "begin", force |-> force, cached |-> None, etag |-> None,
                     registry |-> None, snapshot |-> None]
    <3>1. k \in Clients /\ k.pc = "waiting" /\ ClientVerified(k)
      BY DEF RepoIInv, RepoTyped, Repo!Idle, Clients, ClientVerified
    <3>2. g \in Flights /\ g.pc = "begin" /\ g.cached = None
      BY DEF Flights
    <3>3. /\ caller' = [caller EXCEPT ![c] = k]
          /\ \/ repoFlight' = repoFlight /\ fetches' = fetches
             \/ repoFlight' = [repoFlight EXCEPT ![url] = g] /\ fetches' = fetches + 1
      BY <1>3, <2>3 DEF Repo!FetchRegistry
    <3> HIDE DEF k, g
    <3>4. CASE repoFlight' = repoFlight /\ fetches' = fetches
      BY <1>2, <2>1, <3>1, <3>3, <3>4 DEF RepoIInv
    <3>5. CASE repoFlight' = [repoFlight EXCEPT ![url] = g] /\ fetches' = fetches + 1
      <4>1. caller'[c] = k /\ \A d \in Callers : d # c => caller'[d] = caller[d]
        BY <3>3 DEF RepoIInv, RepoTyped
      <4>2. RepoTyped'
        <5>1. repoFlight' \in [URLs -> Flights \cup {None}]
          BY <3>2, <3>5 DEF RepoIInv, RepoTyped
        <5>2. caller' \in [Callers -> Clients] /\ fetches' \in Int
          BY <3>1, <3>3, <3>5 DEF RepoIInv, RepoTyped
        <5> QED
          BY <1>1, <5>1, <5>2 DEF RepoIInv, RepoTyped
      <4>3. \A u \in URLs : repoFlight'[u] = repoFlight[u] \/ repoFlight'[u] = g
        BY <3>5 DEF RepoIInv, RepoTyped
      <4>4. FlightsHonest'
        BY <3>2, <4>3 DEF RepoIInv, FlightsHonest, FlightHonest, Consistent
      <4>5. Repo!RegistryHonest' /\ Verified'
        BY <1>1, <3>1, <4>1 DEF RepoIInv, Repo!RegistryHonest, Verified
      <4> QED
        BY <2>1, <4>2, <4>4, <4>5 DEF RepoIInv
    <3> QED
      BY <3>3, <3>4, <3>5
  <2> QED
    BY <2>2, <2>3
<1>4. CASE Repo!Return(c)
  <2>1. Repo!Idle \in Clients /\ Repo!Idle.pc = "idle" /\ ClientVerified(Repo!Idle)
    BY DEF Repo!Idle, Clients, ClientVerified
  <2>2. caller' = [caller EXCEPT ![c] = Repo!Idle] /\ UNCHANGED <<repoFlight, fetches, package>>
    BY <1>4 DEF Repo!Return, Repo!bounds
  <2> QED
    BY <1>2, <2>1, <2>2 DEF RepoIInv, Repo!PackageVerified
<1>5. CASE Repo!DownloadPackage(c)
  <2>1. PICK r \in 1..MaxRevision, whole \in BOOLEAN :
          caller' = [caller EXCEPT ![c].pc = "verify",
                                   ![c].content = [revision |-> r, whole |-> whole]]
    BY <1>5 DEF Repo!DownloadPackage
  <2> DEFINE k == [caller[c] EXCEPT !.pc = "verify",
                                    !.content = [revision |-> r, whole |-> whole]]
  <2>2. k \in Clients /\ k.pc = "verify" /\ ClientVerified(k)
    <3>1. [revision |-> r, whole |-> whole] \in Packages
      BY DEF Packages
    <3> QED
      BY <1>1, <3>1 DEF Clients, ClientVerified
  <2>3. caller' = [caller EXCEPT ![c] = k]
    BY <2>1 DEF RepoIInv, RepoTyped
  <2>4. UNCHANGED <<repoFlight, fetches, package>>
    BY <1>5 DEF Repo!DownloadPackage, Repo!bounds
  <2> HIDE DEF k
  <2> QED
    BY <1>2, <2>2, <2>3, <2>4 DEF RepoIInv, Repo!PackageVerified
<1>6. CASE Repo!VerifyPackage(c)
  <2>1. UNCHANGED <<repoFlight, fetches>>
    BY <1>6 DEF Repo!VerifyPackage, Repo!bounds
  <2>2. Repo!Idle \in Clients /\ Repo!Idle.pc = "idle" /\ ClientVerified(Repo!Idle)
    BY DEF Repo!Idle, Clients, ClientVerified
  <2>3. CASE caller' = [caller EXCEPT ![c] = Repo!Idle] /\ package' = package
    BY <1>2, <2>1, <2>2, <2>3 DEF RepoIInv, Repo!PackageVerified
  <2>4. CASE /\ caller' = [caller EXCEPT ![c].pc = "rename"] /\ package' = None
             /\ \/ caller[c].got.revision \in Unsigned
                \/ caller[c].content.whole
                   /\ caller[c].content.revision = caller[c].got.revision
             /\ caller[c].pc = "verify"
    <3> DEFINE k == [caller[c] EXCEPT !.pc = "rename"]
    <3>1. k \in Clients /\ k.pc = "rename" /\ k.got = caller[c].got
          /\ k.content = caller[c].content
      BY <1>1 DEF Clients
    <3>2. caller' = [caller EXCEPT ![c] = k]
      BY <2>4 DEF RepoIInv, RepoTyped
    <3> HIDE DEF k
    <3>3. ClientVerified(k)
      <4>1. CASE caller[c].got.revision \in Unsigned
        BY <3>1, <4>1 DEF ClientVerified
      <4>2. CASE caller[c].got.revision \notin Unsigned
        <5>1. caller[c].content \in Packages
          BY <1>1, <2>4, <4>2 DEF RepoIInv, Verified, ClientVerified
        <5> QED
          BY <2>4, <3>1, <4>2, <5>1 DEF Packages, ClientVerified
      <4> QED
        BY <4>1, <4>2
    <3> QED
      BY <1>2, <2>1, <2>4, <3>1, <3>2, <3>3 DEF RepoIInv, Repo!PackageVerified
  <2> QED
    BY <1>6, <2>3, <2>4 DEF Repo!VerifyPackage
<1>7. CASE Repo!RenamePackage(c)
  <2>1. Repo!Idle \in Clients /\ Repo!Idle.pc = "idle" /\ ClientVerified(Repo!Idle)
    BY DEF Repo!Idle, Clients, ClientVerified
  <2>2. caller' = [caller EXCEPT ![c] = Repo!Idle] /\ UNCHANGED <<repoFlight, fetches>>
    BY <1>7 DEF Repo!RenamePackage, Repo!bounds
  <2>3. Repo!PackageVerified'
    BY <1>7 DEF Repo!RenamePackage, RepoIInv, Verified, ClientVerified, Repo!PackageVerified
  <2> QED
    BY <1>2, <2>1, <2>2, <2>3 DEF RepoIInv
<1> QED
  BY <1>3, <1>4, <1>5, <1>6, <1>7

\* The other steps: the user changes the URL or clears the cache, time passes,
\* the server publishes, and the process starts again.
LEMMA RepoOtherKeeps ==
  ASSUME RepoIInv,
         \/ \E u \in URLs \cup {None} : Repo!SetURL(u)
         \/ \E u \in URLs : Repo!Publish(u)
         \/ Repo!ClearCache \/ Repo!Expire \/ Repo!Restart
  PROVE  RepoIInv'
<1> USE DEF RepoIInv, RepoTyped, FlightsHonest, Repo!RegistryHonest, Verified,
Repo!PackageVerified
<1>1. ASSUME NEW u \in URLs \cup {None}, Repo!SetURL(u)
      PROVE  RepoIInv'
  BY <1>1 DEF Repo!SetURL, Repo!Forget, FlightHonest, Consistent, ClientVerified
<1>2. ASSUME NEW u \in URLs, Repo!Publish(u)
      PROVE  RepoIInv'
  BY <1>2 DEF Repo!Publish, Repo!memory, Repo!bounds, FlightHonest, Consistent, ClientVerified
<1>3. CASE Repo!ClearCache
  BY <1>3 DEF Repo!ClearCache, Repo!Forget, FlightHonest, Consistent, ClientVerified
<1>4. CASE Repo!Expire
  BY <1>4 DEF Repo!Expire, Repo!bounds, FlightHonest, Consistent, ClientVerified
<1>5. CASE Repo!Restart
  <2>1. UNCHANGED <<repoFile, package, revision, fetches>>
    BY <1>5 DEF Repo!Restart
  <2>2. /\ \A u \in URLs : repoFlight'[u] = None
        /\ repoFlight' \in [URLs -> Flights \cup {None}]
    BY <1>5 DEF Repo!Restart
  <2>3. /\ caller' = [c \in Callers |-> Repo!Idle] /\ Repo!Idle \in Clients
        /\ Repo!Idle.pc = "idle"
    BY <1>5 DEF Repo!Restart, Repo!Idle, Clients
  <2>4. /\ url' \in URLs \cup {None} /\ repoCache' \in Registries \cup {None}
        /\ etag' \in Int \cup {None}
        /\ repoCache' # None => repoCache'.url = url' /\ etag' = repoCache'.revision
    BY <1>5 DEF Repo!Restart, Snapshots
  <2>5. RepoTyped'
    BY <2>1, <2>2, <2>3, <2>4
  <2>6. FlightsHonest'
    BY <2>2 DEF FlightHonest
  <2>7. Repo!RegistryHonest' /\ Verified' /\ Repo!PackageVerified'
    BY <2>1, <2>3, <2>4 DEF ClientVerified
  <2> QED
    BY <2>5, <2>6, <2>7
<1> QED
  BY <1>1, <1>2, <1>3, <1>4, <1>5

LEMMA RepoIInvInit == Repo!Init => RepoIInv
<1> SUFFICES ASSUME Repo!Init PROVE RepoIInv
  OBVIOUS
<1>1. RepoTyped /\ Repo!Idle.pc = "idle"
  BY DEF Repo!Init, RepoTyped, Repo!Idle, Clients
<1> QED
  BY <1>1 DEF Repo!Init, RepoIInv, FlightsHonest, FlightHonest, Repo!RegistryHonest, Verified,
     ClientVerified,
     Repo!PackageVerified

LEMMA RepoIInvInductive ==
  ASSUME RepoIInv, [Repo!Next]_(Repo!vars)
  PROVE  RepoIInv'
<1>1. CASE UNCHANGED Repo!vars
  BY <1>1 DEF Repo!vars, Repo!memory, Repo!bounds, RepoIInv, RepoTyped, FlightsHonest,
     FlightHonest, Consistent,
     Repo!RegistryHonest, Verified, ClientVerified, Repo!PackageVerified
<1>2. CASE Repo!Next
  BY <1>2, RequestKeeps, CallerKeeps, RepoOtherKeeps DEF Repo!Next
<1> QED
  BY <1>1, <1>2

\* RegistryKept: the registry in memory and the file are of the URL and the
\* revision beside them, and a caller gets the registry of the URL it asked
\* for; a package with a checksum is on the disk only whole and as its entry
\* names it, whatever is set, cleared, answered and restarted meanwhile
\* (fetchRegistry, downloadExtension).
THEOREM RegistryKeptHolds == MCSpec => []RegistryKept
<1> DEFINE Inv == which = "repo" => RepoIInv
<1>1. MCInit => Inv
  BY RepoIInvInit DEF MCInit
<1>2. Inv /\ [MCNext]_all => Inv'
  BY StoreStep, RepoIInvInductive
<1>3. Inv => RegistryKept
  BY DEF RepoIInv, RegistryKept
<1> QED
  BY <1>1, <1>2, <1>3, PTL DEF MCSpec

-----------------------------------------------------------------------------
(* The storage and the credentials of an extension.  A stamp is given once,*)
(* so that a copy that has the stamp of the file is the file; and who has  *)
(* the lock writes what is in the file but for one key.                    *)
Maps == [StorageKeys -> Values \cup {NoValue}]
Files == [map : Maps, stamp : Nat, legacy : BOOLEAN]
LEMMA NoFileApart == NoFile \notin Files /\ NoFile \notin Runtimes
BY StorageAssumption DEF Files, Maps

Copies == [map : Maps, stamp : Nat]
Ops == [pc : {"idle", "lock", "write", "cache"}, key : StorageKeys \cup {NoValue},
        value : Values \cup {NoValue}, snapshot : Maps]

StorageTyped ==
    /\ file \in Files \cup {NoFile}
    /\ cache \in Copies \cup {NoFile}
    /\ lock \in Runtimes \cup {NoFile}
    /\ op \in [Runtimes -> Ops]
    /\ answer \in [Runtimes -> Values \cup {NoValue, NoAnswer, Failed}]
    /\ stamp \in Nat

\* What the scripts see.
Seen == IF file = NoFile THEN Storage!Empty ELSE file.map

\* A stamp is given once, and the copy of a stamp is of its file.
Stamped ==
    /\ file # NoFile => 0 < file.stamp /\ file.stamp <= stamp
    /\ cache # NoFile => cache.stamp <= stamp
    /\ cache # NoFile /\ cache.stamp = 0 => cache.map = Storage!Empty
    /\ Storage!Cached => cache.map = Seen

\* Who has the lock writes what is in the file but for one key, and has then
\* written it.
OpSafe(r) ==
    /\ op[r].pc \in {"write", "cache"} <=> lock = r
    /\ op[r].pc \in {"lock", "write"} => op[r].key \in StorageKeys
    /\ op[r].pc = "write" => op[r].snapshot = [Seen EXCEPT ![op[r].key] = op[r].value]
    /\ op[r].pc = "cache" => file # NoFile /\ op[r].snapshot = file.map

OpsSafe == \A r \in Runtimes : OpSafe(r)

StorageIInv == StorageTyped /\ Stamped /\ OpsSafe

\* Reading the file leaves what the scripts see alone, and the copy current.
LEMMA LoadKeeps ==
  ASSUME StorageIInv, Storage!Load
  PROVE  /\ file' \in Files \cup {NoFile} /\ cache' \in Copies \cup {NoFile} /\ stamp' \in Nat
         /\ Seen' = Seen /\ Storage!Contents = Seen /\ Stamped'
            /\ (file' = NoFile <=> file = NoFile)
<1>1. Storage!Empty \in Maps
  BY DEF Storage!Empty, Maps
<1>2. Storage!Contents = Seen /\ Seen \in Maps /\ Storage!Stamp \in Nat
  BY <1>1 DEF StorageIInv, StorageTyped, Stamped, Storage!Contents, Seen, Storage!Stamp, Files
<1>3. CASE Storage!Cached
  <2>1. UNCHANGED <<file, cache, stamp>>
    BY <1>3 DEF Storage!Load, Storage!shared
  <2> QED
    BY <1>2, <2>1 DEF StorageIInv, StorageTyped, Stamped, Seen, Storage!Cached, Storage!Stamp
<1>4. CASE ~Storage!Cached
  <2>1. cache' = [map |-> Seen, stamp |-> Storage!Stamp] /\ cache' \in Copies
    BY <1>2, <1>4 DEF Storage!Load, Copies
  <2>2. CASE file # NoFile /\ file.legacy
    <3>1. /\ stamp' = stamp + 1 /\ stamp' \in Nat
          /\ file' = [map |-> file.map, stamp |-> stamp', legacy |-> FALSE]
      BY <1>4, <2>2 DEF Storage!Load, StorageIInv, StorageTyped
    <3>2. file' \in Files /\ file' # NoFile /\ file'.map = file.map /\ file'.stamp = stamp'
      <4>1. file.map \in Maps
        BY <2>2 DEF StorageIInv, StorageTyped, Files
      <4>2. file' \in Files
        BY <3>1, <4>1 DEF Files
      <4> QED
        BY <3>1, <4>2, NoFileApart
    <3>3. Seen' = Seen
      BY <2>2, <3>2 DEF Seen
    <3>4. cache'.stamp = file.stamp /\ file.stamp \in Nat /\ stamp \in Nat
      BY <2>1, <2>2 DEF Storage!Stamp, StorageIInv, StorageTyped, Files
    <3>5. Stamped'
      <4>1. 0 < file.stamp /\ file.stamp <= stamp
        BY <2>2 DEF StorageIInv, Stamped
      <4>2. Storage!Stamp' = stamp + 1 /\ ~Storage!Cached'
        BY <3>1, <3>2, <3>4, <4>1 DEF Storage!Stamp, Storage!Cached
      <4> QED
        BY <3>1, <3>2, <3>4, <4>1, <4>2 DEF Stamped
    <3> QED
      BY <1>2, <2>1, <2>2, <3>1, <3>2, <3>3, <3>5
  <2>3. CASE ~(file # NoFile /\ file.legacy)
    <3>1. UNCHANGED <<file, stamp>>
      BY <1>4, <2>3 DEF Storage!Load
    <3>2. Seen' = Seen
      BY <3>1 DEF Seen
    <3>3. cache'.stamp = Storage!Stamp /\ cache'.map = Seen /\ Storage!Stamp <= stamp
      BY <2>1 DEF Storage!Stamp, StorageIInv, StorageTyped, Stamped
    <3>4. Storage!Stamp = 0 => Seen = Storage!Empty
      BY DEF Storage!Stamp, Seen, StorageIInv, Stamped, StorageTyped, Files
    <3>5. Storage!Stamp' = Storage!Stamp
      BY <3>1 DEF Storage!Stamp
    <3>6. Stamped'
      BY <3>1, <3>2, <3>3, <3>4 DEF Stamped, StorageIInv, StorageTyped
    <3> QED
      BY <1>2, <2>1, <3>1, <3>2, <3>6 DEF StorageIInv, StorageTyped
  <2> QED
    BY <2>2, <2>3
<1> QED
  BY <1>3, <1>4

LEMMA FinishKeeps ==
  ASSUME StorageTyped, NEW r \in Runtimes, NEW a \in Values \cup {NoValue, NoAnswer, Failed},
         Storage!Finish(r, a)
  PROVE  /\ op' \in [Runtimes -> Ops]
            /\ answer' \in [Runtimes -> Values \cup {NoValue, NoAnswer, Failed}]
         /\ op'[r] = Storage!Idle /\ Storage!Idle.pc = "idle"
            /\ \A s \in Runtimes : s # r => op'[s] = op[s]
         /\ answer' = [answer EXCEPT ![r] = a]
BY DEF StorageTyped, Storage!Finish, Storage!Idle, Ops, Storage!Empty, Maps

\* A step of the runtime that has the lock, or while nobody has it.
LEMMA HolderKeeps ==
  ASSUME StorageIInv, NEW r \in Runtimes, \A s \in Runtimes : s # r => op'[s] = op[s],
         OpSafe(r)', lock \in {NoFile, r}, lock' \in {NoFile, r}
  PROVE  OpsSafe'
<1> SUFFICES ASSUME NEW s \in Runtimes, s # r
             PROVE  OpSafe(s)'
  BY DEF OpsSafe
<1> QED
  BY NoFileApart DEF StorageIInv, OpsSafe, OpSafe

\* A step of a runtime that leaves the file and the lock alone.
LEMMA StorageOtherKeeps ==
  ASSUME StorageIInv, NEW r \in Runtimes, \A s \in Runtimes : s # r => op'[s] = op[s],
         OpSafe(r)', UNCHANGED <<file, lock>>
  PROVE  OpsSafe'
<1> SUFFICES ASSUME NEW s \in Runtimes, s # r
             PROVE  OpSafe(s)'
  BY DEF OpsSafe
<1>1. op'[s] = op[s] /\ OpSafe(s) /\ Seen' = Seen
  BY DEF StorageIInv, OpsSafe, Seen
<1> QED
  BY <1>1 DEF OpSafe

\* Each step of a runtime is one of the map, or leaves the map alone.
LEMMA GetStep ==
  ASSUME StorageIInv, NEW r \in Runtimes, NEW k \in StorageKeys, Storage!Get(r, k)
  PROVE  StorageIInv' /\ [Storage!Map!Next]_(Storage!Map!vars)
<1>1. /\ lock = NoFile /\ UNCHANGED <<lock, op>>
      /\ \/ Storage!Load /\ answer' = [answer EXCEPT ![r] = Storage!Contents[k]]
         \/ answer' = [answer EXCEPT ![r] = Failed] /\ UNCHANGED <<file, cache, stamp>>
  BY DEF Storage!Get, Storage!shared
<1>2. CASE Storage!Load /\ answer' = [answer EXCEPT ![r] = Storage!Contents[k]]
  <2>1. Seen \in Maps /\ Storage!Contents = Seen
    BY <1>2, LoadKeeps DEF StorageIInv, StorageTyped, Seen, Files, Storage!Empty, Maps
  <2>2. StorageTyped' /\ Stamped'
    BY <1>1, <1>2, <2>1, LoadKeeps DEF StorageIInv, StorageTyped, Maps
  <2>3. OpSafe(r)'
    BY <1>1, <1>2, NoFileApart DEF OpSafe, StorageIInv, OpsSafe
  <2>4. Storage!Map!Get(r, k)
    BY <1>2, LoadKeeps DEF Storage!Map!Get, Storage!Map!Answer, Seen
  <2> QED
    BY <1>1, <2>2, <2>3, <2>4, HolderKeeps DEF StorageIInv, Storage!Map!Next
<1>3. CASE answer' = [answer EXCEPT ![r] = Failed] /\ UNCHANGED <<file, cache, stamp>>
  <2>1. StorageTyped' /\ Stamped'
    BY <1>1, <1>3 DEF StorageIInv, StorageTyped, Stamped, Storage!Cached, Storage!Stamp, Seen
  <2>2. OpsSafe'
    BY <1>1, <1>3 DEF StorageIInv, OpsSafe, OpSafe, Seen
  <2>3. Storage!Map!Fail(r)
    BY <1>3 DEF Storage!Map!Fail, Storage!Map!Answer
  <2> QED
    BY <2>1, <2>2, <2>3 DEF StorageIInv, Storage!Map!Next
<1> QED
  BY <1>1, <1>2, <1>3

LEMMA MutateStep ==
  ASSUME StorageIInv, NEW r \in Runtimes,
         NEW k \in StorageKeys, NEW v \in Values \cup {NoValue},
         Storage!Mutate(r, k, v)
  PROVE  StorageIInv' /\ [Storage!Map!Next]_(Storage!Map!vars)
<1>1. /\ op[r].pc = "idle" /\ UNCHANGED <<file, cache, lock, stamp>>
      /\ \/ Storage!Finish(r, Failed)
         \/ /\ op' = [op EXCEPT ![r] = [Storage!Idle EXCEPT !.pc = "lock", !.key = k, !.value = v]]
            /\ UNCHANGED answer
  BY DEF Storage!Mutate, Storage!shared
<1>2. Stamped' /\ Seen' = Seen
  BY <1>1 DEF StorageIInv, Stamped, Storage!Cached, Storage!Stamp, Seen
<1>3. lock # r
  BY <1>1 DEF StorageIInv, OpsSafe, OpSafe
<1>4. CASE Storage!Finish(r, Failed)
  <2>1. StorageTyped'
    BY <1>1, <1>4, FinishKeeps DEF StorageIInv, StorageTyped
  <2>2. op'[r].pc = "idle"
    BY <1>4, FinishKeeps DEF StorageIInv
  <2>3. OpSafe(r)'
    BY <1>1, <1>3, <2>2 DEF OpSafe
  <2>4. OpsSafe'
    BY <1>1, <1>4, <2>3, FinishKeeps, StorageOtherKeeps DEF StorageIInv
  <2>5. Storage!Map!Fail(r)
    BY <1>2, <1>4 DEF Storage!Map!Fail, Storage!Map!Answer, Storage!Finish, Seen
  <2> QED
    BY <1>2, <2>1, <2>4, <2>5 DEF StorageIInv, Storage!Map!Next
<1>5. CASE /\ op' = [op EXCEPT ![r] = [Storage!Idle EXCEPT !.pc = "lock", !.key = k, !.value = v]]
           /\ UNCHANGED answer
  <2> DEFINE o == [Storage!Idle EXCEPT !.pc = "lock", !.key = k, !.value = v]
  <2>1. o \in Ops /\ o.pc = "lock" /\ o.key = k
    BY DEF Storage!Idle, Ops, Storage!Empty, Maps
  <2>2. op' = [op EXCEPT ![r] = o]
    BY <1>5
  <2> HIDE DEF o
  <2>3. op' \in [Runtimes -> Ops] /\ op'[r] = o /\ \A s \in Runtimes : s # r => op'[s] = op[s]
    BY <2>1, <2>2 DEF StorageIInv, StorageTyped
  <2>4. StorageTyped'
    BY <1>1, <1>5, <2>3 DEF StorageIInv, StorageTyped
  <2>5. OpSafe(r)'
    BY <1>1, <1>3, <2>1, <2>3 DEF OpSafe
  <2>6. OpsSafe'
    BY <1>1, <2>3, <2>5, StorageOtherKeeps
  <2> QED
    BY <1>1, <1>2, <1>5, <2>4, <2>6 DEF StorageIInv, Storage!Map!vars, Seen
<1> QED
  BY <1>1, <1>4, <1>5

LEMMA ReadStep ==
  ASSUME StorageIInv, NEW r \in Runtimes, Storage!Read(r)
  PROVE  StorageIInv' /\ [Storage!Map!Next]_(Storage!Map!vars)
<1>1. op[r].pc = "lock" /\ lock = NoFile /\ op[r].key \in StorageKeys
      /\ op[r] \in Ops /\ r # NoFile
  BY NoFileApart DEF Storage!Read, StorageIInv, OpsSafe, OpSafe, StorageTyped
<1>2. ASSUME NEW a \in {NoValue, Failed}, Storage!Finish(r, a), lock' = lock
      PROVE  OpsSafe' /\ op' \in [Runtimes -> Ops]
             /\ answer' \in [Runtimes -> Values \cup {NoValue, NoAnswer, Failed}]
  <2>1. op'[r].pc = "idle"
    BY <1>2, FinishKeeps DEF StorageIInv
  <2>2. OpSafe(r)'
    BY <1>1, <1>2, <2>1 DEF OpSafe
  <2> QED
    BY <1>1, <1>2, <2>2, FinishKeeps, HolderKeeps DEF StorageIInv
<1>3. CASE Storage!Load /\ Storage!Contents[op[r].key] = NoValue
           /\ Storage!Finish(r, NoValue) /\ lock' = lock
  <2>1. StorageTyped' /\ Stamped' /\ OpsSafe'
    BY <1>2, <1>3, LoadKeeps DEF StorageIInv, StorageTyped
  <2>2. Storage!Map!Get(r, op[r].key)
    BY <1>3, LoadKeeps DEF Storage!Map!Get, Storage!Map!Answer, Storage!Finish, Seen
  <2> QED
    BY <1>1, <2>1, <2>2 DEF StorageIInv, Storage!Map!Next
<1>4. CASE /\ Storage!Load /\ lock' = r /\ UNCHANGED answer
           /\ op' = [op EXCEPT ![r].pc = "write", ![r].snapshot =
                                [Storage!Contents EXCEPT ![op[r].key] = op[r].value]]
  <2> DEFINE new == [Seen EXCEPT ![op[r].key] = op[r].value]
             o == [op[r] EXCEPT !.pc = "write", !.snapshot = new]
  <2>1. Seen \in Maps
    BY DEF StorageIInv, StorageTyped, Seen, Files, Storage!Empty, Maps
  <2>2. new \in Maps
    BY <1>1, <2>1 DEF Maps, Ops
  <2>3. op' = [op EXCEPT ![r] = o]
    BY <1>4, LoadKeeps DEF StorageIInv, StorageTyped
  <2>4. o \in Ops /\ o.pc = "write" /\ o.key = op[r].key /\ o.value = op[r].value
        /\ o.snapshot = new
    <3> HIDE DEF new
    <3> QED
      BY <1>1, <2>2 DEF Ops
  <2> HIDE DEF o
  <2>5. op' \in [Runtimes -> Ops] /\ op'[r] = o /\ \A s \in Runtimes : s # r => op'[s] = op[s]
    BY <2>3, <2>4 DEF StorageIInv, StorageTyped
  <2>6. StorageTyped' /\ Stamped' /\ Seen' = Seen
    BY <1>4, <2>5, LoadKeeps DEF StorageIInv, StorageTyped
  <2>7. OpSafe(r)'
    BY <1>1, <1>4, <2>4, <2>5, <2>6 DEF OpSafe
  <2>8. OpsSafe'
    BY <1>1, <1>4, <2>5, <2>7, HolderKeeps
  <2> QED
    BY <1>4, <2>6, <2>8 DEF StorageIInv, Storage!Map!vars, Seen
<1>5. CASE Storage!Finish(r, Failed) /\ UNCHANGED <<file, cache, stamp, lock>>
  <2>1. Stamped' /\ OpsSafe' /\ StorageTyped'
    BY <1>2, <1>5 DEF StorageIInv, Stamped, Storage!Cached, Storage!Stamp, Seen, StorageTyped
  <2>2. Storage!Map!Fail(r)
    BY <1>5 DEF Storage!Map!Fail, Storage!Map!Answer, Storage!Finish
  <2> QED
    BY <2>1, <2>2 DEF StorageIInv, Storage!Map!Next
<1> QED
  BY <1>3, <1>4, <1>5 DEF Storage!Read, Storage!shared

LEMMA WriteStep ==
  ASSUME StorageIInv, NEW r \in Runtimes, Storage!Write(r)
  PROVE  StorageIInv' /\ [Storage!Map!Next]_(Storage!Map!vars)
<1>1. op[r].pc = "write" /\ lock = r /\ op[r].key \in StorageKeys
      /\ op[r] \in Ops /\ r # NoFile
      /\ op[r].snapshot = [Seen EXCEPT ![op[r].key] = op[r].value]
      /\ cache' = cache
  BY NoFileApart DEF Storage!Write, StorageIInv, OpsSafe, OpSafe, StorageTyped
<1>2. CASE /\ stamp' = stamp + 1
           /\ file' = [map |-> op[r].snapshot, stamp |-> stamp', legacy |-> FALSE]
           /\ answer' = [answer EXCEPT ![r] = op[r].value]
           /\ op' = [op EXCEPT ![r].pc = "cache"] /\ UNCHANGED lock
  <2>1. /\ op[r].snapshot \in Maps /\ op[r].value \in Values \cup {NoValue}
        /\ stamp \in Nat /\ stamp' \in Nat
    <3>1. op[r] \in Ops /\ stamp \in Nat
      BY DEF StorageIInv, StorageTyped
    <3>2. op[r].snapshot \in Maps /\ op[r].value \in Values \cup {NoValue}
      BY <3>1 DEF Ops
    <3> QED
      BY <1>2, <3>1, <3>2
  <2>2. file' \in Files
    BY <1>2, <2>1 DEF Files
  <2>3. file' # NoFile /\ file'.map = op[r].snapshot /\ file'.stamp = stamp + 1
        /\ Seen' = op[r].snapshot /\ Storage!Stamp' = stamp + 1
    BY <1>2, <2>2, NoFileApart DEF Seen, Storage!Stamp
  <2> DEFINE o == [op[r] EXCEPT !.pc = "cache"]
  <2>4. o \in Ops /\ o.pc = "cache" /\ o.snapshot = op[r].snapshot /\ op' = [op EXCEPT ![r] = o]
    BY <1>1, <1>2 DEF Ops, StorageIInv, StorageTyped
  <2> HIDE DEF o
  <2>5. op' \in [Runtimes -> Ops] /\ op'[r] = o /\ \A s \in Runtimes : s # r => op'[s] = op[s]
    BY <2>4 DEF StorageIInv, StorageTyped
  <2>6. StorageTyped'
    BY <1>1, <1>2, <2>1, <2>2, <2>5 DEF StorageIInv, StorageTyped
  <2>7. Stamped'
    <3>1. cache # NoFile => cache.stamp \in Nat /\ cache.stamp <= stamp
      BY DEF StorageIInv, StorageTyped, Stamped, Copies
    <3>2. ~Storage!Cached'
      BY <1>1, <2>1, <2>3, <3>1 DEF Storage!Cached
    <3> QED
      BY <1>1, <1>2, <2>1, <2>3, <3>1, <3>2 DEF Stamped, StorageIInv
  <2>8. OpSafe(r)'
    BY <1>1, <1>2, <2>3, <2>4, <2>5 DEF OpSafe
  <2>9. OpsSafe'
    BY <1>1, <1>2, <2>5, <2>8, HolderKeeps
  <2>10. Storage!Map!Put(r, op[r].key, op[r].value)
    BY <1>1, <1>2, <2>3 DEF Storage!Map!Put, Storage!Map!Answer, Seen
  <2> QED
    BY <1>1, <2>1, <2>6, <2>7, <2>9, <2>10 DEF StorageIInv, Storage!Map!Next
<1>3. CASE Storage!Finish(r, Failed) /\ lock' = NoFile /\ UNCHANGED <<file, stamp>>
  <2>1. StorageTyped' /\ Stamped'
    BY <1>1, <1>3, FinishKeeps DEF StorageIInv, StorageTyped, Stamped, Storage!Cached,
       Storage!Stamp, Seen
  <2>2. op'[r].pc = "idle"
    BY <1>3, FinishKeeps DEF StorageIInv
  <2>3. OpSafe(r)'
    BY <1>1, <1>3, <2>2 DEF OpSafe
  <2>4. OpsSafe'
    BY <1>1, <1>3, <2>3, FinishKeeps, HolderKeeps DEF StorageIInv
  <2>5. Storage!Map!Fail(r)
    BY <1>3 DEF Storage!Map!Fail, Storage!Map!Answer, Storage!Finish
  <2> QED
    BY <2>1, <2>4, <2>5 DEF StorageIInv, Storage!Map!Next
<1> QED
  BY <1>2, <1>3 DEF Storage!Write

LEMMA StoreCacheStep ==
  ASSUME StorageIInv, NEW r \in Runtimes, Storage!StoreCache(r)
  PROVE  StorageIInv' /\ UNCHANGED Storage!Map!vars
<1>1. /\ op[r].pc = "cache" /\ lock = r /\ lock' = NoFile /\ r # NoFile
      /\ file # NoFile /\ op[r].snapshot = file.map /\ file \in Files
      /\ cache' = [map |-> op[r].snapshot, stamp |-> Storage!Stamp]
      /\ op' = [op EXCEPT ![r] = Storage!Idle] /\ UNCHANGED <<file, answer, stamp>>
  BY NoFileApart DEF Storage!StoreCache, StorageIInv, OpsSafe, OpSafe, StorageTyped
<1>2. Storage!Stamp = file.stamp /\ Storage!Stamp' = file.stamp /\ Seen' = Seen
      /\ Seen = file.map
  BY <1>1 DEF Storage!Stamp, Seen
<1>3. cache' \in Copies /\ cache'.map = file.map /\ cache'.stamp = file.stamp
  BY <1>1, <1>2 DEF Copies, Files
<1>4. op' \in [Runtimes -> Ops] /\ op'[r] = Storage!Idle /\ Storage!Idle.pc = "idle"
      /\ \A s \in Runtimes : s # r => op'[s] = op[s]
  BY <1>1 DEF StorageIInv, StorageTyped, Storage!Idle, Ops, Storage!Empty, Maps
<1>5. StorageTyped'
  BY <1>1, <1>3, <1>4 DEF StorageIInv, StorageTyped
<1>6. Stamped'
  BY <1>1, <1>2, <1>3 DEF StorageIInv, Stamped, Files
<1>7. OpSafe(r)'
  BY <1>1, <1>4 DEF OpSafe
<1>8. OpsSafe'
  BY <1>1, <1>4, <1>7, HolderKeeps
<1> QED
  BY <1>1, <1>2, <1>5, <1>6, <1>8 DEF StorageIInv, Storage!Map!vars, Seen

\* The other steps: a script takes its answer, a runtime is torn down, the
\* extension is removed or installed and the process dies.
LEMMA RestStep ==
  ASSUME StorageIInv,
         (\E r \in Runtimes : Storage!Take(r) \/ Storage!Close(r)) \/ Storage!RemoveData
         \/ Storage!Install \/ Storage!Crash
  PROVE  StorageIInv' /\ [Storage!Map!Next]_(Storage!Map!vars)
<1>1. ASSUME NEW r \in Runtimes, Storage!Take(r)
      PROVE  StorageIInv' /\ Storage!Map!Take(r)
  BY <1>1 DEF Storage!Take, Storage!shared, StorageIInv, StorageTyped, Stamped, Storage!Cached,
     Storage!Stamp, Seen, OpsSafe, OpSafe,
     Storage!Map!Take, Storage!Map!Answer
<1>2. CASE Storage!Install \/ \E r \in Runtimes : Storage!Close(r)
  BY <1>2 DEF Storage!Install, Storage!Close, Storage!shared, StorageIInv, StorageTyped,
     Stamped, Storage!Cached, Storage!Stamp, Seen, OpsSafe, OpSafe,
     Storage!Map!vars
<1>3. CASE Storage!RemoveData
  <2>1. lock = NoFile /\ file' = NoFile /\ UNCHANGED <<cache, lock, op, answer, stamp>>
    BY <1>3 DEF Storage!RemoveData
  <2>2. StorageTyped' /\ Stamped'
    BY <2>1 DEF StorageIInv, StorageTyped, Stamped, Storage!Cached, Storage!Stamp, Seen
  <2>3. OpsSafe'
    BY <2>1, NoFileApart DEF StorageIInv, OpsSafe, OpSafe
  <2>4. Storage!Map!Clear
    BY <2>1 DEF Storage!Map!Clear, Storage!Empty, Storage!Map!Empty
  <2> QED
    BY <2>2, <2>3, <2>4 DEF StorageIInv, Storage!Map!Next
<1>4. CASE Storage!Crash
  <2>1. /\ cache' = NoFile /\ lock' = NoFile /\ op' = [r \in Runtimes |-> Storage!Idle]
        /\ answer' = [r \in Runtimes |-> NoAnswer] /\ UNCHANGED <<file, stamp>>
    BY <1>4 DEF Storage!Crash
  <2>2. Storage!Idle \in Ops /\ Storage!Idle.pc = "idle"
    BY DEF Storage!Idle, Ops, Storage!Empty, Maps
  <2>3. StorageTyped' /\ Stamped'
    BY <2>1, <2>2 DEF StorageIInv, StorageTyped, Stamped, Storage!Cached
  <2>4. OpsSafe'
    BY <2>1, <2>2, NoFileApart DEF OpsSafe, OpSafe
  <2>5. Storage!Map!Crash
    BY <2>1 DEF Storage!Map!Crash
  <2> QED
    BY <2>3, <2>4, <2>5 DEF StorageIInv, Storage!Map!Next
<1> QED
  BY <1>1, <1>2, <1>3, <1>4 DEF Storage!Map!Next

LEMMA StorageIInvInit == Storage!Init => StorageIInv /\ Storage!Map!Init
<1> SUFFICES ASSUME Storage!Init PROVE StorageIInv /\ Storage!Map!Init
  OBVIOUS
<1>1. Storage!Idle \in Ops /\ Storage!Idle.pc = "idle" /\ Storage!Empty \in Maps
  BY DEF Storage!Idle, Ops, Storage!Empty, Maps
<1>2. file # NoFile => file \in Files /\ file.stamp = 1 /\ file.map \in Maps
  <2> SUFFICES ASSUME file # NoFile PROVE file \in Files /\ file.stamp = 1 /\ file.map \in Maps
    OBVIOUS
  <2>1. PICK v \in Values :
          file = [map |-> [k \in StorageKeys |-> v], stamp |-> 1, legacy |-> TRUE]
    BY DEF Storage!Init, Storage!Legacy
  <2>2. [k \in StorageKeys |-> v] \in Maps
    BY DEF Maps
  <2> QED
    BY <2>1, <2>2 DEF Files
<1>3. StorageTyped
  BY <1>1, <1>2 DEF Storage!Init, StorageTyped
<1>4. Stamped
  BY <1>2 DEF Storage!Init, Stamped, Storage!Cached
<1>5. OpsSafe
  BY <1>1, NoFileApart DEF Storage!Init, OpsSafe, OpSafe
<1>6. Storage!Map!Init
  BY <1>1, <1>2 DEF Storage!Init, Storage!Map!Init, Maps
<1> QED
  BY <1>3, <1>4, <1>5, <1>6 DEF StorageIInv

LEMMA StorageIInvInductive ==
  ASSUME StorageIInv, [Storage!Next]_(Storage!vars)
  PROVE  StorageIInv' /\ [Storage!Map!Next]_(Storage!Map!vars)
<1>1. CASE UNCHANGED Storage!vars
  BY <1>1 DEF Storage!vars, Storage!shared, StorageIInv, StorageTyped, Stamped, Storage!Cached,
     Storage!Stamp, Seen, OpsSafe, OpSafe, Storage!Map!vars
<1>2. CASE Storage!Next
  BY <1>2, GetStep, MutateStep, ReadStep, WriteStep, StoreCacheStep, RestStep DEF Storage!Next
<1> QED
  BY <1>1, <1>2

\* What the scripts see is the map of AtomicMap.
LEMMA MapStep ==
  ASSUME which = "storage", [MCNext]_all, StorageIInv
  PROVE  StorageIInv' /\ [Map!Next]_(Map!vars)
<1>1. which' = which /\ StorageIInv' /\ [Storage!Map!Next]_(Storage!Map!vars)
  BY StoreStep, StorageIInvInductive
<1> QED
  BY <1>1 DEF Map!Next, Map!vars, Map!Put, Map!Get, Map!Fail, Map!Take, Map!Clear, Map!Crash,
     Map!Answer, Map!Empty, Storage!Map!Next, Storage!Map!vars, Storage!Map!Put,
     Storage!Map!Get,
     Storage!Map!Fail, Storage!Map!Take, Storage!Map!Clear, Storage!Map!Crash,
     Storage!Map!Answer, Storage!Map!Empty

\* StorageAtomic: the storage of an extension implements AtomicMap, whatever
\* its runtimes do at a time, the copies they decode, the files of an earlier
\* release, failures, removals and crashes (mutateStorage, mutateCredentials,
\* readCredentialsFileLocked).
THEOREM StorageAtomicHolds == MCSpec => StorageAtomic
<1> DEFINE Inv == which = "storage" => StorageIInv
<1>1. MCInit => Inv /\ Map!Init
  BY StorageIInvInit DEF MCInit, Map!Init, Storage!Map!Init, Storage!Empty
<1>2. Inv /\ [MCNext]_all => Inv' /\ [Map!Next]_(Map!vars)
  <2>1. CASE which = "storage"
    BY <2>1, MapStep
  <2>2. CASE which # "storage"
    BY <2>2, StoreStep DEF Map!vars
  <2> QED
    BY <2>1, <2>2
<1> QED
  BY <1>1, <1>2, PTL DEF MCSpec, StorageAtomic, Map!Spec
==============================================================================
