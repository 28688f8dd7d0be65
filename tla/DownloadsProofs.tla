--------------------------- MODULE DownloadsProofs ---------------------------
(***************************************************************************)
(* Theorems about the cancellation registry, for every number of items and *)
(* calls, and about the fallback chain, for every set of extensions, order *)
(* and request.  Those of the registry rest on one inductive invariant:    *)
(* the count of an entry is the number of its holders, so that an entry    *)
(* has a context exactly while it has holders, which all have that         *)
(* context, and the entry's flag, its context's state and the history      *)
(* agree.  That of the chain says what the locals of a call are at each    *)
(* point, and needs to know what is in an order after it was rearranged.   *)
(***************************************************************************)
EXTENDS MCDownloads, FiniteSetTheorems, WellFoundedInduction, TLAPS

\* The holders of an entry have its context, an entry has one exactly while it
\* is held, and no two entries have the same.
EntryShared ==
    /\ \A c \in Calls : at[c] # "idle" => ctx[c] = entries[of[c]].ctx
    /\ \A id \in Ids : entries[id].ctx # NoContext <=> entries[id].refs > 0
    /\ \A id, jd \in Ids :
          (id # jd /\ entries[id].ctx = entries[jd].ctx) => entries[id].ctx = NoContext

\* Flag, context and history of an item agree.
FlagsAgree ==
    /\ \A id \in Ids : entries[id].canceled <=> asked[id]
    /\ \A id \in Ids : entries[id].ctx # NoContext =>
                           (entries[id].ctx \in dead <=> asked[id])

\* The inductive invariant.
IInv == TypeOK /\ HoldersCounted /\ EntryShared /\ FlagsAgree

-----------------------------------------------------------------------------
\* The holders of an item are finitely many.
LEMMA HoldersFinite ==
  ASSUME NEW id
  PROVE  IsFiniteSet(Holders(id)) /\ Cardinality(Holders(id)) \in Nat
<1>1. Holders(id) \in SUBSET Calls
  BY DEF Holders
<1>2. IsFiniteSet(Holders(id))
  BY <1>1, CallsAssumption, FS_Subset
<1> QED
  BY <1>2, FS_CardinalityType

\* A cancelled entry is an entry.
LEMMA CancelledEntry ==
  ASSUME NEW e \in Entry
  PROVE  [e EXCEPT !.canceled = TRUE] \in Entry
BY DEF Entry

\* The type invariant holds initially and every step preserves it.
LEMMA TypeInit == Init => TypeOK
BY ContextAssumption DEF Init, TypeOK, NoEntry, Entry

\* Every action keeps the types.
LEMMA TypeStep ==
  ASSUME TypeOK, Next
  PROVE  TypeOK'
<1> USE DEF TypeOK
<1>1. ASSUME NEW c \in Calls, NEW id \in Ids, Begin(c, id)
      PROVE  TypeOK'
  <2>1. entries' \in [Ids -> Entry]
    <3>1. entries[id] \in Entry /\ entries[id].ctx \in Contexts \cup {NoContext}
      BY DEF Entry
    <3>2. \A x \in Contexts \cup {NoContext} :
             HeldBy(entries[id], x, entries[id].refs + 1) \in Entry
      BY <3>1 DEF HeldBy, Entry
    <3> QED
      BY <1>1, <3>1, <3>2 DEF Begin, Acquire, Unused
  <2>2. dead' \in SUBSET Contexts
    BY <1>1 DEF Begin, Acquire, HeldBy, Unused
  <2>3. ctx' \in [Calls -> Contexts \cup {NoContext}] /\ ctx'[c] \in Contexts
    <3>1. entries[id].ctx \in Contexts \cup {NoContext}
      BY DEF Entry
    <3>2. PICK x \in Contexts : ctx' = [ctx EXCEPT ![c] = x]
      BY <1>1, <3>1 DEF Begin, Acquire, Unused
    <3> QED
      BY <3>2
  <2>4. \A d \in Calls : at'[d] # "idle" => ctx'[d] \in Contexts
    BY <1>1, <2>3 DEF Begin, Acquire
  <2> QED
    BY <1>1, <2>1, <2>2, <2>3, <2>4 DEF Begin
<1>2. ASSUME NEW c \in Calls, CheckStart(c) \/ ShowItem(c) \/ Fail(c)
                                  \/ Succeed(c) \/ Return(c)
      PROVE  TypeOK'
  BY <1>2 DEF CheckStart, ShowItem, Fail, Succeed, Return
<1>3. ASSUME NEW c \in Calls, End(c)
      PROVE  TypeOK'
  <2>1. entries' \in [Ids -> Entry]
    BY <1>3 DEF End, Release, HeldBy, Entry, NoEntry
  <2> QED
    BY <1>3, <2>1 DEF End
<1>4. ASSUME NEW k \in Cancellers, NEW id \in Ids, Cancel(k, id)
      PROVE  TypeOK'
  <2>1. entries' \in [Ids -> Entry] /\ dead' \in SUBSET Contexts
    BY <1>4 DEF Cancel, RequestCancel, Entry
  <2> QED
    BY <1>4, <2>1 DEF Cancel
<1>5. ASSUME NEW k \in Cancellers, CancelAllActive(k)
      PROVE  TypeOK'
  <2>1. entries' \in [Ids -> Entry]
    <3>1. \A id \in Ids : entries[id] \in Entry
      OBVIOUS
    <3>2. \A id \in Ids : [entries[id] EXCEPT !.canceled = TRUE] \in Entry
      BY <3>1, CancelledEntry
    <3> HIDE DEF TypeOK
    <3> QED
      BY <1>5, <3>1, <3>2 DEF CancelAllActive, RequestCancelActive
  <2>2. dead' \in SUBSET Contexts
    <3>1. \A id \in Ids : entries[id].ctx \in Contexts \cup {NoContext}
      BY DEF Entry
    <3>2. {entries[id].ctx : id \in Active} \ {NoContext} \in SUBSET Contexts
      BY <3>1 DEF Active
    <3> HIDE DEF TypeOK
    <3>3. dead \in SUBSET Contexts
      BY DEF TypeOK
    <3> QED
      BY <1>5, <3>2, <3>3 DEF CancelAllActive, RequestCancelActive
  <2> QED
    BY <1>5, <2>1, <2>2 DEF CancelAllActive, Active
<1>6. ASSUME NEW k \in Cancellers, NEW id \in Ids, HideItem(k, id)
      PROVE  TypeOK'
  BY <1>6 DEF HideItem
<1>7. ASSUME NEW id \in Ids, Reset(id)
      PROVE  TypeOK'
  <2>1. entries' \in [Ids -> Entry]
    BY <1>7 DEF Reset, Entry, NoEntry
  <2> QED
    BY <1>7, <2>1 DEF Reset
<1>8. ASSUME NEW id \in Ids, ClearItem(id)
      PROVE  TypeOK'
  BY <1>8 DEF ClearItem
<1> QED
  BY <1>1, <1>2, <1>3, <1>4, <1>5, <1>6, <1>7, <1>8 DEF Next, Call, Canceller

\* TypeOK for every number of items, calls and contexts.
THEOREM TypeCorrect == Spec => []TypeOK
<1>1. TypeOK /\ UNCHANGED vars => TypeOK'
  BY DEF TypeOK, vars
<1> QED
  BY TypeInit, TypeStep, <1>1, PTL DEF Spec

-----------------------------------------------------------------------------
\* A step that leaves the registry, the calls' items and contexts and the
\* history alone and begins or ends no call preserves the invariant.
LEMMA QuietStep ==
  ASSUME IInv, TypeOK', UNCHANGED <<entries, dead, of, ctx, asked>>,
         \A c \in Calls : at'[c] = "idle" <=> at[c] = "idle"
  PROVE  IInv'
<1>1. \A id : Holders(id)' = Holders(id)
  BY DEF Holders
<1>2. HoldersCounted'
  BY <1>1 DEF IInv, HoldersCounted
<1> QED
  BY <1>2 DEF IInv, EntryShared, FlagsAgree

\* A step that only changes the flags and kills contexts preserves the count
\* and the sharing.
LEMMA FlagStep ==
  ASSUME IInv, TypeOK', UNCHANGED <<at, of, ctx>>,
         \A id \in Ids : /\ entries'[id].refs = entries[id].refs
                         /\ entries'[id].ctx = entries[id].ctx
  PROVE  HoldersCounted' /\ EntryShared'
<1>1. \A id : Holders(id)' = Holders(id)
  BY DEF Holders
<1>2. HoldersCounted'
  BY <1>1 DEF IInv, HoldersCounted
<1>3. EntryShared'
  <2>1. \A c \in Calls : at[c] # "idle" => ctx[c] = entries'[of[c]].ctx
    <3>1. \A c \in Calls : of[c] \in Ids
      BY DEF IInv, TypeOK
    <3> QED
      BY <3>1 DEF IInv, EntryShared
  <2>2. \A id \in Ids : entries'[id].ctx # NoContext <=> entries'[id].refs > 0
    BY DEF IInv, EntryShared
  <2>3. \A id, jd \in Ids :
           (id # jd /\ entries'[id].ctx = entries'[jd].ctx)
               => entries'[id].ctx = NoContext
    BY DEF IInv, EntryShared
  <2> QED
    BY <2>1, <2>2, <2>3 DEF EntryShared
<1> QED
  BY <1>2, <1>3

\* A call that begins is one more holder of its item.
LEMMA BeginStep ==
  ASSUME IInv, TypeOK', NEW c \in Calls, NEW id \in Ids, Begin(c, id)
  PROVE  IInv'
<1>1. c \notin Holders(id) /\ Holders(id)' = Holders(id) \cup {c}
  BY DEF Begin, Holders, IInv, TypeOK
<1>2. ASSUME NEW jd \in Ids, jd # id
      PROVE  Holders(jd)' = Holders(jd)
  BY <1>2 DEF Begin, Holders, IInv, TypeOK
<1>3. Cardinality(Holders(id)') = Cardinality(Holders(id)) + 1
  BY <1>1, HoldersFinite, FS_AddElement
<1>4. /\ entries'[id].refs = entries[id].refs + 1
      /\ \A jd \in Ids : jd # id => entries'[jd] = entries[jd]
      /\ entries'[id].canceled = entries[id].canceled
  BY DEF Begin, Acquire, HeldBy, IInv, TypeOK, Entry
<1>5. HoldersCounted'
  BY <1>2, <1>3, <1>4 DEF IInv, HoldersCounted
<1>6. \A d \in Calls : d # c => /\ at'[d] = at[d]
                                /\ of'[d] = of[d]
                                /\ ctx'[d] = ctx[d]
  BY DEF Begin, Acquire, HeldBy, IInv, TypeOK
<1>7. of'[c] = id /\ ctx'[c] = entries'[id].ctx
  BY DEF Begin, Acquire, HeldBy, IInv, TypeOK, Entry
<1>8. \A d \in Calls : (at[d] # "idle" /\ of[d] = id) => entries[id].refs > 0
  <2> SUFFICES ASSUME NEW d \in Calls, at[d] # "idle", of[d] = id
               PROVE  entries[id].refs > 0
    OBVIOUS
  <2>1. Holders(id) # {}
    BY DEF Holders
  <2>2. Cardinality(Holders(id)) # 0
    BY <2>1, HoldersFinite, FS_EmptySet
  <2> QED
    BY <2>2, HoldersFinite DEF IInv, HoldersCounted
<1>9. CASE entries[id].ctx # NoContext
  <2>1. entries'[id].ctx = entries[id].ctx /\ dead' = dead /\ asked' = asked
    BY <1>9 DEF Begin, Acquire, HeldBy, IInv, TypeOK, Entry
  <2>2. EntryShared'
    <3>1. \A jd \in Ids : entries'[jd].ctx = entries[jd].ctx
      BY <1>4, <2>1
    <3>2. \A d \in Calls : at'[d] # "idle" => ctx'[d] = entries'[of'[d]].ctx
      BY <1>6, <1>7, <3>1 DEF IInv, EntryShared, TypeOK
    <3>3. entries[id].refs > 0 /\ entries[id].refs \in Nat
      BY <1>9, HoldersFinite DEF IInv, EntryShared, HoldersCounted
    <3>4. \A jd \in Ids : entries'[jd].ctx # NoContext <=> entries'[jd].refs > 0
      BY <1>4, <1>9, <3>1, <3>3 DEF IInv, EntryShared
    <3>5. \A jd, kd \in Ids :
             (jd # kd /\ entries'[jd].ctx = entries'[kd].ctx)
                 => entries'[jd].ctx = NoContext
      BY <3>1 DEF IInv, EntryShared
    <3> QED
      BY <3>2, <3>4, <3>5 DEF EntryShared
  <2>3. FlagsAgree'
    BY <1>4, <2>1 DEF IInv, FlagsAgree
  <2> QED
    BY <1>5, <2>2, <2>3 DEF IInv
<1>10. CASE entries[id].ctx = NoContext
  <2>1. PICK x \in Unused :
          /\ entries'[id].ctx = x
          /\ dead' = IF entries[id].canceled THEN dead \cup {x} ELSE dead \ {x}
          /\ asked' = asked
    BY <1>10 DEF Begin, Acquire, HeldBy, IInv, TypeOK, Entry
  <2>2. x # NoContext /\ \A jd \in Ids : entries[jd].ctx # x
    BY ContextAssumption DEF Unused
  <2>3. entries[id].refs = 0
    BY <1>10 DEF IInv, EntryShared, TypeOK, Entry
  <2>4. \A d \in Calls : at[d] # "idle" => of[d] # id
    BY <1>8, <2>3
  <2>5. EntryShared'
    <3>1. \A d \in Calls : at'[d] # "idle" => ctx'[d] = entries'[of'[d]].ctx
      BY <1>4, <1>6, <1>7, <2>4 DEF IInv, EntryShared, TypeOK
    <3>2. \A jd \in Ids : entries'[jd].ctx # NoContext <=> entries'[jd].refs > 0
      BY <1>4, <2>1, <2>2, <2>3 DEF IInv, EntryShared
    <3>3. \A jd, kd \in Ids :
             (jd # kd /\ entries'[jd].ctx = entries'[kd].ctx)
                 => entries'[jd].ctx = NoContext
      BY <1>4, <2>1, <2>2 DEF IInv, EntryShared
    <3> QED
      BY <3>1, <3>2, <3>3 DEF EntryShared
  <2>6. FlagsAgree'
    BY <1>4, <2>1, <2>2 DEF IInv, FlagsAgree
  <2> QED
    BY <1>5, <2>5, <2>6 DEF IInv
<1> QED
  BY <1>9, <1>10

\* A call that ends is one holder less; the last deletes the entry.
LEMMA EndStep ==
  ASSUME IInv, TypeOK', NEW c \in Calls, End(c)
  PROVE  IInv'
<1>0. PICK id \in Ids : id = of[c] /\ at[c] = "ending"
  BY DEF End, IInv, TypeOK
<1>1. c \in Holders(id) /\ Holders(id)' = Holders(id) \ {c}
  BY <1>0 DEF End, Holders, IInv, TypeOK
<1>2. ASSUME NEW jd \in Ids, jd # id
      PROVE  Holders(jd)' = Holders(jd)
  BY <1>0, <1>2 DEF End, Holders, IInv, TypeOK
<1>3. Cardinality(Holders(id)') = Cardinality(Holders(id)) - 1
  BY <1>1, HoldersFinite, FS_RemoveElement
<1>4. entries[id].refs = Cardinality(Holders(id)) /\ entries[id].refs \in Nat
  BY <1>0, HoldersFinite DEF IInv, HoldersCounted
<1>5. \A jd \in Ids : jd # id => entries'[jd] = entries[jd] /\ asked'[jd] = asked[jd]
  BY <1>0 DEF End, Release, HeldBy, IInv, TypeOK
<1>6. Cardinality(Holders(id)') \in Nat
  <2>1. IsFiniteSet(Holders(id) \ {c})
    BY HoldersFinite, FS_RemoveElement
  <2> QED
    BY <1>1, <2>1, FS_CardinalityType
<1>7. UNCHANGED <<dead, of, ctx>> /\ \A d \in Calls : d # c => at'[d] = at[d]
  BY DEF End, IInv, TypeOK
<1>8. at'[c] = "idle"
  BY DEF End, IInv, TypeOK
<1>9. CASE entries[id].refs > 1
  <2>1. /\ entries'[id].refs = entries[id].refs - 1
        /\ entries'[id].ctx = entries[id].ctx
        /\ entries'[id].canceled = entries[id].canceled
    BY <1>0, <1>9 DEF End, Release, HeldBy, IInv, TypeOK, Entry
  <2>2. Holders(id) # {c}
    <3>1. Cardinality({c}) = 1
      BY FS_Singleton
    <3> QED
      BY <1>4, <1>9, <3>1
  <2>3. asked'[id] = asked[id]
    BY <1>0, <2>2 DEF End, IInv, TypeOK
  <2>4. HoldersCounted'
    <3>1. entries'[id].refs = Cardinality(Holders(id)')
      BY <1>3, <1>4, <2>1
    <3>2. \A jd \in Ids : jd # id => entries'[jd].refs = Cardinality(Holders(jd)')
      BY <1>2, <1>5 DEF IInv, HoldersCounted
    <3> QED
      BY <3>1, <3>2 DEF HoldersCounted
  <2>5. EntryShared'
    <3>1. \A jd \in Ids : entries'[jd].ctx = entries[jd].ctx
      BY <1>5, <2>1
    <3>2. \A d \in Calls : at'[d] # "idle" => ctx'[d] = entries'[of'[d]].ctx
      BY <1>7, <1>8, <3>1 DEF IInv, EntryShared, TypeOK
    <3>3. entries'[id].refs > 0 /\ entries[id].refs > 0
      BY <1>4, <1>9, <2>1
    <3>4. \A jd \in Ids : entries'[jd].ctx # NoContext <=> entries'[jd].refs > 0
      BY <1>0, <1>5, <3>1, <3>3 DEF IInv, EntryShared
    <3>5. \A jd, kd \in Ids :
             (jd # kd /\ entries'[jd].ctx = entries'[kd].ctx)
                 => entries'[jd].ctx = NoContext
      BY <3>1 DEF IInv, EntryShared
    <3> QED
      BY <3>2, <3>4, <3>5 DEF EntryShared
  <2>6. FlagsAgree'
    BY <1>5, <1>7, <2>1, <2>3 DEF IInv, FlagsAgree
  <2> QED
    BY <2>4, <2>5, <2>6 DEF IInv
<1>10. CASE ~(entries[id].refs > 1)
  <2>1. entries'[id] = NoEntry
    BY <1>0, <1>10 DEF End, Release, HeldBy, IInv, TypeOK
  <2>2. Cardinality(Holders(id)') = 0
    BY <1>3, <1>4, <1>6, <1>10
  <2>3. Holders(id)' = {}
    <3>1. IsFiniteSet(Holders(id) \ {c})
      BY HoldersFinite, FS_RemoveElement
    <3> QED
      BY <1>1, <2>2, <3>1, FS_EmptySet
  <2>4. Holders(id) = {c}
    BY <1>1, <2>3
  <2>5. ~asked'[id]
    BY <1>0, <2>4 DEF End, IInv, TypeOK
  <2>6. HoldersCounted'
    <3>1. entries'[id].refs = Cardinality(Holders(id)')
      BY <2>1, <2>2 DEF NoEntry
    <3>2. \A jd \in Ids : jd # id => entries'[jd].refs = Cardinality(Holders(jd)')
      BY <1>2, <1>5 DEF IInv, HoldersCounted
    <3> QED
      BY <3>1, <3>2 DEF HoldersCounted
  <2>7. \A d \in Calls : at'[d] # "idle" => of'[d] # id /\ at[d] # "idle"
    BY <1>7, <1>8, <2>4 DEF Holders
  <2>8. EntryShared'
    <3>1. \A d \in Calls : at'[d] # "idle" => ctx'[d] = entries'[of'[d]].ctx
      BY <1>5, <1>7, <2>7 DEF IInv, EntryShared, TypeOK
    <3>2. \A jd \in Ids : entries'[jd].ctx # NoContext <=> entries'[jd].refs > 0
      BY <1>5, <2>1 DEF IInv, EntryShared, NoEntry
    <3>3. \A jd, kd \in Ids :
             (jd # kd /\ entries'[jd].ctx = entries'[kd].ctx)
                 => entries'[jd].ctx = NoContext
      BY <1>5, <2>1 DEF IInv, EntryShared, NoEntry
    <3> QED
      BY <3>1, <3>2, <3>3 DEF EntryShared
  <2>9. FlagsAgree'
    BY <1>5, <1>7, <2>1, <2>5 DEF IInv, FlagsAgree, NoEntry
  <2> QED
    BY <2>6, <2>8, <2>9 DEF IInv
<1> QED
  BY <1>9, <1>10

\* A cancel of one item marks it in flag, context and history.
LEMMA CancelStep ==
  ASSUME IInv, TypeOK', NEW k \in Cancellers, NEW id \in Ids, Cancel(k, id)
  PROVE  IInv'
<1>1. /\ UNCHANGED <<at, of, ctx>>
      /\ dead' = dead \cup ({entries[id].ctx} \ {NoContext})
      /\ asked' = [asked EXCEPT ![id] = TRUE]
  BY DEF Cancel, RequestCancel
<1>2. \A jd \in Ids : /\ entries'[jd].refs = entries[jd].refs
                      /\ entries'[jd].ctx = entries[jd].ctx
                      /\ entries'[jd].canceled = IF jd = id THEN TRUE
                                                 ELSE entries[jd].canceled
  BY DEF Cancel, RequestCancel, IInv, TypeOK, Entry
<1>3. HoldersCounted' /\ EntryShared'
  BY <1>1, <1>2, FlagStep
<1>4. FlagsAgree'
  <2>1. \A jd \in Ids : entries'[jd].canceled <=> asked'[jd]
    BY <1>1, <1>2 DEF IInv, FlagsAgree, TypeOK
  <2>2. ASSUME NEW jd \in Ids, entries'[jd].ctx # NoContext
        PROVE  entries'[jd].ctx \in dead' <=> asked'[jd]
    <3>1. CASE jd = id
      BY <1>1, <1>2, <2>2, <3>1 DEF IInv, TypeOK
    <3>2. CASE jd # id
      <4>1. entries[jd].ctx # entries[id].ctx
        BY <1>2, <2>2, <3>2 DEF IInv, EntryShared
      <4> QED
        BY <1>1, <1>2, <2>2, <3>2, <4>1 DEF IInv, FlagsAgree, TypeOK
    <3> QED
      BY <3>1, <3>2
  <2> QED
    BY <2>1, <2>2 DEF FlagsAgree
<1> QED
  BY <1>3, <1>4 DEF IInv

\* The cancel of all active items marks exactly the held ones.
LEMMA CancelAllStep ==
  ASSUME IInv, TypeOK', NEW k \in Cancellers, CancelAllActive(k)
  PROVE  IInv'
<1>1. /\ UNCHANGED <<at, of, ctx>>
      /\ dead' = dead \cup ({entries[id].ctx : id \in Active} \ {NoContext})
      /\ asked' = [id \in Ids |-> asked[id] \/ Holders(id) # {}]
  BY DEF CancelAllActive, RequestCancelActive
<1>2. \A jd \in Ids : /\ entries'[jd].refs = entries[jd].refs
                      /\ entries'[jd].ctx = entries[jd].ctx
                      /\ entries'[jd].canceled = IF jd \in Active THEN TRUE
                                                 ELSE entries[jd].canceled
  BY DEF CancelAllActive, RequestCancelActive, IInv, TypeOK, Entry
<1>3. HoldersCounted' /\ EntryShared'
  BY <1>1, <1>2, FlagStep
<1>4. \A jd \in Ids : jd \in Active <=> Holders(jd) # {}
  <2> SUFFICES ASSUME NEW jd \in Ids
               PROVE  jd \in Active <=> Holders(jd) # {}
    OBVIOUS
  <2>1. entries[jd].refs = Cardinality(Holders(jd))
    BY DEF IInv, HoldersCounted
  <2>2. Cardinality(Holders(jd)) = 0 <=> Holders(jd) = {}
    BY HoldersFinite, FS_EmptySet
  <2> QED
    BY <2>1, <2>2, HoldersFinite DEF Active
<1>5. FlagsAgree'
  <2>1. \A jd \in Ids : asked'[jd] <=> (asked[jd] \/ jd \in Active)
    BY <1>1, <1>4
  <2>2. \A jd \in Ids : entries'[jd].canceled <=> asked'[jd]
    BY <1>2, <2>1 DEF IInv, FlagsAgree, TypeOK
  <2>3. ASSUME NEW jd \in Ids, entries'[jd].ctx # NoContext
        PROVE  entries'[jd].ctx \in dead' <=> asked'[jd]
    <3>1. jd \in Active
      BY <1>2, <2>3 DEF IInv, EntryShared, Active
    <3>2. entries[jd].ctx \in {entries[id].ctx : id \in Active} \ {NoContext}
      BY <1>2, <2>3, <3>1
    <3> QED
      BY <1>1, <1>2, <2>1, <3>1, <3>2
  <2> QED
    BY <2>2, <2>3 DEF FlagsAgree
<1> QED
  BY <1>3, <1>5 DEF IInv

\* A reset deletes an entry without holders, and nothing else.
LEMMA ResetStep ==
  ASSUME IInv, TypeOK', NEW id \in Ids, Reset(id)
  PROVE  IInv'
<1>1. UNCHANGED <<at, of, ctx, dead>>
  BY DEF Reset
<1>2. entries[id].refs = Cardinality(Holders(id)) /\ entries[id].refs \in Nat
  BY HoldersFinite DEF IInv, HoldersCounted
<1>3. entries[id].refs = 0 <=> Holders(id) = {}
  BY <1>2, HoldersFinite, FS_EmptySet
<1>4. \A jd \in Ids : jd # id => entries'[jd] = entries[jd] /\ asked'[jd] = asked[jd]
  BY DEF Reset, IInv, TypeOK
<1>5. CASE entries[id].refs = 0
  <2>1. entries'[id] = NoEntry
    BY <1>5 DEF Reset, IInv, TypeOK
  <2>6. ~asked'[id]
    BY <1>3, <1>5 DEF Reset, IInv, TypeOK
  <2>2. entries[id].ctx = NoContext
    BY <1>5 DEF IInv, EntryShared
  <2>3. \A jd \in Ids : /\ entries'[jd].refs = entries[jd].refs
                        /\ entries'[jd].ctx = entries[jd].ctx
    BY <1>4, <1>5, <2>1, <2>2 DEF NoEntry
  <2>4. HoldersCounted' /\ EntryShared'
    BY <1>1, <2>3, FlagStep
  <2>5. FlagsAgree'
    BY <1>1, <1>4, <2>1, <2>6 DEF IInv, FlagsAgree, NoEntry
  <2> QED
    BY <2>4, <2>5 DEF IInv
<1>6. CASE entries[id].refs # 0
  <2>1. entries' = entries
    BY <1>2, <1>6 DEF Reset, IInv, TypeOK
  <2>2. asked' = asked
    BY <1>3, <1>6 DEF Reset, IInv, TypeOK
  <2> QED
    BY <1>1, <2>1, <2>2, QuietStep
<1> QED
  BY <1>5, <1>6

\* The strengthened invariant holds before the first download.
LEMMA InvInit == Init => IInv
<1> SUFFICES ASSUME Init PROVE IInv
  OBVIOUS
<1>1. \A id : Holders(id) = {}
  BY DEF Init, Holders
<1>2. HoldersCounted
  BY <1>1, FS_EmptySet DEF Init, HoldersCounted, NoEntry
<1>3. EntryShared /\ FlagsAgree
  BY DEF Init, EntryShared, FlagsAgree, NoEntry
<1> QED
  BY <1>2, <1>3, TypeInit DEF IInv

\* Every action keeps the strengthened invariant.
LEMMA InvStep ==
  ASSUME IInv, [Next]_vars
  PROVE  IInv'
<1>0. TypeOK'
  BY TypeStep DEF IInv, TypeOK, vars
<1>1. ASSUME NEW c \in Calls, Call(c)
      PROVE  IInv'
  <2>1. ASSUME NEW id \in Ids, Begin(c, id)
        PROVE  IInv'
    BY <1>0, <2>1, BeginStep
  <2>2. CASE CheckStart(c) \/ ShowItem(c) \/ Fail(c) \/ Succeed(c) \/ Return(c)
    <3>1. \A d \in Calls : at'[d] = "idle" <=> at[d] = "idle"
      BY <2>2 DEF CheckStart, ShowItem, Fail, Succeed, Return, IInv, TypeOK
    <3>2. UNCHANGED <<entries, dead, of, ctx, asked>>
      BY <2>2 DEF CheckStart, ShowItem, Fail, Succeed, Return
    <3> QED
      BY <1>0, <3>1, <3>2, QuietStep
  <2>3. CASE End(c)
    BY <1>0, <2>3, EndStep
  <2> QED
    BY <1>1, <2>1, <2>2, <2>3 DEF Call
<1>2. ASSUME NEW k \in Cancellers, Canceller(k)
      PROVE  IInv'
  <2>1. ASSUME NEW id \in Ids, Cancel(k, id)
        PROVE  IInv'
    BY <1>0, <2>1, CancelStep
  <2>2. ASSUME NEW id \in Ids, HideItem(k, id)
        PROVE  IInv'
    BY <1>0, <2>2, QuietStep DEF HideItem
  <2>3. CASE CancelAllActive(k)
    BY <1>0, <2>3, CancelAllStep
  <2> QED
    BY <1>2, <2>1, <2>2, <2>3 DEF Canceller
<1>3. ASSUME NEW id \in Ids, Reset(id)
      PROVE  IInv'
  BY <1>0, <1>3, ResetStep
<1>4. ASSUME NEW id \in Ids, ClearItem(id)
      PROVE  IInv'
  BY <1>0, <1>4, QuietStep DEF ClearItem
<1>5. CASE UNCHANGED vars
  BY <1>0, <1>5, QuietStep DEF vars
<1> QED
  BY <1>1, <1>2, <1>3, <1>4, <1>5 DEF Next

\* The inductive invariant holds in every reachable state.
THEOREM InvHolds == Spec => []IInv
BY InvInit, InvStep, PTL DEF Spec

\* HoldersCounted: an entry lives exactly as long as calls hold it.
THEOREM HoldersCountedHolds == Spec => []HoldersCounted
<1>1. IInv => HoldersCounted
  BY DEF IInv
<1> QED
  BY <1>1, InvHolds, PTL

\* ContextShared: the calls for an item, and only they, share its context.
THEOREM ContextSharedHolds == Spec => []ContextShared
<1>1. IInv => ContextShared
  BY ContextAssumption DEF IInv, EntryShared, ContextShared, TypeOK
<1> QED
  BY <1>1, InvHolds, PTL

\* CancelExact: a cancel reaches exactly the calls it is meant for.
THEOREM CancelExactHolds == Spec => []CancelExact
<1>1. IInv => CancelExact
  <2> SUFFICES ASSUME IInv PROVE CancelExact
    OBVIOUS
  <2>1. \A c \in Calls : at[c] # "idle" => ctx[c] \in Contexts /\ of[c] \in Ids
    BY DEF IInv, TypeOK
  <2>2. \A c \in Calls : at[c] # "idle" => (ctx[c] \in dead <=> asked[of[c]])
    BY <2>1, ContextAssumption DEF IInv, EntryShared, FlagsAgree
  <2> QED
    BY <2>2 DEF IInv, FlagsAgree, CancelExact, IsCancelled
<1> QED
  BY <1>1, InvHolds, PTL
\* A step that takes a download out of its running takes its item off the
\* screen or completes it, and only a running download makes an item active.
LEMMA NoGhostStep ==
  ASSUME TypeOK, NoGhostItem, [Next]_vars
  PROVE  NoGhostItem'
<1> SUFFICES ASSUME NEW id \in Ids, item'[id] = "active"
             PROVE  \E c \in Downloads : at'[c] = "running" /\ of'[c] = id
  BY DEF NoGhostItem
<1> DEFINE Shows(c) == at[c] = "running" /\ of[c] = id
<1>0. \A c \in Downloads : c \in Calls
  BY DEF Calls
<1>1. item[id] = "active" => \E c \in Downloads : Shows(c)
  BY DEF NoGhostItem
<1>2. ASSUME NEW d \in Calls, Call(d)
      PROVE  \E c \in Downloads : at'[c] = "running" /\ of'[c] = id
  <2>1. ASSUME \A c \in Calls : at[c] = "running" => at'[c] = "running" /\ of'[c] = of[c],
               item' = item
        PROVE  \E c \in Downloads : at'[c] = "running" /\ of'[c] = id
    BY <1>0, <1>1, <2>1
  <2>2. ASSUME NEW jd \in Ids, Begin(d, jd)
        PROVE  \E c \in Downloads : at'[c] = "running" /\ of'[c] = id
    BY <2>1, <2>2 DEF Begin, TypeOK
  <2>3. CASE CheckStart(d)
    BY <2>1, <2>3 DEF CheckStart, TypeOK
  <2>4. CASE ShowItem(d)
    <3>1. CASE of[d] = id
      BY <2>4, <3>1 DEF ShowItem, TypeOK
    <3>2. CASE of[d] # id
      <4>1. item[id] = "active"
        BY <2>4, <3>2 DEF ShowItem, TypeOK
      <4> QED
        BY <1>0, <1>1, <2>4, <3>2, <4>1 DEF ShowItem, TypeOK
    <3> QED
      BY <3>1, <3>2
  <2>5. CASE Fail(d) \/ Succeed(d)
    <3>1. of[d] # id /\ item[id] = "active"
      BY <2>5 DEF Fail, Succeed, TypeOK
    <3>2. \A c \in Calls : c # d => at'[c] = at[c] /\ of'[c] = of[c]
      BY <2>5 DEF Fail, Succeed, TypeOK
    <3> QED
      BY <1>0, <1>1, <3>1, <3>2
  <2>6. CASE Return(d)
    BY <2>1, <2>6 DEF Return, TypeOK
  <2>7. CASE End(d)
    BY <2>1, <2>7 DEF End, TypeOK
  <2> QED
    BY <1>2, <2>2, <2>3, <2>4, <2>5, <2>6, <2>7 DEF Call
<1>3. ASSUME UNCHANGED <<at, of>>, item'[id] = item[id]
      PROVE  \E c \in Downloads : at'[c] = "running" /\ of'[c] = id
  BY <1>1, <1>3
<1>4. ASSUME NEW k \in Cancellers, Canceller(k)
      PROVE  \E c \in Downloads : at'[c] = "running" /\ of'[c] = id
  BY <1>3, <1>4 DEF Canceller, Cancel, CancelAllActive, HideItem, TypeOK
<1>5. ASSUME NEW jd \in Ids, Reset(jd) \/ ClearItem(jd)
      PROVE  \E c \in Downloads : at'[c] = "running" /\ of'[c] = id
  BY <1>3, <1>5 DEF Reset, ClearItem, TypeOK
<1>6. CASE UNCHANGED vars
  BY <1>3, <1>6 DEF vars
<1> QED
  BY <1>2, <1>4, <1>5, <1>6 DEF Next

\* NoGhostItem: no way out of a download leaves its item active on the screen.
THEOREM NoGhostItemHolds == Spec => []NoGhostItem
<1>1. Init => NoGhostItem
  BY DEF Init, NoGhostItem
<1>2. IInv /\ NoGhostItem /\ [Next]_vars => NoGhostItem'
  BY NoGhostStep DEF IInv
<1> QED
  BY <1>1, <1>2, InvHolds, PTL DEF Spec

-----------------------------------------------------------------------------
(* The fallback chain of a download.  The locals of a call fit where it    *)
(* is: whose turn it is, whose error is the last one, that the selected    *)
(* provider is in the order until its turn, and that nobody but the one    *)
(* that stopped the fallback is left unless that one was disabled.         *)
\* Some number of a set of numbers is the least.
LEMMA LeastOf ==
  ASSUME NEW T \in SUBSET Nat, T # {}
  PROVE  \E n \in T : \A m \in T : ~ (m < n)
<1> DEFINE R == {ss \in Nat \X Nat : ss[1] < ss[2]}
<1>1. OpToRel(<, Nat) = R
  BY DEF OpToRel
<1>2. IsWellFoundedOn(R, Nat)
  BY <1>1, NatLessThanWellFounded
<1> HIDE DEF R
<1>3. \E n \in T : \A m \in T : ~ (<<m, n>> \in R)
  BY <1>2, WFMin
<1> QED
  BY <1>3 DEF R

\* A set that has 0 and with each number below n the next has all up to n.
LEMMA UpTo ==
  ASSUME NEW n \in Nat, NEW T, 0 \in T, \A i \in 0..n : i \in T /\ i < n => i + 1 \in T
  PROVE  0..n \subseteq T
<1> DEFINE U == (0..n) \ T
<1> SUFFICES ASSUME U # {} PROVE FALSE
  OBVIOUS
<1>0. U \in SUBSET Nat
  OBVIOUS
<1>1. PICK k \in U : \A m \in U : ~ (m < k)
  <2> HIDE DEF U
  <2> QED
    BY <1>0, LeastOf
<1>2. k - 1 \in 0..n /\ k - 1 \notin U /\ k - 1 < n
  BY <1>1
<1>3. k \in T
  BY <1>2
<1> QED
  BY <1>3

Extended(order, those, f, i) ==
    IF i = 0 THEN <<>>
    ELSE IF order[i] \in those THEN Append(f[i - 1], order[i]) ELSE f[i - 1]

\* The recursion of Among has a solution.
LEMMA AmongDefined ==
  ASSUME NEW S, NEW order \in Seq(S), NEW those
  PROVE  \E f : f = [i \in 0..Len(order) |-> Extended(order, those, f, i)]
<1> DEFINE Solved(n) == \E f : f = [i \in 0..n |-> Extended(order, those, f, i)]
           T == {n \in 0..Len(order) : Solved(n)}
<1>0. Len(order) \in Nat
  OBVIOUS
<1>1. 0 \in T
  <2> DEFINE f == [i \in 0..0 |-> <<>>]
  <2>1. f = [i \in 0..0 |-> Extended(order, those, f, i)]
    BY DEF Extended
  <2>2. Solved(0)
    BY <2>1
  <2> QED
    BY <1>0, <2>2
<1>2. ASSUME NEW n \in 0..Len(order), n \in T, n < Len(order)
      PROVE  n + 1 \in T
  <2>1. PICK f : f = [i \in 0..n |-> Extended(order, those, f, i)]
    BY <1>2
  <2> DEFINE last == IF order[n + 1] \in those THEN Append(f[n], order[n + 1]) ELSE f[n]
             g == [i \in 0..n + 1 |-> IF i = n + 1 THEN last ELSE f[i]]
  <2>2. ASSUME NEW i \in 0..n
        PROVE  g[i] = f[i] /\ f[i] = Extended(order, those, f, i)
    <3>1. i \in 0..n + 1 /\ i # n + 1
      OBVIOUS
    <3>2. g[i] = f[i]
      BY <3>1
    <3>3. f[i] = Extended(order, those, f, i)
      <4> HIDE DEF g
      <4> QED
        BY <2>1
    <3> QED
      BY <3>2, <3>3
  <2>3. g[n + 1] = last
    OBVIOUS
  <2>4. DOMAIN g = 0..n + 1 /\ g = [i \in 0..n + 1 |-> g[i]]
    OBVIOUS
  <2> HIDE DEF g
  <2>5. ASSUME NEW i \in 0..n + 1
        PROVE  g[i] = Extended(order, those, g, i)
    <3>1. CASE i = n + 1
      BY <3>1, <2>2, <2>3 DEF Extended
    <3>2. CASE i = 0
      BY <3>2, <2>2 DEF Extended
    <3>3. CASE i # 0 /\ i # n + 1
      <4>1. i \in 0..n /\ i - 1 \in 0..n
        BY <3>3
      <4> QED
        BY <3>3, <4>1, <2>2 DEF Extended
    <3> QED
      BY <3>1, <3>2, <3>3
  <2>6. g = [i \in 0..n + 1 |-> Extended(order, those, g, i)]
    BY <2>4, <2>5
  <2>7. Solved(n + 1)
    BY <2>6
  <2> QED
    BY <1>2, <2>7
<1> HIDE DEF Solved
<1>3. 0..Len(order) \subseteq T
  BY <1>0, <1>1, <1>2, UpTo
<1> QED
  BY <1>0, <1>3 DEF Solved

\* What is in a sequence.
Elements(s) == {s[i] : i \in DOMAIN s}

\* Among keeps those elements and no others.
LEMMA AmongElements ==
  ASSUME NEW S, NEW order \in Seq(S), NEW those
  PROVE  /\ Falling!Among(order, those) \in Seq(S)
         /\ Elements(Falling!Among(order, those)) = Elements(order) \cap those
<1> DEFINE f == CHOOSE f : f = [i \in 0..Len(order) |-> Extended(order, those, f, i)]
           Good(n) == /\ f[n] \in Seq(S)
                      /\ \A x : (\E i \in DOMAIN f[n] : f[n][i] = x)
                                  <=> x \in those /\ \E i \in 1..n : order[i] = x
           T == {n \in 0..Len(order) : Good(n)}
<1>0. Len(order) \in Nat
  OBVIOUS
<1>1. f = [i \in 0..Len(order) |-> Extended(order, those, f, i)]
  BY AmongDefined
<1>2. Falling!Among(order, those) = f[Len(order)]
  BY DEF Falling!Among, Extended
<1> HIDE DEF f
<1>3. ASSUME NEW i \in 0..Len(order)
      PROVE  f[i] = Extended(order, those, f, i)
  BY <1>1
<1>4. 0 \in T
  <2>1. 0 \in 0..Len(order)
    BY <1>0
  <2>2. f[0] = <<>>
    BY <2>1, <1>3 DEF Extended
  <2>3. f[0] \in Seq(S) /\ DOMAIN f[0] = {}
    BY <2>2
  <2>4. Good(0)
    BY <2>3
  <2> QED
    BY <2>1, <2>4
<1>5. ASSUME NEW n \in 0..Len(order), n \in T, n < Len(order)
      PROVE  n + 1 \in T
  <2>1. n + 1 \in 0..Len(order) /\ order[n + 1] \in S /\ f[n] \in Seq(S)
    BY <1>0, <1>5
  <2>2. f[n + 1] = IF order[n + 1] \in those THEN Append(f[n], order[n + 1]) ELSE f[n]
    BY <2>1, <1>3 DEF Extended
  <2>3. \A x : (\E i \in 1..n + 1 : order[i] = x)
                 <=> (\E i \in 1..n : order[i] = x) \/ order[n + 1] = x
    BY <1>0, <1>5
  <2>4. CASE order[n + 1] \notin those
    BY <1>5, <2>1, <2>2, <2>3, <2>4
  <2>5. CASE order[n + 1] \in those
    <3> DEFINE s == f[n]
               t == f[n + 1]
    <3>1. t = Append(s, order[n + 1]) /\ s \in Seq(S)
      BY <2>1, <2>2, <2>5
    <3>2. \A x : (\E i \in DOMAIN t : t[i] = x)
                   <=> (\E i \in DOMAIN s : s[i] = x) \/ order[n + 1] = x
      <4> HIDE DEF s, t
      <4>1. /\ DOMAIN t = 1..Len(s) + 1 /\ DOMAIN s = 1..Len(s) /\ Len(s) \in Nat
            /\ t[Len(s) + 1] = order[n + 1]
            /\ \A i \in 1..Len(s) : t[i] = s[i]
        BY <3>1
      <4> QED
        BY <4>1
    <3>3. t \in Seq(S)
      BY <3>1, <2>1
    <3> QED
      BY <1>5, <2>1, <2>3, <2>5, <3>2, <3>3
  <2> QED
    BY <2>4, <2>5
<1> HIDE DEF Good
<1>6. 0..Len(order) \subseteq T
  BY <1>0, <1>4, <1>5, UpTo
<1>7. Good(Len(order))
  BY <1>0, <1>6
<1>8. DOMAIN order = 1..Len(order)
  OBVIOUS
<1> DEFINE some == f[Len(order)]
<1>9. /\ some \in Seq(S)
      /\ \A x : (\E i \in DOMAIN some : some[i] = x)
                  <=> x \in those /\ \E i \in DOMAIN order : order[i] = x
  BY <1>7, <1>8 DEF Good
<1>10. some = Falling!Among(order, those)
  BY <1>2
<1> HIDE DEF some
<1>11. Elements(some) = Elements(order) \cap those
  BY <1>9 DEF Elements
<1> QED
  BY <1>9, <1>10, <1>11

LEMMA JoinedElements ==
  ASSUME NEW S, NEW s \in Seq(S), NEW t \in Seq(S)
  PROVE  s \o t \in Seq(S) /\ Elements(s \o t) = Elements(s) \cup Elements(t)
<1>1. /\ s \o t \in Seq(S) /\ DOMAIN (s \o t) = 1..Len(s) + Len(t)
      /\ DOMAIN s = 1..Len(s) /\ DOMAIN t = 1..Len(t) /\ Len(s) \in Nat /\ Len(t) \in Nat
      /\ \A i \in 1..Len(s) : (s \o t)[i] = s[i]
      /\ \A i \in 1..Len(t) : (s \o t)[Len(s) + i] = t[i]
  OBVIOUS
<1>2. ASSUME NEW i \in DOMAIN (s \o t)
      PROVE  (s \o t)[i] \in Elements(s) \cup Elements(t)
  <2>1. CASE i <= Len(s)
    <3>1. i \in 1..Len(s)
      BY <1>1, <2>1
    <3> QED
      BY <1>1, <3>1 DEF Elements
  <2>2. CASE i > Len(s)
    <3> DEFINE j == i - Len(s)
    <3>1. j \in 1..Len(t) /\ i = Len(s) + j
      BY <1>1, <2>2
    <3> HIDE DEF j
    <3> QED
      BY <1>1, <3>1 DEF Elements
  <2> QED
    BY <1>1, <2>1, <2>2
<1>3. ASSUME NEW i \in DOMAIN s
      PROVE  s[i] \in Elements(s \o t)
  BY <1>1 DEF Elements
<1>4. ASSUME NEW i \in DOMAIN t
      PROVE  t[i] \in Elements(s \o t)
  <2>1. Len(s) + i \in DOMAIN (s \o t) /\ (s \o t)[Len(s) + i] = t[i]
    BY <1>1
  <2> QED
    BY <2>1 DEF Elements
<1> QED
  BY <1>1, <1>2, <1>3, <1>4 DEF Elements

\* The order with a provider in front.
LEMMA FrontElements ==
  ASSUME NEW order \in Seq(Extensions), NEW e \in Extensions
  PROVE  /\ Falling!Front(order, e) \in Seq(Extensions)
         /\ Falling!Front(order, e) # <<>> /\ Falling!Front(order, e)[1] = e
         /\ Elements(Falling!Front(order, e)) = {e} \cup Elements(order)
<1> DEFINE rest == Falling!Among(order, Extensions \ {e})
<1>1. rest \in Seq(Extensions) /\ Elements(rest) = Elements(order) \cap (Extensions \ {e})
  BY AmongElements
<1> HIDE DEF rest
<1>3. <<e>> \o rest \in Seq(Extensions) /\ Elements(<<e>> \o rest) = {e} \cup Elements(rest)
  <2> DEFINE one == <<e>>
  <2>1. one \in Seq(Extensions) /\ Elements(one) = {e}
    BY DEF Elements
  <2> HIDE DEF one
  <2>2. one \o rest \in Seq(Extensions) /\ Elements(one \o rest) = {e} \cup Elements(rest)
    BY <1>1, <2>1, JoinedElements
  <2> QED
    BY <2>2 DEF one
<1>4. <<e>> \o rest # <<>> /\ (<<e>> \o rest)[1] = e
  <2>1. Len(<<e>> \o rest) = 1 + Len(rest) /\ Len(rest) \in Nat /\ (<<e>> \o rest)[1] = e
    BY <1>1
  <2>2. Len(<<>>) = 0
    OBVIOUS
  <2> QED
    BY <2>1, <2>2
<1>5. Elements(order) \subseteq Extensions
  BY DEF Elements
<1>6. Falling!Front(order, e) = <<e>> \o rest
  BY DEF Falling!Front, rest
<1>7. {e} \cup Elements(rest) = {e} \cup Elements(order)
  BY <1>1, <1>5
<1> QED
  BY <1>3, <1>4, <1>6, <1>7

\* The order by health has none but providers of the order, and keeps the
\* protected one.
LEMMA ByHealthElements ==
  ASSUME NEW order \in Seq(Extensions), NEW protected, NEW health
  PROVE  /\ Falling!ByHealth(order, protected, health) \in Seq(Extensions)
         /\ Elements(Falling!ByHealth(order, protected, health)) \subseteq Elements(order)
         /\ protected \in Elements(order) =>
              protected \in Elements(Falling!ByHealth(order, protected, health))
<1> DEFINE rated(e) == e # protected /\ e \in Allowed /\ Falling!Usable(e)
           rank(e) == IF rated(e) THEN health[e] ELSE "unknown"
           set(h) == {e \in Extensions : rank(e) = h}
           those(h) == Falling!Among(order, set(h))
<1>1. Falling!ByHealth(order, protected, health)
        = those("online") \o those("degraded") \o those("unknown")
  BY DEF Falling!ByHealth
<1>2. protected \in Extensions => protected \in set("unknown")
  OBVIOUS
<1>3. Elements(order) \subseteq Extensions
  BY DEF Elements
<1> HIDE DEF set
<1>4. \A h : those(h) \in Seq(Extensions) /\ Elements(those(h)) = Elements(order) \cap set(h)
  BY AmongElements
<1> DEFINE good == those("online")
           fair == those("degraded")
           other == those("unknown")
<1>5. /\ good \in Seq(Extensions) /\ fair \in Seq(Extensions) /\ other \in Seq(Extensions)
      /\ Elements(good) = Elements(order) \cap set("online")
      /\ Elements(fair) = Elements(order) \cap set("degraded")
      /\ Elements(other) = Elements(order) \cap set("unknown")
  BY <1>4
<1> HIDE DEF good, fair, other
<1>6. good \o fair \in Seq(Extensions)
      /\ Elements(good \o fair) = Elements(good) \cup Elements(fair)
  BY <1>5, JoinedElements
<1>7. /\ (good \o fair) \o other \in Seq(Extensions)
      /\ Elements((good \o fair) \o other) = Elements(good \o fair) \cup Elements(other)
  <2> DEFINE both == good \o fair
  <2>1. both \in Seq(Extensions) /\ other \in Seq(Extensions)
    BY <1>5, <1>6
  <2> HIDE DEF both
  <2>2. both \o other \in Seq(Extensions)
        /\ Elements(both \o other) = Elements(both) \cup Elements(other)
    BY <2>1, JoinedElements
  <2> QED
    BY <2>2 DEF both
<1>8. Falling!ByHealth(order, protected, health) = (good \o fair) \o other
  BY <1>1 DEF good, fair, other
<1> QED
  BY <1>2, <1>3, <1>5, <1>6, <1>7, <1>8

\* moveProviderToFront loses none and adds none.
LEMMA InFrontElements ==
  ASSUME NEW order \in Seq(Extensions), NEW e \in Falling!ExtOrNone, NoExt \notin Extensions
  PROVE  /\ Falling!InFront(order, e) \in Seq(Extensions)
         /\ Elements(Falling!InFront(order, e)) = Elements(order)
         /\ e \in Elements(order) => Falling!InFront(order, e) # <<>>
            /\ Falling!InFront(order, e)[1] = e
<1>1. e \in Elements(order) => e \in Extensions
  BY DEF Elements
<1>2. (\E i \in DOMAIN order : order[i] = e) <=> e \in Elements(order)
  BY DEF Elements
<1>3. CASE e \in Elements(order)
  <2>1. Falling!InFront(order, e) = Falling!Front(order, e)
    BY <1>2, <1>3 DEF Falling!InFront
  <2>2. {e} \cup Elements(order) = Elements(order)
    BY <1>3
  <2>3. /\ Falling!Front(order, e) \in Seq(Extensions)
        /\ Falling!Front(order, e) # <<>> /\ Falling!Front(order, e)[1] = e
        /\ Elements(Falling!Front(order, e)) = {e} \cup Elements(order)
    BY <1>1, <1>3, FrontElements
  <2> QED
    BY <2>1, <2>2, <2>3
<1>4. CASE e \notin Elements(order)
  <2>1. Falling!InFront(order, e) = order
    BY <1>2, <1>4 DEF Falling!InFront
  <2> QED
    BY <1>4, <2>1
<1> QED
  BY <1>3, <1>4

-----------------------------------------------------------------------------
CallType ==
    [fresh : Falling!Request, has : SUBSET Falling!Fields,
     taken : {"nothing", "unprepared", "prepared"},
     selected : Falling!ExtOrNone,
     lock : {"none", "available", "unavailable"},
     queue : Seq(Extensions), asking : Falling!ExtOrNone,
     part : {"resume", "source", "loop"}, terminal : BOOLEAN,
     err : [type : {"none", "other", "verification", "storage"},
            of : Falling!ExtOrNone, service : Falling!ExtOrNone, retry : Falling!ExtOrNone],
     asked : SUBSET Extensions, lost : SUBSET Extensions,
     stopper : Falling!ExtOrNone]

AnswerType ==
    [type : Falling!Kinds, service : Falling!ExtOrNone, of : Falling!ExtOrNone,
     retry : Falling!ExtOrNone]

\* What holds of the locals `c` of a call that is at `p`.
\* Before its request is known nothing has been found and nobody stopped it.
Begun(p, c) ==
    p \in {"preflight", "start"} =>
        /\ c.taken = "nothing"
        /\ c.asking = IF c.fresh.service # NoExt THEN c.fresh.service ELSE c.fresh.source

\* Between attempts the last error is of the provider it names.
OwnError(p, c) ==
    IF p = "failed"
    THEN c.err.of = c.asking /\ c.err.retry \in {NoExt, c.asking}
    ELSE c.err.service = c.err.of /\ c.err.retry \in {NoExt, c.err.of}

Turns == {"asked", "attempt", "downloading", "failed"}
Tries == {"attempt", "downloading", "failed"}

\* Without fallback only the selected provider is in the order.
Strict(p, c) ==
    p \notin {"idle", "preflight", "start"} /\ ~c.fresh.fallback /\ c.fresh.service # NoExt =>
        /\ Elements(c.queue) \subseteq {c.fresh.service}
        /\ \/ c.selected = c.fresh.service
           \/ c.selected = c.fresh.source /\ c.lock # "none"
        /\ p \in Turns /\ c.part = "loop" => c.asking = c.fresh.service

\* Nobody has stopped a call whose source has not answered.
Unstopped(p, c) ==
    \/ p \in {"preflight", "start", "resume", "source"}
    \/ p = "asked" /\ c.part # "loop"
    \/ p \in Turns /\ c.part = "resume"
    => c.lock = "none" /\ c.stopper = NoExt

\* A source that locks the download is the selected provider from then on.
Locked(p, c) ==
    c.lock # "none" => c.selected = c.fresh.source /\ c.selected \in Downloaders \cap c.asked

\* Whose turn it is.
Turn(p, c) ==
    p \in Turns =>
        /\ c.asking \in Downloaders \cap c.asked
        /\ c.part = "resume" => c.asking = c.selected
        /\ c.part = "source" => c.asking = c.fresh.source
        /\ p # "asked" /\ c.part = "source" => c.selected = c.fresh.source

\* Who stopped the fallback has the download, or was disabled.
Stopped(p, c) ==
    c.stopper # NoExt =>
        /\ p \in {"enrich", "search", "selected"} \/ (p \in Tries /\ c.part = "source") =>
             c.lock # "none" /\ c.stopper = c.fresh.source
        /\ p \in {"order", "loop"} \/ (p = "asked" /\ c.part = "loop") =>
             c.stopper \in c.lost
        /\ p \in Tries /\ c.part = "loop" =>
             c.stopper \in c.lost \/ (c.stopper = c.asking /\ c.terminal)

\* The selected provider is in the order until it is asked, and first in the
\* loop.
First(p, c) ==
    c.selected \in Downloaders =>
        /\ \/ p \in {"resume", "source", "enrich", "search", "selected", "order"}
           \/ p \in Turns /\ c.part # "loop"
           => c.selected \in c.asked \cup Elements(c.queue)
        /\ p = "loop" =>
             \/ c.selected \in c.asked \cup c.lost
             \/ c.queue # <<>> /\ c.queue[1] = c.selected
        /\ p \in Turns /\ c.part = "loop" => c.selected \in c.asked \cup c.lost

Sound(p, c) ==
    /\ c \in CallType
    /\ Begun(p, c) /\ OwnError(p, c) /\ Strict(p, c) /\ Unstopped(p, c) /\ Locked(p, c)
    /\ Turn(p, c) /\ Stopped(p, c) /\ First(p, c)

Rest ==
    /\ response \in AnswerType
    /\ Falling!ErrorOwned
    /\ cancelled \in BOOLEAN
    /\ enabled \subseteq Extensions
    /\ file \in {"none", "good", "rest"}
    /\ paused = entry.key

FallingIInv ==
    /\ place \in Falling!Points
    /\ Sound(place, call)
    /\ place # "idle" => Extensions \ enabled \subseteq call.lost
    /\ Rest

LEMMA IdleSound == Sound("idle", Falling!Idle)
<1>1. Falling!Idle = [fresh |-> Falling!NoRequest, has |-> {}, taken |-> "nothing",
              selected |-> NoExt,
              lock |-> "none", queue |-> <<>>, asking |-> NoExt,
              part |-> "source", terminal |-> FALSE, err |-> Falling!NoErr,
              asked |-> {}, lost |-> {}, stopper |-> NoExt]
  <2> DEFINE c == Falling!Called(Falling!NoRequest)
  <2>1. c = [fresh |-> Falling!NoRequest, has |-> {}, taken |-> "nothing", selected |-> NoExt,
             lock |-> "none", queue |-> <<>>, asking |-> NoExt,
             part |-> "source", terminal |-> FALSE, err |-> Falling!NoErr,
             asked |-> {}, lost |-> Extensions \ enabled, stopper |-> NoExt]
    BY DEF Falling!Called, Falling!NoRequest
  <2>2. Falling!Idle = [c EXCEPT !.lost = {}]
    BY DEF Falling!Idle
  <2> HIDE DEF c
  <2> QED
    BY <2>1, <2>2
<1>2. Falling!NoRequest \in Falling!Request
      /\ Falling!NoErr \in [type : {"none", "other", "verification", "storage"},
            of : Falling!ExtOrNone, service : Falling!ExtOrNone, retry : Falling!ExtOrNone]
  BY DEF Falling!NoRequest, Falling!Request, Falling!ExtOrNone, Falling!NoErr
<1>3. Falling!Idle \in CallType
  BY <1>1, <1>2 DEF CallType, Falling!ExtOrNone
<1> QED
  BY <1>1, <1>3, FallbackAssumption DEF Sound, Begun, OwnError, Strict, Unstopped, Locked, Turn,
     Stopped, First, Falling!NoErr, Turns, Tries

\* A step within a call.
LEMMA GoesKeeps ==
  ASSUME FallingIInv, NEW p \in Falling!Points, NEW c, p # "idle", place # "idle",
         Falling!Goes(p, c),
         Sound(p, c), c.lost = call.lost
  PROVE  FallingIInv'
  BY DEF FallingIInv, Falling!Goes, Rest, Falling!ErrorOwned

\* The end of a call.
LEMMA ReturnsKeeps ==
  ASSUME FallingIInv, NEW answer \in AnswerType, Falling!Returns(answer),
         answer.type = "exhausted" =>
            answer.service = answer.of /\ answer.retry \in {NoExt, answer.of},
         file' \in {"none", "good", "rest"}, paused' = entry'.key
  PROVE  FallingIInv'
  BY IdleSound DEF FallingIInv, Falling!Returns, Rest, Falling!ErrorOwned, Falling!Points

LEMMA GivesUpKeeps ==
  ASSUME FallingIInv, NEW type \in Falling!Kinds, type # "exhausted", Falling!GivesUp(type),
         file' \in {"none", "good", "rest"}
  PROVE  FallingIInv'
<1>1. Falling!Answer(type) \in AnswerType /\ Falling!Answer(type).type = type
  BY DEF FallingIInv, Sound, CallType, Falling!Answer, Falling!NoAnswer, AnswerType,
     Falling!Asking, Falling!ExtOrNone
<1>2. Falling!Returns(Falling!Answer(type)) /\ UNCHANGED <<entry, paused>>
  BY DEF Falling!GivesUp
<1>3. paused' = entry'.key
  BY <1>2 DEF FallingIInv, Rest
<1> QED
  BY <1>1, <1>2, <1>3, ReturnsKeeps

LEMMA PauseKeeps ==
  ASSUME FallingIInv, NEW prepared, Falling!Pause(prepared)
  PROVE  FallingIInv'
<1>1. Falling!Answer("verification") \in AnswerType
      /\ Falling!Answer("verification").type = "verification"
  BY DEF FallingIInv, Sound, CallType, Falling!Answer, Falling!NoAnswer, AnswerType,
     Falling!Asking, Falling!ExtOrNone, Falling!Kinds
<1>2. /\ Falling!Returns(Falling!Answer("verification")) /\ file' = file
      /\ entry' = [key |-> Falling!Key, has |-> call.has, prepared |-> prepared]
         /\ paused' = Falling!Key
  BY DEF Falling!Pause
<1>3. paused' = entry'.key /\ file' \in {"none", "good", "rest"}
  BY <1>2 DEF FallingIInv, Rest
<1> QED
  BY <1>1, <1>2, <1>3, ReturnsKeeps

-----------------------------------------------------------------------------
\* The steps of a call before it has a request.
LEMMA NewRequestKeeps ==
  ASSUME FallingIInv, Falling!NewRequest
  PROVE  FallingIInv'
<1>1. PICK r \in Requests : call' = Falling!Called(r)
  BY DEF Falling!NewRequest
<1>2. /\ place' = "preflight" /\ response' = Falling!NoAnswer
      /\ UNCHANGED <<entry, cancelled, enabled, file, paused>>
  BY DEF Falling!NewRequest
<1>3. r \in Falling!Request
  BY FallbackAssumption
<1> DEFINE c == Falling!Called(r)
<1>4. c = [fresh |-> r, has |-> r.has, taken |-> "nothing", selected |-> NoExt,
           lock |-> "none", queue |-> <<>>,
           asking |-> IF r.service # NoExt THEN r.service ELSE r.source,
           part |-> "source", terminal |-> FALSE, err |-> Falling!NoErr,
           asked |-> {}, lost |-> Extensions \ enabled, stopper |-> NoExt]
  BY DEF Falling!Called
<1> HIDE DEF c
<1>5. c \in CallType
  BY <1>3, <1>4 DEF CallType, Falling!NoErr, Falling!Request, Falling!ExtOrNone
<1>6. Sound("preflight", c)
  BY <1>4, <1>5, FallbackAssumption DEF Sound, Begun, OwnError, Strict, Unstopped, Locked, Turn,
     Stopped, First, Falling!NoErr, Turns, Tries
<1>7. call' = c /\ c.lost = Extensions \ enabled
  BY <1>1, <1>4 DEF c
<1>8. Rest'
  BY <1>2 DEF FallingIInv, Rest, Falling!ErrorOwned, Falling!NoAnswer, AnswerType,
     Falling!Kinds, Falling!ExtOrNone
<1> QED
  BY <1>2, <1>6, <1>7, <1>8 DEF FallingIInv, Falling!Points

LEMMA PreflightKeeps ==
  ASSUME FallingIInv, Falling!PreflightPasses \/ Falling!PreflightFails
  PROVE  FallingIInv'
<1>1. CASE Falling!PreflightPasses
  <2>1. place = "preflight" /\ Falling!Goes("start", call)
    BY <1>1 DEF Falling!PreflightPasses
  <2>2. Sound("start", call)
    BY <2>1 DEF FallingIInv, Sound, Begun, OwnError, Strict, Unstopped, Locked, Turn, Stopped,
       First,
       Turns, Tries
  <2> QED
    BY <2>1, <2>2, GoesKeeps DEF Falling!Points
<1>2. CASE Falling!PreflightFails
  <2>1. (Falling!GivesUp("failed") /\ UNCHANGED file) \/ Falling!Pause(FALSE)
    BY <1>2 DEF Falling!PreflightFails
  <2>2. file \in {"none", "good", "rest"} /\ "failed" \in Falling!Kinds
    BY DEF FallingIInv, Rest, Falling!Kinds
  <2> QED
    BY <2>1, <2>2, GivesUpKeeps, PauseKeeps
<1> QED
  BY <1>1, <1>2

LEMMA CancelledKeeps ==
  ASSUME FallingIInv, Falling!Quits
  PROVE  FallingIInv'
<1>1. file \in {"none", "good", "rest"} /\ "cancelled" \in Falling!Kinds
  BY DEF FallingIInv, Rest, Falling!Kinds
<1> QED
  BY <1>1, GivesUpKeeps DEF Falling!Quits

\* The cached request and the order.
LEMMA StartKeeps ==
  ASSUME FallingIInv, Falling!Start
  PROVE  FallingIInv'
<1>1. /\ place = "start" /\ entry' = Falling!NoEntry /\ paused' = <<>> /\ file' = file
  BY DEF Falling!Start
<1>2. paused' = entry'.key /\ file' \in {"none", "good", "rest"}
  BY <1>1 DEF FallingIInv, Rest, Falling!NoEntry
<1>3. CASE Falling!Returns(Falling!Answer("cancelled"))
  <2>1. Falling!Answer("cancelled") \in AnswerType
        /\ Falling!Answer("cancelled").type = "cancelled"
    BY DEF FallingIInv, Sound, CallType, Falling!Answer, Falling!NoAnswer, AnswerType,
       Falling!Asking, Falling!ExtOrNone, Falling!Kinds
  <2> QED
    BY <1>2, <1>3, <2>1, ReturnsKeeps
<1>4. CASE /\ call' \in Falling!Selection(Falling!Taken)
           /\ place' = IF call'.taken = "unprepared" THEN "resume" ELSE "source"
           /\ UNCHANGED <<response, cancelled, enabled>>
  <2> DEFINE c == Falling!Taken
  <2>1. Sound("start", call)
    BY <1>1 DEF FallingIInv
  <2>2. /\ c \in CallType
        /\ c.fresh = call.fresh /\ c.lock = call.lock /\ c.stopper = call.stopper
        /\ c.err = call.err /\ c.asking = call.asking /\ c.lost = call.lost
    <3>1. CASE Falling!Found
      <4> DEFINE t == IF entry.prepared THEN "prepared" ELSE "unprepared"
                 h == (entry.has \cap Falling!Restored) \cup (call.has \ Falling!Restored)
      <4>1. t \in {"nothing", "unprepared", "prepared"} /\ h \in SUBSET Falling!Fields
        BY <2>1 DEF Sound, CallType, Falling!Restored, Falling!Fields
      <4>2. c = [call EXCEPT !.taken = t, !.has = h]
        BY <3>1 DEF Falling!Taken
      <4> HIDE DEF t, h
      <4> QED
        BY <2>1, <4>1, <4>2 DEF Sound, CallType
    <3>2. CASE ~Falling!Found
      BY <2>1, <3>2 DEF Falling!Taken, Sound
    <3> QED
      BY <3>1, <3>2
  <2> HIDE DEF c
  <2>3. /\ c.lock = "none" /\ c.stopper = NoExt
        /\ c.asking = IF c.fresh.service # NoExt THEN c.fresh.service ELSE c.fresh.source
        /\ c.err.service = c.err.of /\ c.err.retry \in {NoExt, c.err.of}
    BY <2>1, <2>2 DEF Sound, Begun, OwnError, Unstopped
  <2>4. c.fresh.service \in Falling!ExtOrNone /\ c.asking \in Falling!ExtOrNone
    BY <2>2 DEF CallType, Falling!Request
  <2>5. PICK selected \in Falling!ExtOrNone, queue \in Seq(Extensions) :
          /\ call' = [c EXCEPT !.selected = selected, !.queue = queue]
          /\ selected \in Downloaders => selected \in Elements(queue)
          /\ ~c.fresh.fallback /\ c.fresh.service # NoExt =>
               selected = c.fresh.service /\ Elements(queue) \subseteq {c.fresh.service}
    <3>1. CASE ~c.fresh.fallback /\ c.asking # NoExt
      <4>1. call' = [c EXCEPT !.selected = c.asking, !.queue = <<c.asking>>]
        BY <1>4, <3>1 DEF Falling!Selection, c
      <4>2. c.asking \in Extensions /\ Elements(<<c.asking>>) = {c.asking}
            /\ <<c.asking>> \in Seq(Extensions)
        BY <2>4, <3>1 DEF Falling!ExtOrNone, Elements
      <4> QED
        BY <2>3, <2>4, <4>1, <4>2
    <3>2. CASE ~(~c.fresh.fallback /\ c.asking # NoExt)
      <4>1. PICK order \in Orders :
              call' = [c EXCEPT !.selected = c.fresh.service,
                                !.queue = IF c.fresh.service = NoExt THEN order
                                          ELSE Falling!Front(order, c.fresh.service)]
        BY <1>4, <3>2 DEF Falling!Selection, c
      <4>2. order \in Seq(Extensions)
        BY FallbackAssumption
      <4>3. CASE c.fresh.service = NoExt
        BY <2>4, <4>1, <4>2, <4>3, FallbackAssumption
      <4>4. CASE c.fresh.service # NoExt
        <5>1. c.fresh.service \in Extensions
          BY <2>4, <4>4 DEF Falling!ExtOrNone
        <5>2. /\ Falling!Front(order, c.fresh.service) \in Seq(Extensions)
              /\ c.fresh.service \in Elements(Falling!Front(order, c.fresh.service))
          BY <4>2, <5>1, FrontElements
        <5> QED
          BY <2>3, <2>4, <3>2, <4>1, <4>4, <5>2
      <4> QED
        BY <4>3, <4>4
    <3> QED
      BY <3>1, <3>2
  <2> DEFINE d == [c EXCEPT !.selected = selected, !.queue = queue]
  <2>6. /\ d \in CallType /\ d.selected = selected /\ d.queue = queue
        /\ d.fresh = c.fresh /\ d.lock = c.lock /\ d.stopper = c.stopper
        /\ d.err = c.err /\ d.asking = c.asking /\ d.lost = c.lost
    BY <2>2 DEF CallType
  <2> HIDE DEF d
  <2>7. ASSUME NEW p \in {"resume", "source"}
        PROVE  Sound(p, d)
    BY <2>3, <2>5, <2>6 DEF Sound, Begun, OwnError, Strict, Unstopped, Locked, Turn, Stopped,
       First, Turns, Tries
  <2>8. call' = d /\ place' \in {"resume", "source"}
    BY <1>4, <2>5 DEF d
  <2>9. Rest'
    BY <1>2, <1>4 DEF FallingIInv, Rest, Falling!ErrorOwned
  <2>10. d.lost = call.lost
    BY <2>2, <2>6
  <2> QED
    BY <1>1, <1>4, <2>7, <2>8, <2>9, <2>10 DEF FallingIInv, Falling!Points
<1> QED
  BY <1>3, <1>4 DEF Falling!Start

-----------------------------------------------------------------------------
(* Who is asked.                                                           *)
LEMMA AsksIs ==
  ASSUME call \in CallType, NEW e \in Extensions,
         NEW part \in {"resume", "source", "loop"}, NEW c, c = Falling!Asks(e, part)
  PROVE  /\ c \in CallType
         /\ c.asking = e /\ c.part = part /\ ~c.terminal /\ c.asked = call.asked \cup {e}
         /\ c.fresh = call.fresh /\ c.has = call.has /\ c.taken = call.taken
         /\ c.selected = call.selected /\ c.lock = call.lock /\ c.queue = call.queue
         /\ c.err = call.err /\ c.lost = call.lost /\ c.stopper = call.stopper
<1> DEFINE those == call.asked \cup {e}
<1>1. those \in SUBSET Extensions
  BY DEF CallType
<1>2. c = [call EXCEPT !.asking = e, !.part = part, !.terminal = FALSE, !.asked = those]
  BY DEF Falling!Asks
<1>3. e \in Falling!ExtOrNone
  BY DEF Falling!ExtOrNone
<1> HIDE DEF those
<1>4. /\ c \in CallType
      /\ c.asking = e /\ c.part = part /\ ~c.terminal /\ c.asked = those
      /\ c.fresh = call.fresh /\ c.has = call.has /\ c.taken = call.taken
      /\ c.selected = call.selected /\ c.lock = call.lock /\ c.queue = call.queue
      /\ c.err = call.err /\ c.lost = call.lost /\ c.stopper = call.stopper
  BY <1>1, <1>2, <1>3 DEF CallType
<1> QED
  BY <1>4 DEF those

\* A step that leaves the locals as they are.
LEMMA ResumeKeeps ==
  ASSUME FallingIInv, Falling!Resume
  PROVE  FallingIInv'
<1>1. place = "resume" /\ Sound("resume", call)
  BY DEF Falling!Resume, FallingIInv
<1>2. CASE Falling!Goes("source", call)
  <2>1. Sound("source", call)
    BY <1>1 DEF Sound, Begun, OwnError, Strict, Unstopped, Locked, Turn, Stopped,
     First, Turns, Tries
  <2> QED
    BY <1>1, <1>2, <2>1, GoesKeeps DEF Falling!Points
<1>3. CASE ~Falling!ResumeSkipped
           /\ Falling!Goes(IF Falling!Source = Falling!Selected THEN "attempt" ELSE "asked",
                                  Falling!Asks(Falling!Selected, "resume"))
  <2> DEFINE c == Falling!Asks(Falling!Selected, "resume")
  <2>1. call.selected \in Extensions /\ call.selected \in Downloaders
    BY <1>3, FallbackAssumption DEF Falling!ResumeSkipped, Falling!Selected, Falling!Usable
  <2>2. /\ c \in CallType
        /\ c.asking = call.selected /\ c.part = "resume"
           /\ c.asked = call.asked \cup {call.selected}
        /\ c.fresh = call.fresh /\ c.taken = call.taken
        /\ c.selected = call.selected /\ c.lock = call.lock /\ c.queue = call.queue
        /\ c.err = call.err /\ c.lost = call.lost /\ c.stopper = call.stopper
    BY <1>1, <2>1, AsksIs DEF Sound, Falling!Selected
  <2> HIDE DEF c
  <2>3. ASSUME NEW p \in {"attempt", "asked"}
        PROVE  Sound(p, c)
    BY <1>1, <2>1, <2>2 DEF Sound, Begun, OwnError, Strict, Unstopped, Locked, Turn, Stopped,
     First, Turns, Tries
  <2>4. PICK p \in {"attempt", "asked"} : Falling!Goes(p, c)
    BY <1>3 DEF c
  <2> QED
    BY <1>1, <2>2, <2>3, <2>4, GoesKeeps DEF Falling!Points
<1> QED
  BY <1>2, <1>3 DEF Falling!Resume

LEMMA AskSourceKeeps ==
  ASSUME FallingIInv, Falling!AskSource
  PROVE  FallingIInv'
<1>1. place = "source" /\ Sound("source", call)
  BY DEF Falling!AskSource, FallingIInv
<1>2. CASE Falling!Goes("enrich", call)
  <2>1. Sound("enrich", call)
    BY <1>1 DEF Sound, Begun, OwnError, Strict, Unstopped, Locked, Turn, Stopped,
     First, Turns, Tries
  <2> QED
    BY <1>1, <1>2, <2>1, GoesKeeps DEF Falling!Points
<1>3. CASE Falling!Usable(Falling!Source)
           /\ Falling!Goes("asked", Falling!Asks(Falling!Source, "source"))
  <2> DEFINE c == Falling!Asks(Falling!Source, "source")
  <2>1. call.fresh.source \in Extensions /\ call.fresh.source \in Downloaders
    BY <1>3, FallbackAssumption DEF Falling!Source, Falling!Usable
  <2>2. /\ c \in CallType
        /\ c.asking = call.fresh.source /\ c.part = "source"
        /\ c.asked = call.asked \cup {call.fresh.source}
        /\ c.fresh = call.fresh /\ c.taken = call.taken
        /\ c.selected = call.selected /\ c.lock = call.lock /\ c.queue = call.queue
        /\ c.err = call.err /\ c.lost = call.lost /\ c.stopper = call.stopper
    BY <1>1, <2>1, AsksIs DEF Sound, Falling!Source
  <2> HIDE DEF c
  <2>3. Sound("asked", c)
    BY <1>1, <2>1, <2>2 DEF Sound, Begun, OwnError, Strict, Unstopped, Locked, Turn, Stopped,
     First, Turns, Tries
  <2>4. Falling!Goes("asked", c)
    BY <1>3 DEF c
  <2> QED
    BY <1>1, <2>2, <2>3, <2>4, GoesKeeps DEF Falling!Points
<1> QED
  BY <1>2, <1>3 DEF Falling!AskSource

\* The answers of those who are asked.
LEMMA AnswersResumeKeeps ==
  ASSUME FallingIInv, NEW a \in Falling!Answers, Falling!AnswersResume(a)
  PROVE  FallingIInv'
<1>1. place = "asked" /\ call.part = "resume" /\ Sound("asked", call)
  BY DEF Falling!AnswersResume, Falling!CanAnswer, FallingIInv
<1>2. file \in {"none", "good", "rest"} /\ "verification" \in Falling!Kinds
      /\ "stopped" \in Falling!Kinds
  BY DEF FallingIInv, Rest, Falling!Kinds
<1>3. CASE Falling!Goes("attempt", call) \/ Falling!Goes("source", call)
  <2>1. ASSUME NEW p \in {"attempt", "source"}
        PROVE  Sound(p, call)
    BY <1>1 DEF Sound, Begun, OwnError, Strict, Unstopped, Locked, Turn, Stopped,
     First, Turns, Tries
  <2> QED
    BY <1>1, <1>3, <2>1, GoesKeeps DEF Falling!Points
<1>4. CASE Falling!GivesUp("verification") /\ UNCHANGED file
  BY <1>2, <1>4, GivesUpKeeps
<1>5. CASE Falling!GivesUp("stopped") /\ UNCHANGED file
  BY <1>2, <1>5, GivesUpKeeps
<1> QED
  BY <1>3, <1>4, <1>5 DEF Falling!AnswersResume

LEMMA AnswersSourceKeeps ==
  ASSUME FallingIInv, NEW a \in Falling!Answers, Falling!AnswersSource(a)
  PROVE  FallingIInv'
<1>1. place = "asked" /\ call.part = "source" /\ Sound("asked", call)
  BY DEF Falling!AnswersSource, Falling!CanAnswer, FallingIInv
<1>2. CASE Falling!Stops(a)
  <2> DEFINE lock == IF Falling!Available(a) THEN "available" ELSE "unavailable"
             c == [call EXCEPT !.lock = lock, !.selected = call.asking, !.stopper = call.asking]
  <2>1. Falling!Goes("enrich", c)
    BY <1>2 DEF Falling!AnswersSource, Falling!Asking
  <2>2. lock \in {"available", "unavailable"}
    OBVIOUS
  <2> HIDE DEF lock
  <2>3. /\ c \in CallType /\ c.lock = lock /\ c.selected = call.asking
        /\ c.stopper = call.asking
        /\ c.asking = call.asking /\ c.part = call.part /\ c.asked = call.asked
        /\ c.fresh = call.fresh /\ c.taken = call.taken /\ c.queue = call.queue
        /\ c.err = call.err /\ c.lost = call.lost
    BY <1>1, <2>2 DEF Sound, CallType
  <2> HIDE DEF c
  <2>4. Sound("enrich", c)
    BY <1>1, <2>2, <2>3 DEF Sound, Begun, OwnError, Strict, Unstopped, Locked, Turn, Stopped,
     First, Turns, Tries
  <2> QED
    BY <1>1, <2>1, <2>3, <2>4, GoesKeeps DEF Falling!Points
<1>3. CASE ~Falling!Stops(a)
  <2>1. Falling!Goes("enrich", call)
    BY <1>3 DEF Falling!AnswersSource
  <2>2. Sound("enrich", call)
    BY <1>1 DEF Sound, Begun, OwnError, Strict, Unstopped, Locked, Turn, Stopped,
     First, Turns, Tries
  <2> QED
    BY <1>1, <2>1, <2>2, GoesKeeps DEF Falling!Points
<1> QED
  BY <1>2, <1>3

LEMMA AnswersLoopKeeps ==
  ASSUME FallingIInv, NEW a \in Falling!Answers, Falling!AnswersLoop(a)
  PROVE  FallingIInv'
<1>1. place = "asked" /\ call.part = "loop" /\ Sound("asked", call)
  BY DEF Falling!AnswersLoop, Falling!CanAnswer, FallingIInv
<1>2. file \in {"none", "good", "rest"} /\ "stopped" \in Falling!Kinds
  BY DEF FallingIInv, Rest, Falling!Kinds
<1>3. CASE a = "verification"
  BY <1>3, PauseKeeps DEF Falling!AnswersLoop, Falling!Answers, Falling!Available
<1>4. CASE a = "no stop"
  <2>1. Falling!GivesUp("stopped") /\ UNCHANGED file
    BY <1>4 DEF Falling!AnswersLoop, Falling!Answers, Falling!Available
  <2> QED
    BY <1>2, <2>1, GivesUpKeeps
<1>5. CASE a = "no"
  <2>1. Falling!Goes("loop", call)
    BY <1>5 DEF Falling!AnswersLoop, Falling!Answers, Falling!Available
  <2>2. Sound("loop", call)
    BY <1>1 DEF Sound, Begun, OwnError, Strict, Unstopped, Locked, Turn, Stopped,
     First, Turns, Tries
  <2> QED
    BY <1>1, <2>1, <2>2, GoesKeeps DEF Falling!Points
<1>6. CASE a = "error"
  <2> DEFINE err == [type |-> "other", of |-> call.asking, service |-> call.asking,
                     retry |-> NoExt]
             c == [call EXCEPT !.err = err]
  <2>1. Falling!Goes("loop", c)
    BY <1>6 DEF Falling!AnswersLoop, Falling!Answers, Falling!Available, Falling!Asking
  <2>2. err \in [type : {"none", "other", "verification", "storage"},
                 of : Falling!ExtOrNone, service : Falling!ExtOrNone, retry : Falling!ExtOrNone]
        /\ err.service = err.of /\ err.retry = NoExt
    BY <1>1 DEF Sound, CallType, Falling!ExtOrNone
  <2> HIDE DEF err
  <2>3. /\ c \in CallType /\ c.err = err /\ c.lock = call.lock /\ c.selected = call.selected
        /\ c.stopper = call.stopper
        /\ c.asking = call.asking /\ c.part = call.part /\ c.asked = call.asked
        /\ c.fresh = call.fresh /\ c.taken = call.taken /\ c.queue = call.queue
        /\ c.lost = call.lost /\ c.terminal = call.terminal
    BY <1>1, <2>2 DEF Sound, CallType
  <2> HIDE DEF c
  <2>4. Sound("loop", c)
    BY <1>1, <2>2, <2>3 DEF Sound, Begun, OwnError, Strict, Unstopped, Locked, Turn, Stopped,
     First, Turns, Tries
  <2> QED
    BY <1>1, <2>1, <2>3, <2>4, GoesKeeps DEF Falling!Points
<1>7. CASE Falling!Available(a)
  <2> DEFINE stops == Falling!Stops(a)
             stopper == IF stops THEN call.asking ELSE call.stopper
             c == [call EXCEPT !.terminal = stops, !.stopper = stopper]
  <2>1. Falling!Goes("attempt", c)
    BY <1>7 DEF Falling!AnswersLoop, Falling!Answers, Falling!Available, Falling!Asking
  <2>2. stops \in BOOLEAN /\ stopper \in Falling!ExtOrNone
    <3>1. stops \in BOOLEAN
      BY DEF Falling!Stops
    <3>2. call.asking \in Falling!ExtOrNone /\ call.stopper \in Falling!ExtOrNone
      BY <1>1 DEF Sound, CallType
    <3> HIDE DEF stops
    <3> QED
      BY <3>1, <3>2
  <2>3. stopper = call.stopper \/ (stopper = call.asking /\ stops)
    OBVIOUS
  <2> HIDE DEF stops, stopper
  <2>4. /\ c \in CallType /\ c.err = call.err /\ c.lock = call.lock
        /\ c.selected = call.selected /\ c.stopper = stopper
        /\ c.asking = call.asking /\ c.part = call.part /\ c.asked = call.asked
        /\ c.fresh = call.fresh /\ c.taken = call.taken /\ c.queue = call.queue
        /\ c.lost = call.lost /\ c.terminal = stops
    BY <1>1, <2>2 DEF Sound, CallType
  <2> HIDE DEF c
  <2>5. Sound("attempt", c)
    BY <1>1, <2>2, <2>3, <2>4 DEF Sound, Begun, OwnError, Strict, Unstopped, Locked, Turn,
       Stopped,
     First, Turns, Tries
  <2> QED
    BY <1>1, <2>1, <2>4, <2>5, GoesKeeps DEF Falling!Points
<1> QED
  BY <1>3, <1>4, <1>5, <1>6, <1>7 DEF Falling!Answers, Falling!Available

\* Metadata.
LEMMA HasKeeps ==
  ASSUME FallingIInv, NEW p, NEW q,
         <<p, q>> \in {<<"enrich", "search">>, <<"search", "selected">>},
         place = p, NEW c, Falling!Goes(q, c),
         \/ c = call
         \/ \E more \in SUBSET Falling!Fields : c = [call EXCEPT !.has = @ \cup more]
  PROVE  FallingIInv'
<1>1. Sound(p, call)
  BY DEF FallingIInv
<1>2. /\ c \in CallType /\ c.err = call.err /\ c.lock = call.lock /\ c.selected = call.selected
      /\ c.stopper = call.stopper
      /\ c.asking = call.asking /\ c.part = call.part /\ c.asked = call.asked
      /\ c.fresh = call.fresh /\ c.taken = call.taken /\ c.queue = call.queue
      /\ c.lost = call.lost /\ c.terminal = call.terminal
  <2>1. CASE c = call
    BY <1>1, <2>1 DEF Sound
  <2>2. CASE c # call
    <3>1. PICK more \in SUBSET Falling!Fields : c = [call EXCEPT !.has = @ \cup more]
      BY <2>2
    <3> DEFINE h == call.has \cup more
    <3>2. h \in SUBSET Falling!Fields
      BY <1>1 DEF Sound, CallType
    <3>3. c = [call EXCEPT !.has = h]
      BY <3>1
    <3> HIDE DEF h
    <3> QED
      BY <1>1, <3>2, <3>3 DEF Sound, CallType
  <2> QED
    BY <2>1, <2>2
<1>3. Sound(q, c)
  BY <1>1, <1>2 DEF Sound, Begun, OwnError, Strict, Unstopped, Locked, Turn, Stopped,
     First, Turns, Tries
<1> QED
  BY <1>2, <1>3, GoesKeeps DEF Falling!Points

LEMMA EnrichKeeps ==
  ASSUME FallingIInv, Falling!EnrichFromSource \/ Falling!EnrichFromSearch
  PROVE  FallingIInv'
<1>1. CASE Falling!Quits
  BY <1>1, CancelledKeeps
<1>2. ASSUME place = "enrich", NEW c, Falling!Goes("search", c),
             \/ c = call
             \/ \E more \in SUBSET Falling!Fields : c = [call EXCEPT !.has = @ \cup more]
      PROVE  FallingIInv'
  BY <1>2, HasKeeps
<1>3. ASSUME place = "search", NEW c, Falling!Goes("selected", c),
             \/ c = call
             \/ \E more \in SUBSET Falling!Fields : c = [call EXCEPT !.has = @ \cup more]
      PROVE  FallingIInv'
  BY <1>3, HasKeeps
<1>4. CASE Falling!EnrichFromSource
  BY <1>1, <1>2, <1>4 DEF Falling!EnrichFromSource, Falling!Fills
<1>5. CASE Falling!EnrichFromSearch
  <2>1. \A more \in SUBSET (Falling!Fields \ {"ids"}) : more \in SUBSET Falling!Fields
    OBVIOUS
  <2> QED
    BY <1>1, <1>3, <1>5, <2>1 DEF Falling!EnrichFromSearch, Falling!Fills
<1> QED
  BY <1>4, <1>5

\* The source extension, if it is the selected provider.
LEMMA TrySourceKeeps ==
  ASSUME FallingIInv, Falling!TrySource
  PROVE  FallingIInv'
<1>1. place = "selected" /\ Sound("selected", call) /\ Extensions \ enabled \subseteq call.lost
  BY DEF Falling!TrySource, FallingIInv
<1>2. file \in {"none", "good", "rest"} /\ "stopped" \in Falling!Kinds
  BY DEF FallingIInv, Rest, Falling!Kinds
<1>3. CASE Falling!GivesUp("stopped") /\ UNCHANGED file
  BY <1>2, <1>3, GivesUpKeeps
<1>4. CASE /\ Falling!Source # NoExt /\ Falling!Selected = Falling!Source
              /\ call.lock # "unavailable" /\ Falling!Usable(Falling!Source)
           /\ Falling!Goes("attempt", Falling!Asks(Falling!Source, "source"))
  <2> DEFINE c == Falling!Asks(Falling!Source, "source")
  <2>1. call.fresh.source \in Extensions /\ call.fresh.source \in Downloaders
        /\ call.selected = call.fresh.source
    BY <1>4, FallbackAssumption DEF Falling!Source, Falling!Selected, Falling!Usable
  <2>2. /\ c \in CallType
        /\ c.asking = call.fresh.source /\ c.part = "source"
        /\ c.asked = call.asked \cup {call.fresh.source}
        /\ c.fresh = call.fresh /\ c.taken = call.taken
        /\ c.selected = call.selected /\ c.lock = call.lock /\ c.queue = call.queue
        /\ c.err = call.err /\ c.lost = call.lost /\ c.stopper = call.stopper
    BY <1>1, <2>1, AsksIs DEF Sound, Falling!Source
  <2> HIDE DEF c
  <2>3. Sound("attempt", c)
    BY <1>1, <2>1, <2>2 DEF Sound, Begun, OwnError, Strict, Unstopped, Locked, Turn, Stopped,
     First, Turns, Tries
  <2>4. Falling!Goes("attempt", c)
    BY <1>4 DEF c
  <2> QED
    BY <1>1, <2>2, <2>3, <2>4, GoesKeeps DEF Falling!Points
<1>5. CASE /\ Falling!Goes("order", call)
           /\ Falling!Source # NoExt /\ Falling!Selected = Falling!Source =>
                call.lock # "unavailable" /\ ~Falling!Usable(Falling!Source)
  <2>1. call.stopper # NoExt => call.stopper \in call.lost
    <3> SUFFICES ASSUME call.stopper # NoExt PROVE call.stopper \in call.lost
      OBVIOUS
    <3>1. /\ call.lock # "none" /\ call.stopper = call.fresh.source
          /\ call.selected = call.fresh.source /\ call.selected \in Downloaders
      BY <1>1 DEF Sound, Stopped, Locked
    <3>2. call.selected \in Extensions /\ call.selected \notin enabled
      BY <1>5, <3>1, FallbackAssumption DEF Falling!Usable, Falling!Source, Falling!Selected
    <3> QED
      BY <1>1, <3>1, <3>2
  <2>2. Sound("order", call)
    BY <1>1, <2>1 DEF Sound, Begun, OwnError, Strict, Unstopped, Locked, Turn, Stopped,
     First, Turns, Tries
  <2> QED
    BY <1>1, <1>5, <2>2, GoesKeeps DEF Falling!Points
<1> QED
  BY <1>3, <1>4, <1>5 DEF Falling!TrySource

\* The fallback loop.
LEMMA ReorderKeeps ==
  ASSUME FallingIInv, Falling!Reorder
  PROVE  FallingIInv'
<1>1. place = "order" /\ Sound("order", call)
  BY DEF Falling!Reorder, FallingIInv
<1> DEFINE protected == IF Falling!Selected # NoExt THEN Falling!Selected ELSE Falling!Source
<1>2. PICK health \in [Extensions -> {"online", "degraded", "unknown", "offline"}] :
        Falling!Goes("loop",
          [call EXCEPT !.queue = Falling!InFront(Falling!ByHealth(@, protected, health),
                                                Falling!Selected)])
  BY DEF Falling!Reorder
<1>3. call.queue \in Seq(Extensions) /\ call.selected \in Falling!ExtOrNone
  BY <1>1 DEF Sound, CallType
<1> DEFINE rated == Falling!ByHealth(call.queue, protected, health)
           queue == Falling!InFront(rated, call.selected)
           c == [call EXCEPT !.queue = queue]
<1>4. call.selected \in Extensions => protected = call.selected
  BY FallbackAssumption DEF Falling!Selected
<1> HIDE DEF protected
<1>5. /\ rated \in Seq(Extensions)
      /\ Elements(rated) \subseteq Elements(call.queue)
      /\ protected \in Elements(call.queue) => protected \in Elements(rated)
  BY <1>3, ByHealthElements
<1>6. Falling!Goes("loop", c)
  BY <1>2 DEF Falling!Selected
<1> HIDE DEF rated
<1>7. /\ queue \in Seq(Extensions)
      /\ Elements(queue) = Elements(rated)
      /\ call.selected \in Elements(rated) => queue # <<>> /\ queue[1] = call.selected
  BY <1>3, <1>5, FallbackAssumption, InFrontElements
<1> HIDE DEF queue
<1>8. /\ c \in CallType /\ c.queue = queue
      /\ c.err = call.err /\ c.lock = call.lock /\ c.selected = call.selected
      /\ c.stopper = call.stopper
      /\ c.asking = call.asking /\ c.part = call.part /\ c.asked = call.asked
      /\ c.fresh = call.fresh /\ c.taken = call.taken
      /\ c.lost = call.lost /\ c.terminal = call.terminal
  BY <1>1, <1>7 DEF Sound, CallType
<1> HIDE DEF c
<1>9. First("loop", c)
  <2> SUFFICES ASSUME call.selected \in Downloaders, call.selected \notin call.asked
               PROVE  queue # <<>> /\ queue[1] = call.selected
    BY <1>8 DEF First, Turns
  <2>1. call.selected \in Elements(call.queue)
    BY <1>1 DEF Sound, First
  <2> QED
    BY <1>4, <1>5, <1>7, <2>1, FallbackAssumption
<1>10. Sound("loop", c)
  BY <1>1, <1>5, <1>7, <1>8, <1>9 DEF Sound, Begun, OwnError, Strict, Unstopped, Locked, Turn,
     Stopped, Turns, Tries
<1> QED
  BY <1>1, <1>6, <1>8, <1>10, GoesKeeps DEF Falling!Points

LEMMA VisitKeeps ==
  ASSUME FallingIInv, Falling!Visit
  PROVE  FallingIInv'
<1> DEFINE e == Head(call.queue)
           rest == Tail(call.queue)
<1>1. /\ place = "loop" /\ Sound("loop", call) /\ call.queue # <<>>
      /\ Extensions \ enabled \subseteq call.lost
  BY DEF Falling!Visit, FallingIInv
<1>2. call.queue \in Seq(Extensions)
  BY <1>1 DEF Sound, CallType
<1>3. /\ rest \in Seq(Extensions) /\ Elements(rest) \subseteq Elements(call.queue)
      /\ e \in Extensions /\ e \in Elements(call.queue) /\ e = call.queue[1]
  <2>1. /\ rest \in Seq(Extensions) /\ e = call.queue[1]
        /\ Len(call.queue) \in Nat \ {0} /\ Len(rest) = Len(call.queue) - 1
        /\ \A i \in 1..Len(rest) : rest[i] = call.queue[i + 1]
    BY <1>1, <1>2
  <2>2. DOMAIN rest = 1..Len(rest) /\ DOMAIN call.queue = 1..Len(call.queue)
    BY <1>2, <2>1
  <2>3. 1 \in DOMAIN call.queue /\ \A i \in 1..Len(rest) : i + 1 \in DOMAIN call.queue
    BY <2>1, <2>2
  <2>4. call.queue[1] \in Extensions
    BY <1>2, <2>3
  <2> HIDE DEF e, rest
  <2>5. Elements(rest) \subseteq Elements(call.queue)
    BY <2>1, <2>2, <2>3 DEF Elements
  <2>6. e \in Elements(call.queue)
    BY <2>1, <2>3 DEF Elements
  <2> QED
    BY <2>1, <2>4, <2>5, <2>6
<1> HIDE DEF rest, e
<1>4. CASE Falling!Skipped(e) /\ Falling!Goes("loop", [call EXCEPT !.queue = rest])
  <2> DEFINE c == [call EXCEPT !.queue = rest]
  <2>1. /\ c \in CallType /\ c.queue = rest
        /\ c.err = call.err /\ c.lock = call.lock /\ c.selected = call.selected
        /\ c.stopper = call.stopper
        /\ c.asking = call.asking /\ c.part = call.part /\ c.asked = call.asked
        /\ c.fresh = call.fresh /\ c.taken = call.taken
        /\ c.lost = call.lost /\ c.terminal = call.terminal
    BY <1>1, <1>3 DEF Sound, CallType
  <2>2. Falling!Goes("loop", c)
    BY <1>4
  <2> HIDE DEF c
  <2>3. e = call.selected /\ e \in Downloaders => e \in call.lost
    BY <1>1, <1>3, <1>4 DEF Falling!Skipped, Falling!Usable, Falling!Selected
  <2>4. First("loop", c)
    BY <1>1, <1>3, <2>1, <2>3 DEF Sound, First, Turns
  <2>5. Sound("loop", c)
    BY <1>1, <1>3, <2>1, <2>4 DEF Sound, Begun, OwnError, Strict, Unstopped, Locked, Turn,
       Stopped, Turns, Tries
  <2> QED
    BY <1>1, <2>1, <2>2, <2>5, GoesKeeps DEF Falling!Points
<1>5. CASE ~Falling!Skipped(e)
           /\ Falling!Goes("asked", [Falling!Asks(e, "loop") EXCEPT !.queue = rest])
  <2> DEFINE a == Falling!Asks(e, "loop")
             c == [a EXCEPT !.queue = rest]
  <2>1. /\ a \in CallType
        /\ a.asking = e /\ a.part = "loop"
        /\ a.asked = call.asked \cup {e}
        /\ a.fresh = call.fresh /\ a.taken = call.taken
        /\ a.selected = call.selected /\ a.lock = call.lock
        /\ a.err = call.err /\ a.lost = call.lost /\ a.stopper = call.stopper
    BY <1>1, <1>3, AsksIs DEF Sound
  <2>2. Falling!Goes("asked", c)
    BY <1>5
  <2> HIDE DEF a
  <2>3. /\ c \in CallType /\ c.queue = rest
        /\ c.asking = e /\ c.part = "loop"
        /\ c.asked = call.asked \cup {e}
        /\ c.fresh = call.fresh /\ c.taken = call.taken
        /\ c.selected = call.selected /\ c.lock = call.lock
        /\ c.err = call.err /\ c.lost = call.lost /\ c.stopper = call.stopper
    BY <1>3, <2>1 DEF CallType
  <2> HIDE DEF c
  <2>4. e \in Downloaders
    BY <1>5 DEF Falling!Skipped, Falling!Usable
  <2>5. First("asked", c)
    BY <1>1, <1>3, <2>3 DEF Sound, First, Turns
  <2>6. Strict("asked", c)
    BY <1>1, <1>3, <2>3 DEF Sound, Strict, Turns
  <2>7. Sound("asked", c)
    BY <1>1, <2>3, <2>4, <2>5, <2>6 DEF Sound, Begun, OwnError, Unstopped, Locked, Turn,
       Stopped, Turns, Tries
  <2> QED
    BY <1>1, <2>2, <2>3, <2>7, GoesKeeps DEF Falling!Points
<1> QED
  BY <1>4, <1>5 DEF Falling!Visit, e, rest

\* The answer when the order is used up has the last provider's error.
LEMMA ExhaustedKeeps ==
  ASSUME FallingIInv, Falling!Exhausted
  PROVE  FallingIInv'
<1> DEFINE answer == [type |-> "exhausted", service |-> call.err.service,
                      of |-> call.err.of, retry |-> call.err.retry]
<1>1. Falling!Returns(answer) /\ UNCHANGED <<entry, file, paused>>
  BY DEF Falling!Exhausted
<1>2. Sound("loop", call)
  BY DEF Falling!Exhausted, FallingIInv
<1>3. answer \in AnswerType
  BY <1>2 DEF Sound, CallType, AnswerType, Falling!Kinds
<1>4. answer.service = answer.of /\ answer.retry \in {NoExt, answer.of}
  BY <1>2 DEF Sound, OwnError
<1>5. file' \in {"none", "good", "rest"} /\ paused' = entry'.key
  BY <1>1 DEF FallingIInv, Rest
<1> QED
  BY <1>1, <1>3, <1>4, <1>5, ReturnsKeeps

-----------------------------------------------------------------------------
\* The attempts.
LEMMA AttemptKeeps ==
  ASSUME FallingIInv, Falling!AttemptKeepsFile \/ Falling!AttemptStarts
  PROVE  FallingIInv'
<1>1. place = "attempt" /\ Sound("attempt", call)
  BY DEF Falling!AttemptKeepsFile, Falling!AttemptStarts, FallingIInv
<1>2. file \in {"none", "good", "rest"} /\ "success" \in Falling!Kinds
  BY DEF FallingIInv, Rest, Falling!Kinds
<1>3. CASE Falling!AttemptKeepsFile
  <2>1. Falling!GivesUp("success") /\ UNCHANGED file
    BY <1>3 DEF Falling!AttemptKeepsFile
  <2> QED
    BY <1>2, <2>1, GivesUpKeeps
<1>4. CASE Falling!AttemptStarts
  <2>1. Falling!Goes("downloading", call)
    BY <1>4 DEF Falling!AttemptStarts
  <2>2. Sound("downloading", call)
    BY <1>1 DEF Sound, Begun, OwnError, Strict, Unstopped, Locked, Turn, Stopped,
     First, Turns, Tries
  <2> QED
    BY <1>1, <2>1, <2>2, GoesKeeps DEF Falling!Points
<1> QED
  BY <1>3, <1>4

\* A failed attempt has its own error and no delay but its own.
LEMMA FailsKeeps ==
  ASSUME FallingIInv, NEW p \in {"attempt", "downloading"}, place = p,
         NEW type \in {"other", "verification", "storage"},
         NEW retry \in {NoExt, call.asking}, NEW f \in {"none", "good", "rest"},
         Falling!Fails(type, retry, f)
  PROVE  FallingIInv'
<1>1. Sound(p, call)
  BY DEF FallingIInv
<1> DEFINE e == [call.err EXCEPT !.type = "none", !.of = NoExt, !.retry = NoExt]
           err == [e EXCEPT !.type = type, !.of = call.asking,
                            !.retry = IF retry = NoExt THEN @ ELSE retry]
           c == [call EXCEPT !.err = err]
<1>2. /\ place' = "failed" /\ file' = f
      /\ UNCHANGED <<response, entry, cancelled, enabled, paused>>
  BY DEF Falling!Fails
<1>3. call' = c
  BY DEF Falling!Fails, Falling!Reset, Falling!Asking
<1>4. /\ e \in [type : {"none", "other", "verification", "storage"},
                of : Falling!ExtOrNone, service : Falling!ExtOrNone, retry : Falling!ExtOrNone]
      /\ e.retry = NoExt
  BY <1>1 DEF Sound, CallType, Falling!ExtOrNone
<1> HIDE DEF e
<1>5. /\ err \in [type : {"none", "other", "verification", "storage"},
                  of : Falling!ExtOrNone, service : Falling!ExtOrNone, retry :
                    Falling!ExtOrNone]
      /\ err.of = call.asking /\ err.retry \in {NoExt, call.asking}
  <2>1. call.asking \in Falling!ExtOrNone /\ retry \in Falling!ExtOrNone
    BY <1>1 DEF Sound, CallType, Falling!ExtOrNone
  <2> DEFINE r == IF retry = NoExt THEN e.retry ELSE retry
  <2>2. r \in {NoExt, call.asking} /\ r \in Falling!ExtOrNone
    BY <1>4, <2>1 DEF Falling!ExtOrNone
  <2>3. err = [e EXCEPT !.type = type, !.of = call.asking, !.retry = r]
    OBVIOUS
  <2> HIDE DEF r, err
  <2> QED
    BY <1>4, <2>1, <2>2, <2>3
<1> HIDE DEF err
<1>6. /\ c \in CallType /\ c.err = err /\ c.lock = call.lock /\ c.selected = call.selected
      /\ c.stopper = call.stopper
      /\ c.asking = call.asking /\ c.part = call.part /\ c.asked = call.asked
      /\ c.fresh = call.fresh /\ c.taken = call.taken /\ c.queue = call.queue
      /\ c.lost = call.lost /\ c.terminal = call.terminal
  BY <1>1, <1>5 DEF Sound, CallType
<1> HIDE DEF c
<1>7. Sound("failed", c)
  BY <1>1, <1>5, <1>6 DEF Sound, Begun, OwnError, Strict, Unstopped, Locked, Turn, Stopped,
     First, Turns, Tries
<1>8. Rest'
  BY <1>2 DEF FallingIInv, Rest, Falling!ErrorOwned
<1> QED
  BY <1>2, <1>3, <1>6, <1>7, <1>8 DEF FallingIInv, Falling!Points

LEMMA DownloadKeeps ==
  ASSUME FallingIInv,
         Falling!AttemptFails \/ Falling!Mismatches \/ Falling!Fetches \/ Falling!DownloadFails
  PROVE  FallingIInv'
<1>1. /\ file \in {"none", "good", "rest"}
      /\ "success" \in Falling!Kinds /\ "failed" \in Falling!Kinds
         /\ "cancelled" \in Falling!Kinds
  BY DEF FallingIInv, Rest, Falling!Kinds
<1>2. CASE Falling!AttemptFails
  <2>1. \/ place = "attempt" /\ Falling!Fails("other", NoExt, file)
        \/ Falling!Quits
    BY <1>2 DEF Falling!AttemptFails
  <2> QED
    BY <1>1, <2>1, FailsKeeps, CancelledKeeps
<1>3. CASE Falling!Mismatches
  <2>1. place = "downloading" /\ Falling!Fails("other", NoExt, "none")
    BY <1>3 DEF Falling!Mismatches
  <2> QED
    BY <2>1, FailsKeeps
<1>4. CASE Falling!Fetches
  <2>1. file' \in {"none", "good", "rest"}
    BY <1>1, <1>4 DEF Falling!Fetches
  <2>2. Falling!GivesUp("cancelled") \/ Falling!GivesUp("success") \/ Falling!GivesUp("failed")
    BY <1>4 DEF Falling!Fetches
  <2> QED
    BY <1>1, <2>1, <2>2, GivesUpKeeps
<1>5. CASE Falling!DownloadFails
  <2>1. PICK f \in {file, "rest"} :
          IF cancelled THEN Falling!GivesUp("cancelled") /\ file' = f
          ELSE \E type \in {"other", "verification", "storage"},
                  retry \in {NoExt, Falling!Asking} : Falling!Fails(type, retry, f)
    BY <1>5 DEF Falling!DownloadFails
  <2>2. f \in {"none", "good", "rest"}
    BY <1>1
  <2>3. CASE cancelled
    BY <1>1, <2>1, <2>2, <2>3, GivesUpKeeps
  <2>4. CASE ~cancelled
    <3>1. PICK type \in {"other", "verification", "storage"}, retry \in {NoExt, call.asking} :
            Falling!Fails(type, retry, f)
      BY <2>1, <2>4 DEF Falling!Asking
    <3>2. place = "downloading"
      BY <1>5 DEF Falling!DownloadFails
    <3> QED
      BY <2>2, <3>1, <3>2, FailsKeeps
  <2> QED
    BY <2>3, <2>4
<1> QED
  BY <1>2, <1>3, <1>4, <1>5

\* After a failed attempt.
LEMMA FailedKeeps ==
  ASSUME FallingIInv,
         Falling!StorageFailed \/ Falling!NeedsVerification \/ Falling!StopsFallback
  PROVE  FallingIInv'
<1>1. /\ file \in {"none", "good", "rest"}
      /\ "storage" \in Falling!Kinds /\ "verification" \in Falling!Kinds
         /\ "stopped" \in Falling!Kinds
  BY DEF FallingIInv, Rest, Falling!Kinds
<1>2. CASE Falling!StorageFailed
  <2>1. Falling!GivesUp("storage") /\ UNCHANGED file
    BY <1>2 DEF Falling!StorageFailed
  <2> QED
    BY <1>1, <2>1, GivesUpKeeps
<1>3. CASE Falling!NeedsVerification
  <2>1. (Falling!GivesUp("verification") /\ UNCHANGED file) \/ Falling!Pause(TRUE)
    BY <1>3 DEF Falling!NeedsVerification
  <2> QED
    BY <1>1, <2>1, GivesUpKeeps, PauseKeeps
<1>4. CASE Falling!StopsFallback
  <2>1. Falling!GivesUp("stopped") /\ UNCHANGED file
    BY <1>4 DEF Falling!StopsFallback
  <2> QED
    BY <1>1, <2>1, GivesUpKeeps
<1> QED
  BY <1>2, <1>3, <1>4

LEMMA FallsBackKeeps ==
  ASSUME FallingIInv, Falling!FallsBack
  PROVE  FallingIInv'
<1>1. place = "failed" /\ Sound("failed", call) /\ ~Falling!Final
  BY DEF Falling!FallsBack, FallingIInv
<1>2. CASE call.part = "resume"
  <2> DEFINE c == [call EXCEPT !.err = Falling!NoErr]
  <2>1. Falling!Goes("source", c)
    BY <1>2 DEF Falling!FallsBack
  <2>2. Falling!NoErr \in [type : {"none", "other", "verification", "storage"},
                   of : Falling!ExtOrNone, service : Falling!ExtOrNone, retry :
                     Falling!ExtOrNone]
        /\ Falling!NoErr.service = Falling!NoErr.of /\ Falling!NoErr.retry = NoExt
    BY DEF Falling!NoErr, Falling!ExtOrNone
  <2>3. /\ c \in CallType /\ c.err = Falling!NoErr /\ c.lock = call.lock
           /\ c.selected = call.selected
        /\ c.stopper = call.stopper
        /\ c.asking = call.asking /\ c.part = call.part /\ c.asked = call.asked
        /\ c.fresh = call.fresh /\ c.taken = call.taken /\ c.queue = call.queue
        /\ c.lost = call.lost /\ c.terminal = call.terminal
    BY <1>1, <2>2 DEF Sound, CallType
  <2> HIDE DEF c
  <2>4. Sound("source", c)
    BY <1>1, <1>2, <2>2, <2>3 DEF Sound, Begun, OwnError, Strict, Unstopped, Locked, Turn,
       Stopped, First, Turns, Tries
  <2> QED
    BY <1>1, <2>1, <2>3, <2>4, GoesKeeps DEF Falling!Points
<1>3. CASE call.part \in {"source", "loop"}
  <2> DEFINE err == [call.err EXCEPT !.service = call.asking]
             c == [call EXCEPT !.err = err]
             p == IF call.part = "source" THEN "order" ELSE "loop"
  <2>1. Falling!Goes(p, c)
    BY <1>3 DEF Falling!FallsBack, Falling!Asking
  <2>2. err \in [type : {"none", "other", "verification", "storage"},
                 of : Falling!ExtOrNone, service : Falling!ExtOrNone, retry : Falling!ExtOrNone]
        /\ err.service = call.asking /\ err.of = call.err.of /\ err.retry = call.err.retry
    BY <1>1 DEF Sound, CallType
  <2> HIDE DEF err
  <2>3. /\ c \in CallType /\ c.err = err /\ c.lock = call.lock /\ c.selected = call.selected
        /\ c.stopper = call.stopper
        /\ c.asking = call.asking /\ c.part = call.part /\ c.asked = call.asked
        /\ c.fresh = call.fresh /\ c.taken = call.taken /\ c.queue = call.queue
        /\ c.lost = call.lost /\ c.terminal = call.terminal
    BY <1>1, <2>2 DEF Sound, CallType
  <2> HIDE DEF c
  <2>4. call.part = "source" => call.lock = "none"
    BY <1>1 DEF Falling!Final
  <2>5. call.part = "loop" => ~call.terminal
    BY <1>1 DEF Falling!Final
  <2>6. Sound(p, c)
    BY <1>1, <1>3, <2>2, <2>3, <2>4, <2>5 DEF Sound, Begun, OwnError, Strict, Unstopped, Locked,
       Turn, Stopped, First, Turns, Tries
  <2>7. p \in Falling!Points /\ p # "idle"
    BY DEF Falling!Points
  <2> HIDE DEF p
  <2> QED
    BY <1>1, <2>1, <2>3, <2>6, <2>7, GoesKeeps
<1>4. call.part \in {"resume", "source", "loop"}
  BY <1>1 DEF Sound, CallType
<1> QED
  BY <1>2, <1>3, <1>4

\* The user, the host and the other items.
LEMMA TogglesKeep ==
  ASSUME FallingIInv, NEW e \in Toggled, Falling!Enable(e) \/ Falling!Disable(e)
  PROVE  FallingIInv'
<1>1. e \in Extensions
  BY FallbackAssumption
<1>2. CASE Falling!Enable(e)
  BY <1>1, <1>2 DEF FallingIInv, Falling!Enable, Rest, Falling!ErrorOwned
<1>3. CASE Falling!Disable(e) /\ place = "idle"
  BY <1>1, <1>3 DEF FallingIInv, Falling!Disable, Rest, Falling!ErrorOwned
<1>4. CASE Falling!Disable(e) /\ place # "idle"
  <2> DEFINE those == call.lost \cup {e}
             c == [call EXCEPT !.lost = those]
  <2>1. Sound(place, call) /\ Extensions \ enabled \subseteq call.lost
    BY <1>4 DEF FallingIInv
  <2>2. those \in SUBSET Extensions /\ call.lost \subseteq those /\ e \in those
    BY <1>1, <2>1 DEF Sound, CallType
  <2>3. call' = c /\ place' = place /\ enabled' = enabled \ {e}
        /\ UNCHANGED <<response, entry, cancelled, file, paused>>
    BY <1>4 DEF Falling!Disable
  <2> HIDE DEF those
  <2>4. /\ c \in CallType /\ c.lost = those /\ c.lock = call.lock /\ c.selected = call.selected
        /\ c.stopper = call.stopper
        /\ c.asking = call.asking /\ c.part = call.part /\ c.asked = call.asked
        /\ c.fresh = call.fresh /\ c.taken = call.taken /\ c.queue = call.queue
        /\ c.err = call.err /\ c.terminal = call.terminal
    BY <2>1, <2>2 DEF Sound, CallType
  <2> HIDE DEF c
  <2>5. Sound(place, c)
    BY <2>1, <2>2, <2>4 DEF Sound, Begun, OwnError, Strict, Unstopped, Locked,
       Turn, Stopped, First, Turns, Tries
  <2>6. Rest'
    BY <2>3 DEF FallingIInv, Rest, Falling!ErrorOwned
  <2>7. Extensions \ enabled' \subseteq those
    BY <2>1, <2>2, <2>3
  <2> QED
    BY <2>3, <2>4, <2>5, <2>6, <2>7 DEF FallingIInv
<1> QED
  BY <1>2, <1>3, <1>4

LEMMA OthersKeep ==
  ASSUME FallingIInv,
         Falling!Cancel \/ Falling!Prune \/ Falling!FileTaken \/ UNCHANGED Falling!vars
  PROVE  FallingIInv'
<1>1. CASE Falling!Cancel
  BY <1>1 DEF FallingIInv, Falling!Cancel, Rest, Falling!ErrorOwned
<1>2. CASE Falling!Prune
  BY <1>2 DEF FallingIInv, Falling!Prune, Rest, Falling!ErrorOwned, Falling!NoEntry
<1>3. CASE Falling!FileTaken
  BY <1>3 DEF FallingIInv, Falling!FileTaken, Rest, Falling!ErrorOwned
<1>4. CASE UNCHANGED Falling!vars
  BY <1>4 DEF FallingIInv, Falling!vars, Rest, Falling!ErrorOwned
<1> QED
  BY <1>1, <1>2, <1>3, <1>4

-----------------------------------------------------------------------------
LEMMA FallingIInvInit ==
  Falling!Init => FallingIInv
<1> SUFFICES ASSUME Falling!Init PROVE FallingIInv
  OBVIOUS
<1>1. Sound(place, call)
  BY IdleSound DEF Falling!Init
<1>2. Rest
  BY DEF Falling!Init, Rest, Falling!ErrorOwned, Falling!NoAnswer, AnswerType, Falling!Kinds,
     Falling!ExtOrNone, Falling!NoEntry
<1> QED
  BY <1>1, <1>2 DEF Falling!Init, FallingIInv, Falling!Points

LEMMA FallingIInvInductive ==
  ASSUME FallingIInv, Falling!Next \/ UNCHANGED Falling!vars
  PROVE  FallingIInv'
<1>1. CASE Falling!CallStep
  <2>1. CASE \E a \in Falling!Answers : Falling!AnswersResume(a) \/ Falling!AnswersSource(a)
             \/ Falling!AnswersLoop(a)
    BY <2>1, AnswersResumeKeeps, AnswersSourceKeeps, AnswersLoopKeeps
  <2>2. CASE Falling!Cancelled \/ Falling!AnswersCancelled
    BY <2>2, CancelledKeeps DEF Falling!Cancelled, Falling!AnswersCancelled
  <2>3. CASE Falling!PreflightPasses \/ Falling!PreflightFails \/ Falling!Start
             \/ Falling!Resume \/ Falling!AskSource
    BY <2>3, PreflightKeeps, StartKeeps, ResumeKeeps, AskSourceKeeps
  <2>4. CASE Falling!EnrichFromSource \/ Falling!EnrichFromSearch \/ Falling!TrySource
    BY <2>4, EnrichKeeps, TrySourceKeeps
  <2>5. CASE Falling!Reorder \/ Falling!Visit \/ Falling!Exhausted
    BY <2>5, ReorderKeeps, VisitKeeps, ExhaustedKeeps
  <2>6. CASE \/ Falling!AttemptKeepsFile \/ Falling!AttemptStarts \/ Falling!AttemptFails
             \/ Falling!Mismatches \/ Falling!Fetches \/ Falling!DownloadFails
    BY <2>6, AttemptKeeps, DownloadKeeps
  <2>7. CASE Falling!StorageFailed \/ Falling!NeedsVerification \/ Falling!StopsFallback
             \/ Falling!FallsBack
    BY <2>7, FailedKeeps, FallsBackKeeps
  <2> QED
    BY <1>1, <2>1, <2>2, <2>3, <2>4, <2>5, <2>6, <2>7 DEF Falling!CallStep
<1>2. CASE Falling!NewRequest
  BY <1>2, NewRequestKeeps
<1>3. CASE \E e \in Toggled : Falling!Enable(e) \/ Falling!Disable(e)
  BY <1>3, TogglesKeep
<1>4. CASE Falling!Cancel \/ Falling!Prune \/ Falling!FileTaken \/ UNCHANGED Falling!vars
  BY <1>4, OthersKeep
<1> QED
  BY <1>1, <1>2, <1>3, <1>4 DEF Falling!Next

\* What the invariant says of who downloads and of the answer.
LEMMA WhoDownloads ==
  ASSUME FallingIInv
  PROVE  Falling!TypeOK /\ Falling!SkipHonoured /\ Falling!SelectedFirst
         /\ Falling!StrictKept /\ Falling!ErrorOwned
<1>1. Sound(place, call) /\ Rest /\ place \in Falling!Points
  BY DEF FallingIInv
<1>2. Falling!TypeOK
  <2>1. call \in CallType
    BY <1>1 DEF Sound
  <2>2. place \in Turns => Falling!Asking \in Downloaders
    BY <1>1 DEF Sound, Turn, Falling!Asking
  <2>3. response \in AnswerType
    BY <1>1 DEF Rest
  <2> QED
    BY <1>1, <2>1, <2>2, <2>3 DEF Falling!TypeOK, CallType, AnswerType, Rest, Turns
<1>3. Falling!Works => call.part \in {"resume", "source", "loop"}
  BY <1>1 DEF Sound, CallType
<1>4. Falling!SkipHonoured
  BY <1>1, <1>3 DEF Falling!SkipHonoured, Falling!Works, Sound, Stopped, Unstopped, Turn,
     Turns, Tries, Falling!Asking
<1>5. Falling!SelectedFirst
  BY <1>1, <1>3 DEF Falling!SelectedFirst, Falling!Works, Sound, First, Turns, Falling!Selected
<1>6. Falling!StrictKept
  BY <1>1, <1>3 DEF Falling!StrictKept, Falling!Works, Sound, Strict, Turn, Turns,
     Falling!Asking, Falling!Source
<1> QED
  BY <1>1, <1>2, <1>4, <1>5, <1>6 DEF Rest

\* A call takes the entry exactly if the item was paused for its request.
LEMMA ResumesPaused ==
  ASSUME FallingIInv, Falling!Next \/ UNCHANGED Falling!vars, place = "start",
         place' \in {"resume", "source"}
  PROVE  call'.taken # "nothing" <=> paused = Falling!Key
<1>1. Falling!Start
  BY DEF Falling!Next, Falling!CallStep, Falling!NewRequest, Falling!PreflightPasses,
     Falling!PreflightFails, Falling!Cancelled, Falling!Resume, Falling!AskSource,
     Falling!AnswersCancelled, Falling!AnswersResume, Falling!AnswersSource,
     Falling!AnswersLoop, Falling!CanAnswer, Falling!EnrichFromSource,
     Falling!EnrichFromSearch, Falling!TrySource, Falling!Reorder, Falling!Visit,
     Falling!Exhausted, Falling!AttemptKeepsFile, Falling!AttemptStarts,
     Falling!AttemptFails, Falling!Mismatches, Falling!Fetches, Falling!DownloadFails,
     Falling!StorageFailed, Falling!NeedsVerification,
     Falling!StopsFallback, Falling!FallsBack, Falling!Cancel, Falling!Enable, Falling!Disable,
     Falling!Prune, Falling!FileTaken, Falling!vars
<1>2. Sound("start", call) /\ paused = entry.key
  BY DEF FallingIInv, Rest
<1>3. call' \in Falling!Selection(Falling!Taken)
  BY <1>1 DEF Falling!Start, Falling!Returns
<1> DEFINE c == Falling!Taken
<1>4. c \in CallType /\ (c.taken # "nothing" <=> Falling!Found)
  <2>1. CASE Falling!Found
    <3> DEFINE t == IF entry.prepared THEN "prepared" ELSE "unprepared"
               h == (entry.has \cap Falling!Restored) \cup (call.has \ Falling!Restored)
    <3>1. t \in {"unprepared", "prepared"} /\ h \in SUBSET Falling!Fields
      BY <1>2 DEF Sound, CallType, Falling!Restored, Falling!Fields
    <3>2. c = [call EXCEPT !.taken = t, !.has = h]
      BY <2>1 DEF Falling!Taken
    <3> HIDE DEF t, h
    <3>3. c \in CallType /\ c.taken = t
      BY <1>2, <3>1, <3>2 DEF Sound, CallType
    <3> QED
      BY <2>1, <3>1, <3>3
  <2>2. CASE ~Falling!Found
    <3>1. c = call
      BY <2>2 DEF Falling!Taken
    <3> QED
      BY <1>2, <2>2, <3>1 DEF Sound, Begun
  <2> QED
    BY <2>1, <2>2
<1> HIDE DEF c
<1>5. \E s, q : call' = [c EXCEPT !.selected = s, !.queue = q]
  BY <1>3 DEF Falling!Selection, c
<1>6. call'.taken = c.taken
  BY <1>4, <1>5 DEF CallType
<1> QED
  BY <1>2, <1>4, <1>6 DEF Falling!Found

-----------------------------------------------------------------------------
(* The behaviours of MCSpec, where one of the two parts runs.              *)

\* A step of a behaviour is one of the fallback chain, or changes nothing of it.
LEMMA FallbackStep ==
  ASSUME [MCNext]_<<which, vars, falling>>
  PROVE  Falling!Next \/ UNCHANGED Falling!vars
<1>1. CASE which = "fallback" /\ Falling!Next
  BY <1>1
<1>2. CASE UNCHANGED falling
  BY <1>2 DEF falling, Falling!vars
<1> QED
  BY <1>1, <1>2 DEF MCNext

\* The invariant of the fallback chain holds in every behaviour.
LEMMA FallbackSound == MCSpec => []FallingIInv
<1>1. MCInit => FallingIInv
  BY FallingIInvInit DEF MCInit
<1>2. FallingIInv /\ [MCNext]_<<which, vars, falling>> => FallingIInv'
  BY FallbackStep, FallingIInvInductive
<1> QED
  BY <1>1, <1>2, PTL DEF MCSpec

\* OrderKept: after an answer that stops the fallback nobody else downloads, the
\* provider that the user selected has its turn before the others, and a download
\* without fallback is left to it, or to the source extension that locked it
\* (extension_fallback.go).
THEOREM OrderKeptHolds == MCSpec => []OrderKept
<1>1. FallingIInv => OrderKept
  BY WhoDownloads DEF OrderKept
<1> QED
  BY <1>1, FallbackSound, PTL

\* ErrorOwned: when every provider has failed, the answer names the one whose
\* error and whose delay it carries, however many failed before it with another
\* (extension_fallback.go).
THEOREM ErrorOwnedHolds == MCSpec => []ErrorOwned
<1>1. FallingIInv => ErrorOwned
  BY WhoDownloads DEF ErrorOwned
<1> QED
  BY <1>1, FallbackSound, PTL

\* PauseResumes: a call resumes what was prepared exactly if its item was paused
\* last for the same request and the entry is still kept
\* (download_preparation_cache.go).
THEOREM PauseResumesHolds == MCSpec => PauseResumes
<1>1. FallingIInv /\ [MCNext]_<<which, vars, falling>>
        => [place = "start" /\ place' \in {"resume", "source"} =>
              (call'.taken # "nothing" <=> paused = Falling!Key)]_(Falling!vars)
  BY FallbackStep, ResumesPaused
<1> QED
  BY <1>1, FallbackSound, PTL DEF MCSpec, PauseResumes, Falling!PauseResumes
==============================================================================
