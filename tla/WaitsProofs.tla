----------------------------- MODULE WaitsProofs -----------------------------
(***************************************************************************)
(* Theorems about the followers of the download progress and about the     *)
(* transfers to a path, for every value of the constants.  Each part of    *)
(* MCSpec is the only one that changes its variables, so that an inductive *)
(* invariant of the part by itself is one of the behaviours of MCSpec that *)
(* are its own; the parts that stay as they begin keep it too.             *)
(***************************************************************************)
EXTENDS MCWaits, TLAPS

\* A step of a behaviour is one of a part, or changes nothing of it.
LEMMA PartStep ==
  ASSUME [MCNext]_<<which, vars, scanning, following, fetching>>
  PROVE  /\ Following!Next \/ UNCHANGED Following!vars
         /\ Fetching!Next \/ UNCHANGED Fetching!vars
<1>1. CASE which = "following" /\ Following!Next
  BY <1>1 DEF MCNext, fetching, Fetching!vars, Fetching!disk
<1>2. CASE which = "fetching" /\ Fetching!Next
  BY <1>2 DEF MCNext, following, Following!vars
<1>3. CASE UNCHANGED <<following, fetching>>
  BY <1>3 DEF following, Following!vars, fetching, Fetching!vars, Fetching!disk
<1> QED
  BY <1>1, <1>2, <1>3 DEF MCNext

-----------------------------------------------------------------------------
(* The followers of the progress.  One that has asked, and not before the  *)
(* last reset, shows every item that has not been revised since, and no    *)
(* item that has gone unless its removal is remembered.                    *)
\* A follower that has asked, and not before the last reset, shows every item
\* that has not been revised since as it is, and no id that is gone unless its
\* removal is remembered and came after.
Follows(c) ==
    /\ since[c] = 0 => \A i \in Items : view[c][i] = NoItem
    /\ since[c] > 0 /\ since[c] >= reset =>
         \A i \in Items :
            /\ items[i] # NoItem /\ items[i].rev <= since[c] =>
                 view[c][i] = Following!Bridge(items[i])
            /\ items[i] = NoItem /\ removed[i] <= since[c] =>
                 view[c][i] = NoItem

TableKept == Following!TypeOK /\ Following!RemovedIsGone /\ Following!CacheFresh

FollowingIInv == TableKept /\ \A c \in Clients : Follows(c)

\* What the bridge tells of an item has its type.
LEMMA BridgeType ==
  ASSUME NEW item \in Following!Item \cup {NoItem}
  PROVE  Following!Bridge(item) \in Following!Shown
<1>1. CASE item = NoItem
  BY <1>1 DEF Following!Bridge, Following!Shown
<1>2. CASE item # NoItem
  <2>1. item \in Following!Item
    BY <1>2
  <2>2. item.received \div Threshold \in Nat
    BY <2>1, ProgressAssumption DEF Following!Item, Following!Bytes
  <2> QED
    BY <1>2, <2>1, <2>2 DEF Following!Bridge, Following!Shown, Following!Item
<1> QED
  BY <1>1, <1>2

LEMMA SnapshotType ==
  ASSUME items \in [Items -> Following!Item \cup {NoItem}]
  PROVE  Following!Snapshot \in [Items -> Following!Shown]
  BY BridgeType DEF Following!Snapshot

\* A progress value is one of a percent.
LEMMA RatioType ==
  ASSUME NEW received \in Following!Bytes, NEW total \in Following!Bytes, total > 0
  PROVE  Following!Ratio(received, total) \in 0..Full
<1>1. received \in Nat /\ total \in Nat /\ Full \in Nat
  BY ProgressAssumption DEF Following!Bytes
<1>2. CASE received >= total
  BY <1>1, <1>2 DEF Following!Ratio
<1>3. CASE received < total
  <2> DEFINE a == 2 * received * Full + total
             b == 2 * total
             q == a \div b
  <2>1. a \in Nat /\ b \in Nat \ {0}
    BY <1>1
  <2>2. q \in Nat /\ q * b <= a
    BY <2>1
  <2>3. received + 1 <= total
    BY <1>1, <1>3
  <2>4. (received + 1) * Full <= total * Full
    BY <1>1, <2>3
  <2>5. 2 * received * Full + total < (Full + 1) * (2 * total)
    BY <1>1, <2>4
  <2>6. q * b < (Full + 1) * b
    BY <2>2, <2>5, <2>1, <1>1
  <2>7. q < Full + 1
    <3> HIDE DEF q, b
    <3> QED
      BY <2>6, <2>2, <2>1, <1>1
  <2>8. Following!Ratio(received, total) = q
    BY <1>1, <1>3 DEF Following!Ratio
  <2> QED
    BY <2>7, <2>8, <2>2, <1>1
<1> QED
  BY <1>1, <1>2, <1>3

-----------------------------------------------------------------------------
\* An update of a known item, revised or not, keeps table and followers: the
\* followers that need not hear of it show what the bridge still tells.
LEMMA UpdateKeeps ==
  ASSUME FollowingIInv, NEW i \in Items, NEW after,
         items[i] # NoItem => after \in Following!Item /\ after.rev = items[i].rev,
         Following!Update(i, after)
  PROVE  FollowingIInv'
<1> USE DEF FollowingIInv, TableKept
<1>1. /\ items[i] # NoItem /\ after \in Following!Item /\ after.rev = items[i].rev
         /\ after # NoItem
      /\ items \in [Items -> Following!Item \cup {NoItem}] /\ items[i] \in Following!Item
         /\ items[i].rev \in 1..seq
  BY ProgressAssumption DEF Following!Update, Following!TypeOK
<1>2. seq \in Nat
  BY ProgressAssumption DEF Following!TypeOK
<1>3. UNCHANGED <<reset, removed, cached, since, view, parked>>
  BY DEF Following!Update, Following!clients
<1>4. CASE Following!Bridge(after) = Following!Bridge(items[i])
  <2>1. items' = [items EXCEPT ![i] = after] /\ UNCHANGED <<seq, dirty>>
    BY <1>4 DEF Following!Update
  <2>2. Following!TypeOK'
    BY <1>1, <1>2, <1>3, <2>1 DEF Following!TypeOK
  <2>3. Following!RemovedIsGone'
    BY <1>1, <1>3, <2>1 DEF Following!RemovedIsGone
  <2>4. \A j \in Items : Following!Bridge(items'[j]) = Following!Bridge(items[j])
    BY <1>1, <1>4, <2>1
  <2>5. Following!CacheFresh'
    BY <1>3, <2>1, <2>4 DEF Following!CacheFresh, Following!Snapshot
  <2>6. ASSUME NEW c \in Clients
        PROVE  Follows(c)'
    <3>1. Follows(c)
      OBVIOUS
    <3>2. ASSUME NEW j \in Items
          PROVE  /\ items'[j] = NoItem <=> items[j] = NoItem
                 /\ items[j] # NoItem => items'[j].rev = items[j].rev
      BY <1>1, <2>1
    <3> QED
      BY <3>1, <3>2, <2>4, <1>3 DEF Follows
  <2> QED
    BY <2>2, <2>3, <2>5, <2>6
<1>5. CASE Following!Bridge(after) # Following!Bridge(items[i])
  <2> DEFINE new == [after EXCEPT !.rev = seq + 1]
  <2>1. /\ items' = [items EXCEPT ![i] = new] /\ dirty' = TRUE
        /\ seq < MaxSeq /\ seq' = seq + 1
    BY <1>5 DEF Following!Update, Following!Revise
  <2>2. new \in Following!Item /\ new.rev = seq + 1 /\ new # NoItem
    BY <1>1, <1>2, ProgressAssumption DEF Following!Item
  <2> HIDE DEF new
  <2>3. Following!TypeOK'
    <3>1. items' \in [Items -> Following!Item \cup {NoItem}]
      BY <1>1, <2>1, <2>2
    <3>2. \A j \in Items : items'[j] # NoItem => items'[j].rev \in 1..seq'
      BY <1>1, <1>2, <2>1, <2>2 DEF Following!TypeOK
    <3>3. /\ seq' \in 0..MaxSeq /\ reset' \in 0..seq' /\ removed' \in [Items -> 0..seq']
          /\ since' \in [Clients -> 0..seq']
             /\ parked' \in [Clients -> 0..seq' \cup {Following!Awake}]
      BY <1>2, <1>3, <2>1, ProgressAssumption DEF Following!TypeOK
    <3> QED
      BY <1>3, <2>1, <3>1, <3>2, <3>3 DEF Following!TypeOK
  <2>4. Following!RemovedIsGone' /\ Following!CacheFresh'
    BY <1>1, <1>3, <2>1, <2>2 DEF Following!RemovedIsGone, Following!CacheFresh
  <2>5. ASSUME NEW c \in Clients
        PROVE  Follows(c)'
    <3>1. Follows(c) /\ since[c] \in 0..seq
      BY DEF Following!TypeOK
    <3>2. ASSUME NEW j \in Items, j # i
          PROVE  items'[j] = items[j]
      BY <1>1, <2>1, <3>2
    <3>3. items'[i] = new
      BY <1>1, <2>1
    <3> QED
      BY <3>1, <3>2, <3>3, <2>2, <1>2, <1>3 DEF Follows
  <2> QED
    BY <2>3, <2>4, <2>5
<1> QED
  BY <1>4, <1>5

LEMMA StartKeeps ==
  ASSUME FollowingIInv, NEW i \in Items, Following!StartItem(i)
  PROVE  FollowingIInv'
<1> USE DEF FollowingIInv, TableKept
<1> DEFINE new == [received |-> 0, total |-> 0, progress |-> 0, speed |-> 0, on |-> FALSE,
                   status |-> "preparing", stage |-> NoStage, rev |-> seq + 1]
<1>1. /\ items' = [items EXCEPT ![i] = new] /\ removed' = [removed EXCEPT ![i] = 0]
      /\ dirty' = TRUE /\ seq < MaxSeq /\ seq' = seq + 1
      /\ UNCHANGED <<reset, cached, since, view, parked>>
  BY DEF Following!StartItem, Following!Revise, Following!clients
<1>2. seq \in Nat /\ items \in [Items -> Following!Item \cup {NoItem}]
      /\ removed \in [Items -> 0..seq]
  BY ProgressAssumption DEF Following!TypeOK
<1>3. new \in Following!Item /\ new.rev = seq + 1 /\ new # NoItem
  <2>1. 0 \in Following!Bytes /\ 0 \in 0..Full /\ "preparing" \in Following!Status
        /\ seq + 1 \in Nat
    BY <1>2, ProgressAssumption DEF Following!Bytes, Following!Status
  <2>2. new \in Following!Item
    BY <2>1, ProgressAssumption DEF Following!Item
  <2> QED
    BY <2>2, ProgressAssumption
<1> HIDE DEF new
<1>4. Following!TypeOK'
  <2>1. items' \in [Items -> Following!Item \cup {NoItem}]
    BY <1>1, <1>2, <1>3
  <2>2. \A j \in Items : items'[j] # NoItem => items'[j].rev \in 1..seq'
    BY <1>1, <1>2, <1>3 DEF Following!TypeOK
  <2>3. /\ seq' \in 0..MaxSeq /\ reset' \in 0..seq' /\ removed' \in [Items -> 0..seq']
        /\ since' \in [Clients -> 0..seq']
           /\ parked' \in [Clients -> 0..seq' \cup {Following!Awake}]
    BY <1>1, <1>2, ProgressAssumption DEF Following!TypeOK
  <2> QED
    BY <1>1, <2>1, <2>2, <2>3 DEF Following!TypeOK
<1>5. Following!RemovedIsGone' /\ Following!CacheFresh'
  BY <1>1, <1>2, <1>3 DEF Following!RemovedIsGone, Following!CacheFresh
<1>6. ASSUME NEW c \in Clients
      PROVE  Follows(c)'
  <2>1. Follows(c) /\ since[c] \in 0..seq
    BY DEF Following!TypeOK
  <2>2. ASSUME NEW j \in Items, j # i
        PROVE  items'[j] = items[j] /\ removed'[j] = removed[j]
    BY <1>1, <1>2, <2>2
  <2>3. items'[i] = new
    BY <1>1, <1>2
  <2> QED
    BY <2>1, <2>2, <2>3, <1>1, <1>2, <1>3 DEF Follows
<1> QED
  BY <1>4, <1>5, <1>6

\* What a removal leaves remembered: some of the removals, each of which a
\* follower that is not reset has heard of if it is forgotten.
LEMMA RemovalsKept ==
  ASSUME Following!TypeOK, NEW i \in Items, Following!RemoveItem(i), items[i] # NoItem
  PROVE  /\ seq' = seq + 1 /\ seq < MaxSeq
         /\ items' = [items EXCEPT ![i] = NoItem]
         /\ removed' \in [Items -> 0..seq'] /\ reset' \in reset..seq'
         /\ \A j \in Items :
              \/ removed'[j] = IF j = i THEN seq + 1 ELSE removed[j]
              \/ removed'[j] = 0 /\ (IF j = i THEN seq + 1 ELSE removed[j]) <= reset'
<1> DEFINE rem == [removed EXCEPT ![i] = seq + 1]
<1>1. seq' = seq + 1 /\ seq < MaxSeq /\ items' = [items EXCEPT ![i] = NoItem]
  BY DEF Following!RemoveItem, Following!Revise
<1>2. seq \in Nat /\ reset \in 0..seq /\ removed \in [Items -> 0..seq]
  BY ProgressAssumption DEF Following!TypeOK
<1>3. rem \in [Items -> 0..seq + 1]
      /\ \A j \in Items : rem[j] = IF j = i THEN seq + 1 ELSE removed[j]
  BY <1>2
<1>4. CASE ~ Following!Cardinality(Following!Tombs(rem)) > MaxRemoved
  <2>1. removed' = rem /\ reset' = reset
    BY <1>4 DEF Following!RemoveItem
  <2> QED
    BY <1>1, <1>2, <1>3, <2>1
<1>5. CASE Following!Cardinality(Following!Tombs(rem)) > MaxRemoved
  <2> HIDE DEF rem
  <2>1. Following!Prune(rem)
    BY <1>5 DEF Following!RemoveItem, rem
  <2>2. PICK cutoff \in Following!Revisions(rem) :
          /\ removed' = [j \in Items |-> IF rem[j] <= cutoff THEN 0 ELSE rem[j]]
          /\ reset' = IF cutoff > reset THEN cutoff ELSE reset
    BY <2>1 DEF Following!Prune
  <2>3. cutoff \in 0..seq + 1
    BY <1>3 DEF Following!Revisions, Following!Tombs
  <2> QED
    BY <1>1, <1>2, <1>3, <2>2, <2>3
<1> QED
  BY <1>4, <1>5

LEMMA RemoveKeeps ==
  ASSUME FollowingIInv, NEW i \in Items, Following!RemoveItem(i)
  PROVE  FollowingIInv'
<1> USE DEF FollowingIInv, TableKept
<1>1. dirty' = TRUE /\ UNCHANGED <<cached, since, view, parked>>
  BY DEF Following!RemoveItem, Following!clients
<1>2. CASE items[i] = NoItem
  <2>1. UNCHANGED <<items, seq, removed, reset>>
    BY <1>2 DEF Following!RemoveItem
  <2>2. Following!TypeOK' /\ Following!RemovedIsGone' /\ Following!CacheFresh'
    BY <1>1, <2>1 DEF Following!TypeOK, Following!RemovedIsGone, Following!CacheFresh
  <2> QED
    BY <1>1, <2>1, <2>2 DEF Follows
<1>3. CASE items[i] # NoItem
  <2>1. /\ seq' = seq + 1 /\ seq < MaxSeq
        /\ items' = [items EXCEPT ![i] = NoItem]
        /\ removed' \in [Items -> 0..seq'] /\ reset' \in reset..seq'
        /\ \A j \in Items :
             \/ removed'[j] = IF j = i THEN seq + 1 ELSE removed[j]
             \/ removed'[j] = 0 /\ (IF j = i THEN seq + 1 ELSE removed[j]) <= reset'
    BY <1>3, RemovalsKept
  <2>2. /\ seq \in Nat /\ items \in [Items -> Following!Item \cup {NoItem}] /\ reset \in 0..seq
        /\ removed \in [Items -> 0..seq]
    BY ProgressAssumption DEF Following!TypeOK
  <2>3. Following!TypeOK'
    <3>1. items' \in [Items -> Following!Item \cup {NoItem}]
      BY <2>1, <2>2
    <3>2. \A j \in Items : items'[j] # NoItem => items'[j].rev \in 1..seq'
      BY <2>1, <2>2 DEF Following!TypeOK
    <3>3. /\ seq' \in 0..MaxSeq /\ reset' \in 0..seq'
          /\ since' \in [Clients -> 0..seq']
             /\ parked' \in [Clients -> 0..seq' \cup {Following!Awake}]
      BY <1>1, <2>1, <2>2, ProgressAssumption DEF Following!TypeOK
    <3> QED
      BY <1>1, <2>1, <3>1, <3>2, <3>3 DEF Following!TypeOK
  <2>4. Following!RemovedIsGone' /\ Following!CacheFresh'
    BY <1>1, <2>1, <2>2 DEF Following!RemovedIsGone, Following!CacheFresh
  <2>5. ASSUME NEW c \in Clients
        PROVE  Follows(c)'
    <3>1. Follows(c) /\ since[c] \in 0..seq
      BY DEF Following!TypeOK
    <3>2. ASSUME NEW j \in Items, j # i
          PROVE  /\ items'[j] = items[j]
                 /\ \/ removed'[j] = removed[j]
                    \/ removed'[j] = 0 /\ removed[j] <= reset'
      BY <2>1, <2>2, <3>2
    <3>3. /\ items'[i] = NoItem
          /\ \/ removed'[i] = seq + 1
             \/ removed'[i] = 0 /\ seq + 1 <= reset'
      BY <2>1, <2>2
    <3> QED
      BY <3>1, <3>2, <3>3, <1>1, <2>1, <2>2 DEF Follows
  <2> QED
    BY <2>3, <2>4, <2>5
<1> QED
  BY <1>2, <1>3

LEMMA ClearKeeps ==
  ASSUME FollowingIInv, Following!ClearAll
  PROVE  FollowingIInv'
<1> USE DEF FollowingIInv, TableKept
<1>1. /\ items' = [j \in Items |-> NoItem] /\ removed' = [j \in Items |-> 0]
      /\ dirty' = TRUE /\ seq < MaxSeq /\ seq' = seq + 1 /\ reset' = seq + 1
      /\ UNCHANGED <<cached, since, view, parked>>
  BY DEF Following!ClearAll, Following!Revise, Following!clients
<1>2. seq \in Nat
  BY ProgressAssumption DEF Following!TypeOK
<1>3. Following!TypeOK'
  <2>1. items' \in [Items -> Following!Item \cup {NoItem}] /\ removed' \in [Items -> 0..seq']
        /\ \A j \in Items : items'[j] # NoItem => items'[j].rev \in 1..seq'
    BY <1>1, <1>2
  <2>2. /\ seq' \in 0..MaxSeq /\ reset' \in 0..seq'
        /\ since' \in [Clients -> 0..seq']
           /\ parked' \in [Clients -> 0..seq' \cup {Following!Awake}]
    BY <1>1, <1>2, ProgressAssumption DEF Following!TypeOK
  <2> QED
    BY <1>1, <2>1, <2>2 DEF Following!TypeOK
<1>4. Following!RemovedIsGone' /\ Following!CacheFresh'
  BY <1>1 DEF Following!RemovedIsGone, Following!CacheFresh
<1>5. ASSUME NEW c \in Clients
      PROVE  Follows(c)'
  <2>1. Follows(c) /\ since[c] \in 0..seq
    BY DEF Following!TypeOK
  <2> QED
    BY <2>1, <1>1, <1>2 DEF Follows
<1> QED
  BY <1>3, <1>4, <1>5

\* A delta brings a follower up to date.
LEMMA DeltaKeeps ==
  ASSUME FollowingIInv, NEW c \in Clients, Following!GetDelta(c), UNCHANGED Following!table,
         parked' \in [Clients -> 0..seq \cup {Following!Awake}]
  PROVE  FollowingIInv'
<1> USE DEF FollowingIInv, TableKept
<1>1. UNCHANGED <<items, seq, reset, removed, dirty, cached>>
  BY DEF Following!table
<1>2. /\ since \in [Clients -> 0..seq] /\ view \in [Clients -> [Items -> Following!Shown]]
      /\ items \in [Items -> Following!Item \cup {NoItem}] /\ reset \in 0..seq /\ seq \in Nat
      /\ removed \in [Items -> 0..seq]
  BY ProgressAssumption DEF Following!TypeOK
<1>3. since' = [since EXCEPT ![c] = seq] /\ view' = [view EXCEPT ![c] = Following!Delta(c)]
      /\ since[c] < seq
  BY DEF Following!GetDelta
<1>4. Following!Delta(c) \in [Items -> Following!Shown]
  BY <1>2, BridgeType DEF Following!Delta, Following!Shown
<1>5. Following!TypeOK'
  <2>1. since' \in [Clients -> 0..seq'] /\ view' \in [Clients -> [Items -> Following!Shown]]
    BY <1>1, <1>2, <1>3, <1>4
  <2> QED
    BY <1>1, <2>1 DEF Following!TypeOK
<1>6. Following!RemovedIsGone' /\ Following!CacheFresh'
  BY <1>1 DEF Following!RemovedIsGone, Following!CacheFresh, Following!Snapshot
<1>7. \A i \in Items : Following!Delta(c)[i] = Following!Bridge(items[i])
  <2> TAKE i \in Items
  <2>1. Follows(c)
    OBVIOUS
  <2>2. CASE since[c] <= 0 \/ since[c] < reset
    BY <2>2 DEF Following!Delta
  <2>3. CASE ~ (since[c] <= 0 \/ since[c] < reset)
    <3>1. Following!Bridge(NoItem) = NoItem
      BY DEF Following!Bridge
    <3>2. items[i] # NoItem => items[i].rev \in 1..seq
      BY DEF Following!TypeOK
    <3> QED
      BY <2>1, <2>3, <3>1, <3>2, <1>2 DEF Following!Delta, Follows, Following!RemovedIsGone
  <2> QED
    BY <2>2, <2>3
<1>8. ASSUME NEW d \in Clients
      PROVE  Follows(d)'
  <2>1. Follows(d)
    OBVIOUS
  <2>2. CASE d # c
    <3>1. since'[d] = since[d] /\ view'[d] = view[d]
      BY <1>2, <1>3, <2>2
    <3> QED
      BY <1>1, <2>1, <3>1 DEF Follows
  <2>3. CASE d = c
    <3>1. since'[d] = seq /\ view'[d] = Following!Delta(c) /\ seq > 0
      BY <1>2, <1>3, <2>3
    <3>2. Following!Bridge(NoItem) = NoItem
      BY DEF Following!Bridge
    <3> QED
      BY <1>1, <1>7, <3>1, <3>2 DEF Follows
  <2> QED
    BY <2>2, <2>3
<1> QED
  BY <1>5, <1>6, <1>8

\* Parking and waking change nothing that is shown.
LEMMA ParkedKeeps ==
  ASSUME FollowingIInv, UNCHANGED <<since, view>>, UNCHANGED Following!table,
         parked' \in [Clients -> 0..seq \cup {Following!Awake}]
  PROVE  FollowingIInv'
<1> USE DEF FollowingIInv, TableKept
<1>1. UNCHANGED <<items, seq, reset, removed, dirty, cached>>
  BY DEF Following!table
<1>2. Following!TypeOK' /\ Following!RemovedIsGone' /\ Following!CacheFresh'
  BY <1>1 DEF Following!TypeOK, Following!RemovedIsGone, Following!CacheFresh,
     Following!Snapshot
<1> QED
  BY <1>1, <1>2 DEF Follows

LEMMA ClientKeeps ==
  ASSUME FollowingIInv, NEW c \in Clients, Following!Client(c)
  PROVE  FollowingIInv'
<1>1. seq \in Nat /\ parked \in [Clients -> 0..seq \cup {Following!Awake}]
  BY ProgressAssumption DEF FollowingIInv, TableKept, Following!TypeOK
<1>2. CASE Following!Poll(c)
  <2>1. Following!GetDelta(c) /\ UNCHANGED Following!table /\ parked' = parked
    BY <1>2 DEF Following!Poll
  <2> QED
    BY <1>1, <2>1, DeltaKeeps
<1>3. CASE Following!Park(c)
  <2>1. UNCHANGED <<since, view>> /\ UNCHANGED Following!table
        /\ parked' = [parked EXCEPT ![c] = seq]
    BY <1>3 DEF Following!Park
  <2>2. parked' \in [Clients -> 0..seq \cup {Following!Awake}]
    BY <1>1, <2>1
  <2> QED
    BY <2>1, <2>2, ParkedKeeps
<1>4. CASE Following!Wake(c)
  <2>1. Following!GetDelta(c) /\ UNCHANGED Following!table
        /\ parked' = [parked EXCEPT ![c] = Following!Awake]
    BY <1>4 DEF Following!Wake
  <2>2. parked' \in [Clients -> 0..seq \cup {Following!Awake}]
    BY <1>1, <2>1
  <2> QED
    BY <2>1, <2>2, DeltaKeeps
<1>5. CASE Following!Heartbeat(c)
  <2>1. UNCHANGED <<since, view>> /\ UNCHANGED Following!table
        /\ parked' = [parked EXCEPT ![c] = Following!Awake]
    BY <1>5 DEF Following!Heartbeat
  <2>2. parked' \in [Clients -> 0..seq \cup {Following!Awake}]
    BY <1>1, <2>1
  <2> QED
    BY <2>1, <2>2, ParkedKeeps
<1> QED
  BY <1>2, <1>3, <1>4, <1>5 DEF Following!Client

\* What a worker puts in the table is an item.
LEMMA WorkerKeeps ==
  ASSUME FollowingIInv, NEW i \in Items, Following!Worker(i)
  PROVE  FollowingIInv'
<1> DEFINE item == items[i]
           Known == item # NoItem
           After(after) == Known => after \in Following!Item /\ after.rev = item.rev
<1>1. Known => item \in Following!Item
  BY DEF FollowingIInv, TableKept, Following!TypeOK
<1>2. /\ Full \in Nat /\ 0 \in Following!Bytes /\ 0 \in 0..Full /\ Full \in 0..Full
      /\ 0 \in Speeds /\ NoStage \in Stages
  BY ProgressAssumption DEF Following!Bytes
<1> HIDE DEF item
<1>3. ASSUME NEW x \in Following!Item
      PROVE  Following!Transferring(x) \in Following!Item
             /\ Following!Transferring(x).rev = x.rev
  BY <1>2 DEF Following!Transferring, Following!Item, Following!Status
<1>4. ASSUME NEW after, After(after), Following!Update(i, after)
      PROVE  FollowingIInv'
  BY <1>4, UpdateKeeps DEF item
<1>5. CASE Following!StartItem(i)
  BY <1>5, StartKeeps
<1>6. ASSUME NEW stage \in Stages, Following!SetPreparing(i, stage)
      PROVE  FollowingIInv'
  <2> DEFINE after == [item EXCEPT !.progress = 0, !.received = 0, !.total = 0, !.speed = 0,
                                   !.on = TRUE, !.status = "preparing", !.stage = stage]
  <2>1. After(after)
    BY <1>1, <1>2 DEF Following!Item, Following!Status
  <2>2. Following!Update(i, after)
    BY <1>6 DEF Following!SetPreparing, item
  <2> QED
    BY <1>4, <2>1, <2>2
<1>7. CASE Following!SetDownloading(i)
  BY <1>1, <1>3, <1>4, <1>7 DEF Following!SetDownloading, item
<1>8. ASSUME NEW total \in Following!Bytes, Following!SetBytesTotal(i, total)
      PROVE  FollowingIInv'
  <2> DEFINE after == [item EXCEPT !.total = total]
  <2>1. After(after)
    BY <1>1 DEF Following!Item
  <2>2. Following!Update(i, after)
    BY <1>8 DEF Following!SetBytesTotal, item
  <2> QED
    BY <1>4, <2>1, <2>2
<1>9. ASSUME NEW received \in Following!Bytes, NEW speed \in Speeds,
             Following!SetBytesReceived(i, received, speed)
      PROVE  FollowingIInv'
  <2> DEFINE counted == [item EXCEPT !.received = received, !.speed = speed,
                           !.progress = IF item.total > 0
                                        THEN Following!Ratio(received, item.total) ELSE @]
             after == IF received > 0 THEN Following!Transferring(counted) ELSE counted
  <2>1. Known => counted \in Following!Item /\ counted.rev = item.rev
    <3> SUFFICES ASSUME Known PROVE counted \in Following!Item /\ counted.rev = item.rev
      OBVIOUS
    <3>1. (IF item.total > 0 THEN Following!Ratio(received, item.total) ELSE item.progress)
             \in 0..Full
      BY <1>1, RatioType DEF Following!Item
    <3> QED
      BY <1>1, <3>1 DEF Following!Item
  <2>2. Following!Update(i, after)
    BY <1>9 DEF Following!SetBytesReceived, item
  <2> HIDE DEF counted
  <2>3. After(after)
    BY <1>3, <2>1
  <2> QED
    BY <1>4, <2>2, <2>3
<1>10. CASE Following!Complete(i)
  <2> DEFINE after == [item EXCEPT !.progress = Full, !.on = FALSE, !.status = "completed",
                                   !.stage = NoStage]
  <2>1. After(after)
    BY <1>1, <1>2 DEF Following!Item, Following!Status
  <2>2. Following!Update(i, after)
    BY <1>10 DEF Following!Complete, item
  <2> QED
    BY <1>4, <2>1, <2>2
<1>11. ASSUME NEW percent \in 0..Full, NEW received \in Following!Bytes,
              NEW total \in Following!Bytes,
              Following!SetProgress(i, percent, received, total)
       PROVE  FollowingIInv'
  <2> DEFINE hasBytes == received > 0 \/ total > 0
             counted == [item EXCEPT
                !.progress = IF item.status # "preparing" \/ hasBytes \/ percent >= Full
                             THEN percent ELSE 0,
                !.received = IF received > 0 THEN received ELSE @,
                !.total = IF total > 0 THEN total ELSE @]
             after == IF hasBytes \/ percent >= Full \/ item.status = "downloading"
                      THEN Following!Transferring(counted) ELSE counted
  <2>1. Known => counted \in Following!Item /\ counted.rev = item.rev
    BY <1>1, <1>2 DEF Following!Item
  <2>2. Following!Update(i, after)
    BY <1>11 DEF Following!SetProgress, item
  <2> HIDE DEF counted, hasBytes
  <2>3. After(after)
    BY <1>3, <2>1
  <2> QED
    BY <1>4, <2>2, <2>3
<1>12. CASE Following!SetFinalizing(i)
  <2> DEFINE after == [item EXCEPT !.progress = Full, !.status = "finalizing",
                                   !.stage = NoStage]
  <2>1. After(after)
    BY <1>1, <1>2 DEF Following!Item, Following!Status
  <2>2. Following!Update(i, after)
    BY <1>12 DEF Following!SetFinalizing, item
  <2> QED
    BY <1>4, <2>1, <2>2
<1>13. CASE Following!RemoveItem(i)
  BY <1>13, RemoveKeeps
<1> QED
  BY <1>5, <1>6, <1>7, <1>8, <1>9, <1>10, <1>11, <1>12, <1>13 DEF Following!Worker

LEMMA FollowingIInvInit == Following!Init => FollowingIInv
<1> SUFFICES ASSUME Following!Init PROVE FollowingIInv
  OBVIOUS
<1>1. Following!TypeOK
  BY ProgressAssumption DEF Following!Init, Following!TypeOK, Following!Shown
<1> QED
  BY <1>1 DEF Following!Init, FollowingIInv, TableKept, Following!RemovedIsGone,
     Following!CacheFresh, Follows

LEMMA FollowingIInvInductive == FollowingIInv
/\ (Following!Next \/ UNCHANGED Following!vars) => FollowingIInv'
<1> SUFFICES ASSUME FollowingIInv, Following!Next \/ UNCHANGED Following!vars
             PROVE  FollowingIInv'
  OBVIOUS
<1>1. CASE Following!GetAll
  <2>1. /\ cached' = Following!Snapshot /\ dirty' = FALSE
        /\ UNCHANGED <<items, seq, reset, removed, since, view, parked>>
    BY <1>1 DEF Following!GetAll, Following!clients
  <2>2. cached' \in [Items -> Following!Shown]
    BY <2>1, SnapshotType DEF FollowingIInv, TableKept, Following!TypeOK
  <2>3. Following!TypeOK' /\ Following!RemovedIsGone' /\ Following!CacheFresh'
    BY <2>1, <2>2 DEF FollowingIInv, TableKept, Following!TypeOK, Following!RemovedIsGone,
       Following!CacheFresh, Following!Snapshot
  <2> QED
    BY <2>1, <2>3 DEF FollowingIInv, TableKept, Follows
<1>2. CASE UNCHANGED Following!vars
  BY <1>2 DEF Following!vars, FollowingIInv, TableKept, Following!TypeOK,
     Following!RemovedIsGone, Following!CacheFresh, Following!Snapshot, Follows
<1> QED
  BY <1>1, <1>2, WorkerKeeps, ClientKeeps, ClearKeeps DEF Following!Next

LEMMA CaughtUpHolds == FollowingIInv => Following!CaughtUp
<1> SUFFICES ASSUME FollowingIInv, NEW c \in Clients, since[c] = seq
             PROVE  view[c] = Following!Snapshot
  BY DEF Following!CaughtUp
<1>1. /\ seq \in Nat /\ reset \in 0..seq /\ removed \in [Items -> 0..seq]
      /\ view[c] \in [Items -> Following!Shown] /\ Following!Bridge(NoItem) = NoItem
  BY ProgressAssumption DEF FollowingIInv, TableKept, Following!TypeOK, Following!Bridge
<1>2. \A i \in Items : items[i] # NoItem => items[i].rev \in 1..seq
  BY DEF FollowingIInv, TableKept, Following!TypeOK
<1>3. \A i \in Items : view[c][i] = Following!Bridge(items[i])
  BY <1>1, <1>2 DEF FollowingIInv, Follows
<1> QED
  BY <1>1, <1>3 DEF Following!Snapshot

\* FollowersSound: a follower that is up to date shows the table exactly,
\* whatever updates were judged too small to tell, whatever removals were
\* forgotten and however often it slept through them (progress.go).
THEOREM FollowersSoundHolds == MCSpec => []FollowersSound
<1>1. MCInit => FollowingIInv
  BY FollowingIInvInit DEF MCInit
<1>2. FollowingIInv /\ [MCNext]_<<which, vars, scanning, following, fetching>>
        => FollowingIInv'
  BY PartStep, FollowingIInvInductive
<1>3. FollowingIInv => FollowersSound
  BY CaughtUpHolds DEF FollowingIInv, TableKept, FollowersSound
<1> QED
  BY <1>1, <1>2, <1>3, PTL DEF MCSpec

-----------------------------------------------------------------------------
(* The transfers to a path.  Of a path whose file is always downloaded     *)
(* whole, or always in segments, the invariant says for each engine and    *)
(* stage of a call what of the staged file is of the object it is for, and *)
(* that the checkpoint counts no more.                                     *)
ChosenTags == {NoTag} \cup {Tag[v] : v \in Versions}
Pcs == {"idle", "probe", "restore", "clear", "drop", "request", "body", "segments", "giveup",
        "publish", "published", "fail"}
SegmentStates == {"todo", "busy", "ready", "done"}

Bodies == Versions \cup {NoFile}
SomeLists == Lists \cup {NoFile}
Rows == Seq(SegmentStates)
Engines == {"ranged", "chunked", "segmented"}

CallType ==
    [pc : Pcs, engine : Engines, resume : BOOLEAN, keep : BOOLEAN,
     attempt : Nat, tag : ChosenTags, total : Nat, body : Bodies,
     full : BOOLEAN, start : Nat, end : Nat, at : Nat,
     list : SomeLists, segments : Rows, next : Nat]

\* The first `n` blocks of a file are those of an object; all of them are.
Holds(f, n, o) == \A i \in 1..Len(f) : i <= n => i <= Size[o] /\ f[i] = <<o, i>>
PrefixOf(f, o) == \A i \in 1..Len(f) : i <= Size[o] /\ f[i] = <<o, i>>

\* A checkpoint is about a version with a validator; what it counts is there.
Known(vs, k) ==
    k # NoCheckpoint =>
        /\ k.tag # NoTag /\ k.bytes \in Nat
        /\ \E v \in vs : Tag[v] = k.tag /\ k.total \in {0, Size[v]}
Honest(vs, k, f) ==
    k # NoCheckpoint => \A v \in vs : Tag[v] = k.tag => Holds(f, k.bytes, v)

\* A ranged transfer that began again with a new object, where nothing can go
\* wrong before it saves its checkpoint.
Rash(c, s) ==
    c.engine = "ranged" /\ c.pc \in {"body", "giveup", "publish"} /\ ~s.crash /\ ~s.fail

RangedFits(c, f, k, vs) ==
    c.engine = "ranged" =>
        /\ c.pc \notin {"probe", "segments"}
        /\ c.pc = "restore" => c.keep /\ c.resume /\ k # NoCheckpoint
        /\ c.pc \in {"clear", "drop"} => c.tag = NoTag
        /\ c.pc = "drop" => f = <<>>
        /\ c.pc \in {"request", "body", "giveup"} => c.keep \/ k = NoCheckpoint
        /\ c.pc = "request" =>
             /\ c.tag = NoTag \/ \E v \in vs : Tag[v] = c.tag
             /\ \/ f = <<>>
                \/ c.resume /\ c.tag # NoTag /\ \A v \in vs : Tag[v] = c.tag => PrefixOf(f, v)
        /\ c.pc \in {"body", "giveup"} =>
             /\ c.body \in vs /\ Tag[c.body] = c.tag /\ c.total \in {0, Size[c.body]}
             /\ PrefixOf(f, c.body)
        /\ c.pc = "body" => Len(f) = c.at

ChunkedFits(c, f, k, vs) ==
    c.engine = "chunked" =>
        /\ c.pc \notin {"idle", "segments"}
        /\ c.pc \in {"restore", "clear", "drop", "request", "body", "giveup"} =>
             \E v \in vs : Tag[v] = c.tag /\ c.total \in {0, Size[v]}
        /\ c.pc = "restore" => k # NoCheckpoint
        /\ c.pc \in {"restore", "request", "body", "giveup"} =>
             (k # NoCheckpoint => k.tag = c.tag)
        /\ c.pc \in {"clear", "drop", "request", "body"} =>
             (c.total = 0 => c.start + ChunkSize <= c.end)
        /\ c.pc \in {"clear", "drop"} => c.start = 0
        /\ c.pc = "drop" => f = <<>>
        /\ c.pc \in {"request", "body", "giveup"} =>
             \A v \in vs : Tag[v] = c.tag => PrefixOf(f, v)
        /\ c.pc = "request" => Len(f) = c.start
        /\ c.pc = "body" =>
             c.body \in vs /\ Tag[c.body] = c.tag /\ Len(f) = c.at /\ c.start <= c.at

SegmentedFits(c, f, g) ==
    /\ c.engine = "segmented" \/ c.pc = "idle"
    /\ c.pc \notin {"probe", "request", "body"}
    /\ g # NoCheckpoint =>
         /\ g.list \in Lists /\ g.next \in Nat /\ g.bytes = g.next /\ g.next <= Size[g.list]
         /\ Holds(f, g.bytes, g.list)
    /\ c.pc \in {"restore", "clear", "drop", "segments"} =>
         c.list \in Lists /\ Len(c.segments) = Size[c.list]
    /\ c.pc \in {"restore", "clear", "drop"} => c.next = 0
    /\ c.pc = "restore" => g # NoCheckpoint /\ g.list = c.list
    /\ c.pc = "drop" => f = <<>>
    /\ c.pc \in {"segments", "giveup"} =>
         /\ c.list \in Lists /\ PrefixOf(f, c.list) /\ Len(f) = c.next
         /\ g # NoCheckpoint => g.list = c.list

Fits(c, f, k, g, s) ==
    /\ c.pc # "idle" => c.engine \in s.engines
    /\ c.pc = "publish" => \E o \in Fetching!Objects : f = Fetching!Whole(o)
    /\ c.pc = "published" => f = <<>>
    /\ IF s.engines \subseteq {"segmented"}
       THEN k = NoCheckpoint /\ SegmentedFits(c, f, g)
       ELSE /\ g = NoCheckpoint /\ c.engine # "segmented"
            /\ Known(s.versions, k)
            /\ Honest(s.versions, k, f) \/ Rash(c, s)
            /\ RangedFits(c, f, k, s.versions) /\ ChunkedFits(c, f, k, s.versions)

FetchingIInv ==
    /\ Apart(scenario) /\ server \in scenario.versions
    /\ transfer \in CallType /\ synced \in Nat
    /\ staged \in Seq(Fetching!Objects \X Nat)
    /\ Fits(transfer, staged, ckpt, segCkpt, scenario)

Blocks == Fetching!Objects \X Nat

-----------------------------------------------------------------------------
\* What is left of a file that is cut.
LEMMA CutFile ==
  ASSUME NEW T, NEW f \in Seq(T), NEW n \in 0..Len(f), NEW g, g = SubSeq(f, 1, n)
  PROVE  /\ g \in Seq(T) /\ Len(g) = n /\ \A i \in 1..n : g[i] = f[i]
         /\ n = 0 => g = <<>>
<1>1. n \in Nat /\ n <= Len(f) /\ Len(f) \in Nat
  OBVIOUS
<1>2. Len(g) = n /\ \A i \in 1..n : g[i] = f[i]
  BY <1>1
<1>3. g \in Seq(T)
  BY <1>1
<1>4. n = 0 => g = <<>>
  BY <1>2, <1>3
<1> QED
  BY <1>2, <1>3, <1>4

LEMMA CutHolds ==
  ASSUME NEW T, NEW f \in Seq(T), NEW n \in 0..Len(f), NEW m, NEW o, Holds(f, m, o)
  PROVE  Holds(SubSeq(f, 1, n), m, o)
<1> DEFINE g == SubSeq(f, 1, n)
<1>1. Len(g) = n /\ \A i \in 1..n : g[i] = f[i]
  BY CutFile
<1> HIDE DEF g
<1>2. \A i \in 1..n : i \in 1..Len(f)
  OBVIOUS
<1>3. Holds(g, m, o)
  BY <1>1, <1>2 DEF Holds
<1> QED
  BY <1>3 DEF g

LEMMA CutStarts ==
  ASSUME NEW T, NEW f \in Seq(T), NEW n \in 0..Len(f), NEW m \in Nat, n <= m,
         NEW o, Holds(f, m, o)
  PROVE  PrefixOf(SubSeq(f, 1, n), o)
<1> DEFINE g == SubSeq(f, 1, n)
<1>1. Len(g) = n /\ \A i \in 1..n : g[i] = f[i]
  BY CutFile
<1> HIDE DEF g
<1>2. \A i \in 1..n : i \in 1..Len(f) /\ i <= m
  OBVIOUS
<1>3. PrefixOf(g, o)
  BY <1>1, <1>2 DEF Holds, PrefixOf
<1> QED
  BY <1>3 DEF g

\* A file that is longer by the next block.
LEMMA NextBlock ==
  ASSUME NEW o \in Fetching!Objects, NEW f \in Seq(Blocks), PrefixOf(f, o), Len(f) < Size[o],
         NEW g, g = Append(f, <<o, Len(f) + 1>>)
  PROVE  g \in Seq(Blocks) /\ Len(g) = Len(f) + 1 /\ PrefixOf(g, o)
<1>1. Len(f) \in Nat /\ <<o, Len(f) + 1>> \in Blocks
  BY DEF Blocks
<1>2. /\ g \in Seq(Blocks) /\ Len(g) = Len(f) + 1 /\ g[Len(f) + 1] = <<o, Len(f) + 1>>
      /\ \A i \in 1..Len(f) : g[i] = f[i]
  BY <1>1
<1>3. Size[o] \in Nat
  BY TransferAssumption
<1>4. ASSUME NEW i \in 1..Len(g)
      PROVE  i <= Size[o] /\ g[i] = <<o, i>>
  <2>1. CASE i = Len(f) + 1
    BY <1>1, <1>2, <1>3, <2>1
  <2>2. CASE i # Len(f) + 1
    <3>1. i \in 1..Len(f)
      BY <1>1, <1>2, <2>2
    <3> QED
      BY <1>2, <3>1 DEF PrefixOf
  <2> QED
    BY <2>1, <2>2
<1> QED
  BY <1>2, <1>4 DEF PrefixOf

\* A file with all blocks of an object is the object.
LEMMA AllBlocks ==
  ASSUME NEW o \in Fetching!Objects, NEW f \in Seq(Blocks), PrefixOf(f, o), Len(f) = Size[o]
  PROVE  f = Fetching!Whole(o)
<1>1. f = [i \in 1..Len(f) |-> f[i]]
  OBVIOUS
<1>2. \A i \in 1..Len(f) : f[i] = <<o, i>>
  BY DEF PrefixOf
<1> QED
  BY <1>1, <1>2 DEF Fetching!Whole

LEMMA StartsHolds ==
  ASSUME NEW f, NEW o, PrefixOf(f, o)
  PROVE  \A n : Holds(f, n, o)
  BY DEF PrefixOf, Holds

LEMMA EmptyFits ==
  /\ Len(<<>>) = 0 /\ <<>> \in Seq(Blocks)
  /\ \A o : PrefixOf(<<>>, o) /\ \A n : Holds(<<>>, n, o)
  /\ \A vs, k : Honest(vs, k, <<>>)
<1>1. Len(<<>>) = 0 /\ <<>> \in Seq(Blocks)
  OBVIOUS
<1>2. \A o : PrefixOf(<<>>, o) /\ \A n : Holds(<<>>, n, o)
  BY <1>1 DEF PrefixOf, Holds
<1> QED
  BY <1>1, <1>2 DEF Honest

\* An honest checkpoint stays so when the file is cut, or emptied.
LEMMA CutHonest ==
  ASSUME NEW f \in Seq(Blocks), NEW n \in 0..Len(f), NEW vs, NEW k, Honest(vs, k, f)
  PROVE  Honest(vs, k, SubSeq(f, 1, n))
  BY CutHolds DEF Honest

-----------------------------------------------------------------------------
\* The scenario says which invariant is meant.
LEMMA FileScenario ==
  ASSUME FetchingIInv, transfer.pc # "idle", transfer.engine # "segmented"
  PROVE  /\ ~ (scenario.engines \subseteq {"segmented"})
         /\ scenario.versions \subseteq Versions /\ server \in scenario.versions
         /\ transfer.engine = "chunked" \/ ~Nameless(scenario) =>
              \A v, w \in scenario.versions :
                 (Tag[v] = Tag[w] => v = w) /\ (Tag[v] = NoTag => v = w)
         /\ transfer.engine = "ranged" /\ ~Nameless(scenario)
            /\ (scenario.crash \/ scenario.fail) => OneVersion(scenario)
         /\ segCkpt = NoCheckpoint
         /\ Known(scenario.versions, ckpt)
         /\ Honest(scenario.versions, ckpt, staged) \/ Rash(transfer, scenario)
         /\ RangedFits(transfer, staged, ckpt, scenario.versions)
         /\ ChunkedFits(transfer, staged, ckpt, scenario.versions)
         /\ transfer \in CallType /\ staged \in Seq(Blocks) /\ synced \in Nat
<1>1. transfer.engine \in scenario.engines /\ ~ (scenario.engines \subseteq {"segmented"})
  BY DEF FetchingIInv, Fits
<1>2. Apart(scenario)
  BY DEF FetchingIInv
<1>3. /\ transfer.engine = "chunked" \/ ~Nameless(scenario) =>
           OneVersion(scenario) \/ Validated(scenario)
      /\ transfer.engine = "ranged" /\ ~Nameless(scenario)
         /\ (scenario.crash \/ scenario.fail) => OneVersion(scenario)
  BY <1>1, <1>2 DEF Apart
<1>4. transfer.engine = "chunked" \/ ~Nameless(scenario) =>
        \A v, w \in scenario.versions : (Tag[v] = Tag[w] => v = w) /\ (Tag[v] = NoTag => v = w)
  BY <1>3 DEF OneVersion, Validated
<1> QED
  BY <1>1, <1>2, <1>3, <1>4 DEF FetchingIInv, Fits, Apart, Blocks

\* Of versions without validators there is no checkpoint.
LEMMA NamelessUnsaved ==
  ASSUME NEW vs, NEW k, Known(vs, k), \A v \in vs : Tag[v] = NoTag
  PROVE  k = NoCheckpoint
  BY DEF Known

LEMMA SegmentScenario ==
  ASSUME FetchingIInv, transfer.pc # "idle", transfer.engine = "segmented"
  PROVE  /\ scenario.engines \subseteq {"segmented"}
         /\ ckpt = NoCheckpoint
         /\ SegmentedFits(transfer, staged, segCkpt)
         /\ transfer \in CallType /\ staged \in Seq(Blocks) /\ synced \in Nat
<1>1. transfer.engine \in scenario.engines
  BY DEF FetchingIInv, Fits
<1>2. Apart(scenario)
  BY DEF FetchingIInv
<1>3. scenario.engines \subseteq {"segmented"}
  BY <1>1, <1>2 DEF Apart
<1> QED
  BY <1>3 DEF FetchingIInv, Fits, Blocks

\* A step that leaves the disk as it should be for where the call is then.
LEMMA Lands ==
  ASSUME FetchingIInv, scenario' = scenario, server' \in scenario.versions,
         transfer' \in CallType,
         synced' \in Nat, staged' \in Seq(Blocks),
         Fits(transfer', staged', ckpt', segCkpt', scenario)
  PROVE  FetchingIInv'
  BY DEF FetchingIInv, Blocks
\* A step of a transfer of a file that leaves the disk as it should be.
LEMMA FileLands ==
  ASSUME FetchingIInv, transfer.pc # "idle", transfer.engine # "segmented",
         scenario' = scenario,
         server' \in scenario.versions, transfer' \in CallType,
         transfer'.engine = transfer.engine \/ transfer' = Fetching!Idle,
         synced' \in Nat, staged' \in Seq(Blocks), segCkpt' = segCkpt,
         transfer'.pc = "publish" => \E o \in Fetching!Objects : staged' = Fetching!Whole(o),
         transfer'.pc = "published" => staged' = <<>>,
         Known(scenario.versions, ckpt'),
         Honest(scenario.versions, ckpt', staged') \/ Rash(transfer', scenario),
         RangedFits(transfer', staged', ckpt', scenario.versions),
         ChunkedFits(transfer', staged', ckpt', scenario.versions)
  PROVE  FetchingIInv'
<1>1. transfer.engine \in scenario.engines /\ transfer'.engine # "segmented"
      /\ (transfer'.pc # "idle" => transfer'.engine \in scenario.engines)
  BY DEF FetchingIInv, Fits, Fetching!Idle
<1>2. ~ (scenario.engines \subseteq {"segmented"}) /\ segCkpt = NoCheckpoint
  BY <1>1, FileScenario
<1>3. Fits(transfer', staged', ckpt', segCkpt', scenario)
  BY <1>1, <1>2 DEF Fits
<1> QED
  BY <1>3, Lands

LEMMA SegmentLands ==
  ASSUME FetchingIInv, transfer.pc # "idle", transfer.engine = "segmented",
         scenario' = scenario,
         server' = server, transfer' \in CallType,
         transfer'.engine = transfer.engine \/ transfer' = Fetching!Idle,
         synced' \in Nat, staged' \in Seq(Blocks), ckpt' = ckpt,
         transfer'.pc = "publish" => \E o \in Fetching!Objects : staged' = Fetching!Whole(o),
         transfer'.pc = "published" => staged' = <<>>,
         SegmentedFits(transfer', staged', segCkpt')
  PROVE  FetchingIInv'
<1>1. scenario.engines \subseteq {"segmented"} /\ ckpt = NoCheckpoint
      /\ server' \in scenario.versions
      /\ (transfer'.pc # "idle" => transfer'.engine \in scenario.engines)
  BY SegmentScenario DEF FetchingIInv, Fits, Fetching!Idle
<1>2. Fits(transfer', staged', ckpt', segCkpt', scenario)
  BY <1>1 DEF Fits
<1> QED
  BY <1>1, <1>2, Lands

LEMMA PcsAre ==
  /\ "idle" \in Pcs /\ "probe" \in Pcs /\ "restore" \in Pcs /\ "clear" \in Pcs
  /\ "drop" \in Pcs /\ "request" \in Pcs /\ "body" \in Pcs /\ "segments" \in Pcs
  /\ "giveup" \in Pcs /\ "publish" \in Pcs /\ "published" \in Pcs /\ "fail" \in Pcs
  BY DEF Pcs

\* A call that goes elsewhere keeps its locals.
LEMMA GotoIs ==
  ASSUME NEW c \in CallType, NEW p \in Pcs, NEW d, d = [c EXCEPT !.pc = p]
  PROVE  /\ d \in CallType /\ d.pc = p /\ d.engine = c.engine /\ d.resume = c.resume
         /\ d.keep = c.keep /\ d.attempt = c.attempt /\ d.tag = c.tag /\ d.total = c.total
         /\ d.body = c.body /\ d.full = c.full /\ d.start = c.start /\ d.end = c.end
         /\ d.at = c.at /\ d.list = c.list /\ d.segments = c.segments /\ d.next = c.next
  BY DEF CallType

LEMMA IdleIs ==
  /\ Fetching!Idle \in CallType /\ Fetching!Idle.pc = "idle"
     /\ Fetching!Idle.engine = "ranged" /\ Fetching!Idle.tag = NoTag
  BY DEF Fetching!Idle, CallType, Pcs, ChosenTags, Bodies, SomeLists, Rows, Engines

LEMMA MinIs ==
  ASSUME NEW a \in Nat, NEW b \in Nat
  PROVE  Fetching!Min2(a, b) \in Nat /\ Fetching!Min2(a, b) <= a /\ Fetching!Min2(a, b) <= b
         /\ Fetching!Min2(a, b) \in {a, b} /\ Fetching!Min2(a, b) \in 0..b
            /\ Fetching!Min2(a, b) \in 0..a
  BY DEF Fetching!Min2

\* The next chunk, or the end of the loop.
LEMMA NextChunkIs ==
  ASSUME NEW c \in CallType, NEW n \in Nat, NEW d, d = Fetching!NextChunk(c, n)
  PROVE  /\ d \in CallType /\ d.engine = c.engine /\ d.keep = c.keep /\ d.tag = c.tag
         /\ d.total = c.total /\ d.start = n /\ d.pc \in {"request", "publish", "fail"}
         /\ d.pc = "publish" => c.total > 0 /\ n = c.total
         /\ d.total = 0 => d.start + ChunkSize <= d.end
<1>1. c.total \in Nat /\ ChunkSize \in Nat \ {0} /\ n + ChunkSize \in Nat
  BY TransferAssumption DEF CallType
<1>2. PICK p \in Pcs, a \in Nat, m \in Nat :
        /\ d = [c EXCEPT !.pc = p, !.attempt = a, !.start = n, !.end = m]
        /\ p \in {"request", "publish", "fail"}
        /\ p = "publish" => c.total > 0 /\ n = c.total
        /\ c.total = 0 => n + ChunkSize <= m
  <2> DEFINE p == IF c.total = 0 \/ n < c.total THEN "request"
                  ELSE IF n = c.total THEN "publish" ELSE "fail"
             m == IF c.total > 0 THEN Fetching!Min2(n + ChunkSize, c.total) ELSE n + ChunkSize
  <2>1. m \in Nat /\ (c.total = 0 => n + ChunkSize <= m)
    BY <1>1, MinIs
  <2>2. p \in {"request", "publish", "fail"} /\ (p = "publish" => c.total > 0 /\ n = c.total)
    BY <1>1
  <2>3. d = [c EXCEPT !.pc = p, !.attempt = 0, !.start = n, !.end = m]
    BY DEF Fetching!NextChunk
  <2>4. p \in Pcs
    BY <2>2 DEF Pcs
  <2> QED
    BY <2>1, <2>2, <2>3, <2>4
<1>4. d = [c EXCEPT !.pc = p, !.attempt = a, !.start = n, !.end = m]
  BY <1>2
<1>5. /\ d \in CallType /\ d.engine = c.engine /\ d.keep = c.keep /\ d.tag = c.tag
      /\ d.total = c.total /\ d.pc = p /\ d.start = n /\ d.end = m
  BY <1>4 DEF CallType
<1> QED
  BY <1>2, <1>5

\* A checkpoint of a version whose file begins as it should.
LEMMA StartsHonest ==
  ASSUME NEW vs, NEW k, NEW f, \A v \in vs : Tag[v] = k.tag => PrefixOf(f, v)
  PROVE  Honest(vs, k, f)
  BY StartsHolds DEF Honest

\* What a call saves of a file: the checkpoint stays, or counts all of it.
LEMMA FileSaves ==
  ASSUME transfer \in CallType, transfer.engine # "segmented", synced \in Nat,
         NEW f \in Seq(Blocks), NEW must \in BOOLEAN, Fetching!SaveCheckpoint(f, must),
         NEW k, k = [tag |-> transfer.tag, bytes |-> Len(f), total |-> transfer.total]
  PROVE  /\ segCkpt' = segCkpt /\ synced' \in Nat
         /\ ckpt' = ckpt \/ (transfer.keep /\ transfer.tag # NoTag /\ ckpt' = k)
         /\ must /\ ~scenario.fail /\ transfer.keep /\ transfer.tag # NoTag
            /\ f # <<>> => ckpt' = k
<1>1. k.bytes = Len(f) /\ Len(f) \in Nat
  OBVIOUS
<1> QED
  BY <1>1 DEF Fetching!SaveCheckpoint, Fetching!Checkpoint

LEMMA SegmentSaves ==
  ASSUME transfer \in CallType, transfer.engine = "segmented", synced \in Nat,
         NEW f \in Seq(Blocks), NEW n, NEW must \in BOOLEAN, Fetching!SaveSegments(f, n, must),
         NEW k, k = [list |-> transfer.list, bytes |-> Len(f), next |-> n]
  PROVE  ckpt' = ckpt /\ synced' \in Nat /\ segCkpt' \in {segCkpt, k}
<1>1. k.bytes = Len(f) /\ Len(f) \in Nat
  OBVIOUS
<1> QED
  BY <1>1 DEF Fetching!SaveSegments, Fetching!Checkpoint

\* A file that begins with the object of the checkpoint that is saved.
LEMMA EntryFits ==
  ASSUME NEW vs, NEW v \in vs, \A w \in vs : Tag[w] = Tag[v] => w = v,
         NEW f \in Seq(Blocks), PrefixOf(f, v), NEW total \in {0, Size[v]}, Tag[v] # NoTag,
         NEW k, k = [tag |-> Tag[v], bytes |-> Len(f), total |-> total]
  PROVE  Known(vs, k) /\ Honest(vs, k, f)
<1>1. k.tag = Tag[v] /\ k.bytes \in Nat /\ k.total = total
  OBVIOUS
<1>2. Known(vs, k)
  BY <1>1 DEF Known
<1> QED
  BY <1>1, <1>2, StartsHonest

\* A file cut to nothing.
LEMMA CutEmpty ==
  ASSUME staged \in Seq(Blocks), Fetching!TruncateTo(0), synced \in Nat
  PROVE  staged' = <<>> /\ synced' \in Nat
  BY MinIs DEF Fetching!TruncateTo

-----------------------------------------------------------------------------
\* reliableFileDownload

\* What is meant of a ranged transfer.
LEMMA RangedScenario ==
  ASSUME FetchingIInv, transfer.pc # "idle", transfer.engine = "ranged"
  PROVE  /\ scenario.versions \subseteq Fetching!Objects /\ server \in scenario.versions
         /\ \A v, w \in scenario.versions :
              /\ Tag[v] = Tag[w] /\ Tag[v] # NoTag => v = w
              /\ Tag[v] = NoTag => Tag[w] = NoTag
         /\ \A v \in scenario.versions : Size[v] \in Nat \ {0} /\ Tag[v] \in ChosenTags
         /\ ~ Rash(transfer, scenario) => Honest(scenario.versions, ckpt, staged)
         /\ segCkpt = NoCheckpoint /\ Known(scenario.versions, ckpt)
         /\ RangedFits(transfer, staged, ckpt, scenario.versions)
         /\ transfer \in CallType /\ staged \in Seq(Blocks) /\ synced \in Nat
<1>1. \A v, w \in scenario.versions :
        /\ Tag[v] = Tag[w] /\ Tag[v] # NoTag => v = w
        /\ Tag[v] = NoTag => Tag[w] = NoTag
  BY FileScenario DEF Nameless
<1> QED
  BY <1>1, FileScenario, TransferAssumption DEF Fetching!Objects, ChosenTags

\* A step of a ranged transfer that leaves the disk as it should be.
LEMMA RangedLands ==
  ASSUME FetchingIInv, transfer.pc # "idle", transfer.engine = "ranged", scenario' = scenario,
         server' = server, transfer' \in CallType, transfer'.engine = "ranged",
         synced' \in Nat, staged' \in Seq(Blocks), segCkpt' = segCkpt,
         transfer'.pc = "publish" => \E o \in Fetching!Objects : staged' = Fetching!Whole(o),
         transfer'.pc # "published",
         Known(scenario.versions, ckpt'),
         Honest(scenario.versions, ckpt', staged') \/ Rash(transfer', scenario),
         RangedFits(transfer', staged', ckpt', scenario.versions)
  PROVE  FetchingIInv'
<1>1. ChunkedFits(transfer', staged', ckpt', scenario.versions)
  BY DEF ChunkedFits
<1> QED
  BY <1>1, FileLands, RangedScenario

LEMMA RangedRestoreKeeps ==
  ASSUME FetchingIInv, Fetching!RangedRestore
  PROVE  FetchingIInv'
<1> DEFINE n == Fetching!Min2(ckpt.bytes, Fetching!Written)
           p == IF n > 0 /\ ckpt.total > 0 /\ n = ckpt.total THEN "publish" ELSE "request"
<1>1. transfer.engine = "ranged" /\ transfer.pc = "restore"
  BY DEF Fetching!RangedRestore, Fetching!Ranged
<1>2. /\ ~ Rash(transfer, scenario) /\ transfer \in CallType /\ staged \in Seq(Blocks)
      /\ synced \in Nat /\ RangedFits(transfer, staged, ckpt, scenario.versions)
      /\ Known(scenario.versions, ckpt)
  BY <1>1, RangedScenario DEF Rash
<1>3. ckpt # NoCheckpoint /\ transfer.keep /\ transfer.resume
  BY <1>1, <1>2 DEF RangedFits
<1>4. Honest(scenario.versions, ckpt, staged)
  BY <1>1, <1>2, RangedScenario
<1>5. PICK v \in scenario.versions :
        Tag[v] = ckpt.tag /\ ckpt.total \in {0, Size[v]} /\ ckpt.tag # NoTag
        /\ ckpt.bytes \in Nat
  BY <1>2, <1>3 DEF Known
<1>6. /\ v \in Fetching!Objects /\ Size[v] \in Nat \ {0} /\ ckpt.tag \in ChosenTags
      /\ ckpt.total \in Nat
      /\ \A w \in scenario.versions : Tag[w] = Tag[v] => w = v
  BY <1>1, <1>5, RangedScenario
<1>7. n \in 0..Len(staged) /\ n <= ckpt.bytes /\ n \in Nat
  <2>1. Len(staged) \in Nat
    BY <1>2
  <2> QED
    BY <1>5, <2>1, MinIs DEF Fetching!Written
<1>8. /\ staged' = SubSeq(staged, 1, n) /\ synced' = Fetching!Min2(synced, n)
      /\ UNCHANGED <<ckpt, segCkpt, server, scenario>>
  BY DEF Fetching!RangedRestore, Fetching!TruncateTo
<1>16. transfer' = [transfer EXCEPT !.tag = ckpt.tag, !.total = ckpt.total, !.pc = p]
  BY DEF Fetching!RangedRestore
<1> HIDE DEF n
<1>9. synced' \in Nat
  BY <1>2, <1>7, <1>8, MinIs
<1>10. Honest(scenario.versions, ckpt, staged')
  BY <1>2, <1>4, <1>7, <1>8, CutHonest
<1>11. PrefixOf(staged', v) /\ staged' \in Seq(Blocks) /\ Len(staged') = n
  <2>1. Holds(staged, ckpt.bytes, v)
    BY <1>3, <1>4, <1>5 DEF Honest
  <2> QED
    BY <2>1, <1>2, <1>5, <1>7, <1>8, CutStarts, CutFile
<1>12. p \in {"publish", "request"} /\ (p = "publish" => n = Size[v])
  BY <1>5, <1>6, <1>7
<1> HIDE DEF p
<1>13. /\ transfer' \in CallType /\ transfer'.pc = p /\ transfer'.engine = "ranged"
       /\ transfer'.tag = ckpt.tag /\ transfer'.total = ckpt.total /\ transfer'.keep
          /\ transfer'.resume
  BY <1>1, <1>2, <1>3, <1>6, <1>16, <1>12, PcsAre DEF CallType
<1>14. p = "publish" => staged' = Fetching!Whole(v)
  BY <1>6, <1>11, <1>12, AllBlocks
<1>15. RangedFits(transfer', staged', ckpt', scenario.versions)
  BY <1>5, <1>6, <1>8, <1>11, <1>12, <1>13 DEF RangedFits
<1> QED
  BY <1>1, <1>2, <1>6, <1>8, <1>9, <1>10, <1>11, <1>12, <1>13, <1>14, <1>15, RangedLands

\* Where a request of a ranged transfer begins.
LEMMA FromIs ==
  ASSUME transfer \in CallType, staged \in Seq(Blocks)
  PROVE  \/ Fetching!RangeFrom = 0
            /\ ~(transfer.resume /\ staged # <<>> /\ transfer.tag # NoTag)
         \/ /\ Fetching!RangeFrom = Len(staged) /\ Fetching!RangeFrom > 0
            /\ transfer.resume /\ staged # <<>> /\ transfer.tag # NoTag
<1>1. Len(staged) \in Nat /\ (Len(staged) > 0 <=> staged # <<>>)
  OBVIOUS
<1> QED
  BY <1>1 DEF Fetching!RangeFrom, Fetching!Written, CallType

LEMMA RangedNoBodyKeeps ==
  ASSUME FetchingIInv, Fetching!RangedNoBody
  PROVE  FetchingIInv'
<1>1. transfer.engine = "ranged" /\ transfer.pc = "request"
  BY DEF Fetching!RangedNoBody, Fetching!Ranged
<1>2. /\ ~ Rash(transfer, scenario) /\ transfer \in CallType /\ staged \in Seq(Blocks)
      /\ synced \in Nat /\ RangedFits(transfer, staged, ckpt, scenario.versions)
      /\ Known(scenario.versions, ckpt)
  BY <1>1, RangedScenario DEF Rash
<1>3. Honest(scenario.versions, ckpt, staged)
  BY <1>1, <1>2, RangedScenario
<1>4. PICK p \in {"fail", "request"}, a \in Nat :
        transfer' = [transfer EXCEPT !.pc = p, !.attempt = a]
  <2>1. transfer.attempt + 1 \in Nat
    BY <1>2 DEF CallType
  <2> QED
    BY <2>1 DEF Fetching!RangedNoBody, Fetching!AfterFailure
<1>5. /\ transfer' \in CallType /\ transfer'.pc = p /\ transfer'.engine = "ranged"
      /\ transfer'.tag = transfer.tag /\ transfer'.keep = transfer.keep
         /\ transfer'.resume = transfer.resume
  BY <1>1, <1>2, <1>4, PcsAre DEF CallType
<1>6. staged' \in {staged, <<>>} /\ synced' \in Nat
  BY <1>2, CutEmpty DEF Fetching!RangedNoBody
<1>7. UNCHANGED <<ckpt, segCkpt, server, scenario>>
  BY DEF Fetching!RangedNoBody
<1>8. Honest(scenario.versions, ckpt, staged') /\ staged' \in Seq(Blocks)
  BY <1>2, <1>3, <1>6, EmptyFits
<1>9. RangedFits(transfer', staged', ckpt', scenario.versions)
  BY <1>1, <1>2, <1>5, <1>6, <1>7 DEF RangedFits
<1> QED
  BY <1>1, <1>2, <1>5, <1>6, <1>7, <1>8, <1>9, RangedLands

LEMMA RangedFullKeeps ==
  ASSUME FetchingIInv, Fetching!RangedFull
  PROVE  FetchingIInv'
<1>1. transfer.engine = "ranged" /\ transfer.pc = "request"
  BY DEF Fetching!RangedFull, Fetching!Ranged
<1>2. /\ transfer \in CallType /\ staged \in Seq(Blocks)
      /\ synced \in Nat /\ RangedFits(transfer, staged, ckpt, scenario.versions)
      /\ Known(scenario.versions, ckpt)
  BY <1>1, RangedScenario
<1> DEFINE tag == IF Tag[server] # NoTag THEN Tag[server] ELSE transfer.tag
<1>3. PICK total \in {Size[server], 0}, a \in Nat :
        transfer' = [transfer EXCEPT !.pc = "body", !.attempt = a, !.body = server,
                             !.tag = tag, !.total = total, !.at = 0]
  <2>1. transfer.attempt + 1 \in Nat
    BY <1>2 DEF CallType
  <2> QED
    BY <2>1 DEF Fetching!RangedFull
<1>4. UNCHANGED <<ckpt, segCkpt, server, scenario>>
  BY DEF Fetching!RangedFull
<1>5. staged' = <<>> /\ synced' \in Nat
  <2>1. CASE Fetching!RangeFrom > 0
    BY <1>2, <2>1, CutEmpty DEF Fetching!RangedFull
  <2>2. CASE ~ (Fetching!RangeFrom > 0)
    <3>1. staged = <<>>
      BY <1>1, <1>2, <2>2, FromIs DEF RangedFits
    <3> QED
      BY <1>2, <2>2, <3>1 DEF Fetching!RangedFull
  <2> QED
    BY <2>1, <2>2
<1>6. server \in Bodies /\ Size[server] \in Nat \ {0} /\ Tag[server] \in ChosenTags
      /\ total \in Nat
  BY <1>1, RangedScenario, FileScenario DEF Bodies
<1>7. tag = Tag[server]
  BY <1>1, <1>2, RangedScenario DEF RangedFits
<1> HIDE DEF tag
<1>8. /\ transfer' \in CallType /\ transfer'.pc = "body" /\ transfer'.engine = "ranged"
      /\ transfer'.keep = transfer.keep /\ transfer'.tag = tag /\ transfer'.total = total
      /\ transfer'.body = server /\ transfer'.at = 0
  <2>1. tag \in ChosenTags /\ "body" \in Pcs
    BY <1>6, <1>7, PcsAre
  <2>2. transfer' \in CallType
    BY <1>2, <1>3, <1>6, <2>1 DEF CallType
  <2> QED
    BY <1>1, <1>2, <1>3, <2>2 DEF CallType
<1>9. RangedFits(transfer', staged', ckpt', scenario.versions)
  BY <1>1, <1>2, <1>4, <1>5, <1>7, <1>8, EmptyFits, RangedScenario DEF RangedFits
<1> QED
  BY <1>1, <1>2, <1>4, <1>5, <1>8, <1>9, EmptyFits, RangedLands

LEMMA RangedPartialKeeps ==
  ASSUME FetchingIInv, Fetching!RangedPartial
  PROVE  FetchingIInv'
<1>1. transfer.engine = "ranged" /\ transfer.pc = "request"
  BY DEF Fetching!RangedPartial, Fetching!Ranged
<1>2. /\ ~ Rash(transfer, scenario) /\ transfer \in CallType /\ staged \in Seq(Blocks)
      /\ synced \in Nat /\ RangedFits(transfer, staged, ckpt, scenario.versions)
      /\ Known(scenario.versions, ckpt)
  BY <1>1, RangedScenario DEF Rash
<1>3. Honest(scenario.versions, ckpt, staged)
  BY <1>1, <1>2, RangedScenario
<1>4. /\ UNCHANGED <<staged, synced, ckpt, segCkpt, server, scenario>>
      /\ Tag[server] = transfer.tag /\ Fetching!RangeFrom > 0
  BY DEF Fetching!RangedPartial, Fetching!disk
<1>5. Fetching!RangeFrom = Len(staged) /\ transfer.tag # NoTag /\ staged # <<>>
      /\ Fetching!RangeFrom \in Nat
  BY <1>2, <1>4, FromIs
<1>6. PICK a \in Nat, n \in Nat, at \in Nat :
        /\ transfer' = [transfer EXCEPT !.pc = "body", !.attempt = a, !.body = server,
                                !.total = n, !.at = at]
        /\ at = Len(staged) /\ n = Size[server]
  <2>1. transfer.attempt + 1 \in Nat /\ Size[server] \in Nat
    BY <1>1, <1>2, RangedScenario DEF CallType
  <2> QED
    BY <1>5, <2>1 DEF Fetching!RangedPartial
<1>7. server \in Bodies /\ server \in scenario.versions
  BY <1>1, FileScenario DEF Bodies
<1>8. /\ transfer' \in CallType /\ transfer'.pc = "body" /\ transfer'.engine = "ranged"
      /\ transfer'.keep = transfer.keep /\ transfer'.tag = transfer.tag /\ transfer'.total = n
      /\ transfer'.body = server /\ transfer'.at = at
  BY <1>1, <1>2, <1>6, <1>7, PcsAre DEF CallType
<1>9. PrefixOf(staged, server)
  BY <1>1, <1>2, <1>4, <1>5, <1>7 DEF RangedFits
<1>10. RangedFits(transfer', staged', ckpt', scenario.versions)
  BY <1>1, <1>2, <1>4, <1>6, <1>7, <1>8, <1>9 DEF RangedFits
<1> QED
  BY <1>1, <1>2, <1>3, <1>4, <1>8, <1>10, RangedLands

\* A call that only goes elsewhere.
LEMMA RangedGoes ==
  ASSUME FetchingIInv, transfer.pc # "idle", transfer.engine = "ranged",
         NEW p \in {"fail", "giveup", "publish"}, Fetching!Goto(p),
         UNCHANGED <<Fetching!disk, server, scenario>>,
         p = "publish" => \E o \in Fetching!Objects : staged = Fetching!Whole(o),
         p = "giveup" => transfer.pc = "body", p = "fail" => ~ Rash(transfer, scenario),
         transfer.pc \in {"request", "body"}
  PROVE  FetchingIInv'
<1>1. /\ transfer \in CallType /\ staged \in Seq(Blocks)
      /\ synced \in Nat /\ RangedFits(transfer, staged, ckpt, scenario.versions)
      /\ Known(scenario.versions, ckpt)
      /\ ~ Rash(transfer, scenario) => Honest(scenario.versions, ckpt, staged)
  BY RangedScenario
<1>2. UNCHANGED <<staged, synced, ckpt, segCkpt, server, scenario>>
  BY DEF Fetching!disk
<1>3. p \in Pcs
  BY PcsAre
<1>4. /\ transfer' \in CallType /\ transfer'.pc = p /\ transfer'.engine = "ranged"
      /\ transfer'.keep = transfer.keep /\ transfer'.tag = transfer.tag
         /\ transfer'.total = transfer.total
      /\ transfer'.body = transfer.body
  BY <1>1, <1>3, GotoIs DEF Fetching!Goto
<1>5. RangedFits(transfer', staged', ckpt', scenario.versions)
  BY <1>1, <1>2, <1>4 DEF RangedFits
<1>6. Honest(scenario.versions, ckpt', staged') \/ Rash(transfer', scenario)
  BY <1>1, <1>2, <1>4 DEF Rash
<1> QED
  BY <1>1, <1>2, <1>4, <1>5, <1>6, RangedLands

LEMMA RangedMismatchKeeps ==
  ASSUME FetchingIInv, Fetching!RangedMismatch
  PROVE  FetchingIInv'
<1>1. transfer.engine = "ranged" /\ transfer.pc = "request" /\ Fetching!Goto("fail")
      /\ UNCHANGED <<Fetching!disk, server, scenario>>
  BY DEF Fetching!RangedMismatch, Fetching!Ranged
<1> QED
  BY <1>1, RangedGoes DEF Rash

\* What a ranged transfer has when it reads a body.
LEMMA RangedBody ==
  ASSUME FetchingIInv, transfer.engine = "ranged", transfer.pc \in {"body", "giveup"}
  PROVE  /\ transfer.body \in scenario.versions /\ transfer.body \in Fetching!Objects
         /\ Size[transfer.body] \in Nat \ {0}
         /\ Tag[transfer.body] = transfer.tag /\ transfer.total \in {0, Size[transfer.body]}
         /\ PrefixOf(staged, transfer.body)
         /\ transfer.keep \/ ckpt = NoCheckpoint
         /\ transfer.tag # NoTag =>
              \A w \in scenario.versions : Tag[w] = Tag[transfer.body] => w = transfer.body
         /\ \/ ~scenario.crash /\ ~scenario.fail
            \/ \A w \in scenario.versions : w = transfer.body
            \/ transfer.tag = NoTag /\ ckpt = NoCheckpoint
<1>1. /\ transfer.body \in scenario.versions /\ Tag[transfer.body] = transfer.tag
      /\ Known(scenario.versions, ckpt)
  BY RangedScenario DEF RangedFits
<1>2. CASE Nameless(scenario)
  <2>1. ckpt = NoCheckpoint /\ transfer.tag = NoTag
    BY <1>1, <1>2, NamelessUnsaved DEF Nameless
  <2> QED
    BY <2>1, RangedScenario DEF RangedFits
<1>3. CASE ~Nameless(scenario)
  <2>1. scenario.crash \/ scenario.fail => \A w \in scenario.versions : w = transfer.body
    BY <1>1, <1>3, FileScenario DEF OneVersion
  <2> QED
    BY <2>1, RangedScenario DEF RangedFits
<1> QED
  BY <1>2, <1>3

LEMMA RangedBlockKeeps ==
  ASSUME FetchingIInv, Fetching!RangedBlock
  PROVE  FetchingIInv'
<1> DEFINE o == transfer.body
           k == [tag |-> transfer.tag, bytes |-> Len(staged'), total |-> transfer.total]
<1>1. transfer.engine = "ranged" /\ transfer.pc = "body" /\ transfer.at < Size[o]
  BY DEF Fetching!RangedBlock, Fetching!Ranged
<1>2. /\ transfer \in CallType /\ staged \in Seq(Blocks)
      /\ synced \in Nat /\ RangedFits(transfer, staged, ckpt, scenario.versions)
      /\ Known(scenario.versions, ckpt)
      /\ ~ Rash(transfer, scenario) => Honest(scenario.versions, ckpt, staged)
  BY <1>1, RangedScenario
<1>3. /\ o \in scenario.versions /\ o \in Fetching!Objects /\ Size[o] \in Nat \ {0}
      /\ Tag[o] = transfer.tag /\ transfer.total \in {0, Size[o]} /\ PrefixOf(staged, o)
      /\ transfer.tag # NoTag => \A w \in scenario.versions : Tag[w] = Tag[o] => w = o
      /\ \/ ~scenario.crash /\ ~scenario.fail
         \/ \A w \in scenario.versions : w = o
         \/ transfer.tag = NoTag /\ ckpt = NoCheckpoint
  BY <1>1, RangedBody
<1>4. transfer.at = Len(staged) /\ (transfer.keep \/ ckpt = NoCheckpoint)
  BY <1>1, <1>2 DEF RangedFits
<1>5. CASE scenario.fail /\ Fetching!Goto("fail")
           /\ UNCHANGED <<Fetching!disk, server, calls, scenario>>
  BY <1>1, <1>5, RangedGoes DEF Rash
<1>6. CASE /\ Fetching!WriteBlock(Fetching!BlockRead)
              /\ Fetching!SaveCheckpoint(Append(staged, Fetching!BlockRead), FALSE)
           /\ transfer' = [transfer EXCEPT !.at = @ + 1]
           /\ UNCHANGED <<final, server, calls, scenario>>
  <2>1. staged' = Append(staged, <<o, Len(staged) + 1>>)
    BY <1>4, <1>6 DEF Fetching!WriteBlock, Fetching!BlockRead
  <2>2. staged' \in Seq(Blocks) /\ Len(staged') = Len(staged) + 1 /\ PrefixOf(staged', o)
    <3>1. o \in Fetching!Objects /\ PrefixOf(staged, o) /\ Len(staged) < Size[o]
      BY <1>1, <1>3, <1>4
    <3> HIDE DEF o
    <3> QED
      BY <1>2, <2>1, <3>1, NextBlock
  <2>3. Fetching!SaveCheckpoint(staged', FALSE)
    BY <1>6 DEF Fetching!WriteBlock
  <2>4. /\ segCkpt' = segCkpt /\ synced' \in Nat
        /\ ckpt' = ckpt \/ (transfer.keep /\ transfer.tag # NoTag /\ ckpt' = k)
    BY <1>1, <1>2, <2>2, <2>3, FileSaves
  <2>5. PICK at \in Nat : transfer' = [transfer EXCEPT !.at = at] /\ at = Len(staged')
    <3>1. transfer.at + 1 \in Nat
      BY <1>2 DEF CallType
    <3> QED
      BY <1>4, <1>6, <2>2, <3>1
  <2>6. /\ transfer' \in CallType /\ transfer'.pc = "body" /\ transfer'.engine = "ranged"
        /\ transfer'.keep = transfer.keep /\ transfer'.tag = transfer.tag
           /\ transfer'.total = transfer.total
        /\ transfer'.body = o /\ transfer'.at = at
    BY <1>1, <1>2, <2>5 DEF CallType
  <2>7. UNCHANGED <<server, scenario>>
    BY <1>6
  <2>8. k.tag = transfer.tag
    OBVIOUS
  <2>9. Known(scenario.versions, ckpt')
        /\ (ckpt' # ckpt => Honest(scenario.versions, ckpt', staged'))
    <3>1. ckpt' = ckpt \/ (Known(scenario.versions, k) /\ Honest(scenario.versions, k, staged')
                          /\ ckpt' = k)
      BY <1>3, <2>2, <2>4, EntryFits
    <3> QED
      BY <1>2, <3>1
  <2> HIDE DEF k
  <2>10. Honest(scenario.versions, ckpt', staged') \/ Rash(transfer', scenario)
    <3>1. CASE \A w \in scenario.versions : w = o
      BY <2>2, <3>1, StartsHonest
    <3>2. CASE ~scenario.crash /\ ~scenario.fail
      BY <2>6, <3>2 DEF Rash
    <3>3. CASE transfer.tag = NoTag /\ ckpt = NoCheckpoint
      BY <2>4, <3>3 DEF Honest
    <3> QED
      BY <1>3, <3>1, <3>2, <3>3
  <2>11. RangedFits(transfer', staged', ckpt', scenario.versions)
    BY <1>3, <1>4, <2>2, <2>4, <2>5, <2>6 DEF RangedFits
  <2> QED
    BY <1>1, <2>2, <2>4, <2>6, <2>7, <2>9, <2>10, <2>11, RangedLands
<1> QED
  BY <1>5, <1>6 DEF Fetching!RangedBlock, Fetching!Block

LEMMA RangedEndKeeps ==
  ASSUME FetchingIInv, Fetching!RangedEnd
  PROVE  FetchingIInv'
<1>1. /\ transfer.engine = "ranged" /\ transfer.pc = "body" /\ transfer.at = Size[transfer.body]
      /\ Fetching!Goto("publish") /\ UNCHANGED <<Fetching!disk, server, scenario>>
  BY DEF Fetching!RangedEnd, Fetching!Ranged
<1>2. transfer.body \in Fetching!Objects /\ PrefixOf(staged, transfer.body)
      /\ staged \in Seq(Blocks)
      /\ Len(staged) = Size[transfer.body]
  BY <1>1, RangedBody, RangedScenario DEF RangedFits
<1>3. staged = Fetching!Whole(transfer.body)
  BY <1>2, AllBlocks
<1> QED
  BY <1>1, <1>2, <1>3, RangedGoes

\* What must be saved of a ranged transfer is saved, unless the storage refuses.
LEMMA RangedSaves ==
  ASSUME FetchingIInv, transfer.engine = "ranged", transfer.pc \in {"body", "giveup"},
         Fetching!SaveCheckpoint(staged, TRUE), UNCHANGED scenario, staged' = staged
  PROVE  /\ segCkpt' = segCkpt /\ synced' \in Nat
         /\ Known(scenario.versions, ckpt') /\ Honest(scenario.versions, ckpt', staged')
         /\ transfer.keep \/ ckpt' = NoCheckpoint
<1> DEFINE o == transfer.body
           k == [tag |-> transfer.tag, bytes |-> Len(staged), total |-> transfer.total]
<1>1. /\ transfer \in CallType /\ staged \in Seq(Blocks) /\ synced \in Nat
      /\ Known(scenario.versions, ckpt)
      /\ \A v, w \in scenario.versions : Tag[v] = NoTag => Tag[w] = NoTag
  BY RangedScenario
<1>2. /\ o \in scenario.versions /\ Tag[o] = transfer.tag /\ transfer.total \in {0, Size[o]}
      /\ PrefixOf(staged, o) /\ (transfer.keep \/ ckpt = NoCheckpoint)
      /\ transfer.tag # NoTag => \A w \in scenario.versions : Tag[w] = Tag[o] => w = o
      /\ \/ ~scenario.crash /\ ~scenario.fail
         \/ \A w \in scenario.versions : w = o
         \/ transfer.tag = NoTag /\ ckpt = NoCheckpoint
  BY RangedBody
<1>3. /\ segCkpt' = segCkpt /\ synced' \in Nat
      /\ ckpt' = ckpt \/ (transfer.keep /\ transfer.tag # NoTag /\ ckpt' = k)
      /\ ~scenario.fail /\ transfer.keep /\ transfer.tag # NoTag /\ staged # <<>> => ckpt' = k
  BY <1>1, FileSaves
<1>4. transfer.tag # NoTag => Known(scenario.versions, k)
      /\ Honest(scenario.versions, k, staged)
  BY <1>1, <1>2, EntryFits
<1>7. transfer.tag = NoTag => ckpt' = NoCheckpoint
  <2>1. transfer.tag = NoTag => \A w \in scenario.versions : Tag[w] = NoTag
    BY <1>1, <1>2
  <2> QED
    BY <1>1, <1>3, <2>1, NamelessUnsaved
<1> HIDE DEF k
<1>5. Known(scenario.versions, ckpt') /\ (transfer.keep \/ ckpt' = NoCheckpoint)
  BY <1>1, <1>2, <1>3, <1>4
<1>6. Honest(scenario.versions, ckpt', staged)
  <2>1. CASE scenario.fail \/ transfer.tag = NoTag
    <3>1. CASE \A w \in scenario.versions : w = o
      BY <1>2, <3>1, StartsHonest
    <3>2. CASE transfer.tag = NoTag
      BY <1>7, <3>2 DEF Honest
    <3> QED
      BY <1>2, <2>1, <3>1, <3>2
  <2>2. CASE ~transfer.keep
    BY <1>5, <2>2 DEF Honest
  <2>3. CASE staged = <<>>
    BY <2>3, EmptyFits
  <2>4. CASE ~scenario.fail /\ transfer.keep /\ transfer.tag # NoTag /\ staged # <<>>
    BY <1>3, <1>4, <2>4
  <2> QED
    BY <1>1, <2>1, <2>2, <2>3, <2>4
<1> QED
  BY <1>3, <1>5, <1>6

LEMMA RangedCutKeeps ==
  ASSUME FetchingIInv, Fetching!RangedCut
  PROVE  FetchingIInv'
<1>1. transfer.engine = "ranged" /\ transfer.pc = "body"
      /\ UNCHANGED <<final, server, scenario>>
  BY DEF Fetching!RangedCut, Fetching!Ranged
<1>2. /\ transfer \in CallType /\ staged \in Seq(Blocks)
      /\ synced \in Nat /\ RangedFits(transfer, staged, ckpt, scenario.versions)
  BY <1>1, RangedScenario
<1>3. CASE Fetching!Goto("giveup") /\ UNCHANGED <<staged, synced, ckpt, segCkpt>>
  BY <1>1, <1>3, RangedGoes DEF Fetching!disk
<1>4. CASE /\ ~transfer.resume \/ transfer.tag = NoTag
           /\ Fetching!TruncateTo(0) /\ Fetching!DropCheckpoint
           /\ transfer' = [transfer EXCEPT !.pc = "request", !.tag = NoTag]
  <2>1. staged' = <<>> /\ synced' \in Nat /\ ckpt' = NoCheckpoint /\ segCkpt' = segCkpt
    BY <1>1, <1>2, <1>4, CutEmpty DEF Fetching!DropCheckpoint
  <2>2. /\ transfer' \in CallType /\ transfer'.pc = "request" /\ transfer'.engine = "ranged"
        /\ transfer'.tag = NoTag
    <3>1. NoTag \in ChosenTags
      BY DEF ChosenTags
    <3> QED
      BY <1>1, <1>2, <1>4, <3>1, PcsAre DEF CallType
  <2>3. /\ Known(scenario.versions, ckpt') /\ Honest(scenario.versions, ckpt', staged')
        /\ RangedFits(transfer', staged', ckpt', scenario.versions)
    BY <2>1, <2>2 DEF Known, Honest, RangedFits
  <2> QED
    BY <1>1, <2>1, <2>2, <2>3, EmptyFits, RangedLands
<1>5. CASE ~(~transfer.resume \/ transfer.tag = NoTag) /\ Fetching!SaveCheckpoint(staged, TRUE)
           /\ Fetching!Goto("request") /\ UNCHANGED staged
  <2>1. /\ segCkpt' = segCkpt /\ synced' \in Nat
        /\ Known(scenario.versions, ckpt') /\ Honest(scenario.versions, ckpt', staged')
        /\ transfer.keep \/ ckpt' = NoCheckpoint
    BY <1>1, <1>5, RangedSaves
  <2>2. /\ transfer' \in CallType /\ transfer'.pc = "request" /\ transfer'.engine = "ranged"
        /\ transfer'.tag = transfer.tag /\ transfer'.keep = transfer.keep
           /\ transfer'.resume = transfer.resume
    BY <1>1, <1>2, <1>5, GotoIs, PcsAre DEF Fetching!Goto
  <2>3. /\ transfer.body \in scenario.versions /\ Tag[transfer.body] = transfer.tag
        /\ PrefixOf(staged, transfer.body)
        /\ \A w \in scenario.versions : Tag[w] = Tag[transfer.body] => w = transfer.body
    BY <1>1, <1>5, RangedBody
  <2>4. transfer.resume
    BY <1>5
  <2>5. RangedFits(transfer', staged', ckpt', scenario.versions)
    BY <1>5, <2>1, <2>2, <2>3, <2>4 DEF RangedFits
  <2> QED
    BY <1>1, <1>2, <1>5, <2>1, <2>2, <2>5, RangedLands
<1> QED
  BY <1>3, <1>4, <1>5 DEF Fetching!RangedCut

-----------------------------------------------------------------------------
\* fileDownloadChunked

\* What is meant of a chunked transfer.
LEMMA ChunkedScenario ==
  ASSUME FetchingIInv, transfer.pc # "idle", transfer.engine = "chunked"
  PROVE  /\ scenario.versions \subseteq Fetching!Objects /\ server \in scenario.versions
         /\ server \in Bodies
         /\ \A v, w \in scenario.versions : Tag[v] = Tag[w] => v = w
         /\ \A v, w \in scenario.versions : Tag[v] = NoTag => v = w
         /\ \A v \in scenario.versions : Size[v] \in Nat \ {0} /\ Tag[v] \in ChosenTags
         /\ Honest(scenario.versions, ckpt, staged)
         /\ segCkpt = NoCheckpoint /\ Known(scenario.versions, ckpt)
         /\ ChunkedFits(transfer, staged, ckpt, scenario.versions)
         /\ transfer \in CallType /\ staged \in Seq(Blocks) /\ synced \in Nat
  BY FileScenario, TransferAssumption DEF Fetching!Objects, ChosenTags, Rash, Bodies

\* A step of a chunked transfer that leaves the disk as it should be.
LEMMA ChunkedLands ==
  ASSUME FetchingIInv, transfer.pc # "idle", transfer.engine = "chunked", scenario' = scenario,
         server' = server, transfer' \in CallType, transfer'.engine = "chunked",
         synced' \in Nat, staged' \in Seq(Blocks), segCkpt' = segCkpt,
         transfer'.pc = "publish" => \E o \in Fetching!Objects : staged' = Fetching!Whole(o),
         transfer'.pc # "published",
         Known(scenario.versions, ckpt'), Honest(scenario.versions, ckpt', staged'),
         ChunkedFits(transfer', staged', ckpt', scenario.versions)
  PROVE  FetchingIInv'
<1>1. RangedFits(transfer', staged', ckpt', scenario.versions)
  BY DEF RangedFits
<1> QED
  BY <1>1, FileLands, ChunkedScenario

\* A call that only goes elsewhere.
LEMMA ChunkedGoes ==
  ASSUME FetchingIInv, transfer.pc # "idle", transfer.engine = "chunked", Fetching!Goto("fail"),
         UNCHANGED <<Fetching!disk, server, scenario>>
  PROVE  FetchingIInv'
<1>1. /\ transfer \in CallType /\ staged \in Seq(Blocks)
      /\ synced \in Nat /\ Known(scenario.versions, ckpt)
      /\ Honest(scenario.versions, ckpt, staged)
  BY ChunkedScenario
<1>2. UNCHANGED <<staged, synced, ckpt, segCkpt, server, scenario>>
  BY DEF Fetching!disk
<1>3. transfer' \in CallType /\ transfer'.pc = "fail" /\ transfer'.engine = "chunked"
  BY <1>1, PcsAre, GotoIs DEF Fetching!Goto
<1>4. ChunkedFits(transfer', staged', ckpt', scenario.versions)
  BY <1>3 DEF ChunkedFits
<1> QED
  BY <1>1, <1>2, <1>3, <1>4, ChunkedLands

LEMMA ChunkedProbeKeeps ==
  ASSUME FetchingIInv, Fetching!ChunkedProbe
  PROVE  FetchingIInv'
<1>1. transfer.engine = "chunked" /\ transfer.pc = "probe"
      /\ UNCHANGED <<Fetching!disk, server, calls, scenario>>
  BY DEF Fetching!ChunkedProbe, Fetching!Chunked
<1>2. /\ transfer \in CallType /\ staged \in Seq(Blocks)
      /\ synced \in Nat /\ Known(scenario.versions, ckpt)
      /\ Honest(scenario.versions, ckpt, staged)
      /\ server \in scenario.versions /\ Size[server] \in Nat \ {0}
      /\ Tag[server] \in ChosenTags
  BY <1>1, ChunkedScenario
<1>3. CASE Fetching!Goto("fail")
  BY <1>1, <1>3, ChunkedGoes
<1>4. ASSUME NEW total \in {Size[server], 0}, NEW keep \in BOOLEAN, NEW c,
             c = [transfer EXCEPT !.tag = Tag[server], !.total = total, !.keep = keep],
             \/ ckpt # NoCheckpoint /\ ckpt.tag = Tag[server]
                /\ transfer' = [c EXCEPT !.pc = "restore"]
             \/ transfer' = [Fetching!NextChunk(c, 0) EXCEPT !.pc = "clear"]
      PROVE  FetchingIInv'
  <2>1. total \in Nat
    BY <1>2
  <2>2. /\ c \in CallType /\ c.engine = "chunked" /\ c.tag = Tag[server] /\ c.total = total
    BY <1>1, <1>2, <1>4, <2>1 DEF CallType
  <2>3. UNCHANGED <<staged, synced, ckpt, segCkpt, server, scenario>>
    BY <1>1 DEF Fetching!disk
  <2>4. CASE ckpt # NoCheckpoint /\ ckpt.tag = Tag[server]
             /\ transfer' = [c EXCEPT !.pc = "restore"]
    <3>1. /\ transfer' \in CallType /\ transfer'.pc = "restore" /\ transfer'.engine = "chunked"
          /\ transfer'.tag = Tag[server] /\ transfer'.total = total
      BY <2>2, <2>4, GotoIs, PcsAre
    <3>2. ChunkedFits(transfer', staged', ckpt', scenario.versions)
      BY <1>2, <2>3, <2>4, <3>1 DEF ChunkedFits
    <3> QED
      BY <1>1, <1>2, <2>3, <3>1, <3>2, ChunkedLands
  <2>5. CASE transfer' = [Fetching!NextChunk(c, 0) EXCEPT !.pc = "clear"]
    <3>1. PICK d : d = Fetching!NextChunk(c, 0)
      OBVIOUS
    <3>2. /\ d \in CallType /\ d.engine = "chunked" /\ d.tag = Tag[server] /\ d.total = total
          /\ d.start = 0 /\ (d.total = 0 => d.start + ChunkSize <= d.end)
      BY <2>2, <3>1, NextChunkIs
    <3>3. /\ transfer' \in CallType /\ transfer'.pc = "clear" /\ transfer'.engine = "chunked"
          /\ transfer'.tag = Tag[server] /\ transfer'.total = total
          /\ transfer'.start = 0
             /\ (transfer'.total = 0 => transfer'.start + ChunkSize <= transfer'.end)
      BY <2>5, <3>1, <3>2, GotoIs, PcsAre
    <3>4. ChunkedFits(transfer', staged', ckpt', scenario.versions)
      BY <1>2, <2>3, <3>3 DEF ChunkedFits
    <3> QED
      BY <1>1, <1>2, <2>3, <3>3, <3>4, ChunkedLands
  <2> QED
    BY <1>4, <2>4, <2>5
<1>5. CASE ~ Fetching!Goto("fail")
  <2>1. PICK total \in {Size[server], 0} :
          LET tag == Tag[server]
              keep == transfer.keep /\ tag # NoTag
              usable == /\ ckpt # NoCheckpoint
                        /\ ckpt.tag = tag
                        /\ ckpt.total = 0 \/ total = 0 \/ ckpt.total = total
              c == [transfer EXCEPT !.tag = tag, !.total = total, !.keep = keep]
          IN transfer' = IF keep /\ usable THEN [c EXCEPT !.pc = "restore"]
                     ELSE [Fetching!NextChunk(c, 0) EXCEPT !.pc = "clear"]
    BY <1>5 DEF Fetching!ChunkedProbe
  <2> DEFINE keep == transfer.keep /\ Tag[server] # NoTag
             c == [transfer EXCEPT !.tag = Tag[server], !.total = total, !.keep = keep]
  <2>2. keep \in BOOLEAN
    OBVIOUS
  <2>3. \/ ckpt # NoCheckpoint /\ ckpt.tag = Tag[server]
           /\ transfer' = [c EXCEPT !.pc = "restore"]
        \/ transfer' = [Fetching!NextChunk(c, 0) EXCEPT !.pc = "clear"]
    BY <2>1
  <2>4. c = [transfer EXCEPT !.tag = Tag[server], !.total = total, !.keep = keep]
    OBVIOUS
  <2> HIDE DEF keep, c
  <2> QED
    BY <1>4, <2>2, <2>3, <2>4
<1> QED
  BY <1>3, <1>5

LEMMA ChunkedRestoreKeeps ==
  ASSUME FetchingIInv, Fetching!ChunkedRestore
  PROVE  FetchingIInv'
<1> DEFINE n == Fetching!Min2(ckpt.bytes, Fetching!Written)
<1>1. transfer.engine = "chunked" /\ transfer.pc = "restore"
  BY DEF Fetching!ChunkedRestore, Fetching!Chunked
<1>2. /\ transfer \in CallType /\ staged \in Seq(Blocks)
      /\ synced \in Nat /\ Known(scenario.versions, ckpt)
      /\ Honest(scenario.versions, ckpt, staged)
      /\ ChunkedFits(transfer, staged, ckpt, scenario.versions)
      /\ \A v, w \in scenario.versions : Tag[v] = Tag[w] => v = w
  BY <1>1, ChunkedScenario
<1>3. ckpt # NoCheckpoint /\ ckpt.tag = transfer.tag
  BY <1>1, <1>2 DEF ChunkedFits
<1>4. PICK v \in scenario.versions : Tag[v] = transfer.tag /\ transfer.total \in {0, Size[v]}
  BY <1>1, <1>2 DEF ChunkedFits
<1>5. ckpt.bytes \in Nat /\ v \in Fetching!Objects /\ Len(staged) \in Nat
  BY <1>1, <1>2, <1>3, ChunkedScenario DEF Known
<1>6. n \in 0..Len(staged) /\ n <= ckpt.bytes /\ n \in Nat
  BY <1>5, MinIs DEF Fetching!Written
<1>7. /\ staged' = SubSeq(staged, 1, n) /\ synced' = Fetching!Min2(synced, n)
         /\ transfer' = Fetching!NextChunk(transfer, n)
      /\ UNCHANGED <<ckpt, segCkpt, server, scenario>>
  BY DEF Fetching!ChunkedRestore, Fetching!TruncateTo
<1> HIDE DEF n
<1>8. synced' \in Nat
  BY <1>2, <1>6, <1>7, MinIs
<1>9. Honest(scenario.versions, ckpt, staged')
  BY <1>2, <1>6, <1>7, CutHonest
<1>10. PrefixOf(staged', v) /\ staged' \in Seq(Blocks) /\ Len(staged') = n
  <2>1. Holds(staged, ckpt.bytes, v)
    BY <1>2, <1>3, <1>4 DEF Honest
  <2> QED
    BY <2>1, <1>2, <1>5, <1>6, <1>7, CutStarts, CutFile
<1>11. /\ transfer' \in CallType /\ transfer'.engine = "chunked" /\ transfer'.tag = transfer.tag
       /\ transfer'.total = transfer.total /\ transfer'.start = n
       /\ transfer'.pc \in {"request", "publish", "fail"}
       /\ transfer'.pc = "publish" => transfer.total > 0 /\ n = transfer.total
       /\ transfer'.total = 0 => transfer'.start + ChunkSize <= transfer'.end
  <2>1. transfer \in CallType /\ n \in Nat /\ transfer' = Fetching!NextChunk(transfer, n)
    BY <1>2, <1>6, <1>7
  <2> QED
    BY ONLY <1>1, <2>1, NextChunkIs
<1>12. transfer'.pc = "publish" => staged' = Fetching!Whole(v)
  BY <1>4, <1>5, <1>10, <1>11, AllBlocks
<1>13. ChunkedFits(transfer', staged', ckpt', scenario.versions)
  BY <1>2, <1>3, <1>4, <1>7, <1>10, <1>11 DEF ChunkedFits
<1> QED
  BY <1>1, <1>2, <1>5, <1>7, <1>8, <1>9, <1>10, <1>11, <1>12, <1>13, ChunkedLands

LEMMA ChunkedNoBodyKeeps ==
  ASSUME FetchingIInv, Fetching!ChunkedNoBody
  PROVE  FetchingIInv'
<1>1. transfer.engine = "chunked" /\ transfer.pc = "request"
      /\ UNCHANGED <<staged, synced, ckpt, segCkpt, server, scenario>>
  BY DEF Fetching!ChunkedNoBody, Fetching!Chunked, Fetching!disk
<1>2. /\ transfer \in CallType /\ staged \in Seq(Blocks)
      /\ synced \in Nat /\ Known(scenario.versions, ckpt)
      /\ Honest(scenario.versions, ckpt, staged)
      /\ ChunkedFits(transfer, staged, ckpt, scenario.versions)
  BY <1>1, ChunkedScenario
<1>3. PICK p \in {"giveup", "request"}, a \in Nat :
        transfer' = [transfer EXCEPT !.pc = p, !.attempt = a]
  <2>1. transfer.attempt + 1 \in Nat
    BY <1>2 DEF CallType
  <2> QED
    BY <2>1 DEF Fetching!ChunkedNoBody, Fetching!AfterFailure
<1>4. p \in Pcs
  BY PcsAre
<1>5. /\ transfer' \in CallType /\ transfer'.pc = p /\ transfer'.engine = "chunked"
      /\ transfer'.tag = transfer.tag /\ transfer'.total = transfer.total
         /\ transfer'.start = transfer.start
      /\ transfer'.end = transfer.end
  BY <1>1, <1>2, <1>3, <1>4 DEF CallType
<1>6. ChunkedFits(transfer', staged', ckpt', scenario.versions)
  BY <1>1, <1>2, <1>5 DEF ChunkedFits
<1> QED
  BY <1>1, <1>2, <1>5, <1>6, ChunkedLands

LEMMA ChunkedPartialKeeps ==
  ASSUME FetchingIInv, Fetching!ChunkedPartial
  PROVE  FetchingIInv'
<1>1. transfer.engine = "chunked" /\ transfer.pc = "request"
      /\ UNCHANGED <<staged, synced, ckpt, segCkpt, server, scenario>>
      /\ transfer.tag \in {NoTag, Tag[server]}
  BY DEF Fetching!ChunkedPartial, Fetching!Chunked, Fetching!disk
<1>2. /\ transfer \in CallType /\ staged \in Seq(Blocks)
      /\ synced \in Nat /\ Known(scenario.versions, ckpt)
      /\ Honest(scenario.versions, ckpt, staged)
      /\ ChunkedFits(transfer, staged, ckpt, scenario.versions)
      /\ server \in scenario.versions /\ server \in Bodies
      /\ \A v, w \in scenario.versions : Tag[v] = NoTag => v = w
  BY <1>1, ChunkedScenario
<1>3. PICK a \in Nat :
        transfer' = [transfer EXCEPT !.pc = "body", !.attempt = a, !.body = server,
                             !.full = FALSE, !.at = transfer.start]
  <2>1. transfer.attempt + 1 \in Nat
    BY <1>2 DEF CallType
  <2> QED
    BY <2>1 DEF Fetching!ChunkedPartial
<1>4. /\ transfer' \in CallType /\ transfer'.pc = "body" /\ transfer'.engine = "chunked"
      /\ transfer'.tag = transfer.tag /\ transfer'.total = transfer.total
         /\ transfer'.start = transfer.start
      /\ transfer'.end = transfer.end /\ transfer'.at = transfer.start
         /\ transfer'.body = server
  BY <1>1, <1>2, <1>3, PcsAre DEF CallType
<1>5. Tag[server] = transfer.tag
  BY <1>1, <1>2 DEF ChunkedFits
<1>6. transfer.start \in Nat
  BY <1>2 DEF CallType
<1>7. ChunkedFits(transfer', staged', ckpt', scenario.versions)
  BY <1>1, <1>2, <1>4, <1>5, <1>6 DEF ChunkedFits
<1> QED
  BY <1>1, <1>2, <1>4, <1>7, ChunkedLands

LEMMA ChunkedFullKeeps ==
  ASSUME FetchingIInv, Fetching!ChunkedFull
  PROVE  FetchingIInv'
<1>1. transfer.engine = "chunked" /\ transfer.pc = "request" /\ UNCHANGED <<server, scenario>>
      /\ ~(transfer.tag # NoTag /\ Tag[server] # NoTag /\ Tag[server] # transfer.tag)
  BY DEF Fetching!ChunkedFull, Fetching!Chunked
<1>2. /\ transfer \in CallType /\ staged \in Seq(Blocks)
      /\ synced \in Nat /\ Known(scenario.versions, ckpt)
      /\ ChunkedFits(transfer, staged, ckpt, scenario.versions)
      /\ server \in scenario.versions /\ server \in Bodies /\ Size[server] \in Nat \ {0}
      /\ \A v, w \in scenario.versions : Tag[v] = Tag[w] => v = w
      /\ \A v, w \in scenario.versions : Tag[v] = NoTag => v = w
      /\ segCkpt = NoCheckpoint
  BY <1>1, ChunkedScenario
<1>3. transfer.start \in Nat /\ transfer.total \in Nat /\ transfer.end \in Nat
      /\ ChunkSize \in Nat
  BY <1>2, TransferAssumption DEF CallType
<1>4. Tag[server] = transfer.tag /\ transfer.total \in {0, Size[server]}
  BY <1>1, <1>2 DEF ChunkedFits
<1>5. PICK a \in Nat, t \in {Size[server], transfer.total} :
        transfer' = [transfer EXCEPT !.pc = "body", !.attempt = a, !.body = server,
                             !.full = TRUE, !.start = 0, !.at = 0, !.total = t]
  <2>1. transfer.attempt + 1 \in Nat
    BY <1>2 DEF CallType
  <2>2. PICK length \in {Size[server], 0} :
          transfer' = [transfer EXCEPT !.pc = "body", !.attempt = @ + 1, !.body = server,
                               !.full = TRUE, !.start = 0, !.at = 0,
                               !.total = IF transfer.start > 0 /\ length > 0 THEN length ELSE @]
    BY DEF Fetching!ChunkedFull
  <2>3. (IF transfer.start > 0 /\ length > 0 THEN length ELSE transfer.total)
          \in {Size[server], transfer.total}
    BY <1>3, <2>2
  <2> QED
    BY <2>1, <2>2, <2>3
<1>6. t \in Nat
  BY <1>2, <1>3
<1>7. /\ transfer' \in CallType /\ transfer'.pc = "body" /\ transfer'.engine = "chunked"
      /\ transfer'.tag = transfer.tag /\ transfer'.total = t /\ transfer'.start = 0
      /\ transfer'.end = transfer.end /\ transfer'.at = 0 /\ transfer'.body = server
  BY <1>1, <1>2, <1>5, <1>6, PcsAre DEF CallType
<1>8. staged' = <<>> /\ synced' \in Nat /\ segCkpt' = segCkpt
      /\ ckpt' \in {ckpt, NoCheckpoint}
  <2>1. CASE transfer.start > 0
    <3>1. Fetching!TruncateTo(0) /\ Fetching!DropCheckpoint
      BY <2>1 DEF Fetching!ChunkedFull
    <3> QED
      BY <1>1, <1>2, <3>1, CutEmpty DEF Fetching!DropCheckpoint
  <2>2. CASE ~(transfer.start > 0)
    <3>1. UNCHANGED <<staged, synced, ckpt, segCkpt>>
      BY <2>2 DEF Fetching!ChunkedFull
    <3>2. Len(staged) = 0
      BY <1>1, <1>2, <1>3, <2>2 DEF ChunkedFits
    <3>3. staged = <<>>
      BY <1>2, <3>2
    <3> QED
      BY <1>2, <3>1, <3>3
  <2> QED
    BY <2>1, <2>2
<1>9. Known(scenario.versions, ckpt') /\ Honest(scenario.versions, ckpt', staged')
  BY <1>2, <1>8, EmptyFits DEF Known
<1>10. t = 0 => ChunkSize <= transfer.end
  BY <1>1, <1>2, <1>3 DEF ChunkedFits
<1>11. ChunkedFits(transfer', staged', ckpt', scenario.versions)
  <2>1. ckpt' # NoCheckpoint => ckpt'.tag = transfer.tag
    BY <1>1, <1>2, <1>8 DEF ChunkedFits
  <2>2. t \in {0, Size[server]}
    BY <1>4, <1>5
  <2>3. t = 0 => 0 + ChunkSize <= transfer.end
    BY <1>3, <1>10
  <2> QED
    BY <1>2, <1>4, <1>7, <1>8, <2>1, <2>2, <2>3, EmptyFits DEF ChunkedFits
<1> QED
  BY <1>1, <1>7, <1>8, <1>9, <1>11, EmptyFits, ChunkedLands

LEMMA ChunkedMismatchKeeps ==
  ASSUME FetchingIInv, Fetching!ChunkedMismatch
  PROVE  FetchingIInv'
  BY ChunkedGoes DEF Fetching!ChunkedMismatch, Fetching!Chunked

\* What a chunked transfer has when it reads a body.
LEMMA ChunkedBody ==
  ASSUME FetchingIInv, transfer.engine = "chunked", transfer.pc = "body"
  PROVE  /\ transfer.body \in scenario.versions /\ transfer.body \in Fetching!Objects
         /\ Size[transfer.body] \in Nat \ {0}
         /\ Tag[transfer.body] = transfer.tag /\ transfer.total \in {0, Size[transfer.body]}
         /\ \A w \in scenario.versions : Tag[w] = transfer.tag => w = transfer.body
         /\ PrefixOf(staged, transfer.body) /\ Len(staged) = transfer.at
            /\ transfer.start <= transfer.at
         /\ transfer.total = 0 => transfer.start + ChunkSize <= transfer.end
         /\ ckpt # NoCheckpoint => ckpt.tag = transfer.tag
<1>1. ChunkedFits(transfer, staged, ckpt, scenario.versions)
      /\ \A v, w \in scenario.versions : Tag[v] = Tag[w] => v = w
  BY ChunkedScenario
<1>2. transfer.body \in scenario.versions /\ Tag[transfer.body] = transfer.tag
  BY <1>1 DEF ChunkedFits
<1>3. transfer.body \in Fetching!Objects /\ Size[transfer.body] \in Nat \ {0}
      /\ \A w \in scenario.versions : Tag[w] = transfer.tag => w = transfer.body
  BY <1>1, <1>2, ChunkedScenario
<1> QED
  BY <1>1, <1>2, <1>3 DEF ChunkedFits

\* The end of a chunk is not beyond the object.
LEMMA LimitIs ==
  ASSUME FetchingIInv, transfer.engine = "chunked", transfer.pc = "body"
  PROVE  /\ Fetching!ChunkLimit \in Nat /\ Fetching!ChunkLimit <= Size[transfer.body]
         /\ transfer.full => Fetching!ChunkLimit = Size[transfer.body]
         /\ Fetching!ChunkLimit \in {Size[transfer.body], transfer.end}
<1>1. Size[transfer.body] \in Nat /\ transfer.end \in Nat
  BY ChunkedBody, ChunkedScenario DEF CallType
<1>2. CASE transfer.full
  BY <1>1, <1>2 DEF Fetching!ChunkLimit
<1>3. CASE ~transfer.full
  <2>1. Fetching!ChunkLimit = Fetching!Min2(transfer.end, Size[transfer.body])
    BY <1>3 DEF Fetching!ChunkLimit
  <2> QED
    BY <1>1, <1>3, <2>1, MinIs
<1> QED
  BY <1>2, <1>3

LEMMA ChunkedBlockKeeps ==
  ASSUME FetchingIInv, Fetching!ChunkedBlock
  PROVE  FetchingIInv'
<1> DEFINE o == transfer.body
<1>1. transfer.engine = "chunked" /\ transfer.pc = "body" /\ transfer.at < Fetching!ChunkLimit
  BY DEF Fetching!ChunkedBlock, Fetching!Chunked
<1>2. /\ transfer \in CallType /\ staged \in Seq(Blocks)
      /\ synced \in Nat /\ Known(scenario.versions, ckpt)
      /\ ChunkedFits(transfer, staged, ckpt, scenario.versions)
  BY <1>1, ChunkedScenario
<1>3. /\ o \in scenario.versions /\ o \in Fetching!Objects
      /\ Tag[o] = transfer.tag /\ transfer.total \in {0, Size[o]}
      /\ \A w \in scenario.versions : Tag[w] = transfer.tag => w = o
      /\ PrefixOf(staged, o) /\ Len(staged) = transfer.at /\ transfer.start <= transfer.at
      /\ ckpt # NoCheckpoint => ckpt.tag = transfer.tag
  BY <1>1, ChunkedBody
<1>4. CASE scenario.fail /\ Fetching!Goto("fail")
           /\ UNCHANGED <<Fetching!disk, server, calls, scenario>>
  BY <1>1, <1>4, ChunkedGoes
<1>5. CASE /\ Fetching!WriteBlock(Fetching!BlockRead) /\ UNCHANGED <<synced, ckpt, segCkpt>>
           /\ transfer' = [transfer EXCEPT !.at = @ + 1]
           /\ UNCHANGED <<final, server, calls, scenario>>
  <2>1. transfer.start \in Nat /\ transfer.at \in Nat /\ Size[o] \in Nat
    BY <1>1, <1>2, ChunkedBody DEF CallType
  <2>2. staged' = Append(staged, <<o, Len(staged) + 1>>) /\ Len(staged) < Size[o]
    BY <1>1, <1>3, <1>5, <2>1, LimitIs DEF Fetching!WriteBlock, Fetching!BlockRead
  <2>3. staged' \in Seq(Blocks) /\ Len(staged') = Len(staged) + 1 /\ PrefixOf(staged', o)
    BY <1>2, <1>3, <2>2, NextBlock
  <2>4. PICK at \in Nat : transfer' = [transfer EXCEPT !.at = at] /\ at = Len(staged')
                         /\ transfer.start <= at
    <3>1. transfer.at + 1 \in Nat /\ transfer.start <= transfer.at + 1
      BY <1>3, <2>1
    <3> QED
      BY <1>3, <1>5, <2>3, <3>1
  <2>5. /\ transfer' \in CallType /\ transfer'.pc = "body" /\ transfer'.engine = "chunked"
        /\ transfer'.tag = transfer.tag /\ transfer'.total = transfer.total
           /\ transfer'.start = transfer.start
        /\ transfer'.end = transfer.end /\ transfer'.body = o /\ transfer'.at = at
    BY <1>1, <1>2, <2>4 DEF CallType
  <2>6. Honest(scenario.versions, ckpt', staged')
    <3>1. CASE ckpt = NoCheckpoint
      BY <1>5, <3>1 DEF Honest
    <3>2. CASE ckpt # NoCheckpoint
      <4>1. \A v \in scenario.versions : Tag[v] = ckpt'.tag => PrefixOf(staged', v)
        BY <1>3, <1>5, <2>3, <3>2
      <4> QED
        BY <4>1, StartsHonest
    <3> QED
      BY <3>1, <3>2
  <2>7. ChunkedFits(transfer', staged', ckpt', scenario.versions)
    <3>1. \A v \in scenario.versions : Tag[v] = transfer.tag => PrefixOf(staged', v)
      BY <1>3, <2>3
    <3>2. transfer.total = 0 => transfer.start + ChunkSize <= transfer.end
      BY <1>1, ChunkedBody
    <3>3. ckpt' # NoCheckpoint => ckpt'.tag = transfer.tag
      BY <1>3, <1>5
    <3> QED
      BY <1>3, <2>4, <2>5, <3>1, <3>2, <3>3 DEF ChunkedFits
  <2> QED
    BY <1>1, <1>2, <1>5, <2>3, <2>5, <2>6, <2>7, ChunkedLands
<1> QED
  BY <1>4, <1>5 DEF Fetching!ChunkedBlock, Fetching!Block

\* What is saved of a chunked transfer is of the version it has begun.
LEMMA ChunkedSaves ==
  ASSUME FetchingIInv, transfer.engine = "chunked", transfer.pc \in {"body", "giveup"},
         NEW must \in BOOLEAN,
         Fetching!SaveCheckpoint(staged, must)
  PROVE  /\ segCkpt' = segCkpt /\ synced' \in Nat
         /\ Known(scenario.versions, ckpt') /\ Honest(scenario.versions, ckpt', staged)
         /\ ckpt' # NoCheckpoint => ckpt'.tag = transfer.tag
<1> DEFINE k == [tag |-> transfer.tag, bytes |-> Len(staged), total |-> transfer.total]
<1>1. /\ transfer \in CallType /\ staged \in Seq(Blocks) /\ synced \in Nat
      /\ Known(scenario.versions, ckpt) /\ Honest(scenario.versions, ckpt, staged)
      /\ ChunkedFits(transfer, staged, ckpt, scenario.versions)
      /\ \A v, w \in scenario.versions : Tag[v] = Tag[w] => v = w
  BY ChunkedScenario
<1>2. PICK v \in scenario.versions : Tag[v] = transfer.tag /\ transfer.total \in {0, Size[v]}
  BY <1>1, ChunkedBody DEF ChunkedFits
<1>3. PrefixOf(staged, v) /\ (ckpt # NoCheckpoint => ckpt.tag = transfer.tag)
  BY <1>1, <1>2 DEF ChunkedFits
<1>4. /\ segCkpt' = segCkpt /\ synced' \in Nat
      /\ ckpt' = ckpt \/ (transfer.keep /\ transfer.tag # NoTag /\ ckpt' = k)
  BY <1>1, FileSaves
<1>5. transfer.tag # NoTag => Known(scenario.versions, k)
      /\ Honest(scenario.versions, k, staged)
  BY <1>1, <1>2, <1>3, EntryFits
<1>6. k.tag = transfer.tag
  OBVIOUS
<1> HIDE DEF k
<1> QED
  BY <1>1, <1>3, <1>4, <1>5, <1>6

LEMMA ChunkedEndKeeps ==
  ASSUME FetchingIInv, Fetching!ChunkedEnd
  PROVE  FetchingIInv'
<1> DEFINE o == transfer.body
           short == transfer.total = 0 /\ Fetching!Written - transfer.start < ChunkSize
<1>1. /\ transfer.engine = "chunked" /\ transfer.pc = "body"
         /\ transfer.at = Fetching!ChunkLimit
      /\ UNCHANGED <<staged, server, scenario>> /\ Fetching!SaveCheckpoint(staged, FALSE)
  BY DEF Fetching!ChunkedEnd, Fetching!Chunked
<1>2. /\ transfer \in CallType /\ staged \in Seq(Blocks) /\ Len(staged) \in Nat
      /\ ChunkedFits(transfer, staged, ckpt, scenario.versions)
  BY <1>1, ChunkedScenario
<1>3. /\ o \in scenario.versions /\ o \in Fetching!Objects
      /\ Tag[o] = transfer.tag /\ transfer.total \in {0, Size[o]} /\ Size[o] \in Nat \ {0}
      /\ \A w \in scenario.versions : Tag[w] = transfer.tag => w = o
      /\ PrefixOf(staged, o) /\ Len(staged) = transfer.at
  BY <1>1, ChunkedBody
<1>4. transfer.start \in Nat /\ transfer.end \in Nat /\ transfer.total \in Nat
      /\ ChunkSize \in Nat
  BY <1>2, TransferAssumption DEF CallType
<1>5. /\ segCkpt' = segCkpt /\ synced' \in Nat
      /\ Known(scenario.versions, ckpt') /\ Honest(scenario.versions, ckpt', staged')
      /\ ckpt' # NoCheckpoint => ckpt'.tag = transfer.tag
  BY <1>1, ChunkedSaves
<1>6. transfer.full \/ short => Len(staged) = Size[o]
  <2>1. CASE transfer.full
    BY <1>1, <1>3, <2>1, LimitIs
  <2>2. CASE short
    <3>1. transfer.start + ChunkSize <= transfer.end /\ Len(staged) - transfer.start < ChunkSize
      BY <1>1, <2>2, ChunkedBody DEF Fetching!Written
    <3>2. Len(staged) # transfer.end
      BY <1>2, <1>4, <3>1
    <3> QED
      BY <1>1, <1>3, <3>2, LimitIs
  <2> QED
    BY <2>1, <2>2
<1>7. \/ transfer' = [transfer EXCEPT !.pc = "publish"] /\ Len(staged) = Size[o]
      \/ transfer' = [transfer EXCEPT !.pc = "fail"]
      \/ transfer' = Fetching!NextChunk(transfer, Len(staged))
  <2>1. transfer' = IF transfer.total = 0
        /\ (transfer.full \/ short) THEN [transfer EXCEPT !.pc = "publish"]
                ELSE IF transfer.full
                THEN [transfer EXCEPT
                        !.pc = IF Fetching!Written = transfer.total THEN "publish" ELSE "fail"]
                ELSE Fetching!NextChunk(transfer, Fetching!Written)
    BY DEF Fetching!ChunkedEnd
  <2> HIDE DEF short
  <2> QED
    BY <1>6, <2>1 DEF Fetching!Written
<1>8. /\ transfer' \in CallType /\ transfer'.engine = "chunked" /\ transfer'.tag = transfer.tag
      /\ transfer'.total = transfer.total /\ transfer'.pc \in {"publish", "fail", "request"}
      /\ transfer'.pc = "publish" => Len(staged) = Size[o]
      /\ transfer'.pc = "request" => transfer'.start = Len(staged)
      /\ transfer'.pc = "request" =>
           (transfer'.total = 0 => transfer'.start + ChunkSize <= transfer'.end)
  <2>1. CASE transfer' = [transfer EXCEPT !.pc = "publish"] /\ Len(staged) = Size[o]
    BY <1>1, <1>2, <2>1, GotoIs, PcsAre
  <2>2. CASE transfer' = [transfer EXCEPT !.pc = "fail"]
    BY <1>1, <1>2, <2>2, GotoIs, PcsAre
  <2>3. CASE transfer' = Fetching!NextChunk(transfer, Len(staged))
    <3>1. /\ transfer' \in CallType /\ transfer'.engine = "chunked"
             /\ transfer'.tag = transfer.tag
          /\ transfer'.total = transfer.total /\ transfer'.pc \in {"request", "publish", "fail"}
          /\ transfer'.start = Len(staged)
          /\ transfer'.pc = "publish" => transfer.total > 0 /\ Len(staged) = transfer.total
          /\ transfer'.total = 0 => transfer'.start + ChunkSize <= transfer'.end
      BY ONLY <1>1, <1>2, <2>3, NextChunkIs
    <3> QED
      BY <1>3, <3>1
  <2> QED
    BY <1>7, <2>1, <2>2, <2>3
<1>9. transfer'.pc = "publish" => staged' = Fetching!Whole(o)
  BY <1>1, <1>2, <1>3, <1>8, AllBlocks
<1>10. ChunkedFits(transfer', staged', ckpt', scenario.versions)
  BY <1>1, <1>3, <1>5, <1>8 DEF ChunkedFits
<1> QED
  BY <1>1, <1>2, <1>3, <1>5, <1>8, <1>9, <1>10, ChunkedLands

LEMMA ChunkedCutKeeps ==
  ASSUME FetchingIInv, Fetching!ChunkedCut
  PROVE  FetchingIInv'
<1> DEFINE o == transfer.body
<1>1. /\ transfer.engine = "chunked" /\ transfer.pc = "body"
         /\ Fetching!TruncateTo(transfer.start)
      /\ UNCHANGED <<ckpt, segCkpt, server, scenario>>
  BY DEF Fetching!ChunkedCut, Fetching!Chunked
<1>2. /\ transfer \in CallType /\ staged \in Seq(Blocks) /\ synced \in Nat
      /\ Known(scenario.versions, ckpt) /\ Honest(scenario.versions, ckpt, staged)
      /\ ChunkedFits(transfer, staged, ckpt, scenario.versions)
  BY <1>1, ChunkedScenario
<1>3. /\ o \in scenario.versions
      /\ Tag[o] = transfer.tag /\ transfer.total \in {0, Size[o]}
      /\ \A w \in scenario.versions : Tag[w] = transfer.tag => w = o
      /\ PrefixOf(staged, o) /\ Len(staged) = transfer.at /\ transfer.start <= transfer.at
      /\ ckpt # NoCheckpoint => ckpt.tag = transfer.tag
  BY <1>1, ChunkedBody
<1>4. transfer.start \in 0..Len(staged) /\ transfer.start \in Nat /\ transfer.at \in Nat
      /\ transfer.start <= transfer.start
  BY <1>2, <1>3 DEF CallType
<1>5. staged' = SubSeq(staged, 1, transfer.start) /\ synced' \in Nat
  BY <1>1, <1>2, <1>4, MinIs DEF Fetching!TruncateTo
<1>6. staged' \in Seq(Blocks) /\ Len(staged') = transfer.start /\ PrefixOf(staged', o)
      /\ Honest(scenario.versions, ckpt', staged')
  <2>1. \A n : Holds(staged, n, o)
    BY <1>3, StartsHolds
  <2> QED
    BY <1>1, <1>2, <1>4, <1>5, <2>1, CutFile, CutStarts, CutHonest
<1>7. PICK p \in {"giveup", "request"} : transfer' = [transfer EXCEPT !.pc = p]
  BY DEF Fetching!ChunkedCut, Fetching!Goto
<1>8. /\ transfer' \in CallType /\ transfer'.pc = p /\ transfer'.engine = "chunked"
      /\ transfer'.tag = transfer.tag /\ transfer'.total = transfer.total
         /\ transfer'.start = transfer.start
      /\ transfer'.end = transfer.end
  BY <1>1, <1>2, <1>7, GotoIs, PcsAre
<1>9. ChunkedFits(transfer', staged', ckpt', scenario.versions)
  <2>1. transfer.total = 0 => transfer.start + ChunkSize <= transfer.end
    BY <1>1, ChunkedBody
  <2> QED
    BY <1>1, <1>3, <1>6, <1>8, <2>1 DEF ChunkedFits
<1> QED
  BY <1>1, <1>2, <1>5, <1>6, <1>8, <1>9, ChunkedLands

-----------------------------------------------------------------------------
\* fileDownloadSegments
LEMMA ListSize == \A o \in Lists : o \in Fetching!Objects /\ Size[o] \in Nat \ {0}
/\ o \in SomeLists
  BY TransferAssumption DEF Fetching!Objects, SomeLists

\* The checkpoint of a segmented transfer counts what is in the file.
LEMMA SegmentedKept ==
  ASSUME NEW f \in Seq(Blocks), NEW n \in 0..Len(f), NEW c, NEW d, NEW g,
         SegmentedFits(c, f, g), d.pc \in {"idle", "fail"}, d.pc = "idle"
         \/ d.engine = "segmented"
  PROVE  SegmentedFits(d, SubSeq(f, 1, n), g)
<1>1. g # NoCheckpoint => Holds(SubSeq(f, 1, n), g.bytes, g.list)
  BY CutHolds DEF SegmentedFits
<1> QED
  BY <1>1 DEF SegmentedFits

LEMMA SegmentedDone ==
  ASSUME NEW f \in Seq(Blocks), NEW c, NEW d, NEW g,
         SegmentedFits(c, f, g), d.pc \in {"idle", "fail"}, d.pc = "idle"
         \/ d.engine = "segmented"
  PROVE  SegmentedFits(d, f, g)
  BY DEF SegmentedFits

LEMMA SegmentedRestoreKeeps ==
  ASSUME FetchingIInv, Fetching!SegmentedRestore
  PROVE  FetchingIInv'
<1> DEFINE o == transfer.list
           b == segCkpt.bytes
<1>1. transfer.engine = "segmented" /\ transfer.pc = "restore" /\ UNCHANGED <<server, scenario>>
  BY DEF Fetching!SegmentedRestore, Fetching!Segmented
<1>2. /\ transfer \in CallType /\ staged \in Seq(Blocks) /\ Len(staged) \in Nat
      /\ synced \in Nat /\ SegmentedFits(transfer, staged, segCkpt) /\ ckpt = NoCheckpoint
  BY <1>1, SegmentScenario
<1>3. /\ segCkpt # NoCheckpoint /\ segCkpt.list = o /\ o \in Lists /\ b \in Nat
      /\ segCkpt.next = b /\ b <= Size[o] /\ Holds(staged, b, o)
      /\ Len(transfer.segments) = Size[o] /\ transfer.next = 0
  BY <1>1, <1>2 DEF SegmentedFits
<1>4. o \in Fetching!Objects /\ Size[o] \in Nat \ {0}
  BY <1>3, ListSize
<1>5. CASE Len(staged) >= b
  <2> DEFINE p == IF segCkpt.next = Size[transfer.list] THEN "publish" ELSE "segments"
  <2>1. /\ Fetching!TruncateTo(b) /\ UNCHANGED <<ckpt, segCkpt>>
        /\ transfer' = [transfer EXCEPT !.next = segCkpt.next, !.pc = p]
    BY <1>5 DEF Fetching!SegmentedRestore, Fetching!Written
  <2>2. b \in 0..Len(staged)
    BY <1>2, <1>3, <1>5
  <2>3. staged' = SubSeq(staged, 1, b) /\ synced' \in Nat
    BY <1>2, <1>3, <2>1, MinIs DEF Fetching!TruncateTo
  <2>4. staged' \in Seq(Blocks) /\ Len(staged') = b /\ PrefixOf(staged', o)
    BY <1>2, <1>3, <2>2, <2>3, CutFile, CutStarts
  <2>5. p \in Pcs /\ p \in {"publish", "segments"} /\ (p = "publish" => b = Size[o])
    BY <1>3, PcsAre
  <2> HIDE DEF p
  <2>6. /\ transfer' \in CallType /\ transfer'.pc = p /\ transfer'.engine = "segmented"
        /\ transfer'.list = o /\ transfer'.segments = transfer.segments
           /\ transfer'.next = segCkpt.next
    <3>1. segCkpt.next \in Nat
      BY <1>3
    <3> QED
      BY <1>1, <1>2, <2>1, <2>5, <3>1 DEF CallType
  <2>7. p = "publish" => staged' = Fetching!Whole(o)
    BY <1>4, <2>4, <2>5, AllBlocks
  <2>8. Holds(staged', b, o)
    BY <2>4, StartsHolds
  <2>9. SegmentedFits(transfer', staged', segCkpt')
    BY <1>2, <1>3, <2>1, <2>4, <2>5, <2>6, <2>8 DEF SegmentedFits
  <2> QED
    BY <1>1, <1>4, <2>1, <2>3, <2>4, <2>5, <2>6, <2>7, <2>9, SegmentLands
<1>6. CASE ~(Len(staged) >= b)
  <2>1. Fetching!TruncateTo(0) /\ Fetching!DropCheckpoint /\ Fetching!Goto("segments")
    BY <1>6 DEF Fetching!SegmentedRestore, Fetching!Written
  <2>2. staged' = <<>> /\ synced' \in Nat /\ ckpt' = ckpt /\ segCkpt' = NoCheckpoint
    BY <1>1, <1>2, <2>1, CutEmpty DEF Fetching!DropCheckpoint
  <2>3. /\ transfer' \in CallType /\ transfer'.pc = "segments" /\ transfer'.engine = "segmented"
        /\ transfer'.list = o /\ transfer'.segments = transfer.segments /\ transfer'.next = 0
    BY <1>1, <1>2, <1>3, <2>1, GotoIs, PcsAre DEF Fetching!Goto
  <2>4. SegmentedFits(transfer', staged', segCkpt')
    BY <1>3, <2>2, <2>3, EmptyFits DEF SegmentedFits
  <2> QED
    BY <1>1, <2>2, <2>3, <2>4, EmptyFits, SegmentLands
<1> QED
  BY <1>5, <1>6

\* A worker has begun, fetched or given up a segment.
LEMMA SegmentSet ==
  ASSUME FetchingIInv, Fetching!Segmented("segments"),
         UNCHANGED <<Fetching!disk, server, calls, scenario>>,
         NEW i \in DOMAIN transfer.segments, NEW state \in SegmentStates, NEW full \in BOOLEAN,
         transfer' = [transfer EXCEPT !.segments[i] = state, !.full = full]
  PROVE  FetchingIInv'
<1>1. transfer.engine = "segmented" /\ transfer.pc = "segments"
  BY DEF Fetching!Segmented
<1>2. /\ transfer \in CallType /\ staged \in Seq(Blocks) /\ synced \in Nat
      /\ SegmentedFits(transfer, staged, segCkpt)
  BY <1>1, SegmentScenario
<1>3. PICK row \in Rows : transfer' = [transfer EXCEPT !.segments = row, !.full = full]
                         /\ Len(row) = Len(transfer.segments)
  <2> DEFINE row == [transfer.segments EXCEPT ![i] = state]
  <2>1. transfer.segments \in Seq(SegmentStates)
    BY <1>2 DEF CallType, Rows
  <2>2. row \in Seq(SegmentStates) /\ Len(row) = Len(transfer.segments)
    BY <2>1
  <2>3. transfer' = [transfer EXCEPT !.segments = row, !.full = full]
    OBVIOUS
  <2> QED
    BY <2>2, <2>3 DEF Rows
<1>4. /\ transfer' \in CallType /\ transfer'.pc = "segments" /\ transfer'.engine = "segmented"
      /\ transfer'.list = transfer.list /\ transfer'.next = transfer.next
         /\ transfer'.segments = row
  <2>1. transfer' = [transfer EXCEPT !.segments = row, !.full = full]
    BY <1>3
  <2> QED
    BY <1>1, <1>2, <2>1 DEF CallType
<1>5. SegmentedFits(transfer', staged', segCkpt')
  BY <1>1, <1>2, <1>3, <1>4 DEF SegmentedFits, Fetching!disk
<1> QED
  BY <1>1, <1>2, <1>4, <1>5, SegmentLands DEF Fetching!disk

LEMMA SegmentWorkKeeps ==
  ASSUME FetchingIInv, NEW i \in DOMAIN transfer.segments,
         Fetching!SegmentBegin(i) \/ Fetching!SegmentFetched(i) \/ Fetching!SegmentFailed(i)
  PROVE  FetchingIInv'
<1>1. transfer \in CallType /\ transfer.full \in BOOLEAN
  BY DEF FetchingIInv, CallType
<1>2. CASE Fetching!SegmentBegin(i)
  <2>1. transfer' = [transfer EXCEPT !.segments[i] = "busy", !.full = transfer.full]
        /\ "busy" \in SegmentStates
    BY <1>1, <1>2 DEF Fetching!SegmentBegin, Fetching!SetSegment, CallType, SegmentStates
  <2> QED
    BY <1>1, <1>2, <2>1, SegmentSet DEF Fetching!SegmentBegin
<1>3. CASE Fetching!SegmentFetched(i)
  <2>1. transfer' = [transfer EXCEPT !.segments[i] = "ready", !.full = transfer.full]
        /\ "ready" \in SegmentStates
    BY <1>1, <1>3 DEF Fetching!SegmentFetched, Fetching!SetSegment, CallType, SegmentStates
  <2> QED
    BY <1>1, <1>3, <2>1, SegmentSet DEF Fetching!SegmentFetched
<1>4. CASE Fetching!SegmentFailed(i)
  BY <1>4, SegmentSet DEF Fetching!SegmentFailed, SegmentStates
<1> QED
  BY <1>2, <1>3, <1>4

\* What is saved of a segmented transfer counts what is in the file.
LEMMA SegmentEntryFits ==
  ASSUME NEW o \in Lists, NEW f \in Seq(Blocks), PrefixOf(f, o),
         NEW k, k = [list |-> o, bytes |-> Len(f), next |-> Len(f)]
  PROVE  k.list = o /\ k.next \in Nat /\ k.bytes = k.next /\ k.next <= Size[o]
         /\ Holds(f, k.bytes, o)
<1>1. Len(f) \in Nat /\ Size[o] \in Nat \ {0}
  BY ListSize
<1>2. Len(f) <= Size[o]
  <2>1. CASE Len(f) = 0
    BY <1>1, <2>1
  <2>2. CASE Len(f) # 0
    <3>1. Len(f) \in 1..Len(f)
      BY <1>1, <2>2
    <3> QED
      BY <3>1 DEF PrefixOf
  <2> QED
    BY <2>1, <2>2
<1>3. Holds(f, Len(f), o)
  BY StartsHolds
<1> QED
  BY <1>1, <1>2, <1>3

LEMMA SegmentAppendKeeps ==
  ASSUME FetchingIInv, Fetching!SegmentAppend
  PROVE  FetchingIInv'
<1> DEFINE o == transfer.list
           i == transfer.next + 1
           k == [list |-> o, bytes |-> Len(staged'), next |-> i]
<1>1. transfer.engine = "segmented" /\ transfer.pc = "segments"
      /\ UNCHANGED <<server, scenario>>
      /\ i \in DOMAIN transfer.segments /\ staged' = Append(staged, <<o, i>>)
      /\ Fetching!SaveSegments(staged', i, FALSE)
  BY DEF Fetching!SegmentAppend, Fetching!Segmented, Fetching!Indices
<1>2. /\ transfer \in CallType /\ staged \in Seq(Blocks)
      /\ synced \in Nat /\ SegmentedFits(transfer, staged, segCkpt) /\ ckpt = NoCheckpoint
  BY <1>1, SegmentScenario
<1>3. /\ o \in Lists /\ PrefixOf(staged, o) /\ Len(staged) = transfer.next
      /\ Len(transfer.segments) = Size[o] /\ (segCkpt # NoCheckpoint => segCkpt.list = o)
  BY <1>1, <1>2 DEF SegmentedFits
<1>4. transfer.segments \in Seq(SegmentStates) /\ transfer.next \in Nat
  BY <1>2 DEF CallType, Rows
<1>5. o \in Fetching!Objects /\ Size[o] \in Nat \ {0}
  BY <1>3, ListSize
<1>6. Len(staged) < Size[o]
  BY <1>1, <1>3, <1>4, <1>5
<1>7. staged' \in Seq(Blocks) /\ Len(staged') = i /\ PrefixOf(staged', o)
  BY <1>1, <1>2, <1>3, <1>5, <1>6, NextBlock
<1>8. ckpt' = ckpt /\ synced' \in Nat /\ segCkpt' \in {segCkpt, k}
  BY <1>1, <1>2, <1>7, SegmentSaves
<1>9. PICK n \in Nat, row \in Rows :
        /\ transfer' = [transfer EXCEPT !.next = n, !.segments = row]
        /\ Len(row) = Len(transfer.segments) /\ n = i
  <2> DEFINE row == [transfer.segments EXCEPT ![i] = "done"]
  <2>1. row \in Seq(SegmentStates) /\ Len(row) = Len(transfer.segments)
    <3>1. "done" \in SegmentStates
      BY DEF SegmentStates
    <3> HIDE DEF i
    <3> QED
      BY <1>1, <1>4, <3>1
  <2>2. transfer' = [transfer EXCEPT !.next = i, !.segments = row]
    BY DEF Fetching!SegmentAppend
  <2>3. i \in Nat
    BY <1>4
  <2> QED
    BY <2>1, <2>2, <2>3 DEF Rows
<1>10. /\ transfer' \in CallType /\ transfer'.pc = "segments" /\ transfer'.engine = "segmented"
       /\ transfer'.list = o /\ transfer'.next = n /\ transfer'.segments = row
  <2>1. transfer' = [transfer EXCEPT !.next = n, !.segments = row]
    BY <1>9
  <2> QED
    BY <1>1, <1>2, <2>1 DEF CallType
<1>11. /\ k.list = o /\ k.next \in Nat /\ k.bytes = k.next /\ k.next <= Size[o]
       /\ Holds(staged', k.bytes, o)
  BY <1>3, <1>7, SegmentEntryFits
<1> HIDE DEF k
<1>12. segCkpt' # NoCheckpoint =>
         /\ segCkpt'.list = o /\ segCkpt'.next \in Nat /\ segCkpt'.bytes = segCkpt'.next
         /\ segCkpt'.next <= Size[o] /\ Holds(staged', segCkpt'.bytes, o)
  <2>1. CASE segCkpt' = k
    BY <1>11, <2>1
  <2>2. CASE segCkpt' = segCkpt
    <3>1. \A m : Holds(staged', m, o)
      BY <1>7, StartsHolds
    <3> QED
      BY <1>2, <1>3, <2>2, <3>1 DEF SegmentedFits
  <2> QED
    BY <1>8, <2>1, <2>2
<1>13. SegmentedFits(transfer', staged', segCkpt')
  BY <1>3, <1>7, <1>9, <1>10, <1>12 DEF SegmentedFits
<1> QED
  BY <1>1, <1>7, <1>8, <1>10, <1>13, SegmentLands

LEMMA SegmentedStopKeeps ==
  ASSUME FetchingIInv, Fetching!SegmentedStop
  PROVE  FetchingIInv'
<1> DEFINE o == transfer.list
<1>1. transfer.engine = "segmented" /\ transfer.pc = "segments"
      /\ UNCHANGED <<staged, synced, ckpt, segCkpt, server, scenario>>
  BY DEF Fetching!SegmentedStop, Fetching!Segmented, Fetching!disk
<1>2. /\ transfer \in CallType /\ staged \in Seq(Blocks)
      /\ synced \in Nat /\ SegmentedFits(transfer, staged, segCkpt)
  BY <1>1, SegmentScenario
<1>3. /\ o \in Lists /\ PrefixOf(staged, o) /\ Len(staged) = transfer.next
      /\ (segCkpt # NoCheckpoint => segCkpt.list = o)
  BY <1>1, <1>2 DEF SegmentedFits
<1>4. PICK p \in {"publish", "giveup", "fail"} :
        Fetching!Goto(p) /\ (p = "publish" => transfer.next = Size[o])
  BY DEF Fetching!SegmentedStop
<1>5. /\ transfer' \in CallType /\ transfer'.pc = p /\ transfer'.engine = "segmented"
      /\ transfer'.list = o /\ transfer'.next = transfer.next
  BY <1>1, <1>2, <1>4, GotoIs, PcsAre DEF Fetching!Goto
<1>6. o \in Fetching!Objects /\ (p = "publish" => staged' = Fetching!Whole(o))
  BY <1>1, <1>2, <1>3, <1>4, ListSize, AllBlocks
<1>7. SegmentedFits(transfer', staged', segCkpt')
  BY <1>1, <1>2, <1>3, <1>5 DEF SegmentedFits
<1> QED
  BY <1>1, <1>2, <1>5, <1>6, <1>7, SegmentLands

-----------------------------------------------------------------------------
\* What all three do.
LEMMA CallTyped == FetchingIInv => transfer \in CallType /\ staged \in Seq(Blocks)
/\ synced \in Nat
                           /\ server \in scenario.versions
  BY DEF FetchingIInv, Blocks

LEMMA EngineIs == FetchingIInv => transfer.engine \in {"ranged", "chunked", "segmented"}
  BY CallTyped DEF CallType, Engines

LEMMA ClearedKeeps ==
  ASSUME FetchingIInv, Fetching!Clear
  PROVE  FetchingIInv'
<1>1. /\ transfer.pc = "clear" /\ Fetching!TruncateTo(0) /\ Fetching!Goto("drop")
      /\ UNCHANGED <<ckpt, segCkpt, server, scenario>>
  BY DEF Fetching!Clear
<1>2. staged' = <<>> /\ synced' \in Nat
  BY <1>1, CallTyped, CutEmpty
<1>3. /\ transfer' \in CallType /\ transfer'.pc = "drop" /\ transfer'.engine = transfer.engine
      /\ transfer'.tag = transfer.tag /\ transfer'.total = transfer.total
         /\ transfer'.start = transfer.start
      /\ transfer'.end = transfer.end /\ transfer'.list = transfer.list
         /\ transfer'.segments = transfer.segments
      /\ transfer'.next = transfer.next
  BY <1>1, CallTyped, GotoIs, PcsAre DEF Fetching!Goto
<1>4. CASE transfer.engine = "ranged"
  <2>1. RangedFits(transfer', staged', ckpt', scenario.versions)
    BY <1>1, <1>2, <1>3, <1>4, RangedScenario DEF RangedFits
  <2> QED
    BY <1>1, <1>2, <1>3, <1>4, <2>1, EmptyFits, CallTyped, RangedScenario, RangedLands
<1>5. CASE transfer.engine = "chunked"
  <2>1. ChunkedFits(transfer', staged', ckpt', scenario.versions)
    BY <1>1, <1>2, <1>3, <1>5, ChunkedScenario DEF ChunkedFits
  <2> QED
    BY <1>1, <1>2, <1>3, <1>5, <2>1, EmptyFits, CallTyped, ChunkedScenario, ChunkedLands
<1>6. CASE transfer.engine = "segmented"
  <2>1. SegmentedFits(transfer', staged', segCkpt')
    BY <1>1, <1>2, <1>3, <1>6, EmptyFits, SegmentScenario DEF SegmentedFits
  <2> QED
    BY <1>1, <1>2, <1>3, <1>6, <2>1, EmptyFits, CallTyped, SegmentLands
<1> QED
  BY <1>4, <1>5, <1>6, EngineIs

LEMMA DropKeeps ==
  ASSUME FetchingIInv, Fetching!Drop
  PROVE  FetchingIInv'
<1> DEFINE p == IF transfer.engine = "segmented" THEN "segments" ELSE "request"
<1>1. /\ transfer.pc = "drop" /\ Fetching!DropCheckpoint /\ Fetching!Goto(p)
      /\ UNCHANGED <<staged, synced, server, scenario>>
  BY DEF Fetching!Drop
<1>2. p \in Pcs /\ (transfer.engine = "segmented" => p = "segments")
      /\ (transfer.engine # "segmented" => p = "request")
  BY PcsAre
<1> HIDE DEF p
<1>3. /\ transfer' \in CallType /\ transfer'.pc = p /\ transfer'.engine = transfer.engine
      /\ transfer'.tag = transfer.tag /\ transfer'.total = transfer.total
         /\ transfer'.start = transfer.start
      /\ transfer'.end = transfer.end /\ transfer'.list = transfer.list
         /\ transfer'.segments = transfer.segments
      /\ transfer'.next = transfer.next
  BY <1>1, <1>2, CallTyped, GotoIs DEF Fetching!Goto
<1>4. CASE transfer.engine = "ranged"
  <2>1. ckpt' = NoCheckpoint /\ segCkpt' = segCkpt
    BY <1>1, <1>4 DEF Fetching!DropCheckpoint
  <2>2. staged' = <<>> /\ transfer'.tag = NoTag
    BY <1>1, <1>3, <1>4, RangedScenario DEF RangedFits
  <2>3. RangedFits(transfer', staged', ckpt', scenario.versions)
    BY <1>2, <1>3, <1>4, <2>1, <2>2 DEF RangedFits
  <2>4. Known(scenario.versions, ckpt')
    BY <2>1 DEF Known
  <2> QED
    BY <1>1, <1>2, <1>3, <1>4, <2>1, <2>2, <2>3, <2>4, EmptyFits, CallTyped, RangedLands
<1>5. CASE transfer.engine = "chunked"
  <2>1. ckpt' = NoCheckpoint /\ segCkpt' = segCkpt
    BY <1>1, <1>5 DEF Fetching!DropCheckpoint
  <2>2. staged' = <<>>
    BY <1>1, <1>5, ChunkedScenario DEF ChunkedFits
  <2>3. ChunkedFits(transfer', staged', ckpt', scenario.versions)
    BY <1>1, <1>2, <1>3, <1>5, <2>1, <2>2, EmptyFits, ChunkedScenario DEF ChunkedFits
  <2>4. Known(scenario.versions, ckpt')
    BY <2>1 DEF Known
  <2> QED
    BY <1>1, <1>2, <1>3, <1>5, <2>1, <2>2, <2>3, <2>4, EmptyFits, CallTyped, ChunkedLands
<1>6. CASE transfer.engine = "segmented"
  <2>1. ckpt' = ckpt /\ segCkpt' = NoCheckpoint
    BY <1>1, <1>6 DEF Fetching!DropCheckpoint
  <2>2. staged' = <<>>
    BY <1>1, <1>6, SegmentScenario DEF SegmentedFits
  <2>3. SegmentedFits(transfer', staged', segCkpt')
    BY <1>1, <1>2, <1>3, <1>6, <2>1, <2>2, EmptyFits, SegmentScenario DEF SegmentedFits
  <2> QED
    BY <1>1, <1>2, <1>3, <1>6, <2>1, <2>2, <2>3, EmptyFits, CallTyped, SegmentLands
<1> QED
  BY <1>4, <1>5, <1>6, EngineIs

LEMMA GiveUpKeeps ==
  ASSUME FetchingIInv, Fetching!GiveUp
  PROVE  FetchingIInv'
<1>1. /\ transfer.pc = "giveup" /\ Fetching!Goto("fail")
         /\ UNCHANGED <<staged, server, scenario>>
      /\ IF transfer.engine = "segmented"
         THEN Fetching!SaveSegments(staged, transfer.next, TRUE)
         ELSE Fetching!SaveCheckpoint(staged, TRUE)
  BY DEF Fetching!GiveUp
<1>2. /\ transfer' \in CallType /\ transfer'.pc = "fail" /\ transfer'.engine = transfer.engine
  BY <1>1, CallTyped, GotoIs, PcsAre DEF Fetching!Goto
<1>3. CASE transfer.engine = "ranged"
  <2>1. /\ segCkpt' = segCkpt /\ synced' \in Nat
        /\ Known(scenario.versions, ckpt') /\ Honest(scenario.versions, ckpt', staged')
    BY <1>1, <1>3, RangedSaves
  <2>2. RangedFits(transfer', staged', ckpt', scenario.versions)
    BY <1>2 DEF RangedFits
  <2> QED
    BY <1>1, <1>2, <1>3, <2>1, <2>2, CallTyped, RangedLands
<1>4. CASE transfer.engine = "chunked"
  <2>1. /\ segCkpt' = segCkpt /\ synced' \in Nat
        /\ Known(scenario.versions, ckpt') /\ Honest(scenario.versions, ckpt', staged')
    BY <1>1, <1>4, ChunkedSaves
  <2>2. ChunkedFits(transfer', staged', ckpt', scenario.versions)
    BY <1>2 DEF ChunkedFits
  <2> QED
    BY <1>1, <1>2, <1>4, <2>1, <2>2, CallTyped, ChunkedLands
<1>5. CASE transfer.engine = "segmented"
  <2> DEFINE k == [list |-> transfer.list, bytes |-> Len(staged), next |-> transfer.next]
  <2>1. /\ transfer \in CallType /\ staged \in Seq(Blocks) /\ synced \in Nat
        /\ SegmentedFits(transfer, staged, segCkpt)
    BY <1>1, <1>5, SegmentScenario
  <2>2. /\ transfer.list \in Lists /\ PrefixOf(staged, transfer.list)
           /\ Len(staged) = transfer.next
        /\ segCkpt # NoCheckpoint => segCkpt.list = transfer.list
    BY <1>1, <2>1 DEF SegmentedFits
  <2>3. ckpt' = ckpt /\ synced' \in Nat /\ segCkpt' \in {segCkpt, k}
    BY <1>1, <1>5, <2>1, SegmentSaves
  <2>4. /\ k.list = transfer.list /\ k.next \in Nat /\ k.bytes = k.next
           /\ k.next <= Size[transfer.list]
        /\ Holds(staged, k.bytes, transfer.list)
    BY <2>1, <2>2, SegmentEntryFits
  <2> HIDE DEF k
  <2>5. SegmentedFits(transfer', staged', segCkpt')
    BY <1>1, <1>2, <1>5, <2>1, <2>2, <2>3, <2>4 DEF SegmentedFits
  <2> QED
    BY <1>1, <1>2, <1>5, <2>1, <2>3, <2>5, SegmentLands
<1> QED
  BY <1>3, <1>4, <1>5, EngineIs

\* A call that ends, or fails to be published, with the file cut or not.
LEMMA CallEnds ==
  ASSUME FetchingIInv, transfer.pc # "idle", ~ Rash(transfer, scenario),
         UNCHANGED <<server, scenario>>,
         transfer' \in CallType, synced' \in Nat,
         transfer' = Fetching!Idle
         \/ (transfer'.pc = "fail" /\ transfer'.engine = transfer.engine),
         NEW n \in 0..Len(staged), staged' = SubSeq(staged, 1, n),
         UNCHANGED <<ckpt, segCkpt>> \/ Fetching!DropCheckpoint
  PROVE  FetchingIInv'
<1>1. /\ transfer'.pc \in {"idle", "fail"} /\ transfer'.engine \in {transfer.engine, "ranged"}
      /\ transfer'.pc = "idle" \/ transfer'.engine = transfer.engine
  BY IdleIs
<1>2. staged' \in Seq(Blocks)
  BY CallTyped, CutFile
<1>3. CASE transfer.engine # "segmented"
  <2>1. /\ Known(scenario.versions, ckpt) /\ Honest(scenario.versions, ckpt, staged)
        /\ segCkpt = NoCheckpoint
    BY <1>3, FileScenario
  <2>2. ckpt' \in {ckpt, NoCheckpoint} /\ segCkpt' = segCkpt
    BY <1>3 DEF Fetching!DropCheckpoint
  <2>3. Known(scenario.versions, ckpt') /\ Honest(scenario.versions, ckpt', staged')
    <3>1. Honest(scenario.versions, ckpt, staged')
      BY <2>1, CallTyped, CutHonest
    <3> QED
      BY <2>1, <2>2, <3>1 DEF Known, Honest
  <2>4. RangedFits(transfer', staged', ckpt', scenario.versions)
        /\ ChunkedFits(transfer', staged', ckpt', scenario.versions)
    <3>1. transfer'.engine = "chunked" => transfer'.pc = "fail"
      BY IdleIs
    <3> QED
      BY <1>1, <3>1 DEF RangedFits, ChunkedFits
  <2> QED
    BY <1>1, <1>2, <1>3, <2>2, <2>3, <2>4, CallTyped, FileLands
<1>4. CASE transfer.engine = "segmented"
  <2>1. SegmentedFits(transfer, staged, segCkpt) /\ ckpt = NoCheckpoint
    BY <1>4, SegmentScenario
  <2>2. segCkpt' \in {segCkpt, NoCheckpoint} /\ ckpt' = ckpt
    BY <1>4 DEF Fetching!DropCheckpoint
  <2>3. SegmentedFits(transfer', staged', segCkpt)
    BY <1>1, <1>4, <2>1, CallTyped, SegmentedKept
  <2>4. SegmentedFits(transfer', staged', segCkpt')
    BY <1>1, <1>4, <2>2, <2>3 DEF SegmentedFits
  <2> QED
    BY <1>1, <1>2, <1>4, <2>2, <2>4, SegmentLands
<1> QED
  BY <1>3, <1>4

LEMMA WholeFile ==
  ASSUME NEW f \in Seq(Blocks)
  PROVE  Len(f) \in 0..Len(f) /\ 0 \in 0..Len(f) /\ SubSeq(f, 1, Len(f)) = f
  OBVIOUS

LEMMA FailKeeps ==
  ASSUME FetchingIInv, Fetching!Fail
  PROVE  FetchingIInv'
<1>1. transfer.pc = "fail" /\ Fetching!Discard /\ transfer' = Fetching!Idle
      /\ UNCHANGED <<server, scenario>>
  BY DEF Fetching!Fail
<1>2. ~ Rash(transfer, scenario)
  BY <1>1 DEF Rash
<1>3. CASE transfer.keep
  <2>1. UNCHANGED <<staged, synced, ckpt, segCkpt>>
    BY <1>1, <1>3 DEF Fetching!Discard
  <2>2. staged' = SubSeq(staged, 1, Len(staged)) /\ Len(staged) \in 0..Len(staged)
    BY <2>1, CallTyped, WholeFile
  <2> QED
    BY <1>1, <1>2, <2>1, <2>2, CallTyped, IdleIs, CallEnds
<1>4. CASE ~transfer.keep
  <2>1. Fetching!TruncateTo(0) /\ Fetching!DropCheckpoint
    BY <1>1, <1>4 DEF Fetching!Discard
  <2>2. staged' = SubSeq(staged, 1, 0) /\ 0 \in 0..Len(staged) /\ synced' \in Nat
    BY <2>1, CallTyped, WholeFile, CutEmpty DEF Fetching!TruncateTo
  <2> QED
    BY <1>1, <1>2, <2>1, <2>2, CallTyped, IdleIs, CallEnds
<1> QED
  BY <1>3, <1>4

LEMMA CrashKeeps ==
  ASSUME FetchingIInv, Fetching!Crash
  PROVE  FetchingIInv'
<1>1. /\ scenario.crash /\ transfer.pc # "idle" /\ transfer' = Fetching!Idle
      /\ UNCHANGED <<synced, ckpt, segCkpt, server, scenario>>
  BY DEF Fetching!Crash
<1>2. PICK n \in synced..Fetching!Written : staged' = SubSeq(staged, 1, n)
  BY DEF Fetching!Crash
<1>3. n \in 0..Len(staged)
  BY <1>2, CallTyped DEF Fetching!Written
<1>4. ~ Rash(transfer, scenario)
  BY <1>1 DEF Rash
<1> QED
  BY <1>1, <1>2, <1>3, <1>4, CallTyped, IdleIs, CallEnds

LEMMA PublishKeeps ==
  ASSUME FetchingIInv, Fetching!Publish
  PROVE  FetchingIInv'
<1>1. transfer.pc = "publish" /\ UNCHANGED <<ckpt, segCkpt, server, scenario>>
  BY DEF Fetching!Publish
<1>2. CASE scenario.fail /\ synced' \in {synced, Fetching!Written} /\ Fetching!Goto("fail")
           /\ UNCHANGED staged
  <2>1. transfer' \in CallType /\ transfer'.pc = "fail" /\ transfer'.engine = transfer.engine
    BY <1>2, CallTyped, GotoIs, PcsAre DEF Fetching!Goto
  <2>2. staged' = SubSeq(staged, 1, Len(staged)) /\ Len(staged) \in 0..Len(staged)
    BY <1>2, CallTyped, WholeFile
  <2>3. synced' \in Nat
    BY <1>2, <2>2, CallTyped DEF Fetching!Written
  <2>4. ~ Rash(transfer, scenario)
    BY <1>2 DEF Rash
  <2> QED
    BY <1>1, <2>1, <2>2, <2>3, <2>4, CallEnds
<1>3. CASE staged' = <<>> /\ synced' = 0 /\ Fetching!Goto("published")
  <2>1. transfer' \in CallType /\ transfer'.pc = "published"
        /\ transfer'.engine = transfer.engine
    BY <1>3, CallTyped, GotoIs, PcsAre DEF Fetching!Goto
  <2>2. CASE transfer.engine # "segmented"
    <3>1. RangedFits(transfer', staged', ckpt', scenario.versions)
          /\ ChunkedFits(transfer', staged', ckpt', scenario.versions)
      BY <2>1 DEF RangedFits, ChunkedFits
    <3>2. Known(scenario.versions, ckpt)
      BY <1>1, <2>2, FileScenario
    <3> QED
      BY <1>1, <1>3, <2>1, <2>2, <3>1, <3>2, CallTyped, EmptyFits, FileLands
  <2>3. CASE transfer.engine = "segmented"
    <3>1. SegmentedFits(transfer, staged, segCkpt)
      BY <1>1, <2>3, SegmentScenario
    <3>2. SegmentedFits(transfer', staged', segCkpt')
      BY <1>1, <1>3, <2>1, <2>3, <3>1, EmptyFits DEF SegmentedFits
    <3> QED
      BY <1>1, <1>3, <2>1, <2>3, <3>2, EmptyFits, SegmentLands
  <2> QED
    BY <2>2, <2>3
<1> QED
  BY <1>2, <1>3 DEF Fetching!Publish

LEMMA SucceedKeeps ==
  ASSUME FetchingIInv, Fetching!Succeed
  PROVE  FetchingIInv'
<1>1. transfer.pc = "published" /\ Fetching!DropCheckpoint /\ transfer' = Fetching!Idle
      /\ UNCHANGED <<staged, synced, server, scenario>>
  BY DEF Fetching!Succeed
<1>2. staged' = SubSeq(staged, 1, Len(staged)) /\ Len(staged) \in 0..Len(staged)
  BY <1>1, CallTyped, WholeFile
<1>3. ~ Rash(transfer, scenario)
  BY <1>1 DEF Rash
<1> QED
  BY <1>1, <1>2, <1>3, CallTyped, IdleIs, CallEnds

LEMMA ChangeKeeps ==
  ASSUME FetchingIInv, Fetching!Change
  PROVE  FetchingIInv'
<1>1. server' \in scenario.versions /\ UNCHANGED <<transfer, scenario, Fetching!disk>>
  BY DEF Fetching!Change
<1> QED
  BY <1>1 DEF FetchingIInv, Fetching!disk

-----------------------------------------------------------------------------
\* A call that begins finds the disk as the one before has left it.
LEMMA IdleFile ==
  ASSUME FetchingIInv, transfer.pc = "idle", ~ (scenario.engines \subseteq {"segmented"})
  PROVE  /\ segCkpt = NoCheckpoint /\ "segmented" \notin scenario.engines
         /\ Known(scenario.versions, ckpt) /\ Honest(scenario.versions, ckpt, staged)
  BY DEF FetchingIInv, Fits, Rash, Apart

LEMMA BeginKeeps ==
  ASSUME FetchingIInv, NEW c \in CallType, Fetching!Begin(c),
         c.engine \in {"ranged", "chunked"},
         \/ c.engine = "ranged" /\ c.pc = "restore" /\ c.keep /\ c.resume /\ ckpt # NoCheckpoint
         \/ c.engine = "ranged" /\ c.pc = "clear" /\ c.tag = NoTag
         \/ c.engine = "chunked" /\ c.pc = "probe"
  PROVE  FetchingIInv'
<1>1. /\ transfer.pc = "idle" /\ c.engine \in scenario.engines /\ transfer' = c
      /\ UNCHANGED <<staged, synced, ckpt, segCkpt, server, scenario>>
  BY DEF Fetching!Begin, Fetching!disk
<1>2. /\ segCkpt = NoCheckpoint /\ ~ (scenario.engines \subseteq {"segmented"})
      /\ Known(scenario.versions, ckpt) /\ Honest(scenario.versions, ckpt, staged)
  BY <1>1, IdleFile
<1>3. RangedFits(c, staged, ckpt, scenario.versions)
      /\ ChunkedFits(c, staged, ckpt, scenario.versions)
  BY DEF RangedFits, ChunkedFits
<1>4. Fits(c, staged, ckpt, segCkpt, scenario)
  BY <1>1, <1>2, <1>3 DEF Fits
<1>5. server \in scenario.versions /\ staged \in Seq(Blocks) /\ synced \in Nat
  BY CallTyped
<1> QED
  BY <1>1, <1>4, <1>5, Lands

LEMMA RangedStartKeeps ==
  ASSUME FetchingIInv, NEW resume \in BOOLEAN, NEW persistent \in BOOLEAN,
         Fetching!RangedStart(resume, persistent)
  PROVE  FetchingIInv'
<1> DEFINE keep == resume /\ persistent
           p == IF keep /\ ckpt # NoCheckpoint THEN "restore" ELSE "clear"
           c == [Fetching!Idle EXCEPT !.pc = p, !.resume = resume, !.keep = keep]
<1>1. Fetching!Begin(c)
  BY DEF Fetching!RangedStart
<1>2. keep \in BOOLEAN /\ p \in Pcs /\ (keep => resume)
      /\ ((p = "restore" /\ keep /\ ckpt # NoCheckpoint) \/ p = "clear")
  BY PcsAre
<1> HIDE DEF p, keep
<1>3. /\ c \in CallType /\ c.engine = "ranged" /\ c.pc = p /\ c.resume = resume
      /\ c.keep = keep /\ c.tag = NoTag
  BY <1>2, IdleIs DEF CallType
<1> HIDE DEF c
<1> QED
  BY <1>1, <1>2, <1>3, BeginKeeps

LEMMA ChunkedStartKeeps ==
  ASSUME FetchingIInv, NEW persistent \in BOOLEAN, Fetching!ChunkedStart(persistent)
  PROVE  FetchingIInv'
<1> DEFINE c == [Fetching!Idle EXCEPT !.engine = "chunked", !.pc = "probe", !.keep = persistent]
<1>1. Fetching!Begin(c)
  BY DEF Fetching!ChunkedStart
<1>2. "chunked" \in Engines
  BY DEF Engines
<1>3. c \in CallType /\ c.engine = "chunked" /\ c.pc = "probe"
  BY <1>2, IdleIs, PcsAre DEF CallType
<1> HIDE DEF c
<1> QED
  BY <1>1, <1>3, BeginKeeps

LEMMA SegmentedStartKeeps ==
  ASSUME FetchingIInv, NEW list \in Lists, NEW persistent \in BOOLEAN,
         Fetching!SegmentedStart(list, persistent)
  PROVE  FetchingIInv'
<1>1. PICK p \in {"restore", "clear"}, row \in Rows :
        /\ Fetching!Begin([Fetching!Idle EXCEPT
             !.engine = "segmented", !.keep = persistent, !.list = list, !.segments = row, !.pc = p])
        /\ Len(row) = Size[list]
        /\ p = "restore" => segCkpt # NoCheckpoint /\ segCkpt.list = list
  <2> DEFINE p == IF persistent /\ segCkpt # NoCheckpoint /\ segCkpt.list = list
                       /\ segCkpt.next <= Size[list]
                  THEN "restore" ELSE "clear"
             row == Fetching!Pending(list)
  <2>1. Size[list] \in Nat
    BY ListSize
  <2>2. row \in Rows /\ Len(row) = Size[list]
    BY <2>1 DEF Fetching!Pending, Rows, SegmentStates
  <2>3. p \in {"restore", "clear"}
        /\ (p = "restore" => segCkpt # NoCheckpoint /\ segCkpt.list = list)
    OBVIOUS
  <2>4. Fetching!Begin([Fetching!Idle EXCEPT
         !.engine = "segmented", !.keep = persistent, !.list = list, !.segments = row, !.pc = p])
    BY DEF Fetching!SegmentedStart
  <2> HIDE DEF p, row
  <2> QED
    BY <2>2, <2>3, <2>4
<1> DEFINE c == [Fetching!Idle EXCEPT
         !.engine = "segmented", !.keep = persistent, !.list = list, !.segments = row, !.pc = p]
<1>2. Fetching!Begin(c)
  BY <1>1
<1>3. "segmented" \in Engines /\ list \in SomeLists /\ p \in Pcs
  BY ListSize, PcsAre DEF Engines
<1>4. c \in CallType
  BY <1>3, IdleIs DEF CallType
<1>5. /\ c.engine = "segmented" /\ c.pc = p /\ c.list = list /\ c.segments = row /\ c.next = 0
  BY DEF Fetching!Idle
<1> HIDE DEF c
<1>6. /\ transfer.pc = "idle" /\ c.engine \in scenario.engines /\ transfer' = c
      /\ UNCHANGED <<staged, synced, ckpt, segCkpt, server, scenario>>
  BY <1>2 DEF Fetching!Begin, Fetching!disk
<1>7. scenario.engines \subseteq {"segmented"}
  BY <1>5, <1>6 DEF FetchingIInv, Apart
<1>8. ckpt = NoCheckpoint /\ SegmentedFits(transfer, staged, segCkpt)
  BY <1>7 DEF FetchingIInv, Fits
<1>9. SegmentedFits(c, staged, segCkpt)
  BY <1>1, <1>5, <1>6, <1>8 DEF SegmentedFits
<1>10. Fits(c, staged, ckpt, segCkpt, scenario)
  BY <1>1, <1>5, <1>6, <1>7, <1>8, <1>9 DEF Fits
<1>11. server \in scenario.versions /\ staged \in Seq(Blocks) /\ synced \in Nat
  BY CallTyped
<1> QED
  BY <1>4, <1>6, <1>10, <1>11, Lands

LEMMA FetchingIInvInit == Fetching!Init /\ (\A s \in Scenarios : Apart(s)) => FetchingIInv
<1> SUFFICES ASSUME Fetching!Init, \A s \in Scenarios : Apart(s) PROVE FetchingIInv
  OBVIOUS
<1>1. /\ staged = <<>> /\ synced = 0 /\ ckpt = NoCheckpoint /\ segCkpt = NoCheckpoint
      /\ server \in scenario.versions /\ transfer = Fetching!Idle /\ Apart(scenario)
  BY DEF Fetching!Init
<1>2. /\ SegmentedFits(Fetching!Idle, <<>>, NoCheckpoint)
      /\ RangedFits(Fetching!Idle, <<>>, NoCheckpoint, scenario.versions)
      /\ ChunkedFits(Fetching!Idle, <<>>, NoCheckpoint, scenario.versions)
      /\ Known(scenario.versions, NoCheckpoint) /\ Honest(scenario.versions, NoCheckpoint, <<>>)
  BY IdleIs DEF SegmentedFits, RangedFits, ChunkedFits, Known, Honest
<1>3. Fits(Fetching!Idle, <<>>, NoCheckpoint, NoCheckpoint, scenario)
  BY <1>2, IdleIs DEF Fits
<1> QED
  BY <1>1, <1>3, IdleIs, EmptyFits DEF FetchingIInv, Blocks

LEMMA FetchingIInvInductive == FetchingIInv
/\ (Fetching!Next \/ UNCHANGED Fetching!vars) => FetchingIInv'
<1> SUFFICES ASSUME FetchingIInv, Fetching!Next \/ UNCHANGED Fetching!vars PROVE FetchingIInv'
  OBVIOUS
<1>1. CASE Fetching!Start
  BY <1>1, RangedStartKeeps, ChunkedStartKeeps, SegmentedStartKeeps DEF Fetching!Start
<1>2. CASE Fetching!Step
  BY <1>2, ClearedKeeps, DropKeeps, GiveUpKeeps, FailKeeps, PublishKeeps, SucceedKeeps,
     RangedRestoreKeeps, RangedNoBodyKeeps, RangedFullKeeps, RangedPartialKeeps,
     RangedMismatchKeeps, RangedBlockKeeps, RangedEndKeeps, RangedCutKeeps,
     ChunkedProbeKeeps, ChunkedRestoreKeeps, ChunkedNoBodyKeeps, ChunkedPartialKeeps,
     ChunkedFullKeeps, ChunkedMismatchKeeps, ChunkedBlockKeeps, ChunkedEndKeeps,
     ChunkedCutKeeps, SegmentedRestoreKeeps, SegmentAppendKeeps, SegmentedStopKeeps,
     SegmentWorkKeeps DEF Fetching!Step
<1>3. CASE Fetching!Done \/ UNCHANGED Fetching!vars
  BY <1>3 DEF Fetching!Done, Fetching!vars, Fetching!disk, FetchingIInv
<1> QED
  BY <1>1, <1>2, <1>3, CrashKeeps, ChangeKeeps DEF Fetching!Next

-----------------------------------------------------------------------------
\* What a file that holds so much of an object begins with.
LEMMA CutWhole ==
  ASSUME NEW f \in Seq(Blocks), NEW n \in 0..Len(f), NEW m \in Nat, n <= m,
         NEW o \in Fetching!Objects, Holds(f, m, o)
  PROVE  SubSeq(f, 1, n) = SubSeq(Fetching!Whole(o), 1, n)
<1> DEFINE w == Fetching!Whole(o)
           g == SubSeq(f, 1, n)
           h == SubSeq(w, 1, n)
<1>1. Size[o] \in Nat
  BY TransferAssumption
<1>2. w \in Seq(Blocks) /\ Len(w) = Size[o] /\ \A i \in 1..Len(w) : w[i] = <<o, i>>
  BY <1>1 DEF Fetching!Whole, Blocks
<1>3. n \in Nat /\ Len(f) \in Nat /\ \A i \in 1..n : i \in 1..Len(f) /\ i <= m
  OBVIOUS
<1>4. \A i \in 1..n : i <= Size[o] /\ f[i] = <<o, i>>
  BY <1>3 DEF Holds
<1>5. n \in 0..Len(w)
  <2>1. CASE n = 0
    BY <1>1, <1>2, <2>1
  <2>2. CASE n # 0
    <3>1. n \in 1..n
      BY <1>3, <2>2
    <3> QED
      BY <1>1, <1>2, <1>3, <1>4, <3>1
  <2> QED
    BY <2>1, <2>2
<1> HIDE DEF w
<1>6. g \in Seq(Blocks) /\ Len(g) = n /\ \A i \in 1..n : g[i] = f[i]
  BY CutFile
<1>7. h \in Seq(Blocks) /\ Len(h) = n /\ \A i \in 1..n : h[i] = w[i]
  BY <1>2, <1>5, CutFile
<1> HIDE DEF g, h
<1>8. \A i \in 1..n : i \in 1..Len(w)
  BY <1>1, <1>2, <1>5
<1>9. \A i \in 1..n : g[i] = h[i]
  BY <1>2, <1>4, <1>6, <1>7, <1>8
<1>10. g = h
  BY <1>6, <1>7, <1>9
<1> QED
  BY <1>10 DEF g, h, w

LEMMA CheckpointHolds == FetchingIInv => Fetching!CheckpointHonest
<1> SUFFICES ASSUME FetchingIInv, transfer.pc = "idle" PROVE Fetching!CheckpointHonest
  BY DEF Fetching!CheckpointHonest
<1>1. staged \in Seq(Blocks) /\ Len(staged) \in Nat
  BY CallTyped
<1>2. ASSUME ckpt # NoCheckpoint
      PROVE  LET n == Fetching!Min2(ckpt.bytes, Fetching!Written)
             IN \E v \in Versions :
                  /\ Tag[v] = ckpt.tag
                  /\ SubSeq(staged, 1, n) = SubSeq(Fetching!Whole(v), 1, n)
                  /\ ckpt.total \in {0, Size[v]}
  <2>1. ~ (scenario.engines \subseteq {"segmented"})
    BY <1>2 DEF FetchingIInv, Fits
  <2>2. Known(scenario.versions, ckpt) /\ Honest(scenario.versions, ckpt, staged)
    BY <2>1, IdleFile
  <2>3. PICK v \in scenario.versions :
          Tag[v] = ckpt.tag /\ ckpt.total \in {0, Size[v]} /\ ckpt.bytes \in Nat
    BY <1>2, <2>2 DEF Known
  <2>4. v \in Versions /\ v \in Fetching!Objects /\ Holds(staged, ckpt.bytes, v)
    BY <1>2, <2>2, <2>3 DEF FetchingIInv, Apart, Fetching!Objects, Honest
  <2> DEFINE n == Fetching!Min2(ckpt.bytes, Fetching!Written)
  <2>5. n \in 0..Len(staged) /\ n <= ckpt.bytes
    BY <1>1, <2>3, MinIs DEF Fetching!Written
  <2> HIDE DEF n
  <2>6. SubSeq(staged, 1, n) = SubSeq(Fetching!Whole(v), 1, n)
    BY <1>1, <2>3, <2>4, <2>5, CutWhole
  <2> QED
    BY <2>3, <2>4, <2>6 DEF n
<1>3. ASSUME segCkpt # NoCheckpoint, Fetching!Written >= segCkpt.bytes
      PROVE  SubSeq(staged, 1, segCkpt.bytes)
               = SubSeq(Fetching!Whole(segCkpt.list), 1, segCkpt.next)
  <2>1. SegmentedFits(transfer, staged, segCkpt)
    BY <1>3 DEF FetchingIInv, Fits
  <2>2. /\ segCkpt.list \in Lists /\ segCkpt.next \in Nat /\ segCkpt.bytes = segCkpt.next
        /\ Holds(staged, segCkpt.bytes, segCkpt.list)
    BY <1>3, <2>1 DEF SegmentedFits
  <2>3. segCkpt.bytes \in 0..Len(staged) /\ segCkpt.bytes <= segCkpt.bytes
        /\ segCkpt.list \in Fetching!Objects
    BY <1>1, <1>3, <2>2, ListSize DEF Fetching!Written
  <2> QED
    BY <1>1, <2>2, <2>3, CutWhole
<1> QED
  BY <1>2, <1>3 DEF Fetching!CheckpointHonest

-----------------------------------------------------------------------------
\* A call at work.
Busy == transfer.pc \notin {"idle", "published"}

LEMMA PhaseIs ==
  /\ Fetching!Phase = (IF transfer.pc = "idle" THEN "idle"
              ELSE IF transfer.pc = "published" THEN "published" ELSE "working")
  /\ Fetching!Phase' = (IF transfer'.pc = "idle" THEN "idle"
               ELSE IF transfer'.pc = "published" THEN "published" ELSE "working")
<1>1. Fetching!Phase = (IF transfer.pc = "idle" THEN "idle"
               ELSE IF transfer.pc = "published" THEN "published" ELSE "working")
  BY DEF Fetching!Phase
<1>2. Fetching!Phase' = (IF transfer'.pc = "idle" THEN "idle"
                ELSE IF transfer'.pc = "published" THEN "published" ELSE "working")
  BY DEF Fetching!Phase
<1> QED
  BY <1>1, <1>2

\* A step within a call.
LEMMA WorkIsStutter ==
  ASSUME Busy, Busy', final' = final
  PROVE  UNCHANGED Fetching!Promise!vars
  BY PhaseIs DEF Busy, Fetching!Promise!vars

LEMMA GotoBusy ==
  ASSUME FetchingIInv, NEW p \in Pcs, Fetching!Goto(p), p \notin {"idle", "published"}
  PROVE  Busy'
  BY CallTyped, GotoIs DEF Fetching!Goto, Busy

LEMMA RangedBusy ==
  ASSUME FetchingIInv,
         \/ Fetching!RangedRestore \/ Fetching!RangedNoBody \/ Fetching!RangedFull
            \/ Fetching!RangedPartial \/ Fetching!RangedMismatch
         \/ Fetching!RangedBlock \/ Fetching!RangedEnd \/ Fetching!RangedCut
  PROVE  Busy /\ Busy' /\ final' = final
<1>1. transfer \in CallType
  BY CallTyped
<1>2. CASE Fetching!RangedRestore
  BY <1>1, <1>2 DEF Fetching!RangedRestore, Fetching!Ranged, Busy, CallType
<1>3. CASE Fetching!RangedNoBody
  BY <1>1, <1>3 DEF Fetching!RangedNoBody, Fetching!Ranged, Busy, CallType,
     Fetching!AfterFailure
<1>4. CASE Fetching!RangedFull
  BY <1>1, <1>4 DEF Fetching!RangedFull, Fetching!Ranged, Busy, CallType
<1>5. CASE Fetching!RangedPartial
  BY <1>1, <1>5 DEF Fetching!RangedPartial, Fetching!Ranged, Busy, CallType, Fetching!disk
<1>6. CASE Fetching!RangedMismatch
  BY <1>1, <1>6 DEF Fetching!RangedMismatch, Fetching!Ranged, Fetching!Goto, Busy, CallType,
     Fetching!disk
<1>7. CASE Fetching!RangedBlock
  BY <1>1, <1>7 DEF Fetching!RangedBlock, Fetching!Ranged, Fetching!Block, Fetching!Goto, Busy,
     CallType, Fetching!disk
<1>8. CASE Fetching!RangedEnd
  BY <1>1, <1>8 DEF Fetching!RangedEnd, Fetching!Ranged, Fetching!Goto, Busy, CallType,
     Fetching!disk
<1>9. CASE Fetching!RangedCut
  BY <1>1, <1>9 DEF Fetching!RangedCut, Fetching!Ranged, Fetching!Goto, Busy, CallType
<1> QED
  BY <1>2, <1>3, <1>4, <1>5, <1>6, <1>7, <1>8, <1>9

LEMMA ChunkedBusy ==
  ASSUME FetchingIInv,
         \/ Fetching!ChunkedProbe \/ Fetching!ChunkedRestore \/ Fetching!ChunkedNoBody
            \/ Fetching!ChunkedPartial \/ Fetching!ChunkedFull
         \/ Fetching!ChunkedMismatch \/ Fetching!ChunkedBlock \/ Fetching!ChunkedEnd
            \/ Fetching!ChunkedCut
  PROVE  Busy /\ Busy' /\ final' = final
<1>1. transfer \in CallType
  BY CallTyped
<1>2. CASE Fetching!ChunkedProbe
  BY <1>1, <1>2 DEF Fetching!ChunkedProbe, Fetching!NextChunk, Fetching!Chunked, Fetching!Goto,
     Busy, CallType, Fetching!disk
<1>3. CASE Fetching!ChunkedRestore
  BY <1>1, <1>3 DEF Fetching!ChunkedRestore, Fetching!NextChunk, Fetching!Chunked, Busy,
     CallType
<1>4. CASE Fetching!ChunkedNoBody
  BY <1>1, <1>4 DEF Fetching!ChunkedNoBody, Fetching!Chunked, Busy, CallType,
     Fetching!AfterFailure, Fetching!disk
<1>5. CASE Fetching!ChunkedPartial
  BY <1>1, <1>5 DEF Fetching!ChunkedPartial, Fetching!Chunked, Busy, CallType, Fetching!disk
<1>6. CASE Fetching!ChunkedFull
  BY <1>1, <1>6 DEF Fetching!ChunkedFull, Fetching!Chunked, Busy, CallType
<1>7. CASE Fetching!ChunkedMismatch
  BY <1>1, <1>7 DEF Fetching!ChunkedMismatch, Fetching!Chunked, Fetching!Goto, Busy, CallType,
     Fetching!disk
<1>8. CASE Fetching!ChunkedBlock
  BY <1>1, <1>8 DEF Fetching!ChunkedBlock, Fetching!Chunked, Fetching!Block, Fetching!Goto,
     Busy, CallType, Fetching!disk
<1>9. CASE Fetching!ChunkedEnd
  BY <1>1, <1>9 DEF Fetching!ChunkedEnd, Fetching!NextChunk, Fetching!Chunked, Busy, CallType
<1>10. CASE Fetching!ChunkedCut
  BY <1>1, <1>10 DEF Fetching!ChunkedCut, Fetching!Chunked, Fetching!Goto, Busy, CallType
<1> QED
  BY <1>2, <1>3, <1>4, <1>5, <1>6, <1>7, <1>8, <1>9, <1>10

LEMMA OtherBusy ==
  ASSUME FetchingIInv,
         \/ Fetching!Clear \/ Fetching!Drop \/ Fetching!GiveUp
         \/ Fetching!SegmentedRestore \/ Fetching!SegmentAppend \/ Fetching!SegmentedStop
         \/ \E i \in DOMAIN transfer.segments :
              Fetching!SegmentBegin(i) \/ Fetching!SegmentFetched(i)
              \/ Fetching!SegmentFailed(i)
  PROVE  Busy /\ Busy' /\ final' = final
<1>1. transfer \in CallType
  BY CallTyped
<1>2. CASE Fetching!Clear \/ Fetching!Drop \/ Fetching!GiveUp
  BY <1>1, <1>2 DEF Fetching!Clear, Fetching!Drop, Fetching!GiveUp, Fetching!Goto, Busy,
     CallType
<1>3. CASE Fetching!SegmentedRestore
  BY <1>1, <1>3 DEF Fetching!SegmentedRestore, Fetching!Segmented, Fetching!Goto, Busy, CallType
<1>4. CASE Fetching!SegmentAppend
  BY <1>1, <1>4 DEF Fetching!SegmentAppend, Fetching!Segmented, Busy, CallType
<1>5. CASE Fetching!SegmentedStop
  BY <1>1, <1>5 DEF Fetching!SegmentedStop, Fetching!Segmented, Fetching!Goto, Busy, CallType,
     Fetching!disk
<1>6. ASSUME NEW i \in DOMAIN transfer.segments,
             Fetching!SegmentBegin(i) \/ Fetching!SegmentFetched(i) \/ Fetching!SegmentFailed(i)
      PROVE  Busy /\ Busy' /\ final' = final
  BY <1>1, <1>6 DEF Fetching!SegmentBegin, Fetching!SegmentFetched, Fetching!SegmentFailed,
     Fetching!SetSegment, Fetching!Segmented, Busy,
     CallType, Fetching!disk
<1> QED
  BY <1>2, <1>3, <1>4, <1>5, <1>6

\* A call that begins is at work.
LEMMA StartBegins ==
  ASSUME Fetching!Start
  PROVE  Fetching!Promise!Begin
<1>1. ASSUME NEW c, Fetching!Begin(c), c.pc \notin {"idle", "published"}
      PROVE  Fetching!Promise!Begin
  BY <1>1, PhaseIs DEF Fetching!Begin, Fetching!disk, Fetching!Promise!Begin
<1>2. ASSUME NEW resume \in BOOLEAN, NEW persistent \in BOOLEAN,
             Fetching!RangedStart(resume, persistent)
      PROVE  Fetching!Promise!Begin
  <2> DEFINE keep == resume /\ persistent
             c == [Fetching!Idle EXCEPT
                     !.pc = IF keep /\ ckpt # NoCheckpoint THEN "restore" ELSE "clear",
                     !.resume = resume, !.keep = keep]
  <2>1. Fetching!Begin(c)
    BY <1>2 DEF Fetching!RangedStart
  <2>2. c.pc \notin {"idle", "published"}
    BY DEF Fetching!Idle
  <2> QED
    BY <1>1, <2>1, <2>2
<1>3. ASSUME NEW persistent \in BOOLEAN, Fetching!ChunkedStart(persistent)
      PROVE  Fetching!Promise!Begin
  BY <1>1, <1>3 DEF Fetching!ChunkedStart, Fetching!Idle
<1>4. ASSUME NEW list \in Lists, NEW persistent \in BOOLEAN,
             Fetching!SegmentedStart(list, persistent)
      PROVE  Fetching!Promise!Begin
  <2> DEFINE usable == segCkpt # NoCheckpoint /\ segCkpt.list = list
                         /\ segCkpt.next <= Size[list]
             c == [Fetching!Idle EXCEPT
                     !.engine = "segmented", !.keep = persistent, !.list = list,
                     !.segments = Fetching!Pending(list),
                     !.pc = IF persistent /\ usable THEN "restore" ELSE "clear"]
  <2>1. Fetching!Begin(c)
    BY <1>4 DEF Fetching!SegmentedStart
  <2>2. c.pc \notin {"idle", "published"}
    BY DEF Fetching!Idle
  <2> QED
    BY <1>1, <2>1, <2>2
<1> QED
  BY <1>2, <1>3, <1>4 DEF Fetching!Start

\* Each step of a transfer is one of AtomicDownload, or none.
LEMMA StepRefines ==
  ASSUME FetchingIInv, Fetching!Next \/ UNCHANGED Fetching!vars
  PROVE  Fetching!Promise!Next \/ UNCHANGED Fetching!Promise!vars
<1>1. CASE Fetching!Start
  BY <1>1, StartBegins DEF Fetching!Promise!Next
<1>2. CASE Busy /\ Busy' /\ final' = final
  BY <1>2, WorkIsStutter
<1>3. CASE transfer.pc # "idle" /\ transfer' = Fetching!Idle /\ final' = final
  BY <1>3, PhaseIs, IdleIs DEF Fetching!Promise!Next, Fetching!Promise!Return
<1>4. CASE Fetching!Publish
  <2>1. transfer.pc = "publish" /\ transfer \in CallType
    BY <1>4, CallTyped DEF Fetching!Publish
  <2>2. CASE final' = staged /\ Fetching!Goto("published")
    <3>1. PICK o \in Fetching!Objects : staged = Fetching!Whole(o)
      BY <2>1 DEF FetchingIInv, Fits
    <3>2. transfer'.pc = "published"
      BY <2>1, <2>2, GotoIs, PcsAre DEF Fetching!Goto
    <3>3. Fetching!Promise!Publish(Fetching!Whole(o))
      BY <2>1, <2>2, <3>1, <3>2, PhaseIs DEF Fetching!Promise!Publish
    <3> QED
      BY <3>3 DEF Fetching!Promise!Next
  <2>3. CASE Fetching!Goto("fail") /\ UNCHANGED final
    BY <2>1, <2>3, GotoBusy, PcsAre, WorkIsStutter DEF Busy
  <2> QED
    BY <1>4, <2>2, <2>3 DEF Fetching!Publish
<1>5. CASE Fetching!Step
  BY <1>2, <1>3, <1>4, <1>5, RangedBusy, ChunkedBusy, OtherBusy DEF Fetching!Step,
     Fetching!Fail, Fetching!Succeed
<1>6. CASE Fetching!Crash
  BY <1>3, <1>6 DEF Fetching!Crash
<1>7. CASE Fetching!Change \/ Fetching!Done \/ UNCHANGED Fetching!vars
  <2>1. transfer' = transfer /\ final' = final
    BY <1>7 DEF Fetching!Change, Fetching!Done, Fetching!vars, Fetching!disk
  <2> QED
    BY <2>1, PhaseIs DEF Fetching!Promise!vars
<1> QED
  BY <1>1, <1>5, <1>6, <1>7 DEF Fetching!Next

LEMMA InitRefines == Fetching!Init => Fetching!Promise!Init
  BY PhaseIs, IdleIs DEF Fetching!Init, Fetching!Promise!Init


\* CheckpointHonest: in scenarios that are apart, what a checkpoint counts is in the
\* staged file, of the very object whose validator it names, or of the list
\* (extension_runtime_transfer.go, extension_runtime_segments.go).  For a path that is
\* always downloaded in segments, for an object that does not change, for one that
\* changes its validator under chunks, and for one without validators that is not
\* asked for in chunks, this holds after any crash, loss of power or failure of the
\* storage; a ranged transfer of an object that changes its validator keeps it only
\* while nothing interrupts the process or the storage.
THEOREM CheckpointHonestHolds ==
  ASSUME \A s \in Scenarios : Apart(s)
  PROVE  MCSpec => []CheckpointHonest
<1>1. MCInit => FetchingIInv
  BY FetchingIInvInit DEF MCInit
<1>2. FetchingIInv /\ [MCNext]_<<which, vars, scanning, following, fetching>>
        => FetchingIInv'
  BY PartStep, FetchingIInvInductive
<1>3. FetchingIInv => CheckpointHonest
  BY CheckpointHolds DEF CheckpointHonest
<1> QED
  BY <1>1, <1>2, <1>3, PTL DEF MCSpec

\* TransferAtomic: in the same scenarios, so without segments and whole downloads of
\* one path, without chunks of a changing object that has no validators, and without
\* an interruption of a ranged transfer of an object that changes its validator, the
\* transfers implement AtomicDownload: the file at the path is replaced at one instant
\* and by a whole object, and a call that reports success has replaced it
\* (reliableFileDownload, fileDownloadChunked, fileDownloadSegments).
THEOREM TransferAtomicHolds ==
  ASSUME \A s \in Scenarios : Apart(s)
  PROVE  MCSpec => TransferAtomic
<1>1. MCInit => FetchingIInv /\ Fetching!Promise!Init
  BY FetchingIInvInit, InitRefines DEF MCInit
<1>2. FetchingIInv /\ [MCNext]_<<which, vars, scanning, following, fetching>>
        => FetchingIInv'
  BY PartStep, FetchingIInvInductive
<1>3. FetchingIInv /\ [MCNext]_<<which, vars, scanning, following, fetching>>
        => [Fetching!Promise!Next]_(Fetching!Promise!vars)
  BY PartStep, StepRefines
<1> QED
  BY <1>1, <1>2, <1>3, PTL DEF MCSpec, TransferAtomic, Fetching!Atomic, Fetching!Promise!Spec
==============================================================================
