--------------------- MODULE RepositoryLookup_proofs ---------------------
(***************************************************************************)
(* Where the repository finds a prior epoch, what a write leaves in        *)
(* storage, and how a commit and a message change what is found: the       *)
(* inductive invariant RepoInv, and facts about the caches and the rows of *)
(* either provider on which the theorems of GroupStateRepository_proofs    *)
(* rest.                                                                   *)
(***************************************************************************)
EXTENDS GroupStateRepository, TLAPS

\* The deque of the in-memory provider has no id twice and none out of order only
\* if the member joins once and no write is repeated after a failed deletion of a
\* key package.
IndexedById ==
    config.backend = "SqLite" \/ (~config.may_rejoin /\ ~config.delete_may_fail)

PriorEpochs == [id : 0 .. MaxEpoch, used : SUBSET Messages]

InMemory == config.backend = "InMemory"

\* A sequence of records with consecutive ids, the last of which is e - 1
EndsBefore(recs, e) ==
    /\ recs \in Seq(PriorEpochs)
    /\ \A i \in 1 .. Len(recs) : recs[i].id = e - Len(recs) + i - 1

\* The epoch table: every row is filed under its id.
Table(eps) ==
    /\ eps \in [DOMAIN eps -> PriorEpochs]
    /\ \A id \in DOMAIN eps : eps[id].id = id

\* What storage holds when the first epoch that is not in it is e
StoredBefore(eps, e) ==
    IF InMemory THEN EndsBefore(eps, e)
    ELSE /\ \A id \in DOMAIN eps : id < e
         /\ ~config.may_rejoin /\ DOMAIN eps # {} => e - 1 \in DOMAIN eps

\* A table that is not empty has a greatest id: SELECT MAX finds a row.
HasGreatest(eps) ==
    DOMAIN eps # {} => \E max \in DOMAIN eps : \A id \in DOMAIN eps : id <= max

\* Storage never holds records that are max_epoch_retention apart.
StorageShape ==
    /\ IF InMemory THEN epochs \in Seq(PriorEpochs) /\ Len(epochs) <= max_epoch_retention
       ELSE /\ Table(epochs)
            /\ \A id \in DOMAIN epochs : id < newest
            /\ \A i, j \in DOMAIN epochs : i > j - max_epoch_retention
            /\ HasGreatest(epochs)
    /\ \A s \in snapshot : StoredBefore(epochs, s.epoch)

\* Where the ids of the three places lie when the current epoch is e
Placed(ins, ups, eps, e) ==
    /\ EndsBefore(ins, e)
    /\ ups \in Seq(PriorEpochs)
    /\ \A i \in 1 .. Len(ups) : ups[i].id < e - Len(ins)
    /\ \A i, j \in 1 .. Len(ups) : ups[i].id = ups[j].id => i = j
    /\ IF InMemory THEN EndsBefore(eps, e - Len(ins))
       ELSE Table(eps) /\ \A id \in DOMAIN eps : id < e

\* The updates are rows of storage, unless a write has stored the inserts and
\* could not delete the key package: then no other write succeeds.
CacheShape ==
    /\ Placed(inserts, updates, epochs, epoch)
    /\ inserts = <<>> => StoredBefore(epochs, epoch)
    /\ \/ write_fails(epochs, inserts)
       \/ \A i \in 1 .. Len(updates) : storage_epoch(epochs, updates[i].id) # {}

Types ==
    /\ config \in Configurations
    /\ loaded \in BOOLEAN
    /\ epoch \in 0 .. MaxEpoch /\ newest \in epoch .. MaxEpoch
    /\ used \subseteq Messages
    /\ inserts \in Seq(PriorEpochs) /\ updates \in Seq(PriorEpochs)
    /\ snapshot = {} \/ \E e \in 0 .. MaxEpoch, u \in SUBSET Messages :
                            snapshot = {[epoch |-> e, used |-> u]}
    /\ \A s \in snapshot : s.epoch <= newest
    /\ accepted \subseteq (0 .. MaxEpoch) \X Messages
    /\ durable \subseteq (0 .. MaxEpoch) \X Messages

Shape ==
    /\ Types /\ IndexedById /\ StorageShape
    /\ loaded => CacheShape
    /\ ~loaded => inserts = <<>> /\ updates = <<>>

\* Records and snapshots remember what was accepted before they were written, and
\* nothing was accepted in an epoch that is still to come.
Memory ==
    /\ LookupIsCurrent
    /\ loaded => \A e \in 0 .. MaxEpoch, m \in Messages : <<e, m>> \in accepted => e <= epoch
    /\ ~loaded => accepted = durable
    /\ \A e \in 0 .. MaxEpoch, m \in Messages : <<e, m>> \in accepted \cup durable => e <= newest
    /\ \A s \in snapshot, e \in 0 .. MaxEpoch, m \in Messages :
          <<e, m>> \in durable => e <= s.epoch /\ (e = s.epoch => m \in s.used)
    /\ \A id \in 0 .. MaxEpoch : \A prior \in storage_epoch(epochs, id) : \A m \in Messages :
          <<id, m>> \in durable => m \in prior.used

RepoInv == Shape /\ Memory

-----------------------------------------------------------------------------
(* What a lookup finds                                                     *)

\* Lookup as a function of the caches and of storage
Find(ins, ups, eps, id) ==
    LET first == {i \in 1 .. Len(ups) :
                    ups[i].id = id /\ \A j \in 1 .. i - 1 : ups[j].id # id}
    IN  IF ins # <<>> /\ id >= ins[1].id
        THEN {ins[i] : i \in {id - ins[1].id + 1} \cap (1 .. Len(ins))}
        ELSE IF first # {} THEN {ups[i] : i \in first}
        ELSE storage_epoch(eps, id)

LEMMA LookupIsFind == \A id : Lookup(id) = Find(inserts, updates, epochs, id)
BY Zenon DEF Lookup, Find, InInserts, InsertSlot, find_pending

LEMMA LookupIsFindNext ==
    config' = config => \A id : Lookup(id)' = Find(inserts', updates', epochs', id)
BY Zenon DEF Lookup, Find, InInserts, InsertSlot, find_pending, storage_epoch

LEMMA Retention == max_epoch_retention \in Nat /\ max_epoch_retention >= 1
BY StorageAssumption

LEMMA Backend == config \in Configurations => (~InMemory <=> config.backend = "SqLite")
BY StorageAssumption, Zenon DEF InMemory

LEMMA RecordFacts ==
    ASSUME NEW p \in PriorEpochs
    PROVE  /\ p.id \in 0 .. MaxEpoch /\ p.id \in Int /\ p.used \subseteq Messages
           /\ p = PriorEpoch(p.id, p.used)
BY RepositoryAssumption DEF PriorEpochs, PriorEpoch

LEMMA PriorEpochTyped ==
    ASSUME NEW id \in 0 .. MaxEpoch, NEW u \in SUBSET Messages
    PROVE  PriorEpoch(id, u) \in PriorEpochs /\ PriorEpoch(id, u).id = id
           /\ PriorEpoch(id, u).used = u
BY Zenon DEF PriorEpochs, PriorEpoch

LEMMA SeqOfFunction ==
    ASSUME NEW S, NEW n \in Nat, NEW f \in [1 .. n -> S]
    PROVE  f \in Seq(S) /\ Len(f) = n
OBVIOUS

\* get_epoch_data_index in a deque with consecutive ids leads to the record asked
\* for, or past the end.
LEMMA DequeLookup ==
    ASSUME NEW recs, NEW e \in Int, EndsBefore(recs, e), NEW id \in Int
    PROVE  InMemoryEpoch(recs, id)
              = {recs[i] : i \in {id - e + Len(recs) + 1} \cap (1 .. Len(recs))}
<1>1. Len(recs) \in Nat /\ recs \in Seq(PriorEpochs)
  BY DEF EndsBefore
<1>2. CASE recs = <<>>
  BY <1>1, <1>2 DEF InMemoryEpoch
<1>3. CASE recs # <<>>
  <2>1. Len(recs) >= 1 /\ recs[1].id = e - Len(recs)
    BY <1>1, <1>3 DEF EndsBefore
  <2>2. CASE id >= recs[1].id
    BY <2>1, <2>2, <1>1, <1>3 DEF InMemoryEpoch, get_epoch_data_index
  <2>3. CASE ~(id >= recs[1].id)
    BY <2>1, <2>3, <1>1, <1>3 DEF InMemoryEpoch, get_epoch_data_index
  <2>. QED BY <2>2, <2>3, Zenon
<1>. QED BY <1>2, <1>3, Zenon

\* Storage finds at most one record for an id, and it is the record of that id.
LEMMA StorageFacts ==
    ASSUME NEW eps, NEW e \in Int, NEW id \in Int,
           InMemory => EndsBefore(eps, e), ~InMemory => Table(eps)
    PROVE  /\ storage_epoch(eps, id) = {}
              \/ \E p \in PriorEpochs : storage_epoch(eps, id) = {p} /\ p.id = id
           /\ InMemory => (storage_epoch(eps, id) # {} <=> id \in e - Len(eps) .. e - 1)
           /\ ~InMemory => (storage_epoch(eps, id) # {} <=> id \in DOMAIN eps)
<1>1. CASE InMemory
  <2>1. storage_epoch(eps, id) = {eps[i] : i \in {id - e + Len(eps) + 1} \cap (1 .. Len(eps))}
    BY <1>1, DequeLookup DEF storage_epoch, InMemory
  <2>2. eps \in Seq(PriorEpochs) /\ Len(eps) \in Nat
    BY <1>1 DEF EndsBefore
  <2>3. CASE id \in e - Len(eps) .. e - 1
    <3>1. id - e + Len(eps) + 1 \in 1 .. Len(eps)
      BY <2>2, <2>3
    <3>2. eps[id - e + Len(eps) + 1] \in PriorEpochs /\ eps[id - e + Len(eps) + 1].id = id
      BY <3>1, <2>2, <1>1 DEF EndsBefore
    <3>. QED BY <2>1, <3>1, <3>2, <2>3, <1>1, Zenon
  <2>4. CASE id \notin e - Len(eps) .. e - 1
    <3>1. id - e + Len(eps) + 1 \notin 1 .. Len(eps)
      BY <2>2, <2>4
    <3>. QED BY <2>1, <3>1, <2>4, <1>1, Zenon
  <2>. QED BY <2>3, <2>4, Zenon
<1>2. CASE ~InMemory
  BY <1>2 DEF storage_epoch, InMemory, SqLiteEpoch, Table
<1>. QED BY <1>1, <1>2, Zenon

LEMMA PlacedFacts ==
    ASSUME NEW ins, NEW ups, NEW eps, NEW e \in Int, Placed(ins, ups, eps, e)
    PROVE  /\ ins \in Seq(PriorEpochs) /\ Len(ins) \in Nat /\ e - Len(ins) \in Int
           /\ \A i \in 1 .. Len(ins) : ins[i] \in PriorEpochs /\ ins[i].id = e - Len(ins) + i - 1
           /\ ups \in Seq(PriorEpochs) /\ Len(ups) \in Nat
           /\ \A i \in 1 .. Len(ups) : ups[i] \in PriorEpochs /\ ups[i].id \in Int
           /\ InMemory => EndsBefore(eps, e - Len(ins))
           /\ ~InMemory => Table(eps)
<1>1. /\ ins \in Seq(PriorEpochs) /\ ups \in Seq(PriorEpochs)
      /\ \A i \in 1 .. Len(ins) : ins[i].id = e - Len(ins) + i - 1
      /\ InMemory => EndsBefore(eps, e - Len(ins))
      /\ ~InMemory => Table(eps)
  BY Zenon DEF Placed, EndsBefore
<1>2. \A i \in 1 .. Len(ups) : ups[i] \in PriorEpochs
  BY <1>1
<1>. QED BY <1>1, <1>2, RecordFacts

\* An epoch is in the inserts, or in the updates, or in storage, or nowhere.
LEMMA FindForm ==
    ASSUME NEW ins, NEW ups, NEW eps, NEW e \in Int, Placed(ins, ups, eps, e), NEW id \in Int
    PROVE  /\ id \in e - Len(ins) .. e - 1 => Find(ins, ups, eps, id) = {ins[id - e + Len(ins) + 1]}
           /\ id >= e => Find(ins, ups, eps, id) = {}
           /\ \A i \in 1 .. Len(ups) : ups[i].id = id => Find(ins, ups, eps, id) = {ups[i]}
           /\ id < e - Len(ins) /\ (\A i \in 1 .. Len(ups) : ups[i].id # id)
              => Find(ins, ups, eps, id) = storage_epoch(eps, id)
<1>1. /\ ins \in Seq(PriorEpochs) /\ Len(ins) \in Nat /\ e - Len(ins) \in Int
      /\ \A i \in 1 .. Len(ins) : ins[i] \in PriorEpochs /\ ins[i].id = e - Len(ins) + i - 1
      /\ ups \in Seq(PriorEpochs) /\ Len(ups) \in Nat
      /\ \A i \in 1 .. Len(ups) : ups[i] \in PriorEpochs /\ ups[i].id \in Int
      /\ InMemory => EndsBefore(eps, e - Len(ins))
      /\ ~InMemory => Table(eps)
  BY PlacedFacts, Zenon
<1>2. ins # <<>> => Len(ins) >= 1 /\ ins[1].id = e - Len(ins)
  BY <1>1
<1>3. ins = <<>> => Len(ins) = 0
  OBVIOUS
<1>4. ASSUME id \in e - Len(ins) .. e - 1
      PROVE  Find(ins, ups, eps, id) = {ins[id - e + Len(ins) + 1]}
  <2>1. ins # <<>> /\ id >= ins[1].id
    BY <1>1, <1>2, <1>3, <1>4
  <2>2. {id - ins[1].id + 1} \cap (1 .. Len(ins)) = {id - e + Len(ins) + 1}
    BY <2>1, <1>1, <1>2, <1>4
  <2>. QED BY <2>1, <2>2, Zenon DEF Find
<1>5. ASSUME id >= e PROVE Find(ins, ups, eps, id) = {}
  <2>1. CASE ins # <<>>
    <3>1. id >= ins[1].id /\ {id - ins[1].id + 1} \cap (1 .. Len(ins)) = {}
      BY <2>1, <1>1, <1>2, <1>5
    <3>. QED BY <2>1, <3>1, Zenon DEF Find
  <2>2. CASE ins = <<>>
    <3>1. \A i \in 1 .. Len(ups) : ups[i].id # id
      BY <2>2, <1>1, <1>3, <1>5 DEF Placed
    <3>2. storage_epoch(eps, id) = {}
      <4>1. InMemory => id \notin (e - Len(ins)) - Len(eps) .. (e - Len(ins)) - 1
        BY <1>1, <1>5 DEF EndsBefore
      <4>2. ~InMemory => id \notin DOMAIN eps
        BY <1>5 DEF Placed
      <4>3. InMemory => storage_epoch(eps, id) = {}
        BY <4>1, <1>1, StorageFacts, Zenon
      <4>4. ~InMemory => storage_epoch(eps, id) = {}
        BY <4>2, <1>1, StorageFacts, Zenon
      <4>. QED BY <4>3, <4>4, Zenon
    <3>. QED BY <2>2, <3>1, <3>2, Zenon DEF Find
  <2>. QED BY <2>1, <2>2, Zenon
<1>6. ASSUME NEW i \in 1 .. Len(ups), ups[i].id = id
      PROVE  Find(ins, ups, eps, id) = {ups[i]}
  <2>1. ~(ins # <<>> /\ id >= ins[1].id)
    BY <1>6, <1>1, <1>2 DEF Placed
  <2>2. {k \in 1 .. Len(ups) : ups[k].id = id /\ \A j \in 1 .. k - 1 : ups[j].id # id} = {i}
    <3>1. \A k \in 1 .. Len(ups) : ups[k].id = id => k = i
      BY <1>6, Zenon DEF Placed
    <3>2. \A j \in 1 .. i - 1 : ups[j].id # id
      BY <3>1, <1>1
    <3>. QED BY <3>1, <3>2, <1>6, Zenon
  <2>. QED BY <2>1, <2>2, <1>6, Zenon DEF Find
<1>7. ASSUME id < e - Len(ins), \A i \in 1 .. Len(ups) : ups[i].id # id
      PROVE  Find(ins, ups, eps, id) = storage_epoch(eps, id)
  BY <1>7, <1>1, <1>2 DEF Find
<1>. QED BY <1>4, <1>5, <1>6, <1>7, Zenon

LEMMA FindInsert ==
    ASSUME NEW ins, NEW ups, NEW eps, NEW e \in Int, Placed(ins, ups, eps, e), NEW id \in Int,
           id >= e - Len(ins), id < e
    PROVE  /\ id - e + Len(ins) + 1 \in 1 .. Len(ins)
           /\ Find(ins, ups, eps, id) = {ins[id - e + Len(ins) + 1]}
<1>1. Len(ins) \in Nat
  BY PlacedFacts, Zenon
<1>2. id \in e - Len(ins) .. e - 1 /\ id - e + Len(ins) + 1 \in 1 .. Len(ins)
  BY <1>1
<1>. QED BY <1>2, FindForm

LEMMA FindNone ==
    ASSUME NEW ins, NEW ups, NEW eps, NEW e \in Int, Placed(ins, ups, eps, e), NEW id \in Int,
           id >= e
    PROVE  Find(ins, ups, eps, id) = {}
BY FindForm, Zenon

LEMMA FindUpdate ==
    ASSUME NEW ins, NEW ups, NEW eps, NEW e \in Int, Placed(ins, ups, eps, e), NEW id \in Int,
           NEW i \in 1 .. Len(ups), ups[i].id = id
    PROVE  Find(ins, ups, eps, id) = {ups[i]}
BY FindForm

LEMMA FindStored ==
    ASSUME NEW ins, NEW ups, NEW eps, NEW e \in Int, Placed(ins, ups, eps, e), NEW id \in Int,
           id < e - Len(ins), \A i \in 1 .. Len(ups) : ups[i].id # id
    PROVE  /\ Find(ins, ups, eps, id) = storage_epoch(eps, id)
           /\ Find(ins, ups, eps, id) = {}
              \/ \E p \in PriorEpochs : Find(ins, ups, eps, id) = {p} /\ p.id = id
<1>1. Find(ins, ups, eps, id) = storage_epoch(eps, id)
  BY FindForm
<1>2. e - Len(ins) \in Int /\ (InMemory => EndsBefore(eps, e - Len(ins)))
      /\ (~InMemory => Table(eps))
  BY PlacedFacts, Zenon
<1>3. storage_epoch(eps, id) = {}
      \/ \E p \in PriorEpochs : storage_epoch(eps, id) = {p} /\ p.id = id
  BY <1>2, StorageFacts, Zenon
<1>. QED BY <1>1, <1>3, Zenon

\* A lookup finds at most one record, the one of the epoch asked for, which has
\* ended.
LEMMA FindFacts ==
    ASSUME NEW ins, NEW ups, NEW eps, NEW e \in Int, Placed(ins, ups, eps, e), NEW id \in Int
    PROVE  /\ Find(ins, ups, eps, id) = {}
              \/ \E p \in PriorEpochs : Find(ins, ups, eps, id) = {p} /\ p.id = id
           /\ Find(ins, ups, eps, id) # {} => id < e
<1>1. /\ Len(ins) \in Nat
      /\ \A i \in 1 .. Len(ins) : ins[i] \in PriorEpochs /\ ins[i].id = e - Len(ins) + i - 1
      /\ \A i \in 1 .. Len(ups) : ups[i] \in PriorEpochs
  BY PlacedFacts, Zenon
<1>2. CASE id >= e - Len(ins) /\ id < e
  <2>1. /\ id - e + Len(ins) + 1 \in 1 .. Len(ins)
        /\ Find(ins, ups, eps, id) = {ins[id - e + Len(ins) + 1]}
    BY <1>2, FindInsert
  <2>2. e - Len(ins) + (id - e + Len(ins) + 1) - 1 = id
    BY <1>1
  <2>. QED BY <2>1, <2>2, <1>1, <1>2, Zenon
<1>3. CASE id >= e
  BY <1>3, FindForm, Zenon
<1>4. CASE id < e - Len(ins)
  <2>1. CASE \E i \in 1 .. Len(ups) : ups[i].id = id
    <3>1. PICK i \in 1 .. Len(ups) : ups[i].id = id
      BY <2>1, Zenon
    <3>2. Find(ins, ups, eps, id) = {ups[i]}
      BY <3>1, FindUpdate
    <3>3. id < e
      BY <1>1, <1>4
    <3>. QED BY <3>1, <3>2, <3>3, <1>1, Zenon
  <2>2. CASE \A i \in 1 .. Len(ups) : ups[i].id # id
    BY <2>2, <1>1, <1>4, FindStored
  <2>. QED BY <2>1, <2>2, Zenon
<1>. QED BY <1>1, <1>2, <1>3, <1>4

-----------------------------------------------------------------------------
(* What a write leaves in storage                                          *)

\* The records that a write drops: those max_epoch_retention or more below the
\* last epoch that it inserts.
Dropped(ins, e, id) == ins # <<>> /\ id <= e - 1 - max_epoch_retention

\* Storage and its caches, before a write that succeeds
Writable(ins, ups, eps, e) ==
    /\ Placed(ins, ups, eps, e)
    /\ \A i \in 1 .. Len(ups) : storage_epoch(eps, ups[i].id) # {}
    /\ ~write_fails(eps, ins)
    /\ InMemory => Len(eps) <= max_epoch_retention
    /\ ~InMemory => \A i, j \in DOMAIN eps : i > j - max_epoch_retention

\* update_epoch, over the stored and the inserted records of a deque
LEMMA UpdatedRecords ==
    ASSUME NEW ins, NEW ups, NEW eps, NEW e \in Int, Writable(ins, ups, eps, e), InMemory,
           NEW up, up = Updated(eps \o ins, ups)
    PROVE  /\ up \in Seq(PriorEpochs) /\ Len(up) = Len(eps) + Len(ins)
           /\ EndsBefore(up, e)
           /\ \A i \in 1 .. Len(up) : Find(ins, ups, eps, e - Len(up) + i - 1) = {up[i]}
           /\ \A id \in Int : id < e - Len(up) => Find(ins, ups, eps, id) = {}
<1> DEFINE all == eps \o ins
           n == Len(eps) + Len(ins)
<1>1. /\ ins \in Seq(PriorEpochs) /\ Len(ins) \in Nat /\ e - Len(ins) \in Int
      /\ \A i \in 1 .. Len(ins) : ins[i] \in PriorEpochs /\ ins[i].id = e - Len(ins) + i - 1
      /\ ups \in Seq(PriorEpochs) /\ Len(ups) \in Nat
      /\ \A i \in 1 .. Len(ups) : ups[i] \in PriorEpochs /\ ups[i].id \in Int
      /\ EndsBefore(eps, e - Len(ins))
  BY PlacedFacts, Zenon DEF Writable
<1>2. /\ eps \in Seq(PriorEpochs) /\ Len(eps) \in Nat
      /\ \A i \in 1 .. Len(eps) : eps[i] \in PriorEpochs /\ eps[i].id = e - n + i - 1
  BY <1>1 DEF EndsBefore
<1>3. n \in Nat /\ all \in Seq(PriorEpochs) /\ Len(all) = n
      /\ \A i \in 1 .. n : all[i] = IF i <= Len(eps) THEN eps[i] ELSE ins[i - Len(eps)]
  BY <1>1, <1>2
<1>4. \A i \in 1 .. n : all[i] \in PriorEpochs /\ all[i].id = e - n + i - 1
  <2> SUFFICES ASSUME NEW i \in 1 .. n
               PROVE  all[i] \in PriorEpochs /\ all[i].id = e - n + i - 1
    BY Zenon
  <2>1. CASE i <= Len(eps)
    BY <2>1, <1>2, <1>3
  <2>2. CASE i > Len(eps)
    <3>1. i - Len(eps) \in 1 .. Len(ins) /\ e - Len(ins) + (i - Len(eps)) - 1 = e - n + i - 1
      BY <2>2, <1>1, <1>2, <1>3
    <3>. QED BY <3>1, <2>2, <1>1, <1>2, <1>3
  <2>. QED BY <2>1, <2>2, <1>2, <1>3
<1>5. EndsBefore(all, e)
  BY <1>3, <1>4, Zenon DEF EndsBefore
<1>6. \A j \in 1 .. Len(ups) : ups[j].id >= e - n /\ ups[j].id < e - Len(ins)
  <2> SUFFICES ASSUME NEW j \in 1 .. Len(ups)
               PROVE  ups[j].id >= e - n /\ ups[j].id < e - Len(ins)
    BY Zenon
  <2>1. storage_epoch(eps, ups[j].id) # {} /\ ups[j].id < e - Len(ins)
    BY Zenon DEF Writable, Placed
  <2>2. ups[j].id \in (e - Len(ins)) - Len(eps) .. (e - Len(ins)) - 1
    BY <2>1, <1>1, StorageFacts, Zenon
  <2>. QED BY <2>1, <2>2, <1>1, <1>2
<1>7. \A i \in 1 .. n, j \in 1 .. Len(ups) :
         i \in get_epoch_data_index(all, ups[j].id) <=> ups[j].id = e - n + i - 1
  <2> SUFFICES ASSUME NEW i \in 1 .. n, NEW j \in 1 .. Len(ups)
               PROVE  i \in get_epoch_data_index(all, ups[j].id) <=> ups[j].id = e - n + i - 1
    BY Zenon
  <2>1. all # <<>> /\ all[1].id = e - n
    <3>1. n >= 1 /\ 1 \in 1 .. n
      BY <1>3
    <3>2. all[1].id = e - n + 1 - 1
      BY <3>1, <1>4, Zenon
    <3>. QED BY <3>1, <3>2, <1>3
  <2>2. get_epoch_data_index(all, ups[j].id) = {ups[j].id - (e - n) + 1}
    <3>1. ups[j].id >= e - n
      BY <1>6, Zenon
    <3> HIDE DEF all, n
    <3>. QED BY <2>1, <3>1, Zenon DEF get_epoch_data_index
  <2>3. ups[j].id \in Int /\ n \in Nat /\ i \in Int
    BY <1>1, <1>3
  <2> HIDE DEF all, n
  <2>. QED BY <2>2, <2>3
<1>8. ASSUME NEW i \in 1 .. n
      PROVE  /\ up[i] \in PriorEpochs /\ up[i].id = e - n + i - 1
             /\ Find(ins, ups, eps, e - n + i - 1) = {up[i]}
  <2> DEFINE id == e - n + i - 1
             hits == {j \in 1 .. Len(ups) : i \in get_epoch_data_index(all, ups[j].id)}
  <2>1. id \in Int /\ id < e /\ hits = {j \in 1 .. Len(ups) : ups[j].id = id}
    BY <1>3, <1>7
  <2>2. up[i] = IF hits = {} THEN all[i]
                ELSE ups[CHOOSE j \in hits : \A k \in hits : k <= j]
    BY <1>3, Zenon DEF Updated
  <2> HIDE DEF hits
  <2>3. CASE hits = {}
    <3>1. up[i] = all[i] /\ \A j \in 1 .. Len(ups) : ups[j].id # id
      BY <2>1, <2>2, <2>3, Zenon
    <3>2. CASE i <= Len(eps)
      <4>1. id < e - Len(ins) /\ all[i] = eps[i]
            /\ id - (e - Len(ins)) + Len(eps) + 1 = i
        BY <3>2, <1>1, <1>2, <1>3
      <4>2. Find(ins, ups, eps, id) = storage_epoch(eps, id)
        BY <4>1, <3>1, <2>1, FindStored DEF Writable
      <4>3. storage_epoch(eps, id) = InMemoryEpoch(eps, id)
        BY Zenon DEF storage_epoch, InMemory
      <4>4. InMemoryEpoch(eps, id) = {eps[k] : k \in {i} \cap (1 .. Len(eps))}
        <5>1. PICK d, x : d = e - Len(ins) /\ x = id
          BY Zenon
        <5>2. d \in Int /\ x \in Int /\ EndsBefore(eps, d) /\ x - d + Len(eps) + 1 = i
          BY <5>1, <4>1, <2>1, <1>1
        <5>3. InMemoryEpoch(eps, x)
                = {eps[k] : k \in {x - d + Len(eps) + 1} \cap (1 .. Len(eps))}
          BY <5>2, DequeLookup
        <5>. QED BY <5>1, <5>2, <5>3, Zenon
      <4>. QED BY <4>1, <4>2, <4>3, <4>4, <3>1, <3>2, <1>2, <1>4
    <3>3. CASE i > Len(eps)
      <4>1. id >= e - Len(ins) /\ id - e + Len(ins) + 1 = i - Len(eps)
            /\ all[i] = ins[i - Len(eps)]
        BY <3>3, <1>1, <1>2, <1>3
      <4>2. Find(ins, ups, eps, id) = {ins[id - e + Len(ins) + 1]}
        BY <4>1, <2>1, FindInsert DEF Writable
      <4>. QED BY <4>1, <4>2, <3>1, <1>4, Zenon
    <3>. QED BY <3>2, <3>3, <1>2, <1>3
  <2>4. CASE hits # {}
    <3>1. PICK j \in 1 .. Len(ups) : ups[j].id = id
      BY <2>1, <2>4, Zenon
    <3>2. hits = {j}
      BY <3>1, <2>1, Zenon DEF Writable, Placed
    <3>3. (CHOOSE k \in hits : \A l \in hits : l <= k) = j
      BY <3>2, <1>1
    <3>4. Find(ins, ups, eps, id) = {ups[j]}
      BY <3>1, <2>1, FindUpdate, SMTT(20) DEF Writable
    <3>. QED BY <3>1, <3>3, <3>4, <2>2, <2>4, <1>1, Zenon
  <2>. QED BY <2>3, <2>4, Zenon
<1>9. up \in Seq(PriorEpochs) /\ Len(up) = n
  <2>1. up = [i \in 1 .. n |-> up[i]]
    BY <1>3 DEF Updated
  <2>. QED BY <2>1, <1>3, <1>8
<1>10. EndsBefore(up, e)
  BY <1>8, <1>9, Zenon DEF EndsBefore
<1>11. ASSUME NEW id \in Int, id < e - n PROVE Find(ins, ups, eps, id) = {}
  <2>1. id < e - Len(ins) /\ \A j \in 1 .. Len(ups) : ups[j].id # id
    BY <1>11, <1>1, <1>2, <1>6
  <2>2. id \notin (e - Len(ins)) - Len(eps) .. (e - Len(ins)) - 1
    BY <1>11, <1>1, <1>2
  <2>3. storage_epoch(eps, id) = {}
    BY <2>2, <1>1, StorageFacts, Zenon
  <2>. QED BY <2>1, <2>3, FindStored DEF Writable
<1>. QED BY <1>8, <1>9, <1>10, <1>11, Zenon

\* InMemoryGroupData::update: after the trim the deque still ends before e, and
\* holds what the caches and storage held together, but for the oldest records.
LEMMA InMemoryWritten ==
    ASSUME NEW ins, NEW ups, NEW eps, NEW e \in Int, Writable(ins, ups, eps, e), InMemory,
           NEW new, new = InMemoryWrite(eps, ins, ups)
    PROVE  /\ EndsBefore(new, e) /\ Len(new) <= max_epoch_retention
           /\ ins # <<>> => Len(new) >= 1
           /\ \A id \in Int : storage_epoch(new, id) =
                 IF Dropped(ins, e, id) THEN {} ELSE Find(ins, ups, eps, id)
<1> DEFINE up == Updated(eps \o ins, ups)
           n == Len(up)
           R == max_epoch_retention
<1>1. /\ up \in Seq(PriorEpochs) /\ n = Len(eps) + Len(ins)
      /\ EndsBefore(up, e)
      /\ \A i \in 1 .. n : Find(ins, ups, eps, e - n + i - 1) = {up[i]}
      /\ \A id \in Int : id < e - n => Find(ins, ups, eps, id) = {}
  BY UpdatedRecords, Zenon
<1>2. /\ n \in Nat /\ R \in Nat /\ R >= 1 /\ Len(ins) \in Nat /\ Len(eps) \in Nat
      /\ ins \in Seq(PriorEpochs) /\ Len(eps) <= R
      /\ \A i \in 1 .. n : up[i] \in PriorEpochs /\ up[i].id = e - n + i - 1
  <2>1. Placed(ins, ups, eps, e) /\ Len(eps) <= R
    BY Zenon DEF Writable
  <2>2. Len(ins) \in Nat /\ ins \in Seq(PriorEpochs) /\ EndsBefore(eps, e - Len(ins))
    BY <2>1, PlacedFacts, Zenon
  <2>. QED BY <2>1, <2>2, <1>1, Retention DEF EndsBefore
<1>3. new = IF n - R > 0 THEN [i \in 1 .. R |-> up[i + (n - R)]] ELSE up
  BY Zenon DEF InMemoryWrite, trim_epochs
<1> HIDE DEF up, n, R
<1>4. ins = <<>> => n <= R
  BY <1>1, <1>2
<1>5. ins # <<>> => n >= 1
  BY <1>1, <1>2
<1>6. /\ new \in Seq(PriorEpochs) /\ Len(new) = IF n > R THEN R ELSE n
      /\ \A i \in 1 .. Len(new) : new[i] = up[i + (n - Len(new))]
  <2>1. CASE n > R
    <3>1. n - R > 0 /\ \A i \in 1 .. R : i + (n - R) \in 1 .. n
      BY <2>1, <1>2
    <3>2. new = [i \in 1 .. R |-> up[i + (n - R)]]
      BY <3>1, <1>3, Zenon
    <3>3. \A i \in 1 .. R : new[i] \in PriorEpochs
      BY <3>1, <3>2, <1>2, Zenon
    <3>4. Len(new) = R /\ new \in Seq(PriorEpochs)
      BY <3>2, <3>3, <1>2
    <3>. QED BY <3>2, <3>4, <2>1, Zenon
  <2>2. CASE n <= R
    <3>1. new = up /\ Len(new) = n
      BY <2>2, <1>2, <1>3 DEF n
    <3>2. \A i \in 1 .. n : i + (n - n) = i
      BY <1>2
    <3>. QED BY <3>1, <3>2, <2>2, <1>1, <1>2
  <2>. QED BY <2>1, <2>2, <1>2
<1>7. Len(new) \in Nat /\ Len(new) <= n /\ Len(new) <= R
      /\ \A i \in 1 .. Len(new) : i + (n - Len(new)) \in 1 .. n
  BY <1>2, <1>6
<1>8. EndsBefore(new, e)
  <2>1. ASSUME NEW i \in 1 .. Len(new) PROVE new[i].id = e - Len(new) + i - 1
    <3>1. new[i] = up[i + (n - Len(new))] /\ i + (n - Len(new)) \in 1 .. n
      BY <1>6, <1>7, Zenon
    <3>2. new[i].id = e - n + (i + (n - Len(new))) - 1
      BY <3>1, <1>2, Zenon
    <3>. QED BY <3>2, <1>2, <1>7
  <2>. QED BY <2>1, <1>6, Zenon DEF EndsBefore
<1>9. ASSUME NEW id \in Int
      PROVE  storage_epoch(new, id) =
                 IF Dropped(ins, e, id) THEN {} ELSE Find(ins, ups, eps, id)
  <2>1. storage_epoch(new, id) = {new[i] : i \in {id - e + Len(new) + 1} \cap (1 .. Len(new))}
    BY <1>8, DequeLookup DEF storage_epoch, InMemory
  <2>2. CASE id >= e
    <3>1. {id - e + Len(new) + 1} \cap (1 .. Len(new)) = {}
      BY <2>2, <1>7
    <3>2. Find(ins, ups, eps, id) = {}
      BY <2>2, FindForm, Zenon DEF Writable
    <3>. QED BY <2>1, <3>1, <3>2, Zenon
  <2>3. CASE id < e - Len(new)
    <3>1. {id - e + Len(new) + 1} \cap (1 .. Len(new)) = {}
      BY <2>3, <1>7
    <3>2. CASE n > R
      <4>1. ins # <<>> /\ id <= e - 1 - R
        BY <3>2, <2>3, <1>2, <1>4, <1>6
      <4>. QED BY <4>1, <3>1, <2>1, Zenon DEF Dropped, R
    <3>3. CASE n <= R
      <4>1. Find(ins, ups, eps, id) = {}
        BY <3>3, <2>3, <1>1, <1>2, <1>6
      <4>. QED BY <4>1, <3>1, <2>1, Zenon
    <3>. QED BY <3>2, <3>3, <1>2
  <2>4. CASE id \in e - Len(new) .. e - 1
    <3> DEFINE k == id - e + Len(new) + 1
    <3>1. k \in 1 .. Len(new) /\ k + (n - Len(new)) \in 1 .. n
          /\ e - n + (k + (n - Len(new))) - 1 = id
      BY <2>4, <1>2, <1>7, SMTT(20)
    <3>2. storage_epoch(new, id) = {new[k]} /\ new[k] = up[k + (n - Len(new))]
      BY <2>1, <3>1, <1>6, Zenon
    <3>3. Find(ins, ups, eps, id) = {up[k + (n - Len(new))]}
      BY <3>1, <1>1, Zenon
    <3>4. ~Dropped(ins, e, id)
      BY <2>4, <1>2, <1>7 DEF Dropped, R
    <3>. QED BY <3>2, <3>3, <3>4, Zenon
  <2>. QED BY <2>2, <2>3, <2>4, <1>7
<1>10. ins # <<>> => Len(new) >= 1
  BY <1>2, <1>5, <1>6, Zenon
<1>. QED BY <1>7, <1>8, <1>9, <1>10, Zenon DEF R

\* SqLiteGroupStateStorage::update: the table holds what the caches and the table
\* held together, but for the rows that DELETE takes away.
LEMMA SqLiteWritten ==
    ASSUME NEW ins, NEW ups, NEW eps, NEW e \in Int, Writable(ins, ups, eps, e), ~InMemory,
           config.backend = "SqLite",
           NEW new, new = SqLiteWrite(eps, ins, ups)
    PROVE  /\ Table(new)
           /\ \A id \in DOMAIN new : id < e
           /\ \A i, j \in DOMAIN new : i > j - max_epoch_retention
           /\ ins # <<>> => e - 1 \in DOMAIN new
           /\ ins = <<>> => DOMAIN new = DOMAIN eps
           /\ \A id \in Int : storage_epoch(new, id) =
                 IF Dropped(ins, e, id) THEN {} ELSE Find(ins, ups, eps, id)
<1> DEFINE mid == SqLiteInserted(eps, ins)
           rows == SqLiteUpdated(mid, ups)
           R == max_epoch_retention
<1>1. /\ ins \in Seq(PriorEpochs) /\ Len(ins) \in Nat /\ e - Len(ins) \in Int
      /\ \A i \in 1 .. Len(ins) : ins[i] \in PriorEpochs /\ ins[i].id = e - Len(ins) + i - 1
      /\ ups \in Seq(PriorEpochs) /\ Len(ups) \in Nat
      /\ \A i \in 1 .. Len(ups) : ups[i] \in PriorEpochs /\ ups[i].id \in Int
      /\ Table(eps)
  BY PlacedFacts, Zenon DEF Writable
<1>2. /\ \A j \in 1 .. Len(ups) : ups[j].id \in DOMAIN eps /\ ups[j].id < e - Len(ins)
      /\ \A i, j \in 1 .. Len(ups) : ups[i].id = ups[j].id => i = j
      /\ \A id \in DOMAIN eps : id < e /\ id \in Int
      /\ \A j \in 1 .. Len(ins) : ins[j].id \notin DOMAIN eps
      /\ \A i, j \in DOMAIN eps : i > j - R
  <2>1. \A j \in 1 .. Len(ups) : ups[j].id \in DOMAIN eps
    <3>1. \A j \in 1 .. Len(ups) : storage_epoch(eps, ups[j].id) # {} /\ ups[j].id \in Int
      BY <1>1, Zenon DEF Writable
    <3>. QED BY <3>1, <1>1, StorageFacts, Zenon
  <2>2. \A id \in DOMAIN eps : id \in Int
    BY <1>1, RecordFacts, Zenon DEF Table
  <2>3. \A j \in 1 .. Len(ins) : ins[j].id \notin DOMAIN eps
    BY Zenon DEF Writable, write_fails, InsertConflicts
  <2>. QED BY <2>1, <2>2, <2>3, Zenon DEF Writable, Placed
<1>3. /\ DOMAIN mid = DOMAIN eps \cup {ins[j].id : j \in 1 .. Len(ins)}
      /\ \A id \in DOMAIN eps : mid[id] = eps[id]
      /\ \A j \in 1 .. Len(ins) : mid[ins[j].id] = ins[j]
  <2>1. \A id \in DOMAIN eps : mid[id] = eps[id]
    BY Zenon DEF SqLiteInserted
  <2>2. DOMAIN mid = DOMAIN eps \cup {ins[j].id : j \in 1 .. Len(ins)}
    BY Zenon DEF SqLiteInserted
  <2>3. ASSUME NEW j \in 1 .. Len(ins) PROVE mid[ins[j].id] = ins[j]
    <3>1. mid[ins[j].id] = ins[CHOOSE k \in 1 .. Len(ins) : ins[k].id = ins[j].id]
      BY <1>2, Zenon DEF SqLiteInserted
    <3>2. \A k \in 1 .. Len(ins) : ins[k].id = ins[j].id => k = j
      BY <1>1
    <3>. QED BY <3>1, <3>2, Zenon
  <2>. QED BY <2>1, <2>2, <2>3, Zenon
<1> HIDE DEF mid
<1>4. ASSUME NEW id \in DOMAIN mid
      PROVE  id \in Int /\ {rows[id]} = Find(ins, ups, eps, id)
  <2> DEFINE hits == {j \in 1 .. Len(ups) : ups[j].id = id}
  <2>0. rows[id] = IF hits = {} THEN mid[id]
                   ELSE ups[CHOOSE j \in hits : \A k \in hits : k <= j]
    BY Zenon DEF SqLiteUpdated
  <2>1. CASE id \in DOMAIN eps /\ \A j \in 1 .. Len(ups) : ups[j].id # id
    <3>1. rows[id] = eps[id] /\ id \in Int /\ id < e
      BY <2>0, <2>1, <1>2, <1>3
    <3>2. id < e - Len(ins)
      <4>1. ~(id >= e - Len(ins))
        <5>1. SUFFICES ASSUME id >= e - Len(ins) PROVE FALSE
          BY Zenon
        <5>2. id - e + Len(ins) + 1 \in 1 .. Len(ins)
              /\ e - Len(ins) + (id - e + Len(ins) + 1) - 1 = id
          BY <5>1, <3>1, <1>1
        <5>. QED BY <5>2, <2>1, <1>1, <1>2
      <4>. QED BY <4>1, <3>1, <1>1
    <3>3. Find(ins, ups, eps, id) = storage_epoch(eps, id)
      BY <3>1, <3>2, <2>1, FindStored DEF Writable
    <3>4. storage_epoch(eps, id) = {eps[id]}
      BY <2>1, Zenon DEF storage_epoch, InMemory, SqLiteEpoch
    <3>. QED BY <3>1, <3>3, <3>4, Zenon
  <2>2. CASE \E j \in 1 .. Len(ups) : ups[j].id = id
    <3>1. PICK j \in 1 .. Len(ups) : ups[j].id = id
      BY <2>2, Zenon
    <3>2. hits = {j}
      BY <3>1, <1>2, Zenon
    <3>3. rows[id] = ups[j]
      <4>1. (CHOOSE k \in {j} : \A l \in {j} : l <= k) = j
        BY <1>1
      <4>. QED BY <4>1, <3>2, <2>0, Zenon
    <3>4. id \in Int /\ Find(ins, ups, eps, id) = {ups[j]}
      BY <3>1, <1>1, FindUpdate DEF Writable
    <3>. QED BY <3>3, <3>4, Zenon
  <2>3. CASE id \notin DOMAIN eps
    <3>1. PICK j \in 1 .. Len(ins) : ins[j].id = id
      BY <2>3, <1>3, Zenon
    <3>2. hits = {}
      BY <2>3, <1>2, Zenon
    <3>3. rows[id] = ins[j]
      BY <3>1, <3>2, <2>0, <1>3, Zenon
    <3>4. id \in Int /\ id >= e - Len(ins) /\ id < e /\ id - e + Len(ins) + 1 = j
      BY <3>1, <1>1
    <3>5. Find(ins, ups, eps, id) = {ins[id - e + Len(ins) + 1]}
      BY <3>4, FindInsert DEF Writable
    <3>. QED BY <3>3, <3>4, <3>5, Zenon
  <2>. QED BY <2>1, <2>2, <2>3, Zenon
<1>5. ASSUME NEW id \in Int, id \notin DOMAIN mid
      PROVE  Find(ins, ups, eps, id) = {}
  <2>1. CASE id >= e
    BY <2>1, FindForm, Zenon DEF Writable
  <2>2. CASE id >= e - Len(ins) /\ id < e
    <3>1. id - e + Len(ins) + 1 \in 1 .. Len(ins)
          /\ e - Len(ins) + (id - e + Len(ins) + 1) - 1 = id
      BY <2>2, <1>1
    <3>. QED BY <3>1, <1>1, <1>3, <1>5, Zenon
  <2>3. CASE id < e - Len(ins)
    <3>1. \A j \in 1 .. Len(ups) : ups[j].id # id
      BY <1>2, <1>3, <1>5, Zenon
    <3>2. storage_epoch(eps, id) = {}
      BY <1>3, <1>5, Zenon DEF storage_epoch, InMemory, SqLiteEpoch
    <3>. QED BY <2>3, <3>1, <3>2, FindStored DEF Writable
  <2>. QED BY <2>1, <2>2, <2>3, <1>1
<1>6. /\ DOMAIN new = {id \in DOMAIN mid : ~Dropped(ins, e, id)}
      /\ \A id \in DOMAIN new : new[id] = rows[id]
  <2>1. DOMAIN rows = DOMAIN mid
    BY Zenon DEF SqLiteUpdated
  <2>2. ins # <<>> => ins[Len(ins)].id = e - 1
    BY <1>1
  <2>3. \A id : (ins # <<>> => ~Deleted(id, ins[Len(ins)].id)) <=> ~Dropped(ins, e, id)
    BY <2>2, Zenon DEF Deleted, Dropped
  <2>4. new = [id \in {id \in DOMAIN rows :
                 ins # <<>> => ~Deleted(id, ins[Len(ins)].id)} |-> rows[id]]
    BY Zenon DEF SqLiteWrite, mid
  <2> HIDE DEF rows
  <2>. QED BY <2>1, <2>3, <2>4, Zenon
<1> HIDE DEF rows
<1>7. ASSUME NEW id \in DOMAIN new
      PROVE  /\ new[id] \in PriorEpochs /\ new[id].id = id /\ id \in Int /\ id < e
             /\ {new[id]} = Find(ins, ups, eps, id)
  <2>1. id \in Int /\ {new[id]} = Find(ins, ups, eps, id)
    BY <1>4, <1>6, Zenon
  <2>2. PICK p \in PriorEpochs : Find(ins, ups, eps, id) = {p} /\ p.id = id
    BY <2>1, FindFacts DEF Writable
  <2>3. id < e
    BY <2>1, FindFacts, Zenon DEF Writable
  <2>. QED BY <2>1, <2>2, <2>3, Zenon
<1>8. Table(new) /\ \A id \in DOMAIN new : id < e
  <2>1. new = [id \in DOMAIN new |-> new[id]]
    BY Zenon DEF SqLiteWrite
  <2>. QED BY <2>1, <1>7, Zenon DEF Table
<1>9. ins = <<>> => DOMAIN new = DOMAIN eps
  BY <1>3, <1>6 DEF Dropped
<1>10. \A i, j \in DOMAIN new : i > j - R
  <2>1. CASE ins = <<>>
    BY <2>1, <1>9, <1>2, Zenon
  <2>2. CASE ins # <<>>
    <3>1. \A i \in DOMAIN new : i \in Int /\ i < e /\ ~(i <= e - 1 - R)
      BY <2>2, <1>6, <1>7, Zenon DEF Dropped
    <3>. QED BY <3>1, Retention
  <2>. QED BY <2>1, <2>2, Zenon
<1>11. ins # <<>> => e - 1 \in DOMAIN new
  <2> SUFFICES ASSUME ins # <<>> PROVE e - 1 \in DOMAIN new
    BY Zenon
  <2>1. Len(ins) \in 1 .. Len(ins) /\ ins[Len(ins)].id = e - 1
    <3>1. Len(ins) \in Nat /\ Len(ins) # 0
      BY <1>1
    <3>2. Len(ins) \in 1 .. Len(ins)
      BY <3>1
    <3>3. ins[Len(ins)].id = e - Len(ins) + Len(ins) - 1
      BY <3>2, <1>1, Zenon
    <3>. QED BY <3>1, <3>2, <3>3
  <2>2. e - 1 \in DOMAIN mid
    BY <2>1, <1>3, Zenon
  <2>3. ~Dropped(ins, e, e - 1)
    BY Retention DEF Dropped
  <2>. QED BY <2>2, <2>3, <1>6, Zenon
<1>12. ASSUME NEW id \in Int
       PROVE  storage_epoch(new, id) =
                 IF Dropped(ins, e, id) THEN {} ELSE Find(ins, ups, eps, id)
  <2>1. storage_epoch(new, id) = {new[i] : i \in {id} \cap DOMAIN new}
    BY Zenon DEF storage_epoch, InMemory, SqLiteEpoch
  <2>2. CASE id \in DOMAIN new
    BY <2>1, <2>2, <1>6, <1>7
  <2>3. CASE id \notin DOMAIN new
    BY <2>1, <2>3, <1>5, <1>6
  <2>. QED BY <2>2, <2>3, Zenon
<1>. QED BY <1>8, <1>9, <1>10, <1>11, <1>12, Zenon

-----------------------------------------------------------------------------
(* What the operations of the repository do to lookups                     *)

\* insert adds the epoch that ends, and hides no other.
LEMMA InsertFinds ==
    ASSUME NEW ins, NEW ups, NEW eps, NEW e \in Int, Placed(ins, ups, eps, e),
           NEW r \in PriorEpochs, r.id = e
    PROVE  /\ Placed(Append(ins, r), ups, eps, e + 1)
           /\ \A id \in Int : Find(Append(ins, r), ups, eps, id)
                                 = IF id = e THEN {r} ELSE Find(ins, ups, eps, id)
<1> DEFINE new == Append(ins, r)
           n == Len(ins)
<1>1. /\ ins \in Seq(PriorEpochs) /\ n \in Nat /\ e - n \in Int
      /\ \A i \in 1 .. n : ins[i] \in PriorEpochs /\ ins[i].id = e - n + i - 1
      /\ \A i \in 1 .. Len(ups) : ups[i] \in PriorEpochs /\ ups[i].id \in Int
  BY PlacedFacts, Zenon
<1>2. /\ new \in Seq(PriorEpochs) /\ Len(new) = n + 1 /\ new[n + 1] = r
      /\ \A i \in 1 .. n : new[i] = ins[i]
  BY <1>1
<1> HIDE DEF new
<1>3. e + 1 \in Int /\ (e + 1) - Len(new) = e - n
  BY <1>1, <1>2
<1>4. Placed(new, ups, eps, e + 1)
  <2>1. \A i \in 1 .. Len(new) : new[i].id = (e + 1) - Len(new) + i - 1
    <3> SUFFICES ASSUME NEW i \in 1 .. n + 1
                 PROVE  new[i].id = e - n + i - 1
      BY <1>2, <1>3, Zenon
    <3>1. CASE i \in 1 .. n
      BY <3>1, <1>1, <1>2, Zenon
    <3>2. CASE i = n + 1
      BY <3>2, <1>1, <1>2
    <3>. QED BY <3>1, <3>2, <1>1
  <2>2. EndsBefore(new, e + 1)
    BY <2>1, <1>2, Zenon DEF EndsBefore
  <2>3. ~InMemory => \A id \in DOMAIN eps : id \in Int /\ id < e
    BY RecordFacts, Zenon DEF Placed, Table
  <2>4. /\ ups \in Seq(PriorEpochs)
        /\ \A i \in 1 .. Len(ups) : ups[i].id < (e + 1) - Len(new)
        /\ \A i, j \in 1 .. Len(ups) : ups[i].id = ups[j].id => i = j
        /\ InMemory => EndsBefore(eps, (e + 1) - Len(new))
        /\ ~InMemory => Table(eps)
    BY <1>3, Zenon DEF Placed
  <2>5. ~InMemory => \A id \in DOMAIN eps : id < e + 1
    BY <2>3
  <2>. QED BY <2>2, <2>4, <2>5, Zenon DEF Placed
<1>5. ASSUME NEW id \in Int
      PROVE  Find(new, ups, eps, id) = IF id = e THEN {r} ELSE Find(ins, ups, eps, id)
  <2>1. CASE id > e
    <3>1. id >= e + 1 /\ id >= e
      BY <2>1
    <3>2. Find(new, ups, eps, id) = {}
      BY <3>1, <1>3, <1>4, FindNone, Zenon
    <3>3. Find(ins, ups, eps, id) = {}
      BY <3>1, FindNone, Zenon
    <3>. QED BY <3>2, <3>3, <2>1
  <2>2. CASE id = e
    <3>1. id >= (e + 1) - Len(new) /\ id < e + 1 /\ id - (e + 1) + Len(new) + 1 = n + 1
      BY <2>2, <1>1, <1>2
    <3>2. Find(new, ups, eps, id) = {new[id - (e + 1) + Len(new) + 1]}
      BY <3>1, <1>3, <1>4, FindInsert
    <3>. QED BY <3>1, <3>2, <2>2, <1>2, Zenon
  <2>3. CASE id >= e - n /\ id < e
    <3>1. id >= (e + 1) - Len(new) /\ id < e + 1
          /\ id - (e + 1) + Len(new) + 1 = id - e + n + 1
      BY <2>3, <1>1, <1>2
    <3>2. Find(new, ups, eps, id) = {new[id - (e + 1) + Len(new) + 1]}
      BY <3>1, <1>3, <1>4, FindInsert
    <3>3. id - e + n + 1 \in 1 .. n /\ Find(ins, ups, eps, id) = {ins[id - e + n + 1]}
      BY <2>3, FindInsert
    <3>. QED BY <3>1, <3>2, <3>3, <2>3, <1>2
  <2>4. CASE id < e - n
    <3>1. CASE \E i \in 1 .. Len(ups) : ups[i].id = id
      <4>1. PICK i \in 1 .. Len(ups) : ups[i].id = id
        BY <3>1, Zenon
      <4>2. Find(ins, ups, eps, id) = {ups[i]} /\ Find(new, ups, eps, id) = {ups[i]}
        BY <4>1, <1>3, <1>4, FindUpdate
      <4>. QED BY <4>2, <2>4, <1>1
    <3>2. CASE \A i \in 1 .. Len(ups) : ups[i].id # id
      <4>1. Find(ins, ups, eps, id) = storage_epoch(eps, id)
        BY <3>2, <2>4, FindStored
      <4>2. id < (e + 1) - Len(new)
        BY <2>4, <1>3, Zenon
      <4>3. Find(new, ups, eps, id) = storage_epoch(eps, id)
        BY <4>2, <3>2, <1>3, <1>4, FindStored
      <4>. QED BY <4>1, <4>3, <2>4, <1>1
    <3>. QED BY <3>1, <3>2, Zenon
  <2>. QED BY <2>1, <2>2, <2>3, <2>4, <1>1
<1>. QED BY <1>4, <1>5, Zenon DEF new

\* A record of the inserts is replaced in its slot.
Replaced(ins, new, k, r) ==
    /\ k \in 1 .. Len(ins) /\ r \in PriorEpochs /\ r.id = ins[k].id
    /\ new \in Seq(PriorEpochs) /\ Len(new) = Len(ins)
    /\ \A i \in 1 .. Len(ins) : new[i] = IF i = k THEN r ELSE ins[i]

LEMMA InsertTouched ==
    ASSUME NEW ins, NEW ups, NEW eps, NEW e \in Int, Placed(ins, ups, eps, e),
           NEW new, NEW k, NEW r, Replaced(ins, new, k, r)
    PROVE  /\ Placed(new, ups, eps, e)
           /\ \A i \in 1 .. Len(ins) : new[i].id = ins[i].id
           /\ \A id \in Int : Find(new, ups, eps, id)
                                 = IF id = r.id THEN {r} ELSE Find(ins, ups, eps, id)
<1> DEFINE n == Len(ins)
<1>1. /\ ins \in Seq(PriorEpochs) /\ n \in Nat /\ e - n \in Int
      /\ \A i \in 1 .. n : ins[i] \in PriorEpochs /\ ins[i].id = e - n + i - 1
      /\ \A i \in 1 .. Len(ups) : ups[i] \in PriorEpochs /\ ups[i].id \in Int
  BY PlacedFacts, Zenon
<1>2. /\ k \in 1 .. n /\ r \in PriorEpochs /\ r.id = ins[k].id
      /\ new \in Seq(PriorEpochs) /\ Len(new) = n
      /\ \A i \in 1 .. n : new[i] = IF i = k THEN r ELSE ins[i]
  BY Zenon DEF Replaced
<1>3. \A i \in 1 .. n : new[i].id = ins[i].id
  BY <1>2, Zenon
<1>4. Placed(new, ups, eps, e)
  <2>1. EndsBefore(new, e)
    BY <1>1, <1>2, <1>3, Zenon DEF EndsBefore
  <2>. QED BY <2>1, <1>2, Zenon DEF Placed
<1>5. r.id = e - n + k - 1
  BY <1>1, <1>2, Zenon
<1>6. ASSUME NEW id \in Int
      PROVE  Find(new, ups, eps, id) = IF id = r.id THEN {r} ELSE Find(ins, ups, eps, id)
  <2>1. CASE id >= e
    <3>1. id # r.id
      BY <2>1, <1>1, <1>2, <1>5
    <3>2. Find(new, ups, eps, id) = {}
      BY <2>1, <1>4, FindNone, Zenon
    <3>3. Find(ins, ups, eps, id) = {}
      BY <2>1, FindNone, Zenon
    <3>. QED BY <3>1, <3>2, <3>3, Zenon
  <2>2. CASE id >= e - n /\ id < e
    <3>1. id - e + n + 1 \in 1 .. n /\ Find(ins, ups, eps, id) = {ins[id - e + n + 1]}
      BY <2>2, FindInsert
    <3>2. Find(new, ups, eps, id) = {new[id - e + n + 1]}
      <4>1. id >= e - Len(new) /\ id < e /\ Len(new) = n
        BY <2>2, <1>2, Zenon
      <4>2. Find(new, ups, eps, id) = {new[id - e + Len(new) + 1]}
        BY <4>1, <1>4, FindInsert, SMTT(20)
      <4>. QED BY <4>1, <4>2, Zenon
    <3>3. id - e + n + 1 = k <=> id = r.id
      BY <1>1, <1>2, <1>5
    <3>. QED BY <3>1, <3>2, <3>3, <1>2, Zenon
  <2>3. CASE id < e - n
    <3>1. id # r.id /\ id < e - Len(new)
      BY <2>3, <1>1, <1>2, <1>5
    <3>2. CASE \E i \in 1 .. Len(ups) : ups[i].id = id
      <4>1. PICK i \in 1 .. Len(ups) : ups[i].id = id
        BY <3>2, Zenon
      <4>2. Find(ins, ups, eps, id) = {ups[i]} /\ Find(new, ups, eps, id) = {ups[i]}
        BY <4>1, <1>4, FindUpdate
      <4>. QED BY <4>2, <3>1, Zenon
    <3>3. CASE \A i \in 1 .. Len(ups) : ups[i].id # id
      <4>1. Find(ins, ups, eps, id) = storage_epoch(eps, id)
        BY <3>3, <2>3, FindStored
      <4>2. Find(new, ups, eps, id) = storage_epoch(eps, id)
        BY <3>1, <3>3, <1>4, FindStored
      <4>. QED BY <4>1, <4>2, <3>1, Zenon
    <3>. QED BY <3>2, <3>3, Zenon
  <2>. QED BY <2>1, <2>2, <2>3, <1>1
<1>. QED BY <1>2, <1>3, <1>4, <1>6, Zenon

\* A record of the updates is replaced, or one is added.
Updates(ups, new, k, r) ==
    /\ r \in PriorEpochs /\ new \in Seq(PriorEpochs)
    /\ k \in 1 .. Len(new) /\ new[k] = r
    /\ \A i \in 1 .. Len(new) : i # k => i \in 1 .. Len(ups) /\ new[i] = ups[i]
    /\ \A i \in 1 .. Len(ups) : i # k => i \in 1 .. Len(new) /\ ups[i].id # r.id
    /\ k \in 1 .. Len(ups) => ups[k].id = r.id

LEMMA UpdateTouched ==
    ASSUME NEW ins, NEW ups, NEW eps, NEW e \in Int, Placed(ins, ups, eps, e),
           NEW new, NEW k, NEW r, Updates(ups, new, k, r), r.id < e - Len(ins)
    PROVE  /\ Placed(ins, new, eps, e)
           /\ \A id \in Int : Find(ins, new, eps, id)
                                 = IF id = r.id THEN {r} ELSE Find(ins, ups, eps, id)
<1>1. /\ Len(ins) \in Nat /\ e - Len(ins) \in Int
      /\ \A i \in 1 .. Len(ups) : ups[i] \in PriorEpochs /\ ups[i].id \in Int
      /\ \A i \in 1 .. Len(ups) : ups[i].id < e - Len(ins)
      /\ \A i, j \in 1 .. Len(ups) : ups[i].id = ups[j].id => i = j
  BY PlacedFacts, Zenon DEF Placed
<1>0. /\ k \in 1 .. Len(new) /\ new[k] = r /\ r \in PriorEpochs /\ new \in Seq(PriorEpochs)
      /\ \A i \in 1 .. Len(new) : i # k => i \in 1 .. Len(ups) /\ new[i] = ups[i]
      /\ \A i \in 1 .. Len(ups) : i # k => i \in 1 .. Len(new) /\ ups[i].id # r.id
      /\ k \in 1 .. Len(ups) => ups[k].id = r.id
  BY Zenon DEF Updates
<1>2. /\ \A i \in 1 .. Len(new) : new[i].id < e - Len(ins)
      /\ \A i, j \in 1 .. Len(new) : new[i].id = new[j].id => i = j
  <2>1. ASSUME NEW i \in 1 .. Len(new) PROVE new[i].id < e - Len(ins)
    BY <1>0, <1>1, Zenon
  <2>2. ASSUME NEW i \in 1 .. Len(new), NEW j \in 1 .. Len(new), new[i].id = new[j].id
        PROVE  i = j
    <3>1. CASE i = k \/ j = k
      BY <2>2, <3>1, <1>0, Zenon
    <3>2. CASE i # k /\ j # k
      BY <2>2, <3>2, <1>0, <1>1, Zenon
    <3>. QED BY <3>1, <3>2, Zenon
  <2>. QED BY <2>1, <2>2, Zenon
<1>3. Placed(ins, new, eps, e)
  BY <1>0, <1>2, Zenon DEF Placed
<1>4. r.id \in Int
  BY <1>0, RecordFacts, Zenon
<1>5. ASSUME NEW id \in Int
      PROVE  Find(ins, new, eps, id) = IF id = r.id THEN {r} ELSE Find(ins, ups, eps, id)
  <2>1. CASE id >= e
    <3>1. id # r.id
      BY <2>1, <1>1, <1>4
    <3>2. Find(ins, new, eps, id) = {}
      BY <2>1, <1>3, FindNone, Zenon
    <3>3. Find(ins, ups, eps, id) = {}
      BY <2>1, FindNone, Zenon
    <3>. QED BY <3>1, <3>2, <3>3, Zenon
  <2>2. CASE id >= e - Len(ins) /\ id < e
    <3>1. id # r.id
      BY <2>2, <1>1, <1>4
    <3>2. Find(ins, ups, eps, id) = {ins[id - e + Len(ins) + 1]}
      BY <2>2, FindInsert
    <3>3. Find(ins, new, eps, id) = {ins[id - e + Len(ins) + 1]}
      BY <2>2, <1>3, FindInsert
    <3>. QED BY <3>1, <3>2, <3>3, Zenon
  <2>3. CASE id = r.id
    <3>1. Find(ins, new, eps, id) = {new[k]}
      BY <2>3, <1>0, <1>3, FindUpdate
    <3>. QED BY <3>1, <2>3, <1>0, Zenon
  <2>4. CASE id < e - Len(ins) /\ id # r.id
    <3>1. CASE \E i \in 1 .. Len(ups) : ups[i].id = id
      <4>1. PICK i \in 1 .. Len(ups) : ups[i].id = id
        BY <3>1, Zenon
      <4>2. i # k /\ i \in 1 .. Len(new) /\ new[i] = ups[i]
        BY <4>1, <2>4, <1>0, Zenon
      <4>3. Find(ins, ups, eps, id) = {ups[i]}
        BY <4>1, FindUpdate
      <4>4. Find(ins, new, eps, id) = {new[i]}
        BY <4>1, <4>2, <1>3, FindUpdate
      <4>. QED BY <4>2, <4>3, <4>4, <2>4, Zenon
    <3>2. CASE \A i \in 1 .. Len(ups) : ups[i].id # id
      <4>1. \A i \in 1 .. Len(new) : new[i].id # id
        BY <3>2, <2>4, <1>0, Zenon
      <4>2. Find(ins, ups, eps, id) = storage_epoch(eps, id)
        BY <3>2, <2>4, FindStored
      <4>3. Find(ins, new, eps, id) = storage_epoch(eps, id)
        BY <4>1, <2>4, <1>3, FindStored
      <4>. QED BY <4>2, <4>3, <2>4, Zenon
    <3>. QED BY <3>1, <3>2, Zenon
  <2>. QED BY <2>1, <2>2, <2>3, <2>4, <1>1
<1>. QED BY <1>3, <1>5, Zenon

-----------------------------------------------------------------------------
(* A commit and a message keep the shape of caches and storage             *)

LEMMA ConfigStays ==
    ASSUME config' = config
    PROVE  /\ InMemory' <=> InMemory
           /\ IndexedById' <=> IndexedById
           /\ \A eps, e : StoredBefore(eps, e)' <=> StoredBefore(eps, e)
           /\ \A ins, ups, eps, e : Placed(ins, ups, eps, e)' <=> Placed(ins, ups, eps, e)
           /\ \A eps, ins : write_fails(eps, ins)' <=> write_fails(eps, ins)
           /\ \A eps, id : storage_epoch(eps, id)' = storage_epoch(eps, id)
BY DEF InMemory, IndexedById, StoredBefore, Placed, write_fails, storage_epoch

LEMMA LoadedFacts ==
    ASSUME Shape, loaded
    PROVE  /\ Placed(inserts, updates, epochs, epoch)
           /\ epoch \in Int /\ epoch \in 0 .. MaxEpoch /\ newest \in Int /\ epoch <= newest
           /\ MaxEpoch \in Nat /\ newest \in 0 .. MaxEpoch
           /\ inserts \in Seq(PriorEpochs) /\ Len(inserts) \in Nat
           /\ updates \in Seq(PriorEpochs) /\ Len(updates) \in Nat
           /\ \A i \in 1 .. Len(inserts) : inserts[i] \in PriorEpochs
                                            /\ inserts[i].id = epoch - Len(inserts) + i - 1
           /\ \A i \in 1 .. Len(updates) : updates[i] \in PriorEpochs /\ updates[i].id \in Int
<1>1. Placed(inserts, updates, epochs, epoch)
  BY Zenon DEF Shape, CacheShape
<1>2. epoch \in Int /\ epoch \in 0 .. MaxEpoch /\ newest \in Int /\ epoch <= newest
      /\ MaxEpoch \in Nat /\ newest \in 0 .. MaxEpoch
  BY RepositoryAssumption DEF Shape, Types
<1>. QED BY <1>1, <1>2, PlacedFacts, Zenon

\* What neither changes the caches nor storage preserves their shape.
LEMMA ShapeStays ==
    ASSUME Shape, UNCHANGED <<config, loaded, epoch, inserts, updates, epochs, snapshot, newest>>,
           used' \subseteq Messages, accepted' \subseteq (0 .. MaxEpoch) \X Messages,
           durable' \subseteq (0 .. MaxEpoch) \X Messages
    PROVE  Shape' /\ \A id : Lookup(id)' = Lookup(id)
<1>1. \A id : Lookup(id)' = Lookup(id)
  BY LookupIsFind, LookupIsFindNext, Zenon
<1>2. Types'
  BY Zenon DEF Shape, Types
<1>3. IndexedById' /\ StorageShape'
  BY ConfigStays, Zenon DEF Shape, StorageShape
<1>4. CacheShape' <=> CacheShape
  BY ConfigStays, Zenon DEF CacheShape
<1>. QED BY <1>1, <1>2, <1>3, <1>4, Zenon DEF Shape

LEMMA CommitShape ==
    ASSUME Shape, ApplyCommit
    PROVE  /\ Shape'
           /\ \A id \in Int : Lookup(id)' =
                 IF id = epoch THEN {PriorEpoch(epoch, used)} ELSE Lookup(id)
<1> DEFINE r == PriorEpoch(epoch, used)
<1>1. /\ loaded /\ loaded' /\ epoch < MaxEpoch /\ epoch' = epoch + 1 /\ inserts' = Append(inserts, r)
      /\ used' = {} /\ newest' = (IF epoch' > newest THEN epoch' ELSE newest)
      /\ config' = config /\ UNCHANGED <<updates, epochs, snapshot, accepted, durable>>
  BY Zenon DEF ApplyCommit, insert, storage
<1>2. /\ Placed(inserts, updates, epochs, epoch)
      /\ epoch \in Int /\ epoch \in 0 .. MaxEpoch /\ newest \in Int /\ epoch <= newest
      /\ MaxEpoch \in Nat /\ inserts \in Seq(PriorEpochs) /\ Len(inserts) \in Nat
      /\ newest \in 0 .. MaxEpoch
  BY <1>1, LoadedFacts, Zenon
<1>3. r \in PriorEpochs /\ r.id = epoch
  BY <1>2, PriorEpochTyped, Zenon DEF Shape, Types
<1> HIDE DEF r
<1>4. /\ Placed(inserts', updates, epochs, epoch + 1)
      /\ \A id \in Int : Find(inserts', updates, epochs, id)
                            = IF id = epoch THEN {r} ELSE Find(inserts, updates, epochs, id)
  BY <1>1, <1>2, <1>3, InsertFinds
<1>5. \A id \in Int : Lookup(id)' = IF id = epoch THEN {r} ELSE Lookup(id)
  BY <1>1, <1>4, LookupIsFind, LookupIsFindNext, Zenon
<1>6. /\ inserts' \in Seq(PriorEpochs) /\ Len(inserts') = Len(inserts) + 1 /\ inserts' # <<>>
      /\ \A i \in 1 .. Len(inserts) : inserts'[i] = inserts[i]
  BY <1>1, <1>2, <1>3
<1>7. newest' \in Int /\ newest <= newest' /\ newest' \in epoch' .. MaxEpoch
      /\ epoch' \in 0 .. MaxEpoch
  BY <1>1, <1>2
<1>8. Types'
  <2>1. \A s \in snapshot : s.epoch \in Int
    BY DEF Shape, Types
  <2>2. \A s \in snapshot' : s.epoch <= newest'
    BY <2>1, <1>1, <1>2, <1>7 DEF Shape, Types
  <2>. QED BY <2>2, <1>1, <1>6, <1>7, Zenon DEF Shape, Types
<1>9. StorageShape'
  <2>1. ~InMemory => \A id \in DOMAIN epochs : id < newest'
    <3>1. ~InMemory => \A id \in DOMAIN epochs : id \in Int /\ id < newest
      BY RecordFacts, Zenon DEF Shape, StorageShape, Table
    <3>. QED BY <3>1, <1>2, <1>7
  <2>. QED BY <2>1, <1>1, ConfigStays, Zenon DEF Shape, StorageShape
<1>10. CacheShape'
  <2>1. Placed(inserts, updates, epochs, epoch)'
    BY <1>1, <1>4, ConfigStays, Zenon
  <2>2. write_fails(epochs, inserts) => write_fails(epochs, inserts')
    <3>1. \A i \in 1 .. Len(inserts) : i \in 1 .. Len(inserts')
      BY <1>2, <1>6
    <3>. QED BY <3>1, <1>6, Zenon DEF write_fails, InsertConflicts
  <2>3. \/ write_fails(epochs, inserts')
        \/ \A i \in 1 .. Len(updates) : storage_epoch(epochs, updates[i].id) # {}
    BY <2>2, <1>1, Zenon DEF Shape, CacheShape
  <2>. QED BY <2>1, <2>3, <1>1, <1>6, ConfigStays, Zenon DEF CacheShape
<1>11. IndexedById'
  BY <1>1, ConfigStays, Zenon DEF Shape
<1>. QED BY <1>1, <1>5, <1>8, <1>9, <1>10, <1>11, Zenon DEF Shape, r

\* get_epoch_mut hands out the record that a lookup finds, from whichever place,
\* and the next lookup of that epoch finds what became of it.
LEMMA TouchShape ==
    ASSUME Shape, loaded, NEW id \in 0 .. MaxEpoch, NEW u \in SUBSET Messages,
           Lookup(id) # {}, get_epoch_mut(id, u),
           UNCHANGED <<config, loaded, epoch, epochs, snapshot, newest>>,
           used' \subseteq Messages, accepted' \subseteq (0 .. MaxEpoch) \X Messages,
           durable' \subseteq (0 .. MaxEpoch) \X Messages
    PROVE  /\ Shape'
           /\ \A j \in Int : Lookup(j)' = IF j = id THEN {PriorEpoch(id, u)} ELSE Lookup(j)
<1> DEFINE r == PriorEpoch(id, u)
<1>1. /\ Placed(inserts, updates, epochs, epoch)
      /\ epoch \in Int /\ MaxEpoch \in Nat /\ id \in Int
      /\ inserts \in Seq(PriorEpochs) /\ Len(inserts) \in Nat
      /\ updates \in Seq(PriorEpochs) /\ Len(updates) \in Nat
      /\ \A i \in 1 .. Len(inserts) : inserts[i] \in PriorEpochs
                                       /\ inserts[i].id = epoch - Len(inserts) + i - 1
      /\ \A i \in 1 .. Len(updates) : updates[i] \in PriorEpochs /\ updates[i].id \in Int
  BY LoadedFacts
<1>2. r \in PriorEpochs /\ r.id = id /\ r.used = u
  BY PriorEpochTyped, Zenon
<1>3. inserts # <<>> => Len(inserts) >= 1 /\ inserts[1].id = epoch - Len(inserts)
  BY <1>1
<1>4. /\ Placed(inserts', updates', epochs, epoch)
      /\ inserts' \in Seq(PriorEpochs) /\ updates' \in Seq(PriorEpochs)
      /\ \A j \in Int : Find(inserts', updates', epochs, j)
                           = IF j = id THEN {r} ELSE Find(inserts, updates, epochs, j)
      /\ Len(inserts') = Len(inserts)
      /\ \A i \in 1 .. Len(inserts) : inserts'[i].id = inserts[i].id
      /\ \A i \in 1 .. Len(updates') :
            \/ i \in 1 .. Len(updates) /\ updates'[i].id = updates[i].id
            \/ storage_epoch(epochs, updates'[i].id) # {}
  <2>1. CASE InInserts(id)
    <3> DEFINE k == id - inserts[1].id + 1
    <3>1. /\ inserts' = [i \in 1 .. Len(inserts) |->
                 IF i \in InsertSlot(id) THEN PriorEpoch(inserts[i].id, u) ELSE inserts[i]]
          /\ updates' = updates
      BY <2>1, Zenon DEF get_epoch_mut
    <3>2. InsertSlot(id) # {}
      BY <2>1, Zenon DEF Lookup
    <3>3. k \in 1 .. Len(inserts) /\ InsertSlot(id) = {k}
      BY <3>2, Zenon DEF InsertSlot
    <3>4. inserts[k].id = id
      <4>1. k = id - (epoch - Len(inserts)) + 1
        BY <2>1, <1>3, Zenon DEF InInserts
      <4>2. inserts[k].id = epoch - Len(inserts) + k - 1
        BY <3>3, <1>1, Zenon
      <4> HIDE DEF k
      <4>. QED BY <4>1, <4>2, <1>1
    <3> HIDE DEF k
    <3>5. \A i \in 1 .. Len(inserts) : inserts'[i] = IF i = k THEN r ELSE inserts[i]
      BY <3>1, <3>3, <3>4, Zenon
    <3>6. inserts' \in Seq(PriorEpochs) /\ Len(inserts') = Len(inserts)
      <4>1. DOMAIN inserts' = 1 .. Len(inserts) /\ inserts' = [i \in DOMAIN inserts' |-> inserts'[i]]
        BY <3>1, Zenon
      <4>2. \A i \in 1 .. Len(inserts) : inserts'[i] \in PriorEpochs
        BY <3>5, <1>1, <1>2, Zenon
      <4>3. inserts' \in [1 .. Len(inserts) -> PriorEpochs]
        BY <4>1, <4>2, Zenon
      <4>. QED BY <4>3, <1>1, SeqOfFunction, Zenon
    <3> HIDE DEF r
    <3>7. /\ Placed(inserts', updates, epochs, epoch)
          /\ \A i \in 1 .. Len(inserts) : inserts'[i].id = inserts[i].id
          /\ \A j \in Int : Find(inserts', updates, epochs, j)
                                 = IF j = r.id THEN {r} ELSE Find(inserts, updates, epochs, j)
      <4>1. Replaced(inserts, inserts', k, r)
        BY <3>3, <3>4, <3>5, <3>6, <1>2, Zenon DEF Replaced
      <4>. QED BY <4>1, <1>1, InsertTouched
    <3>. QED BY <3>1, <3>6, <3>7, <1>1, <1>2, Zenon
  <2>2. CASE ~InInserts(id)
    <3>1. inserts' = inserts
      BY <2>2, Zenon DEF get_epoch_mut
    <3>2. id < epoch - Len(inserts)
      <4>1. CASE inserts = <<>>
        <5>1. id < epoch
          BY <1>1, LookupIsFind, FindFacts, Zenon
        <5>. QED BY <4>1, <5>1, <1>1
      <4>2. CASE inserts # <<>>
        BY <4>2, <2>2, <1>1, <1>3 DEF InInserts
      <4>. QED BY <4>1, <4>2, Zenon
    <3>3. /\ updates' \in Seq(PriorEpochs)
          /\ \E k \in 1 .. Len(updates') :
                /\ Updates(updates, updates', k, r)
                /\ k \notin 1 .. Len(updates) => storage_epoch(epochs, r.id) # {}
      <4>1. CASE find_pending(id) # {}
        <5>1. PICK k \in 1 .. Len(updates) : k \in find_pending(id) /\ updates[k].id = id
          BY <4>1, Zenon DEF find_pending
        <5>2. \A i \in 1 .. Len(updates) : updates[i].id = id => i = k
          BY <5>1, <1>1, Zenon DEF Placed
        <5>3. find_pending(id) = {k}
          BY <5>1, <5>2, Zenon DEF find_pending
        <5>4. updates' = [i \in 1 .. Len(updates) |->
                 IF i \in find_pending(id) THEN PriorEpoch(updates[i].id, u) ELSE updates[i]]
          BY <4>1, <2>2, Zenon DEF get_epoch_mut
        <5>5. \A i \in 1 .. Len(updates) : updates'[i] = IF i = k THEN r ELSE updates[i]
          BY <5>1, <5>3, <5>4, Zenon
        <5>6. updates' \in Seq(PriorEpochs) /\ Len(updates') = Len(updates)
          <6>1. DOMAIN updates' = 1 .. Len(updates) /\ updates' = [i \in DOMAIN updates' |-> updates'[i]]
            BY <5>4, Zenon
          <6>2. \A i \in 1 .. Len(updates) : updates'[i] \in PriorEpochs
            BY <5>5, <1>1, <1>2, Zenon
          <6>3. updates' \in [1 .. Len(updates) -> PriorEpochs]
            BY <6>1, <6>2, Zenon
          <6>. QED BY <6>3, <1>1, SeqOfFunction, Zenon
        <5> HIDE DEF r
        <5>7. Updates(updates, updates', k, r)
          BY <5>1, <5>2, <5>5, <5>6, <1>2, Zenon DEF Updates
        <5>. QED BY <5>1, <5>6, <5>7, Zenon
      <4>2. CASE find_pending(id) = {}
        <5>1. PICK prior \in storage_epoch(epochs, id) :
                 updates' = Append(updates, PriorEpoch(prior.id, u))
          BY <4>2, <2>2, Zenon DEF get_epoch_mut
        <5>2. prior.id = id
          <6>1. epoch - Len(inserts) \in Int
                /\ (InMemory => EndsBefore(epochs, epoch - Len(inserts)))
                /\ (~InMemory => Table(epochs))
            BY <1>1, PlacedFacts, Zenon
          <6>2. PICK p \in PriorEpochs : storage_epoch(epochs, id) = {p} /\ p.id = id
            BY <5>1, <6>1, <1>1, StorageFacts, Zenon
          <6>. QED BY <6>2, Zenon
        <5>3. updates' = Append(updates, r)
          BY <5>1, <5>2, Zenon
        <5>4. \A i \in 1 .. Len(updates) : updates[i].id # id
          <6>1. SUFFICES ASSUME NEW i \in 1 .. Len(updates), updates[i].id = id PROVE FALSE
            BY Zenon
          <6>2. \A j \in 1 .. i - 1 : updates[j].id # id
            BY <6>1, <1>1 DEF Placed
          <6>. QED BY <6>1, <6>2, <4>2, Zenon DEF find_pending
        <5> HIDE DEF r
        <5>5. /\ updates' \in Seq(PriorEpochs) /\ Len(updates') = Len(updates) + 1
              /\ updates'[Len(updates) + 1] = r
              /\ \A i \in 1 .. Len(updates) : updates'[i] = updates[i]
          BY <5>3, <1>1, <1>2
        <5>6. /\ Len(updates) + 1 \in 1 .. Len(updates')
              /\ \A i \in 1 .. Len(updates') : i # Len(updates) + 1 => i \in 1 .. Len(updates)
              /\ \A i \in 1 .. Len(updates) : i \in 1 .. Len(updates')
              /\ Len(updates) + 1 \notin 1 .. Len(updates)
          BY <5>5, <1>1
        <5>7. Updates(updates, updates', Len(updates) + 1, r)
          BY <5>4, <5>5, <5>6, <1>2, Zenon DEF Updates
        <5>. QED BY <5>1, <5>5, <5>6, <5>7, <1>2, Zenon
      <4>. QED BY <4>1, <4>2, Zenon
    <3>4. PICK k \in 1 .. Len(updates') :
                /\ Updates(updates, updates', k, r)
                /\ k \notin 1 .. Len(updates) => storage_epoch(epochs, r.id) # {}
      BY <3>3, Zenon
    <3> HIDE DEF r
    <3>5. /\ Placed(inserts, updates', epochs, epoch)
          /\ \A j \in Int : Find(inserts, updates', epochs, j)
                                 = IF j = r.id THEN {r} ELSE Find(inserts, updates, epochs, j)
      <4>1. r.id < epoch - Len(inserts)
        BY <3>2, <1>2, Zenon
      <4>. QED BY <4>1, <3>4, <1>1, UpdateTouched
    <3>6. \A i \in 1 .. Len(updates') :
            \/ i \in 1 .. Len(updates) /\ updates'[i].id = updates[i].id
            \/ storage_epoch(epochs, updates'[i].id) # {}
      BY <3>4, Zenon DEF Updates
    <3>. QED BY <3>1, <3>3, <3>5, <3>6, <1>1, <1>2, Zenon
  <2>. QED BY <2>1, <2>2, Zenon
<1>5. \A j \in Int : Lookup(j)' = IF j = id THEN {r} ELSE Lookup(j)
  BY <1>4, LookupIsFind, LookupIsFindNext, Zenon
<1> HIDE DEF r
<1>6. Types'
  BY <1>4, Zenon DEF Shape, Types
<1>7. IndexedById' /\ StorageShape'
  BY ConfigStays, Zenon DEF Shape, StorageShape
<1>8. CacheShape'
  <2>1. Placed(inserts, updates, epochs, epoch)'
    BY <1>4, ConfigStays, Zenon
  <2>2. inserts' = <<>> => StoredBefore(epochs, epoch)
    BY <1>1, <1>4 DEF Shape, CacheShape
  <2>3. write_fails(epochs, inserts) => write_fails(epochs, inserts')
    BY <1>4, Zenon DEF write_fails, InsertConflicts
  <2>4. \/ write_fails(epochs, inserts')
        \/ \A i \in 1 .. Len(updates') : storage_epoch(epochs, updates'[i].id) # {}
    BY <2>3, <1>4, Zenon DEF Shape, CacheShape
  <2>. QED BY <2>1, <2>2, <2>4, ConfigStays, Zenon DEF CacheShape
<1>. QED BY <1>5, <1>6, <1>7, <1>8, Zenon DEF Shape, r

=============================================================================
