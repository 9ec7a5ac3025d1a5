--------------------- MODULE GroupStateRepository_proofs ---------------------
(***************************************************************************)
(* The repository finds the latest copy of every prior epoch, whatever the *)
(* number of epochs, messages, retained epochs, crashes and failed writes, *)
(* and with either provider.                                               *)
(*                                                                         *)
(* LookupIsCurrent is not inductive: a lookup goes to the inserts, to the  *)
(* updates or to storage, and a write moves records between them.  The     *)
(* inductive invariant says where the ids of each of the three lie: the    *)
(* inserts end just before the current epoch, the updates lie below the    *)
(* inserts and are rows of storage, and storage ends where the epoch of    *)
(* its snapshot begins.                                                    *)
(***************************************************************************)
EXTENDS RepositoryLookup_proofs

-----------------------------------------------------------------------------
(* A write, the end of the process and a new start keep the shape of       *)
(* caches and storage                                                          *)

\* A write that succeeds: storage ends where the current epoch begins, holds the
\* records that a lookup found before it, and forgets none that are to be retained.
LEMMA StoredShape ==
    ASSUME Shape, Stored, config' = config
    PROVE  /\ InMemory => /\ epochs' \in Seq(PriorEpochs)
                          /\ Len(epochs') <= max_epoch_retention
                          /\ EndsBefore(epochs', epoch)
           /\ ~InMemory => /\ Table(epochs')
                           /\ \A id \in DOMAIN epochs' : id < epoch
                           /\ \A i, j \in DOMAIN epochs' : i > j - max_epoch_retention
                           /\ inserts # <<>> => epoch - 1 \in DOMAIN epochs'
                           /\ inserts = <<>> => DOMAIN epochs' = DOMAIN epochs
           /\ StoredBefore(epochs', epoch)
           /\ \A i \in 1 .. Len(updates) : storage_epoch(epochs, updates[i].id) # {}
           /\ \A id \in Int : storage_epoch(epochs', id) =
                 IF Dropped(inserts, epoch, id) THEN {} ELSE Lookup(id)
<1>1. loaded /\ ~write_fails(epochs, inserts) /\ epochs' = storage_write(epochs, inserts, updates)
  BY Zenon DEF Stored
<1>2. Placed(inserts, updates, epochs, epoch) /\ epoch \in Int
  BY <1>1, LoadedFacts, Zenon
<1>3. Writable(inserts, updates, epochs, epoch)
  <2>1. \A i \in 1 .. Len(updates) : storage_epoch(epochs, updates[i].id) # {}
    BY <1>1, Zenon DEF Shape, CacheShape
  <2>. QED BY <2>1, <1>1, <1>2, Zenon DEF Writable, Shape, StorageShape
<1>4. CASE InMemory
  <2>1. epochs' = InMemoryWrite(epochs, inserts, updates)
    BY <1>1, <1>4, Zenon DEF storage_write, InMemory
  <2>2. /\ EndsBefore(epochs', epoch) /\ Len(epochs') <= max_epoch_retention
        /\ \A id \in Int : storage_epoch(epochs', id) =
             IF Dropped(inserts, epoch, id) THEN {} ELSE Find(inserts, updates, epochs, id)
    BY <2>1, <1>2, <1>3, <1>4, InMemoryWritten
  <2>. QED BY <2>2, <1>3, <1>4, LookupIsFind, Zenon DEF StoredBefore, EndsBefore, Writable
<1>5. CASE ~InMemory
  <2>1. epochs' = SqLiteWrite(epochs, inserts, updates) /\ config.backend = "SqLite"
    BY <1>1, <1>5, Backend, Zenon DEF storage_write, InMemory, Shape, Types
  <2>2. /\ Table(epochs')
        /\ \A id \in DOMAIN epochs' : id < epoch
        /\ \A i, j \in DOMAIN epochs' : i > j - max_epoch_retention
        /\ inserts # <<>> => epoch - 1 \in DOMAIN epochs'
        /\ inserts = <<>> => DOMAIN epochs' = DOMAIN epochs
        /\ \A id \in Int : storage_epoch(epochs', id) =
             IF Dropped(inserts, epoch, id) THEN {} ELSE Find(inserts, updates, epochs, id)
    BY <2>1, <1>2, <1>3, <1>5, SqLiteWritten
  <2>3. StoredBefore(epochs', epoch)
    BY <2>2, <1>1, <1>5, Zenon DEF StoredBefore, Shape, CacheShape
  <2>. QED BY <2>2, <2>3, <1>3, <1>5, LookupIsFind, Zenon DEF Writable
<1>. QED BY <1>4, <1>5, Zenon

\* Storage after a write, with its snapshot
LEMMA StoredStorage ==
    ASSUME Shape, Stored, config' = config, newest' = newest
    PROVE  StorageShape'
<1>1. /\ InMemory => /\ epochs' \in Seq(PriorEpochs)
                     /\ Len(epochs') <= max_epoch_retention
      /\ ~InMemory => /\ Table(epochs')
                      /\ \A id \in DOMAIN epochs' : id < epoch
                      /\ \A i, j \in DOMAIN epochs' : i > j - max_epoch_retention
      /\ StoredBefore(epochs', epoch)
  BY StoredShape, Zenon
<1>2. ~InMemory => \A id \in DOMAIN epochs' : id < newest
  <2>1. loaded
    BY Zenon DEF Stored
  <2>2. epoch \in Int /\ newest \in Int /\ epoch <= newest
    BY <2>1, LoadedFacts, Zenon
  <2>3. ~InMemory => \A id \in DOMAIN epochs' : id \in Int
    BY <1>1, RecordFacts, Zenon DEF Table
  <2>. QED BY <2>2, <2>3, <1>1
<1>3. \A s \in snapshot' : s.epoch = epoch
  BY DEF Stored
<1>4. ~InMemory => HasGreatest(epochs')
  <2>1. CASE ~InMemory /\ inserts # <<>>
    <3>1. epoch - 1 \in DOMAIN epochs' /\ \A id \in DOMAIN epochs' : id < epoch
      BY <2>1, StoredShape, Zenon
    <3>2. loaded /\ \A id \in DOMAIN epochs' : id \in Int
      BY <2>1, <1>1, RecordFacts DEF Stored, Table
    <3>3. \A id \in DOMAIN epochs' : id <= epoch - 1
      BY <3>1, <3>2, LoadedFacts
    <3>. QED BY <3>1, <3>3, Zenon DEF HasGreatest
  <2>2. CASE ~InMemory /\ inserts = <<>>
    <3>1. DOMAIN epochs' = DOMAIN epochs
      BY <2>2, StoredShape, Zenon
    <3>2. HasGreatest(epochs)
      BY <2>2, Zenon DEF Shape, StorageShape
    <3>. QED BY <3>1, <3>2, Zenon DEF HasGreatest
  <2>. QED BY <2>1, <2>2, Zenon
<1>. QED BY <1>1, <1>2, <1>3, <1>4, ConfigStays, Zenon DEF StorageShape

LEMMA StoredTypes ==
    ASSUME Shape, Stored, UNCHANGED <<config, epoch, used, newest, accepted>>,
           loaded' \in BOOLEAN,
           inserts' \in Seq(PriorEpochs), updates' \in Seq(PriorEpochs)
    PROVE  Types'
<1>1. /\ loaded /\ snapshot' = {[epoch |-> epoch, used |-> used]} /\ durable' = accepted
  BY Zenon DEF Stored
<1>2. epoch \in 0 .. MaxEpoch /\ epoch <= newest /\ used \in SUBSET Messages
  BY <1>1, LoadedFacts, Zenon DEF Shape, Types
<1>3. \E e \in 0 .. MaxEpoch, u \in SUBSET Messages : snapshot' = {[epoch |-> e, used |-> u]}
  BY <1>1, <1>2, Zenon
<1>4. \A s \in snapshot' : s.epoch <= newest
  BY <1>1, <1>2
<1>. QED BY <1>1, <1>3, <1>4, Zenon DEF Shape, Types

LEMMA WriteShape ==
    ASSUME Shape, WriteToStorage
    PROVE  /\ Shape'
           /\ \A id \in Int : storage_epoch(epochs', id) =
                 IF Dropped(inserts, epoch, id) THEN {} ELSE Lookup(id)
           /\ \A id \in Int : Lookup(id)' =
                 IF Dropped(inserts, epoch, id) THEN {} ELSE Lookup(id)
<1>1. /\ Stored /\ inserts' = <<>> /\ updates' = <<>>
      /\ UNCHANGED <<config, loaded, epoch, used, newest, accepted>>
      /\ snapshot' = {[epoch |-> epoch, used |-> used]} /\ durable' = accepted /\ loaded
  BY Zenon DEF WriteToStorage, Stored
<1>2. /\ InMemory => EndsBefore(epochs', epoch)
      /\ ~InMemory => Table(epochs') /\ \A id \in DOMAIN epochs' : id < epoch
      /\ StoredBefore(epochs', epoch)
      /\ \A id \in Int : storage_epoch(epochs', id) =
            IF Dropped(inserts, epoch, id) THEN {} ELSE Lookup(id)
  BY <1>1, StoredShape, Zenon
<1>3. epoch \in Int /\ epoch \in 0 .. MaxEpoch /\ epoch <= newest /\ newest \in Int
  BY <1>1, LoadedFacts, Zenon
<1>4. Types'
  BY <1>1, StoredTypes
<1>5. CacheShape'
  <2>1. EndsBefore(<<>>, epoch) /\ epoch - Len(<<>>) = epoch
    BY <1>3 DEF EndsBefore
  <2>2. Placed(<<>>, <<>>, epochs', epoch)
    BY <2>1, <1>2 DEF Placed
  <2>. QED BY <2>2, <1>1, <1>2, ConfigStays DEF CacheShape
<1>6. StorageShape' /\ IndexedById'
  BY <1>1, StoredStorage, ConfigStays, Zenon DEF Shape
<1>7. \A id : Lookup(id)' = storage_epoch(epochs', id)
  <2>1. \A id : Find(<<>>, <<>>, epochs', id) = storage_epoch(epochs', id)
    BY DEF Find
  <2>. QED BY <2>1, <1>1, LookupIsFindNext, Zenon
<1>. QED BY <1>1, <1>2, <1>4, <1>5, <1>6, <1>7, Zenon DEF Shape

\* The write succeeds and the deletion of the key package does not: the caches stay
\* as they are, over a table that holds their records already.
LEMMA DeleteFailsShape ==
    ASSUME Shape, DeleteFails
    PROVE  /\ Shape'
           /\ \A id \in Int : storage_epoch(epochs', id) =
                 IF Dropped(inserts, epoch, id) THEN {} ELSE Lookup(id)
           /\ \A id \in Int : Lookup(id)' = Lookup(id)
                              \/ (Lookup(id)' = {} /\ Dropped(inserts, epoch, id))
<1>1. /\ Stored /\ config.delete_may_fail /\ loaded
      /\ UNCHANGED <<config, loaded, epoch, used, inserts, updates, newest, accepted>>
  BY Zenon DEF DeleteFails, Stored, repo
<1>2. ~InMemory /\ config.backend = "SqLite"
  BY <1>1, Backend, Zenon DEF Shape, Types, IndexedById
<1>3. /\ Table(epochs') /\ \A id \in DOMAIN epochs' : id < epoch
      /\ inserts # <<>> => epoch - 1 \in DOMAIN epochs'
      /\ inserts = <<>> => DOMAIN epochs' = DOMAIN epochs
      /\ StoredBefore(epochs', epoch)
      /\ \A i \in 1 .. Len(updates) : storage_epoch(epochs, updates[i].id) # {}
      /\ \A id \in Int : storage_epoch(epochs', id) =
            IF Dropped(inserts, epoch, id) THEN {} ELSE Lookup(id)
  BY <1>1, <1>2, StoredShape, Zenon
<1>4. /\ Placed(inserts, updates, epochs, epoch) /\ epoch \in Int
      /\ inserts \in Seq(PriorEpochs) /\ Len(inserts) \in Nat
      /\ updates \in Seq(PriorEpochs)
      /\ \A i \in 1 .. Len(inserts) : inserts[i].id = epoch - Len(inserts) + i - 1
      /\ \A i \in 1 .. Len(updates) : updates[i].id \in Int
  BY <1>1, LoadedFacts, Zenon
<1>5. Placed(inserts, updates, epochs', epoch)
  BY <1>2, <1>3, <1>4, Zenon DEF Placed
<1>6. \/ write_fails(epochs', inserts)
      \/ \A i \in 1 .. Len(updates) : storage_epoch(epochs', updates[i].id) # {}
  <2>1. CASE inserts # <<>>
    <3>1. Len(inserts) \in 1 .. Len(inserts) /\ inserts[Len(inserts)].id = epoch - 1
      BY <2>1, <1>4
    <3>. QED BY <3>1, <2>1, <1>2, <1>3, Zenon DEF write_fails, InsertConflicts
  <2>2. CASE inserts = <<>>
    <3>1. \A id \in Int : storage_epoch(epochs, id) # {} <=> id \in DOMAIN epochs
      BY <1>2, Zenon DEF storage_epoch, InMemory, SqLiteEpoch
    <3>2. \A id \in Int : storage_epoch(epochs', id) # {} <=> id \in DOMAIN epochs'
      BY <1>2, Zenon DEF storage_epoch, InMemory, SqLiteEpoch
    <3>. QED BY <3>1, <3>2, <2>2, <1>3, <1>4, Zenon
  <2>. QED BY <2>1, <2>2, Zenon
<1>7. CacheShape'
  BY <1>1, <1>3, <1>5, <1>6, ConfigStays, Zenon DEF CacheShape
<1>8. Types' /\ StorageShape' /\ IndexedById'
  BY <1>1, <1>4, StoredTypes, StoredStorage, ConfigStays, Zenon DEF Shape, Types
<1>9. ASSUME NEW id \in Int
      PROVE  Lookup(id)' = Lookup(id) \/ (Lookup(id)' = {} /\ Dropped(inserts, epoch, id))
  <2>1. /\ Lookup(id) = Find(inserts, updates, epochs, id)
        /\ Lookup(id)' = Find(inserts, updates, epochs', id)
    BY <1>1, LookupIsFind, LookupIsFindNext, Zenon
  <2>2. CASE id >= epoch
    BY <2>1, <2>2, <1>4, <1>5, FindNone, Zenon
  <2>3. CASE id >= epoch - Len(inserts) /\ id < epoch
    <3>1. Find(inserts, updates, epochs, id) = {inserts[id - epoch + Len(inserts) + 1]}
      BY <2>3, <1>4, FindInsert
    <3>2. Find(inserts, updates, epochs', id) = {inserts[id - epoch + Len(inserts) + 1]}
      BY <2>3, <1>4, <1>5, FindInsert
    <3>. QED BY <2>1, <3>1, <3>2, Zenon
  <2>4. CASE \E i \in 1 .. Len(updates) : updates[i].id = id
    <3>1. PICK i \in 1 .. Len(updates) : updates[i].id = id
      BY <2>4, Zenon
    <3>2. Find(inserts, updates, epochs, id) = {updates[i]}
      BY <3>1, <1>4, FindUpdate
    <3>3. Find(inserts, updates, epochs', id) = {updates[i]}
      BY <3>1, <1>4, <1>5, FindUpdate
    <3>. QED BY <2>1, <3>2, <3>3, Zenon
  <2>5. CASE id < epoch - Len(inserts) /\ \A i \in 1 .. Len(updates) : updates[i].id # id
    <3>1. Find(inserts, updates, epochs', id) = storage_epoch(epochs', id)
      <4>1. PICK eps : eps = epochs'
        OBVIOUS
      <4>2. PICK ins : ins = inserts
        OBVIOUS
      <4>3. Find(ins, updates, eps, id) = storage_epoch(eps, id)
        BY <4>1, <4>2, <2>5, <1>4, <1>5, FindStored
      <4>. QED BY <4>1, <4>2, <4>3, Zenon
    <3>. QED BY <3>1, <2>1, <1>3, Zenon
  <2>. QED BY <2>2, <2>3, <2>4, <2>5, <1>4
<1>. QED BY <1>1, <1>3, <1>7, <1>8, <1>9, Zenon DEF Shape

\* Once the caches are gone, a lookup finds what storage holds.
LEMMA EmptyCaches ==
    /\ inserts = <<>> /\ updates = <<>> => \A id : Lookup(id) = storage_epoch(epochs, id)
    /\ config' = config /\ inserts' = <<>> /\ updates' = <<>>
          => \A id : Lookup(id)' = storage_epoch(epochs', id)
<1>1. \A eps, id : Find(<<>>, <<>>, eps, id) = storage_epoch(eps, id)
  BY DEF Find
<1>. QED BY <1>1, LookupIsFind, LookupIsFindNext, Zenon

\* The process ends, after a write or at any other time.
LEMMA EndShape ==
    ASSUME Shape, Crash \/ CrashBeforeDelete
    PROVE  Shape'
<1>0. loaded' \in BOOLEAN /\ ~loaded'
  <2>1. loaded' = FALSE
    BY Zenon DEF Crash, CrashBeforeDelete, Ended
  <2>. QED BY <2>1, Zenon
<1>1. /\ inserts' = <<>> /\ updates' = <<>> /\ loaded
      /\ UNCHANGED <<config, epoch, used, newest>>
  BY Zenon DEF Crash, CrashBeforeDelete, Ended, Stored
<1>2. CASE Crash
  <2>1. epochs' = epochs /\ snapshot' = snapshot /\ accepted' = durable /\ durable' = durable
    BY <1>2, Zenon DEF Crash, storage
  <2>2. Types'
    <3>1. inserts' \in Seq(PriorEpochs) /\ updates' \in Seq(PriorEpochs)
      BY <1>1
    <3>. QED BY <3>1, <2>1, <1>0, <1>1, Zenon DEF Shape, Types
  <2>3. StorageShape' /\ IndexedById'
    BY <2>1, <1>1, ConfigStays, Zenon DEF Shape, StorageShape
  <2>. QED BY <2>2, <2>3, <1>0, <1>1, Zenon DEF Shape
<1>3. CASE CrashBeforeDelete
  <2>1. Stored /\ accepted' = accepted
    BY <1>3, Zenon DEF CrashBeforeDelete
  <2>2. Types'
    <3>1. loaded' \in BOOLEAN /\ inserts' \in Seq(PriorEpochs) /\ updates' \in Seq(PriorEpochs)
      BY <1>0, <1>1
    <3>. QED BY <3>1, <2>1, <1>1, StoredTypes, Zenon
  <2>3. StorageShape' /\ IndexedById'
    BY <2>1, <1>1, StoredStorage, ConfigStays, Zenon DEF Shape
  <2>. QED BY <2>2, <2>3, <1>0, <1>1 DEF Shape
<1>. QED BY <1>2, <1>3, Zenon

\* load_group starts over the storage of its snapshot, a second membership over
\* rows that are all older, and delete_group leaves nothing.
LEMMA RestartShape ==
    ASSUME Shape, LoadGroup \/ JoinAgain \/ DeleteGroup
    PROVE  Shape'
<1>1. /\ ~loaded /\ inserts = <<>> /\ updates = <<>> /\ inserts' = <<>> /\ updates' = <<>>
      /\ UNCHANGED <<config, accepted, durable>>
  BY Zenon DEF LoadGroup, JoinAgain, DeleteGroup, Shape, repo, history
<1>2. ASSUME NEW e \in Int, InMemory => EndsBefore(epochs, e),
             ~InMemory => Table(epochs) /\ \A id \in DOMAIN epochs : id < e
      PROVE  Placed(<<>>, <<>>, epochs, e)
  <2>1. EndsBefore(<<>>, e) /\ e - Len(<<>>) = e
    BY DEF EndsBefore
  <2>. QED BY <2>1, <1>2 DEF Placed
<1>3. CASE LoadGroup
  <2>1. PICK s \in snapshot : epoch' = s.epoch /\ used' = s.used
    BY <1>3, Zenon DEF LoadGroup
  <2>2. loaded' /\ UNCHANGED <<epochs, snapshot, newest>>
    BY <1>3, Zenon DEF LoadGroup, storage, history
  <2>3. s.epoch \in 0 .. MaxEpoch /\ s.used \subseteq Messages /\ s.epoch <= newest
        /\ newest \in 0 .. MaxEpoch
    BY RepositoryAssumption DEF Shape, Types
  <2>4. Types'
    <3>1. epoch' \in 0 .. MaxEpoch /\ newest' \in epoch' .. MaxEpoch
      BY <2>1, <2>2, <2>3
    <3>. QED BY <3>1, <2>1, <2>2, <2>3, <1>1, Zenon DEF Shape, Types
  <2>5. StorageShape' /\ IndexedById'
    BY <2>2, <1>1, ConfigStays, Zenon DEF Shape, StorageShape
  <2>6. StoredBefore(epochs, epoch')
    BY <2>1, Zenon DEF Shape, StorageShape
  <2>7. Placed(<<>>, <<>>, epochs, epoch')
    <3>1. epoch' \in Int
      BY <2>1, <2>3
    <3>. QED BY <3>1, <2>6, <1>2, Zenon DEF StoredBefore, Shape, StorageShape
  <2>8. CacheShape'
    BY <2>2, <2>6, <2>7, <1>1, ConfigStays DEF CacheShape
  <2>. QED BY <2>2, <2>4, <2>5, <2>8, Zenon DEF Shape
<1>4. CASE JoinAgain
  <2>1. PICK e \in newest + 1 .. MaxEpoch : epoch' = e /\ newest' = e
    BY <1>4, Zenon DEF JoinAgain
  <2>2. loaded' /\ UNCHANGED <<epochs, snapshot>> /\ used' = {} /\ config.may_rejoin
    BY <1>4, Zenon DEF JoinAgain
  <2>3. ~InMemory /\ newest \in Int /\ newest >= 0 /\ MaxEpoch \in Nat
    BY <2>2, RepositoryAssumption DEF Shape, Types, IndexedById, InMemory
  <2>4. Types'
    <3>1. \A s \in snapshot : s.epoch \in Int /\ s.epoch <= newest
      BY DEF Shape, Types
    <3>2. \A s \in snapshot : s.epoch <= newest'
      BY <3>1, <2>1, <2>3
    <3>3. epoch' \in 0 .. MaxEpoch /\ newest' \in epoch' .. MaxEpoch
      BY <2>1, <2>3
    <3>. QED BY <3>2, <3>3, <2>2, <1>1, Zenon DEF Shape, Types
  <2>5. Table(epochs) /\ \A id \in DOMAIN epochs : id < epoch' /\ id < newest'
    <3>1. Table(epochs) /\ \A id \in DOMAIN epochs : id \in Int /\ id < newest
      BY <2>3, RecordFacts, Zenon DEF Shape, StorageShape, Table
    <3>. QED BY <3>1, <2>1, <2>3
  <2>6. StorageShape' /\ IndexedById'
    BY <2>2, <2>3, <2>5, <1>1, ConfigStays, Zenon DEF Shape, StorageShape
  <2>7. StoredBefore(epochs, epoch') /\ Placed(<<>>, <<>>, epochs, epoch')
    <3>1. epoch' \in Int
      BY <2>1, <2>3
    <3>. QED BY <3>1, <2>2, <2>3, <2>5, <1>2, Zenon DEF StoredBefore
  <2>8. CacheShape'
    BY <2>2, <2>7, <1>1, ConfigStays DEF CacheShape
  <2>. QED BY <2>2, <2>4, <2>6, <2>8, Zenon DEF Shape
<1>5. CASE DeleteGroup
  <2>1. /\ epochs' = NoEpochs /\ snapshot' = {}
        /\ UNCHANGED <<loaded, epoch, used, newest>>
    BY <1>5, Zenon DEF DeleteGroup, history
  <2>2. Types'
    BY <2>1, <1>1, Zenon DEF Shape, Types
  <2>3. InMemory => epochs' \in Seq(PriorEpochs) /\ Len(epochs') <= max_epoch_retention
    BY <2>1, Retention DEF NoEpochs, InMemory
  <2>4. ~InMemory => Table(epochs') /\ DOMAIN epochs' = {}
    BY <2>1, Zenon DEF NoEpochs, InMemory, Table
  <2>5. StorageShape' /\ IndexedById'
    BY <2>1, <2>3, <2>4, <1>1, ConfigStays, Zenon DEF Shape, StorageShape, HasGreatest
  <2>. QED BY <2>1, <2>2, <2>5, <1>1, Zenon DEF Shape
<1>. QED BY <1>3, <1>4, <1>5, Zenon

-----------------------------------------------------------------------------
(* The records remember what was accepted                                  *)

LEMMA LookupFacts ==
    ASSUME Shape, loaded, NEW id \in Int
    PROVE  /\ Lookup(id) = {} \/ \E p \in PriorEpochs : Lookup(id) = {p} /\ p.id = id
           /\ Lookup(id) # {} => id < epoch
<1>1. Placed(inserts, updates, epochs, epoch) /\ epoch \in Int
  BY LoadedFacts, Zenon
<1>. QED BY <1>1, LookupIsFind, FindFacts

\* Opening m in epoch id takes the consumed messages from u to v and accepts a.
Consumed(id, m, u, v, a) ==
    /\ (v = u /\ a = {}) \/ (m \notin u /\ v = u \cup {m})
    /\ a \in {{}, {<<id, m>>}}

LEMMA OpenedFacts ==
    ASSUME NEW id, NEW u \in SUBSET Messages, NEW m \in Messages, NEW o \in Opened(id, u, m)
    PROVE  /\ o.used \in SUBSET Messages /\ u \subseteq o.used
           /\ o.accepted \subseteq {<<id, m>>}
           /\ o.accepted # {} => m \in o.used /\ m \notin u
           /\ Consumed(id, m, u, o.used, o.accepted)
BY DEF Opened, Consumed

LEMMA CommitMemory ==
    ASSUME Shape, Memory, ApplyCommit
    PROVE  Memory'
<1>1. /\ loaded /\ loaded' /\ epoch' = epoch + 1 /\ used' = {} /\ config' = config
      /\ newest' = (IF epoch' > newest THEN epoch' ELSE newest)
      /\ UNCHANGED <<epochs, snapshot, accepted, durable>>
  BY Zenon DEF ApplyCommit, storage
<1>2. epoch \in Int /\ newest \in Int
  BY <1>1, LoadedFacts, Zenon
<1>3. \A id \in Int : Lookup(id)' =
         IF id = epoch THEN {PriorEpoch(epoch, used)} ELSE Lookup(id)
  BY CommitShape, Zenon
<1>4. LookupIsCurrent'
  <2>1. ASSUME NEW id \in 0 .. MaxEpoch, NEW prior \in Lookup(id)', NEW m \in Messages,
               <<id, m>> \in accepted'
        PROVE  m \in prior.used
    <3>1. CASE id = epoch
      BY <2>1, <3>1, <1>1, <1>2, <1>3 DEF Memory, LookupIsCurrent, PriorEpoch
    <3>2. CASE id # epoch
      BY <2>1, <3>2, <1>1, <1>3 DEF Memory, LookupIsCurrent
    <3>. QED BY <3>1, <3>2, Zenon
  <2>2. ASSUME NEW id \in 0 .. MaxEpoch, NEW prior \in Lookup(id)'
        PROVE  prior.id = id
    <3>1. CASE id = epoch
      BY <3>1, <1>2, <1>3 DEF PriorEpoch
    <3>2. CASE id # epoch
      BY <3>2, <1>1, <1>3 DEF Memory, LookupIsCurrent
    <3>. QED BY <3>1, <3>2, Zenon
  <2>3. ASSUME NEW m \in Messages PROVE <<epoch', m>> \notin accepted'
    <3>1. <<epoch', m>> \in accepted' => epoch' \in 0 .. MaxEpoch
      BY <1>1, Zenon DEF Shape, Types
    <3>2. \A e \in 0 .. MaxEpoch : <<e, m>> \in accepted => e <= epoch
      BY <1>1, Zenon DEF Memory
    <3>. QED BY <3>1, <3>2, <1>1, <1>2
  <2>. QED BY <2>1, <2>2, <2>3, Zenon DEF LookupIsCurrent
<1>5. \A e \in 0 .. MaxEpoch, m \in Messages : <<e, m>> \in accepted' => e <= epoch'
  BY <1>1, <1>2 DEF Memory
<1>6. \A e \in 0 .. MaxEpoch, m \in Messages : <<e, m>> \in accepted' \cup durable' => e <= newest'
  BY <1>1, <1>2 DEF Memory
<1>. QED BY <1>1, <1>4, <1>5, <1>6, ConfigStays, Zenon DEF Memory

LEMMA CurrentMemory ==
    ASSUME Shape, Memory, NEW m \in Messages, ReceiveCurrent(m)
    PROVE  Shape' /\ Memory' /\ last' \cap accepted = {} /\ \A id : Lookup(id)' = Lookup(id)
<1>1. PICK o \in Opened(epoch, used, m) :
         used' = o.used /\ last' = o.accepted /\ accepted' = accepted \cup last'
  BY Zenon DEF ReceiveCurrent
<1>2. /\ loaded /\ loaded'
      /\ UNCHANGED <<config, loaded, epoch, inserts, updates, epochs, snapshot, newest, durable>>
  BY Zenon DEF ReceiveCurrent, repo, storage
<1>3. epoch \in 0 .. MaxEpoch /\ epoch \in Int /\ epoch <= newest /\ newest \in Int
  BY <1>2, LoadedFacts, Zenon
<1>4. /\ o.used \in SUBSET Messages /\ used \subseteq o.used
      /\ o.accepted \subseteq {<<epoch, m>>}
      /\ o.accepted # {} => m \in o.used /\ m \notin used
  <2>1. used \in SUBSET Messages
    BY Zenon DEF Shape, Types
  <2>. QED BY <2>1, OpenedFacts, Zenon
<1>5. Shape' /\ \A id : Lookup(id)' = Lookup(id)
  <2>1. accepted' \subseteq (0 .. MaxEpoch) \X Messages
    BY <1>1, <1>3, <1>4 DEF Shape, Types
  <2>2. durable' \subseteq (0 .. MaxEpoch) \X Messages /\ used' \subseteq Messages
    BY <1>1, <1>2, <1>4, Zenon DEF Shape, Types
  <2>. QED BY <2>1, <2>2, <1>2, ShapeStays, Zenon
<1>6. last' \cap accepted = {}
  <2>1. o.accepted # {} => <<epoch, m>> \notin accepted
    BY <1>2, <1>4, Zenon DEF Memory, LookupIsCurrent
  <2>. QED BY <2>1, <1>1, <1>4, Zenon
<1>7. \A e \in 0 .. MaxEpoch, x \in Messages :
         <<e, x>> \in accepted' => <<e, x>> \in accepted \/ (e = epoch /\ x = m /\ m \in used')
  BY <1>1, <1>4, Zenon
<1>8. LookupIsCurrent'
  <2>1. ASSUME NEW id \in 0 .. MaxEpoch, NEW prior \in Lookup(id)'
        PROVE  id # epoch /\ prior.id = id
               /\ \A x \in Messages : <<id, x>> \in accepted => x \in prior.used
    <3>1. prior \in Lookup(id) /\ id \in Int
      BY <1>5
    <3>2. id < epoch
      BY <3>1, <1>2, LookupFacts, Zenon
    <3>. QED BY <3>1, <3>2, <1>2, <1>3 DEF Memory, LookupIsCurrent
  <2>2. \A x \in Messages : <<epoch, x>> \in accepted' => x \in used'
    BY <1>1, <1>2, <1>3, <1>4, <1>7, Zenon DEF Memory, LookupIsCurrent
  <2>. QED BY <2>1, <2>2, <1>2, <1>7, Zenon DEF LookupIsCurrent
<1>9. Memory'
  <2>1. \A e \in 0 .. MaxEpoch, x \in Messages : <<e, x>> \in accepted' => e <= epoch
    BY <1>2, <1>3, <1>7 DEF Memory
  <2>2. \A e \in 0 .. MaxEpoch, x \in Messages : <<e, x>> \in accepted' \cup durable => e <= newest
    BY <1>3, <1>7, Zenon DEF Memory
  <2>. QED BY <2>1, <2>2, <1>2, <1>8, ConfigStays, Zenon DEF Memory
<1>. QED BY <1>5, <1>6, <1>9, Zenon

LEMMA PriorMemory ==
    ASSUME Shape, Memory, NEW id \in 0 .. MaxEpoch, NEW m \in Messages, ReceivePrior(id, m)
    PROVE  /\ Shape' /\ Memory' /\ last' \cap accepted = {}
           /\ Lookup(id) # {}
           /\ \A j \in Int : Lookup(j)' = {} <=> Lookup(j) = {}
           /\ \E p \in PriorEpochs : \E u \in SUBSET Messages :
                 /\ Lookup(id) = {p}
                 /\ \A j \in Int : Lookup(j)' = IF j = id THEN {PriorEpoch(id, u)} ELSE Lookup(j)
                 /\ Consumed(id, m, p.used, u, last')
<1>0. PICK prior \in Lookup(id) : \E o \in Opened(id, prior.used, m) :
         get_epoch_mut(id, o.used) /\ last' = o.accepted /\ accepted' = accepted \cup last'
  BY Zenon DEF ReceivePrior
<1>1. PICK o \in Opened(id, prior.used, m) :
         get_epoch_mut(id, o.used) /\ last' = o.accepted /\ accepted' = accepted \cup last'
  BY <1>0, Zenon
<1>2. /\ loaded /\ loaded' /\ id # epoch
      /\ UNCHANGED <<config, loaded, epoch, used, epochs, snapshot, newest, durable>>
  BY Zenon DEF ReceivePrior, storage
<1>3. epoch \in Int /\ epoch <= newest /\ newest \in Int /\ id \in Int
  BY <1>2, LoadedFacts
<1>4. prior \in PriorEpochs /\ Lookup(id) = {prior} /\ prior.id = id /\ id < epoch
      /\ prior.used \in SUBSET Messages
  <2>1. PICK p \in PriorEpochs : Lookup(id) = {p} /\ p.id = id
    BY <1>1, <1>2, <1>3, LookupFacts, Zenon
  <2>2. id < epoch
    BY <1>1, <1>2, <1>3, LookupFacts, Zenon
  <2>. QED BY <2>1, <2>2, <1>1, RecordFacts, Zenon
<1>5. /\ o.used \in SUBSET Messages /\ prior.used \subseteq o.used
      /\ o.accepted \subseteq {<<id, m>>}
      /\ o.accepted # {} => m \in o.used /\ m \notin prior.used
  <2>1. prior.used \in SUBSET Messages
    BY <1>4, Zenon
  <2>2. \A u \in SUBSET Messages : \A x \in Opened(id, u, m) :
            /\ x.used \in SUBSET Messages /\ u \subseteq x.used
            /\ x.accepted \subseteq {<<id, m>>}
            /\ x.accepted # {} => m \in x.used /\ m \notin u
    BY OpenedFacts, Zenon
  <2>. QED BY <2>1, <2>2, Zenon
<1>6. Shape' /\ \A j \in Int : Lookup(j)' = IF j = id THEN {PriorEpoch(id, o.used)} ELSE Lookup(j)
  <2>1. accepted' \subseteq (0 .. MaxEpoch) \X Messages
    BY <1>1, <1>5 DEF Shape, Types
  <2>2. durable' \subseteq (0 .. MaxEpoch) \X Messages /\ used' \subseteq Messages
    BY <1>2, Zenon DEF Shape, Types
  <2>3. Lookup(id) # {}
    BY <1>1, Zenon
  <2>. QED BY <2>1, <2>2, <2>3, <1>1, <1>2, <1>5, TouchShape, Zenon
<1>7. \A x \in Messages : <<id, x>> \in accepted => x \in prior.used
  BY <1>1, <1>2, Zenon DEF Memory, LookupIsCurrent
<1>8. last' \cap accepted = {}
  BY <1>1, <1>5, <1>7, Zenon
<1>9. \A e \in 0 .. MaxEpoch, x \in Messages :
         <<e, x>> \in accepted' => <<e, x>> \in accepted \/ (e = id /\ x = m /\ m \in o.used)
  BY <1>1, <1>5, Zenon
<1>10. LookupIsCurrent'
  <2>1. ASSUME NEW j \in 0 .. MaxEpoch, NEW q \in Lookup(j)'
        PROVE  q.id = j /\ \A x \in Messages : <<j, x>> \in accepted' => x \in q.used
    <3>1. CASE j = id
      <4>1. q = PriorEpoch(id, o.used)
        BY <3>1, <1>3, <1>6, Zenon
      <4>2. q.id = id /\ q.used = o.used
        BY <4>1, Zenon DEF PriorEpoch
      <4>. QED BY <4>2, <3>1, <1>5, <1>7, <1>9, Zenon
    <3>2. CASE j # id
      <4>1. q \in Lookup(j)
        BY <3>2, <1>6
      <4>. QED BY <4>1, <3>2, <1>2, <1>9, Zenon DEF Memory, LookupIsCurrent
    <3>. QED BY <3>1, <3>2, Zenon
  <2>2. \A x \in Messages : <<epoch, x>> \in accepted' => x \in used'
    <3>1. epoch \in 0 .. MaxEpoch
      BY <1>2, LoadedFacts, Zenon
    <3>. QED BY <3>1, <1>2, <1>9, Zenon DEF Memory, LookupIsCurrent
  <2>. QED BY <2>1, <2>2, <1>2, Zenon DEF LookupIsCurrent
<1>11. Memory'
  <2>1. \A e \in 0 .. MaxEpoch, x \in Messages : <<e, x>> \in accepted' => e <= epoch
    BY <1>2, <1>3, <1>4, <1>9 DEF Memory
  <2>2. \A e \in 0 .. MaxEpoch, x \in Messages : <<e, x>> \in accepted' \cup durable => e <= newest
    BY <1>3, <1>4, <1>9 DEF Memory
  <2>. QED BY <2>1, <2>2, <1>2, <1>10, ConfigStays, Zenon DEF Memory
<1>12. \A j \in Int : Lookup(j)' = {} <=> Lookup(j) = {}
  BY <1>4, <1>6, Zenon
<1>13. Consumed(id, m, prior.used, o.used, last')
  <2>1. \A u \in SUBSET Messages : \A x \in Opened(id, u, m) : Consumed(id, m, u, x.used, x.accepted)
    BY OpenedFacts, Zenon
  <2>. QED BY <2>1, <1>1, <1>4, Zenon
<1>14. \E p \in PriorEpochs : \E u \in SUBSET Messages :
          /\ Lookup(id) = {p}
          /\ \A j \in Int : Lookup(j)' = IF j = id THEN {PriorEpoch(id, u)} ELSE Lookup(j)
          /\ Consumed(id, m, p.used, u, last')
  BY <1>4, <1>5, <1>6, <1>13, Zenon
<1>. QED BY <1>4, <1>6, <1>8, <1>11, <1>12, <1>14, Zenon

\* A write keeps in storage what was accepted up to then.
LEMMA StoredMemory ==
    ASSUME Shape, Memory, Stored, UNCHANGED <<config, newest, accepted>>,
           NEW e \in 0 .. MaxEpoch, NEW m \in Messages, <<e, m>> \in durable'
    PROVE  /\ <<e, m>> \in accepted /\ e <= epoch /\ e <= newest
           /\ \A s \in snapshot' : e <= s.epoch /\ (e = s.epoch => m \in s.used)
           /\ \A prior \in storage_epoch(epochs, e)' : m \in prior.used
<1>1. loaded /\ snapshot' = {[epoch |-> epoch, used |-> used]} /\ durable' = accepted
  BY Zenon DEF Stored
<1>2. <<e, m>> \in accepted /\ e <= epoch /\ e <= newest /\ (e = epoch => m \in used)
  BY <1>1, Zenon DEF Memory, LookupIsCurrent
<1>3. \A prior \in storage_epoch(epochs', e) : prior \in Lookup(e)
  BY StoredShape
<1>4. storage_epoch(epochs, e)' = storage_epoch(epochs', e)
  BY ConfigStays, Zenon
<1>5. \A prior \in Lookup(e) : m \in prior.used
  BY <1>1, <1>2, Zenon DEF Memory, LookupIsCurrent
<1>. QED BY <1>1, <1>2, <1>3, <1>4, <1>5

LEMMA WriteMemory ==
    ASSUME Shape, Memory, WriteToStorage \/ DeleteFails
    PROVE  Memory'
<1>1. /\ Stored /\ UNCHANGED <<config, loaded, epoch, used, newest, accepted>> /\ loaded /\ loaded'
      /\ durable' = accepted
  BY DEF WriteToStorage, DeleteFails, Stored
<1>2. \A id \in Int : Lookup(id)' \subseteq Lookup(id)
  BY WriteShape, DeleteFailsShape, Zenon
<1>3. LookupIsCurrent'
  BY <1>1, <1>2 DEF Memory, LookupIsCurrent
<1>4. \A e \in 0 .. MaxEpoch, m \in Messages : <<e, m>> \in durable' =>
           /\ \A s \in snapshot' : e <= s.epoch /\ (e = s.epoch => m \in s.used)
           /\ \A prior \in storage_epoch(epochs, e)' : m \in prior.used
  BY <1>1, StoredMemory, Zenon
<1>. QED BY <1>1, <1>3, <1>4, Zenon DEF Memory

LEMMA EndMemory ==
    ASSUME Shape, Memory, Crash \/ CrashBeforeDelete
    PROVE  Memory'
<1>0. ~loaded'
  BY Zenon DEF Crash, CrashBeforeDelete, Ended
<1>1. LookupIsCurrent'
  BY <1>0, Zenon DEF LookupIsCurrent
<1>2. CASE Crash
  <2>1. accepted' = durable /\ UNCHANGED <<config, epochs, snapshot, newest, durable>>
    BY <1>2, Zenon DEF Crash, storage
  <2>. QED BY <2>1, <1>0, <1>1, ConfigStays, Zenon DEF Memory
<1>3. CASE CrashBeforeDelete
  <2>1. Stored /\ UNCHANGED <<config, newest, accepted>> /\ durable' = accepted
    BY <1>3, Zenon DEF CrashBeforeDelete, Stored
  <2>2. \A e \in 0 .. MaxEpoch, m \in Messages : <<e, m>> \in durable' =>
           /\ \A s \in snapshot' : e <= s.epoch /\ (e = s.epoch => m \in s.used)
           /\ \A prior \in storage_epoch(epochs, e)' : m \in prior.used
    BY <2>1, StoredMemory, Zenon
  <2>. QED BY <2>1, <2>2, <1>0, <1>1, Zenon DEF Memory
<1>. QED BY <1>2, <1>3, Zenon

LEMMA RestartMemory ==
    ASSUME Shape, Memory, LoadGroup \/ JoinAgain
    PROVE  Memory'
<1>1. /\ ~loaded /\ loaded' /\ inserts' = <<>> /\ updates' = <<>> /\ accepted = durable
      /\ UNCHANGED <<config, epochs, snapshot, accepted, durable>>
  BY Zenon DEF LoadGroup, JoinAgain, Memory, Shape, repo, storage, history
<1>2. Shape'
  BY RestartShape, Zenon
<1>3. epoch' \in Int /\ newest' \in Int /\ newest \in Int /\ newest <= newest'
      /\ epoch' <= newest'
  <2>1. newest \in Int /\ newest' \in Int /\ epoch' \in Int /\ epoch' <= newest'
    BY <1>2, RepositoryAssumption DEF Shape, Types
  <2>2. newest <= newest'
    BY <2>1 DEF LoadGroup, JoinAgain, history
  <2>. QED BY <2>1, <2>2, Zenon
<1>4. ASSUME NEW id \in 0 .. MaxEpoch, NEW prior \in Lookup(id)'
      PROVE  prior.id = id /\ \A m \in Messages : <<id, m>> \in accepted' => m \in prior.used
  <2>1. prior \in storage_epoch(epochs, id) /\ Lookup(id)' = Find(inserts', updates', epochs', id)
    BY <1>1, <1>4, EmptyCaches, LookupIsFindNext, Zenon
  <2>2. Placed(inserts', updates', epochs', epoch')
    BY <1>1, <1>2, ConfigStays, Zenon DEF Shape, CacheShape
  <2>3. id \in Int
    OBVIOUS
  <2>4. PICK p \in PriorEpochs : Find(inserts', updates', epochs', id) = {p} /\ p.id = id
    BY <2>1, <2>2, <2>3, <1>3, <1>4, FindFacts
  <2>5. prior.id = id
    BY <2>1, <2>4, <1>4, Zenon
  <2>. QED BY <2>1, <2>5, <1>1, Zenon DEF Memory
<1>5. \A e \in 0 .. MaxEpoch, m \in Messages :
         <<e, m>> \in accepted' => e <= epoch' /\ (e = epoch' => m \in used')
  <2>1. CASE LoadGroup
    BY <2>1, <1>1, Zenon DEF LoadGroup, Memory
  <2>2. CASE JoinAgain
    <3>1. epoch' > newest
      BY <2>2, <1>3 DEF JoinAgain
    <3>. QED BY <3>1, <1>1, <1>3 DEF Memory
  <2>. QED BY <2>1, <2>2, Zenon
<1>6. \A e \in 0 .. MaxEpoch, m \in Messages : <<e, m>> \in accepted' \cup durable' => e <= newest'
  BY <1>1, <1>3 DEF Memory
<1>7. LookupIsCurrent'
  <2>1. epoch' \in 0 .. MaxEpoch
    BY <1>2, Zenon DEF Shape, Types
  <2>. QED BY <2>1, <1>4, <1>5, Zenon DEF LookupIsCurrent
<1>. QED BY <1>1, <1>5, <1>6, <1>7, ConfigStays, Zenon DEF Memory

LEMMA DeleteGroupMemory ==
    ASSUME Shape, Memory, DeleteGroup
    PROVE  Memory' /\ \A id : storage_epoch(epochs', id) = {}
<1>1. /\ ~loaded /\ ~loaded' /\ snapshot' = {} /\ epochs' = NoEpochs
      /\ UNCHANGED <<config, accepted, durable, newest>>
  BY Zenon DEF DeleteGroup, history
<1>2. \A id : storage_epoch(epochs', id) = {}
  BY <1>1, Zenon DEF NoEpochs, storage_epoch, InMemoryEpoch, SqLiteEpoch, get_epoch_data_index
<1>3. LookupIsCurrent'
  BY <1>1, Zenon DEF LookupIsCurrent
<1>. QED BY <1>1, <1>2, <1>3, ConfigStays, Zenon DEF Memory

-----------------------------------------------------------------------------
(* The theorems                                                            *)

LEMMA InitInv == Init /\ IndexedById => RepoInv
<1> SUFFICES ASSUME Init, IndexedById PROVE RepoInv
  BY Zenon
<1>0. 0 \in 0 .. MaxEpoch /\ 1 \in 0 .. MaxEpoch
  BY RepositoryAssumption
<1>1. /\ loaded /\ loaded \in BOOLEAN
  BY Zenon DEF Init
<1>2. /\ config \in Configurations /\ used = {} /\ inserts = <<>> /\ updates = <<>>
      /\ epochs = NoEpochs /\ snapshot = {} /\ newest = epoch /\ accepted = {} /\ durable = {}
      /\ epoch \in 0 .. MaxEpoch /\ epoch \in Int
  BY <1>0 DEF Init
<1>3. Types
  BY <1>1, <1>2, RepositoryAssumption DEF Types
<1>4. InMemory => epochs = <<>>
  BY <1>2, Zenon DEF NoEpochs, InMemory
<1>5. ~InMemory => Table(epochs) /\ DOMAIN epochs = {}
  BY <1>2, Zenon DEF NoEpochs, InMemory, Table
<1>6. StorageShape
  <2>1. InMemory => epochs \in Seq(PriorEpochs) /\ Len(epochs) <= max_epoch_retention
    BY <1>4, Retention
  <2>2. ~InMemory => /\ Table(epochs)
                     /\ \A id \in DOMAIN epochs : id < newest
                     /\ \A i, j \in DOMAIN epochs : i > j - max_epoch_retention
                     /\ HasGreatest(epochs)
    BY <1>5, Zenon DEF HasGreatest
  <2>3. \A s \in snapshot : StoredBefore(epochs, s.epoch)
    BY <1>2, Zenon
  <2>. QED BY <2>1, <2>2, <2>3, Zenon DEF StorageShape
<1>7. EndsBefore(<<>>, epoch) /\ epoch - Len(<<>>) = epoch
  BY <1>2 DEF EndsBefore
<1>8. CacheShape
  <2>1. Placed(<<>>, <<>>, epochs, epoch)
    BY <1>4, <1>5, <1>7 DEF Placed
  <2>2. StoredBefore(epochs, epoch)
    BY <1>4, <1>5, <1>7, Zenon DEF StoredBefore
  <2>. QED BY <2>1, <2>2, <1>2 DEF CacheShape
<1>9. \A id : storage_epoch(epochs, id) = {}
  BY <1>2, Zenon DEF NoEpochs, storage_epoch, InMemoryEpoch, SqLiteEpoch, get_epoch_data_index
<1>10. Memory
  <2>1. \A id : Lookup(id) = {}
    BY <1>2, <1>9, EmptyCaches, Zenon
  <2>. QED BY <2>1, <1>1, <1>2, <1>9, Zenon DEF Memory, LookupIsCurrent
<1>. QED BY <1>1, <1>3, <1>6, <1>8, <1>10, Zenon DEF RepoInv, Shape

LEMMA WriteFailsInv ==
    ASSUME RepoInv, WriteFails \/ UNCHANGED vars
    PROVE  RepoInv' /\ \A id : Lookup(id)' = Lookup(id)
<1>1. UNCHANGED <<config, loaded, epoch, used, inserts, updates, epochs, snapshot, newest,
                  accepted, durable>>
  BY Zenon DEF WriteFails, vars, repo, storage, history
<1>2. Shape' /\ \A id : Lookup(id)' = Lookup(id)
  <2>1. /\ used' \subseteq Messages /\ accepted' \subseteq (0 .. MaxEpoch) \X Messages
        /\ durable' \subseteq (0 .. MaxEpoch) \X Messages
    BY <1>1, Zenon DEF RepoInv, Shape, Types
  <2>. QED BY <2>1, <1>1, ShapeStays, Zenon DEF RepoInv
<1>3. LookupIsCurrent'
  BY <1>1, <1>2, Zenon DEF RepoInv, Memory, LookupIsCurrent
<1>4. Memory'
  BY <1>1, <1>3, ConfigStays, Zenon DEF RepoInv, Memory
<1>. QED BY <1>2, <1>4, Zenon DEF RepoInv

LEMMA NextInv == RepoInv /\ [Next]_vars => RepoInv'
<1> SUFFICES ASSUME RepoInv, [Next]_vars PROVE RepoInv'
  BY Zenon
<1>1. Shape /\ Memory
  BY Zenon DEF RepoInv
<1>2. CASE ApplyCommit
  BY <1>1, <1>2, CommitShape, CommitMemory, Zenon DEF RepoInv
<1>3. ASSUME NEW m \in Messages, ReceiveCurrent(m) PROVE RepoInv'
  BY <1>1, <1>3, CurrentMemory, Zenon DEF RepoInv
<1>4. ASSUME NEW m \in Messages, NEW id \in 0 .. MaxEpoch, ReceivePrior(id, m) PROVE RepoInv'
  BY <1>1, <1>4, PriorMemory, Zenon DEF RepoInv
<1>5. CASE WriteToStorage
  BY <1>1, <1>5, WriteShape, WriteMemory, Zenon DEF RepoInv
<1>6. CASE DeleteFails
  BY <1>1, <1>6, DeleteFailsShape, WriteMemory, Zenon DEF RepoInv
<1>7. CASE Crash \/ CrashBeforeDelete
  BY <1>1, <1>7, EndShape, EndMemory, Zenon DEF RepoInv
<1>8. CASE LoadGroup \/ JoinAgain
  BY <1>1, <1>8, RestartShape, RestartMemory, Zenon DEF RepoInv
<1>9. CASE DeleteGroup
  BY <1>1, <1>9, RestartShape, DeleteGroupMemory, Zenon DEF RepoInv
<1>10. CASE WriteFails \/ UNCHANGED vars
  BY <1>10, WriteFailsInv, Zenon
<1>. QED BY <1>2, <1>3, <1>4, <1>5, <1>6, <1>7, <1>8, <1>9, <1>10, Zenon DEF Next

LEMMA RepositoryInvariant == Spec /\ IndexedById => []RepoInv
BY InitInv, NextInv, PTL DEF Spec

\* Whatever commits, messages, writes, failures, crashes, reloads and (with SQLite)
\* second memberships there are, resumption_secret and get_epoch_mut find the record
\* of the epoch asked for, in the state that the last message of that epoch left it.
THEOREM LookupTheorem == Spec /\ IndexedById => []LookupIsCurrent
<1>1. RepoInv => LookupIsCurrent
  BY Zenon DEF RepoInv, Memory
<1>. QED BY <1>1, RepositoryInvariant, PTL

\* GroupStateRepository::insert never refuses the epoch that ends to a member that
\* has joined once.
THEOREM CommitTheorem == Spec /\ IndexedById => []CommitNeverRefused
<1>1. ASSUME RepoInv PROVE CommitNeverRefused
  <2> SUFFICES ASSUME loaded, ~config.may_rejoin, NEW max \in find_max_id
               PROVE  epoch = max + 1
    BY Zenon DEF CommitNeverRefused
  <2>1. /\ epoch \in Int /\ inserts \in Seq(PriorEpochs) /\ Len(inserts) \in Nat
        /\ \A i \in 1 .. Len(inserts) : inserts[i].id = epoch - Len(inserts) + i - 1
    BY <1>1, LoadedFacts, Zenon DEF RepoInv
  <2>2. CASE inserts # <<>>
    <3>1. Len(inserts) \in 1 .. Len(inserts) /\ inserts[Len(inserts)].id = epoch - 1
      BY <2>1, <2>2
    <3>. QED BY <3>1, <2>1, <2>2 DEF find_max_id
  <2>3. CASE inserts = <<>>
    <3>1. max \in max_epoch_id(epochs) /\ StoredBefore(epochs, epoch)
      BY <1>1, <2>3, Zenon DEF find_max_id, RepoInv, Shape, CacheShape
    <3>2. CASE InMemory
      <4>1. EndsBefore(epochs, epoch) /\ Len(epochs) \in Nat
        BY <3>1, <3>2 DEF StoredBefore, EndsBefore
      <4>2. Len(epochs) # 0 /\ max = epochs[Len(epochs)].id
        BY <3>1, <3>2, Zenon DEF max_epoch_id, InMemory
      <4>3. epochs[Len(epochs)].id = epoch - Len(epochs) + Len(epochs) - 1
        BY <4>1, <4>2 DEF EndsBefore
      <4>. QED BY <4>1, <4>2, <4>3, <2>1
    <3>3. CASE ~InMemory
      <4>1. max \in DOMAIN epochs /\ \A j \in DOMAIN epochs : j <= max
        BY <3>1, <3>3, Zenon DEF max_epoch_id, InMemory
      <4>2. epoch - 1 \in DOMAIN epochs /\ max < epoch
        BY <4>1, <3>1, <3>3, Zenon DEF StoredBefore
      <4>3. max \in Int
        BY <4>1, <3>3, <1>1, RecordFacts, Zenon DEF RepoInv, Shape, StorageShape, Table
      <4>. QED BY <4>1, <4>2, <4>3, <2>1
    <3>. QED BY <3>2, <3>3, Zenon
  <2>. QED BY <2>2, <2>3, Zenon
<1>. QED BY <1>1, RepositoryInvariant, PTL

\* No message is accepted twice, across epochs, writes, crashes and reloads.
THEOREM AcceptedOnceTheorem == Spec /\ IndexedById => AcceptedOnce
<1>1. ASSUME RepoInv, [Next]_vars PROVE [last' \cap accepted = {}]_vars
  <2>1. Shape /\ Memory
    BY <1>1, Zenon DEF RepoInv
  <2>2. ASSUME NEW m \in Messages, ReceiveCurrent(m) PROVE last' \cap accepted = {}
    BY <2>1, <2>2, CurrentMemory, Zenon
  <2>3. ASSUME NEW m \in Messages, NEW id \in 0 .. MaxEpoch, ReceivePrior(id, m)
        PROVE  last' \cap accepted = {}
    BY <2>1, <2>3, PriorMemory, Zenon
  <2>4. CASE \/ ApplyCommit \/ WriteToStorage \/ WriteFails \/ DeleteFails \/ Crash
             \/ CrashBeforeDelete \/ LoadGroup \/ JoinAgain \/ DeleteGroup
    <3>1. last' = {}
      BY <2>4, Zenon DEF ApplyCommit, WriteToStorage, WriteFails, DeleteFails, Crash, CrashBeforeDelete,
                  LoadGroup, JoinAgain, DeleteGroup
    <3>. QED BY <3>1, Zenon
  <2>. QED BY <1>1, <2>2, <2>3, <2>4, Zenon DEF Next
<1>. QED BY <1>1, RepositoryInvariant, PTL DEF Spec, AcceptedOnce

\* While the group is in memory, no write and no message makes an epoch unfindable
\* before max_epoch_retention newer ones have ended.
THEOREM RetentionTheorem == Spec /\ IndexedById => RetainedUntilLimit
<1> DEFINE Keeps == loaded /\ loaded' =>
        \A id \in 0 .. MaxEpoch :
            Lookup(id) # {} /\ Lookup(id)' = {} => id + max_epoch_retention < epoch
<1>1. ASSUME RepoInv, [Next]_vars PROVE Keeps
  <2> SUFFICES ASSUME loaded, loaded', NEW id \in 0 .. MaxEpoch, Lookup(id) # {}, Lookup(id)' = {}
               PROVE  id + max_epoch_retention < epoch
    BY Zenon
  <2>1. Shape /\ Memory /\ id \in Int /\ epoch \in Int
    BY <1>1, LoadedFacts DEF RepoInv
  <2>2. Dropped(inserts, epoch, id) => id + max_epoch_retention < epoch
    BY <2>1, Retention DEF Dropped
  <2>3. CASE ApplyCommit
    BY <2>1, <2>3, CommitShape, Zenon
  <2>4. ASSUME NEW m \in Messages, ReceiveCurrent(m) PROVE FALSE
    BY <2>1, <2>4, CurrentMemory, Zenon
  <2>5. ASSUME NEW m \in Messages, NEW j \in 0 .. MaxEpoch, ReceivePrior(j, m) PROVE FALSE
    BY <2>1, <2>5, PriorMemory, Zenon
  <2>6. CASE WriteToStorage
    BY <2>1, <2>2, <2>6, WriteShape, Zenon
  <2>7. CASE DeleteFails
    BY <2>1, <2>2, <2>7, DeleteFailsShape, Zenon
  <2>8. CASE Crash \/ CrashBeforeDelete \/ LoadGroup \/ JoinAgain \/ DeleteGroup
    BY <2>8, Zenon DEF Crash, CrashBeforeDelete, Ended, LoadGroup, JoinAgain, DeleteGroup
  <2>9. CASE WriteFails \/ UNCHANGED vars
    BY <1>1, <2>9, WriteFailsInv, Zenon
  <2>. QED BY <1>1, <2>3, <2>4, <2>5, <2>6, <2>7, <2>8, <2>9, Zenon DEF Next
<1>. QED BY <1>1, RepositoryInvariant, PTL DEF Spec, RetainedUntilLimit

-----------------------------------------------------------------------------
(* The repository implements EpochArchive                                  *)

\* The messages consumed in the epoch of the one record of a set
UsedIn(found) == (CHOOSE p \in found : TRUE).used

\* What the repository finds, and what storage holds, as archives
FoundArchive == [id \in {e \in 0 .. MaxEpoch : Lookup(e) # {}} |-> UsedIn(Lookup(id))]

StoredArchive ==
    [id \in {e \in 0 .. MaxEpoch : storage_epoch(epochs, e) # {}} |->
        UsedIn(storage_epoch(epochs, id))]

LEMMA UsedInOne ==
    (\A p : UsedIn({p}) = p.used) /\ (\A id, u : UsedIn({PriorEpoch(id, u)}) = u)
<1>1. \A p : UsedIn({p}) = p.used
  BY Zenon DEF UsedIn
<1>2. \A id, u : PriorEpoch(id, u).used = u
  BY Zenon DEF PriorEpoch
<1>. QED BY <1>1, <1>2, Zenon

LEMMA Views ==
    /\ Archived(Lookup) = FoundArchive /\ Archived(InStorage) = StoredArchive
    /\ Archived(Lookup)' = FoundArchive' /\ Archived(InStorage)' = StoredArchive'
BY Zenon DEF Archived, FoundArchive, StoredArchive, UsedIn, InStorage

LEMMA FoundNext ==
    FoundArchive' = [id \in {e \in 0 .. MaxEpoch : Lookup(e)' # {}} |-> UsedIn(Lookup(id)')]
BY Zenon DEF FoundArchive, UsedIn

LEMMA StoredNext ==
    ASSUME config' = config
    PROVE  StoredArchive' = [id \in {e \in 0 .. MaxEpoch : storage_epoch(epochs', e) # {}} |->
                                UsedIn(storage_epoch(epochs', id))]
<1>1. \A id : storage_epoch(epochs, id)' = storage_epoch(epochs', id)
  BY Zenon DEF storage_epoch
<1>2. StoredArchive' = [id \in {e \in 0 .. MaxEpoch : storage_epoch(epochs, e)' # {}} |->
                           UsedIn(storage_epoch(epochs, id)')]
  BY Zenon DEF StoredArchive, UsedIn
<1>. QED BY <1>1, <1>2

LEMMA FoundStays ==
    ASSUME \A id \in 0 .. MaxEpoch : Lookup(id)' = Lookup(id)
    PROVE  FoundArchive' = FoundArchive
BY FoundNext, Zenon DEF FoundArchive

LEMMA StoredStays ==
    ASSUME UNCHANGED <<config, epochs>>
    PROVE  StoredArchive' = StoredArchive
BY StoredNext, Zenon DEF StoredArchive

LEMMA InitRefines == Init /\ IndexedById => Archive!Init
<1> SUFFICES ASSUME Init, IndexedById PROVE Archive!Init
  BY Zenon
<1>1. \A id : storage_epoch(epochs, id) = {}
  BY Zenon DEF Init, NoEpochs, storage_epoch, InMemoryEpoch, SqLiteEpoch, get_epoch_data_index
<1>2. \A id : Lookup(id) = {}
  BY <1>1, EmptyCaches, Zenon DEF Init
<1>3. FoundArchive = [id \in {} |-> {}] /\ StoredArchive = [id \in {} |-> {}]
  BY <1>1, <1>2, Zenon DEF FoundArchive, StoredArchive
<1>. QED BY <1>3, Views, Zenon DEF Init, Archive!Init

\* An epoch can be inserted only next to the newest one that is found.
LEMMA NoGap ==
    ASSUME Shape, loaded, \A max \in find_max_id : epoch = max + 1,
           NEW id \in 0 .. MaxEpoch, Lookup(id) # {}
    PROVE  epoch - 1 \in 0 .. MaxEpoch /\ Lookup(epoch - 1) # {}
<1>0. /\ Placed(inserts, updates, epochs, epoch) /\ epoch \in Int /\ id \in Int
      /\ epoch - 1 \in Int /\ Len(inserts) \in Nat /\ epoch \in 0 .. MaxEpoch /\ MaxEpoch \in Nat
  BY LoadedFacts
<1>1. id < epoch
  BY <1>0, LookupFacts, Zenon
<1>2. PICK k \in 0 .. MaxEpoch : k = epoch - 1
  BY <1>0, <1>1
<1>3. CASE inserts # <<>>
  <2>1. Len(inserts) >= 1
    BY <1>0, <1>3, LoadedFacts
  <2>2. k >= epoch - Len(inserts) /\ k < epoch /\ k \in Int
    BY <2>1, <1>0, <1>2
  <2>3. Find(inserts, updates, epochs, k) = {inserts[k - epoch + Len(inserts) + 1]}
    BY <2>2, <1>0, FindInsert
  <2>. QED BY <2>3, <1>2, LookupIsFind, Zenon
<1>4. CASE inserts = <<>>
  <2>0. Len(inserts) = 0 /\ epoch - Len(inserts) = epoch
    BY <1>0, <1>4
  <2>1. storage_epoch(epochs, id) # {}
    <3>1. CASE \E i \in 1 .. Len(updates) : updates[i].id = id
      <4>1. ~write_fails(epochs, inserts)
        BY <1>4, <2>0 DEF write_fails, InsertConflicts
      <4>. QED BY <4>1, <3>1, Zenon DEF Shape, CacheShape
    <3>2. CASE \A i \in 1 .. Len(updates) : updates[i].id # id
      BY <3>2, <1>0, <1>1, <2>0, FindStored, LookupIsFind
    <3>. QED BY <3>1, <3>2, Zenon
  <2>2. StoredBefore(epochs, epoch) /\ (InMemory => EndsBefore(epochs, epoch))
        /\ (~InMemory => Table(epochs))
    <3>1. StoredBefore(epochs, epoch)
      BY <1>4, Zenon DEF Shape, CacheShape
    <3>. QED BY <3>1, <1>0, PlacedFacts, Zenon DEF StoredBefore
  <2>3. storage_epoch(epochs, epoch - 1) # {}
    <3>1. CASE InMemory
      <4>1. \A j \in Int : storage_epoch(epochs, j) # {} <=> j \in epoch - Len(epochs) .. epoch - 1
        BY <3>1, <2>2, <1>0, StorageFacts, Zenon
      <4>2. id \in epoch - Len(epochs) .. epoch - 1
        BY <4>1, <2>1, <1>0, Zenon
      <4>3. Len(epochs) \in Nat
        BY <3>1, <2>2 DEF EndsBefore
      <4>4. epoch - 1 \in epoch - Len(epochs) .. epoch - 1
        BY <4>2, <4>3, <1>0
      <4>5. epoch - 1 \in Int
        BY <1>0, Zenon
      <4>. QED BY <4>1, <4>4, <4>5, Zenon
    <3>2. CASE ~InMemory
      <4>1. \A j \in Int : storage_epoch(epochs, j) # {} <=> j \in DOMAIN epochs
        BY <3>2, <2>2, <1>0, StorageFacts, Zenon
      <4>2. DOMAIN epochs \in SUBSET (0 .. MaxEpoch) /\ HasGreatest(epochs)
        BY <3>2, <2>2, RecordFacts, Zenon DEF Table, Shape, StorageShape
      <4>3. PICK max \in DOMAIN epochs : \A j \in DOMAIN epochs : j <= max
        BY <4>1, <4>2, <2>1, <1>0, Zenon DEF HasGreatest
      <4>4. max \in find_max_id
        BY <4>3, <3>2, <1>4, Zenon DEF find_max_id, max_epoch_id, InMemory
      <4>5. max = epoch - 1
        BY <4>2, <4>3, <4>4, <1>0
      <4>. QED BY <4>1, <4>3, <4>5, <1>0, Zenon
    <3>. QED BY <3>1, <3>2, Zenon
  <2>4. Find(inserts, updates, epochs, k) # {}
    <3>0. k \in Int /\ k < epoch
      BY <1>0, <1>2
    <3>1. CASE \E i \in 1 .. Len(updates) : updates[i].id = k
      <4>1. PICK i \in 1 .. Len(updates) : updates[i].id = k
        BY <3>1, Zenon
      <4>2. Find(inserts, updates, epochs, k) = {updates[i]}
        BY <4>1, <3>0, <1>0, FindUpdate
      <4>. QED BY <4>2, Zenon
    <3>2. CASE \A i \in 1 .. Len(updates) : updates[i].id # k
      BY <3>0, <3>2, <1>0, <1>2, <2>0, <2>3, FindStored
    <3>. QED BY <3>1, <3>2, Zenon
  <2>. QED BY <2>4, <1>2, LookupIsFind, Zenon
<1>. QED BY <1>3, <1>4, Zenon


LEMMA CommitRefines ==
    ASSUME Shape, ApplyCommit
    PROVE  Archive!Advance
<1>1. /\ loaded /\ epoch \in Int /\ epoch \in 0 .. MaxEpoch /\ \A max \in find_max_id : epoch = max + 1
      /\ UNCHANGED <<config, loaded, epochs, snapshot>> /\ epoch' = epoch + 1
      /\ used' = {} /\ last' = {}
  BY LoadedFacts, Zenon DEF ApplyCommit, insert, PriorEpoch, storage
<1>2. DOMAIN FoundArchive = {e \in 0 .. MaxEpoch : Lookup(e) # {}}
  BY Zenon DEF FoundArchive
<1>3. DOMAIN FoundArchive # {} => epoch - 1 \in DOMAIN FoundArchive
  BY <1>1, <1>2, NoGap, Zenon
<1>4. epoch \notin DOMAIN FoundArchive
  BY <1>1, <1>2, LookupFacts
<1>5. \A id \in 0 .. MaxEpoch : Lookup(id)' = IF id = epoch THEN {PriorEpoch(epoch, used)} ELSE Lookup(id)
  BY CommitShape
<1>6. UsedIn({PriorEpoch(epoch, used)}) = used
  BY UsedInOne, Zenon
<1>7. FoundArchive' = [id \in DOMAIN FoundArchive \cup {epoch} |->
                          IF id = epoch THEN used ELSE FoundArchive[id]]
  BY <1>1, <1>5, <1>6, FoundNext, Zenon DEF FoundArchive
<1>8. StoredArchive' = StoredArchive
  BY <1>1, StoredStays, Zenon
<1>. QED BY <1>1, <1>3, <1>4, <1>7, <1>8, Views, Zenon DEF Archive!Advance

LEMMA CurrentRefines ==
    ASSUME Shape, Memory, NEW m \in Messages, ReceiveCurrent(m)
    PROVE  Archive!OpenCurrent
<1>1. PICK o \in Opened(epoch, used, m) : used' = o.used /\ last' = o.accepted
  BY Zenon DEF ReceiveCurrent
<1>2. loaded /\ UNCHANGED <<config, loaded, epoch, epochs, snapshot>>
  BY Zenon DEF ReceiveCurrent, storage
<1>3. used \in SUBSET Messages
  BY DEF Shape, Types
<1>4. Consumed(epoch, m, used, used', last')
  BY <1>1, <1>3, OpenedFacts, Zenon
<1>5. FoundArchive' = FoundArchive
  BY CurrentMemory, FoundStays, Zenon
<1>6. StoredArchive' = StoredArchive
  BY <1>2, StoredStays, Zenon
<1>. QED BY <1>2, <1>4, <1>5, <1>6, Views, Zenon DEF Archive!OpenCurrent, Archive!Consume, Consumed

LEMMA PriorRefines ==
    ASSUME Shape, Memory, NEW id \in 0 .. MaxEpoch, NEW m \in Messages, ReceivePrior(id, m)
    PROVE  id \in DOMAIN FoundArchive /\ Archive!OpenPrior(id)
<1>1. PICK p \in PriorEpochs, u \in SUBSET Messages :
          /\ Lookup(id) = {p}
          /\ \A j \in Int : Lookup(j)' = IF j = id THEN {PriorEpoch(id, u)} ELSE Lookup(j)
          /\ Consumed(id, m, p.used, u, last')
  BY PriorMemory, Zenon
<1>2. loaded /\ id # epoch /\ UNCHANGED <<config, loaded, epoch, used, epochs, snapshot>>
  BY Zenon DEF ReceivePrior, storage
<1>3. id \in DOMAIN FoundArchive /\ FoundArchive[id] = p.used
  BY <1>1, UsedInOne, Zenon DEF FoundArchive
<1>4. UsedIn({PriorEpoch(id, u)}) = u
  BY UsedInOne, Zenon
<1>5. \A j \in 0 .. MaxEpoch : Lookup(j)' = IF j = id THEN {PriorEpoch(id, u)} ELSE Lookup(j)
  BY <1>1
<1>6. FoundArchive' = [j \in DOMAIN FoundArchive |-> IF j = id THEN u ELSE FoundArchive[j]]
  BY <1>1, <1>4, <1>5, FoundNext, Zenon DEF FoundArchive
<1>7. /\ DOMAIN FoundArchive' = DOMAIN FoundArchive /\ FoundArchive'[id] = u
      /\ FoundArchive' = [FoundArchive EXCEPT ![id] = FoundArchive'[id]]
  <2>1. DOMAIN FoundArchive' = DOMAIN FoundArchive /\ FoundArchive'[id] = u
    BY <1>3, <1>6, Zenon
  <2>2. FoundArchive = [j \in DOMAIN FoundArchive |-> FoundArchive[j]]
    BY Zenon DEF FoundArchive
  <2>. QED BY <2>1, <2>2, <1>3, <1>6, Zenon
<1>8. StoredArchive' = StoredArchive
  BY <1>2, StoredStays, Zenon
<1>9. Archive!Consume(id, FoundArchive[id], FoundArchive'[id])
  BY <1>1, <1>3, <1>7, Zenon DEF Archive!Consume, Consumed
<1>. QED BY <1>2, <1>3, <1>7, <1>8, <1>9, Views, Zenon DEF Archive!OpenPrior

\* What a write keeps is what EpochArchive says must be retained.
LEMMA RetainedIs ==
    ASSUME Shape, Stored, config' = config, NEW id \in 0 .. MaxEpoch, Lookup(id) # {}
    PROVE  (\A n \in 0 .. MaxEpoch : Lookup(n) # {} => id > n - max_epoch_retention)
              <=> ~Dropped(inserts, epoch, id)
<1>0. /\ Placed(inserts, updates, epochs, epoch) /\ epoch \in Int /\ id \in Int
      /\ Len(inserts) \in Nat /\ epoch \in 0 .. MaxEpoch /\ MaxEpoch \in Nat /\ loaded
  <2>1. loaded
    BY Zenon DEF Stored
  <2>. QED BY <2>1, LoadedFacts
<1>1. \A n \in 0 .. MaxEpoch : Lookup(n) # {} => n < epoch
  BY <1>0, LookupFacts
<1>2. CASE inserts # <<>>
  <2>1. PICK k \in 0 .. MaxEpoch : k = epoch - 1
    BY <1>0, <1>1
  <2>2. k >= epoch - Len(inserts) /\ k < epoch /\ k \in Int
    BY <1>0, <1>2, <2>1, LoadedFacts
  <2>3. Find(inserts, updates, epochs, k) = {inserts[k - epoch + Len(inserts) + 1]}
    BY <2>2, <1>0, FindInsert
  <2>4. Lookup(k) # {}
    BY <2>3, LookupIsFind, Zenon
  <2>5. ~Dropped(inserts, epoch, id) <=> id > k - max_epoch_retention
    BY <2>1, <1>0, <1>2, Retention DEF Dropped
  <2>6. ASSUME id > k - max_epoch_retention, NEW n \in 0 .. MaxEpoch, Lookup(n) # {}
        PROVE  id > n - max_epoch_retention
    BY <2>6, <2>1, <1>0, <1>1, Retention
  <2>. QED BY <2>4, <2>5, <2>6, Zenon
<1>3. CASE inserts = <<>>
  <2>1. \A n \in 0 .. MaxEpoch : ~Dropped(inserts, epoch, n) /\ storage_epoch(epochs', n) = Lookup(n)
    BY <1>3, StoredShape DEF Dropped
  <2>2. ASSUME NEW n \in 0 .. MaxEpoch, Lookup(n) # {} PROVE id > n - max_epoch_retention
    <3>0. n \in Int /\ storage_epoch(epochs', n) # {} /\ storage_epoch(epochs', id) # {}
      BY <2>1, <2>2
    <3>1. CASE InMemory
      <4>1. EndsBefore(epochs', epoch) /\ Len(epochs') <= max_epoch_retention /\ Len(epochs') \in Nat
        BY <3>1, StoredShape DEF EndsBefore
      <4>2. \A j \in Int : storage_epoch(epochs', j) # {} <=> j \in epoch - Len(epochs') .. epoch - 1
        BY <3>1, <4>1, <1>0, StorageFacts, Zenon
      <4>. QED BY <4>1, <4>2, <3>0, <1>0, Retention
    <3>2. CASE ~InMemory
      <4>1. Table(epochs') /\ \A i, j \in DOMAIN epochs' : i > j - max_epoch_retention
        BY <3>2, StoredShape, Zenon
      <4>2. \A j \in Int : storage_epoch(epochs', j) # {} <=> j \in DOMAIN epochs'
        BY <3>2, <4>1, <1>0, StorageFacts, Zenon
      <4>. QED BY <4>1, <4>2, <3>0, <1>0, Zenon
    <3>. QED BY <3>1, <3>2, Zenon
  <2>. QED BY <2>1, <2>2, Zenon
<1>. QED BY <1>2, <1>3, Zenon

LEMMA StoredRefines ==
    ASSUME Shape, Stored, config' = config, last' = {}
    PROVE  /\ Archive!Save
           /\ Archive!Retained = {id \in DOMAIN FoundArchive : ~Dropped(inserts, epoch, id)}
           /\ StoredArchive' = [id \in Archive!Retained |-> FoundArchive[id]]
<1>1. loaded /\ snapshot' = {[epoch |-> epoch, used |-> used]}
  BY Zenon DEF Stored
<1>2. DOMAIN FoundArchive = {e \in 0 .. MaxEpoch : Lookup(e) # {}}
      /\ \A id \in DOMAIN FoundArchive : FoundArchive[id] = UsedIn(Lookup(id))
  BY Zenon DEF FoundArchive
<1>3. Archive!Retained = {id \in DOMAIN FoundArchive :
                             \A n \in DOMAIN FoundArchive : id > n - max_epoch_retention}
  BY Views, Zenon DEF Archive!Retained
<1>4. Archive!Retained = {id \in DOMAIN FoundArchive : ~Dropped(inserts, epoch, id)}
  <2>1. \A id \in DOMAIN FoundArchive :
          (\A n \in DOMAIN FoundArchive : id > n - max_epoch_retention)
              <=> ~Dropped(inserts, epoch, id)
    BY <1>2, RetainedIs, Zenon
  <2>. QED BY <1>3, <2>1, Zenon
<1>5. \A id \in 0 .. MaxEpoch : storage_epoch(epochs', id) =
          IF Dropped(inserts, epoch, id) THEN {} ELSE Lookup(id)
  BY StoredShape
<1>6. StoredArchive' = [id \in Archive!Retained |-> FoundArchive[id]]
  BY <1>2, <1>4, <1>5, StoredNext, Zenon
<1>. QED BY <1>1, <1>4, <1>6, Views, Zenon DEF Archive!Save, Archive!Restricted

LEMMA SaveRefines ==
    ASSUME Shape, WriteToStorage \/ DeleteFails
    PROVE  Archive!SaveAndContinue
<1>1. Stored /\ config' = config /\ last' = {} /\ UNCHANGED <<loaded, epoch, used>>
  BY Zenon DEF WriteToStorage, DeleteFails
<1>2. \A id \in 0 .. MaxEpoch :
          Lookup(id)' = Lookup(id) \/ (Lookup(id)' = {} /\ Dropped(inserts, epoch, id))
  BY WriteShape, DeleteFailsShape
<1>3. DOMAIN FoundArchive = {e \in 0 .. MaxEpoch : Lookup(e) # {}}
      /\ DOMAIN FoundArchive' = {e \in 0 .. MaxEpoch : Lookup(e)' # {}}
  BY FoundNext, Zenon DEF FoundArchive
<1>4. DOMAIN FoundArchive' \subseteq DOMAIN FoundArchive
  BY <1>2, <1>3, Zenon
<1>5. FoundArchive' = [id \in DOMAIN FoundArchive' |-> FoundArchive[id]]
  BY <1>2, <1>3, FoundNext, Zenon DEF FoundArchive
<1>6. /\ Archive!Save
      /\ Archive!Retained = {id \in DOMAIN FoundArchive : ~Dropped(inserts, epoch, id)}
  BY <1>1, StoredRefines, Zenon
<1>7. Archive!Retained \subseteq DOMAIN FoundArchive'
  BY <1>2, <1>3, <1>6, Zenon
<1>. QED BY <1>1, <1>4, <1>5, <1>6, <1>7, Views, Zenon DEF Archive!SaveAndContinue, Archive!Restricted

\* With empty caches what is found is what is stored.
LEMMA EndRefines ==
    ASSUME config' = config, inserts' = <<>>, updates' = <<>>
    PROVE  FoundArchive' = StoredArchive'
BY EmptyCaches, FoundNext, StoredNext, Zenon

LEMMA StopRefines ==
    ASSUME Shape, Crash
    PROVE  Archive!Stop
<1>1. /\ loaded /\ last' = {} /\ UNCHANGED <<config, epoch, used, epochs, snapshot>>
      /\ inserts' = <<>> /\ updates' = <<>>
  BY Zenon DEF Crash, Ended, storage
<1>2. loaded' = FALSE
  BY Zenon DEF Crash, Ended
<1>3. FoundArchive' = StoredArchive /\ StoredArchive' = StoredArchive
  BY <1>1, EndRefines, StoredStays, Zenon
<1>. QED BY <1>1, <1>2, <1>3, Views, Zenon DEF Archive!Stop

LEMMA SaveAndStopRefines ==
    ASSUME Shape, CrashBeforeDelete
    PROVE  Archive!SaveAndStop
<1>1. /\ Stored /\ last' = {} /\ UNCHANGED <<config, epoch, used>>
      /\ inserts' = <<>> /\ updates' = <<>>
  BY Zenon DEF CrashBeforeDelete, Ended
<1>2. loaded' = FALSE
  BY Zenon DEF CrashBeforeDelete, Ended
<1>3. FoundArchive' = StoredArchive'
  BY <1>1, EndRefines, Zenon
<1>4. Archive!Save
  BY <1>1, StoredRefines, Zenon
<1>. QED BY <1>1, <1>2, <1>3, <1>4, Views, Zenon DEF Archive!SaveAndStop

LEMMA LoadRefines ==
    ASSUME Shape, LoadGroup
    PROVE  Archive!Load
<1>1. /\ ~loaded /\ last' = {} /\ UNCHANGED <<config, inserts, updates, epochs, snapshot>>
  BY Zenon DEF LoadGroup, repo, storage
<1>2. loaded' = TRUE
  BY Zenon DEF LoadGroup
<1>3. snapshot = {[epoch |-> epoch', used |-> used']}
  BY DEF LoadGroup, Shape, Types
<1>4. \A id : Lookup(id)' = Lookup(id)
  BY <1>1, EmptyCaches, Zenon DEF Shape
<1>5. FoundArchive' = FoundArchive /\ StoredArchive' = StoredArchive
  BY <1>1, <1>4, FoundStays, StoredStays, Zenon
<1>. QED BY <1>1, <1>2, <1>3, <1>5, Views, Zenon DEF Archive!Load

LEMMA JoinRefines ==
    ASSUME Shape, JoinAgain
    PROVE  Archive!JoinAgain
<1>1. /\ ~loaded /\ last' = {} /\ used' = {}
      /\ UNCHANGED <<config, inserts, updates, epochs, snapshot>>
      /\ epoch' \in newest + 1 .. MaxEpoch /\ config.may_rejoin
  BY Zenon DEF JoinAgain
<1>2. loaded' = TRUE
  BY Zenon DEF JoinAgain
<1>3. /\ epoch \in Int /\ newest \in Int /\ epoch <= newest /\ MaxEpoch \in Int
      /\ inserts = <<>> /\ updates = <<>> /\ config \in Configurations
      /\ config.backend = "SqLite" /\ StorageShape
  BY <1>1, RepositoryAssumption DEF Shape, Types, IndexedById
<1>4. ~InMemory /\ Table(epochs) /\ \A id \in DOMAIN epochs : id < newest
  BY <1>3, Backend, Zenon DEF StorageShape
<1>5. \A id : Lookup(id)' = Lookup(id)
  BY <1>1, <1>3, EmptyCaches, Zenon
<1>6. \A id \in 0 .. MaxEpoch : Lookup(id) # {} => id \in DOMAIN epochs
  BY <1>3, <1>4, StorageFacts, EmptyCaches
<1>7. \A id \in DOMAIN FoundArchive : epoch' > id
  BY <1>1, <1>3, <1>4, <1>6 DEF FoundArchive
<1>8. FoundArchive' = FoundArchive /\ StoredArchive' = StoredArchive
  BY <1>1, <1>5, FoundStays, StoredStays, Zenon
<1>9. epoch' > epoch
  BY <1>1, <1>3
<1>. QED BY <1>1, <1>2, <1>7, <1>8, <1>9, Views, Zenon DEF Archive!JoinAgain

LEMMA DeleteRefines ==
    ASSUME Shape, DeleteGroup
    PROVE  Archive!Delete
<1>1. /\ ~loaded /\ snapshot' = {} /\ last' = {}
      /\ UNCHANGED <<config, loaded, epoch, used, inserts, updates>> /\ epochs' = NoEpochs
  BY Zenon DEF DeleteGroup, repo
<1>2. inserts' = <<>> /\ updates' = <<>>
  BY <1>1, Zenon DEF Shape
<1>3. \A id : storage_epoch(epochs', id) = {}
  BY <1>1, Zenon DEF NoEpochs, storage_epoch, InMemoryEpoch, SqLiteEpoch, get_epoch_data_index
<1>4. StoredArchive' = [id \in {} |-> {}] /\ FoundArchive' = StoredArchive'
  BY <1>1, <1>2, <1>3, StoredNext, EndRefines, Zenon
<1>. QED BY <1>1, <1>4, Views, Zenon DEF Archive!Delete

LEMMA FailureRefines ==
    ASSUME RepoInv, WriteFails \/ UNCHANGED vars
    PROVE  [Archive!Next]_(Archive!vars)
<1>1. UNCHANGED <<config, loaded, epoch, used, epochs, snapshot>>
  BY Zenon DEF WriteFails, vars, repo, storage
<1>2. FoundArchive' = FoundArchive /\ StoredArchive' = StoredArchive
  BY <1>1, WriteFailsInv, FoundStays, StoredStays, Zenon
<1>3. CASE WriteFails
  <2>1. last' = {}
    BY <1>3, Zenon DEF WriteFails
  <2>2. Archive!Refused
    BY <2>1, <1>1, <1>2, Views, Zenon DEF Archive!Refused
  <2>. QED BY <2>2, Zenon DEF Archive!Next
<1>4. CASE UNCHANGED vars
  <2>1. last' = last
    BY <1>4, Zenon DEF vars
  <2>2. UNCHANGED Archive!vars
    BY <2>1, <1>1, <1>2, Views, Zenon DEF Archive!vars
  <2>. QED BY <2>2, Zenon
<1>. QED BY <1>3, <1>4, Zenon

LEMMA NextRefines == RepoInv /\ [Next]_vars => [Archive!Next]_(Archive!vars)
<1> SUFFICES ASSUME RepoInv, [Next]_vars PROVE [Archive!Next]_(Archive!vars)
  BY Zenon
<1>1. Shape /\ Memory
  BY DEF RepoInv
<1>2. CASE ApplyCommit
  BY <1>1, <1>2, CommitRefines, Zenon DEF Archive!Next
<1>3. ASSUME NEW m \in Messages, ReceiveCurrent(m) PROVE Archive!Next
  BY <1>1, <1>3, CurrentRefines, Zenon DEF Archive!Next
<1>4. ASSUME NEW m \in Messages, NEW id \in 0 .. MaxEpoch, ReceivePrior(id, m) PROVE Archive!Next
  BY <1>1, <1>4, PriorRefines, Views, Zenon DEF Archive!Next
<1>5. CASE WriteToStorage \/ DeleteFails
  BY <1>1, <1>5, SaveRefines, Zenon DEF Archive!Next
<1>6. CASE Crash
  BY <1>1, <1>6, StopRefines, Zenon DEF Archive!Next
<1>7. CASE CrashBeforeDelete
  BY <1>1, <1>7, SaveAndStopRefines, Zenon DEF Archive!Next
<1>8. CASE LoadGroup
  BY <1>1, <1>8, LoadRefines, Zenon DEF Archive!Next
<1>9. CASE JoinAgain
  BY <1>1, <1>9, JoinRefines, Zenon DEF Archive!Next
<1>10. CASE DeleteGroup
  BY <1>1, <1>10, DeleteRefines, Zenon DEF Archive!Next
<1>11. CASE WriteFails \/ UNCHANGED vars
  BY <1>11, FailureRefines, Zenon
<1>. QED BY <1>2, <1>3, <1>4, <1>5, <1>6, <1>7, <1>8, <1>9, <1>10, <1>11, Zenon DEF Next

\* With either provider the repository keeps the promise of EpochArchive: an epoch
\* is archived exactly when it ends, each access sees the latest copy of its
\* secrets, and a crash falls back to one earlier write as a whole.
THEOREM ArchiveTheorem == Spec /\ IndexedById => ImplementsEpochArchive
<1>1. Spec /\ IndexedById => []RepoInv
  BY RepositoryInvariant, Zenon
<1>. QED BY <1>1, InitRefines, NextRefines, PTL DEF Spec, ImplementsEpochArchive, Archive!Spec

==============================================================================
