------------------------- MODULE GroupStateRepository -------------------------
(***************************************************************************)
(* GroupStateRepository (mls-rs/src/group/state_repo.rs): the prior epochs *)
(* of one group, split between the epochs that are not yet written         *)
(* (inserts), the stored epochs whose secrets have changed since they were *)
(* loaded (updates) and the storage provider; with the group that drives   *)
(* it (commits that move to the next epoch, messages of the current and of *)
(* prior epochs), the snapshot, the key package that joining used, and the *)
(* process that may crash and load the group again.                        *)
(***************************************************************************)
EXTENDS GroupStateStorage

CONSTANTS
    Messages,        \* the messages sent in one epoch
    MaxEpoch,        \* bound of the model
    KeyPackage       \* the key package a Welcome was encrypted to

\* A configuration says which provider there is, whether its write and the
\* deletion of a key package may return an error, and whether the member may join
\* the group a second time.
ASSUME RepositoryAssumption ==
    /\ MaxEpoch \in Nat \ {0}
    /\ Configurations \subseteq [backend : {"InMemory", "SqLite"}, storage_may_fail : BOOLEAN,
                                 delete_may_fail : BOOLEAN, may_rejoin : BOOLEAN]

VARIABLES
    loaded,        \* the process holds a Group for this group id
    epoch,         \* group.context.epoch
    used,          \* messages of the current epoch whose keys were consumed
    inserts,       \* pending_commit.inserts : sequence of prior epochs
    updates,       \* pending_commit.updates : sequence of prior epochs
    removal,       \* pending_key_package_removal : {} or {KeyPackage}
    epochs,        \* the prior epochs in group storage
    snapshot,      \* the stored snapshot : {} or {[epoch, used]}
    key_packages,  \* the key package storage
    newest,        \* history: the newest epoch the group has reached
    accepted,      \* history: the messages this process has accepted
    durable,       \* history: the messages accepted when storage was written
    last           \* the message accepted by the last step : {} or {<<epoch, message>>}

repo == <<inserts, updates, removal>>
storage == <<epochs, snapshot, key_packages>>
history == <<newest, accepted, durable>>
vars == <<config, loaded, epoch, used, repo, storage, history, last>>

PriorEpoch(id, u) == [id |-> id, used |-> u]

-----------------------------------------------------------------------------
(* The repository's reads.                                                 *)

\* find_max_id
find_max_id ==
    IF inserts # <<>> THEN {inserts[Len(inserts)].id} ELSE max_epoch_id(epochs)

\* The inserts cache answers for every id from its front on.
InInserts(id) == inserts # <<>> /\ id >= inserts[1].id

\* Its slot for an id, counted from 1; None past the back
InsertSlot(id) == {id - inserts[1].id + 1} \cap (1 .. Len(inserts))

\* Faulty: the updates are not searched.
find_pendingNone(id) == {}

\* find_pending: the first position of the epoch in the updates cache
find_pending(id) ==
    {i \in 1 .. Len(updates) :
        /\ updates[i].id = id
        /\ \A j \in 1 .. i - 1 : updates[j].id # id}

\* What resumption_secret and get_epoch_mut find for an epoch
Lookup(id) ==
    IF InInserts(id) THEN {inserts[i] : i \in InsertSlot(id)}
    ELSE IF find_pending(id) # {} THEN {updates[i] : i \in find_pending(id)}
    ELSE storage_epoch(epochs, id)

-----------------------------------------------------------------------------
(* The group starts as the creator's, or joins through a Welcome.          *)

Init ==
    /\ config \in Configurations
    /\ loaded = TRUE
    /\ used = {}
    /\ inserts = <<>> /\ updates = <<>>
    /\ epochs = NoEpochs
    /\ snapshot = {}
    /\ \/ epoch = 0 /\ removal = {} /\ key_packages = {}
       \/ epoch = 1 /\ removal = {KeyPackage} /\ key_packages = {KeyPackage}
    /\ newest = epoch
    /\ accepted = {} /\ durable = {} /\ last = {}

\* GroupStateRepository::insert refuses an epoch that does not follow the last.
insert(prior) ==
    /\ \A max \in find_max_id : prior.id = max + 1
    /\ inserts' = Append(inserts, prior)

\* A commit is applied: insert_past_epoch stores the epoch that ends, and the
\* group moves on with fresh secrets.
ApplyCommit ==
    /\ loaded /\ epoch < MaxEpoch
    /\ insert(PriorEpoch(epoch, used))
    /\ epoch' = epoch + 1
    /\ used' = {}
    /\ newest' = IF epoch' > newest THEN epoch' ELSE newest
    /\ last' = {}
    /\ UNCHANGED <<config, loaded, updates, removal, storage, accepted, durable>>

\* What opening a message does to the secrets of its epoch: nothing when the
\* message is refused before its key is taken; otherwise the key is consumed,
\* and the message is accepted unless decryption or the signature check fails.
Opened(id, u, m) ==
    {[used |-> u, accepted |-> {}]} \cup
    {[used |-> u \cup {m}, accepted |-> a] : a \in IF m \in u THEN {} ELSE {{}, {<<id, m>>}}}

ReceiveCurrent(m) ==
    /\ loaded
    /\ \E o \in Opened(epoch, used, m) :
          /\ used' = o.used
          /\ last' = o.accepted
          /\ accepted' = accepted \cup last'
    /\ UNCHANGED <<config, loaded, epoch, repo, storage, newest, durable>>

\* A message of a prior epoch: get_epoch_mut finds the epoch, copying it from
\* storage to the updates on the first access; the copy stays when the message
\* is refused.
get_epoch_mut(id, u) ==
    \/ /\ InInserts(id)
       /\ inserts' = [i \in 1 .. Len(inserts) |->
                        IF i \in InsertSlot(id) THEN PriorEpoch(inserts[i].id, u) ELSE inserts[i]]
       /\ UNCHANGED updates
    \/ /\ ~InInserts(id) /\ find_pending(id) # {}
       /\ updates' = [i \in 1 .. Len(updates) |->
                        IF i \in find_pending(id) THEN PriorEpoch(updates[i].id, u) ELSE updates[i]]
       /\ UNCHANGED inserts
    \/ /\ ~InInserts(id) /\ find_pending(id) = {}
       /\ \E prior \in storage_epoch(epochs, id) :
             updates' = Append(updates, PriorEpoch(prior.id, u))
       /\ UNCHANGED inserts

ReceivePrior(id, m) ==
    /\ loaded
    /\ id # epoch
    /\ \E prior \in Lookup(id) : \E o \in Opened(id, prior.used, m) :
          /\ get_epoch_mut(id, o.used)
          /\ last' = o.accepted
          /\ accepted' = accepted \cup last'
    /\ UNCHANGED <<config, loaded, epoch, used, removal, storage, newest, durable>>

\* write_to_storage: the provider's write, which is a transaction; then the
\* key package used to join is deleted from the other store; then the caches
\* are cleared.  An error ends the call, and the process may end in between.
Stored ==
    /\ loaded
    /\ ~write_fails(epochs, inserts)
    /\ epochs' = storage_write(epochs, inserts, updates)
    /\ snapshot' = {[epoch |-> epoch, used |-> used]}
    /\ durable' = accepted

WriteToStorage ==
    /\ Stored
    /\ key_packages' = key_packages \ removal
    /\ inserts' = <<>> /\ updates' = <<>>
    /\ last' = {}
    /\ UNCHANGED <<config, loaded, epoch, used, removal, newest, accepted>>

WriteFails ==
    /\ loaded
    /\ config.storage_may_fail \/ write_fails(epochs, inserts)
    /\ last' = {}
    /\ UNCHANGED <<config, loaded, epoch, used, repo, storage, history>>

DeleteFails ==
    /\ config.delete_may_fail /\ removal # {}
    /\ Stored
    /\ last' = {}
    /\ UNCHANGED <<config, loaded, epoch, used, repo, key_packages, newest, accepted>>

\* The process ends and what was not written is gone.
Ended ==
    /\ loaded' = FALSE
    /\ inserts' = <<>> /\ updates' = <<>> /\ removal' = {}

Crash ==
    /\ loaded
    /\ Ended
    /\ accepted' = durable
    /\ last' = {}
    /\ UNCHANGED <<config, epoch, used, storage, newest, durable>>

CrashBeforeDelete ==
    /\ removal # {}
    /\ Stored
    /\ Ended
    /\ last' = {}
    /\ UNCHANGED <<config, epoch, used, key_packages, newest, accepted>>

\* Client::load_group and Group::from_snapshot
LoadGroup ==
    /\ ~loaded
    /\ \E s \in snapshot : epoch' = s.epoch /\ used' = s.used
    /\ loaded' = TRUE
    /\ last' = {}
    /\ UNCHANGED <<config, repo, storage, history>>

\* The member was removed and joins the same group again at a later epoch, with
\* the records of its first membership still in storage.
JoinAgain ==
    /\ config.may_rejoin /\ ~loaded
    /\ \E e \in newest + 1 .. MaxEpoch : epoch' = e /\ newest' = e
    /\ used' = {}
    /\ loaded' = TRUE
    /\ removal' = {KeyPackage}
    /\ key_packages' = key_packages \cup {KeyPackage}
    /\ last' = {}
    /\ UNCHANGED <<config, inserts, updates, epochs, snapshot, accepted, durable>>

\* delete_group, called by the application between two memberships
DeleteGroup ==
    /\ ~loaded /\ snapshot # {}
    /\ epochs' = NoEpochs
    /\ snapshot' = {}
    /\ last' = {}
    /\ UNCHANGED <<config, loaded, epoch, used, repo, key_packages, history>>

Next ==
    \/ ApplyCommit
    \/ \E m \in Messages : ReceiveCurrent(m) \/ \E id \in 0 .. MaxEpoch : ReceivePrior(id, m)
    \/ WriteToStorage \/ WriteFails \/ DeleteFails
    \/ Crash \/ CrashBeforeDelete \/ LoadGroup \/ JoinAgain \/ DeleteGroup

Spec == Init /\ [][Next]_vars

-----------------------------------------------------------------------------
(* Properties                                                              *)

IsPriorEpoch(r) ==
    DOMAIN r = {"id", "used"} /\ r.id \in 0 .. newest - 1 /\ r.used \subseteq Messages

\* Every variable holds values of its type, and every record that insert and
\* write handle is of an epoch that has ended.
TypeOK ==
    /\ loaded \in BOOLEAN
    /\ epoch \in 0 .. MaxEpoch /\ newest \in epoch .. MaxEpoch
    /\ used \subseteq Messages
    /\ \A i \in DOMAIN inserts : IsPriorEpoch(inserts[i])
    /\ \A i \in DOMAIN updates : IsPriorEpoch(updates[i])
    /\ \A i \in DOMAIN epochs : IsPriorEpoch(epochs[i])
    /\ removal \subseteq {KeyPackage} /\ key_packages \subseteq {KeyPackage}
    /\ \A s \in snapshot : s.epoch \in 0 .. MaxEpoch /\ s.used \subseteq Messages
    /\ durable \cup accepted \cup last \subseteq (0 .. MaxEpoch) \X Messages

\* The index arithmetic of the inserts deque and of the in-memory store finds the
\* record of the epoch that was asked for, and that record remembers every
\* message of its epoch that was accepted: neither a stale copy in storage nor a
\* neighbouring record is ever used.
LookupIsCurrent ==
    loaded =>
    /\ \A id \in 0 .. MaxEpoch : \A prior \in Lookup(id) :
          prior.id = id /\ \A m \in Messages : <<id, m>> \in accepted => m \in prior.used
    /\ \A m \in Messages : <<epoch, m>> \in accepted => m \in used

\* A message is accepted at most once, in whatever epoch the group is when it
\* arrives: a crash forgets only what was accepted after the last write.
AcceptedOnce == [][last' \cap accepted = {}]_vars

\* While the process runs, a prior epoch that can be found stays findable until
\* max_epoch_retention newer ones have ended: neither a cache that is cleared
\* nor a trim in storage drops it early.
RetainedUntilLimit ==
    [][loaded /\ loaded' =>
        \A id \in 0 .. MaxEpoch :
            Lookup(id) # {} /\ Lookup(id)' = {} => id + max_epoch_retention < epoch]_vars

\* A member that joins once is never refused by insert (InvalidEpoch): the epoch
\* that ends is the one after the newest stored or pending, also after a crash
\* that lost some epochs and a reload.
CommitNeverRefused ==
    loaded /\ ~config.may_rejoin => \A max \in find_max_id : epoch = max + 1

\* EpochRecord.id is "a unique epoch identifier within a particular group".
StoredIdsUnique ==
    \A i, j \in DOMAIN epochs : epochs[i].id = epochs[j].id => i = j

\* A key package is erased once it was used to join a group: no successful write
\* of the joined group leaves it behind.
KeyPackageErased == [][WriteToStorage => KeyPackage \notin key_packages']_vars

\* Whatever the provider, the repository is an EpochArchive: an epoch is archived
\* exactly when it ends, every later access sees the latest copy of its secrets,
\* and a crash falls back to one consistent earlier write.
Archived(Found(_)) ==
    [id \in {e \in 0 .. MaxEpoch : Found(e) # {}} |-> (CHOOSE p \in Found(id) : TRUE).used]

InStorage(id) == storage_epoch(epochs, id)

Archive == INSTANCE EpochArchive WITH
    archive <- Archived(Lookup), saved <- snapshot, stored <- Archived(InStorage)

ImplementsEpochArchive == Archive!Spec

==============================================================================
