-------------------------- MODULE GroupStateStorage --------------------------
(***************************************************************************)
(* The two providers of the GroupStateStorage trait, as operators on what  *)
(* they hold for one group:                                                *)
(*   - InMemoryGroupStateStorage, a VecDeque of epoch records addressed by *)
(*     the distance from the id of the front record                        *)
(*     (mls-rs/src/storage_provider/in_memory/group_state_storage.rs);     *)
(*   - SqLiteGroupStateStorage, a table keyed by epoch id                  *)
(*     (mls-rs-provider-sqlite/src/group_state.rs).                        *)
(* A record is [id, used]: used stands for the state of the secret tree of *)
(* that epoch, as the set of messages whose keys were consumed.  An Option *)
(* is a set with at most one element.                                      *)
(***************************************************************************)
EXTENDS Integers, Sequences, FiniteSets

CONSTANTS
    Configurations,      \* what a client may be configured with
    max_epoch_retention

ASSUME StorageAssumption ==
    /\ \A c \in Configurations : c.backend \in {"InMemory", "SqLite"}
    /\ max_epoch_retention \in Nat \ {0}

VARIABLE config          \* the configuration of this client

-----------------------------------------------------------------------------
(* InMemoryGroupData                                                       *)

\* get_epoch_data_index, counted from 1; None below the front id
get_epoch_data_index(epochs, id) ==
    IF epochs # <<>> /\ id >= epochs[1].id THEN {id - epochs[1].id + 1} ELSE {}

InMemoryEpoch(epochs, id) ==
    {epochs[i] : i \in get_epoch_data_index(epochs, id) \cap (1 .. Len(epochs))}

\* Faulty: updates are not written.
UpdatedNever(epochs, updates) == epochs

\* update_epoch for each update in turn: the slot named by the id is replaced,
\* an update without a slot is dropped.  An update never changes the front id.
Updated(epochs, updates) ==
    [i \in 1 .. Len(epochs) |->
        LET hits == {j \in 1 .. Len(updates) :
                        i \in get_epoch_data_index(epochs, updates[j].id)}
        IN  IF hits = {} THEN epochs[i]
            ELSE updates[CHOOSE j \in hits : \A k \in hits : k <= j]]

\* Faulty: the newest records are dropped.
trim_epochsBack(epochs) ==
    SubSeq(epochs, 1, IF Len(epochs) > max_epoch_retention THEN max_epoch_retention
                      ELSE Len(epochs))

\* Faulty: one record too few is kept.
trim_epochsShort(epochs) ==
    IF Len(epochs) >= max_epoch_retention
    THEN SubSeq(epochs, Len(epochs) - max_epoch_retention + 2, Len(epochs)) ELSE epochs

\* Faulty: nothing is dropped.
trim_epochsNever(epochs) == epochs

\* trim_epochs pops the front while there are more than max_epoch_retention
trim_epochs(epochs) ==
    LET excess == Len(epochs) - max_epoch_retention
    IN  IF excess > 0 THEN [i \in 1 .. max_epoch_retention |-> epochs[i + excess]]
        ELSE epochs

InMemoryWrite(epochs, inserts, updates) ==
    trim_epochs(Updated(epochs \o inserts, updates))

-----------------------------------------------------------------------------
(* The epoch table of SQLite, a function from epoch id to record.           *)

SqLiteEpoch(epochs, id) == {epochs[i] : i \in {id} \cap DOMAIN epochs}

\* INSERT fails on a (group_id, epoch_id) that exists, and the whole
\* transaction is rolled back.
InsertConflicts(epochs, inserts) ==
    \/ \E j \in 1 .. Len(inserts) : inserts[j].id \in DOMAIN epochs
    \/ \E j, k \in 1 .. Len(inserts) : j # k /\ inserts[j].id = inserts[k].id

SqLiteInserted(epochs, inserts) ==
    [id \in (DOMAIN epochs) \cup {inserts[j].id : j \in 1 .. Len(inserts)} |->
        IF id \in DOMAIN epochs THEN epochs[id]
        ELSE inserts[CHOOSE j \in 1 .. Len(inserts) : inserts[j].id = id]]

SqLiteUpdated(epochs, updates) ==
    [id \in DOMAIN epochs |->
        LET hits == {j \in 1 .. Len(updates) : updates[j].id = id}
        IN  IF hits = {} THEN epochs[id]
            ELSE updates[CHOOSE j \in hits : \A k \in hits : k <= j]]

Deleted(id, max_id) == id <= max_id - max_epoch_retention

\* Insert, update, then delete what is max_epoch_retention or more below the
\* last inserted id; without inserts nothing is deleted.
SqLiteWrite(epochs, inserts, updates) ==
    LET rows == SqLiteUpdated(SqLiteInserted(epochs, inserts), updates)
    IN  [id \in {id \in DOMAIN rows :
                    inserts # <<>> => ~Deleted(id, inserts[Len(inserts)].id)} |-> rows[id]]

-----------------------------------------------------------------------------
(* The trait                                                               *)

NoEpochs == IF config.backend = "InMemory" THEN <<>> ELSE [id \in {} |-> 0]

\* GroupStateStorage::epoch
storage_epoch(epochs, id) ==
    IF config.backend = "InMemory" THEN InMemoryEpoch(epochs, id) ELSE SqLiteEpoch(epochs, id)

\* GroupStateStorage::max_epoch_id: the back of the deque, or SELECT MAX
max_epoch_id(epochs) ==
    IF config.backend = "InMemory"
      THEN {epochs[i].id : i \in {Len(epochs)} \ {0}}
      ELSE {id \in DOMAIN epochs : \A j \in DOMAIN epochs : j <= id}

write_fails(epochs, inserts) == config.backend = "SqLite" /\ InsertConflicts(epochs, inserts)

storage_write(epochs, inserts, updates) ==
    IF config.backend = "InMemory" THEN InMemoryWrite(epochs, inserts, updates)
                            ELSE SqLiteWrite(epochs, inserts, updates)

==============================================================================
