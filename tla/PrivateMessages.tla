--------------------------- MODULE PrivateMessages ---------------------------
(***************************************************************************)
(* Encrypted traffic in a group (mls-rs/src/group/ciphertext_processor.rs  *)
(* and its callers in mod.rs and message_processor.rs): members seal       *)
(* application messages, proposals and commits with the keys of their      *)
(* secret tree, and open those of others in any order, in the current      *)
(* epoch or a prior one.  Each member persists its state when it chooses   *)
(* and may restart from what it persisted last.                            *)
(*                                                                         *)
(* Membership is fixed and control messages are encrypted.  A key of       *)
(* SecretTree stands for the AEAD key and nonce derived from it, a message *)
(* id for the content: two messages may share a key, never an id.  The     *)
(* prior epochs are what EpochArchive promises of the state repository.    *)
(***************************************************************************)
EXTENDS SecretTree

CONSTANTS
    Members,              \* the leaf nodes of the members
    max_epoch_retention,  \* prior epochs that storage keeps
    MaxEpoch,             \* bound of the model: the last epoch
    MaxMessages,          \* bound of the model: messages sealed
    MaxWrites,            \* bound of the model: calls of write_to_storage
    MaxFaults,            \* bound of the model: calls that fail, and restarts
    Watched               \* the members whose writes and faults are explored

ASSUME PrivateMessagesAssumption ==
    /\ Watched \subseteq Members /\ Members \subseteq Leaves
    /\ {max_epoch_retention, MaxEpoch, MaxMessages, MaxWrites, MaxFaults} \subseteq Nat

VARIABLES
    group,     \* member -> its Group in memory
    stored,    \* member -> what its storage holds
    net,       \* the messages sealed: they may arrive never, late and repeatedly
    accepted,  \* epoch -> {id of the commit the delivery service let through} or {}
    sealed,    \* how many messages have been sealed
    writes, faults

vars == <<group, stored, net, accepted, sealed, writes, faults>>

\* secret_tree: of the current epoch's EpochSecrets; prior: epoch -> secret tree
\* of that PriorEpoch.  Auxiliary: the keys taken, as <<epoch, key>>, and the
\* epochs in which a failed derivation dropped a node of the secret tree.
NewGroup ==
    [epoch |-> 0, secret_tree |-> NewSecretTree, prior |-> [e \in {} |-> NewSecretTree],
     proposals |-> {}, pending_commit |-> {}, taken |-> {}, lost |-> {}]

Init ==
    /\ group = [m \in Members |-> NewGroup]
    /\ stored = group
    /\ net = {}
    /\ accepted = [e \in 0 .. MaxEpoch |-> {}]
    /\ sealed = 0 /\ writes = 0 /\ faults = 0

-----------------------------------------------------------------------------
(* Secret trees of the current and of prior epochs                         *)

Epochs(g) == {g.epoch} \cup DOMAIN g.prior

tree_of(g, e) == IF e = g.epoch THEN g.secret_tree ELSE g.prior[e]

with_tree(g, e, known) ==
    IF e = g.epoch THEN [g EXCEPT !.secret_tree = known] ELSE [g EXCEPT !.prior[e] = known]

\* The member after a call to the secret tree of epoch e for a leaf, whose
\* ratchet is back in its place unless a derivation failed.
Called(g, e, leaf, res) ==
    [with_tree(g, e, res.known) EXCEPT
        !.taken = @ \cup {<<e, k>> : k \in res.value},
        !.lost  = IF leaf \in DOMAIN res.known THEN @ ELSE @ \cup {e}]

\* Faulty: the epoch that ends is archived as it began.
insert_past_epochNew(g) ==
    [e \in DOMAIN g.prior \cup {g.epoch} |-> IF e = g.epoch THEN NewSecretTree ELSE g.prior[e]]

\* The secrets of the epoch that ends join the prior epochs as they stand.
insert_past_epoch(g) ==
    [e \in DOMAIN g.prior \cup {g.epoch} |-> tree_of(g, e)]

\* A commit takes effect: update_key_schedule or apply_detached_commit.
Advanced(g) ==
    [g EXCEPT !.epoch = @ + 1, !.secret_tree = NewSecretTree, !.prior = insert_past_epoch(g),
              !.proposals = {}, !.pending_commit = {}]

key_type(content_type) == IF content_type = "Application" THEN "Application" ELSE "Handshake"

Fails(m) == m \in Watched /\ faults < MaxFaults /\ faults' = faults + 1

-----------------------------------------------------------------------------
(* Sealing                                                                 *)

Message(m, content_type, key) ==
    [id |-> sealed + 1, epoch |-> group[m].epoch, sender |-> m,
     content_type |-> content_type, key |-> key, refs |-> group[m].proposals]

\* What the sender records: its proposal in the cache (insert_own), its commit
\* as the pending one.
Recorded(g, c) ==
    CASE c.content_type = "Application" -> g
      [] c.content_type = "Proposal" -> [g EXCEPT !.proposals = @ \cup {c.id}]
      [] c.content_type = "Commit" -> [g EXCEPT !.pending_commit = {c.id}]

\* format_for_wire, create_ciphertext and seal.  The key is taken first; when
\* the encryption then fails it is gone, and nothing else has changed.
Seal(m, content_type) ==
    \E res \in TreeNextResults(group[m].secret_tree, m, key_type(content_type)) :
        LET g == Called(group[m], group[m].epoch, m, res)
        IN  \/ \E key \in res.value :
                  LET c == Message(m, content_type, key)
                  IN  /\ sealed < MaxMessages /\ sealed' = sealed + 1
                      /\ net' = net \cup {c}
                      /\ group' = [group EXCEPT ![m] = Recorded(g, c)]
                      /\ UNCHANGED <<stored, accepted, writes, faults>>
            \/ /\ Fails(m)
               /\ group' = [group EXCEPT ![m] = g]
               /\ UNCHANGED <<stored, net, accepted, sealed, writes>>

\* encrypt_application_message: refused while proposals await a commit.
EncryptApplication(m) ==
    /\ group[m].proposals = {}
    /\ Seal(m, "Application")

\* proposal_message
Propose(m) == Seal(m, "Proposal")

\* commit_internal and CommitBuilder::build: the commit refers to every cached
\* proposal, is sealed with a key of the epoch it ends, and becomes pending.
Commit(m) ==
    /\ group[m].pending_commit = {}
    /\ group[m].epoch < MaxEpoch
    /\ Seal(m, "Commit")

-----------------------------------------------------------------------------
(* Opening                                                                 *)

\* The delivery service lets one commit through per epoch.
LetThrough(e, id) ==
    /\ accepted[e] \subseteq {id}
    /\ accepted' = [accepted EXCEPT ![e] = {id}]

\* apply_pending_commit, also reached when the own commit comes back.
ApplyPendingCommit(m) ==
    /\ \E id \in group[m].pending_commit : LetThrough(group[m].epoch, id)
    /\ group' = [group EXCEPT ![m] = Advanced(@)]
    /\ UNCHANGED <<stored, net, sealed, writes, faults>>

\* check_metadata, get_epoch_mut, and the refusal of one's own messages, which
\* all come before a key is taken.
Admitted(g, m, c) ==
    /\ c.sender # m
    /\ c.epoch \in IF c.content_type = "Application" THEN Epochs(g) ELSE {g.epoch}

OpenResults(g, c) ==
    TreeGetResults(tree_of(g, c.epoch), c.sender, key_type(c.content_type), c.key.key.generation)

\* process_auth_content.  A commit that refers to a proposal not received is an
\* error, as is any failure before the new epoch is installed.
Processed(g, c) ==
    CASE c.content_type = "Application" -> g
      [] c.content_type = "Proposal" -> [g EXCEPT !.proposals = @ \cup {c.id}]
      [] c.content_type = "Commit" -> IF c.refs \subseteq g.proposals THEN Advanced(g) ELSE g

\* process_incoming_message for a message opened with its key.
Receive(m, c) ==
    /\ Admitted(group[m], m, c)
    /\ IF c.content_type = "Commit" THEN LetThrough(c.epoch, c.id) ELSE UNCHANGED accepted
    /\ \E res \in OpenResults(group[m], c) :
          /\ res.value = {c.key}
          /\ group' = [group EXCEPT ![m] = Processed(Called(@, c.epoch, c.sender, res), c)]
    /\ UNCHANGED <<stored, net, sealed, writes, faults>>

\* The keys of c's ratchet that m has taken, and the reach of the window
TakenGenerations(g, c) ==
    {k[2].key.generation : k \in {k \in g.taken :
        k[1] = c.epoch /\ k[2].leaf = c.sender /\ k[2].key_type = c.key.key_type}}

InWindow(g, c) ==
    c.key.key.generation <= MAX_RATCHET_BACK_HISTORY
        \/ \E n \in TakenGenerations(g, c) :
              c.key.key.generation <= n + 1 + MAX_RATCHET_BACK_HISTORY

Openable(g, m, c) ==
    Admitted(g, m, c) /\ <<c.epoch, c.key>> \notin g.taken /\ InWindow(g, c)

\* process_incoming_message for a message that is refused.  A key that is gone
\* or beyond the window is refused by the ratchet, which is put back; any other
\* error (a derivation, the decryption, the signature) comes before or after the
\* key is taken, and a key that was taken stays taken.
Refuse(m, c) ==
    /\ Admitted(group[m], m, c)
    /\ \E res \in OpenResults(group[m], c) :
          LET g == Called(group[m], c.epoch, c.sender, res)
          IN  /\ IF Openable(group[m], m, c) \/ c.epoch \in g.lost
                   THEN Fails(m)
                   ELSE res.value = {} /\ UNCHANGED faults
              /\ group' = [group EXCEPT ![m] = g]
    /\ UNCHANGED <<stored, net, accepted, sealed, writes>>

-----------------------------------------------------------------------------
(* Persistence                                                             *)

Latest(prior, first) == [e \in {e \in DOMAIN prior : e >= first} |-> prior[e]]

\* Faulty: one prior epoch too few is kept.
PersistedShort(g) == [g EXCEPT !.prior = Latest(@, g.epoch - max_epoch_retention + 1)]

\* write_to_storage: the snapshot and the prior epochs in one transaction, of
\* which the last max_epoch_retention are kept.
Persisted(g) == [g EXCEPT !.prior = Latest(@, g.epoch - max_epoch_retention)]

WriteToStorage(m) ==
    /\ m \in Watched /\ stored[m] # group[m]
    /\ writes < MaxWrites /\ writes' = writes + 1
    /\ stored' = [stored EXCEPT ![m] = Persisted(group[m])]
    /\ group' = [group EXCEPT ![m] = Persisted(@)]
    /\ UNCHANGED <<net, accepted, sealed, faults>>

\* The process ends, and load_group restores what was written last.
Restart(m) ==
    /\ stored[m] # group[m]
    /\ Fails(m)
    /\ group' = [group EXCEPT ![m] = stored[m]]
    /\ UNCHANGED <<stored, net, accepted, sealed, writes>>

Next ==
    \E m \in Members :
        \/ EncryptApplication(m) \/ Propose(m) \/ Commit(m) \/ ApplyPendingCommit(m)
        \/ WriteToStorage(m) \/ Restart(m)
        \/ \E c \in net : Receive(m, c) \/ Refuse(m, c)

Spec == Init /\ [][Next]_vars

-----------------------------------------------------------------------------
(* Properties                                                              *)

Held == {group[m] : m \in Members} \cup {stored[m] : m \in Members}

\* Forward secrecy: from the trees a member holds, of the current and of prior
\* epochs, no key it has taken can be derived again; nor from what it stored,
\* the keys taken before it stored.  A message read is not read again.
ReleasedNotDerivable ==
    \A g \in Held : \A k \in g.taken :
        k[1] \in Epochs(g) =>
            ~Derivable(tree_of(g, k[1]), k[2].leaf, k[2].key_type, k[2].key)

\* Nothing else is lost: unless a derivation failed on the way to a ratchet,
\* every key not taken yet, of any leaf, can be derived, whatever was consumed
\* on the way down from the root and whatever message was refused.
OthersDerivable ==
    \A m \in Members : \A e \in Epochs(group[m]) \ group[m].lost :
        LET known == tree_of(group[m], e)
        IN  \A leaf \in Leaves : \E i \in Covering(known, leaf) :
                ~IsSecret(known[i]) =>
                    \A t \in KeyTypes, n \in 0 .. MaxMessages - 1 :
                        LET key == [secret |-> n, generation |-> n]
                        IN  \/ InRatchet(known[i].ratchets[t], key)
                            \/ <<e, [leaf |-> leaf, key_type |-> t, key |-> key]>>
                                  \in group[m].taken

\* A message can be opened whenever it arrives: after later ones, after the
\* epoch has changed, after restarts of the sender or of the receiver.  The
\* exceptions are those the code makes: its key was already used, it is beyond
\* the window, its epoch is no longer retained, or a failed derivation dropped
\* secrets.  A message that fails to decrypt or verify costs no other one.
StillOpens ==
    \A m \in Members, c \in net :
        LET g == group[m]
        IN  /\ c.sender # m
            /\ c.epoch <= g.epoch
            /\ c.epoch >= g.epoch - IF c.content_type = "Application"
                                     THEN max_epoch_retention ELSE 0
            /\ <<c.epoch, c.key>> \notin g.taken
            /\ InWindow(g, c)
            /\ c.epoch \notin g.lost
            => /\ c.epoch \in Epochs(g)
               /\ \E res \in OpenResults(g, c) : res.value = {c.key}

\* No message is sealed with a key that the sender's state has used before: two
\* messages under one key are possible only when a restart has undone the first
\* use, which was not written to storage.
SealedWithFreshKey ==
    [][\A c \in net' \ net : <<c.epoch, c.key>> \notin group[c.sender].taken]_vars

==============================================================================
