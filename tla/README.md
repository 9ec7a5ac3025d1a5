# A verification of mls-rs in TLA+

mls-rs implements the Messaging Layer Security protocol (RFC 9420): a group of
clients agrees on a sequence of *epochs*, each begun by a *commit* that one member
builds and every other member processes. This directory holds TLA+ models of the
parts where that can go wrong over several steps, TLC configurations that check
them on small instances, and proofs that TLAPS checks for all instances.

`PROJECT.json` lists the components, the runs, the mutants (one seeded bug per
property, which TLC must find), the source lines each definition models, the
hazards, and the theorems.

## The system and its parts

| Part | State | Operations | What is hard about it |
|---|---|---|---|
| key ratchet (`group/secret_tree.rs`) | secret, `u32` generation, history of skipped keys | `next_message_key`, `get_message_key` | messages out of order; a derivation that fails half way; the generation that wraps |
| secret tree (same file) | known secrets by node | `consume_node`, `take_leaf_ratchet`, the two key operations | every secret is consumed exactly once, in any order of leaves |
| ciphertext processor (`group/ciphertext_processor.rs`, with the callers in `group/mod.rs`) | epoch secrets of the current and of prior epochs | `seal`, `open`, `encrypt_application_message`, `decrypt_incoming_ciphertext` | keys are taken before anything is authenticated; late messages; restarts from older snapshots |
| tree arithmetic (`tree_kem/math.rs`) | none | `TreeIndex`, `leaf_lca_level`, `BfsIterTopDown` | bit tricks at the edges of the tree |
| ratchet tree (`tree_kem/node.rs`, `mod.rs`, `tree_index.rs`) | node array, index of leaf data | `batch_edit`, `apply_update_path`, `add_leaf`, `trim` | removals, updates that exchange keys and additions in one commit |
| tree hashes (`tree_kem/tree_hash.rs`, `parent_hash.rs`, `tree_validator.rs`) | cached hash of every node, parent hashes | `update_hashes`, `update_parent_hashes`, `compute_original_hashes`, `TreeValidator::validate` | caches while the tree grows and shrinks; hashes that speak of an earlier tree |
| proposal filter (`group/proposal_filter`) | proposal bundle | filtering and applying, leniently at the committer, strictly at receivers | the two must agree |
| TreeKEM (`tree_kem/kem.rs`, `private.rs`) | path secrets of each member | `encap`, `decap`, `update_secrets` | blank nodes and unmerged leaves decide which ciphertext is whose |
| commit lifecycle (`group/mod.rs`, `commit.rs`, `message_processor.rs`) | epoch, tree, private tree, signer, pending commit and updates | build, apply, process, clear, write, load | races, retries after a failure half way, crashes |
| key schedule (`group/key_schedule.rs`, `transcript_hash.rs`, `psk`) | epoch secret, transcript hashes, resumption secrets of prior epochs | commits, welcomes, external commits, PSKs, `branch`, `ReinitClient` | members, joiners and rejoiners compute one secret from different messages; forks |
| external client (`external_client.rs`, `external_client/group.rs`) | public state, proposal cache, snapshot | observe, process, propose, insert, clear, snapshot, load | it has no secret that would show a wrong state |
| prior epochs (`group/state_repo.rs`) | inserts, updates, key package to remove | `get_epoch_mut`, `insert`, `write_to_storage` | an epoch in three places at once; crash and retry |
| storage providers (in memory, SQLite) | epoch records | `write`, `epoch`, `max_epoch_id`, `delete_group` | index arithmetic, retention |

The message path runs from top to bottom: an incoming ciphertext names an epoch,
the repository finds it, its secret tree yields the key. A commit runs through the
filter, the tree, TreeKEM and the key schedule, and the epoch that ends is inserted
into the repository.

## Modules

Components, with the modules they extend:

* `SecretKeyRatchet` — the ratchet as a value and its two methods as operators that
  return the set of possible results. `RatchetCalls` is the state machine that makes
  the calls; `SecretTree_proofs` has the theorems.
* `TreeMath` — `TreeIndex`, `leaf_lca_level` and `BfsIterTopDown` as arithmetic, used by
  all modules about trees.
* `SecretTree` (over `TreeMath` and `SecretKeyRatchet`) — `known_secrets` as a value, with
  the possible results of `next_message_key` and `message_key_generation`.
  `PrivateMessages` puts it to use: members seal application messages, proposals and
  commits, open those of others in the current epoch or a prior one, write their state and
  restart from it. A step is one call of the API; a call that fails keeps what it took.
  `SecretTree_proofs` and `PrivateMessages_proofs` have the theorems.
* `GroupStateStorage` — both storage providers as operators on what they hold.
  `GroupStateRepository` is the repository, the group that drives it, the snapshot,
  the key package store and the process that may crash. `EpochArchive` is the abstract
  specification: a map from epoch ids to consumed messages that grows, is saved as a
  whole and falls back as a whole. `GroupStateRepository` is checked to implement it
  (`INSTANCE EpochArchive WITH ...`). `MCGroupStateRepository` gives the two clients:
  one over each provider. `RepositoryLookup_proofs` and `GroupStateRepository_proofs`
  have the theorems, the refinement among them.
* `NodeVec`, `TreeKemPublic`, `ProposalFilter` — the node array, the tree with its
  index, and the filter with both strategies. `ProposalExchange` is one epoch: members
  send proposals, one commits (or an outside client commits externally), another
  receives. `MCProposalExchange` gives the starting trees.
* `TreeKem` (over `ProposalFilter`) — `encap`, `decap`, `update_secrets`.
  `TreeKemGroup` composes all of it for every member of a group; a step is one commit
  with the filter and `encap` at the committer, the strict filter and `decap` at each
  member that stays, and the welcome at each that joins. `Refuse` is a commit that a member
  refuses after `decap`, for a missing resumption secret or a wrong confirmation tag: it
  keeps the private tree of that commit (`group/mod.rs:2198`) and is *stray* until its next
  path, and if it cannot follow the commit that wins, it stays behind until it is removed or
  joins again. `MCTreeKemGroup` gives the view that makes key names canonical, and the three
  groups.
* `TreeHash` (over `NodeVec`) — the cached tree hashes, the parent hashes of a path
  at the committer and at the receiver, the original hashes, and `TreeValidator`.
  `TreeValidation` is a group that commits with paths: the committer's tree, the
  receiver's tree computed from the same commit, and a joiner that gets the tree without
  its caches.
* `Group` — the life of a commit at several members with a delivery service that lets
  one commit through per epoch. The tree is reduced to each member's leaf.
  `ObservedGroup` adds the external client; `MCObservedGroup` gives the scenarios.
  `Group_proofs`, `GroupLeaves_proofs` and `ObservedGroup_proofs` have the theorems.
* `KeySchedule` — key derivations, tags and hashes as free constructors.
  `GroupSecrets` has the clients, their Groups and a network on which nothing orders the
  commits: everyone may commit, apply, process, join, rejoin externally, branch and
  reinitialise at any time, so groups fork. A Group records the refused commits whose path
  it has taken over (`private_tree`); whether it can then open another path depends on the
  positions in the ratchet tree, so `decap` may go either way there. `MCGroupSecrets` gives the clients, their
  key packages and their PSK stores; `GroupSecrets_proofs` has the theorems.
* `LinearFolds` — folds over sequences and sets as recursive functions that TLC
  evaluates once per element.

What is abstracted: a message key is the number of derivations that led to it, a path
secret is the key pair derived from it, a ciphertext is the pair of the secret and the
key it is for, a hash or a derived secret is the term it was computed from. Key
derivation and hashing are injective and one-way; where the code propagates an error
from the crypto provider, the storage provider or the identity provider, the model may
fail at that point and keeps exactly what the code has changed by then.

The default features are modelled (`by_ref_proposal`, `out_of_order`, `prior_epoch`,
`private_message`, `psk`, `tree_index`), and `self_remove_proposal`.

## Runs

| Run | Bounds | What it shows |
|---|---|---|
| `ratchet_calls` | window 2, modulus 6, 8 derivations | No key is returned twice, skipped keys stay available, one call does bounded work, also when the generation wraps and derivations fail. 8 derivations pass the end of the generation. `RatchetInv` is the inductive invariant of the proof. |
| `private_messages` | 2 members in a tree of 4 leaves, 3 messages, 3 epochs of which 1 prior is retained, window 1, 1 write, and 1 failed call or restart, at one of the members | No state of a member, in memory or as stored, can derive a key again that it has taken; every other key of every leaf can, unless a derivation failed on the way to it; a message opens whenever it arrives, within the window and the retention; no message is sealed under a key that the sender's state has used. Three messages are enough to skip beyond the window, to receive a commit before the proposal it refers to, and to trim a prior epoch; the writing and failing member is both sender and receiver. |
| `repository` | 4 epochs, 2 retained; in memory without failures, SQLite with failing writes and deletions and a second join | A lookup gives the latest copy of an epoch; a commit is never refused for its epoch id; a message is accepted once; an epoch within the limit is kept; the whole implements `EpochArchive`. Four epochs force trimming while epochs sit in both caches. |
| `proposal_exchange` | 3 trees (one member; an unmerged leaf; a blank leaf), 2 cached proposals and one by value | A commit that the committer's filter lets through is accepted with the same tree; only applied proposals change leaves; the index matches the leaves; paths above changed leaves are blank; what was given by value is in the commit or the commit fails; every leaf supports the group context extensions that the commit puts in place. Extensions are supported by all leaves, by all but one member, by all but the added ones, or by all but the updated ones. |
| `treekem` | up to 4 members with one proposal per commit, of whom all join and return by external commits and three make others; 5 members in a tree of 8 places with up to 4 proposals, one of whom may change its signature key; 3 members of whom two commit, and all may refuse commits after `decap` | Every member follows every commit, holds exactly the secrets of the keyed nodes above it where it is merged, a keyed parent has members on both sides, and a removed member holds no secret of the tree. No bound on the number of commits: the state space closes. With 5 members one is unmerged below the node it shares with the committer, the fallback of `find_resolved_pos`, which smaller trees do not reach. In the third group only a member that refused a commit, and has made no path since, may be left behind or hold other secrets. |
| `group` | 3 clients, 2 epochs, 2 or 3 commits and updates, 1 failure or crash, in five scenarios: plain, with detached commits, with ReInit and failing storage, observed, observed with ReInit | A member sees in its epoch the leaves that the commits gave the group; the leaf secret and signer belong to one's leaf; a commit that won can be applied; the ones that lost are cleared; an observer sees what the members see; everyone, the observer included, reaches the last epoch. |
| `group_secrets` | 3 clients, 2 commits after the group is set up, one branch or reinit, one proposal per commit, one PSK of which one client has another value | Clients in the same context have the same epoch secret; whoever is in the context a commit or welcome was made in, and resolves the same PSKs, accepts it, unless it refused another commit with a path before and has made none since; a branch or reinitialised group is joined only by members of the old group on its side of a fork. Two commits suffice for a fork, for a commit over a fork, and for a PSK of a past epoch. |
| `tree_validation` | up to 5 leaves (8 places), 2 proposals per commit, additions, updates, removals and paths of two committers | The receiver of a path computes the committer's parent hashes and tree hash; cached hashes are current; original hashes are those of the tree without the unmerged leaves, if the root has a key; a joiner accepts the tree. With a blank root `different_unmerged` never holds (`tree_hash.rs:166`), no leaf is taken out of the hashes, and a joiner accepts the tree because `validate_parent_hashes` ends early (`parent_hash.rs:208`). No bound on the number of commits. |
| `proposals_shared_leaf` | one tree | Violation, see below. |
| `group_external` | 3 clients | Violation, see below. |
| `tree_validation_accepted` | as `tree_validation` | Violation, see below. |
| `group_secrets_resumption` | as `group_secrets` | Violation, see below. |

Deadlock checking is off where the model really stops: at the bound on epochs, commits or
groups (`ObservedGroup`, `GroupStateRepository`, `GroupSecrets`), when all messages of
`PrivateMessages` are sent and read, after the one commit of
`ProposalExchange`, and in
`TreeValidation` where the number of a commit, `MaxLive`, is used up by keys still in use.

### Fairness

Liveness is checked for the commit lifecycle. Weak fairness stands on `ApplyPending`,
`ApplyDetached`, `ProcessCommit`, the receipt of proposals and, for the observer, the
receipt of proposals and commits: RFC 9420 asks the delivery service to deliver every
message, and an application retries. Nothing is fair about building, proposing, writing,
failing, crashing or clearing a cache. `ClearingSpec`, under which the run `group` is
made, adds that an application calls `clear_pending_commit` once it learns that its commit
lost. `group_external`, under `ObservedFairSpec`, shows that `EveryoneCatchesUp` fails
without that.

`Group` takes it that the application sends a commit or proposal only after
`write_to_storage`. A commit that is sent first and lost in a crash cannot be processed
by its sender (`CantProcessMessageFromSelf`).

## Proofs

`SecretTree_proofs` proves, for every window, every width of the generation, both
overflow behaviours of the build, and crypto providers that may or may not fail:

* `RatchetInvariant`: `CallSpec => []RatchetInv`
* `RatchetSafety`: `CallSpec => [](TypeOK /\ HistoryIsUnreleased /\ NoKeyLost)`
* `KeyIsReleasedOnce`: `CallSpec => KeyReleasedOnce`
* `WorkIsBounded`: `CallSpec => BoundedWork`

The assumptions are `RatchetAssumption` (the window is smaller than the modulus, as
1024 is than 2^32) and `MaxSecretAssumption`. "No key is returned twice" is not
inductive: nothing in it says why a key in the history, or the next one, is new.
`RatchetInv` adds that every returned key lies below the current secret and that the
history holds no returned key. Until the generation wraps it also equals the number
of derivations; afterwards two keys may share a generation but not a secret. A lemma
per operation (next key, skipping, past key) shows what it does to the invariant;
`RatchetStep` joins them.

`PrivateMessages_proofs`, on the lemmas about the secret tree in `SecretTree_proofs`,
proves for any members, messages, epochs, retained epochs, writes, failures and restarts,
and trees of up to 256 leaves:

* `ForwardSecrecyTheorem`: `Spec => []ReleasedNotDerivable`
* `FreshKeyTheorem`: `Spec => SealedWithFreshKey`
* `NothingLostTheorem`: `NoWrap` implies `Spec => []OthersDerivable`
* `DeliveryTheorem`: `NoWrap` implies `Spec => []StillOpens`

The assumptions are `RatchetAssumption`, `PrivateMessagesAssumption` and two about trees:
`SecretTreeAssumption` (the number of leaves is one of 1, 2, 4, ... 256) and
`TreeShapeAssumption`, the facts about `direct_copath`, `left_unchecked` and
`right_unchecked` that the proofs need, which TLC evaluates for every leaf of every such
tree on each run. They are arithmetic on the bits of node numbers, for which no prover is
at hand. `NoWrap` says that the messages and failures, with the window, are fewer than the
generations: 3 + 1 + 1 < 8 in the run, and 2^32 generations with a window of 1024 in the
code. After a wrap two keys share a generation, and a generation no longer says which one
a message was sealed with.

`ReleasedNotDerivable` is not inductive, since an epoch that ends takes its tree to the
prior epochs, and a restart brings back the stored trees together with the keys taken
until then. `StateInv` says of every Group in memory and in storage, and every epoch it
holds, that its tree satisfies `TreeInv` with the keys which that Group has taken: at most
one known node covers a leaf, a ratchet is at its own leaf, no tree secret covers a leaf
of which a key was taken, and each ratchet satisfies the invariant of `RatchetCalls`. It holds
whether or not generations wrap. `take_leaf_ratchet` consumes the nodes from the root
towards a leaf. That this keeps `TreeInv` after any number of nodes is an induction over
the path; it is done by contradiction at the first node where the claim would fail
(`LeastElement`, `DescentInv`). For the other two theorems `ReachInv` bounds how far a
ratchet can have come: sealing a message or a failed call moves it by one, and a message
received by no more than its sender's ratchet had moved. So generations are numbers of
derivations, and `TreeOpens` shows that a key within the window is found in the history
or ahead.

`Group_proofs` proves for any set of members and any scenarios (`LifecycleAssumption`):

* `AgreementTheorem`: `Spec => []MembersAgree`
* `HeldTheorem`: `Spec => []OwnCommitHeld`
* `PendingTheorem`: `Spec => []PendingIsCurrent`

Agreement is not inductive, since a member gets its leaves from a pending or detached
commit, or from what it stored: the invariant says of every Group in memory and every
stored one that its leaves are those of its epoch, and of every pending and detached
commit that it holds the leaves the commit leads to (`GroupInv`). `HeldTheorem` needs
more, since a crash replaces the Group by the stored one: in both of them the next commit
is held, commits of the member further ahead can only be detached ones, and a stored
pending commit that may still be let through is in the Group too (`HoldInv`).

`ObservedGroup_proofs`, on the lemmas of `GroupLeaves_proofs`, adds

* `TypeTheorem`: `Spec => []TypeOK`
* `SecretsTheorem`: `Spec => []OwnSecretsMatch`

The leaf of a member changes by its own commit, by its own Update in another's commit, or
not at all, and `process_commit` takes the secrets before steps that may fail. The
invariant `KeyInv` therefore speaks of what may still become the next commit: a member has
one Update per epoch on the wire, in memory and in storage its cache holds it (an Update is
sent only after the write, so a reload does not lose it), every cached proposal of another
was sent, and a pending or detached commit that may still be applied comes with the secrets
of the leaf that it leads to. A commit that a member built between a failed `process_commit`
and its retry need not satisfy this: it is of an epoch that another commit has already
ended. `GroupLeaves_proofs` has one lemma for each operation on one Group;
`StageFields` and `StageSecrets` say what each of the four stages of `process_commit`
leaves behind. `ObservedGroup_proofs` has the steps that also change the log, the wire or
what is stored.

It also proves `ObserverTheorem`, `ObservedSpec => []ObserverAgrees`
(`ObserverAssumption`: the observer is no member). Its invariant `FollowInv` says that
the observer and its snapshot have the leaves of their epoch in the log, and builds on
the invariant of `Group_proofs`. `ObservedTypeTheorem` and `ObservedMembersTheorem` carry
`TypeOK` and `OwnSecretsMatch` over to `ObservedSpec`: the steps of the observer keep
`KeyInv`, since its proposals are of no member.

`GroupSecrets_proofs` proves, for any clients, key packages, PSK stores, and bounds
(`SecretsAssumption`; the id of the main group is not the one of a subgroup or of a
reinitialised group):

* `SecretsTheorem`: `Spec => []SecretsAgree`
* `FollowedTheorem`: `Spec => []CommitIsFollowed`
* `WelcomeTheorem`: `Spec => []WelcomeOpens`
* `OriginTheorem`: `Spec => []OriginShared`

Two clients in one context share the transcript, which names the last commit; what is
missing is that one commit has one outcome. The invariant `TagInv` says that a commit
number has one confirmation tag, in every message, pending commit and Group, and that a
Group's tag is the one of its own epoch secret and transcript. The tag determines the
epoch secret. For `FollowedTheorem` it also says of every commit message which epoch it was
made from (`MadeFrom`, `SentIn`): whoever is in that context has, by `SecretsAgree`, the
epoch secret of the sender, and from there `process_commit` computes what
`commit_internal` computed, once `decap` has opened the path. The premise of
`CommitIsFollowed` on `private_tree` is what `decap` needs; without it a client that
refused another path may fail. The private tree is in no other premise: `SecretsTheorem`
holds whatever the refused commits were. `WelcomeTheorem` and `OriginTheorem` rest on `HomeInv`: every
welcome was made by its sender from a joiner secret and PSKs that its ids identify
(`Opening`), every Group's secret comes from a joiner secret and its own context, its
client is in its tree, and in a subgroup or a reinitialised group the one PSK is the
resumption secret of an epoch of the old group that the client was in.

`GroupStateRepository_proofs`, on the lemmas of `RepositoryLookup_proofs`, proves for any
number of epochs, messages, retained epochs and crashes (`StorageAssumption`,
`RepositoryAssumption`):

* `LookupTheorem`: `Spec /\ IndexedById => []LookupIsCurrent`
* `CommitTheorem`: `Spec /\ IndexedById => []CommitNeverRefused`
* `AcceptedOnceTheorem`: `Spec /\ IndexedById => AcceptedOnce`
* `RetentionTheorem`: `Spec /\ IndexedById => RetainedUntilLimit`
* `ArchiveTheorem`: `Spec /\ IndexedById => ImplementsEpochArchive`

`IndexedById` is about the configuration: SQLite with everything that may fail and with a
second membership, or the in-memory provider for a member that joins once and whose key
package is deleted without failure. It is where these properties hold: the in-memory
provider finds a record by the distance of its id from the front of the deque, and both a
second membership and a repeated write put ids there that are not consecutive
(`StoredIdsUnique` under further observations). It covers the clients of the run.

`LookupIsCurrent` is not inductive, since a record is found in the inserts, the updates or
storage, and a write moves it. `RepoInv` is `Shape` and `Memory`. `Shape` says where the ids
of the three places lie: the inserts end just before the current epoch, the updates have
different ids below them and are rows of storage (or a write has failed half way, and then
every other write conflicts), and storage ends where the epoch of its snapshot begins.
`Memory` says that records and snapshots remember what was accepted, or made durable, before
they were written. `RepositoryLookup_proofs` reduces a lookup to `Find`, a function of the
three places, and shows what an insert, an update and the write of either provider do to
it. The refinement maps the repository to `FoundArchive`, what lookups find, and
`StoredArchive`, what storage holds; each action has a lemma that names the abstract step it
takes (`NextRefines` joins them). The one that needs most is `CommitRefines`: an epoch can
be added only if none is missing before it (`NoGap`), which is what `insert` compares with
`SELECT MAX`.

Only model-checked, and why:

* liveness (`EveryoneCatchesUp`, `ObserverCatchesUp`) is outside the prover's reach;
* `TreeKemGroup`, `ProposalExchange` and `TreeValidation`: their operators fold over the
  node array, over proposals and over paths, and what a fold computes for every input takes
  an induction over data;
* the arithmetic of `math.rs` behind `TreeShapeAssumption`, as said above.

## Disagreements with the documentation

Four have runs.

* `group_external`: while a commit of its own is pending, a member refuses every
  external commit (`group/mod.rs:2214`), though the documentation says that a pending
  commit is cleared when another commit is processed.
* `proposals_shared_leaf`: an update for a leaf that the same commit removes is
  filtered out only if no other update is applied (`tree_kem/mod.rs:448`).
* `tree_validation_accepted`: `validate_parent_hashes` returns from the whole check when
  one chain ends at a blank root (`parent_hash.rs:208`), before every parent is validated.
  `JoinerAccepts` shows that all trees of the model are accepted; the run shows that some
  of them are accepted early.
* `group_secrets_resumption`: a client that joined by an external commit keeps an empty
  resumption secret for the epoch it joined from (`external_commit.rs:213`), and uses it
  where other new members report `OldGroupStateNotFound`.

### Further observations

The following are properties of the modules that TLC refutes with the constants named;
they are not among the runs, and the runs set the constants so that the cases do not
arise.

| Property | Constants | What the code does |
|---|---|---|
| `GroupSecrets!ReinitKeepsRoster` | as in `group_secrets` | A reinitialised group may have fewer members than the old one; `resumption.rs:187` says that `commit` "will fail if the number of members in the reinitialized group is not the same as the prior group roster". |
| `Group!OwnCommitHeld`, without its condition on `failing` | fault `apply` | `apply_pending_commit` takes the pending commit before `insert_past_epoch` may fail (`mod.rs:1480`). |
| `GroupStateRepository!StoredIdsUnique` | `InMemory` with `delete_may_fail` | When the deletion of the key package fails, the next write stores the same epochs again (`state_repo.rs:224`). |
| `GroupStateRepository!KeyPackageErased` | any | After a restart no write deletes the key package (`snapshot.rs:245`). |
| `ProposalExchange!RevertRestoresLeaves` | `MayTakeKey` | When an update can be neither applied nor reverted, leaves of updates not yet reached stay blank (`tree_kem/mod.rs:496`). |
| `TreeKemGroup!EveryoneFollows` | a scenario with rotators and all leaves proposed | `encap` does not update the committer's index (`kem.rs:107`); after changing its signature key the member refuses the commit with its next Update. |
| `TreeKemGroup!EveryoneFollows`, as `failed = {}` | a scenario with `may_refuse` | `update_key_schedule` takes over the private tree before it looks up resumption secrets and compares the confirmation tag (`group/mod.rs:2198`). A member that refuses a commit there may be unable to decrypt the path of the commit that its group goes on with. |
| `GroupStateRepository!CommitNeverRefused`, without its condition on `may_rejoin` | `may_rejoin` | A client that joins a group again while epochs of its former membership are stored is refused its commits (`InvalidEpoch`, `state_repo.rs:182`) until it deletes the group. |
| `TreeKemGroup!SignerMatchesLeaf` | the same | A commit without a path changes the signer though no leaf shows the new key (`commit.rs:529`). |

Others came up while reading:

* `pending_reinit` is set before the fallible steps of `process_commit`
  (`message_processor.rs:759`), so a ReInit commit that fails blocks the group, at members
  and at observers; `EveryoneCatchesUp` and `ObserverCatchesUp` exclude it.
* A member that processes its own removal keeps its pending commit
  (`message_processor.rs:812`), though `commit.rs:433` says that any processed commit
  clears it; `apply_detached_commit` leaves one that is stale.
* `min_epoch_available` of the external client computes `context.epoch - j`
  (`external_client/group.rs:708`), which underflows while the epoch is below the jitter.
* An encrypted commit that fails after its decryption, for example because a proposal it
  refers to has not arrived, has used up its key (`ciphertext_processor.rs:229`) and cannot
  be processed again. `StillOpens` says that no other message suffers.
* A sender that restarts from a snapshot older than its last message seals the next one
  with the same generation; who has read the first refuses the second (`KeyMissing`). Only
  the random reuse guard keeps the two nonces apart. `SealedWithFreshKey` says that this
  takes a restart and a missing `write_to_storage`.
* An observer that starts from a GroupInfo after a ReInit has no `pending_reinit`.
* `load_group_with_ratchet_tree` does not compare the tree with the context.
* `join_subgroup` and `ReinitClient::join` use the resumption secret of the current epoch
  only, so a member that moved on after the branch was made cannot join it.

## Not modelled

Framing, sender data, padding and encodings (functions of single values without state); the exporter;
the foreign language bindings, the crypto providers and X.509 (wrappers of other
libraries); builders and configurations; the stores that are plain maps or single SQL
statements; the `lite` variants for builds without `by_ref_proposal` or `prior_epoch`.
These are most of the repository's lines, with its tests.

In the modelled parts: validators that judge one proposal or leaf alone are assumed to
accept it; whether leaves support the group context extensions proposed in the same commit
is modelled, since the filter drops proposals for it. Application callbacks (`MlsRules`) accept everything, there is one credential
type that all leaves support unless a model says otherwise, and time does not pass.
Applying a `CommitSecrets` twice or in a later epoch, which `apply_detached_commit` does
not check, is left to the application. `Group` and `GroupSecrets` reduce the tree to the
leaves of the members, since `TreeKemGroup` has shown that every member follows a path
unless it refused another one late, a case that `GroupSecrets` carries along
(`private_tree`) and `Group`, where one commit per epoch is let through, does not meet with
different commits;
`Group` orders the commits by a delivery service and `GroupSecrets` does not.
