------------------------------- MODULE Group -------------------------------
(* The life of a commit: the Group objects of several members             *)
(* (src/mls-rs/src/group/mod.rs), the commits they build, and a delivery   *)
(* service that lets one commit through per epoch.                        *)
(*                                                                         *)
(* A commit waits in pending_commit, or with the application as            *)
(* CommitSecrets, until the service has chosen it.  Every other member     *)
(* receives it through process_commit, which changes the Group in several  *)
(* places before its last fallible call, so a failed call leaves a mixed   *)
(* state that the next attempt starts from.  Storage is written only when  *)
(* the application asks; a crash goes back to what was last written.       *)
(*                                                                         *)
(* The ratchet tree is reduced to each member's leaf (module TreeKemGroup  *)
(* has the rest), proposals by reference to the Updates of members, one    *)
(* per member and epoch, and the Removes of an external sender; no commit  *)
(* is made of an Update and a Remove of one leaf (module ProposalExchange  *)
(* has what happens then).                                                 *)
EXTENDS Naturals, Sequences

CONSTANTS
    Members,        \* the clients
    Founders,       \* the members of the group in the first epoch
    Scenarios       \* what may happen: one scenario holds for a behaviour

\* A scenario:
\*   epochs, made, faults    bounds on the number of epochs, of commits and
\*                           proposals made, of crashes and failed calls
\*   failing                 which calls may fail: "path", "schedule", "apply"
\*   remove, reinit, detach  commits may remove a member, may carry a ReInit,
\*                           may be built by build_detached
\*   update                  members may propose an Update
\*   join                    clients may join by an external commit
\*   observe                 an external client follows the group
ASSUME LifecycleAssumption ==
    /\ Founders \subseteq Members
    /\ \A s \in Scenarios :
        /\ s.epochs \in Nat /\ s.made \in Nat /\ s.faults \in Nat
        /\ s.failing \subseteq {"path", "schedule", "apply"}
        /\ {s.remove, s.update, s.reinit, s.detach, s.join, s.observe} \subseteq BOOLEAN

VARIABLES
    options,    \* the scenario
    group,      \* each client's Group
    stored,     \* the snapshot each client last wrote
    detached,   \* the CommitSecrets each application keeps
    wire,       \* the proposal messages sent
    log,        \* the commits the delivery service let through, in order
    removed,    \* the clients told by a CommitEffect::Removed
    made,       \* commits and updates made: also the next fresh key
    faults      \* crashes and failures so far

vars == <<options, group, stored, detached, wire, log, removed, made, faults>>

-----------------------------------------------------------------------------

FirstLeaves == [m \in Founders |-> [key |-> 0, signer |-> 0]]

NewGroup(epoch, leaves, leaf) ==
    [epoch |-> epoch, leaves |-> leaves, key |-> leaf.key, signer |-> leaf.signer,
     pending_commit |-> {}, pending_updates |-> {}, proposals |-> {},
     pending_reinit |-> FALSE]

\* The group as the delivery service knows it, and the next message for g.
LeavesAt(epoch) == IF epoch = 0 THEN FirstLeaves ELSE log[epoch].leaves

CurrentLeaves == LeavesAt(Len(log))

HasNext(g) == g.epoch < Len(log)

NextCommit(g) == log[g.epoch + 1]

Init ==
    /\ options \in Scenarios
    /\ group = [m \in Members |-> NewGroup(0, FirstLeaves, [key |-> 0, signer |-> 0])]
    /\ stored = group
    /\ detached = [m \in Members |-> {}]
    /\ wire = {}
    /\ log = <<>>
    /\ removed = Members \ Founders
    /\ made = 0
    /\ faults = 0

\* The application of m uses its Group.
Active(m) == m \notin removed

\* GroupState::apply_resolved and TreeKemPublic::apply_update_path, on leaves.
apply_resolved(leaves, c) ==
    [m \in (DOMAIN leaves \ c.remove) \cup (IF c.path THEN {c.by} ELSE {}) |->
        IF c.path /\ m = c.by THEN c.leaf
        ELSE IF \E p \in c.refs : p.by = m
        THEN LET p == CHOOSE p \in c.refs : p.by = m
             IN [key |-> p.key, signer |-> p.key]
        ELSE leaves[m]]

\* A commit message together with the group it leads to, as its sender sees it.
WithLeaves(leaves, c) ==
    [id |-> c.id, epoch |-> c.epoch, by |-> c.by, refs |-> c.refs,
     remove |-> c.remove, reinit |-> c.reinit, external |-> c.external,
     path |-> c.path, leaf |-> c.leaf, leaves |-> apply_resolved(leaves, c)]

-----------------------------------------------------------------------------
(* Proposals *)

\* Group::propose_update_with_identity: the secrets go to pending_updates.
ProposeUpdate(m) ==
    /\ options.update /\ Active(m) /\ made < options.made
    /\ \A p \in group[m].proposals : p.by # m
    /\ LET p == [by |-> m, epoch |-> group[m].epoch, key |-> made + 1, remove |-> {}]
       IN group' = [group EXCEPT ![m].proposals = @ \cup {p},
                                 ![m].pending_updates = @ \cup {p.key}]
    /\ made' = made + 1
    /\ UNCHANGED <<options, stored, detached, wire, log, removed, faults>>

\* process_proposal, after check_metadata has compared the epochs.
process_proposal(m, p) ==
    /\ Active(m) /\ p \notin group[m].proposals
    /\ p.epoch = group[m].epoch
    /\ group' = [group EXCEPT ![m].proposals = @ \cup {p}]
    /\ UNCHANGED <<options, stored, detached, wire, log, removed, made, faults>>

-----------------------------------------------------------------------------
(* Building a commit *)

\* The cached proposals that a commit of m refers to: its own Update and its own
\* removal are filtered out.
Refs(m, g) == {p \in g.proposals : p.by # m /\ m \notin p.remove}

RemovedBy(refs) == UNION {p.remove : p \in refs}

\* The commit that commit_internal makes of the cached proposals and the ones
\* given by value.
CommitBy(m, g, remove, reinit, path) ==
    WithLeaves(g.leaves,
        [id |-> made + 1, epoch |-> g.epoch, by |-> m, refs |-> Refs(m, g),
         remove |-> remove \cup RemovedBy(Refs(m, g)), reinit |-> reinit,
         external |-> FALSE, path |-> path,
         leaf |-> [key |-> made + 1, signer |-> g.leaves[m].signer]])

\* PendingCommit: the commit with the private half of the state it leads to.
Pending(g, c) ==
    [commit |-> c, key |-> IF c.path THEN c.leaf.key ELSE g.key, signer |-> g.signer]

\* No Update is for a leaf that a cached Remove names.
OneProposalPerLeaf(g) == \A p, q \in g.proposals : p.by \notin q.remove

\* Faulty: a second commit replaces the one that is pending.
CanCommitAgain(m) ==
    Active(m) /\ made < options.made /\ OneProposalPerLeaf(group[m]) /\ ~group[m].pending_reinit

\* commit_internal refuses while a commit is pending or after a ReInit.
CanCommit(m) ==
    /\ Active(m) /\ made < options.made /\ OneProposalPerLeaf(group[m])
    /\ group[m].pending_commit = {}
    /\ ~group[m].pending_reinit

\* The commits commit_internal can make: a path is sent unless the only proposal
\* is a ReInit (path_update_required), and a ReInit stands alone
\* (filter_out_reinit_if_other_proposals).
commit_internal(m) ==
    LET g == group[m]
        plain == {CommitBy(m, g, remove, FALSE, TRUE) :
                    remove \in {{}} \cup {{r} : r \in {r \in DOMAIN g.leaves \ {m} :
                        options.remove /\ \A p \in g.proposals : p.by # r /\ r \notin p.remove}}}
        reinit == {CommitBy(m, g, {}, TRUE, path) : path \in BOOLEAN}
    IN IF options.reinit /\ Refs(m, g) = {} THEN plain \cup reinit ELSE plain

\* CommitBuilder::build
Build(m) ==
    /\ CanCommit(m)
    /\ \E c \in commit_internal(m) :
        group' = [group EXCEPT ![m].pending_commit = {Pending(group[m], c)}]
    /\ made' = made + 1
    /\ UNCHANGED <<options, stored, detached, wire, log, removed, faults>>

\* CommitBuilder::build_detached: the secrets are the application's to keep.
BuildDetached(m) ==
    /\ options.detach /\ CanCommit(m)
    /\ \E c \in commit_internal(m) :
        detached' = [detached EXCEPT ![m] = @ \cup {Pending(group[m], c)}]
    /\ made' = made + 1
    /\ UNCHANGED <<options, group, stored, wire, log, removed, faults>>

\* The delivery service lets through the first commit it sees for the last
\* epoch.  A commit is sent once its secrets are safe: written to storage with
\* the Group, or kept as CommitSecrets.
Accept(m) ==
    \E p \in stored[m].pending_commit \cup detached[m] :
        /\ p.commit.epoch = Len(log) /\ Len(log) < options.epochs
        /\ log' = Append(log, p.commit)
        /\ UNCHANGED <<options, group, stored, detached, wire, removed, made, faults>>

-----------------------------------------------------------------------------
(* Applying one's own commit *)

\* apply_detached_commit after insert_past_epoch has succeeded.  It leaves
\* pending_commit and pending_updates alone.
apply_detached_commit(g, p) ==
    [g EXCEPT !.epoch = p.commit.epoch + 1, !.leaves = p.commit.leaves,
              !.key = p.key, !.signer = p.signer, !.proposals = {},
              !.pending_reinit = p.commit.reinit]

\* apply_pending_commit: the pending commit is taken before it is applied.
apply_pending_commit(g, p) ==
    apply_detached_commit([g EXCEPT !.pending_commit = {}], p)

\* The application applies its commit once the service has let it through;
\* process_incoming_message does the same when the message comes back.
ApplyPending(m) ==
    /\ Active(m) /\ HasNext(group[m])
    /\ \E p \in group[m].pending_commit :
        /\ p.commit = NextCommit(group[m])
        /\ group' = [group EXCEPT ![m] = apply_pending_commit(@, p)]
    /\ UNCHANGED <<options, stored, detached, wire, log, removed, made, faults>>

\* insert_past_epoch fails in the storage provider.
ApplyPendingFails(m) ==
    /\ "apply" \in options.failing /\ faults < options.faults
    /\ Active(m) /\ HasNext(group[m])
    /\ \E p \in group[m].pending_commit : p.commit = NextCommit(group[m])
    /\ group' = [group EXCEPT ![m].pending_commit = {}]
    /\ faults' = faults + 1
    /\ UNCHANGED <<options, stored, detached, wire, log, removed, made>>

ApplyDetached(m) ==
    /\ Active(m) /\ HasNext(group[m])
    /\ \E p \in detached[m] :
        /\ p.commit = NextCommit(group[m])
        /\ group' = [group EXCEPT ![m] = apply_detached_commit(@, p)]
    /\ UNCHANGED <<options, stored, detached, wire, log, removed, made, faults>>

-----------------------------------------------------------------------------
(* Processing a commit from the delivery service *)

\* What process_commit leaves behind when it gets as far as each of its stages.
OwnUpdate(m, c) == {p \in c.refs : p.by = m}

AfterReInit(g, c) == [g EXCEPT !.pending_reinit = @ \/ c.reinit]

AfterSigner(g, m, c) ==
    LET h == AfterReInit(g, c)
    IN IF c.path /\ OwnUpdate(m, c) # {}
       THEN [h EXCEPT !.signer = (CHOOSE p \in OwnUpdate(m, c) : TRUE).key] ELSE h

\* Faulty: the public tree is replaced before the last fallible call.
AfterPrivateTreeEarly(g, m, c) ==
    [AfterSigner(g, m, c) EXCEPT !.leaves = apply_resolved(g.leaves, c)]

\* Faulty: the member's own update is not applied to the private tree.
AfterPrivateTreeStale(g, m, c) == AfterSigner(g, m, c)

\* Faulty: the secrets of updates are cleared before the last fallible call.
AfterPrivateTreeCleared(g, m, c) ==
    LET h == AfterSigner(g, m, c)
    IN [h EXCEPT !.pending_updates = {},
                 !.key = IF c.path /\ OwnUpdate(m, c) # {}
                         THEN (CHOOSE p \in OwnUpdate(m, c) : TRUE).key ELSE @]

AfterPrivateTree(g, m, c) ==
    LET h == AfterSigner(g, m, c)
    IN IF c.path /\ OwnUpdate(m, c) # {}
       THEN [h EXCEPT !.key = (CHOOSE p \in OwnUpdate(m, c) : TRUE).key] ELSE h

\* Faulty: the proposals of the last epoch stay in the cache.
AfterKeyScheduleCached(g, m, c) ==
    [AfterPrivateTree(g, m, c) EXCEPT
        !.epoch = @ + 1, !.leaves = apply_resolved(g.leaves, c),
        !.pending_updates = {}, !.pending_commit = {}]

\* Faulty: the commit that lost stays pending.
AfterKeySchedulePending(g, m, c) ==
    [AfterPrivateTree(g, m, c) EXCEPT
        !.epoch = @ + 1, !.leaves = apply_resolved(g.leaves, c),
        !.proposals = {}, !.pending_updates = {}]

AfterKeySchedule(g, m, c) ==
    [AfterPrivateTree(g, m, c) EXCEPT
        !.epoch = @ + 1, !.leaves = apply_resolved(g.leaves, c),
        !.proposals = {}, !.pending_updates = {}, !.pending_commit = {}]

\* The Group after process_commit, when the call named by fault fails.
process_commit(g, m, c, fault) ==
    IF g.pending_reinit \/ ~(c.refs \subseteq g.proposals) \/ m \in c.remove
    THEN g
    ELSE IF c.path /\ ~({p.key : p \in OwnUpdate(m, c)} \subseteq g.pending_updates)
    THEN AfterReInit(g, c)                           \* UpdateErrorNoSecretKey
    ELSE IF c.path /\ (c.by = m \/ fault = "path")
    THEN AfterSigner(g, m, c)                        \* CantProcessMessageFromSelf
    ELSE IF fault = "schedule" \/ (c.external /\ g.pending_commit # {})
    THEN AfterPrivateTree(g, m, c)                   \* InvalidConfirmationTag
    ELSE AfterKeySchedule(g, m, c)

ProcessCommit(m) ==
    /\ Active(m) /\ HasNext(group[m])
    /\ LET g == group[m]  c == NextCommit(g)
       IN /\ \A p \in g.pending_commit : p.commit # c
          /\ group' = [group EXCEPT ![m] = process_commit(g, m, c, "none")]
          /\ removed' = IF m \in c.remove /\ ~g.pending_reinit /\ c.refs \subseteq g.proposals
                        THEN removed \cup {m} ELSE removed
    /\ UNCHANGED <<options, stored, detached, wire, log, made, faults>>

ProcessCommitFails(m, fault) ==
    /\ Active(m) /\ HasNext(group[m]) /\ faults < options.faults
    /\ LET g == group[m]  c == NextCommit(g)
       IN /\ \A p \in g.pending_commit : p.commit # c
          /\ m \notin c.remove
          /\ fault = "path" => c.path
          /\ group' = [group EXCEPT ![m] = process_commit(g, m, c, fault)]
    /\ faults' = faults + 1
    /\ UNCHANGED <<options, stored, detached, wire, log, removed, made>>

\* Group::clear_pending_commit, called when the service has refused the commit.
clear_pending_commit(m) ==
    /\ Active(m) /\ HasNext(group[m])
    /\ group[m].pending_commit # {}
    /\ \A p \in group[m].pending_commit : p.commit # NextCommit(group[m])
    /\ group' = [group EXCEPT ![m].pending_commit = {}]
    /\ UNCHANGED <<options, stored, detached, wire, log, removed, made, faults>>

-----------------------------------------------------------------------------
(* Joining, writing and crashing *)

\* ExternalCommitBuilder::build and the service letting the commit through.  A
\* client that is still in the roster removes its former leaf.
ExternalCommit(m) ==
    /\ options.join /\ made < options.made /\ Len(log) < options.epochs
    /\ m \in removed
    /\ log # <<>> => ~log[Len(log)].reinit
    /\ LET leaf == [key |-> made + 1, signer |-> made + 1]
           c == WithLeaves(CurrentLeaves,
                    [id |-> made + 1, epoch |-> Len(log), by |-> m, refs |-> {},
                     remove |-> DOMAIN CurrentLeaves \cap {m}, reinit |-> FALSE,
                     external |-> TRUE, path |-> TRUE, leaf |-> leaf])
       IN /\ log' = Append(log, c)
          /\ group' = [group EXCEPT ![m] = NewGroup(Len(log) + 1, c.leaves, leaf)]
          /\ stored' = [stored EXCEPT ![m] = NewGroup(Len(log) + 1, c.leaves, leaf)]
    /\ removed' = removed \ {m}
    /\ made' = made + 1
    /\ UNCHANGED <<options, detached, wire, faults>>

\* Group::write_to_storage; the proposals made since are sent afterwards.
WriteToStorage(m) ==
    /\ Active(m) /\ stored[m] # group[m]
    /\ stored' = [stored EXCEPT ![m] = group[m]]
    /\ wire' = wire \cup {p \in group[m].proposals : p.by = m}
    /\ UNCHANGED <<options, group, detached, log, removed, made, faults>>

\* The process ends; Client::load_group starts again from the snapshot.
Crash(m) ==
    /\ Active(m) /\ faults < options.faults /\ stored[m] # group[m]
    /\ group' = [group EXCEPT ![m] = stored[m]]
    /\ faults' = faults + 1
    /\ UNCHANGED <<options, stored, detached, wire, log, removed, made>>

-----------------------------------------------------------------------------

Next ==
    \E m \in Members :
        \/ ProposeUpdate(m)
        \/ \E p \in wire : process_proposal(m, p)
        \/ Build(m)
        \/ BuildDetached(m)
        \/ Accept(m)
        \/ ApplyPending(m)
        \/ ApplyPendingFails(m)
        \/ ApplyDetached(m)
        \/ ProcessCommit(m)
        \/ \E fault \in options.failing \ {"apply"} : ProcessCommitFails(m, fault)
        \/ clear_pending_commit(m)
        \/ ExternalCommit(m)
        \/ WriteToStorage(m)
        \/ Crash(m)

Spec == Init /\ [][Next]_vars

-----------------------------------------------------------------------------

Leaf == [key : 0 .. options.made, signer : 0 .. options.made]

\* Every Group holds a tree with its own leaf, at most one pending commit, and
\* only proposals of its own epoch (the cache is emptied with every new epoch).
TypeOK ==
    /\ \A m \in Members : \A g \in {group[m], stored[m]} :
        /\ g.epoch \in 0 .. Len(log)
        /\ DOMAIN g.leaves \subseteq Members
        /\ \A n \in DOMAIN g.leaves : g.leaves[n] \in Leaf
        /\ \A p, q \in g.pending_commit : p = q
        /\ \A p \in g.proposals : p.epoch = g.epoch
        /\ m \notin removed => m \in DOMAIN g.leaves
    /\ \A e \in 1 .. Len(log) : log[e].epoch = e - 1
    /\ made \in 0 .. options.made /\ faults \in 0 .. options.faults

\* Whatever a member received, applied, retried or reloaded, in the epoch it is
\* in it sees the leaves that the commit leading there gave to the group: the
\* sender's apply_resolved in commit_internal and the receiver's in
\* process_commit work from different caches and never disagree.
MembersAgree ==
    \A m \in Members : Active(m) => group[m].leaves = LeavesAt(group[m].epoch)

\* The leaf secret and the signer of a member are the ones of its leaf in the
\* tree, or, after process_commit failed half way, of its leaf in the tree that
\* the same commit leads to: pending_updates and the early assignments to signer
\* and private_tree never leave a member with secrets of no epoch.
OwnSecretsMatch ==
    \A m \in Members :
        Active(m) =>
            LET g == group[m]
                mine == {g.leaves[m]} \cup
                        {l \in Leaf : /\ HasNext(g)
                                      /\ m \in DOMAIN NextCommit(g).leaves
                                      /\ l = NextCommit(g).leaves[m]}
            IN g.key \in {l.key : l \in mine} /\ g.signer \in {l.signer : l \in mine}

\* A member whose own commit was let through still has the secrets to apply it
\* (it cannot process the message itself): nothing takes a pending commit away
\* that the service may choose, a crash included.  (apply_pending_commit itself
\* does when it takes the commit and then fails to write the past epoch.)
OwnCommitHeld ==
    \A m \in Members :
        LET g == group[m]
        IN /\ Active(m) /\ HasNext(g)
           /\ NextCommit(g).by = m /\ NextCommit(g).path
           /\ m \notin NextCommit(g).remove
           /\ "apply" \notin options.failing
           => \E p \in g.pending_commit \cup detached[m] : p.commit = NextCommit(g)

\* A pending commit is for the epoch the Group is in: processing the commit of
\* another member clears the one that lost.  (apply_detached_commit does not, so
\* an application that uses both kinds of commit is left with a stale one.)
PendingIsCurrent ==
    ~options.detach =>
        \A m \in Members : \A p \in group[m].pending_commit : p.commit.epoch = group[m].epoch

\* Every member of the group reaches its last epoch, whatever failed and
\* however many commits of its own were refused on the way.  Two failures are
\* beyond retry: apply_pending_commit has taken the commit when storage fails,
\* and process_commit has set pending_reinit when a later call fails.
EveryoneCatchesUp ==
    "apply" \notin options.failing /\ ~options.reinit =>
        <>[](\A m \in DOMAIN CurrentLeaves : Active(m) /\ group[m].epoch = Len(log))

=============================================================================
