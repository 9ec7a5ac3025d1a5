--------------------------- MODULE ProposalExchange ---------------------------
(***************************************************************************)
(* One epoch of proposals and the commit that ends it.  Members send       *)
(* proposals, which every member caches (ProposalCache, a map: the         *)
(* committer meets them in any order); one member commits what its filter  *)
(* keeps, together with a proposal of its own by value; another member     *)
(* that holds the same tree and the same cache checks the commit.  A       *)
(* client outside the group may commit instead, externally.                *)
(*                                                                         *)
(* Leaf i of a tree in Trees has identity i and signature key i.           *)
(***************************************************************************)
EXTENDS ProposalFilter

CONSTANTS
    Trees,          \* the trees the epoch may start with
    Newcomers,      \* identities, and first keys, of clients outside the group
    NewKeys,        \* keys that no leaf has yet
    CacheBound,     \* how many proposals are cached at most
    MayShareLeaf,   \* whether a leaf may be both updated and removed, or updated twice
    MayTakeKey      \* whether an update may carry the key of another leaf that updates

ASSUME ExchangeAssumption ==
    /\ CacheBound \in Nat
    /\ MayShareLeaf \in BOOLEAN /\ MayTakeKey \in BOOLEAN

VARIABLES
    tree,       \* the tree of the epoch, the same at every member
    cache,      \* the proposals received, each with its type
    commit,     \* the commit, and what its sender made of it
    receipt     \* what the receiver made of it

vars == <<tree, cache, commit, receipt>>

None == [kind |-> "none"]

Leaves == Members(tree.nodes)

Leaf(identity, key) == [identity |-> identity, signer |-> key, key |-> key]

\* ---------------------------------------------------------------- proposals
AllKeys == Leaves \cup Newcomers \cup NewKeys

\* The keys of the leaves that support some group context extensions: all, all
\* but the newcomers', all but a member's, all but the updated ones
Supporters == {AllKeys, AllKeys \ Newcomers, AllKeys \ {Max(Leaves)}, AllKeys \ NewKeys}

ByRef ==
    UNION {
        {[type |-> "removals", by_ref |-> TRUE, to_remove |-> i, sender |-> j] :
            i \in Leaves, j \in {Min(Leaves), Max(Leaves)}},
        {[type |-> "self_removes", by_ref |-> TRUE, sender |-> i] : i \in Leaves},
        UNION {{[type |-> "updates", by_ref |-> TRUE, sender |-> i, leaf |-> Leaf(i, k)] :
                   k \in (NewKeys \cup Leaves) \ {i}} : i \in Leaves},
        {[type |-> "additions", by_ref |-> TRUE, leaf |-> Leaf(n, k)] :
            n \in Newcomers \cup {0}, k \in Newcomers},
        {[type |-> "psks", by_ref |-> TRUE, psk |-> 1],
         [type |-> "reinitializations", by_ref |-> TRUE]},
        {[type |-> "group_context_extensions", by_ref |-> TRUE, supporters |-> s] :
            s \in Supporters}}

ByValue ==
    UNION {
        {[type |-> "removals", by_ref |-> FALSE, to_remove |-> i] : i \in Leaves},
        {[type |-> "additions", by_ref |-> FALSE, leaf |-> Leaf(n, n)] :
            n \in Newcomers \cup {0}},
        {[type |-> "psks", by_ref |-> FALSE, psk |-> 1],
         [type |-> "reinitializations", by_ref |-> FALSE]},
        {[type |-> "group_context_extensions", by_ref |-> FALSE, supporters |-> s] :
            s \in Supporters}}

UpdatesIn(ps) == {p \in ps : p.type = "updates"}

LeavesUpdated(ps) == {p.sender : p \in UpdatesIn(ps)}

LeavesRemoved(ps) ==
    {p.to_remove : p \in {q \in ps : q.type = "removals"}}
        \cup {p.sender : p \in {q \in ps : q.type = "self_removes"}}

LeafShared(ps) ==
    \/ LeavesUpdated(ps) \cap LeavesRemoved(ps) # {}
    \/ Cardinality(LeavesUpdated(ps)) # Cardinality(UpdatesIn(ps))

KeyTaken(ps) ==
    \E p, q \in UpdatesIn(ps) : p.sender # q.sender /\ p.leaf.key = q.sender

Allowed(ps) == (MayShareLeaf \/ ~LeafShared(ps)) /\ (MayTakeKey \/ ~KeyTaken(ps))

Init ==
    /\ tree \in Trees
    /\ cache = {}
    /\ commit = None
    /\ receipt = None

\* ProposalCache::insert, at every member.  No second proposal shares the type
\* and content of a cached one: its reference, a hash, would be the same.
Propose ==
    /\ commit = None
    /\ Cardinality(cache) < CacheBound
    /\ \E p \in ByRef \ cache : Allowed(cache \cup {p}) /\ cache' = cache \cup {p}
    /\ UNCHANGED <<tree, commit, receipt>>

BundleOf(ps) ==
    FoldL(LAMBDA bundle, p : BundleAdd(bundle, p.type, p), NoProposals, ps)

\* prepare_commit, then the committer's filter
prepare_commit(refs, values) == BundleOf(refs \o values)

SendCommit ==
    /\ commit = None
    /\ \E committer \in Leaves, refs \in SetToSeqs(cache),
          values \in {<<>>} \cup {<<p>> : p \in {q \in ByValue : Allowed(cache \cup {q})}} :
        LET bundle == prepare_commit(refs, values)
            output == apply_proposals_from_member(tree, bundle, committer, TRUE)
        IN  commit' = [kind |-> "member", committer |-> committer, values |-> values,
                       output |-> output]
    /\ UNCHANGED <<tree, cache, receipt>>

\* An external commit carries its proposals by value: the external init and
\* perhaps the removal of a leaf.
SendExternalCommit ==
    /\ commit = None
    /\ \E identity \in Newcomers \cup Leaves, gone \in SUBSET Leaves :
        LET leaf   == Leaf(identity, CHOOSE k \in NewKeys : TRUE)
            init   == [type |-> "external_initializations", by_ref |-> FALSE]
            values == <<init>> \o SetToSeq({[type |-> "removals", by_ref |-> FALSE,
                                             to_remove |-> i] : i \in gone})
        IN  commit' = [kind |-> "external", leaf |-> leaf, values |-> values,
                       output |-> apply_proposals_from_new_member(tree, BundleOf(values), leaf)]
    /\ UNCHANGED <<tree, cache, receipt>>

\* The commit message lists what its sender kept, type by type, and a reference
\* for each proposal that was received.
proposals_or_refs(bundle) ==
    bundle.additions \o bundle.removals \o bundle.reinitializations \o bundle.self_removes
        \o bundle.updates \o bundle.psks \o bundle.external_initializations
        \o bundle.group_context_extensions

\* The receiver looks the references up in its cache (else ProposalNotFound) and
\* sorts the list by type again.
resolve_for_commit(listed) ==
    [ok |-> \A p \in Range(listed) : p.by_ref => p \in cache, bundle |-> BundleOf(listed)]

ReceiveCommit ==
    /\ commit # None /\ commit.output.ok
    /\ receipt = None
    /\ LET resolved == resolve_for_commit(proposals_or_refs(commit.output.bundle))
           bundle   == resolved.bundle
       IN  receipt' = CASE ~resolved.ok -> [ok |-> FALSE]
                        [] resolved.ok /\ commit.kind = "member" ->
                            apply_proposals_from_member(tree, bundle, commit.committer, FALSE)
                        [] OTHER -> apply_proposals_from_new_member(tree, bundle, commit.leaf)
    /\ UNCHANGED <<tree, cache, commit>>

Next == Propose \/ SendCommit \/ SendExternalCommit \/ ReceiveCommit

Spec == Init /\ [][Next]_vars

\* ---------------------------------------------------------------- properties
Sent == commit # None /\ commit.output.ok

Applied == commit.output.bundle

After == commit.output.tree

Gone == {p.to_remove : p \in Range(Applied.removals)}
            \cup {p.sender : p \in Range(Applied.self_removes)}

UpdateOf(i) == {p \in Range(Applied.updates) : p.sender = i}

\* What the committer's filter lets through, the stricter filter of a receiver
\* accepts, and both arrive at the same tree, the same proposals and the same
\* places for the new members: a commit never splits the group.
SentCommitAccepted ==
    receipt # None =>
        /\ receipt.ok
        /\ receipt.tree = commit.output.tree
        /\ receipt.bundle = commit.output.bundle
        /\ receipt.added = commit.output.added

\* The tree of the commit differs from the old one by the applied proposals
\* only: a member keeps its leaf unless it is removed, gets the new leaf of its
\* own applied update, and every added client is in.
OnlyAppliedChanges ==
    Sent =>
        /\ \A i \in Leaves \ Gone :
              /\ HasLeaf(After.nodes, i)
              /\ LeafAt(After.nodes, i) \in
                    IF UpdateOf(i) = {} THEN {LeafAt(tree.nodes, i)}
                    ELSE {p.leaf : p \in UpdateOf(i)}
        /\ {LeafAt(After.nodes, i) : i \in Range(commit.output.added)} =
              {p.leaf : p \in Range(Applied.additions)}

\* The index that refuses duplicate leaf data describes the tree it belongs to,
\* and no two leaves share an identity or a key.
IndexMatchesTree ==
    Sent =>
        /\ After.index = IndexOf(After.nodes)
        /\ \A i, j \in Members(After.nodes) : i # j =>
              /\ LeafAt(After.nodes, i).identity # LeafAt(After.nodes, j).identity
              /\ LeafAt(After.nodes, i).signer # LeafAt(After.nodes, j).signer

\* After a commit that updates or removes a leaf, no parent above that leaf
\* keeps the key its old holder may know; and an unmerged leaf of a parent is
\* a member below it, listed once and in order.
PathsBlanked ==
    Sent =>
        /\ \A i \in Gone \cup {p.sender : p \in Range(Applied.updates)} :
              \A x \in PathOf(tree.nodes, i) : is_blank(After.nodes, x)
        /\ \A x \in {2 * j + 1 : j \in 0 .. Len(After.nodes)} :
              LET node == borrow_node(After.nodes, x)
                  span == subtree(x)
              IN  node.kind = "parent" =>
                    /\ Range(node.unmerged) \subseteq
                            Members(After.nodes) \cap (span.left .. span.right - 1)
                    /\ \A k \in 1 .. Len(node.unmerged) - 1 :
                            node.unmerged[k] < node.unmerged[k + 1]

\* A proposal the committer asked for by value is in the commit or the commit
\* fails: it is never filtered out silently.
ByValueHonoured ==
    Sent => \A p \in Range(commit.values) : p \in Range(Applied[p.type])


\* A commit that removes a member carries no update of that member: the
\* committer filters it out.
UpdateOfRemovedFilteredOut ==
    Sent => \A i \in Gone : UpdateOf(i) = {}

\* When an update can be neither applied nor reverted the committer reverts all
\* updates: a commit without updates leaves every leaf it does not remove as it
\* was.
RevertRestoresLeaves ==
    Sent /\ Applied.updates = <<>> =>
        \A i \in Leaves \ Gone :
            HasLeaf(After.nodes, i) /\ LeafAt(After.nodes, i) = LeafAt(tree.nodes, i)

===============================================================================
