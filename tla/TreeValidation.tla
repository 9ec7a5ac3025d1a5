----------------------------- MODULE TreeValidation -----------------------------
(***************************************************************************)
(* The public tree of a group through a series of commits, with its cached *)
(* hashes at three parties: the committer (batch_edit and encap), a member *)
(* that receives the commit (batch_edit and apply_update_path), and a      *)
(* client that joins with nothing but the nodes and the tree hash of the   *)
(* group context (import_node_data and TreeValidator).                     *)
(*                                                                         *)
(* The key that a commit makes for node x is <<k, x>>, with k a number     *)
(* that is in no key and in no hash of the tree.  The index of leaf data   *)
(* plays no part: it starts empty in every commit.                         *)
(***************************************************************************)
EXTENDS TreeKemPublic, TreeHash

CONSTANTS
    MaxLeaves,      \* how many members the group has at most
    MaxLive,        \* the greatest number of a commit
    MaxProposals,   \* how many proposals a commit carries at most
    Committers,     \* the leaves that make commits
    Proposed        \* the leaves that are removed, or that send updates

ASSUME ValidationAssumption ==
    /\ MaxLeaves \in 1 .. 8 /\ MaxLive \in Nat /\ MaxProposals \in Nat
    /\ Committers \subseteq 0 .. MaxLeaves - 1
    /\ Proposed \subseteq 0 .. MaxLeaves - 1

VARIABLES
    tree,       \* the committer's tree [nodes, current, oracle]
    received    \* the tree of a receiver, and whether it accepted

vars == <<tree, received>>

M == Members(tree.nodes)

\* The keys behind a parent hash, a node, a tree hash
HashKeys(hash) == IF hash = NoHash THEN {} ELSE {hash[1]}

SourceHash(leaf) == IF leaf.source[1] = "Commit" THEN leaf.source[2] ELSE NoHash

NodeKeys(node) ==
    CASE node.kind = "leaf"   -> {node.leaf.key} \cup HashKeys(SourceHash(node.leaf))
      [] node.kind = "parent" -> {node.key} \cup HashKeys(node.parent_hash)
      [] OTHER                -> {}

TreeHashKeys(hash) == UNION {NodeKeys(Last(hashed)) : hashed \in Range(hash)}

KeysInUse ==
    UNION {NodeKeys(node) : node \in Range(tree.nodes)}
        \cup UNION {{i.key} \cup HashKeys(i.parent_hash) \cup TreeHashKeys(i.original_sibling_tree_hash)
                     : i \in Range(tree.oracle)}

\* The number of the next commit
Fresh ==
    LET used == {key[1] : key \in KeysInUse}
    IN  Min((0 .. Cardinality(used)) \ used)

NewLeaf(made, x, source) ==
    [identity |-> x, signer |-> x, key |-> <<made, x>>, source |-> source]

\* Group::new
Init ==
    LET leaf  == [identity |-> 0, signer |-> 0, key |-> <<0, 0>>, source |-> <<"KeyPackage">>]
        nodes == add_leaf(EmptyTree, leaf, 0).tree.nodes
    IN  /\ tree = [nodes |-> nodes, current |-> initialize_hashes(<<>>, nodes), oracle |-> <<>>]
        /\ received = [ok |-> TRUE, tree |-> tree]

\* ------------------------------------------------------------------ proposals
Bundle(made, gone, upd, n) ==
    [self_removes |-> <<>>,
     removals     |-> SetToSeq({[by_ref |-> FALSE, to_remove |-> i] : i \in gone}),
     updates      |-> SetToSeq({[by_ref |-> TRUE, sender |-> i,
                                 leaf |-> NewLeaf(made, 2 * i, <<"Update">>)] : i \in upd}),
     additions    |-> [k \in 1 .. n |->
                        [by_ref |-> FALSE,
                         leaf |-> NewLeaf(made, 2 * MaxLeaves + k, <<"KeyPackage">>)]]]

\* The leaves whose hashes batch_edit updates
ChangedLeaves(edit) ==
    {p.to_remove : p \in Range(edit.bundle.removals)}
        \cup {p.sender : p \in Range(edit.bundle.updates)} \cup Range(edit.added)

\* The hashes that batch_edit leaves behind
HashedEdit(old, edit) ==
    [nodes   |-> edit.tree.nodes,
     current |-> update_hashes(old.current, edit.tree.nodes, ChangedLeaves(edit)),
     oracle  |-> old.oracle]

Edited(old, bundle, filter) ==
    HashedEdit(old, batch_edit([nodes |-> old.nodes, index |-> NoIndex], bundle, filter))

\* ----------------------------------------------------------------------- path
PathKeys(made, nodes, c) ==
    LET path == CopathOf(nodes, c)
        skip == filtered(nodes, c)
    IN  [k \in DOMAIN path |-> IF skip[k] THEN NoKey ELSE <<made, path[k].path>>]

WithPathKeys(nodes, c, keys) ==
    FoldLDomain(LAMBDA ns, k : IF keys[k] = NoKey THEN ns
                                  ELSE update_node(ns, CopathOf(nodes, c)[k].path, keys[k]),
                   nodes, keys)

\* LeafNode::commit after update_parent_hashes: a new key, the source stays.
WithCommittedLeaf(made, hashed, c) ==
    LET nodes == [hashed.nodes EXCEPT ![2 * c + 1].leaf.key = <<made, 2 * c>>]
    IN  [hashed EXCEPT !.nodes = nodes, !.current = update_hashes(@, nodes, {c})]

encap(made, edited, c) ==
    WithCommittedLeaf(made,
        update_parent_hashes([edited EXCEPT !.nodes = WithPathKeys(@, c, PathKeys(made, @, c))],
                             c, FALSE).tree, c)

\* apply_update_path at a receiver: the committer's leaf and keys, then
\* update_parent_hashes with verification, then update_hashes of process_commit.
ReceivedPath(edited, c, leaf, keys) ==
    LET nodes    == apply_update_path([nodes |-> edited.nodes, index |-> NoIndex], c, leaf, keys).tree.nodes
        verified == update_parent_hashes([edited EXCEPT !.nodes = nodes], c, TRUE)
    IN  [verified EXCEPT !.tree.current = update_hashes(@, verified.tree.nodes, {c})]

\* What the committer makes of its edited tree, and a receiver of its own.
\* Without a path both only hash the committer's leaf once more.
CommitterTree(made, c, has_path, edited) ==
    IF has_path THEN encap(made, edited, c)
    ELSE [edited EXCEPT !.current = update_hashes(@, edited.nodes, {c})]

ReceiverTree(made, c, has_path, strict, sent) ==
    IF has_path
    THEN ReceivedPath([strict EXCEPT !.oracle = sent.oracle], c, LeafAt(sent.nodes, c),
                      PathKeys(made, strict.nodes, c))
    ELSE [ok |-> TRUE, tree |-> CommitterTree(made, c, FALSE, strict)]

\* The oracle forgets the hashes that are in no node any more.
WithoutOldHashes(t) ==
    [t EXCEPT !.oracle = Restrict(@, DOMAIN @ \cap UNION {
        CASE node.kind = "leaf" -> {SourceHash(node.leaf)}
          [] node.kind = "parent" -> {node.parent_hash}
          [] OTHER -> {} : node \in Range(t.nodes)})]

Outcome(made, c, has_path, strict, sent) ==
    LET got == ReceiverTree(made, c, has_path, strict, sent)
    IN  [tree     |-> WithoutOldHashes(sent),
         received |-> [got EXCEPT !.tree = WithoutOldHashes(@)]]

Commit(c) ==
    /\ received.ok /\ Fresh <= MaxLive
    /\ \E gone \in SUBSET ((M \cap Proposed) \ {c}) :
       \E upd \in SUBSET ((M \cap Proposed) \ (gone \cup {c})) :
       \E n \in 0 .. MaxLeaves - Cardinality(M \ gone) :
       \E has_path \in IF gone \cup upd = {} /\ n > 0 THEN BOOLEAN ELSE {TRUE} :
        /\ Cardinality(gone) + Cardinality(upd) + n <= MaxProposals
        /\ \E made \in {Fresh} :
           \E bundle \in {Bundle(made, gone, upd, n)} :
           \E edited \in {Edited(tree, bundle, TRUE)} :
           \E strict \in {Edited(received.tree, bundle, FALSE)} :
           \E sent \in {CommitterTree(made, c, has_path, edited)} :
           \E s \in {Outcome(made, c, has_path, strict, sent)} :
              tree' = s.tree /\ received' = s.received

Next == \E c \in M \cap Committers : Commit(c)

Spec == Init /\ [][Next]_vars

\* ----------------------------------------------------------------- properties
TreeHashOf(t) == t.current[root(total_leaf_count(t.nodes)) + 1]

\* A receiver accepts the parent hash of the committer's leaf, and ends with the
\* committer's nodes, parent hashes included, and the committer's hashes.
ReceiverAgrees == received.ok /\ received.tree = tree

\* The hashes that update_hashes keeps up to date are those that hashing the
\* whole tree from nothing gives, as a client that joins does.
CachedHashesAreCurrent == tree.current = initialize_hashes(<<>>, tree.nodes)

\* A client that joins accepts every tree that commits lead to: tree hash, parent
\* hashes, no trailing blanks, unmerged leaves.  For a tree whose root is blank
\* this rests on the early Ok(()) of validate_parent_hashes, which leaves parents
\* unchecked (AcceptedIsValidated); with a key at the root every parent is checked.
JoinerAccepts == validate(tree.nodes, tree.oracle, TreeHashOf(tree))

\* Reference: the tree hash of x with some leaves taken out of the tree.
HashWithout(nodes, x, leaves) ==
    initialize_hashes(<<>>, [k \in DOMAIN nodes |->
        CASE nodes[k].kind = "leaf" /\ (k - 1) \div 2 \in leaves -> Blank
          [] nodes[k].kind = "parent" ->
                [nodes[k] EXCEPT !.unmerged = SelectSeq(@, LAMBDA i : i \notin leaves)]
          [] OTHER -> nodes[k]])[x + 1]

\* compute_original_hashes shares hashes between the ancestors of a node; below
\* every parent it yields the hash of the children without the leaves that are
\* unmerged at that parent, as long as the root has a key.  With a blank root
\* different_unmerged never holds, no leaf is taken out, and the two may differ.
OriginalHashesAgree ==
    LET n == total_leaf_count(tree.nodes)
    IN  is_blank(tree.nodes, root(n)) \/
        \A p \in {x \in 0 .. Len(tree.nodes) - 1 : borrow_node(tree.nodes, x).kind = "parent"} :
            \A s \in {left_unchecked(p), right_unchecked(p)} :
                compute_original_hashes(tree, n)[s] =
                    HashWithout(tree.nodes, s, Range(borrow_node(tree.nodes, p).unmerged))

\* "The check passes iff all non-blank nodes are validated": when
\* validate_parent_hashes accepts a tree, no parent is left to validate.
AcceptedIsValidated ==
    \A original \in {compute_original_hashes(tree, total_leaf_count(tree.nodes))} :
    \A checked \in {validate_parent_hashes(tree, original)} :
        checked.ok => checked.todo = {}

===============================================================================
