-------------------------------- MODULE TreeHash --------------------------------
(***************************************************************************)
(* The hashes of the ratchet tree: the tree hash of every node, which      *)
(* TreeKemPublic caches in tree_hashes.current and recomputes only below   *)
(* the leaves that changed, and the original hashes of tree_hash.rs, which *)
(* leave out the leaves that were unmerged when a parent was last keyed;   *)
(* the parent hashes of parent_hash.rs; the checks of tree_validator.rs.   *)
(*                                                                         *)
(* A tree hash stands for what it commits to: the nodes of the subtree     *)
(* from left to right, each leaf with its index.  A parent hash is a name; *)
(* `oracle` maps the names in use to their inputs, and an input has one    *)
(* name.  A leaf carries a field `source`: <<"KeyPackage">>, <<"Update">>  *)
(* or <<"Commit", hash>>.  A tree is [nodes, current, oracle], and the     *)
(* hash of node x is element x + 1 of current.                             *)
(***************************************************************************)
EXTENDS NodeVec

\* ------------------------------------------------------------- tree_hash.rs
hash_for_leaf(i, node) == <<<<i, node>>>>

hash_for_parent(node, filtered_leaves, left, right) ==
    left \o <<IF node = Blank THEN <<node>>
              ELSE <<[node EXCEPT !.unmerged = SelectSeq(@, LAMBDA i : i \notin filtered_leaves)]>>>>
         \o right

ResizedHashes(hashes, n) ==
    IF Len(hashes) >= 2 * n - 1 THEN SubSeq(hashes, 1, 2 * n - 1)
    ELSE hashes \o [k \in 1 .. 2 * n - 1 - Len(hashes) |-> NoHash]

\* The nodes whose hash changes with those of the leaves: the queue of tree_hash
\* holds the parents of the leaves, then their parents, up to the root.
NodesAbove(leaves, n) ==
    UNION {{2 * i} \cup {c.path : c \in Range(CopathIn(n, i))} : i \in leaves}

Rehash(old, nodes, changed, filtered_leaves, n) ==
    LET Hash[x \in 0 .. 2 * n - 2] ==
            CASE x \notin changed -> old[x + 1]
              [] x \in changed /\ is_leaf(x) ->
                    hash_for_leaf(x \div 2, IF x \div 2 \in filtered_leaves THEN Blank
                                            ELSE borrow_node(nodes, x))
              [] OTHER -> hash_for_parent(borrow_node(nodes, x), filtered_leaves,
                                          Hash[left_unchecked(x)], Hash[right_unchecked(x)])
    IN  [k \in 1 .. 2 * n - 1 |-> Hash[k - 1]]

tree_hash(hashes, nodes, leaves, filtered_leaves, n) ==
    Rehash(ResizedHashes(hashes, n), nodes, NodesAbove(leaves \cap 0 .. n - 1, n),
           filtered_leaves, n)

initialize_hashes(hashes, nodes) ==
    IF hashes # <<>> THEN hashes
    ELSE tree_hash(<<>>, nodes, 0 .. total_leaf_count(nodes) - 1, {}, total_leaf_count(nodes))

\* Faulty: the leaves of a tree that grew are not hashed.
update_hashesGiven(hashes, nodes, updated_leaves) ==
    tree_hash(hashes, nodes, updated_leaves, {}, total_leaf_count(nodes))

\* The leaves past the end of the cached array are hashed as well.
update_hashes(hashes, nodes, updated_leaves) ==
    LET n == total_leaf_count(nodes)
    IN  tree_hash(hashes, nodes,
                  updated_leaves \cup {i \in 0 .. n - 1 : 2 * i >= Len(hashes)}, {}, n)

\* The part of a parent's unmerged leaves that lies below x, if they are sorted
unmerged_in_subtree(unmerged, x) ==
    LET start == Max({k \in 0 .. Len(unmerged) :
                        \A j \in 1 .. k : unmerged[j] < subtree(x).left})
        end   == Max({k \in start .. Len(unmerged) :
                        \A j \in start + 1 .. k : unmerged[j] < subtree(x).right})
    IN  SubSeq(unmerged, start + 1, end)

different_unmerged(nodes, ancestor, descendant) ==
    /\ ~is_blank(nodes, ancestor) /\ ~is_blank(nodes, descendant)
    /\ unmerged_in_subtree(borrow_node(nodes, ancestor).unmerged, descendant)
          # borrow_node(nodes, descendant).unmerged

LeavesUnder(x) == subtree(x).left .. subtree(x).right - 1

\* One node x of the loop over BfsIterTopDown: acc.last[x] is the last element of
\* filtered_sets[x], acc.hashes[p] the hashes without the unmerged leaves of p.
FilterBelow(acc, nodes, x, p, n) ==
    IF different_unmerged(nodes, acc.last[p], p)
    THEN [last   |-> [acc.last EXCEPT ![x] = p],
          hashes |-> [acc.hashes EXCEPT ![p] =
                        tree_hash(@, nodes, LeavesUnder(x),
                                  Range(borrow_node(nodes, p).unmerged), n)]]
    ELSE [acc EXCEPT !.last[x] = acc.last[p]]

\* The traversals of small trees, which TLC computes once
BfsOrders == [depth \in 0 .. 3 |-> BfsIterTopDown(depth)]

BfsOrder(n) == BfsOrders[CHOOSE depth \in 0 .. 3 : 2^depth = n]

FilteredHashes(nodes, n) ==
    FoldL(LAMBDA acc, x : FilterBelow(acc, nodes, x, parent(x), n),
             [last   |-> [x \in 0 .. 2 * n - 2 |-> root(n)],
              hashes |-> [x \in 0 .. 2 * n - 2 |-> <<>>]],
             Tail(BfsOrder(n)))

\* The hashes without the leaves that are unmerged at the root
RootOriginal(tree, r, n) ==
    IF is_leaf(r) \/ is_blank(tree.nodes, r) \/ borrow_node(tree.nodes, r).unmerged = <<>>
    THEN tree.current
    ELSE tree_hash(<<>>, tree.nodes, 0 .. n - 1, Range(borrow_node(tree.nodes, r).unmerged), n)

OriginalHashes(tree, n, found, root_original) ==
    [x \in 0 .. 2 * n - 2 |->
        IF is_blank(tree.nodes, found.last[x]) \/ found.last[x] = root(n)
        THEN root_original[x + 1] ELSE found.hashes[found.last[x]][x + 1]]

\* Faulty: the leaves that are unmerged at a parent are hashed all the same.
compute_original_hashesCurrent(tree, n) == [x \in 0 .. 2 * n - 2 |-> tree.current[x + 1]]

compute_original_hashes(tree, n) ==
    OriginalHashes(tree, n, FilteredHashes(tree.nodes, n), RootOriginal(tree, root(n), n))

\* ----------------------------------------------------------- parent_hash.rs
ParentHashInput(parent_node, hash, sibling_hash) ==
    [key |-> parent_node.key, parent_hash |-> hash, original_sibling_tree_hash |-> sibling_hash]

\* ParentHash::new: the name of the input, a new one if it was not hashed before
ParentHash(oracle, input) ==
    IF \E h \in DOMAIN oracle : oracle[h] = input
    THEN CHOOSE h \in DOMAIN oracle : oracle[h] = input
    ELSE <<input.key, CHOOSE v \in 0 .. Cardinality(DOMAIN oracle) :
                         <<input.key, v>> \notin DOMAIN oracle>>

Hashed(oracle, input) == (ParentHash(oracle, input) :> input) @@ oracle

\* The nodes of the path that have a copath with members, the root first: each
\* gets the hash of the one above, and the hash of the lowest is the leaf's.
HashOnPath(acc, x, input) ==
    [ok     |-> TRUE,
     nodes  |-> [acc.nodes EXCEPT ![x + 1].parent_hash = acc.hash],
     hash   |-> ParentHash(acc.oracle, input),
     oracle |-> Hashed(acc.oracle, input)]

parent_hash_for_leaf(tree, i) ==
    FoldR(
        LAMBDA c, acc :
            CASE ~acc.ok \/ is_resolution_empty(tree.nodes, c.copath) -> acc
              [] acc.ok /\ is_blank(tree.nodes, c.path) -> [acc EXCEPT !.ok = FALSE]
              [] OTHER -> HashOnPath(acc, c.path,
                             ParentHashInput(borrow_node(tree.nodes, c.path), acc.hash,
                                             tree.current[c.copath + 1])),
        CopathOf(tree.nodes, i),
        [ok |-> TRUE, nodes |-> tree.nodes, hash |-> NoHash, oracle |-> tree.oracle])

WithSource(nodes, i, source) == [nodes EXCEPT ![2 * i + 1].leaf.source = source]

\* Faulty: a receiver compares the leaf's hash and leaves the path as it was.
WithParentHashesOnlyCompared(tree, i, verify_leaf_hash, climbed) ==
    LET nodes == IF verify_leaf_hash THEN tree.nodes
                 ELSE WithSource(climbed.nodes, i, <<"Commit", climbed.hash>>)
    IN  [ok   |-> /\ climbed.ok
                  /\ verify_leaf_hash => LeafAt(nodes, i).source = <<"Commit", climbed.hash>>,
         tree |-> [nodes   |-> nodes,
                   current |-> update_hashes(tree.current, nodes, {i}),
                   oracle  |-> climbed.oracle]]

WithParentHashes(tree, i, verify_leaf_hash, climbed) ==
    LET nodes == IF verify_leaf_hash THEN climbed.nodes
                 ELSE WithSource(climbed.nodes, i, <<"Commit", climbed.hash>>)
    IN  [ok   |-> /\ climbed.ok
                  /\ verify_leaf_hash => LeafAt(nodes, i).source = <<"Commit", climbed.hash>>,
         tree |-> [nodes   |-> nodes,
                   current |-> update_hashes(tree.current, nodes, {i}),
                   oracle  |-> climbed.oracle]]

\* The committer stores the hash in its leaf; a receiver compares it with the
\* one the leaf has.
update_parent_hashes(tree, i, verify_leaf_hash) ==
    LET hashed == [tree EXCEPT !.current = update_hashes(@, tree.nodes, {i})]
    IN  WithParentHashes(hashed, i, verify_leaf_hash, parent_hash_for_leaf(hashed, i))

get_parent_hash(node) ==
    CASE node.kind = "parent" -> <<"Some", node.parent_hash>>
      [] node.kind = "leaf" /\ node.leaf.source[1] = "Commit" -> <<"Some", node.leaf.source[2]>>
      [] OTHER -> <<"None">>

\* ps: the first parent above n that is not blank, and its child s on the other
\* side.  c is its child on the side of n.
Covers(tree, n, ps, original) ==
    get_parent_hash(borrow_node(tree.nodes, n)) =
        <<"Some", ParentHash(tree.oracle,
                    ParentHashInput(borrow_node(tree.nodes, ps.path),
                                    borrow_node(tree.nodes, ps.path).parent_hash,
                                    original[ps.copath]))>>

InResolution(nodes, n, p, c) ==
    LET resolution == Range(get_resolution_index(nodes, c))
        unmerged   == unmerged_in_subtree(borrow_node(nodes, p).unmerged, c)
    IN  n \in resolution /\ resolution \ {n} = {2 * i : i \in Range(unmerged)}

\* Faulty: a chain that meets only blank parents up to the root ends itself.
UpToBlankRootOpen(todo) == [verdict |-> "open", todo |-> todo]

\* A chain that meets only blank parents up to the root ends the whole check.
UpToBlankRoot(todo) == [verdict |-> "Ok", todo |-> todo]

\* The chain of nodes that starts at a leaf: `todo` are the parents not yet
\* validated.
ValidateChain(tree, leaf, first_todo, original, num_leaves) ==
    LET Above(n) == SelectSeq(direct_copath(n, num_leaves),
                              LAMBDA c : ~is_blank(tree.nodes, c.path))
        Climb[n \in 0 .. 2 * num_leaves - 2, todo \in SUBSET (0 .. 2 * num_leaves - 2)] ==
            CASE n = root(num_leaves) -> [verdict |-> "open", todo |-> todo]
              [] n # root(num_leaves) /\ Above(n) = <<>> -> UpToBlankRoot(todo)
              [] OTHER ->
                    LET ps == Above(n)[1]
                    IN  CASE ~Covers(tree, n, ps, original) -> [verdict |-> "open", todo |-> todo]
                          [] Covers(tree, n, ps, original)
                               /\ InResolution(tree.nodes, n, ps.path, sibling(ps.copath))
                               /\ ps.path \in todo -> Climb[ps.path, todo \ {ps.path}]
                          [] OTHER -> [verdict |-> "ParentHashMismatch", todo |-> todo]
    IN  Climb[2 * leaf, first_todo]

ValidatedChains(tree, original, n) ==
    FoldL(LAMBDA acc, i : IF acc.verdict # "open" THEN acc
                             ELSE ValidateChain(tree, i, acc.todo, original, n),
             [verdict |-> "open",
              todo    |-> {x \in 0 .. Len(tree.nodes) - 1 :
                            borrow_node(tree.nodes, x).kind = "parent"}],
             SetToSortSeq(Members(tree.nodes), <))

\* What is left to validate when the check ends, and whether it succeeds
validate_parent_hashes(tree, original) ==
    LET end == ValidatedChains(tree, original, total_leaf_count(tree.nodes))
    IN  [ok   |-> end.verdict = "Ok" \/ (end.verdict = "open" /\ end.todo = {}),
         todo |-> end.todo]

\* -------------------------------------------------------- tree_validator.rs
validate_no_trailing_blanks(nodes) == nodes # <<>> /\ nodes[Len(nodes)] # Blank

\* The nodes above leaf i, up to the first that has a key and does not list i
UnmergedPrefix(nodes, i) ==
    LET path     == CopathOf(nodes, i)
        Stops(k) == ~is_blank(nodes, path[k].path)
                      /\ i \notin Range(borrow_node(nodes, path[k].path).unmerged)
    IN  {path[k].path : k \in {j \in DOMAIN path : \A m \in 1 .. j : ~Stops(m)}}

validate_unmerged(nodes) ==
    \A x \in 0 .. Len(nodes) - 1 :
        borrow_node(nodes, x).kind = "parent" =>
            \A i \in Range(borrow_node(nodes, x).unmerged) :
                HasLeaf(nodes, i) /\ x \in UnmergedPrefix(nodes, i)

\* import_node_data followed by TreeValidator::validate; the leaves themselves
\* are taken to be valid.
validate(nodes, oracle, expected_tree_hash) ==
    \E tree \in {[nodes |-> nodes, current |-> initialize_hashes(<<>>, nodes), oracle |-> oracle]} :
        /\ tree.current[root(total_leaf_count(nodes)) + 1] = expected_tree_hash
        /\ \E original \in {compute_original_hashes(tree, total_leaf_count(nodes))} :
                validate_parent_hashes(tree, original).ok
        /\ validate_no_trailing_blanks(nodes)
        /\ validate_unmerged(nodes)

===============================================================================
