-------------------------------- MODULE NodeVec --------------------------------
(***************************************************************************)
(* The array of nodes of the ratchet tree (NodeVec in                      *)
(* mls-rs/src/tree_kem/node.rs).  Node x of the code is element x + 1 of   *)
(* the sequence; the array may be shorter than the complete tree, and a    *)
(* node past its end is blank.  A leaf node is abstracted to its identity, *)
(* its signature key and its HPKE key, a parent to its HPKE key, its       *)
(* unmerged leaves and its parent hash, which only TreeHash fills in.      *)
(***************************************************************************)
EXTENDS TreeMath, LinearFolds, SequencesExt

Blank == [kind |-> "blank"]
LeafNode(leaf) == [kind |-> "leaf", leaf |-> leaf]
NoHash == <<>>
ParentNode(key, unmerged) ==
    [kind |-> "parent", key |-> key, unmerged |-> unmerged, parent_hash |-> NoHash]

NextPowerOfTwo(n) == 2^(CHOOSE k \in 0 .. n : 2^k >= n /\ \A j \in 0 .. k - 1 : 2^j < n)

total_leaf_count(nodes) == NextPowerOfTwo(Len(nodes) \div 2 + 1)

borrow_node(nodes, x) == IF x < Len(nodes) THEN nodes[x + 1] ELSE Blank

is_blank(nodes, x) == borrow_node(nodes, x) = Blank

HasLeaf(nodes, i) == borrow_node(nodes, 2 * i).kind = "leaf"

LeafAt(nodes, i) == borrow_node(nodes, 2 * i).leaf

\* The leaf indices of non_empty_leaves
Members(nodes) == {i \in 0 .. Len(nodes) \div 2 : HasLeaf(nodes, i)}

\* The copaths of small trees, which TLC computes once
Copaths == [n \in {1, 2, 4, 8} |-> [i \in 0 .. 7 |-> direct_copath(2 * i, n)]]

CopathIn(n, i) == IF n <= 8 /\ i <= 7 THEN Copaths[n][i] ELSE direct_copath(2 * i, n)

CopathOf(nodes, i) == CopathIn(total_leaf_count(nodes), i)

PathOf(nodes, i) == {c.path : c \in Range(CopathOf(nodes, i))}

\* The public key of a node that is not blank
public_key(node) == IF node.kind = "leaf" THEN node.leaf.key ELSE node.key

SetNode(nodes, x, node) == [nodes EXCEPT ![x + 1] = node]

\* blank_leaf_node fails where HasLeaf does not hold; its callers test that.
blank_leaf_node(nodes, i) == SetNode(nodes, 2 * i, Blank)

\* Faulty: the root is not blanked.
blank_direct_pathShort(nodes, i) ==
    FoldL(LAMBDA ns, c : IF c.path < Len(ns) /\ c.path # root(total_leaf_count(nodes))
                            THEN SetNode(ns, c.path, Blank) ELSE ns,
             nodes, CopathOf(nodes, i))

\* Faulty: the path is not blanked.
blank_direct_pathNever(nodes, i) == nodes

blank_direct_path(nodes, i) ==
    FoldL(LAMBDA ns, c : IF c.path < Len(ns) THEN SetNode(ns, c.path, Blank) ELSE ns,
             nodes, CopathOf(nodes, i))

\* Faulty: the blank nodes at the end stay.
trimNever(nodes) == nodes

trim(nodes) ==
    SubSeq(nodes, 1, Max({0} \cup {x \in DOMAIN nodes : nodes[x] # Blank}))

\* The first blank leaf at or after `start`, else a new one past the end
next_empty_leaf(nodes, start) ==
    LET free == {i \in start .. Len(nodes) : 2 * i < Len(nodes) /\ is_blank(nodes, 2 * i)}
    IN  IF free = {} THEN (Len(nodes) + 1) \div 2 ELSE Min(free)

insert_leaf(nodes, i, leaf) ==
    LET grown == IF 2 * i > Len(nodes) THEN nodes \o <<Blank, Blank>>
                 ELSE IF nodes = <<>> THEN <<Blank>>
                 ELSE nodes
    IN  SetNode(grown, 2 * i, LeafNode(leaf))

\* Add leaf i to the unmerged leaves of every parent above it
update_unmerged(nodes, i) ==
    FoldL(LAMBDA ns, c : IF borrow_node(ns, c.path).kind # "parent" THEN ns
                            ELSE [ns EXCEPT ![c.path + 1].unmerged = Append(@, i)],
             nodes, CopathOf(nodes, i))

\* borrow_or_fill_node_as_parent followed by update_node: the parent gets the
\* key and no unmerged leaves and keeps its parent hash, the array grows up to it.
update_node(nodes, x, key) ==
    LET grown == IF x < Len(nodes) THEN nodes
                 ELSE nodes \o [j \in 1 .. x + 1 - Len(nodes) |-> Blank]
    IN  IF is_blank(nodes, x) THEN SetNode(grown, x, ParentNode(key, <<>>))
        ELSE [nodes EXCEPT ![x + 1].key = key, ![x + 1].unmerged = <<>>]

\* The node itself and its unmerged leaves, or the resolutions of the children
get_resolution_index(nodes, x) ==
    LET Reso[y \in Nat] ==
            LET node == borrow_node(nodes, y)
            IN  CASE node.kind = "leaf" -> <<y>>
                  [] node.kind = "parent" ->
                        <<y>> \o [k \in DOMAIN node.unmerged |-> 2 * node.unmerged[k]]
                  [] node.kind = "blank" /\ is_leaf(y) -> <<>>
                  [] OTHER -> Reso[left_unchecked(y)] \o Reso[right_unchecked(y)]
    IN  Reso[x]

is_resolution_empty(nodes, x) == get_resolution_index(nodes, x) = <<>>

\* Faulty: no node of the path is left out.
filteredNever(nodes, i) ==
    FoldL(LAMBDA skip, c : Append(skip, FALSE), <<>>, CopathOf(nodes, i))

\* Which nodes of the direct path of leaf i have a copath child that resolves
\* to nothing
filtered(nodes, i) ==
    FoldL(LAMBDA skip, c : Append(skip, is_resolution_empty(nodes, c.copath)),
             <<>>, CopathOf(nodes, i))

===============================================================================
