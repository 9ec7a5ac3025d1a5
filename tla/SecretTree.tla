----------------------------- MODULE SecretTree -----------------------------
(***************************************************************************)
(* The secret tree of one epoch (mls-rs/src/group/secret_tree.rs): from    *)
(* the encryption secret at the root, tree secrets are derived downwards   *)
(* on demand, each consumed as its children are derived, until a leaf      *)
(* holds the two ratchets from which that member's message keys come.      *)
(*                                                                         *)
(* A tree secret is determined by its node, so a known node is a Secret,   *)
(* or a Ratchet with the state of its two SecretKeyRatchets.  The value of *)
(* a function at a node absent from its domain is "not known".             *)
(***************************************************************************)
EXTENDS TreeMath, SecretKeyRatchet

CONSTANTS
    LeafCount    \* leaf_count: a power of two

ASSUME SecretTreeAssumption ==
    LeafCount \in {2^d : d \in 0 .. 8}

Children(x) == {left_unchecked(x), right_unchecked(x)}
Inner(n) == {x \in 0 .. 2 * root(n) : ~is_leaf(x)}

\* What the paths of direct_copath and the children of left_unchecked and
\* right_unchecked have to do with each other in a tree of n leaves: a path leads
\* down from the root to its leaf and meets no other leaf, and a leaf lies below
\* a node of a path exactly if it lies below one, and only one, of its children.
TreeShape(n) ==
    \A leaf \in {2 * i : i \in 0 .. n - 1} :
        LET path     == direct_copath(leaf, n)
            Lower(i) == {leaf} \cup {path[h].path : h \in 1 .. i - 1}
            up       == Lower(Len(path) + 1)
        IN  /\ path \in Seq([path : Inner(n), copath : Nat]) /\ Len(path) <= 8
            /\ root(n) \in up
            /\ \A i \in 1 .. Len(path) : up \cap Children(path[i].path) \subseteq Lower(i)
            /\ \A x \in Inner(n) :
                  IF x \in up THEN \E y \in Children(x) : up \cap Children(x) = {y}
                  ELSE up \cap Children(x) = {}

\* The arithmetic of math.rs, evaluated for every LeafCount allowed above
ASSUME TreeShapeAssumption == \A d \in 0 .. 8 : TreeShape(2^d)

KeyTypes == {"Handshake", "Application"}
Leaves == {2 * i : i \in 0 .. LeafCount - 1}

Secret == [kind |-> "Secret"]
Ratchet(ratchets) == [kind |-> "Ratchet", ratchets |-> ratchets]
IsSecret(node) == node.kind = "Secret"

set_node(known, i, node) ==
    [j \in (DOMAIN known) \cup {i} |-> IF j = i THEN node ELSE known[j]]

\* take_node, seen as what it leaves behind
Without(known, i) == [j \in (DOMAIN known) \ {i} |-> known[j]]

HoldsSecret(known, i) == i \in DOMAIN known /\ IsSecret(known[i])

\* Faulty: only the left child is derived.
consume_nodeLeft(known, i) ==
    IF HoldsSecret(known, i) THEN set_node(Without(known, i), left_unchecked(i), Secret)
    ELSE Without(known, i)

\* consume_node when both derivations succeed: a secret is replaced by those of
\* its two children.
consume_node(known, i) ==
    IF HoldsSecret(known, i)
      THEN set_node(set_node(Without(known, i), left_unchecked(i), Secret),
                    right_unchecked(i), Secret)
      ELSE Without(known, i)

\* The loop of take_leaf_ratchet from the root towards a leaf: Descent(..)[j] is
\* the map after j nodes of the path.
Paths == [leaf \in Leaves |-> direct_copath(leaf, LeafCount)]
Path(leaf) == Paths[leaf]
Above(leaf, j) == Path(leaf)[Len(Path(leaf)) + 1 - j].path

Descent(known, leaf) ==
    LET After[j \in 0 .. Len(Path(leaf))] ==
            IF j = 0 THEN known ELSE consume_node(After[j - 1], Above(leaf, j))
    IN  After

\* A derivation that fails inside consume_node comes after the node was taken.
FailedDescents(known, leaf) ==
    {Without(Descent(known, leaf)[j - 1], Above(leaf, j)) :
        j \in {i \in 1 .. Len(Path(leaf)) :
                 KdfMayFail /\ HoldsSecret(Descent(known, leaf)[i - 1], Above(leaf, i))}}

\* The results of a call: the map it leaves, and a set that is empty when it
\* returns an error and holds what it returns otherwise.
Result(known, value) == [known |-> known, value |-> value]

\* The node of a leaf is taken and turned into ratchets; SecretKeyRatchet::new
\* may fail, and then the leaf is gone.
TakenLeaf(known, leaf) ==
    IF leaf \notin DOMAIN known
      THEN {Result(known, {})}  \* InvalidLeafConsumption
    ELSE IF IsSecret(known[leaf])
      THEN {Result(Without(known, leaf), {[t \in KeyTypes |-> NewRatchet]})}
             \cup {res \in {Result(Without(known, leaf), {})} : KdfMayFail}
      ELSE {Result(Without(known, leaf), {known[leaf].ratchets})}

take_leaf_ratchet(known, leaf) ==
    IF leaf \in DOMAIN known
      THEN TakenLeaf(known, leaf)
      ELSE TakenLeaf(Descent(known, leaf)[Len(Path(leaf))], leaf)
             \cup {Result(k, {}) : k \in FailedDescents(known, leaf)}

KeyOf(leaf, t, keys) == {[leaf |-> leaf, key_type |-> t, key |-> k] : k \in keys}

\* Faulty: the ratchets are put back as they were taken.
TreeNextUnchanged(known, leaf, t) ==
    UNION {{Result(set_node(taken.known, leaf, Ratchet(rs)), KeyOf(leaf, t, {CurrentKey(rs[t])})) :
                rs \in taken.value} : taken \in take_leaf_ratchet(known, leaf)}

\* SecretTree::next_message_key: when the ratchet fails to advance, the call
\* returns before the ratchet is put back.
TreeNextResults(known, leaf, t) ==
    UNION {IF taken.value = {} THEN {taken}
           ELSE LET rs == CHOOSE v \in taken.value : TRUE
                IN  {IF res.key = {} THEN Result(taken.known, {})
                     ELSE Result(set_node(taken.known, leaf,
                                          Ratchet([rs EXCEPT ![t] = res.ratchet])),
                                 KeyOf(leaf, t, res.key)) :
                       res \in next_message_key(rs[t])} :
           taken \in take_leaf_ratchet(known, leaf)}

\* SecretTree::message_key_generation puts the ratchet back in every case.
TreeGetResults(known, leaf, t, g) ==
    UNION {IF taken.value = {} THEN {taken}
           ELSE LET rs == CHOOSE v \in taken.value : TRUE
                IN  {Result(set_node(taken.known, leaf,
                                     Ratchet([rs EXCEPT ![t] = res.ratchet])),
                            KeyOf(leaf, t, res.key)) :
                       res \in get_message_key(rs[t], g)} :
           taken \in take_leaf_ratchet(known, leaf)}

-----------------------------------------------------------------------------
\* SecretTree::new
NewSecretTree == [i \in {root(LeafCount)} |-> Secret]

\* The known nodes from which the ratchets of a leaf can be derived
UpToRoot == [leaf \in Leaves |-> {leaf} \cup {Path(leaf)[i].path : i \in DOMAIN Path(leaf)}]
Covering(known, leaf) == DOMAIN known \cap UpToRoot[leaf]

\* Whoever reads a ratchet, or known_secrets, can still produce the key.
InRatchet(r, key) == key.secret >= r.secret \/ \E g \in DOMAIN r.history : r.history[g] = key

Derivable(known, leaf, t, key) ==
    \E i \in Covering(known, leaf) :
        IsSecret(known[i]) \/ InRatchet(known[i].ratchets[t], key)

=============================================================================
