-------------------------------- MODULE TreeKem --------------------------------
(***************************************************************************)
(* How a commit's path moves the secrets of the ratchet tree: encap at the *)
(* committer, decap at a member that stays, update_secrets at a member     *)
(* that joins (mls-rs/src/tree_kem/kem.rs, private.rs, update_path.rs, and *)
(* provisional_private_tree in group/mod.rs).                              *)
(*                                                                         *)
(* A path secret stands for the key pair derived from it: <<id, k>> is the *)
(* k-th secret of the chain that the commit or the leaf `id` started, and  *)
(* <<id, 0>> the key pair of a leaf.  secret_keys[k] of the code is        *)
(* element k + 1 of the sequence.                                          *)
(***************************************************************************)
EXTENDS ProposalFilter

\* PathSecretGenerator::next_secret, n times
Derived(secret, n) == <<secret[1], secret[2] + n>>

Resized(secret_keys, n) ==
    IF n <= Len(secret_keys) THEN SubSeq(secret_keys, 1, n)
    ELSE secret_keys \o [k \in 1 .. n - Len(secret_keys) |-> NoKey]

update_leaf(secret_keys, key) == <<key>> \o [k \in 1 .. Len(secret_keys) - 1 |-> NoKey]

\* Faulty: the secrets of blanked nodes stay.
provisional_private_treeFull(secret_keys, nodes, self, update) ==
    LET kept == Resized(secret_keys, Len(CopathOf(nodes, self)) + 1)
    IN  IF update = NoKey THEN kept ELSE update_leaf(kept, update)

\* `update` is the key of the member's own update in the commit, or NoKey.
provisional_private_tree(secret_keys, nodes, self, update) ==
    LET path == CopathOf(nodes, self)
        kept == FoldLDomain(
                    LAMBDA keys, k : IF is_blank(nodes, path[k].path)
                                     THEN [keys EXCEPT ![k + 1] = NoKey] ELSE keys,
                    Resized(secret_keys, Len(path) + 1), path)
    IN  IF update = NoKey THEN kept ELSE update_leaf(kept, update)

\* How many of the first k elements are present
Present(path, k) == Cardinality({j \in 1 .. k : path[j] # NoKey})

\* One ciphertext for every node of the resolution that is not a new leaf
encrypt_copath_node_resolution(nodes, copath, secret, excluding) ==
    LET reso == SelectSeq(get_resolution_index(nodes, copath),
                          LAMBDA x : x \notin {2 * i : i \in excluding})
    IN  [key   |-> secret,
         ctxts |-> [k \in DOMAIN reso |->
                        [to |-> public_key(borrow_node(nodes, reso[k])), secret |-> secret]]]

\* One element of the update path for each node that is not filtered
UpdatePath(nodes, path, secrets, excluding) ==
    FoldLDomain(
        LAMBDA ns, k : IF secrets[k] = NoKey THEN ns
                       ELSE Append(ns, encrypt_copath_node_resolution(
                                          nodes, path[k].copath, secrets[k], excluding)),
        <<>>, path)

WithLeafAndKeys(nodes, self, leaf, path, secrets) ==
    SetNode(FoldLDomain(LAMBDA ns, k : IF secrets[k] = NoKey THEN ns
                                          ELSE update_node(ns, path[k].path, secrets[k]),
                           nodes, path),
            2 * self, LeafNode(leaf))

\* The path secrets, NoKey at the filtered nodes: each is derived from the last.
PathSecrets(skip, leaf) ==
    [k \in DOMAIN skip |-> IF skip[k] THEN NoKey
                           ELSE Derived(leaf.key, Cardinality({j \in 1 .. k : ~skip[j]}))]

Encapsulated(after, path, secrets, excluding, leaf) ==
    [nodes         |-> after,
     secret_keys   |-> <<leaf.key>> \o secrets,
     path_secrets  |-> secrets,
     commit_secret |-> Derived(leaf.key, Present(secrets, Len(secrets)) + 1),
     update_path   |-> UpdatePath(after, path, secrets, excluding)]

EncapAlong(nodes, self, excluding, leaf, path, secrets) ==
    Encapsulated(WithLeafAndKeys(nodes, self, leaf, path, secrets),
                 path, secrets, excluding, leaf)

\* `leaf` is the committer's new leaf, its key that of a new chain.
encap(nodes, self, excluding, leaf) ==
    EncapAlong(nodes, self, excluding, leaf, CopathOf(nodes, self),
               PathSecrets(filtered(nodes, self), leaf))

\* Put the absent nodes back where the receiver's tree filters them; those
\* after the last node of the path are left out.
ReadPath(skip, update_path) ==
    LET Pos(n)  == CHOOSE k \in DOMAIN skip :
                        ~skip[k] /\ Cardinality({j \in 1 .. k : ~skip[j]}) = n
        last    == IF update_path = <<>> THEN 0 ELSE Pos(Len(update_path))
    IN  IF Len(update_path) > Cardinality({k \in DOMAIN skip : ~skip[k]}) THEN [ok |-> FALSE]
        ELSE [ok    |-> TRUE,
              nodes |-> [k \in 1 .. last |->
                            IF skip[k] THEN NoKey
                            ELSE update_path[Cardinality({j \in 1 .. k : ~skip[j]})]]]

validate_update_path(nodes, sender, update_path) ==
    ReadPath(filtered(nodes, sender), update_path)

\* Positions on the member's own path count from 0, its leaf.
find_resolved_pos(nodes, secret_keys, path, lca_index) ==
    LET pos == Max({p \in 0 .. lca_index : ~is_blank(nodes, path[p + 1].path)})
    IN  IF secret_keys[pos + 1] = NoKey THEN 0 ELSE pos

\* Faulty: new members are counted, though they get no ciphertext.
find_ciphertext_posAll(nodes, lca, resolved, excluding) ==
    LET reso == get_resolution_index(nodes, lca)
        at   == {k \in DOMAIN reso : reso[k] = resolved}
    IN  IF at = {} THEN 0 ELSE Min(at)

\* 0 when the resolved node is not in the resolution
find_ciphertext_pos(nodes, lca, resolved, excluding) ==
    LET reso == SelectSeq(get_resolution_index(nodes, lca),
                          LAMBDA x : ~is_leaf(x) \/ x \div 2 \notin excluding)
        at   == {k \in DOMAIN reso : reso[k] = resolved}
    IN  IF at = {} THEN 0 ELSE Min(at)

\* The secret of the k-th node of the path, derived from the one decrypted at `at`
PathSecretAt(secret, path_nodes, at, k) ==
    Derived(secret, Present(path_nodes, k) - Present(path_nodes, at))

\* The keys below the common ancestor stay, those on the sender's path are
\* replaced, and the ones above it stay.
UpdatedKeys(secret, resized, path_nodes, at) ==
    SubSeq(resized, 1, at)
       \o [k \in 1 .. Len(path_nodes) - at + 1 |->
              IF path_nodes[at + k - 1] = NoKey THEN NoKey
              ELSE PathSecretAt(secret, path_nodes, at, at + k - 1)]
       \o SubSeq(resized, Len(path_nodes) + 2, Len(resized))

Decrypted(secret, resized, path_nodes, at) ==
    IF \E k \in at .. Len(path_nodes) :
          path_nodes[k] # NoKey /\ path_nodes[k].key # PathSecretAt(secret, path_nodes, at, k)
    THEN [ok |-> FALSE]
    ELSE [ok            |-> TRUE,
          secret_keys   |-> UpdatedKeys(secret, resized, path_nodes, at),
          commit_secret |-> Derived(PathSecretAt(secret, path_nodes, at, Len(path_nodes)), 1)]

\* The member opens ciphertext number ct_pos of node `at` with the key it has.
Decrypt(key, resized, path_nodes, at, ct_pos) ==
    IF \/ ct_pos = 0 \/ at > Len(path_nodes)
       \/ path_nodes[at] = NoKey \/ ct_pos > Len(path_nodes[at].ctxts)
       \/ path_nodes[at].ctxts[ct_pos].to # key
    THEN [ok |-> FALSE]
    ELSE Decrypted(path_nodes[at].ctxts[ct_pos].secret, resized, path_nodes, at)

DecapAlong(nodes, secret_keys, path_nodes, added, path, lca_index, resolved) ==
    Decrypt(secret_keys[resolved + 1], Resized(secret_keys, Len(path) + 1), path_nodes,
            lca_index + 1,
            find_ciphertext_pos(nodes, path[lca_index + 1].path, path[resolved + 1].path, added))

\* The member's own path, its leaf first
OwnPath(nodes, self) == <<[path |-> 2 * self, copath |-> 0]>> \o CopathOf(nodes, self)

\* `nodes` already holds the public keys of the path.
decap(nodes, secret_keys, self, sender, path_nodes, added) ==
    LET lca_index == leaf_lca_level(2 * self, 2 * sender) - 2
    IN  DecapAlong(nodes, secret_keys, path_nodes, added, OwnPath(nodes, self), lca_index,
                   find_resolved_pos(nodes, secret_keys, OwnPath(nodes, self), lca_index))

\* A new member starts from the path secret the welcome carries for its lowest
\* common ancestor with the committer.
update_secrets(nodes, key, self, signer, path_secret) ==
    LET at        == leaf_lca_level(2 * self, 2 * signer) - 1
        path      == CopathOf(nodes, self)
        skip      == filtered(nodes, self)
        Secret(k) == Derived(path_secret, Cardinality({j \in at .. k : ~skip[j]}) - 1)
    IN  IF \E k \in at .. Len(path) :
              ~skip[k] /\ (\/ is_blank(nodes, path[k].path)
                           \/ public_key(borrow_node(nodes, path[k].path)) # Secret(k))
        THEN [ok |-> FALSE]
        ELSE [ok          |-> TRUE,
              secret_keys |-> <<key>> \o [k \in DOMAIN path |->
                                             IF k < at \/ skip[k] THEN NoKey ELSE Secret(k)]]

\* The path secret encrypt_group_secrets picks for a new member
welcome_path_secret(path_secrets, committer, leaf) ==
    path_secrets[leaf_lca_level(committer, leaf)]

===============================================================================
