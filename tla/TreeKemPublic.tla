----------------------------- MODULE TreeKemPublic -----------------------------
(***************************************************************************)
(* The public ratchet tree (TreeKemPublic in mls-rs/src/tree_kem/mod.rs)   *)
(* with its index of leaf data (TreeIndex in tree_index.rs, feature        *)
(* tree_index): [nodes, index].  The index keeps the signature keys and    *)
(* the identities in use, and how many leaves support the one credential   *)
(* type there is; its map of HPKE keys is left out, as those are always    *)
(* generated afresh and never meet.                                        *)
(*                                                                         *)
(* A bundle is a record of sequences of proposals.  A proposal carries     *)
(* `by_ref`, FALSE for one given to the commit by value.  An operation     *)
(* that can fail returns a record with a field `ok`.                       *)
(***************************************************************************)
EXTENDS NodeVec

\* ------------------------------------------------------------- TreeIndex
NoIndex == [credential_signature_key |-> {}, identities |-> {}, supported |-> 0]

\* TreeIndex::insert fails on data in use, and when some leaf, counted by its
\* signature key, does not support the credential type of the new one.
IndexFree(index, leaf) ==
    /\ leaf.signer \notin index.credential_signature_key
    /\ leaf.identity \notin index.identities
    /\ index.supported = Cardinality(index.credential_signature_key)

IndexInsert(index, leaf) ==
    [credential_signature_key |-> index.credential_signature_key \cup {leaf.signer},
     identities               |-> index.identities \cup {leaf.identity},
     supported                |-> index.supported + 1]

IndexRemove(index, leaf) ==
    [credential_signature_key |-> index.credential_signature_key \ {leaf.signer},
     identities               |-> index.identities \ {leaf.identity},
     supported                |-> IF leaf.identity \in index.identities
                                  THEN index.supported - 1 ELSE index.supported]

\* What initialize_index_if_necessary builds
IndexOf(nodes) ==
    LET leaves == {LeafAt(nodes, i) : i \in Members(nodes)}
    IN  [credential_signature_key |-> {leaf.signer : leaf \in leaves},
         identities               |-> {leaf.identity : leaf \in leaves},
         supported                |-> Cardinality(Members(nodes))]

\* ------------------------------------------------------------- TreeKemPublic
EmptyTree == [nodes |-> <<>>, index |-> NoIndex]

\* The leaf goes to the first blank place from `start`; `ok` is FALSE when its
\* data is already in the tree.
add_leaf(tree, leaf, start) ==
    LET i == next_empty_leaf(tree.nodes, start)
    IN  [ok    |-> IndexFree(tree.index, leaf),
         index |-> i,
         tree  |-> [nodes |-> update_unmerged(insert_leaf(tree.nodes, i, leaf), i),
                    index |-> IndexInsert(tree.index, leaf)]]

\* A commit's path: the sender's new leaf, and a key for every node of the
\* direct path that has one (NoKey for the filtered ones, and the sequence may
\* end before the path does).
NoKey == <<>>

apply_update_path(tree, sender, leaf, keys) ==
    LET path    == CopathOf(tree.nodes, sender)
        without == IndexRemove(tree.index, LeafAt(tree.nodes, sender))
        nodes   == FoldLDomain(
                      LAMBDA ns, k : IF k > Len(path) \/ keys[k] = NoKey THEN ns
                                     ELSE update_node(ns, path[k].path, keys[k]),
                      SetNode(tree.nodes, 2 * sender, LeafNode(leaf)), keys)
    IN  [ok   |-> IndexFree(without, leaf),
         tree |-> [nodes |-> nodes, index |-> IndexInsert(without, leaf)]]

\* Faulty: the removed leaf stays in the index.
apply_removeIndexed(acc, p, i, filter) ==
    CASE ~acc.ok -> acc
      [] acc.ok /\ HasLeaf(acc.tree.nodes, i) ->
            [ok |-> TRUE, kept |-> <<p>> \o acc.kept,
             tree |-> [nodes |-> blank_direct_path(blank_leaf_node(acc.tree.nodes, i), i),
                       index |-> acc.tree.index]]
      [] OTHER -> [acc EXCEPT !.ok = p.by_ref /\ filter]

\* The loop of batch_edit over removals, last proposal first: acc holds the
\* tree and the proposals kept.
apply_remove(acc, p, i, filter) ==
    CASE ~acc.ok -> acc
      [] acc.ok /\ HasLeaf(acc.tree.nodes, i) ->
            [ok   |-> TRUE,
             kept |-> <<p>> \o acc.kept,
             tree |-> [nodes |-> blank_direct_path(blank_leaf_node(acc.tree.nodes, i), i),
                       index |-> IndexRemove(acc.tree.index, LeafAt(acc.tree.nodes, i))]]
      [] OTHER -> [acc EXCEPT !.ok = p.by_ref /\ filter]

\* An edit in progress holds the tree and the bundle as they are by now, and the
\* leaves added; once it is not `ok`, nothing more happens to it.
NewEdit(tree, bundle) == [ok |-> TRUE, tree |-> tree, bundle |-> bundle, added |-> <<>>]

WithKept(edit, type, acc) ==
    [edit EXCEPT !.ok = acc.ok, !.tree = acc.tree, !.bundle[type] = acc.kept]

LeafToRemove(p, type) == IF type = "removals" THEN p.to_remove ELSE p.sender

EditRemoves(edit, type, filter) ==
    WithKept(edit, type,
        FoldR(LAMBDA p, acc : apply_remove(acc, p, LeafToRemove(p, type), filter),
                  edit.bundle[type], [ok |-> edit.ok, kept |-> <<>>, tree |-> edit.tree]))

\* Take the old leaves of all updates out of the tree.  An update whose leaf is
\* gone already is skipped, or fails the whole edit when not filtering.
TakeUpdates(edit, updates, filter) ==
    FoldLDomain(
        LAMBDA acc, k :
            LET i == updates[k].sender
            IN  CASE ~acc.ok -> acc
                  [] acc.ok /\ HasLeaf(acc.tree.nodes, i) ->
                        LET old == LeafAt(acc.tree.nodes, i)
                        IN  [ok      |-> TRUE,
                             tree    |-> [nodes |-> blank_leaf_node(acc.tree.nodes, i),
                                          index |-> IndexRemove(acc.tree.index, old)],
                             partial |-> Append(acc.partial,
                                                [index |-> i, old |-> old,
                                                 new |-> updates[k].leaf, pos |-> k])]
                  [] OTHER -> [acc EXCEPT !.ok = filter /\ updates[k].by_ref],
        [ok |-> edit.ok, tree |-> edit.tree, partial |-> <<>>], updates)

\* "Revert all updates and stop": the index as it was before the first update,
\* the leaves replaced so far put back.
RevertUpdates(acc, index_clone) ==
    [ok      |-> TRUE,
     stop    |-> TRUE,
     updated |-> <<>>,
     bad     |-> acc.bad,
     tree    |-> [index |-> index_clone,
                  nodes |-> FoldL(LAMBDA nodes, u : insert_leaf(nodes, u.index, u.old),
                                     acc.tree.nodes, acc.updated)]]

\* One update: the new leaf if its data is free, else the old leaf if its data
\* still is, else everything reverts.
ApplyUpdate(acc, u, index_clone, filter) ==
    LET Put(leaf) == [nodes |-> insert_leaf(acc.tree.nodes, u.index, leaf),
                      index |-> IndexInsert(acc.tree.index, leaf)]
    IN  CASE ~acc.ok \/ acc.stop -> acc
          [] acc.ok /\ ~acc.stop /\ IndexFree(acc.tree.index, u.new) ->
                [acc EXCEPT !.tree = Put(u.new), !.updated = Append(@, u)]
          [] OTHER ->
                CASE ~filter -> [acc EXCEPT !.ok = FALSE]
                  [] filter /\ IndexFree(acc.tree.index, u.old) ->
                        [acc EXCEPT !.tree = Put(u.old), !.bad = @ \cup {u.pos}]
                  [] OTHER -> RevertUpdates(acc, index_clone)

ApplyUpdates(taken, filter) ==
    FoldL(LAMBDA acc, u : ApplyUpdate(acc, u, taken.tree.index, filter),
             [ok |-> taken.ok, stop |-> FALSE, updated |-> <<>>, bad |-> {},
              tree |-> taken.tree],
             taken.partial)

\* Faulty: updates that were not applied stay in the bundle.
KeptUpdatesAll(updates, done) == updates

\* Faulty: updates that were applied are taken out of the bundle.
KeptUpdatesNone(updates, done) == <<>>

\* The updates left in the bundle: none when none was applied
KeptUpdates(updates, done) ==
    IF done.updated = <<>> THEN <<>>
    ELSE FoldLDomain(LAMBDA kept, k : IF k \in done.bad THEN kept
                                         ELSE Append(kept, updates[k]), <<>>, updates)

\* The direct paths of updated leaves are blanked once all leaves are in place.
WithUpdates(edit, done) ==
    [edit EXCEPT !.ok = done.ok,
                 !.tree = [nodes |-> FoldL(LAMBDA ns, u : blank_direct_path(ns, u.index),
                                              done.tree.nodes, done.updated),
                           index |-> done.tree.index],
                 !.bundle.updates = KeptUpdates(@, done)]

EditUpdates(edit, filter) ==
    WithUpdates(edit, ApplyUpdates(TakeUpdates(edit, edit.bundle.updates, filter), filter))

\* `res` is what add_leaf makes of p.
ApplyAdd(acc, p, res, filter) ==
    CASE ~acc.ok -> acc
      [] acc.ok /\ res.ok ->
            [ok |-> TRUE, tree |-> res.tree, start |-> res.index,
             added |-> Append(acc.added, res.index), kept |-> Append(acc.kept, p)]
      [] OTHER -> [acc EXCEPT !.ok = p.by_ref /\ filter]

WithAdds(edit, acc) == [WithKept(edit, "additions", acc) EXCEPT !.added = acc.added]

EditAdds(edit, filter) ==
    WithAdds(edit,
        FoldL(LAMBDA acc, p : ApplyAdd(acc, p, add_leaf(acc.tree, p.leaf, acc.start), filter),
                 [ok |-> edit.ok, tree |-> edit.tree, start |-> 0, added |-> <<>>, kept |-> <<>>],
                 edit.bundle.additions))

EditTrim(edit) ==
    IF edit.ok THEN [edit EXCEPT !.tree.nodes = trim(@)] ELSE [ok |-> FALSE]

\* Self-removes, removes, updates, adds, then trim.  `filter` is TRUE for the
\* committer, FALSE for a receiver.
batch_edit(tree, bundle, filter) ==
    LET selfs   == EditRemoves(NewEdit(tree, bundle), "self_removes", filter)
        removes == EditRemoves(selfs, "removals", filter)
    IN  EditTrim(EditAdds(EditUpdates(removes, filter), filter))

===============================================================================
