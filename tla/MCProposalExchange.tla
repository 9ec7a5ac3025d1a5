-------------------------- MODULE MCProposalExchange --------------------------
(***************************************************************************)
(* Trees for ProposalExchange, each reached by a few edits from an empty   *)
(* one: leaf i keeps identity i and key i.                                 *)
(***************************************************************************)
EXTENDS ProposalExchange

FirstLeaf(i) == Leaf(i, i)

\* n members, added without a path
Grown(n) ==
    FoldLeft(LAMBDA t, i : add_leaf(t, FirstLeaf(i - 1), 0).tree, EmptyTree,
             [i \in 1 .. n |-> i])

\* member i commits a path
WithPath(t, i) ==
    LET skip == filtered(t.nodes, i)
    IN  apply_update_path(t, i, FirstLeaf(i),
                          [k \in DOMAIN skip |-> IF skip[k] THEN NoKey ELSE <<i, k>>]).tree

Without(t, i) ==
    batch_edit(t, BundleAdd(NoProposals, "removals", [by_ref |-> FALSE, to_remove |-> i]),
               FALSE).tree

\* Three members, the last one unmerged
ThreeTree == add_leaf(WithPath(Grown(2), 0), FirstLeaf(2), 0).tree

\* A tree of four after a path, a removal and another path
HoledTree == WithPath(Without(WithPath(Grown(4), 0), 1), 3)

MCTrees == {Grown(1), ThreeTree, HoledTree}
MCSmall == {ThreeTree}

===============================================================================
