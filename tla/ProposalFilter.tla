---------------------------- MODULE ProposalFilter ----------------------------
(***************************************************************************)
(* How a commit's proposals are checked and applied to the tree            *)
(* (ProposalApplier in mls-rs/src/group/proposal_filter/filtering.rs and   *)
(* filtering_common.rs).  The committer runs it with the strategy          *)
(* IgnoreByRef, which drops what is wrong with a proposal it received; a   *)
(* receiver runs it with IgnoreNone, which refuses the commit.  `ignore`   *)
(* is TRUE for IgnoreByRef.                                                *)
(*                                                                         *)
(* What the validators say of a leaf, a key package, a PSK nonce or a      *)
(* protocol version alone, whatever else is in the commit, is assumed to   *)
(* be good; senders of proposals are members.  What depends on the other   *)
(* proposals or on the tree is modelled: among it, whether a leaf supports *)
(* the group context extensions that the same commit proposes.  A leaf's   *)
(* capabilities go by its key, which an update replaces.                   *)
(***************************************************************************)
EXTENDS TreeKemPublic

NoProposals ==
    [additions |-> <<>>, updates |-> <<>>, removals |-> <<>>, self_removes |-> <<>>,
     psks |-> <<>>, reinitializations |-> <<>>, external_initializations |-> <<>>,
     group_context_extensions |-> <<>>]

\* ProposalBundle::add
BundleAdd(bundle, type, p) == [bundle EXCEPT ![type] = Append(@, p)]

\* ProposalBundle::length
BundleLength(bundle) ==
    FoldFunction(LAMBDA ps, n : n + Len(ps), 0, bundle)

\* iter_proposals, by type
AllProposals(bundle) == UNION {Range(bundle[type]) : type \in DOMAIN bundle}

\* Faulty: proposals by value are dropped as well.
apply_strategyAll(ignore, p) == ignore

\* retain_by_type with apply_strategy: what is bad is dropped when it came by
\* reference and the strategy ignores such, else the result is an error.
apply_strategy(ignore, p) == ignore /\ p.by_ref

Retain(bundle, type, bad, ignore) ==
    [ok     |-> \A p \in bad : apply_strategy(ignore, p),
     bundle |-> [bundle EXCEPT ![type] = SelectSeq(@, LAMBDA p : p \notin bad)]]

\* The proposals of a type that some sender made
SentBy(bundle, type, sender) == {p \in Range(bundle[type]) : p.sender = sender}

RemovalsOf(bundle, leaves) == {p \in Range(bundle.removals) : p.to_remove \in leaves}

filter_out_update_for_committer(bundle, committer, ignore) ==
    Retain(bundle, "updates", SentBy(bundle, "updates", committer), ignore)

filter_out_removal_of_committer(bundle, committer, ignore) ==
    LET removes == Retain(bundle, "removals", RemovalsOf(bundle, {committer}), ignore)
        selfs   == Retain(removes.bundle, "self_removes",
                          SentBy(bundle, "self_removes", committer), ignore)
    IN  [ok |-> removes.ok /\ selfs.ok, bundle |-> selfs.bundle]

\* Keep the first proposal of each group of equal ids
KeepFirst(bundle, type, ids, ignore) ==
    LET ps     == bundle[type]
        extra  == {k \in DOMAIN ps : \E j \in 1 .. k - 1 : ids[j] = ids[k]}
    IN  [ok     |-> \A k \in extra : apply_strategy(ignore, ps[k]),
         bundle |-> [bundle EXCEPT ![type] =
                        FoldLDomain(LAMBDA kept, k : IF k \in extra THEN kept
                                                        ELSE Append(kept, ps[k]), <<>>, ps)]]

\* The PSK is in the store of every member: only duplicates are wrong.
filter_out_invalid_psks(bundle, ignore) ==
    KeepFirst(bundle, "psks", [k \in DOMAIN bundle.psks |-> bundle.psks[k].psk], ignore)

filter_out_extra_group_context_extensions(bundle, ignore) ==
    KeepFirst(bundle, "group_context_extensions",
              [k \in DOMAIN bundle.group_context_extensions |-> "extensions"], ignore)

filter_out_reinit_if_other_proposals(bundle, ignore) ==
    LET reinits == bundle.reinitializations
        others  == BundleLength(bundle) > Len(reinits)
    IN  IF reinits = <<>> \/ BundleLength(bundle) = 1
        THEN [ok |-> TRUE, bundle |-> bundle]
        ELSE [ok     |-> \A p \in Range(reinits) : apply_strategy(ignore, p),
              bundle |-> [bundle EXCEPT !.reinitializations =
                            IF others THEN <<>> ELSE SubSeq(reinits, 1, 1)]]

filter_out_external_init(bundle, ignore) ==
    Retain(bundle, "external_initializations", Range(bundle.external_initializations), ignore)

filter_out_remove_if_self_remove_same_leaf(bundle, ignore) ==
    LET leaving == {p.sender : p \in Range(bundle.self_removes)}
    IN  Retain(bundle, "removals", RemovalsOf(bundle, leaving), ignore)

\* Whether a leaf supports the extensions of a commit's new group context, the
\* content of a proposal in `new_extensions`.  There is none when the context
\* keeps the extensions it has, and the leaf was judged against those alone.
Supports(leaf, new_extensions) == \A ext \in Range(new_extensions) : leaf.key \in ext.supporters

\* check_if_valid and valid_successor: an update keeps the identity of its
\* sender and supports the extensions of the same commit.
BadUpdates(tree, bundle, new_extensions) ==
    {p \in Range(bundle.updates) :
        \/ ~Supports(p.leaf, new_extensions)
        \/ p.leaf.identity # LeafAt(tree.nodes, p.sender).identity}

\* validate_new_node: so does an added leaf.
BadAdditions(bundle, new_extensions) ==
    {p \in Range(bundle.additions) : ~Supports(p.leaf, new_extensions)}

\* The sender of an update must have a leaf, whatever the strategy.
validate_new_nodes(tree, bundle, new_extensions, ignore) ==
    IF \E p \in Range(bundle.updates) : ~HasLeaf(tree.nodes, p.sender)
    THEN [ok |-> FALSE, bundle |-> bundle]
    ELSE LET updates   == Retain(bundle, "updates",
                                 BadUpdates(tree, bundle, new_extensions), ignore)
             additions == Retain(updates.bundle, "additions",
                                 BadAdditions(bundle, new_extensions), ignore)
         IN  [ok |-> updates.ok /\ additions.ok, bundle |-> additions.bundle]

apply_tree_changes(tree, bundle, new_extensions, ignore) ==
    LET valid == validate_new_nodes(tree, bundle, new_extensions, ignore)
    IN  IF valid.ok THEN batch_edit(tree, valid.bundle, ignore) ELSE [ok |-> FALSE]


\* The leaves that were in the tree must support the new extensions as well.
\* When one does not, the committer drops the extensions and edits the tree
\* again, with all the proposals it had.
apply_proposals_with_new_capabilities(output, new_extensions, tree, bundle, ignore) ==
    IF \/ ~output.ok
       \/ \A i \in Members(output.tree.nodes) :
              Supports(LeafAt(output.tree.nodes, i), new_extensions)
    THEN output
    ELSE IF apply_strategy(ignore, Head(new_extensions))
    THEN apply_tree_changes(tree, [bundle EXCEPT !.group_context_extensions = <<>>], <<>>, ignore)
    ELSE [ok |-> FALSE]

apply_proposal_changes(tree, bundle, ignore) ==
    LET new_extensions == bundle.group_context_extensions
        output         == apply_tree_changes(tree, bundle, new_extensions, ignore)
    IN  IF new_extensions = <<>> THEN output
        ELSE apply_proposals_with_new_capabilities(output, new_extensions, tree, bundle, ignore)

apply_proposals_from_member(tree, bundle, committer, ignore) ==
    LET f1 == filter_out_update_for_committer(bundle, committer, ignore)
        f2 == filter_out_removal_of_committer(f1.bundle, committer, ignore)
        f3 == filter_out_invalid_psks(f2.bundle, ignore)
        f4 == filter_out_extra_group_context_extensions(f3.bundle, ignore)
        f5 == filter_out_reinit_if_other_proposals(f4.bundle, ignore)
        f6 == filter_out_external_init(f5.bundle, ignore)
        f7 == filter_out_remove_if_self_remove_same_leaf(f6.bundle, ignore)
    IN  IF f1.ok /\ f2.ok /\ f3.ok /\ f4.ok /\ f5.ok /\ f6.ok /\ f7.ok
        THEN apply_proposal_changes(tree, f7.bundle, ignore)
        ELSE [ok |-> FALSE]

\* The removal in an external commit is of the joiner's own former leaf.
ensure_at_most_one_removal_for_self(tree, bundle, leaf) ==
    /\ Len(bundle.removals) <= 1
    /\ \A p \in Range(bundle.removals) :
            /\ HasLeaf(tree.nodes, p.to_remove)
            /\ LeafAt(tree.nodes, p.to_remove).identity = leaf.identity

ensure_proposals_in_external_commit_are_allowed(bundle) ==
    /\ bundle.additions = <<>> /\ bundle.updates = <<>>
    /\ bundle.reinitializations = <<>> /\ bundle.group_context_extensions = <<>>

\* Self-removes are not of the default types this check is about.
ensure_no_proposal_by_ref(bundle) ==
    \A p \in AllProposals([bundle EXCEPT !.self_removes = <<>>]) : ~p.by_ref

\* The new member's own leaf goes in after the proposals are applied.
WithExternalLeaf(output, joined) ==
    IF output.ok /\ joined.ok
    THEN [output EXCEPT !.tree = joined.tree] @@ [external_init_index |-> joined.index]
    ELSE [ok |-> FALSE]

insert_external_leaf(output, leaf) ==
    IF output.ok THEN WithExternalLeaf(output, add_leaf(output.tree, leaf, 0)) ELSE output

\* An external commit is checked with IgnoreNone by its committer too.
apply_proposals_from_new_member(tree, bundle, leaf) ==
    LET psks == filter_out_invalid_psks(bundle, FALSE)
    IN  IF /\ Len(bundle.external_initializations) = 1
           /\ ensure_at_most_one_removal_for_self(tree, bundle, leaf)
           /\ ensure_proposals_in_external_commit_are_allowed(bundle)
           /\ ensure_no_proposal_by_ref(bundle)
           /\ psks.ok
        THEN insert_external_leaf(apply_proposal_changes(tree, psks.bundle, FALSE), leaf)
        ELSE [ok |-> FALSE]

===============================================================================
