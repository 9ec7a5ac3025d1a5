----------------------------- MODULE TreeKemGroup -----------------------------
(***************************************************************************)
(* A group whose members process one commit after another, each with the   *)
(* private half of the ratchet tree and the leaf index of its own.  All    *)
(* hold the same public nodes.  A step is a commit together with all that  *)
(* it causes: the filter and encap at the committer, the stricter filter   *)
(* and decap at every member that stays, the welcome at every member that  *)
(* joins.                                                                  *)
(*                                                                         *)
(* A commit may also fail at a member after decap: a secret that it names  *)
(* is missing, or the confirmation tag is another one.  By then the member *)
(* has the private tree of that commit (update_key_schedule), and keeps it *)
(* when its group goes on with a different commit.  It is stray until it   *)
(* makes a path of its own; if it cannot follow, it stays behind until it  *)
(* is removed or joins again.                                              *)
(*                                                                         *)
(* The identity of a client is the number of a leaf; a client that joins   *)
(* takes the lowest free identity.  Its signature keys are <<identity, 0>> *)
(* and <<identity, 1>>.                                                    *)
(***************************************************************************)
EXTENDS TreeKem

CONSTANT Scenarios

\* What a group may do:
\*   leaves      how many members it has at most
\*   proposals   how many proposals a commit carries at most
\*   committers  the leaves that make commits
\*   proposed    the leaves that are removed, or that send updates
\*   rotators    the leaves that may change their signature key as they commit
\*   may_join    whether external commits are made
\*   may_refuse  whether members refuse commits after decap
ASSUME GroupAssumption ==
    \A s \in Scenarios :
        /\ s.leaves \in Nat \ {0} /\ s.proposals \in Nat 
        /\ s.may_join \in BOOLEAN /\ s.may_refuse \in BOOLEAN
        /\ s.committers \cup s.proposed \cup s.rotators \subseteq 0 .. s.leaves - 1

VARIABLES
    scenario,   \* what this group may do
    nodes,      \* the public tree, the same at every member
    index,      \* the TreeIndex of each member
    private,    \* secret_keys of each member
    signer,     \* the signature key each member signs with
    stray,      \* the members whose private tree is that of a refused commit
    failed,     \* the members that could not process a commit, and are behind
    exposed     \* public keys of the tree whose secrets a former member holds

vars == <<scenario, nodes, index, private, signer, stray, failed, exposed>>

M == Members(nodes)

KeysOf(ns) == {public_key(n) : n \in {m \in Range(ns) : m # Blank}}

ChainsOf(keys) == {key[1] : key \in keys \ {NoKey}}

FirstUnused(identity, used) ==
    <<identity, CHOOSE n \in 0 .. Cardinality(used) :
                    /\ <<identity, n>> \notin used
                    /\ \A j \in 0 .. n - 1 : <<identity, j>> \in used>>

\* A chain that nobody holds a secret of: the n-th one the client starts
NewChain(identity) ==
    FirstUnused(identity,
        ChainsOf(UNION {Range(private[m]) : m \in DOMAIN private} \cup KeysOf(nodes)))

NewLeaf(identity, sig) ==
    [identity |-> identity, signer |-> sig, key |-> <<NewChain(identity), 0>>]

\* The leaves of n new clients, at the lowest free identities after `gone` left
Joiners(gone, n) ==
    LET free == (0 .. scenario.leaves - 1) \ {LeafAt(nodes, i).identity : i \in M \ gone}
    IN  {NewLeaf(i, <<i, 0>>) : i \in {j \in free : Cardinality({k \in free : k < j}) < n}}

\* The function [m \in S |-> Value(m)]
Table(S, Value(_)) == FoldSet(LAMBDA m, table : (m :> Value(m)) @@ table, <<>>, S)

Rotated(sig) == <<sig[1], 1 - sig[2]>>

Init ==
    LET leaf == [identity |-> 0, signer |-> <<0, 0>>, key |-> <<<<0, 0>>, 0>>]
        tree == add_leaf(EmptyTree, leaf, 0).tree
    IN  /\ scenario \in Scenarios
        /\ nodes = tree.nodes
        /\ index = (0 :> tree.index)
        /\ private = (0 :> <<leaf.key>>)
        /\ signer = (0 :> leaf.signer)
        /\ stray = {}
        /\ failed = {}
        /\ exposed = {}

\* The member stays in its epoch.
Refused(m) == [ok |-> FALSE, index |-> index[m], keys |-> private[m]]

\* The member arrives at the committer's secret and tree, or refuses the commit.
Arrived(m, path, applied, secrets) ==
    IF /\ applied.ok /\ secrets.ok
       /\ applied.tree.nodes = path.nodes
       /\ secrets.commit_secret = path.commit_secret
    THEN [ok |-> TRUE, index |-> applied.tree.index, keys |-> secrets.secret_keys]
    ELSE Refused(m)

\* provisional_private_tree at a member that the filter's output may update
ProvisionalKeys(m, output) ==
    LET own == {p \in Range(output.bundle.updates) : p.sender = m}
    IN  provisional_private_tree(private[m], output.tree.nodes, m,
            IF own = {} THEN NoKey ELSE (CHOOSE p \in own : TRUE).leaf.key)

FollowPath(m, committer, output, path, valid, applied) ==
    Arrived(m, path, applied,
            decap(applied.tree.nodes, ProvisionalKeys(m, output), m, committer, valid.nodes,
                  Range(output.added)))

ReceivePath(m, committer, output, leaf, path, valid) ==
    IF ~valid.ok THEN Refused(m)
    ELSE FollowPath(m, committer, output, path, valid,
            apply_update_path(output.tree, committer, leaf,
                [k \in DOMAIN valid.nodes |->
                    IF valid.nodes[k] = NoKey THEN NoKey ELSE valid.nodes[k].key]))

\* What a member that stays makes of the commit: its index, its keys, and whether
\* it accepts.  `output` is that of its own filter, `nodes_sent` the committer's
\* tree, `path` the committer's encap and `leaf` its new leaf.
process_commit(m, committer, nodes_sent, output, has_path, leaf, path) ==
    IF ~output.ok THEN Refused(m)
    ELSE IF has_path
    THEN ReceivePath(m, committer, output, leaf, path,
                     validate_update_path(output.tree.nodes, committer, path.update_path))
    ELSE [ok |-> output.tree.nodes = nodes_sent,
          index |-> output.tree.index, keys |-> private[m]]

\* The state once everybody has processed the commit: `got` at the members that
\* stay, `joined` at the new ones.  The committer keeps its index as batch_edit
\* left it: encap replaces its leaf in the nodes only.
Settled(committer, output, after, keys, has_path, sign_with, gone, got, joined) ==
    [nodes   |-> after,
     stray   |-> (stray \ (gone \cup DOMAIN joined)) \ (IF has_path THEN {committer} ELSE {}),
     failed  |-> {m \in DOMAIN got : ~got[m].ok} \cup {j \in DOMAIN joined : ~joined[j].ok},
     exposed |-> (exposed \cup UNION {Range(private[m]) : m \in gone}) \cap KeysOf(after),
     index   |-> (committer :> output.tree.index) @@ [m \in DOMAIN got |-> got[m].index]
                    @@ [j \in DOMAIN joined |-> IndexOf(after)],
     private |-> (committer :> keys) @@ [m \in DOMAIN got |-> got[m].keys]
                    @@ [j \in DOMAIN joined |-> joined[j].secret_keys],
     signer  |-> (committer :> sign_with) @@ [m \in DOMAIN got |-> signer[m]]
                    @@ [j \in DOMAIN joined |-> LeafAt(after, j).signer]]

\* The welcome, with a path secret if there is a path
join_with(j, after, committer, has_path, path) ==
    IF ~has_path THEN [ok |-> TRUE, secret_keys |-> <<LeafAt(after, j).key>>]
    ELSE update_secrets(after, LeafAt(after, j).key, j, committer,
                        welcome_path_secret(path.path_secrets, committer, j))

\* The members in `stay` process the commit, but for those that are behind;
\* `outputs` has the result of the filter for every index that members hold.
Received(stay, outputs, committer, nodes_sent, has_path, leaf, path) ==
    Table(stay, LAMBDA m :
        IF m \in failed THEN Refused(m)
        ELSE process_commit(m, committer, nodes_sent, outputs[index[m]], has_path, leaf, path))

Delivered(committer, output, outputs, has_path, leaf, path, sign_with) ==
    LET after == IF has_path THEN path.nodes ELSE output.tree.nodes
        gone  == {p.to_remove : p \in Range(output.bundle.removals)}
        stay  == M \ (gone \cup {committer})
    IN  Settled(committer, output, after,
            IF has_path THEN path.secret_keys
            ELSE provisional_private_tree(private[committer], after, committer, NoKey),
            has_path, sign_with, gone,
            Received(stay, outputs, committer, output.tree.nodes, has_path, leaf, path),
            Table(Range(output.added), LAMBDA j :
                join_with(j, after, committer, has_path, path)))

Become(s) ==
    /\ nodes' = s.nodes /\ index' = s.index /\ private' = s.private
    /\ signer' = s.signer
    /\ stray' = s.stray /\ failed' = s.failed /\ exposed' = s.exposed

path_update_required(bundle) ==
    \/ bundle.external_initializations # <<>> \/ bundle.updates # <<>>
    \/ bundle.self_removes # <<>> \/ bundle.removals # <<>>
    \/ bundle.group_context_extensions # <<>> \/ BundleLength(bundle) = 0

Removals(gone) == SetToSeq({[by_ref |-> FALSE, to_remove |-> i] : i \in gone})

Additions(leaves) ==
    SetToSortSeq({[by_ref |-> FALSE, leaf |-> leaf] : leaf \in leaves},
                 LAMBDA p, q : p.leaf.identity < q.leaf.identity)

Updates(upd) ==
    SetToSeq({[by_ref |-> TRUE, sender |-> i,
               leaf |-> NewLeaf(LeafAt(nodes, i).identity, LeafAt(nodes, i).signer)] : i \in upd})

Indexes == {index[m] : m \in M \ failed}

\* The receivers' filter, at one that holds the index i
ReceiverFilter(bundle, i) ==
    apply_proposal_changes([nodes |-> nodes, index |-> i], bundle, FALSE)

\* The rest of commit_internal after the filter.  The set is empty when it
\* refuses.  The new signature key is signed with from now on, whether or not a
\* path carries it.
CommitOf(c, output, sig, leaf, want_path) ==
    IF ~output.ok THEN {}
    ELSE {Delivered(c, output,
                    Table(Indexes, LAMBDA i : ReceiverFilter(output.bundle, i)),
                    want_path \/ path_update_required(output.bundle), leaf,
                    encap(output.tree.nodes, c, Range(output.added), leaf), sig)}

\* commit_internal at a member, removals and additions by value, updates by
\* reference.
commit_internal(c, gone, upd, n, rotate, want_path) ==
    LET bundle == [NoProposals EXCEPT !.removals  = Removals(gone),
                                      !.updates   = Updates(upd),
                                      !.additions = Additions(Joiners(gone, n))]
        old    == LeafAt(nodes, c)
    IN  CommitOf(c, apply_proposal_changes([nodes |-> nodes, index |-> index[c]], bundle, TRUE),
                 IF rotate THEN Rotated(signer[c]) ELSE signer[c],
                 NewLeaf(old.identity, IF rotate THEN Rotated(signer[c]) ELSE old.signer),
                 want_path)

AtMost(S, n) == {T \in SUBSET S : Cardinality(T) <= n}

Commit(c) ==
    /\ \E gone \in AtMost((M \cap scenario.proposed) \ {c}, scenario.proposals),
          rotate \in {FALSE, (c \in scenario.rotators)} :
       \E upd \in AtMost((M \cap scenario.proposed) \ (gone \cup failed \cup {c}),
                        scenario.proposals - Cardinality(gone)) :
       \E n \in 0 .. Min({scenario.leaves - Cardinality(M \ gone),
                         scenario.proposals - Cardinality(gone) - Cardinality(upd)}) :
       \E want_path \in IF gone \cup upd = {} /\ n > 0 THEN BOOLEAN ELSE {TRUE} :
       \E s \in commit_internal(c, gone, upd, n, rotate, want_path) : Become(s)
    /\ UNCHANGED scenario

ExternalCommitOf(bundle, leaf, output) ==
    IF ~output.ok THEN {}
    ELSE {Delivered(output.external_init_index, output,
                    Table(Indexes, LAMBDA i : apply_proposals_from_new_member(
                                      [nodes |-> nodes, index |-> i], bundle, leaf)),
                    TRUE, leaf,
                    encap(output.tree.nodes, output.external_init_index, {}, leaf),
                    leaf.signer)}

JoinWith(bundle, leaf) ==
    ExternalCommitOf(bundle, leaf,
        apply_proposals_from_new_member([nodes |-> nodes, index |-> IndexOf(nodes)], bundle, leaf))

\* An external commit: a client outside the group joins by itself, or a member
\* that lost its state joins again and removes its former leaf.
external_commit(gone) ==
    JoinWith([NoProposals EXCEPT !.external_initializations = <<[by_ref |-> FALSE]>>,
                                 !.removals = Removals(gone)],
             IF gone = {} THEN CHOOSE new \in Joiners({}, 1) : TRUE
             ELSE LET old == LeafAt(nodes, CHOOSE i \in gone : TRUE)
                  IN  NewLeaf(old.identity, old.signer))

ExternalCommit ==
    /\ scenario.may_join
    /\ \E gone \in {{}} \cup {{i} : i \in M \cap scenario.proposed} :
        /\ Cardinality(M \ gone) < scenario.leaves
        /\ \E s \in external_commit(gone) : Become(s)
    /\ UNCHANGED scenario

RefusedAfterDecap(m, c, output, leaf) ==
    IF ~output.ok THEN Refused(m)
    ELSE process_commit(m, c, output.tree.nodes, ReceiverFilter(output.bundle, index[m]), TRUE, leaf,
                        encap(output.tree.nodes, c, Range(output.added), leaf))

\* c makes a commit that is given up later; m decrypts its path, takes over the
\* private tree, and then refuses the commit.
Refuse(m, c) ==
    /\ scenario.may_refuse
    /\ \E gone \in {{}} \cup {{i} : i \in (M \cap scenario.proposed) \ {c, m}} :
       \E got \in {RefusedAfterDecap(m, c,
                        apply_proposal_changes([nodes |-> nodes, index |-> index[c]],
                            [NoProposals EXCEPT !.removals = Removals(gone)], TRUE),
                        NewLeaf(LeafAt(nodes, c).identity, LeafAt(nodes, c).signer))} :
        /\ got.ok
        /\ private' = [private EXCEPT ![m] = got.keys]
    /\ stray' = stray \cup {m}
    /\ UNCHANGED <<scenario, nodes, index, signer, failed, exposed>>

Next ==
    \/ \E c \in (M \cap scenario.committers) \ failed : Commit(c)
    \/ ExternalCommit
    \/ \E c \in (M \cap scenario.committers) \ failed : \E m \in M \ (failed \cup {c}) : Refuse(m, c)

Spec == Init /\ [][Next]_vars

\* ---------------------------------------------------------------- properties
\* The state is well typed: the node array ends in a leaf (trim), leaves and
\* parents alternate, and every member has an index, keys and a signer.
TypeOK ==
    /\ nodes[Len(nodes)].kind = "leaf"
    /\ \A x \in DOMAIN nodes :
          nodes[x] = Blank \/ nodes[x].kind = IF is_leaf(x - 1) THEN "leaf" ELSE "parent"
    /\ DOMAIN index = M /\ DOMAIN private = M /\ DOMAIN signer = M
    /\ stray \cup failed \subseteq M

\* A commit that its sender could make is processed by every member that stays
\* and every member that joins, and all arrive at the same secret and tree.
\* Only a member that refused an earlier commit after decap, and has made no
\* path since, may be left behind: update_key_schedule replaces the private
\* tree before the checks that can still fail.
EveryoneFollows == failed \subseteq stray

\* Each member holds exactly the secrets the tree says it holds: those of its
\* leaf and of every parent above it that is not blank and does not list it as
\* unmerged.  decap depends on it to find the ciphertext meant for the member.
\* It is lost in update_key_schedule with a refused commit, and restored by the
\* member's next path, removal or return.
SecretsMatchTree ==
    \A m \in M \ (stray \cup failed) :
        LET path == CopathOf(nodes, m)
            Key(k) == IF k + 1 <= Len(private[m]) THEN private[m][k + 1] ELSE NoKey
        IN  /\ private[m][1] = LeafAt(nodes, m).key
            /\ \A k \in DOMAIN path :
                  LET node == borrow_node(nodes, path[k].path)
                  IN  Key(k) = IF node = Blank \/ m \in Range(node.unmerged) THEN NoKey
                               ELSE node.key

\* A parent with a key has members below both of its children.  encap and
\* apply_update_path never blank the filtered nodes of a path: they are blank
\* already.
ParentsHaveTwoSides ==
    \A x \in DOMAIN nodes : nodes[x].kind = "parent" =>
        /\ ~is_resolution_empty(nodes, left_unchecked(x - 1))
        /\ ~is_resolution_empty(nodes, right_unchecked(x - 1))

\* No public key of the tree belongs to a secret that a removed member held.
RemovedMembersLockedOut == exposed = {}

\* A member signs with the key that its leaf shows to the others.
SignerMatchesLeaf ==
    \A m \in M \ failed : signer[m] = LeafAt(nodes, m).signer

===============================================================================
