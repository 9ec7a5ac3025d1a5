---------------------------- MODULE GroupSecrets ----------------------------
(***************************************************************************)
(* How the clients of a group come to share its secrets: commits with      *)
(* pre-shared keys, welcomes, external commits, subgroups and groups that  *)
(* are initialised again (mls-rs/src/group/mod.rs, commit.rs,              *)
(* external_commit.rs, resumption.rs, psk/resolver.rs).                    *)
(*                                                                         *)
(* Nothing orders the commits here: several members may build one for the  *)
(* same epoch, apply their own and process different ones, so the group    *)
(* forks, and every message ever sent may reach every client at any time,  *)
(* more than once or never.  Each operation that succeeds is followed by   *)
(* write_to_storage; a client that joins a group again has deleted what    *)
(* it stored of it.  The ratchet tree is reduced to the leaf of each       *)
(* member, a path to a secret that all its recipients learn                *)
(* (module TreeKemGroup has the rest).                                     *)
(***************************************************************************)
EXTENDS KeySchedule, FiniteSets

CONSTANTS
    Clients,
    Founder,        \* the client that has created MainGroup
    Invited,        \* the key packages it has added, in the first commit
    KeyPackages,    \* other key packages that are published: <<client, number>>
    PathRequired,   \* the clients whose CommitOptions have path_required
    PskStore,       \* client -> (ExternalPskId -> PreSharedKey)
    MainGroup,      \* group ids
    SubGroup,
    NextGroup,      \* the id in a ReInitProposal
    MaxCommits,     \* bound on the commits sent
    MaxGroups,      \* bound on the subgroups and reinitialised groups made
    MaxProposals    \* bound on the proposals of a commit

ASSUME SecretsAssumption ==
    /\ Founder \in Clients
    /\ Invited \subseteq Clients \X Nat
    /\ \A k, l \in Invited : k[1] # Founder /\ (k[1] = l[1] => k = l)
    /\ KeyPackages \subseteq Clients \X Nat
    /\ PathRequired \subseteq Clients
    /\ DOMAIN PskStore = Clients
    /\ MainGroup \notin {SubGroup, NextGroup}
    /\ MaxCommits \in Nat /\ MaxGroups \in Nat /\ MaxProposals \in Nat

VARIABLES
    group,          \* client -> group id -> {} or {Group}
    key_packages,   \* client -> the key packages in its repository
    net,            \* every message sent
    made,           \* random values made: the next fresh number
    groups          \* subgroups and reinitialised groups made

vars == <<group, key_packages, net, made, groups>>

GroupIds == {MainGroup, SubGroup, NextGroup}

Context(group_id, epoch, tree, confirmed) ==
    [group_id |-> group_id, epoch |-> epoch, tree |-> tree,
     confirmed_transcript_hash |-> confirmed]

\* GroupState, EpochSecrets and KeySchedule of an epoch, and the resumption
\* secrets of the epochs that were stored: <<epoch, secret>>.  A private tree has
\* the keys that go with the public tree, but for the paths in private_tree: the
\* ids of commits that were refused after their keys had been taken over.
GroupOf(context, confirmation_tag, epoch_secret) ==
    [context |-> context,
     interim_transcript_hash |->
        InterimTranscriptHash(context.confirmed_transcript_hash, confirmation_tag),
     confirmation_tag |-> confirmation_tag, epoch_secret |-> epoch_secret,
     prior_epochs |-> {}, pending_commit |-> {}, pending_reinit |-> FALSE,
     private_tree |-> {}]

\* Group::new
NewGroup(group_id, c, n) ==
    GroupOf(Context(group_id, 0, [m \in {c} |-> <<"path", n>>], NoTranscript),
            ConfirmationTag(Random(n), NoTranscript), Random(n))

-----------------------------------------------------------------------------
(* Pre-shared keys                                                         *)

ExternalPskId(id, nonce) == <<"external", id, nonce>>
ResumptionPskId(usage, group_id, epoch, nonce) ==
    <<"resumption", usage, group_id, epoch, nonce>>

\* PskResolver::resolve_external
resolve_external(c, id) == {PskStore[c][i] : i \in {id[2]} \cap DOMAIN PskStore[c]}

\* PskResolver::resolve_resumption with the Group in gs, or with none
resolve_resumption(gs, id) ==
    UNION {IF id[4] = g.context.epoch THEN {derive(g.epoch_secret, "resumption")}
           ELSE {p[2] : p \in {p \in g.prior_epochs : p[1] = id[4]}} :
           g \in {g \in gs : id[3] = g.context.group_id}}

resolve(c, gs, id) ==
    IF id[1] = "external" THEN resolve_external(c, id) ELSE resolve_resumption(gs, id)

\* PskSecret::calculate: the chain over the inputs in their order.  The empty set
\* when a pre-shared key is missing.
resolve_to_secret(c, gs, psks) ==
    {[i \in 1 .. Len(psks) |-> <<psks[i], CHOOSE k \in resolve(c, gs, psks[i]) : TRUE>>] :
        all \in {TRUE} \cap {\A i \in 1 .. Len(psks) : resolve(c, gs, psks[i]) # {}}}

-----------------------------------------------------------------------------
(* Commits                                                                 *)

Owners(kps) == {kp[1] : kp \in kps}

path_update_required(p) ==
    \/ p.external # {} \/ p.remove # {}
    \/ p.add = {} /\ p.psks = <<>> /\ ~p.reinit

\* GroupState::apply_resolved, and the committer's leaf of the path
TreeAfter(tree, c) ==
    [m \in (DOMAIN tree \ c.remove) \cup Owners(c.add) \cup (IF c.path THEN {c.by} ELSE {}) |->
        IF c.path /\ m = c.by THEN <<"path", c.id>>
        ELSE IF m \in Owners(c.add)
        THEN <<"key package", CHOOSE n \in {kp[2] : kp \in c.add} : <<m, n>> \in c.add>>
        ELSE tree[m]]

\* The context of the epoch that a commit leads to from g.
ContextAfter(g, c) ==
    Context(g.context.group_id, g.context.epoch + 1, TreeAfter(g.context.tree, c),
            ConfirmedTranscriptHash(g.interim_transcript_hash, c.id))

CommitSecret(c) == IF c.path THEN Random(c.id) ELSE EmptyPathSecret

\* commit_internal, from the key schedule on: the joiner secret and the group of
\* the next epoch, before its private tree is put in.
NewEpoch(g, c, init_secret, psk_secret) ==
    LET context == ContextAfter(g, c)
        joiner_secret == JoinerSecret(init_secret, CommitSecret(c), context)
        epoch_secret == from_joiner(joiner_secret, context, psk_secret)
    IN  [joiner_secret |-> joiner_secret,
         group |-> [GroupOf(context,
                            ConfirmationTag(epoch_secret, context.confirmed_transcript_hash),
                            epoch_secret)
                    EXCEPT !.pending_reinit = c.reinit]]

WithPrivateTree(g, refused) == [g EXCEPT !.private_tree = refused]

\* apply_pending_commit and the end of update_key_schedule: insert_past_epoch,
\* then the state of the next epoch.
Advanced(g, next) ==
    [next EXCEPT !.prior_epochs = g.prior_epochs \cup
        {<<g.context.epoch, derive(g.epoch_secret, "resumption")>>}]

\* AuthenticatedContent::new_signed and format_for_wire: what is signed covers
\* the context of the epoch it was made in; a member adds a membership tag.
CommitMessage(g, c, confirmation_tag) ==
    [kind |-> "commit", commit |-> c, signed_context |-> g.context,
     membership |-> IF c.external = {} THEN {derive(g.epoch_secret, "membership")} ELSE {},
     confirmation_tag |-> confirmation_tag]

\* encrypt_group_secrets and make_welcome_message
Welcomes(c, psks, psk_secret, new) ==
    {[kind |-> "welcome", new_member |-> kp, joiner_secret |-> new.joiner_secret,
      psks |-> psks, key |-> WelcomeSecret(new.joiner_secret, psk_secret),
      signer |-> c.by, context |-> new.group.context,
      confirmation_tag |-> new.group.confirmation_tag] : kp \in c.add}

-----------------------------------------------------------------------------
(* Receiving a commit                                                      *)

\* check_metadata and verify_plaintext_authentication
Authentic(g, m) ==
    /\ m.signed_context.group_id = g.context.group_id
    /\ m.signed_context.epoch = g.context.epoch
    /\ m.commit.external = {} =>
          /\ m.membership = {derive(g.epoch_secret, "membership")}
          /\ m.commit.by \in DOMAIN g.context.tree
    /\ m.signed_context = g.context

\* Faulty: the init secret of the epoch is used for an external commit too.
InitSecretOwn(g, c) == derive(g.epoch_secret, "init")

\* update_key_schedule: the init secret comes from the ExternalInit unless a
\* commit is pending.
InitSecret(g, c) ==
    IF c.external # {} /\ g.pending_commit = {}
    THEN derive_for_external(g.epoch_secret, CHOOSE kem_output \in c.external : TRUE)
    ELSE derive(g.epoch_secret, "init")

\* Faulty: the confirmation tag is not compared.
ConfirmedAlways(next, m) == TRUE

Confirmed(next, m) == next.confirmation_tag = m.confirmation_tag

\* filter_out_invalid_psks of a receiver: a missing external pre-shared key
\* (MissingRequiredPsk)
HasExternalPsks(c, psks) ==
    \A i \in 1 .. Len(psks) : psks[i][1] = "external" => resolve_external(c, psks[i]) # {}

\* Whether TreeKem::decap can open the path of a commit.  The key it needs may be
\* in the place of one that a refused path has overwritten: the positions of the
\* two committers in the ratchet tree, which are not modelled here, decide.
decap(g, c) == IF c.path /\ g.private_tree \ {c.id} # {} THEN BOOLEAN ELSE {TRUE}

\* update_key_schedule has replaced the private tree when a resumption secret is
\* found missing or the confirmation tag wrong.
RefusedLate(g, c) ==
    WithPrivateTree([g EXCEPT !.pending_reinit = c.reinit],
                    g.private_tree \cup IF c.path THEN {c.id} ELSE {})

\* What process_commit may leave of g: the group of the next epoch, or g when it
\* refuses.  A commit with a ReInit sets pending_reinit before its path is looked
\* at, so that it stays set when the path cannot be opened or is the client's own
\* (CantProcessMessageFromSelf).
process_commit(c, g, m) ==
    IF g.pending_reinit \/ ~HasExternalPsks(c, m.commit.psks) \/ c \in m.commit.remove THEN {g}
    ELSE LET nexts == {WithPrivateTree(
                            NewEpoch(g, m.commit, InitSecret(g, m.commit), psk_secret).group,
                            g.private_tree \ {m.commit.id}) :
                        psk_secret \in resolve_to_secret(c, {g}, m.commit.psks)}
             confirmed == {Advanced(g, next) : next \in {next \in nexts : Confirmed(next, m)}}
             opened == IF c = m.commit.by /\ m.commit.path THEN {FALSE} ELSE decap(g, m.commit)
         IN  (IF FALSE \in opened THEN {[g EXCEPT !.pending_reinit = m.commit.reinit]} ELSE {})
             \cup (IF TRUE \notin opened THEN {}
                   ELSE IF confirmed # {} THEN confirmed ELSE {RefusedLate(g, m.commit)})

-----------------------------------------------------------------------------
(* Joining                                                                 *)

\* Faulty: the nonce of the pre-shared key is the joiner's own.
WithNonceOwn(psk, id) == psk

\* psk.id.psk_nonce = psk_id.psk_nonce
WithNonce(psk, id) == <<[psk[1] EXCEPT ![5] = id[5]], psk[2]>>

\* Group::psk_secret: with an additional pre-shared key, the first one of the
\* welcome must be for a branch or a reinit and only the additional one is used;
\* without, a resumption secret cannot be resolved.
psk_secret(c, psks, additional) ==
    IF additional = {} THEN resolve_to_secret(c, {}, psks)
    ELSE {<<WithNonce(psk, psks[1])>> :
            psk \in {p \in additional :
                        /\ psks # <<>>
                        /\ psks[1][1] = "resumption" /\ psks[1][2] # "application"}}

\* from_welcome_message with a key package of c: the groups it may return.
from_welcome_message(c, w, additional) ==
    {GroupOf(w.context, w.confirmation_tag, from_joiner(w.joiner_secret, w.context, secret)) :
        secret \in {s \in psk_secret(c, w.psks, additional) :
            /\ w.key = WelcomeSecret(w.joiner_secret, s)
            /\ w.signer \in DOMAIN w.context.tree
            /\ c \in DOMAIN w.context.tree
            /\ w.context.tree[c] = <<"key package", w.new_member[2]>>
            /\ w.confirmation_tag =
                  ConfirmationTag(from_joiner(w.joiner_secret, w.context, s),
                                  w.context.confirmed_transcript_hash)}}

\* Group::resumption_psk_input; the nonce is a fresh one that is never used.
resumption_psk_input(g, usage, nonce) ==
    <<ResumptionPskId(usage, g.context.group_id, g.context.epoch, nonce),
      derive(g.epoch_secret, "resumption")>>

-----------------------------------------------------------------------------
(* The clients                                                             *)

Commit(id, by, add, remove, psks, reinit, path, external) ==
    [id |-> id, by |-> by, add |-> add, remove |-> remove, psks |-> psks,
     reinit |-> reinit, path |-> path, external |-> external]

\* MainGroup when everyone in Invited has joined
FirstGroup == NewGroup(MainGroup, Founder, 0)
FirstCommit == Commit(1, Founder, Invited, {}, <<>>, FALSE, Founder \in PathRequired, {})
FirstEpoch == NewEpoch(FirstGroup, FirstCommit, derive(FirstGroup.epoch_secret, "init"), <<>>)

Init ==
    /\ group = [c \in Clients |-> [i \in GroupIds |->
                    IF i # MainGroup THEN {}
                    ELSE IF c = Founder THEN {Advanced(FirstGroup, FirstEpoch.group)}
                    ELSE IF c \in Owners(Invited) THEN {FirstEpoch.group} ELSE {}]]
    /\ key_packages = [c \in Clients |-> {kp \in KeyPackages : kp[1] = c}]
    /\ net = {}
    /\ made = 1
    /\ groups = 0

\* What the application may put in a commit that is number n.
PskLists(c, g, n) ==
    LET External == {<<ExternalPskId(id, n)>> : id \in DOMAIN PskStore[c]}
        Resumption == {<<ResumptionPskId("application", g.context.group_id, e, n)>> :
                        e \in 0 .. g.context.epoch}
    IN  {<<>>} \cup External \cup Resumption \cup {x \o y : x \in External, y \in Resumption}

Additions(g) == {{}} \cup {{kp} : kp \in {kp \in KeyPackages : kp[1] \notin DOMAIN g.context.tree}}

Removals(c, g) == {{}} \cup {{m} : m \in DOMAIN g.context.tree \ {c}}

Proposals(c, g, n) ==
    {[add |-> add, remove |-> remove, psks |-> psks, reinit |-> FALSE, external |-> {}] :
        add \in Additions(g), remove \in Removals(c, g), psks \in PskLists(c, g, n)}
    \cup {[add |-> {}, remove |-> {}, psks |-> <<>>, reinit |-> TRUE, external |-> {}]}

Commits(c, g, n) ==
    {Commit(n, c, p.add, p.remove, p.psks, p.reinit,
            c \in PathRequired \/ path_update_required(p), {}) :
        p \in {p \in Proposals(c, g, n) :
                Cardinality(p.add) + Cardinality(p.remove) + Len(p.psks) <= MaxProposals}}

CommitsLeft == Cardinality({m \in net : m.kind = "commit"}) < MaxCommits

\* TreeKem::encap makes every key of the sender's own path anew; without a path
\* commit_internal keeps those it has.
encap(g, c) == IF c.path THEN {} ELSE g.private_tree

\* CommitBuilder::build
Build(c, i) ==
    /\ CommitsLeft
    /\ \E g \in group[c][i] :
        /\ g.pending_commit = {} /\ ~g.pending_reinit
        /\ \E p \in Commits(c, g, made + 1) :
           \E secret \in resolve_to_secret(c, {g}, p.psks) :
           \E new \in {NewEpoch(g, p, derive(g.epoch_secret, "init"), secret)} :
            /\ group' = [group EXCEPT ![c][i] =
                    {[g EXCEPT !.pending_commit = {WithPrivateTree(new.group, encap(g, p))}]}]
            /\ net' = net \cup {CommitMessage(g, p, new.group.confirmation_tag)}
                          \cup Welcomes(p, p.psks, secret, new)
    /\ made' = made + 1
    /\ UNCHANGED <<key_packages, groups>>

\* Group::apply_pending_commit, also by way of process_incoming_message
ApplyPending(c, i) ==
    /\ \E g \in group[c][i] : \E next \in g.pending_commit :
        group' = [group EXCEPT ![c][i] = {Advanced(g, next)}]
    /\ UNCHANGED <<key_packages, net, made, groups>>

ClearPending(c, i) ==
    /\ \E g \in group[c][i] :
        /\ g.pending_commit # {}
        /\ group' = [group EXCEPT ![c][i] = {[g EXCEPT !.pending_commit = {}]}]
    /\ UNCHANGED <<key_packages, net, made, groups>>

Process(c, i, m) ==
    /\ m.kind = "commit"
    /\ \E g \in group[c][i] :
        /\ Authentic(g, m)
        /\ \A next \in g.pending_commit : next.confirmation_tag # m.confirmation_tag
        /\ \E h \in process_commit(c, g, m) : group' = [group EXCEPT ![c][i] = {h}]
    /\ UNCHANGED <<key_packages, net, made, groups>>

\* ExternalCommitBuilder::build with the GroupInfo that d has just made; a client
\* that is still in the tree removes its former leaf.
ExternalCommit(c, d, i) ==
    /\ c # d /\ CommitsLeft
    /\ \E h \in group[d][i] :
       LET n == made + 1
           g == GroupOf(h.context, h.confirmation_tag, EmptyPathSecret)
           pub == ExternalPub(h.epoch_secret)
       IN  \E psks \in {<<>>} \cup {<<ExternalPskId(id, n)>> : id \in DOMAIN PskStore[c]} :
           \E secret \in resolve_to_secret(c, {}, psks) :
           \E p \in {Commit(n, c, {}, {c} \cap DOMAIN g.context.tree, psks, FALSE, TRUE,
                            {KemOutput(pub, n)})} :
           \E new \in {NewEpoch(g, p, encode_for_external(pub, n), secret)} :
            /\ group' = [group EXCEPT ![c][i] = {Advanced(g, new.group)}]
            /\ net' = net \cup {CommitMessage(g, p, new.group.confirmation_tag)}
    /\ made' = made + 1
    /\ UNCHANGED <<key_packages, groups>>

\* Faulty: previous_psk is not set before the commit is built.
resumption_create_groupUnbound(c, i, g, usage, kps) ==
    \E old \in {NewGroup(i, c, made + 1)} :
    \E p \in {Commit(made + 2, c, kps, {}, <<>>, FALSE, c \in PathRequired, {})} :
    \E new \in {NewEpoch(old, p, derive(old.epoch_secret, "init"), <<>>)} :
        /\ group' = [group EXCEPT ![c][i] = {Advanced(old, new.group)}]
        /\ net' = net \cup Welcomes(p, <<>>, <<>>, new)
        /\ made' = made + 2
        /\ groups' = groups + 1
        /\ UNCHANGED key_packages

\* resumption_create_group: a new group, and in it a commit that adds the key
\* packages under the resumption secret of g.
resumption_create_group(c, i, g, usage, kps) ==
    \E old \in {NewGroup(i, c, made + 1)} :
    \E psk \in {resumption_psk_input(g, usage, made + 2)} :
    \E p \in {Commit(made + 2, c, kps, {}, <<>>, FALSE, c \in PathRequired, {})} :
    \E new \in {NewEpoch(old, p, derive(old.epoch_secret, "init"), <<psk>>)} :
        /\ group' = [group EXCEPT ![c][i] = {Advanced(old, new.group)}]
        /\ net' = net \cup Welcomes(p, <<psk[1]>>, <<psk>>, new)
        /\ made' = made + 2
        /\ groups' = groups + 1
        /\ UNCHANGED key_packages

OthersKeyPackages(c) == SUBSET {kp \in KeyPackages : kp[1] # c} \ {{}}

OnePerClient(kps) == \A k, l \in kps : k[1] = l[1] => k = l

\* Group::branch
Branch(c) ==
    /\ groups < MaxGroups /\ group[c][SubGroup] = {}
    /\ \E g \in group[c][MainGroup] : \E kps \in OthersKeyPackages(c) :
        OnePerClient(kps) /\ resumption_create_group(c, SubGroup, g, "branch", kps)

\* Group::get_reinit_client and ReinitClient::commit
ReinitCommit(c) ==
    /\ groups < MaxGroups /\ group[c][NextGroup] = {}
    /\ \E g \in group[c][MainGroup] : \E kps \in OthersKeyPackages(c) :
        /\ g.pending_reinit /\ OnePerClient(kps)
        /\ resumption_create_group(c, NextGroup, g, "reinit", kps)

\* A welcome is opened; writing the new group deletes the key package.
Joins(c, w, additional) ==
    /\ \E g \in from_welcome_message(c, w, additional) :
        group' = [group EXCEPT ![c][g.context.group_id] = {g}]
    /\ key_packages' = [key_packages EXCEPT ![c] = @ \ {w.new_member}]
    /\ UNCHANGED <<net, made, groups>>

ForMember(c, w) == w.kind = "welcome" /\ w.new_member \in key_packages[c]

\* Client::join_group
Join(c, w) == ForMember(c, w) /\ Joins(c, w, {})

\* Group::join_subgroup
JoinSubgroup(c, w) ==
    /\ ForMember(c, w)
    /\ \E g \in group[c][MainGroup] : Joins(c, w, {resumption_psk_input(g, "branch", 0)})

\* Group::get_reinit_client and ReinitClient::join
ReinitJoin(c, w) ==
    /\ ForMember(c, w) /\ w.context.group_id = NextGroup
    /\ \E g \in group[c][MainGroup] :
        g.pending_reinit /\ Joins(c, w, {resumption_psk_input(g, "reinit", 0)})

\* The other groups stay in their first epochs: they would go on as MainGroup does.
Next ==
    \E c \in Clients :
        \/ Build(c, MainGroup)
        \/ ApplyPending(c, MainGroup)
        \/ ClearPending(c, MainGroup)
        \/ \E m \in net : Process(c, MainGroup, m)
        \/ \E d \in Clients : ExternalCommit(c, d, MainGroup)
        \/ Branch(c)
        \/ ReinitCommit(c)
        \/ \E w \in net : Join(c, w) \/ JoinSubgroup(c, w) \/ ReinitJoin(c, w)

Spec == Init /\ [][Next]_vars

-----------------------------------------------------------------------------
(* Properties                                                              *)

\* Every state of the group that some client is in, or has pending.
States(i) == UNION {group[c][i] \cup UNION {g.pending_commit : g \in group[c][i]} : c \in Clients}

\* Clients that see the same group context (epoch, tree and transcript) have the
\* same epoch secret, however each of them came there: by its own commit, by
\* another's, by a welcome or by an external commit, and whatever pre-shared keys
\* it holds.
SecretsAgree ==
    \A i \in GroupIds : \A g, h \in States(i) :
        g.context = h.context => g.epoch_secret = h.epoch_secret

\* The pre-shared keys that the sender of a commit or welcome used.
PskSecretOf(confirmation_tag) == confirmation_tag[2][2][3]

\* Whoever is in the context a commit was made in, has no commit of its own
\* pending, resolves the pre-shared keys as the sender did, and has a private tree
\* that opens the path, follows the commit to the sender's new context and secrets:
\* process_commit and commit_internal derive the transcript, the context and the
\* key schedule alike.  The private tree opens the path unless the member has
\* refused another commit with a path, and no path of its own since.
CommitIsFollowed ==
    \A c \in Clients, i \in GroupIds : \A g \in group[c][i], m \in net :
        /\ m.kind = "commit" /\ Authentic(g, m)
        /\ g.pending_commit = {} /\ ~g.pending_reinit
        /\ c \notin m.commit.remove /\ c # m.commit.by
        /\ resolve_to_secret(c, {g}, m.commit.psks) = {PskSecretOf(m.confirmation_tag)}
        /\ m.commit.path => g.private_tree \subseteq {m.commit.id}
        => \A h \in process_commit(c, g, m) : h.confirmation_tag = m.confirmation_tag

\* The additional pre-shared keys c can join with.
AdditionalPsks(c) ==
    {{}} \cup {{resumption_psk_input(g, "branch", 0)} : g \in group[c][MainGroup]}
         \cup {{resumption_psk_input(g, "reinit", 0)} :
                g \in {g \in group[c][MainGroup] : g.pending_reinit}}

\* A welcome can be opened by the client it is for as long as that client holds
\* the pre-shared keys that went into it: external ones in its store, or, for a
\* subgroup or a reinitialised group, the resumption secret of the very epoch of
\* the old group that the sender was in.
WelcomeOpens ==
    \A c \in Clients : \A w \in net :
        ForMember(c, w) =>
            LET used == PskSecretOf(w.confirmation_tag)
            IN  (\/ resolve_to_secret(c, {}, w.psks) = {used}
                 \/ Len(used) = 1 /\ \E a \in AdditionalPsks(c) : \E psk \in a :
                        <<[psk[1] EXCEPT ![5] = used[1][1][5]], psk[2]>> = used[1])
                => \E a \in AdditionalPsks(c) : from_welcome_message(c, w, a) # {}

\* The members of the old group's epoch whose resumption secret is psk.
MembersBehind(psk) ==
    LET parent == psk[2][2]
    IN  IF parent[1] = "epoch" THEN DOMAIN parent[4].tree ELSE {Founder}

\* A client is in the first epoch of a subgroup or of a reinitialised group only
\* if it was a member of the old group in the epoch, and on the side of a fork,
\* in which the group was made.
OriginShared ==
    \A c \in Clients, i \in {SubGroup, NextGroup} : \A g \in group[c][i] :
        g.context.epoch = 1 =>
            LET used == PskSecretOf(g.confirmation_tag)
            IN  Len(used) = 1 /\ c \in MembersBehind(used[1])

\* Members in the same context that both find the resumption secret of an epoch
\* of the group find the same one.
ResumptionAgrees ==
    \A i \in GroupIds : \A g, h \in States(i) : \A p \in g.prior_epochs, q \in h.prior_epochs :
        g.context = h.context /\ p[1] = q[1] => p[2] = q[2]

\* A reinitialised group begins with all the members of the old one.
ReinitKeepsRoster ==
    \A c \in Clients : \A g \in group[c][NextGroup] :
        g.context.epoch = 1 =>
            DOMAIN g.context.tree = MembersBehind(PskSecretOf(g.confirmation_tag)[1])

=============================================================================
