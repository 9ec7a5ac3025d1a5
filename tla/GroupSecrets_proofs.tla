------------------------ MODULE GroupSecrets_proofs ------------------------
(***************************************************************************)
(* Clients that see the same context have the same epoch secret, a commit  *)
(* is followed, a welcome opens, and the members of a new group come from  *)
(* the old one, for any number of clients, groups, commits and pre-shared  *)
(* keys, and whatever forks.                                               *)
(*                                                                         *)
(* SecretsAgree compares two Groups and says nothing of the messages that  *)
(* Groups come from.  The inductive invariant is about confirmation tags,  *)
(* which are in the Groups, the pending commits, the commit messages and   *)
(* the welcomes alike.  A tag binds an epoch secret to a transcript, which *)
(* ends with the number of a commit; only the sender of a commit makes a   *)
(* tag with its number, and everyone else takes over a tag only after      *)
(* comparing it with the one it has derived.  So there is one tag for each *)
(* number, and one epoch secret for each transcript.                       *)
(***************************************************************************)
EXTENDS GroupSecrets, TLAPS

Fields ==
    {"context", "interim_transcript_hash", "confirmation_tag", "epoch_secret",
     "prior_epochs", "pending_commit", "pending_reinit", "private_tree"}

\* The number of the last commit in the transcript that a tag is for.
TagId(tag) == tag[3][3]

\* A Group whose confirmation tag is the one of its epoch secret and transcript,
\* and whose interim transcript goes on from there.
Tagged(g) ==
    /\ DOMAIN g = Fields
    /\ g.confirmation_tag =
          ConfirmationTag(g.epoch_secret, g.context.confirmed_transcript_hash)
    /\ g.interim_transcript_hash =
          InterimTranscriptHash(g.context.confirmed_transcript_hash, g.confirmation_tag)

\* A Group with a tag in T, as are the tags of its pending commits.
TaggedIn(g, T) ==
    /\ Tagged(g) /\ g.confirmation_tag \in T
    /\ \A p \in g.pending_commit :
        Tagged(p) /\ p.confirmation_tag \in T /\ p.pending_commit = {}

\* There is at most one tag in T for each commit, and none for a later one than n.
OneTagEach(T, n) ==
    /\ n \in Nat
    /\ \A t \in T : TagId(t) \in 0 .. n
    /\ \A t, u \in T : TagId(t) = TagId(u) => t = u

\* A Group in the context that a commit was made in, with epoch secret s
SenderState(context, s) ==
    GroupOf(context, ConfirmationTag(s, context.confirmed_transcript_hash), s)

\* The commit in m was made by somebody in the context it names, with a tag in T,
\* and m carries the tag of the epoch the commit leads to from there.
MadeFrom(m, T) ==
    \E s, secret :
        /\ SenderState(m.signed_context, s).confirmation_tag \in T
        /\ m.confirmation_tag =
            NewEpoch(SenderState(m.signed_context, s), m.commit,
                     InitSecret(SenderState(m.signed_context, s), m.commit), secret
                    ).group.confirmation_tag

SentIn(m, T) == m.confirmation_tag \in T /\ (m.kind = "commit" => MadeFrom(m, T))

\* T holds the tags of every Group and message.
TagsAre(T) ==
    /\ OneTagEach(T, made)
    /\ \A c \in Clients, i \in GroupIds : \A g \in group[c][i] : TaggedIn(g, T)
    /\ \A m \in net : SentIn(m, T)

GroupsAreFunctions ==
    DOMAIN group = Clients /\ \A c \in Clients : DOMAIN group[c] = GroupIds

TagInv == GroupsAreFunctions /\ \E T : TagsAre(T)

-----------------------------------------------------------------------------

\* ConfirmationTag::create is a free constructor, and so is transcript_hash::create.
LEMMA TagParts ==
    ASSUME NEW s, NEW h, NEW t, NEW k, ConfirmationTag(s, h) = ConfirmationTag(t, k)
    PROVE  s = t /\ h = k
BY Zenon DEF ConfirmationTag, derive

LEMMA TagIdOf ==
    ASSUME NEW s, NEW x, NEW n
    PROVE  TagId(ConfirmationTag(s, ConfirmedTranscriptHash(x, n))) = n
BY Zenon DEF TagId, ConfirmationTag, ConfirmedTranscriptHash

LEMMA GroupOfFields ==
    ASSUME NEW context, NEW tag, NEW secret
    PROVE  LET g == GroupOf(context, tag, secret)
           IN  /\ DOMAIN g = Fields /\ g.context = context /\ g.confirmation_tag = tag
               /\ g.epoch_secret = secret /\ g.pending_commit = {}
               /\ g.interim_transcript_hash =
                    InterimTranscriptHash(context.confirmed_transcript_hash, tag)
BY Zenon DEF GroupOf, Fields

LEMMA SenderStateFields ==
    ASSUME NEW context, NEW s
    PROVE  LET g == SenderState(context, s)
           IN  /\ g.context = context /\ g.epoch_secret = s /\ g.pending_commit = {}
               /\ g.confirmation_tag = ConfirmationTag(s, context.confirmed_transcript_hash)
               /\ g.interim_transcript_hash =
                    InterimTranscriptHash(context.confirmed_transcript_hash, g.confirmation_tag)
BY GroupOfFields DEF SenderState

\* The key schedule depends on nothing of a Group but its context and transcript.
LEMMA SameNewEpoch ==
    ASSUME NEW g, NEW h, g.context = h.context,
           g.interim_transcript_hash = h.interim_transcript_hash, NEW c, NEW init, NEW secret
    PROVE  NewEpoch(g, c, init, secret) = NewEpoch(h, c, init, secret)
<1>1. ContextAfter(g, c) = ContextAfter(h, c)
  BY Zenon DEF ContextAfter
<1>. QED
  BY <1>1, Zenon DEF NewEpoch

\* commit_internal and update_key_schedule make the tag of the new epoch, numbered
\* by the commit.
LEMMA NewEpochTagged ==
    ASSUME NEW g, NEW c, NEW init_secret, NEW secret
    PROVE  LET next == NewEpoch(g, c, init_secret, secret).group
           IN  Tagged(next) /\ next.pending_commit = {} /\ TagId(next.confirmation_tag) = c.id
<1>. DEFINE context == ContextAfter(g, c)
            epoch_secret == from_joiner(JoinerSecret(init_secret, CommitSecret(c), context),
                                        context, secret)
            tag == ConfirmationTag(epoch_secret, context.confirmed_transcript_hash)
            new == GroupOf(context, tag, epoch_secret)
            next == [new EXCEPT !.pending_reinit = c.reinit]
<1>1. NewEpoch(g, c, init_secret, secret).group = next
  BY Zenon DEF NewEpoch
<1>2. context.confirmed_transcript_hash = ConfirmedTranscriptHash(g.interim_transcript_hash, c.id)
  BY Zenon DEF ContextAfter, Context
<1>3. TagId(tag) = c.id
  BY <1>2, TagIdOf
<1>4. /\ DOMAIN new = Fields /\ new.context = context /\ new.confirmation_tag = tag
      /\ new.epoch_secret = epoch_secret /\ new.pending_commit = {}
      /\ new.interim_transcript_hash =
            InterimTranscriptHash(context.confirmed_transcript_hash, tag)
  BY GroupOfFields
<1>. HIDE DEF context, epoch_secret, new
<1>5. /\ DOMAIN next = Fields /\ next.context = context /\ next.confirmation_tag = tag
      /\ next.epoch_secret = epoch_secret /\ next.pending_commit = {}
      /\ next.interim_transcript_hash = new.interim_transcript_hash
  BY <1>4, Zenon DEF Fields
<1>. HIDE DEF next
<1>6. Tagged(next) /\ next.pending_commit = {} /\ TagId(next.confirmation_tag) = c.id
  BY <1>3, <1>4, <1>5, Zenon DEF Tagged
<1>. QED
  BY <1>1, <1>6, Zenon

\* insert_past_epoch leaves the state of the next epoch alone.
LEMMA AdvancedTagged ==
    ASSUME NEW g, NEW next, Tagged(next), next.pending_commit = {}
    PROVE  /\ Tagged(Advanced(g, next)) /\ Advanced(g, next).pending_commit = {}
           /\ Advanced(g, next).confirmation_tag = next.confirmation_tag
<1>1. LET h == Advanced(g, next)
      IN  /\ DOMAIN h = Fields /\ h.context = next.context /\ h.epoch_secret = next.epoch_secret
          /\ h.confirmation_tag = next.confirmation_tag /\ h.pending_commit = {}
          /\ h.interim_transcript_hash = next.interim_transcript_hash
  BY Zenon DEF Advanced, Tagged, Fields
<1>. QED
  BY <1>1, Zenon DEF Tagged

\* Which keys are in the private tree shows in nothing else of a Group.
LEMMA PrivateTreeApart ==
    ASSUME NEW g, Tagged(g), NEW refused
    PROVE  LET h == WithPrivateTree(g, refused)
           IN  /\ Tagged(h) /\ h.context = g.context /\ h.epoch_secret = g.epoch_secret
               /\ h.confirmation_tag = g.confirmation_tag /\ h.pending_commit = g.pending_commit
<1>. DEFINE h == WithPrivateTree(g, refused)
<1>1. /\ DOMAIN h = Fields /\ h.context = g.context /\ h.epoch_secret = g.epoch_secret
      /\ h.confirmation_tag = g.confirmation_tag /\ h.pending_commit = g.pending_commit
      /\ h.interim_transcript_hash = g.interim_transcript_hash
  BY Zenon DEF WithPrivateTree, Tagged, Fields
<1>. HIDE DEF h
<1>2. Tagged(h)
  BY <1>1, Zenon DEF Tagged
<1>. QED
  BY <1>1, <1>2, Zenon DEF h

\* The group that update_key_schedule derives at a receiver
Derived(g, m, secret) ==
    WithPrivateTree(NewEpoch(g, m.commit, InitSecret(g, m.commit), secret).group,
                    g.private_tree \ {m.commit.id})

LEMMA DerivedTagged ==
    ASSUME NEW g, NEW m, NEW secret
    PROVE  LET next == Derived(g, m, secret)
               new == NewEpoch(g, m.commit, InitSecret(g, m.commit), secret).group
           IN  /\ Tagged(next) /\ next.pending_commit = {}
               /\ next.context = new.context /\ next.epoch_secret = new.epoch_secret
               /\ next.confirmation_tag = new.confirmation_tag
<1>1. PICK new : new = NewEpoch(g, m.commit, InitSecret(g, m.commit), secret).group
  BY Zenon
<1>2. Tagged(new) /\ new.pending_commit = {}
  BY <1>1, NewEpochTagged, Zenon
<1>3. PICK refused : refused = g.private_tree \ {m.commit.id}
  BY Zenon
<1>4. Derived(g, m, secret) = WithPrivateTree(new, refused)
  BY <1>1, <1>3, Zenon DEF Derived
<1>5. LET h == WithPrivateTree(new, refused)
      IN  /\ Tagged(h) /\ h.context = new.context /\ h.epoch_secret = new.epoch_secret
          /\ h.confirmation_tag = new.confirmation_tag /\ h.pending_commit = new.pending_commit
  BY <1>2, PrivateTreeApart
<1>. QED
  BY <1>1, <1>2, <1>4, <1>5, Zenon

\* A commit is refused at its path, or after its keys were taken over.
Refuses(g, m, h) ==
    h = [g EXCEPT !.pending_reinit = m.commit.reinit] \/ h = RefusedLate(g, m.commit)

\* A commit is followed.
Follows(c, g, m, h) ==
    /\ c \notin m.commit.remove
    /\ \E secret : Confirmed(Derived(g, m, secret), m) /\ h = Advanced(g, Derived(g, m, secret))

\* The ways process_commit may end
LEMMA Outcomes ==
    ASSUME NEW c, NEW g, NEW m, NEW h \in process_commit(c, g, m)
    PROVE  h = g \/ Refuses(g, m, h) \/ Follows(c, g, m, h)
<1>. DEFINE nexts == {Derived(g, m, secret) : secret \in resolve_to_secret(c, {g}, m.commit.psks)}
            confirmed == {Advanced(g, next) : next \in {next \in nexts : Confirmed(next, m)}}
<1>1. CASE g.pending_reinit \/ ~HasExternalPsks(c, m.commit.psks) \/ c \in m.commit.remove
  BY <1>1, Zenon DEF process_commit
<1>2. CASE ~(g.pending_reinit \/ ~HasExternalPsks(c, m.commit.psks) \/ c \in m.commit.remove)
  <2>1. h \in {[g EXCEPT !.pending_reinit = m.commit.reinit], RefusedLate(g, m.commit)} \cup confirmed
    BY <1>2, Zenon DEF process_commit, Derived
  <2>2. CASE h \in confirmed
    <3>1. PICK next \in nexts : Confirmed(next, m) /\ h = Advanced(g, next)
      BY <2>2, Zenon
    <3>2. PICK secret : next = Derived(g, m, secret)
      BY <3>1, Zenon
    <3>. QED
      BY <1>2, <3>1, <3>2, Zenon DEF Follows
  <2>. QED
    BY <2>1, <2>2, Zenon DEF Refuses
<1>. QED
  BY <1>1, <1>2, Zenon

\* A commit that is refused leaves the epoch of a Group, and what is pending in it.
LEMMA RefusedTagged ==
    ASSUME NEW g, NEW m, Tagged(g), NEW h, Refuses(g, m, h)
    PROVE  /\ Tagged(h) /\ h.context = g.context /\ h.epoch_secret = g.epoch_secret
           /\ h.confirmation_tag = g.confirmation_tag /\ h.pending_commit = g.pending_commit
<1>1. PICK same : same = [g EXCEPT !.pending_reinit = m.commit.reinit]
  BY Zenon
<1>2. /\ DOMAIN same = Fields /\ same.context = g.context
      /\ same.epoch_secret = g.epoch_secret
      /\ same.confirmation_tag = g.confirmation_tag /\ same.pending_commit = g.pending_commit
      /\ same.interim_transcript_hash = g.interim_transcript_hash
  BY <1>1, Zenon DEF Tagged, Fields
<1>3. Tagged(same)
  BY <1>2, Zenon DEF Tagged
<1>4. CASE h = RefusedLate(g, m.commit)
  <2>1. PICK refused : h = WithPrivateTree(same, refused)
    BY <1>1, <1>4, Zenon DEF RefusedLate
  <2>2. LET x == WithPrivateTree(same, refused)
        IN  /\ Tagged(x) /\ x.context = same.context /\ x.epoch_secret = same.epoch_secret
            /\ x.confirmation_tag = same.confirmation_tag
            /\ x.pending_commit = same.pending_commit
    BY <1>3, PrivateTreeApart
  <2>. QED
    BY <1>2, <2>1, <2>2, Zenon
<1>5. CASE h = same
  BY <1>2, <1>3, <1>5, Zenon
<1>. QED
  BY <1>1, <1>4, <1>5, Zenon DEF Refuses

\* process_commit goes on to a tag only if the message carries it.
LEMMA ProcessCommitTagged ==
    ASSUME NEW c, NEW g, NEW m, NEW T, TaggedIn(g, T), m.confirmation_tag \in T
    PROVE  \A h \in process_commit(c, g, m) : TaggedIn(h, T)
<1>1. ASSUME NEW h, Follows(c, g, m, h)
      PROVE  TaggedIn(h, T)
  <2>1. PICK secret : Confirmed(Derived(g, m, secret), m) /\ h = Advanced(g, Derived(g, m, secret))
    BY <1>1, Zenon DEF Follows
  <2>2. PICK next : next = Derived(g, m, secret)
    BY Zenon
  <2>3. Tagged(next) /\ next.pending_commit = {}
    BY <2>2, DerivedTagged, Zenon
  <2>4. next.confirmation_tag \in T
    BY <2>1, <2>2, Zenon DEF Confirmed
  <2>5. TaggedIn(Advanced(g, next), T)
    BY <2>3, <2>4, AdvancedTagged, Zenon DEF TaggedIn
  <2>. QED
    BY <2>1, <2>2, <2>5, Zenon
<1>2. ASSUME NEW h, Refuses(g, m, h)
      PROVE  TaggedIn(h, T)
  <2>1. Tagged(g)
    BY Zenon DEF TaggedIn
  <2>2. /\ Tagged(h) /\ h.confirmation_tag = g.confirmation_tag
        /\ h.pending_commit = g.pending_commit
    BY <1>2, <2>1, RefusedTagged, Zenon
  <2>. QED
    BY <2>2, Zenon DEF TaggedIn
<1>. QED
  BY <1>1, <1>2, Outcomes, Zenon

\* from_welcome_message compares the tag of the welcome with the one it derives.
LEMMA WelcomeTagged ==
    ASSUME NEW c, NEW w, NEW additional, NEW T, w.confirmation_tag \in T
    PROVE  \A g \in from_welcome_message(c, w, additional) : TaggedIn(g, T)
<1>. SUFFICES ASSUME NEW g \in from_welcome_message(c, w, additional)
              PROVE  TaggedIn(g, T)
  BY Zenon
<1>1. PICK s : /\ g = GroupOf(w.context, w.confirmation_tag,
                              from_joiner(w.joiner_secret, w.context, s))
               /\ w.confirmation_tag =
                    ConfirmationTag(from_joiner(w.joiner_secret, w.context, s),
                                    w.context.confirmed_transcript_hash)
  BY Zenon DEF from_welcome_message
<1>2. /\ DOMAIN g = Fields /\ g.context = w.context /\ g.confirmation_tag = w.confirmation_tag
      /\ g.epoch_secret = from_joiner(w.joiner_secret, w.context, s) /\ g.pending_commit = {}
      /\ g.interim_transcript_hash =
            InterimTranscriptHash(w.context.confirmed_transcript_hash, w.confirmation_tag)
  BY <1>1, Zenon DEF GroupOf, Fields
<1>. QED
  BY <1>1, <1>2, Zenon DEF TaggedIn, Tagged

-----------------------------------------------------------------------------

\* One more tag, with a fresh number.
LEMMA FreshTag ==
    ASSUME NEW T, NEW n, NEW k, NEW t, OneTagEach(T, n), k \in Nat, TagId(t) = k, k > n
    PROVE  OneTagEach(T \cup {t}, k)
BY DEF OneTagEach

LEMMA MoreTags ==
    ASSUME NEW g, NEW T, NEW U, TaggedIn(g, T), T \subseteq U
    PROVE  TaggedIn(g, U)
BY Zenon DEF TaggedIn

LEMMA MoreSent ==
    ASSUME NEW m, NEW T, NEW U, SentIn(m, T), T \subseteq U
    PROVE  SentIn(m, U)
BY Zenon DEF SentIn, MadeFrom

\* A commit message, made in the state g or from what a GroupInfo of g tells
LEMMA CommitMadeFrom ==
    ASSUME NEW g, NEW k, NEW T, Tagged(g), g.confirmation_tag \in T,
           k.context = g.context, k.interim_transcript_hash = g.interim_transcript_hash,
           NEW c, NEW secret, NEW init, init = InitSecret(SenderState(g.context, g.epoch_secret), c)
    PROVE  LET m == CommitMessage(k, c, NewEpoch(k, c, init, secret).group.confirmation_tag)
           IN  m.kind = "commit" /\ MadeFrom(m, T)
<1>. DEFINE h == SenderState(g.context, g.epoch_secret)
            t == NewEpoch(k, c, init, secret).group.confirmation_tag
            m == CommitMessage(k, c, t)
<1>1. /\ h.context = g.context /\ h.confirmation_tag = g.confirmation_tag
      /\ h.interim_transcript_hash = g.interim_transcript_hash
  BY SenderStateFields DEF Tagged
<1>2. t = NewEpoch(h, c, init, secret).group.confirmation_tag
  <2>1. k.context = h.context /\ k.interim_transcript_hash = h.interim_transcript_hash
    BY <1>1, Zenon
  <2>. HIDE DEF h
  <2>2. NewEpoch(k, c, init, secret) = NewEpoch(h, c, init, secret)
    BY <2>1, SameNewEpoch
  <2>. QED BY <2>2, Zenon
<1>3. /\ m.kind = "commit" /\ m.commit = c /\ m.signed_context = g.context
      /\ m.confirmation_tag = t
  <2> HIDE DEF t
  <2>. QED BY Zenon DEF CommitMessage
<1>. HIDE DEF t, m
<1>4. MadeFrom(m, T)
  BY <1>1, <1>2, <1>3, Zenon DEF MadeFrom
<1>. QED BY <1>3, <1>4, Zenon DEF m, t

\* A step that gives one client another Group in one place, and sends messages,
\* all with tags in U.
LEMMA GroupChanges ==
    ASSUME GroupsAreFunctions, NEW T, TagsAre(T), NEW U, T \subseteq U, OneTagEach(U, made'),
           NEW c, NEW i, NEW S, group' = [group EXCEPT ![c][i] = S],
           \A g \in S : TaggedIn(g, U),
           \A m \in net' : m \in net \/ SentIn(m, U)
    PROVE  TagInv'
<1>1. DOMAIN group' = Clients
  BY Zenon DEF GroupsAreFunctions
<1>2. ASSUME NEW d \in Clients
      PROVE  DOMAIN group'[d] = GroupIds
  BY Zenon DEF GroupsAreFunctions
<1>3. ASSUME NEW d \in Clients, NEW j \in GroupIds, NEW g \in group'[d][j]
      PROVE  TaggedIn(g, U)
  <2>1. group'[d][j] = S \/ group'[d][j] = group[d][j]
    BY Zenon DEF GroupsAreFunctions
  <2>2. ASSUME g \in group[d][j]
        PROVE  TaggedIn(g, U)
    BY <2>2, MoreTags, Zenon DEF TagsAre
  <2>. QED
    BY <1>3, <2>1, <2>2, Zenon
<1>4. \A m \in net' : SentIn(m, U)
  BY MoreSent, Zenon DEF TagsAre
<1>5. GroupsAreFunctions'
  BY <1>1, <1>2, Zenon DEF GroupsAreFunctions, GroupIds
<1>. QED
  BY <1>3, <1>4, <1>5, Zenon DEF TagInv, TagsAre, GroupIds

LEMMA InitTagInv == ASSUME Init PROVE TagInv
<1>. DEFINE first == FirstEpoch.group
            T == {first.confirmation_tag}
<1>1. Tagged(first) /\ first.pending_commit = {} /\ TagId(first.confirmation_tag) = 1
  <2>1. FirstCommit.id = 1
    BY Zenon DEF FirstCommit, Commit
  <2>. QED
    BY <2>1, NewEpochTagged, Zenon DEF FirstEpoch
<1>2. LET h == Advanced(FirstGroup, first)
      IN  Tagged(h) /\ h.pending_commit = {} /\ h.confirmation_tag = first.confirmation_tag
  BY <1>1, AdvancedTagged
<1>. HIDE DEF first
<1>3. OneTagEach(T, 1)
  BY <1>1 DEF OneTagEach
<1>4. TaggedIn(first, T) /\ TaggedIn(Advanced(FirstGroup, first), T)
  BY <1>1, <1>2, Zenon DEF TaggedIn
<1>5. GroupsAreFunctions /\ net = {} /\ made = 1
  BY Zenon DEF Init, GroupsAreFunctions
<1>6. ASSUME NEW c \in Clients, NEW i \in GroupIds
      PROVE  group[c][i] \subseteq {first, Advanced(FirstGroup, first)}
  BY Zenon DEF Init, first
<1>7. TagsAre(T)
  BY <1>3, <1>4, <1>5, <1>6, Zenon DEF TagsAre
<1>. QED
  BY <1>5, <1>7, Zenon DEF TagInv

\* CommitBuilder::build: a tag for a new commit, in the Group and in its messages.
LEMMA BuildTags ==
    ASSUME TagInv, NEW c \in Clients, NEW i \in GroupIds, Build(c, i)
    PROVE  TagInv'
<1>. PICK T : TagsAre(T)
  BY Zenon DEF TagInv
<1>1. PICK g, p, secret, new :
        /\ g \in group[c][i] /\ p \in Commits(c, g, made + 1)
        /\ new = NewEpoch(g, p, derive(g.epoch_secret, "init"), secret)
        /\ group' = [group EXCEPT ![c][i] =
                {[g EXCEPT !.pending_commit = {WithPrivateTree(new.group, encap(g, p))}]}]
        /\ net' = net \cup {CommitMessage(g, p, new.group.confirmation_tag)}
                      \cup Welcomes(p, p.psks, secret, new)
  BY Zenon DEF Build
<1>. DEFINE next == WithPrivateTree(new.group, encap(g, p))
            t == new.group.confirmation_tag
            h == [g EXCEPT !.pending_commit = {next}]
<1>2. p.id = made + 1 /\ p.external = {}
  BY <1>1 DEF Commits, Commit
<1>3. /\ Tagged(next) /\ next.pending_commit = {}
      /\ next.confirmation_tag = t /\ TagId(t) = made + 1
  <2>1. Tagged(new.group) /\ new.group.pending_commit = {} /\ TagId(t) = made + 1
    BY <1>1, <1>2, NewEpochTagged, Zenon
  <2>2. PICK refused : refused = encap(g, p)
    BY Zenon
  <2>. QED
    BY <2>1, <2>2, PrivateTreeApart, Zenon
<1>4. OneTagEach(T, made) /\ made \in Nat /\ TaggedIn(g, T)
  BY <1>1, Zenon DEF TagsAre, OneTagEach
<1>5. made' = made + 1
  BY Zenon DEF Build
<1>6. \A m \in net' : m \in net \/ SentIn(m, T \cup {t})
  <2>1. PICK m0 : m0 = CommitMessage(g, p, t)
    BY Zenon
  <2>2. SentIn(m0, T \cup {t})
    <3>1. Tagged(g) /\ g.confirmation_tag \in T \cup {t}
      BY <1>4, Zenon DEF TaggedIn
    <3>2. derive(g.epoch_secret, "init") = InitSecret(SenderState(g.context, g.epoch_secret), p)
      BY <1>2, SenderStateFields, Zenon DEF InitSecret
    <3>3. t = NewEpoch(g, p, derive(g.epoch_secret, "init"), secret).group.confirmation_tag
      BY <1>1, Zenon
    <3>4. m0.kind = "commit" /\ MadeFrom(m0, T \cup {t})
      <4>1. PICK U, init : U = T \cup {t} /\ init = derive(g.epoch_secret, "init")
        BY Zenon
      <4>. HIDE DEF t
      <4>2. LET m == CommitMessage(g, p, NewEpoch(g, p, init, secret).group.confirmation_tag)
            IN  m.kind = "commit" /\ MadeFrom(m, U)
        BY <3>1, <3>2, <4>1, CommitMadeFrom
      <4>. QED BY <2>1, <3>3, <4>1, <4>2, Zenon
    <3>5. m0.confirmation_tag = t
      BY <2>1, Zenon DEF CommitMessage
    <3>. QED BY <3>4, <3>5, Zenon DEF SentIn
  <2>3. ASSUME NEW m \in Welcomes(p, p.psks, secret, new)
        PROVE  m.kind = "welcome" /\ m.confirmation_tag = t
    BY <2>3 DEF Welcomes
  <2>4. \A m \in Welcomes(p, p.psks, secret, new) : SentIn(m, T \cup {t})
    BY <2>3, Zenon DEF SentIn
  <2>. QED BY <1>1, <2>1, <2>2, <2>4, Zenon
<1>. HIDE DEF next
<1>7. OneTagEach(T \cup {t}, made')
  BY <1>3, <1>4, <1>5, FreshTag
<1>8. TaggedIn(h, T \cup {t})
  <2>1. /\ DOMAIN h = Fields /\ h.context = g.context /\ h.epoch_secret = g.epoch_secret
        /\ h.confirmation_tag = g.confirmation_tag /\ h.pending_commit = {next}
        /\ h.interim_transcript_hash = g.interim_transcript_hash
    BY <1>4, Zenon DEF TaggedIn, Tagged, Fields
  <2>. HIDE DEF h
  <2>. QED
    BY <1>3, <1>4, <2>1, Zenon DEF TaggedIn, Tagged
<1>9. group' = [group EXCEPT ![c][i] = {h}]
  BY <1>1, Zenon DEF next
<1>. HIDE DEF h, t
<1>10. PICK U : U = T \cup {t}
  BY Zenon
<1>11. OneTagEach(U, made') /\ T \subseteq U /\ \A m \in net' : m \in net \/ SentIn(m, U)
  BY <1>6, <1>7, <1>10, Zenon
<1>12. PICK S : S = {h}
  BY Zenon
<1>13. /\ GroupsAreFunctions /\ \A k \in S : TaggedIn(k, U)
       /\ group' = [group EXCEPT ![c][i] = S]
  BY <1>8, <1>9, <1>10, <1>12, Zenon DEF TagInv
<1>. QED
  BY <1>11, <1>13, GroupChanges, Zenon

\* A new group, or a commit of a client that joins: the client is in the new epoch
\* at once.
LEMMA NewGroupTags ==
    ASSUME TagInv, NEW c, NEW i, NEW g, NEW next, Tagged(next), next.pending_commit = {},
           made' \in Nat, made' > made, TagId(next.confirmation_tag) = made',
           group' = [group EXCEPT ![c][i] = {Advanced(g, next)}],
           \A m \in net' : m \in net \/ m.confirmation_tag = next.confirmation_tag,
           \A m \in net' : m \notin net /\ m.kind = "commit" => \A T : TagsAre(T) => MadeFrom(m, T)
    PROVE  TagInv'
<1>. PICK T : TagsAre(T)
  BY Zenon DEF TagInv
<1>. DEFINE t == next.confirmation_tag
<1>1. OneTagEach(T, made)
  BY Zenon DEF TagsAre
<1>2. OneTagEach(T \cup {t}, made')
  BY <1>1, FreshTag, Zenon
<1>3. TaggedIn(Advanced(g, next), T \cup {t})
  BY AdvancedTagged, Zenon DEF TaggedIn
<1>4. PICK U : U = T \cup {t}
  BY Zenon
<1>5. OneTagEach(U, made') /\ T \subseteq U /\ \A m \in net' : m \in net \/ SentIn(m, U)
  <2>1. ASSUME NEW m \in net', m \notin net PROVE SentIn(m, U)
    <3>1. m.kind = "commit" => MadeFrom(m, T)
      BY <2>1, Zenon
    <3>2. MadeFrom(m, T) => MadeFrom(m, U)
      BY <1>4, Zenon DEF MadeFrom
    <3>. QED BY <1>4, <2>1, <3>1, <3>2, Zenon DEF SentIn
  <2>. QED BY <1>2, <1>4, <2>1, Zenon
<1>6. GroupsAreFunctions /\ \A k \in {Advanced(g, next)} : TaggedIn(k, U)
  BY <1>3, <1>4, Zenon DEF TagInv
<1>. QED
  BY <1>5, <1>6, GroupChanges, Zenon

\* What ExternalCommitBuilder::build does with the Group h of another client.
ExternalStep(c, i, h, g, p, secret, pub, next) ==
    /\ pub = ExternalPub(h.epoch_secret)
    /\ g = GroupOf(h.context, h.confirmation_tag, EmptyPathSecret)
    /\ p.id = made + 1 /\ p.external = {KemOutput(pub, made + 1)} /\ p.by = c /\ p.path
    /\ next = NewEpoch(g, p, encode_for_external(pub, made + 1), secret).group
    /\ group' = [group EXCEPT ![c][i] = {Advanced(g, next)}]
    /\ net' = net \cup {CommitMessage(g, p, next.confirmation_tag)}

LEMMA ExternalCommitSteps ==
    ASSUME NEW c, NEW d, NEW i, ExternalCommit(c, d, i)
    PROVE  \E h \in group[d][i] : \E g, p, secret, pub, next :
              ExternalStep(c, i, h, g, p, secret, pub, next)
<1>1. PICK h \in group[d][i] :
        LET n == made + 1
            g == GroupOf(h.context, h.confirmation_tag, EmptyPathSecret)
            pub == ExternalPub(h.epoch_secret)
        IN  \E psks : \E secret : \E removes :
            \E p \in {Commit(n, c, {}, removes, psks, FALSE, TRUE, {KemOutput(pub, n)})} :
            \E new \in {NewEpoch(g, p, encode_for_external(pub, n), secret)} :
              /\ group' = [group EXCEPT ![c][i] = {Advanced(g, new.group)}]
              /\ net' = net \cup {CommitMessage(g, p, new.group.confirmation_tag)}
  BY Zenon DEF ExternalCommit
<1>. DEFINE g == GroupOf(h.context, h.confirmation_tag, EmptyPathSecret)
            pub == ExternalPub(h.epoch_secret)
<1>2. PICK secret, psks, removes :
            \E p \in {Commit(made + 1, c, {}, removes, psks, FALSE, TRUE, {KemOutput(pub, made + 1)})} :
            \E new \in {NewEpoch(g, p, encode_for_external(pub, made + 1), secret)} :
              /\ group' = [group EXCEPT ![c][i] = {Advanced(g, new.group)}]
              /\ net' = net \cup {CommitMessage(g, p, new.group.confirmation_tag)}
  BY <1>1, Zenon
<1>0. h \in group[d][i] /\ pub = ExternalPub(h.epoch_secret)
      /\ g = GroupOf(h.context, h.confirmation_tag, EmptyPathSecret)
  BY Zenon
<1>. HIDE DEF g, pub
<1>. DEFINE p == Commit(made + 1, c, {}, removes, psks, FALSE, TRUE, {KemOutput(pub, made + 1)})
            next == NewEpoch(g, p, encode_for_external(pub, made + 1), secret).group
<1>3. p.id = made + 1 /\ p.external = {KemOutput(pub, made + 1)} /\ p.by = c /\ p.path
  BY Zenon DEF Commit
<1>4. /\ group' = [group EXCEPT ![c][i] = {Advanced(g, next)}]
      /\ net' = net \cup {CommitMessage(g, p, next.confirmation_tag)}
  BY <1>2, Zenon
<1>5. next = NewEpoch(g, p, encode_for_external(pub, made + 1), secret).group
  BY Zenon
<1>. HIDE DEF p, next
<1>6. ExternalStep(c, i, h, g, p, secret, pub, next)
  BY <1>0, <1>3, <1>4, <1>5, Zenon DEF ExternalStep
<1>. QED
  BY <1>6, Zenon

LEMMA ExternalCommitTags ==
    ASSUME TagInv, NEW c, NEW d \in Clients, NEW i \in GroupIds, ExternalCommit(c, d, i)
    PROVE  TagInv'
<1>0. PICK h, g, p, secret, pub, next :
        h \in group[d][i] /\ ExternalStep(c, i, h, g, p, secret, pub, next)
  BY ExternalCommitSteps, Zenon
<1>1. /\ pub = ExternalPub(h.epoch_secret)
      /\ g = GroupOf(h.context, h.confirmation_tag, EmptyPathSecret)
      /\ p.id = made + 1 /\ p.external = {KemOutput(pub, made + 1)}
      /\ next = NewEpoch(g, p, encode_for_external(pub, made + 1), secret).group
      /\ group' = [group EXCEPT ![c][i] = {Advanced(g, next)}]
      /\ net' = net \cup {CommitMessage(g, p, next.confirmation_tag)}
  BY <1>0, Zenon DEF ExternalStep
<1>2. Tagged(next) /\ next.pending_commit = {} /\ TagId(next.confirmation_tag) = made + 1
  BY <1>1, NewEpochTagged, Zenon
<1>3. made' = made + 1 /\ made \in Nat
  BY Zenon DEF ExternalCommit, TagInv, TagsAre, OneTagEach
<1>4. \A m \in net' : m \in net \/ m.confirmation_tag = next.confirmation_tag
  BY <1>1 DEF CommitMessage
<1>5. made' \in Nat /\ made' > made /\ TagId(next.confirmation_tag) = made'
  BY <1>2, <1>3
<1>6. ASSUME NEW T, TagsAre(T)
      PROVE  MadeFrom(CommitMessage(g, p, next.confirmation_tag), T)
  <2>1. Tagged(h) /\ h.confirmation_tag \in T
    BY <1>0, <1>6, Zenon DEF TagsAre, TaggedIn
  <2>2. g.context = h.context /\ g.interim_transcript_hash = h.interim_transcript_hash
    BY <1>1, <2>1, GroupOfFields DEF Tagged
  <2>3. encode_for_external(pub, made + 1) = InitSecret(SenderState(h.context, h.epoch_secret), p)
    <3>1. p.external # {} /\ (CHOOSE k \in p.external : TRUE) = KemOutput(pub, made + 1)
      BY <1>1, Zenon
    <3>2. KemOutput(pub, made + 1)[1] = made + 1
      BY Zenon DEF KemOutput
    <3>. QED BY <1>1, <3>1, <3>2, SenderStateFields DEF InitSecret, derive_for_external
  <2>. QED BY <1>1, <2>1, <2>2, <2>3, CommitMadeFrom, Zenon
<1>7. \A m \in net' : m \notin net /\ m.kind = "commit" => \A T : TagsAre(T) => MadeFrom(m, T)
  BY <1>1, <1>6, Zenon
<1>. QED
  BY <1>1, <1>2, <1>4, <1>5, <1>7, NewGroupTags, Zenon

LEMMA ResumptionTags ==
    ASSUME TagInv, NEW c, NEW i, NEW g, NEW usage, NEW kps,
           resumption_create_group(c, i, g, usage, kps)
    PROVE  TagInv'
<1>1. PICK old, psk, p, new :
        /\ p = Commit(made + 2, c, kps, {}, <<>>, FALSE, c \in PathRequired, {})
        /\ new = NewEpoch(old, p, derive(old.epoch_secret, "init"), <<psk>>)
        /\ group' = [group EXCEPT ![c][i] = {Advanced(old, new.group)}]
        /\ net' = net \cup Welcomes(p, <<psk[1]>>, <<psk>>, new)
        /\ made' = made + 2
  BY Zenon DEF resumption_create_group
<1>. DEFINE next == new.group
<1>2. p.id = made + 2
  BY <1>1, Zenon DEF Commit
<1>3. Tagged(next) /\ next.pending_commit = {} /\ TagId(next.confirmation_tag) = made + 2
  BY <1>1, <1>2, NewEpochTagged, Zenon
<1>4. made \in Nat
  BY Zenon DEF TagInv, TagsAre, OneTagEach
<1>5. \A m \in net' : m \in net \/ m.confirmation_tag = next.confirmation_tag
  <2>1. ASSUME NEW m \in Welcomes(p, <<psk[1]>>, <<psk>>, new)
        PROVE  m.confirmation_tag = next.confirmation_tag
    BY DEF Welcomes
  <2>. QED
    BY <1>1, <2>1, Zenon
<1>8. \A m \in net' : m \notin net => m.kind # "commit"
  <2>1. ASSUME NEW m \in Welcomes(p, <<psk[1]>>, <<psk>>, new)
        PROVE  m.kind # "commit"
    BY DEF Welcomes
  <2>. QED
    BY <1>1, <2>1, Zenon
<1>6. made' = made + 2 /\ group' = [group EXCEPT ![c][i] = {Advanced(old, next)}]
  BY <1>1, Zenon
<1>. HIDE DEF next
<1>7. made' \in Nat /\ made' > made /\ TagId(next.confirmation_tag) = made'
  BY <1>3, <1>4, <1>6
<1>. QED
  BY <1>3, <1>5, <1>6, <1>7, <1>8, NewGroupTags, Zenon

\* A step that makes no tag.
LEMMA KeepsTags ==
    ASSUME TagInv, NEW c, NEW i, NEW S, group' = [group EXCEPT ![c][i] = S],
           UNCHANGED <<net, made>>,
           \A T : TagsAre(T) => \A g \in S : TaggedIn(g, T)
    PROVE  TagInv'
<1>. PICK T : TagsAre(T)
  BY Zenon DEF TagInv
<1>1. OneTagEach(T, made') /\ T \subseteq T /\ GroupsAreFunctions /\ \A m \in net' : m \in net
  BY Zenon DEF TagInv, TagsAre
<1>. QED
  BY <1>1, GroupChanges, Zenon

LEMMA ApplyPendingTags ==
    ASSUME TagInv, NEW c \in Clients, NEW i \in GroupIds, ApplyPending(c, i)
    PROVE  TagInv'
<1>1. PICK g \in group[c][i] : \E next \in g.pending_commit :
            group' = [group EXCEPT ![c][i] = {Advanced(g, next)}]
  BY Zenon DEF ApplyPending
<1>2. PICK next \in g.pending_commit : group' = [group EXCEPT ![c][i] = {Advanced(g, next)}]
  BY <1>1, Zenon
<1>3. ASSUME NEW T, TagsAre(T)
      PROVE  \A k \in {Advanced(g, next)} : TaggedIn(k, T)
  <2>1. Tagged(next) /\ next.confirmation_tag \in T /\ next.pending_commit = {}
    BY <1>3, Zenon DEF TagsAre, TaggedIn
  <2>. QED
    BY <2>1, AdvancedTagged, Zenon DEF TaggedIn
<1>4. UNCHANGED <<net, made>>
  BY Zenon DEF ApplyPending
<1>. QED
  BY <1>2, <1>3, <1>4, KeepsTags, Zenon

LEMMA ClearPendingTags ==
    ASSUME TagInv, NEW c \in Clients, NEW i \in GroupIds, ClearPending(c, i)
    PROVE  TagInv'
<1>1. PICK g \in group[c][i] :
            group' = [group EXCEPT ![c][i] = {[g EXCEPT !.pending_commit = {}]}]
  BY Zenon DEF ClearPending
<1>. DEFINE h == [g EXCEPT !.pending_commit = {}]
<1>0. group' = [group EXCEPT ![c][i] = {h}]
  BY <1>1, Zenon
<1>2. ASSUME NEW T, TagsAre(T)
      PROVE  \A k \in {h} : TaggedIn(k, T)
  <2>1. Tagged(g) /\ g.confirmation_tag \in T
    BY <1>2, Zenon DEF TagsAre, TaggedIn
  <2>2. /\ DOMAIN h = Fields /\ h.context = g.context /\ h.epoch_secret = g.epoch_secret
        /\ h.confirmation_tag = g.confirmation_tag /\ h.pending_commit = {}
        /\ h.interim_transcript_hash = g.interim_transcript_hash
    BY <2>1, Zenon DEF Tagged, Fields
  <2>. HIDE DEF h
  <2>. QED
    BY <2>1, <2>2, Zenon DEF TaggedIn, Tagged
<1>3. UNCHANGED <<net, made>>
  BY Zenon DEF ClearPending
<1>. HIDE DEF h
<1>. QED
  BY <1>0, <1>2, <1>3, KeepsTags, Zenon

LEMMA ProcessTags ==
    ASSUME TagInv, NEW c \in Clients, NEW i \in GroupIds, NEW m \in net, Process(c, i, m)
    PROVE  TagInv'
<1>1. PICK g \in group[c][i] :
            \E h \in process_commit(c, g, m) : group' = [group EXCEPT ![c][i] = {h}]
  BY Zenon DEF Process
<1>. PICK h \in process_commit(c, g, m) : group' = [group EXCEPT ![c][i] = {h}]
  BY <1>1, Zenon
<1>2. ASSUME NEW T, TagsAre(T)
      PROVE  \A k \in {h} : TaggedIn(k, T)
  BY <1>2, ProcessCommitTagged, Zenon DEF TagsAre, SentIn
<1>3. UNCHANGED <<net, made>>
  BY Zenon DEF Process
<1>. QED
  BY <1>1, <1>2, <1>3, KeepsTags, Zenon

LEMMA JoinsTags ==
    ASSUME TagInv, NEW c, NEW w \in net, NEW additional, Joins(c, w, additional)
    PROVE  TagInv'
<1>1. PICK g \in from_welcome_message(c, w, additional) :
            group' = [group EXCEPT ![c][g.context.group_id] = {g}]
  BY Zenon DEF Joins
<1>2. ASSUME NEW T, TagsAre(T)
      PROVE  \A k \in {g} : TaggedIn(k, T)
  BY <1>2, WelcomeTagged, Zenon DEF TagsAre, SentIn
<1>3. UNCHANGED <<net, made>>
  BY Zenon DEF Joins
<1>. QED
  BY <1>1, <1>2, <1>3, KeepsTags, Zenon

LEMMA NextTagInv ==
    ASSUME TagInv, [Next]_vars
    PROVE  TagInv'
<1>1. CASE UNCHANGED vars
  <2>1. UNCHANGED <<group, net, made>>
    BY <1>1, Zenon DEF vars
  <2>. QED
    BY <2>1, Zenon DEF TagInv, TagsAre, GroupsAreFunctions, GroupIds
<1>2. CASE Next
  <2>1. MainGroup \in GroupIds /\ SubGroup \in GroupIds /\ NextGroup \in GroupIds
    BY Zenon DEF GroupIds
  <2>2. PICK c \in Clients :
            \/ Build(c, MainGroup) \/ ApplyPending(c, MainGroup) \/ ClearPending(c, MainGroup)
            \/ \E m \in net : Process(c, MainGroup, m)
            \/ \E d \in Clients : ExternalCommit(c, d, MainGroup)
            \/ Branch(c) \/ ReinitCommit(c)
            \/ \E w \in net : Join(c, w) \/ JoinSubgroup(c, w) \/ ReinitJoin(c, w)
    BY <1>2, Zenon DEF Next
  <2>3. CASE Build(c, MainGroup) \/ ApplyPending(c, MainGroup) \/ ClearPending(c, MainGroup)
    BY <2>1, <2>3, BuildTags, ApplyPendingTags, ClearPendingTags, Zenon
  <2>4. CASE \E m \in net : Process(c, MainGroup, m)
    BY <2>1, <2>4, ProcessTags, Zenon
  <2>5. CASE \E d \in Clients : ExternalCommit(c, d, MainGroup)
    BY <2>1, <2>5, ExternalCommitTags, Zenon
  <2>6. CASE Branch(c) \/ ReinitCommit(c)
    BY <2>6, ResumptionTags, Zenon DEF Branch, ReinitCommit
  <2>7. CASE \E w \in net : Join(c, w) \/ JoinSubgroup(c, w) \/ ReinitJoin(c, w)
    BY <2>7, JoinsTags, Zenon DEF Join, JoinSubgroup, ReinitJoin
  <2>. QED
    BY <2>2, <2>3, <2>4, <2>5, <2>6, <2>7, Zenon
<1>. QED
  BY <1>1, <1>2, Zenon

\* Two Groups in the same context have the same transcript, so tags with the same
\* number, so the same tag and the same epoch secret.
LEMMA TagsMakeSecretsAgree ==
    ASSUME TagInv
    PROVE  SecretsAgree
<1>. PICK T : TagsAre(T)
  BY Zenon DEF TagInv
<1>1. ASSUME NEW i \in GroupIds, NEW g \in States(i)
      PROVE  Tagged(g) /\ g.confirmation_tag \in T
  <2>1. PICK c \in Clients : g \in group[c][i] \cup UNION {h.pending_commit : h \in group[c][i]}
    BY <1>1, Zenon DEF States
  <2>2. \A h \in group[c][i] : TaggedIn(h, T)
    BY Zenon DEF TagsAre
  <2>. QED
    BY <2>1, <2>2, Zenon DEF TaggedIn
<1>2. ASSUME NEW i \in GroupIds, NEW g \in States(i), NEW h \in States(i), g.context = h.context
      PROVE  g.epoch_secret = h.epoch_secret
  <2>. DEFINE transcript == g.context.confirmed_transcript_hash
  <2>1. /\ g.confirmation_tag = ConfirmationTag(g.epoch_secret, transcript)
        /\ h.confirmation_tag = ConfirmationTag(h.epoch_secret, transcript)
        /\ g.confirmation_tag \in T /\ h.confirmation_tag \in T
    BY <1>1, <1>2, Zenon DEF Tagged
  <2>2. TagId(g.confirmation_tag) = TagId(h.confirmation_tag)
    BY <2>1 DEF TagId, ConfirmationTag
  <2>3. g.confirmation_tag = h.confirmation_tag
    BY <2>1, <2>2, Zenon DEF TagsAre, OneTagEach
  <2>. HIDE DEF transcript
  <2>4. ConfirmationTag(g.epoch_secret, transcript) = ConfirmationTag(h.epoch_secret, transcript)
    BY <2>1, <2>3, Zenon
  <2>. QED
    BY <2>4, TagParts, Zenon
<1>. QED
  BY <1>2, Zenon DEF SecretsAgree

\* Clients in the same context share the epoch secret, whether they came there by
\* apply_pending_commit, process_commit, from_welcome_message or an external commit,
\* whatever pre-shared keys they hold and however the group has forked.
THEOREM SecretsTheorem == Spec => []SecretsAgree
<1>1. Init => TagInv
  BY InitTagInv, Zenon
<1>2. TagInv /\ [Next]_vars => TagInv'
  BY NextTagInv, Zenon
<1>3. TagInv => SecretsAgree
  BY TagsMakeSecretsAgree, Zenon
<1>. QED
  BY <1>1, <1>2, <1>3, PTL DEF Spec

-----------------------------------------------------------------------------
(* A commit is followed.  The sender's state is gone when the message      *)
(* arrives, but its tag is among the tags, and there is one tag for the    *)
(* transcript that sender and receiver share.                              *)

\* The psk secret can be read off a tag.
LEMMA PskOfTag ==
    ASSUME NEW joiner, NEW context, NEW secret, NEW confirmed
    PROVE  PskSecretOf(ConfirmationTag(from_joiner(joiner, context, secret), confirmed)) = secret
BY Zenon DEF PskSecretOf, ConfirmationTag, derive, from_joiner

\* What commit_internal and update_key_schedule make
LEMMA NewEpochShape ==
    ASSUME NEW g, NEW c, NEW init_secret, NEW secret
    PROVE  LET new == NewEpoch(g, c, init_secret, secret)
               s == from_joiner(new.joiner_secret, new.group.context, secret)
           IN  /\ new.group.context = ContextAfter(g, c) /\ new.group.epoch_secret = s
               /\ new.group.confirmation_tag =
                    ConfirmationTag(s, new.group.context.confirmed_transcript_hash)
               /\ PskSecretOf(new.group.confirmation_tag) = secret
<1>. DEFINE context == ContextAfter(g, c)
            joiner == JoinerSecret(init_secret, CommitSecret(c), context)
            s == from_joiner(joiner, context, secret)
            tag == ConfirmationTag(s, context.confirmed_transcript_hash)
            old == GroupOf(context, tag, s)
            next == [old EXCEPT !.pending_reinit = c.reinit]
            new == NewEpoch(g, c, init_secret, secret)
<1>1. new.joiner_secret = joiner /\ new.group = next
  BY Zenon DEF NewEpoch
<1>2. /\ DOMAIN old = Fields /\ old.context = context /\ old.confirmation_tag = tag
      /\ old.epoch_secret = s
  BY GroupOfFields
<1>3. PskSecretOf(tag) = secret
  BY PskOfTag
<1>. HIDE DEF context, joiner, tag, old, new
<1>4. next.context = context /\ next.confirmation_tag = tag /\ next.epoch_secret = s
  BY <1>2, Zenon DEF Fields
<1>. HIDE DEF s, next
<1>5. new.group.context = context /\ new.group.confirmation_tag = tag /\ new.group.epoch_secret = s
  BY <1>1, <1>4, Zenon
<1>6. s = from_joiner(new.joiner_secret, new.group.context, secret)
  BY <1>1, <1>5, Zenon DEF s
<1>7. tag = ConfirmationTag(s, new.group.context.confirmed_transcript_hash)
  BY <1>5, Zenon DEF tag
<1>. QED BY <1>3, <1>5, <1>6, <1>7, Zenon DEF new, context

\* Two tags for one transcript
LEMMA OneSecret ==
    ASSUME NEW T, NEW n, OneTagEach(T, n), NEW s, NEW t, NEW transcript,
           ConfirmationTag(s, transcript) \in T, ConfirmationTag(t, transcript) \in T
    PROVE  s = t
<1>1. TagId(ConfirmationTag(s, transcript)) = TagId(ConfirmationTag(t, transcript))
  BY Zenon DEF TagId, ConfirmationTag
<1>2. ConfirmationTag(s, transcript) = ConfirmationTag(t, transcript)
  BY <1>1, Zenon DEF OneTagEach
<1>. QED BY <1>2, TagParts, Zenon

LEMMA TagsMakeFollowed ==
    ASSUME TagInv
    PROVE  CommitIsFollowed
<1>. PICK T : TagsAre(T)
  BY DEF TagInv
<1>. SUFFICES ASSUME NEW c \in Clients, NEW i \in GroupIds, NEW g \in group[c][i], NEW m \in net,
                     m.kind = "commit", Authentic(g, m), g.pending_commit = {}, ~g.pending_reinit,
                     c \notin m.commit.remove, c # m.commit.by,
                     resolve_to_secret(c, {g}, m.commit.psks) = {PskSecretOf(m.confirmation_tag)},
                     m.commit.path => g.private_tree \subseteq {m.commit.id}
              PROVE  \A h \in process_commit(c, g, m) : h.confirmation_tag = m.confirmation_tag
  BY Zenon DEF CommitIsFollowed
<1>1. Tagged(g) /\ g.confirmation_tag \in T
  BY Zenon DEF TagsAre, TaggedIn
<1>2. MadeFrom(m, T) /\ OneTagEach(T, made)
  BY Zenon DEF TagsAre, SentIn
<1>3. PICK s, secret :
        /\ SenderState(m.signed_context, s).confirmation_tag \in T
        /\ m.confirmation_tag =
            NewEpoch(SenderState(m.signed_context, s), m.commit,
                     InitSecret(SenderState(m.signed_context, s), m.commit), secret
                    ).group.confirmation_tag
  BY <1>2, Zenon DEF MadeFrom
<1>. DEFINE k == SenderState(m.signed_context, s)
            init == InitSecret(g, m.commit)
            new == NewEpoch(g, m.commit, init, secret).group
            next == Derived(g, m, secret)
<1>4. m.signed_context = g.context
  BY Zenon DEF Authentic
<1>5. /\ k.context = g.context /\ k.epoch_secret = s /\ k.pending_commit = {}
      /\ k.confirmation_tag = ConfirmationTag(s, g.context.confirmed_transcript_hash)
      /\ k.interim_transcript_hash =
            InterimTranscriptHash(g.context.confirmed_transcript_hash, k.confirmation_tag)
  BY <1>4, SenderStateFields
<1>6. s = g.epoch_secret
  <2>1. ConfirmationTag(s, g.context.confirmed_transcript_hash) \in T
    BY <1>3, <1>5, Zenon
  <2>2. ConfirmationTag(g.epoch_secret, g.context.confirmed_transcript_hash) \in T
    BY <1>1, Zenon DEF Tagged
  <2>. QED BY <1>2, <2>1, <2>2, OneSecret, Zenon
<1>7. k.interim_transcript_hash = g.interim_transcript_hash /\ InitSecret(k, m.commit) = init
  BY <1>1, <1>5, <1>6 DEF Tagged, InitSecret
<1>8. m.confirmation_tag = new.confirmation_tag
  <2>. HIDE DEF k, init
  <2>1. NewEpoch(k, m.commit, init, secret) = NewEpoch(g, m.commit, init, secret)
    BY <1>5, <1>7, SameNewEpoch
  <2>2. m.confirmation_tag = NewEpoch(k, m.commit, init, secret).group.confirmation_tag
    BY <1>3, <1>7, Zenon DEF k
  <2>. QED BY <2>1, <2>2, Zenon
<1>9. PskSecretOf(m.confirmation_tag) = secret
  BY <1>3, NewEpochShape
<1>10. /\ Tagged(next) /\ next.pending_commit = {}
       /\ next.confirmation_tag = m.confirmation_tag
  <2>. HIDE DEF next
  <2>1. /\ Tagged(next) /\ next.pending_commit = {}
        /\ next.confirmation_tag = new.confirmation_tag
    BY DerivedTagged DEF next
  <2>. QED BY <1>8, <2>1, Zenon
<1>11. HasExternalPsks(c, m.commit.psks)
  <2>1. \A j \in 1 .. Len(m.commit.psks) : resolve(c, {g}, m.commit.psks[j]) # {}
    BY Zenon DEF resolve_to_secret
  <2>. QED BY <2>1, Zenon DEF HasExternalPsks, resolve
<1>12. decap(g, m.commit) = {TRUE}
  BY Zenon DEF decap
<1>13. process_commit(c, g, m) = {Advanced(g, next)}
  <2>1. {WithPrivateTree(NewEpoch(g, m.commit, InitSecret(g, m.commit), x).group,
                         g.private_tree \ {m.commit.id}) :
            x \in resolve_to_secret(c, {g}, m.commit.psks)} = {next}
    BY <1>9, Zenon DEF Derived
  <2>2. Confirmed(next, m)
    BY <1>10, Zenon DEF Confirmed
  <2>. HIDE DEF next
  <2>3. {Advanced(g, n) : n \in {n \in {next} : Confirmed(n, m)}} = {Advanced(g, next)}
    BY <2>2, Zenon
  <2>. QED BY <1>11, <1>12, <2>1, <2>3, Zenon DEF process_commit
<1>. HIDE DEF next
<1>14. Advanced(g, next).confirmation_tag = next.confirmation_tag
  BY <1>10, AdvancedTagged, Zenon
<1>. QED BY <1>10, <1>13, <1>14, Zenon

\* A client in the context that a commit was made in, with nothing pending, with the
\* same pre-shared keys and with no key of another refused path in its private tree,
\* ends process_commit with the tag of the commit, so with the context and the
\* secrets of the sender, however far the sender has gone since.  That it refused
\* this commit before, keeping its path, is no obstacle.
THEOREM FollowedTheorem == Spec => []CommitIsFollowed
<1>1. Init => TagInv
  BY InitTagInv
<1>2. TagInv /\ [Next]_vars => TagInv'
  BY NextTagInv
<1>3. TagInv => CommitIsFollowed
  BY TagsMakeFollowed
<1>. QED
  BY <1>1, <1>2, <1>3, PTL DEF Spec

-----------------------------------------------------------------------------
(* Welcomes open, and only for those who share the origin of a group.  A   *)
(* client is in the tree of each of its Groups and pending commits; its    *)
(* epoch secret names the context and the pre-shared keys it was derived   *)
(* from; and a welcome carries what its receiver derives again.            *)

FromJoiner(s, context) == s = from_joiner(s[2], context, s[3])

\* The one pre-shared key in epoch secret s comes from an epoch that c was in.
Origin(c, s) == Len(s[3]) = 1 /\ c \in MembersBehind(s[3][1])

In(c, i, g) ==
    /\ g.context.group_id = i /\ c \in DOMAIN g.context.tree
    /\ FromJoiner(g.epoch_secret, g.context)
    /\ i # MainGroup => Origin(c, g.epoch_secret)

Home(c, i, g) == In(c, i, g) /\ \A p \in g.pending_commit : In(c, i, p)

\* The pre-shared keys of a psk secret are the ones with the identifiers psks.
Identified(secret, psks) ==
    /\ Len(secret) = Len(psks) /\ secret = [k \in 1 .. Len(psks) |-> secret[k]]
    /\ \A k \in 1 .. Len(psks) : secret[k][1] = psks[k]

ResumptionOnly(psks) == Len(psks) = 1 /\ psks[1][1] = "resumption"

\* What a welcome holds, in terms of the psk secret its sender used.
Opening(w, used) ==
    /\ w.key = WelcomeSecret(w.joiner_secret, used)
    /\ w.confirmation_tag =
          ConfirmationTag(from_joiner(w.joiner_secret, w.context, used),
                          w.context.confirmed_transcript_hash)
    /\ Identified(used, w.psks)
    /\ w.signer \in DOMAIN w.context.tree /\ w.new_member[1] \in DOMAIN w.context.tree
    /\ w.context.tree[w.new_member[1]] = <<"key package", w.new_member[2]>>
    /\ w.context.group_id \in GroupIds
    /\ w.context.group_id # MainGroup => ResumptionOnly(w.psks)

HomeInv ==
    /\ \A c \in Clients, i \in GroupIds : \A g \in group[c][i] : Home(c, i, g)
    /\ \A w \in net : w.kind = "welcome" => \E used : Opening(w, used)
    /\ DOMAIN key_packages = Clients
    /\ \A c \in Clients : key_packages[c] \subseteq {kp \in KeyPackages : kp[1] = c}

-----------------------------------------------------------------------------

LEMMA JoinerParts ==
    ASSUME NEW joiner, NEW context, NEW secret
    PROVE  LET s == from_joiner(joiner, context, secret)
           IN  s[1] = "epoch" /\ s[2] = joiner /\ s[3] = secret /\ s[4] = context
               /\ FromJoiner(s, context)
BY Zenon DEF from_joiner, FromJoiner

\* The new epoch of a commit, for a client that the commit leaves in the tree
LEMMA NewEpochIn ==
    ASSUME NEW g, NEW p, NEW init, NEW secret, NEW c, NEW i, g.context.group_id = i,
           c \in DOMAIN TreeAfter(g.context.tree, p),
           i # MainGroup => Len(secret) = 1 /\ c \in MembersBehind(secret[1])
    PROVE  LET new == NewEpoch(g, p, init, secret)
           IN  In(c, i, new.group) /\ new.group.context.tree = TreeAfter(g.context.tree, p)
<1>. DEFINE new == NewEpoch(g, p, init, secret)
            h == new.group
            s == from_joiner(new.joiner_secret, h.context, secret)
<1>1. h.context = ContextAfter(g, p) /\ h.epoch_secret = s
  BY NewEpochShape
<1>2. /\ ContextAfter(g, p).group_id = i
      /\ ContextAfter(g, p).tree = TreeAfter(g.context.tree, p)
  BY Zenon DEF ContextAfter, Context
<1>3. s[3] = secret /\ FromJoiner(s, h.context)
  BY JoinerParts
<1>. HIDE DEF h, s
<1>4. In(c, i, h)
  BY <1>1, <1>2, <1>3, Zenon DEF In, Origin
<1>. QED BY <1>1, <1>2, <1>4, Zenon DEF h

LEMMA AdvancedIn ==
    ASSUME NEW g, NEW next, Tagged(next), next.pending_commit = {}, NEW c, NEW i, In(c, i, next)
    PROVE  Home(c, i, Advanced(g, next))
<1>. DEFINE h == Advanced(g, next)
<1>1. h.context = next.context /\ h.epoch_secret = next.epoch_secret /\ h.pending_commit = {}
  BY Zenon DEF Advanced, Tagged, Fields
<1>. HIDE DEF h
<1>2. Home(c, i, h)
  BY <1>1, Zenon DEF Home, In
<1>. QED BY <1>2, Zenon DEF h

\* A Group whose context and epoch secret stay
LEMMA SameHome ==
    ASSUME NEW g, NEW h, NEW c, NEW i, In(c, i, g), h.context = g.context,
           h.epoch_secret = g.epoch_secret, \A p \in h.pending_commit : In(c, i, p)
    PROVE  Home(c, i, h)
BY Zenon DEF Home, In

\* The leaf that a new member has after the commit that adds it
LEMMA AddedLeaf ==
    ASSUME NEW tree, NEW p, p.add \subseteq KeyPackages, OnePerClient(p.add),
           NEW kp \in p.add, kp[1] # p.by
    PROVE  /\ kp[1] \in DOMAIN TreeAfter(tree, p)
           /\ TreeAfter(tree, p)[kp[1]] = <<"key package", kp[2]>>
<1>1. \A k \in KeyPackages : k = <<k[1], k[2]>>
  BY SecretsAssumption
<1>2. kp[1] \in Owners(p.add)
  BY Zenon DEF Owners
<1>3. ASSUME NEW n \in {k[2] : k \in p.add}, <<kp[1], n>> \in p.add
      PROVE  n = kp[2]
  BY <1>3 DEF OnePerClient
<1>4. kp[2] \in {k[2] : k \in p.add} /\ <<kp[1], kp[2]>> \in p.add
  BY <1>1, Zenon
<1>5. (CHOOSE n \in {k[2] : k \in p.add} : <<kp[1], n>> \in p.add) = kp[2]
  BY <1>3, <1>4, Zenon
<1>6. kp[1] \in DOMAIN TreeAfter(tree, p)
  BY <1>2, Zenon DEF TreeAfter
<1>. QED BY <1>2, <1>5, <1>6, Zenon DEF TreeAfter

\* The welcomes of a commit open with what went into them.
LEMMA WelcomesOpening ==
    ASSUME NEW g, NEW p, NEW init, NEW secret, NEW psks, NEW new,
           new = NewEpoch(g, p, init, secret),
           p.by \in DOMAIN TreeAfter(g.context.tree, p),
           p.add \subseteq KeyPackages, OnePerClient(p.add), \A kp \in p.add : kp[1] # p.by,
           Identified(secret, psks), g.context.group_id \in GroupIds,
           g.context.group_id # MainGroup => ResumptionOnly(psks)
    PROVE  \A w \in Welcomes(p, psks, secret, new) : w.kind = "welcome" /\ Opening(w, secret)
<1>1. SUFFICES ASSUME NEW w \in Welcomes(p, psks, secret, new)
               PROVE  w.kind = "welcome" /\ Opening(w, secret)
  BY Zenon
<1>2. PICK kp \in p.add :
        w = [kind |-> "welcome", new_member |-> kp, joiner_secret |-> new.joiner_secret,
             psks |-> psks, key |-> WelcomeSecret(new.joiner_secret, secret),
             signer |-> p.by, context |-> new.group.context,
             confirmation_tag |-> new.group.confirmation_tag]
  BY <1>1, Zenon DEF Welcomes
<1>3. /\ w.kind = "welcome" /\ w.new_member = kp /\ w.joiner_secret = new.joiner_secret
      /\ w.psks = psks /\ w.key = WelcomeSecret(new.joiner_secret, secret)
      /\ w.signer = p.by /\ w.context = new.group.context
      /\ w.confirmation_tag = new.group.confirmation_tag
  BY <1>2, Zenon
<1>4. /\ new.group.context = ContextAfter(g, p)
      /\ new.group.confirmation_tag =
            ConfirmationTag(from_joiner(new.joiner_secret, new.group.context, secret),
                            new.group.context.confirmed_transcript_hash)
  BY NewEpochShape
<1>5. /\ w.context.tree = TreeAfter(g.context.tree, p)
      /\ w.context.group_id = g.context.group_id
  BY <1>3, <1>4 DEF ContextAfter, Context
<1>6. /\ kp[1] \in DOMAIN TreeAfter(g.context.tree, p)
      /\ TreeAfter(g.context.tree, p)[kp[1]] = <<"key package", kp[2]>>
  BY AddedLeaf, Zenon
<1>7. /\ w.confirmation_tag = ConfirmationTag(from_joiner(w.joiner_secret, w.context, secret),
                                              w.context.confirmed_transcript_hash)
  BY <1>3, <1>4, Zenon
<1>. QED BY <1>3, <1>5, <1>6, <1>7, Zenon DEF Opening

\* A step that gives one client another Group in one place
LEMMA HomeChanges ==
    ASSUME GroupsAreFunctions, HomeInv, NEW c, NEW i, NEW S,
           group' = [group EXCEPT ![c][i] = S], \A g \in S : Home(c, i, g),
           \A w \in net' : w \in net \/ (w.kind = "welcome" => \E used : Opening(w, used)),
           \/ key_packages' = key_packages
           \/ \E kp : key_packages' = [key_packages EXCEPT ![c] = @ \ {kp}]
    PROVE  HomeInv'
<1>1. ASSUME NEW d \in Clients, NEW j \in GroupIds, NEW g \in group'[d][j]
      PROVE  Home(d, j, g)
  <2>1. CASE d = c /\ j = i
    <3>1. group'[d][j] = S
      BY <2>1, Zenon DEF GroupsAreFunctions
    <3>. QED BY <1>1, <2>1, <3>1, Zenon
  <2>2. CASE ~(d = c /\ j = i)
    <3>1. group'[d][j] = group[d][j]
      BY <2>2, Zenon DEF GroupsAreFunctions
    <3>. QED BY <1>1, <3>1, Zenon DEF HomeInv
  <2>. QED BY <2>1, <2>2, Zenon
<1>2. \A w \in net' : w.kind = "welcome" => \E used : Opening(w, used)
  BY Zenon DEF HomeInv
<1>3. /\ DOMAIN key_packages' = Clients
      /\ \A d \in Clients : key_packages'[d] \subseteq {kp \in KeyPackages : kp[1] = d}
  <2>1. CASE key_packages' = key_packages
    BY <2>1, Zenon DEF HomeInv
  <2>2. CASE \E kp : key_packages' = [key_packages EXCEPT ![c] = @ \ {kp}]
    <3>1. PICK kp : key_packages' = [key_packages EXCEPT ![c] = @ \ {kp}]
      BY <2>2, Zenon
    <3>2. \A d \in Clients : key_packages'[d] \subseteq key_packages[d]
      BY <3>1, Zenon DEF HomeInv
    <3>. QED BY <3>1, <3>2, Zenon DEF HomeInv
  <2>. QED BY <2>1, <2>2, Zenon
<1>. QED BY <1>1, <1>2, <1>3, Zenon DEF HomeInv, GroupIds

-----------------------------------------------------------------------------

\* What resolve_to_secret returns: one pre-shared key for each identifier.
LEMMA Resolved ==
    ASSUME NEW c, NEW gs, NEW psks, Len(psks) \in Nat,
           NEW secret \in resolve_to_secret(c, gs, psks)
    PROVE  Identified(secret, psks) /\ \A k \in 1 .. Len(psks) : resolve(c, gs, psks[k]) # {}
<1>1. /\ secret = [k \in 1 .. Len(psks) |-> <<psks[k], CHOOSE x \in resolve(c, gs, psks[k]) : TRUE>>]
      /\ \A k \in 1 .. Len(psks) : resolve(c, gs, psks[k]) # {}
  BY Zenon DEF resolve_to_secret
<1>2. Len(secret) = Len(psks)
  BY <1>1
<1>3. \A k \in 1 .. Len(psks) : secret[k][1] = psks[k]
  BY <1>1, Zenon
<1>. QED BY <1>1, <1>2, <1>3 DEF Identified

LEMMA PskListLen ==
    ASSUME NEW c, NEW g, NEW n, NEW psks \in PskLists(c, g, n)
    PROVE  Len(psks) \in Nat
<1>1. CASE psks = <<>>
  BY <1>1, Zenon
<1>2. CASE \E x : psks = <<x>>
  BY <1>2
<1>3. CASE \E x, y : psks = <<x>> \o <<y>>
  <2>1. PICK x, y : psks = <<x>> \o <<y>>
    BY <1>3, Zenon
  <2>2. <<x>> \in Seq({x, y}) /\ <<y>> \in Seq({x, y})
    OBVIOUS
  <2>3. psks \in Seq({x, y})
    BY <2>1, <2>2
  <2>. QED BY <2>3
<1>4. \/ psks = <<>> \/ (\E x : psks = <<x>>)
      \/ \E x, y : psks = <<x>> \o <<y>>
  <2>. DEFINE E == {<<ExternalPskId(id, n)>> : id \in DOMAIN PskStore[c]}
              R == {<<ResumptionPskId("application", g.context.group_id, e, n)>> :
                        e \in 0 .. g.context.epoch}
  <2>1. psks \in {<<>>} \cup E \cup R \cup {x \o y : x \in E, y \in R}
    BY DEF PskLists
  <2>2. (\A z \in E : \E x : z = <<x>>) /\ (\A z \in R : \E x : z = <<x>>)
    BY Zenon
  <2>. HIDE DEF E, R
  <2>3. psks = <<>> \/ psks \in E \/ psks \in R \/ \E x \in E, y \in R : psks = x \o y
    BY <2>1
  <2>4. CASE \E x \in E, y \in R : psks = x \o y
    <3>1. PICK x \in E, y \in R : psks = x \o y
      BY <2>4, Zenon
    <3>2. PICK a, b : x = <<a>> /\ y = <<b>>
      BY <2>2, Zenon
    <3>. QED BY <3>1, <3>2, Zenon
  <2>5. CASE psks = <<>> \/ psks \in E \/ psks \in R
    BY <2>2, <2>5, Zenon
  <2>. QED BY <2>3, <2>4, <2>5, Zenon
<1>. QED BY <1>1, <1>2, <1>3, <1>4, Zenon

\* What a committer proposes: key packages of clients that are not in the tree, one
\* at most, and removals of others.
LEMMA Proposed ==
    ASSUME NEW c, NEW g, NEW n, NEW p \in Commits(c, g, n), c \in DOMAIN g.context.tree
    PROVE  /\ p.by = c /\ Len(p.psks) \in Nat
           /\ c \in DOMAIN TreeAfter(g.context.tree, p)
           /\ p.add \subseteq KeyPackages /\ OnePerClient(p.add)
           /\ \A kp \in p.add : kp[1] # c
<1>1. PICK q \in Proposals(c, g, n) :
        p = Commit(n, c, q.add, q.remove, q.psks, q.reinit,
                   c \in PathRequired \/ path_update_required(q), {})
  BY Zenon DEF Commits
<1>2. p.by = c /\ p.add = q.add /\ p.remove = q.remove /\ p.psks = q.psks
  BY <1>1, Zenon DEF Commit
<1>3. /\ q.add \in Additions(g) /\ q.remove \in Removals(c, g)
      /\ q.psks \in PskLists(c, g, n)
  <2>1. {} \in Additions(g) /\ {} \in Removals(c, g)
    BY Zenon DEF Additions, Removals
  <2>2. <<>> \in PskLists(c, g, n)
    BY DEF PskLists
  <2>3. CASE q \in {[add |-> add, remove |-> remove, psks |-> psks, reinit |-> FALSE, external |-> {}] :
                       add \in Additions(g), remove \in Removals(c, g), psks \in PskLists(c, g, n)}
    <3>1. PICK add \in Additions(g), remove \in Removals(c, g), psks \in PskLists(c, g, n) :
            q = [add |-> add, remove |-> remove, psks |-> psks, reinit |-> FALSE, external |-> {}]
      BY <2>3
    <3>. QED BY <3>1, Zenon
  <2>4. CASE q = [add |-> {}, remove |-> {}, psks |-> <<>>, reinit |-> TRUE, external |-> {}]
    BY <2>1, <2>2, <2>4, Zenon
  <2>. QED BY <2>3, <2>4 DEF Proposals
<1>4. Len(p.psks) \in Nat
  BY <1>2, <1>3, PskListLen, Zenon
<1>5. c \notin p.remove
  BY <1>2, <1>3, Zenon DEF Removals
<1>6. p.add \subseteq KeyPackages /\ OnePerClient(p.add) /\ \A kp \in p.add : kp[1] # c
  BY <1>2, <1>3 DEF Additions, OnePerClient
<1>7. c \in DOMAIN TreeAfter(g.context.tree, p)
  BY <1>5, Zenon DEF TreeAfter
<1>. QED BY <1>2, <1>4, <1>6, <1>7, Zenon

LEMMA BuildHome ==
    ASSUME TagInv, HomeInv, NEW c \in Clients, Build(c, MainGroup)
    PROVE  HomeInv'
<1>1. PICK g \in group[c][MainGroup] : \E p \in Commits(c, g, made + 1) :
           \E secret \in resolve_to_secret(c, {g}, p.psks) :
           \E new \in {NewEpoch(g, p, derive(g.epoch_secret, "init"), secret)} :
            /\ group' = [group EXCEPT ![c][MainGroup] =
                    {[g EXCEPT !.pending_commit = {WithPrivateTree(new.group, encap(g, p))}]}]
            /\ net' = net \cup {CommitMessage(g, p, new.group.confirmation_tag)}
                          \cup Welcomes(p, p.psks, secret, new)
  BY Zenon DEF Build
<1>2. PICK p \in Commits(c, g, made + 1) :
           \E secret \in resolve_to_secret(c, {g}, p.psks) :
           \E new \in {NewEpoch(g, p, derive(g.epoch_secret, "init"), secret)} :
            /\ group' = [group EXCEPT ![c][MainGroup] =
                    {[g EXCEPT !.pending_commit = {WithPrivateTree(new.group, encap(g, p))}]}]
            /\ net' = net \cup {CommitMessage(g, p, new.group.confirmation_tag)}
                          \cup Welcomes(p, p.psks, secret, new)
  BY <1>1, Zenon
<1>3. PICK secret \in resolve_to_secret(c, {g}, p.psks) : \E new :
            /\ new = NewEpoch(g, p, derive(g.epoch_secret, "init"), secret)
            /\ group' = [group EXCEPT ![c][MainGroup] =
                    {[g EXCEPT !.pending_commit = {WithPrivateTree(new.group, encap(g, p))}]}]
            /\ net' = net \cup {CommitMessage(g, p, new.group.confirmation_tag)}
                          \cup Welcomes(p, p.psks, secret, new)
  BY <1>2, Zenon
<1>4. PICK new :
            /\ new = NewEpoch(g, p, derive(g.epoch_secret, "init"), secret)
            /\ group' = [group EXCEPT ![c][MainGroup] =
                    {[g EXCEPT !.pending_commit = {WithPrivateTree(new.group, encap(g, p))}]}]
            /\ net' = net \cup {CommitMessage(g, p, new.group.confirmation_tag)}
                          \cup Welcomes(p, p.psks, secret, new)
  BY <1>3, Zenon
<1>5. MainGroup \in GroupIds
  BY Zenon DEF GroupIds
<1>6. In(c, MainGroup, g) /\ g.context.group_id = MainGroup /\ c \in DOMAIN g.context.tree
  BY <1>5 DEF HomeInv, Home, In
<1>7. DOMAIN g = Fields
  BY <1>5, Zenon DEF TagInv, TagsAre, TaggedIn, Tagged
<1>8. /\ p.by = c /\ Len(p.psks) \in Nat /\ c \in DOMAIN TreeAfter(g.context.tree, p)
      /\ p.add \subseteq KeyPackages /\ OnePerClient(p.add) /\ \A kp \in p.add : kp[1] # c
  BY <1>6, Proposed
<1>. DEFINE next == WithPrivateTree(new.group, encap(g, p))
<1>9. In(c, MainGroup, next)
  <2>1. In(c, MainGroup, new.group)
    BY <1>4, <1>6, <1>8, NewEpochIn, Zenon
  <2>2. Tagged(new.group)
    BY <1>4, NewEpochTagged, Zenon
  <2>3. next.context = new.group.context /\ next.epoch_secret = new.group.epoch_secret
    BY <2>2, PrivateTreeApart
  <2>. HIDE DEF next
  <2>. QED BY <2>1, <2>3, Zenon DEF In
<1>. HIDE DEF next
<1>10. Home(c, MainGroup, [g EXCEPT !.pending_commit = {next}])
  <2>. DEFINE h == [g EXCEPT !.pending_commit = {next}]
  <2>1. h.context = g.context /\ h.epoch_secret = g.epoch_secret /\ h.pending_commit = {next}
    BY <1>7, Zenon DEF Fields
  <2>. HIDE DEF h
  <2>2. Home(c, MainGroup, h)
    BY <1>6, <1>9, <2>1, SameHome, Zenon
  <2>. QED BY <2>2, Zenon DEF h
<1>11. Identified(secret, p.psks)
  BY <1>8, Resolved, Zenon
<1>12. \A w \in Welcomes(p, p.psks, secret, new) : w.kind = "welcome" /\ Opening(w, secret)
  BY <1>4, <1>5, <1>6, <1>8, <1>11, WelcomesOpening, Zenon
<1>13. CommitMessage(g, p, new.group.confirmation_tag).kind # "welcome"
  BY Zenon DEF CommitMessage
<1>14. \A w \in net' : w \in net \/ (w.kind = "welcome" => \E used : Opening(w, used))
  BY <1>4, <1>12, <1>13, Zenon
<1>15. key_packages' = key_packages /\ GroupsAreFunctions
  BY Zenon DEF Build, TagInv
<1>16. PICK S : S = {[g EXCEPT !.pending_commit = {next}]}
  BY Zenon
<1>17. group' = [group EXCEPT ![c][MainGroup] = S] /\ \A x \in S : Home(c, MainGroup, x)
  BY <1>4, <1>10, <1>16, Zenon DEF next
<1>. QED BY <1>14, <1>15, <1>17, HomeChanges, Zenon

\* A step that sends no welcome
LEMMA HomeKept ==
    ASSUME TagInv, HomeInv, NEW c, NEW i, NEW S,
           group' = [group EXCEPT ![c][i] = S], \A g \in S : Home(c, i, g), net' = net,
           \/ key_packages' = key_packages
           \/ \E kp : key_packages' = [key_packages EXCEPT ![c] = @ \ {kp}]
    PROVE  HomeInv'
<1>1. GroupsAreFunctions
  BY Zenon DEF TagInv
<1>2. \A w \in net' : w \in net \/ (w.kind = "welcome" => \E used : Opening(w, used))
  BY Zenon
<1>. QED BY <1>1, <1>2, HomeChanges, Zenon

LEMMA ApplyPendingHome ==
    ASSUME TagInv, HomeInv, NEW c \in Clients, ApplyPending(c, MainGroup)
    PROVE  HomeInv'
<1>1. PICK g \in group[c][MainGroup] : \E next \in g.pending_commit :
        group' = [group EXCEPT ![c][MainGroup] = {Advanced(g, next)}]
  BY Zenon DEF ApplyPending
<1>2. PICK next \in g.pending_commit :
        group' = [group EXCEPT ![c][MainGroup] = {Advanced(g, next)}]
  BY <1>1, Zenon
<1>3. MainGroup \in GroupIds
  BY Zenon DEF GroupIds
<1>4. Tagged(next) /\ next.pending_commit = {}
  BY <1>3, Zenon DEF TagInv, TagsAre, TaggedIn
<1>5. In(c, MainGroup, next)
  BY <1>3, Zenon DEF HomeInv, Home
<1>6. Home(c, MainGroup, Advanced(g, next))
  BY <1>4, <1>5, AdvancedIn, Zenon
<1>7. net' = net /\ key_packages' = key_packages
  BY Zenon DEF ApplyPending
<1>8. PICK S : S = {Advanced(g, next)}
  BY Zenon
<1>9. group' = [group EXCEPT ![c][MainGroup] = S] /\ \A x \in S : Home(c, MainGroup, x)
  BY <1>2, <1>6, <1>8, Zenon
<1>. QED BY <1>7, <1>9, HomeKept, Zenon

LEMMA ClearPendingHome ==
    ASSUME TagInv, HomeInv, NEW c \in Clients, ClearPending(c, MainGroup)
    PROVE  HomeInv'
<1>1. PICK g \in group[c][MainGroup] :
        group' = [group EXCEPT ![c][MainGroup] = {[g EXCEPT !.pending_commit = {}]}]
  BY Zenon DEF ClearPending
<1>2. MainGroup \in GroupIds
  BY Zenon DEF GroupIds
<1>3. DOMAIN g = Fields /\ In(c, MainGroup, g)
  BY <1>2, Zenon DEF TagInv, TagsAre, TaggedIn, Tagged, HomeInv, Home
<1>4. PICK h : h = [g EXCEPT !.pending_commit = {}]
  BY Zenon
<1>5. h.context = g.context /\ h.epoch_secret = g.epoch_secret /\ h.pending_commit = {}
  BY <1>3, <1>4, Zenon DEF Fields
<1>6. Home(c, MainGroup, h)
  BY <1>3, <1>5, SameHome, Zenon
<1>7. net' = net /\ key_packages' = key_packages
  BY Zenon DEF ClearPending
<1>8. PICK S : S = {h}
  BY Zenon
<1>9. group' = [group EXCEPT ![c][MainGroup] = S] /\ \A x \in S : Home(c, MainGroup, x)
  BY <1>1, <1>4, <1>6, <1>8, Zenon
<1>. QED BY <1>7, <1>9, HomeKept, Zenon

LEMMA ProcessHome ==
    ASSUME TagInv, HomeInv, NEW c \in Clients, NEW m \in net, Process(c, MainGroup, m)
    PROVE  HomeInv'
<1>1. PICK g \in group[c][MainGroup] :
        \E h \in process_commit(c, g, m) : group' = [group EXCEPT ![c][MainGroup] = {h}]
  BY Zenon DEF Process
<1>2. MainGroup \in GroupIds
  BY Zenon DEF GroupIds
<1>3. Tagged(g) /\ Home(c, MainGroup, g)
  BY <1>2, Zenon DEF TagInv, TagsAre, TaggedIn, HomeInv
<1>4. ASSUME NEW h \in process_commit(c, g, m)
      PROVE  Home(c, MainGroup, h)
  <2>1. CASE h = g
    BY <1>3, <2>1, Zenon
  <2>2. CASE Refuses(g, m, h)
    <3>1. /\ h.context = g.context /\ h.epoch_secret = g.epoch_secret
          /\ h.pending_commit = g.pending_commit
      BY <1>3, <2>2, RefusedTagged, Zenon
    <3>. QED BY <1>3, <3>1, Zenon DEF Home, In
  <2>3. CASE Follows(c, g, m, h)
    <3>1. PICK secret : h = Advanced(g, Derived(g, m, secret))
      BY <2>3, Zenon DEF Follows
    <3>2. PICK next : next = Derived(g, m, secret)
      BY Zenon
    <3>3. PICK new : new = NewEpoch(g, m.commit, InitSecret(g, m.commit), secret).group
      BY Zenon
    <3>4. /\ Tagged(next) /\ next.pending_commit = {}
          /\ next.context = new.context /\ next.epoch_secret = new.epoch_secret
      BY <3>2, <3>3, DerivedTagged, Zenon
    <3>5. g.context.group_id = MainGroup /\ c \in DOMAIN g.context.tree
      BY <1>3, Zenon DEF Home, In
    <3>6. c \in DOMAIN TreeAfter(g.context.tree, m.commit)
      BY <2>3, <3>5, Zenon DEF TreeAfter, Follows
    <3>7. In(c, MainGroup, new)
      BY <3>3, <3>5, <3>6, NewEpochIn, Zenon
    <3>8. In(c, MainGroup, next)
      BY <3>4, <3>7, Zenon DEF In
    <3>. QED BY <3>1, <3>2, <3>4, <3>8, AdvancedIn, Zenon
  <2>. QED BY <1>4, <2>1, <2>2, <2>3, Outcomes, Zenon
<1>5. net' = net /\ key_packages' = key_packages
  BY Zenon DEF Process
<1>6. PICK h \in process_commit(c, g, m) : group' = [group EXCEPT ![c][MainGroup] = {h}]
  BY <1>1, Zenon
<1>7. PICK S : S = {h}
  BY Zenon
<1>8. group' = [group EXCEPT ![c][MainGroup] = S] /\ \A x \in S : Home(c, MainGroup, x)
  BY <1>4, <1>6, <1>7, Zenon
<1>. QED BY <1>5, <1>8, HomeKept, Zenon

LEMMA ExternalCommitHome ==
    ASSUME TagInv, HomeInv, NEW c \in Clients, NEW d \in Clients, ExternalCommit(c, d, MainGroup)
    PROVE  HomeInv'
<1>0. PICK h, g, p, secret, pub, next :
        h \in group[d][MainGroup] /\ ExternalStep(c, MainGroup, h, g, p, secret, pub, next)
  BY ExternalCommitSteps, Zenon
<1>1. /\ g = GroupOf(h.context, h.confirmation_tag, EmptyPathSecret) /\ p.by = c /\ p.path
      /\ next = NewEpoch(g, p, encode_for_external(pub, made + 1), secret).group
      /\ group' = [group EXCEPT ![c][MainGroup] = {Advanced(g, next)}]
      /\ net' = net \cup {CommitMessage(g, p, next.confirmation_tag)}
  BY <1>0, Zenon DEF ExternalStep
<1>2. MainGroup \in GroupIds
  BY Zenon DEF GroupIds
<1>3. h.context.group_id = MainGroup
  BY <1>0, <1>2 DEF HomeInv, Home, In
<1>4. g.context.group_id = MainGroup
  BY <1>1, <1>3, GroupOfFields
<1>5. c \in DOMAIN TreeAfter(g.context.tree, p)
  BY <1>1, Zenon DEF TreeAfter
<1>6. In(c, MainGroup, next)
  BY <1>1, <1>4, <1>5, NewEpochIn, Zenon
<1>7. Tagged(next) /\ next.pending_commit = {}
  BY <1>1, NewEpochTagged, Zenon
<1>8. Home(c, MainGroup, Advanced(g, next))
  BY <1>6, <1>7, AdvancedIn, Zenon
<1>9. PICK S : S = {Advanced(g, next)}
  BY Zenon
<1>10. group' = [group EXCEPT ![c][MainGroup] = S] /\ \A x \in S : Home(c, MainGroup, x)
  BY <1>1, <1>8, <1>9, Zenon
<1>11. CommitMessage(g, p, next.confirmation_tag).kind # "welcome"
  BY Zenon DEF CommitMessage
<1>12. \A w \in net' : w \in net \/ (w.kind = "welcome" => \E used : Opening(w, used))
  BY <1>1, <1>11, Zenon
<1>13. key_packages' = key_packages /\ GroupsAreFunctions
  BY Zenon DEF ExternalCommit, TagInv
<1>. QED BY <1>10, <1>12, <1>13, HomeChanges, Zenon

\* A resumption secret is the secret of an epoch that the client is in.
LEMMA ResumptionOrigin ==
    ASSUME NEW c, NEW i, NEW g, In(c, i, g), NEW usage, NEW nonce
    PROVE  LET psk == resumption_psk_input(g, usage, nonce)
           IN  /\ c \in MembersBehind(psk)
               /\ psk[1][1] = "resumption" /\ psk[1][2] = usage
               /\ DOMAIN psk[1] = 1 .. 5
<1>1. PICK psk : psk = resumption_psk_input(g, usage, nonce)
  BY Zenon
<1>2. psk[2][2] = g.epoch_secret
  BY <1>1, Zenon DEF resumption_psk_input, derive
<1>3. g.epoch_secret[1] = "epoch" /\ g.epoch_secret[4] = g.context
  BY JoinerParts DEF In, FromJoiner
<1>4. c \in MembersBehind(psk)
  BY <1>2, <1>3, Zenon DEF MembersBehind, In
<1>5. psk[1][1] = "resumption" /\ psk[1][2] = usage /\ DOMAIN psk[1] = 1 .. 5
  BY <1>1 DEF resumption_psk_input, ResumptionPskId
<1>. QED BY <1>1, <1>4, <1>5, Zenon

LEMMA ResumptionHome ==
    ASSUME TagInv, HomeInv, NEW c \in Clients, NEW i \in GroupIds \ {MainGroup}, NEW usage,
           NEW g \in group[c][MainGroup], NEW kps \in OthersKeyPackages(c), OnePerClient(kps),
           resumption_create_group(c, i, g, usage, kps)
    PROVE  HomeInv'
<1>1. PICK old, psk, p, new :
        /\ old = NewGroup(i, c, made + 1) /\ psk = resumption_psk_input(g, usage, made + 2)
        /\ p = Commit(made + 2, c, kps, {}, <<>>, FALSE, c \in PathRequired, {})
        /\ new = NewEpoch(old, p, derive(old.epoch_secret, "init"), <<psk>>)
        /\ group' = [group EXCEPT ![c][i] = {Advanced(old, new.group)}]
        /\ net' = net \cup Welcomes(p, <<psk[1]>>, <<psk>>, new)
  BY Zenon DEF resumption_create_group
<1>2. key_packages' = key_packages /\ GroupsAreFunctions
  BY Zenon DEF resumption_create_group, TagInv
<1>3. MainGroup \in GroupIds
  BY Zenon DEF GroupIds
<1>4. In(c, MainGroup, g)
  BY <1>3, Zenon DEF HomeInv, Home
<1>5. c \in MembersBehind(psk) /\ psk[1][1] = "resumption"
  BY <1>1, <1>4, ResumptionOrigin
<1>6. old.context.group_id = i /\ c \in DOMAIN old.context.tree
  BY <1>1, Zenon DEF NewGroup, GroupOf, Context
<1>7. p.by = c /\ p.add = kps /\ p.remove = {}
  BY <1>1, Zenon DEF Commit
<1>8. c \in DOMAIN TreeAfter(old.context.tree, p)
  BY <1>6, <1>7, Zenon DEF TreeAfter
<1>9. PICK secret : secret = <<psk>>
  BY Zenon
<1>10. Len(secret) = 1 /\ secret[1] = psk
  BY <1>9, Zenon
<1>11. In(c, i, new.group)
  BY <1>1, <1>5, <1>6, <1>8, <1>9, <1>10, NewEpochIn, Zenon
<1>12. Tagged(new.group) /\ new.group.pending_commit = {}
  BY <1>1, NewEpochTagged, Zenon
<1>13. Home(c, i, Advanced(old, new.group))
  BY <1>11, <1>12, AdvancedIn, Zenon
<1>14. PICK psks : psks = <<psk[1]>>
  BY Zenon
<1>15. Identified(secret, psks) /\ ResumptionOnly(psks)
  BY <1>5, <1>9, <1>14 DEF Identified, ResumptionOnly
<1>16. p.add \subseteq KeyPackages /\ \A kp \in p.add : kp[1] # p.by
  BY <1>7, Zenon DEF OthersKeyPackages
<1>17. \A w \in Welcomes(p, psks, secret, new) : w.kind = "welcome" /\ Opening(w, secret)
  <2>1. PICK init : init = derive(old.epoch_secret, "init")
    BY Zenon
  <2>2. new = NewEpoch(old, p, init, secret) /\ OnePerClient(p.add)
    BY <1>1, <1>7, <1>9, <2>1, Zenon
  <2>3. p.by \in DOMAIN TreeAfter(old.context.tree, p)
    BY <1>7, <1>8, Zenon
  <2>. QED BY <1>6, <1>15, <1>16, <2>2, <2>3, WelcomesOpening, Zenon
<1>18. \A w \in net' : w \in net \/ (w.kind = "welcome" => \E used : Opening(w, used))
  BY <1>1, <1>9, <1>14, <1>17, Zenon
<1>19. PICK S : S = {Advanced(old, new.group)}
  BY Zenon
<1>20. group' = [group EXCEPT ![c][i] = S] /\ \A x \in S : Home(c, i, x)
  BY <1>1, <1>13, <1>19, Zenon
<1>. QED BY <1>2, <1>18, <1>20, HomeChanges, Zenon

\* A psk secret that a client joins a subgroup or a reinitialised group with
LEMMA JoinOrigin ==
    ASSUME NEW c, NEW psks, NEW additional, ResumptionOnly(psks),
           \A psk \in additional : c \in MembersBehind(psk),
           NEW s \in psk_secret(c, psks, additional)
    PROVE  Len(s) = 1 /\ c \in MembersBehind(s[1])
<1>1. Len(psks) = 1 /\ psks[1][1] = "resumption"
  BY Zenon DEF ResumptionOnly
<1>2. CASE additional = {}
  <2>1. s \in resolve_to_secret(c, {}, psks)
    BY <1>2, Zenon DEF psk_secret
  <2>2. Len(psks) \in Nat /\ 1 \in 1 .. Len(psks)
    BY <1>1
  <2>3. resolve(c, {}, psks[1]) # {}
    BY <2>1, <2>2, Resolved, Zenon
  <2>4. resolve(c, {}, psks[1]) = {}
    BY <1>1, Zenon DEF resolve, resolve_resumption
  <2>. QED BY <2>3, <2>4, Zenon
<1>3. CASE additional # {}
  <2>1. PICK psk \in additional : s = <<WithNonce(psk, psks[1])>>
    BY <1>3, Zenon DEF psk_secret
  <2>2. PICK n : n = WithNonce(psk, psks[1])
    BY Zenon
  <2>3. n[2] = psk[2]
    BY <2>2, Zenon DEF WithNonce
  <2>4. c \in MembersBehind(n)
    BY <2>3, Zenon DEF MembersBehind
  <2>5. Len(s) = 1 /\ s[1] = n
    BY <2>1, <2>2, Zenon
  <2>. QED BY <2>4, <2>5, Zenon
<1>. QED BY <1>2, <1>3, Zenon

LEMMA JoinsHome ==
    ASSUME TagInv, HomeInv, NEW c \in Clients, NEW w \in net, w.kind = "welcome",
           NEW additional, \A psk \in additional : c \in MembersBehind(psk),
           Joins(c, w, additional)
    PROVE  HomeInv'
<1>1. PICK g \in from_welcome_message(c, w, additional) :
            group' = [group EXCEPT ![c][g.context.group_id] = {g}]
  BY Zenon DEF Joins
<1>2. PICK s \in psk_secret(c, w.psks, additional) :
        /\ c \in DOMAIN w.context.tree
        /\ g = GroupOf(w.context, w.confirmation_tag, from_joiner(w.joiner_secret, w.context, s))
  BY Zenon DEF from_welcome_message
<1>3. PICK used : Opening(w, used)
  BY Zenon DEF HomeInv
<1>4. PICK i : i = w.context.group_id
  BY Zenon
<1>5. i \in GroupIds /\ (i # MainGroup => ResumptionOnly(w.psks))
  BY <1>3, <1>4, Zenon DEF Opening
<1>6. i # MainGroup => Len(s) = 1 /\ c \in MembersBehind(s[1])
  BY <1>5, JoinOrigin, Zenon
<1>7. PICK e : e = from_joiner(w.joiner_secret, w.context, s)
  BY Zenon
<1>8. g.context = w.context /\ g.epoch_secret = e /\ g.pending_commit = {}
  BY <1>2, <1>7, GroupOfFields
<1>9. e[3] = s /\ FromJoiner(e, w.context)
  BY <1>7, JoinerParts
<1>10. Home(c, i, g)
  BY <1>2, <1>4, <1>6, <1>8, <1>9, Zenon DEF Home, In, Origin
<1>11. PICK S : S = {g}
  BY Zenon
<1>12. group' = [group EXCEPT ![c][i] = S] /\ \A x \in S : Home(c, i, x)
  BY <1>1, <1>4, <1>8, <1>10, <1>11, Zenon
<1>13. net' = net /\ \E kp : key_packages' = [key_packages EXCEPT ![c] = @ \ {kp}]
  BY Zenon DEF Joins
<1>. QED BY <1>12, <1>13, HomeKept, Zenon

LEMMA InitHome == ASSUME Init PROVE HomeInv
<1>1. PICK old, p, first, after :
        old = FirstGroup /\ p = FirstCommit /\ first = FirstEpoch.group
        /\ after = Advanced(FirstGroup, FirstEpoch.group)
  BY Zenon
<1>2. old.context.group_id = MainGroup /\ DOMAIN old.context.tree = {Founder}
  BY <1>1, Zenon DEF FirstGroup, NewGroup, GroupOf, Context
<1>3. p.remove = {} /\ p.add = Invited
  BY <1>1, Zenon DEF FirstCommit, Commit
<1>4. {Founder} \cup Owners(Invited) \subseteq DOMAIN TreeAfter(old.context.tree, p)
  BY <1>2, <1>3, Zenon DEF TreeAfter
<1>5. first = NewEpoch(old, p, derive(old.epoch_secret, "init"), <<>>).group
  BY <1>1, Zenon DEF FirstEpoch
<1>6. \A c \in {Founder} \cup Owners(Invited) : In(c, MainGroup, first)
  BY <1>2, <1>4, <1>5, NewEpochIn, Zenon
<1>7. Tagged(first) /\ first.pending_commit = {}
  BY <1>5, NewEpochTagged, Zenon
<1>8. \A c \in Owners(Invited) : Home(c, MainGroup, first)
  BY <1>6, <1>7, Zenon DEF Home
<1>9. In(Founder, MainGroup, first)
  BY <1>6, Zenon
<1>10. Home(Founder, MainGroup, after)
  BY <1>1, <1>7, <1>9, AdvancedIn, Zenon
<1>11. ASSUME NEW c \in Clients, NEW i \in GroupIds, NEW g \in group[c][i]
       PROVE  Home(c, i, g)
  <2>1. group[c][i] = IF i # MainGroup THEN {} ELSE IF c = Founder THEN {after}
                      ELSE IF c \in Owners(Invited) THEN {first} ELSE {}
    BY <1>1, Zenon DEF Init
  <2>. QED BY <1>8, <1>10, <1>11, <2>1, Zenon
<1>12. /\ DOMAIN key_packages = Clients
       /\ \A c \in Clients : key_packages[c] \subseteq {kp \in KeyPackages : kp[1] = c}
  BY Zenon DEF Init
<1>13. net = {}
  BY Zenon DEF Init
<1>. QED BY <1>11, <1>12, <1>13, Zenon DEF HomeInv

LEMMA NextHome ==
    ASSUME TagInv, HomeInv, [Next]_vars
    PROVE  HomeInv'
<1>1. CASE UNCHANGED vars
  <2>1. UNCHANGED <<group, net, key_packages>>
    BY <1>1, Zenon DEF vars
  <2>. QED
    BY <2>1, Zenon DEF HomeInv, GroupIds
<1>2. CASE Next
  <2>1. {SubGroup, NextGroup} \subseteq GroupIds \ {MainGroup} /\ MainGroup \in GroupIds
    BY SecretsAssumption, Zenon DEF GroupIds
  <2>2. PICK c \in Clients :
            \/ Build(c, MainGroup) \/ ApplyPending(c, MainGroup) \/ ClearPending(c, MainGroup)
            \/ \E m \in net : Process(c, MainGroup, m)
            \/ \E d \in Clients : ExternalCommit(c, d, MainGroup)
            \/ Branch(c) \/ ReinitCommit(c)
            \/ \E w \in net : Join(c, w) \/ JoinSubgroup(c, w) \/ ReinitJoin(c, w)
    BY <1>2, Zenon DEF Next
  <2>3. CASE Build(c, MainGroup) \/ ApplyPending(c, MainGroup) \/ ClearPending(c, MainGroup)
    BY <2>3, BuildHome, ApplyPendingHome, ClearPendingHome, Zenon
  <2>4. CASE \E m \in net : Process(c, MainGroup, m)
    BY <2>4, ProcessHome, Zenon
  <2>5. CASE \E d \in Clients : ExternalCommit(c, d, MainGroup)
    BY <2>5, ExternalCommitHome, Zenon
  <2>6. CASE Branch(c)
    BY <2>1, <2>6, ResumptionHome, Zenon DEF Branch
  <2>7. CASE ReinitCommit(c)
    BY <2>1, <2>7, ResumptionHome, Zenon DEF ReinitCommit
  <2>8. \A g \in group[c][MainGroup] : In(c, MainGroup, g)
    BY <2>1, Zenon DEF HomeInv, Home
  <2>9. ASSUME NEW w \in net, Join(c, w)
        PROVE  HomeInv'
    BY <2>9, JoinsHome DEF Join, ForMember
  <2>10. ASSUME NEW w \in net, NEW g \in group[c][MainGroup], w.kind = "welcome", NEW usage,
                Joins(c, w, {resumption_psk_input(g, usage, 0)})
         PROVE  HomeInv'
    <3>1. PICK psk : psk = resumption_psk_input(g, usage, 0)
      BY Zenon
    <3>2. c \in MembersBehind(psk)
      BY <2>8, <3>1, ResumptionOrigin, Zenon
    <3>3. Joins(c, w, {psk}) /\ \A k \in {psk} : c \in MembersBehind(k)
      BY <2>10, <3>1, <3>2, Zenon
    <3>4. PICK a : a = {psk}
      BY Zenon
    <3>5. Joins(c, w, a) /\ \A k \in a : c \in MembersBehind(k)
      BY <3>3, <3>4, Zenon
    <3>. QED BY <2>10, <3>5, JoinsHome, Zenon
  <2>11. CASE \E w \in net : JoinSubgroup(c, w) \/ ReinitJoin(c, w)
    BY <2>10, <2>11, Zenon DEF JoinSubgroup, ReinitJoin, ForMember
  <2>. QED
    BY <2>2, <2>3, <2>4, <2>5, <2>6, <2>7, <2>9, <2>11, Zenon
<1>. QED
  BY <1>1, <1>2, Zenon

LEMMA OneIdentified ==
    ASSUME NEW secret, NEW psks, Identified(secret, psks), Len(secret) = 1
    PROVE  Len(psks) = 1 /\ psks[1] = secret[1][1] /\ secret = <<secret[1]>>
<1>1. Len(psks) = 1
  BY Zenon DEF Identified
<1>2. secret = [k \in 1 .. 1 |-> secret[k]]
  BY <1>1, Zenon DEF Identified
<1>3. psks[1] = secret[1][1]
  BY <1>1 DEF Identified
<1>4. PICK x : x = secret[1]
  BY Zenon
<1>5. [k \in 1 .. 1 |-> secret[k]] = [k \in 1 .. 1 |-> x]
  BY <1>4
<1>6. [k \in 1 .. 1 |-> x] = <<x>>
  OBVIOUS
<1>. QED BY <1>1, <1>2, <1>3, <1>4, <1>5, <1>6, Zenon

\* The psk secret that goes into a welcome can be read off its tag, and satisfies
\* every condition of from_welcome_message.
LEMMA HomeMakesWelcomesOpen ==
    ASSUME HomeInv
    PROVE  WelcomeOpens
<1>. SUFFICES ASSUME NEW c \in Clients, NEW w \in net, ForMember(c, w), NEW used,
                     used = PskSecretOf(w.confirmation_tag),
                     \/ resolve_to_secret(c, {}, w.psks) = {used}
                     \/ Len(used) = 1 /\ \E a \in AdditionalPsks(c) : \E psk \in a :
                           <<[psk[1] EXCEPT ![5] = used[1][1][5]], psk[2]>> = used[1]
              PROVE  \E a \in AdditionalPsks(c) : from_welcome_message(c, w, a) # {}
  BY Zenon DEF WelcomeOpens
<1>1. w.kind = "welcome" /\ w.new_member \in key_packages[c] /\ w.new_member[1] = c
  BY Zenon DEF ForMember, HomeInv
<1>2. Opening(w, used)
  <2>1. PICK u : Opening(w, u)
    BY <1>1, Zenon DEF HomeInv
  <2>2. u = used
    <3>1. w.confirmation_tag =
            ConfirmationTag(from_joiner(w.joiner_secret, w.context, u),
                            w.context.confirmed_transcript_hash)
      BY <2>1, Zenon DEF Opening
    <3>. QED BY <3>1, PskOfTag
  <2>. QED BY <2>1, <2>2, Zenon
<1>3. SUFFICES ASSUME NEW a \in AdditionalPsks(c), used \in psk_secret(c, w.psks, a)
               PROVE  from_welcome_message(c, w, a) # {}
  <2>1. CASE resolve_to_secret(c, {}, w.psks) = {used}
    <3>1. {} \in AdditionalPsks(c) /\ used \in psk_secret(c, w.psks, {})
      <4>1. {} \in AdditionalPsks(c)
        BY Zenon DEF AdditionalPsks
      <4>2. psk_secret(c, w.psks, {}) = {used}
        BY <2>1, Zenon DEF psk_secret
      <4>. QED BY <4>1, <4>2, Zenon
    <3>. QED BY <1>3, <3>1, Zenon
  <2>2. CASE Len(used) = 1 /\ \E a \in AdditionalPsks(c) : \E psk \in a :
                <<[psk[1] EXCEPT ![5] = used[1][1][5]], psk[2]>> = used[1]
    <3>1. PICK a \in AdditionalPsks(c) : \E psk \in a :
                <<[psk[1] EXCEPT ![5] = used[1][1][5]], psk[2]>> = used[1]
      BY <2>2, Zenon
    <3>2. PICK psk \in a : <<[psk[1] EXCEPT ![5] = used[1][1][5]], psk[2]>> = used[1]
      BY <3>1, Zenon
    <3>3. Len(w.psks) = 1 /\ w.psks[1] = used[1][1] /\ used = <<used[1]>>
      <4>1. Identified(used, w.psks)
        BY <1>2, Zenon DEF Opening
      <4>. QED BY <2>2, <4>1, OneIdentified, Zenon
    <3>4. WithNonce(psk, w.psks[1]) = used[1]
      BY <3>2, <3>3, Zenon DEF WithNonce
    <3>6. PICK g, usage : /\ psk = resumption_psk_input(g, usage, 0)
                          /\ usage = "branch" \/ usage = "reinit"
      BY <3>2, Zenon DEF AdditionalPsks
    <3>7. psk[1] = ResumptionPskId(usage, g.context.group_id, g.context.epoch, 0)
      BY <3>6, Zenon DEF resumption_psk_input
    <3>8. PICK id : id = [psk[1] EXCEPT ![5] = used[1][1][5]]
      BY Zenon
    <3>9. used[1][1] = id
      BY <3>2, <3>8
    <3>10. id[1] = "resumption" /\ id[2] = usage
      BY <3>7, <3>8 DEF ResumptionPskId
    <3>11. w.psks # <<>> /\ w.psks[1][1] = "resumption" /\ w.psks[1][2] # "application"
      BY <3>3, <3>6, <3>9, <3>10, Zenon
    <3>12. a # {} /\ <<WithNonce(psk, w.psks[1])>> = used
      BY <3>3, <3>4, Zenon
    <3>13. used \in psk_secret(c, w.psks, a)
      BY <3>11, <3>12, Zenon DEF psk_secret
    <3>. QED BY <1>3, <3>13, Zenon
  <2>. QED BY <2>1, <2>2, Zenon
<1>4. GroupOf(w.context, w.confirmation_tag, from_joiner(w.joiner_secret, w.context, used))
        \in from_welcome_message(c, w, a)
  BY <1>1, <1>2, <1>3, Zenon DEF from_welcome_message, Opening
<1>. QED BY <1>4, Zenon

LEMMA HomeMakesOriginShared ==
    ASSUME TagInv, HomeInv
    PROVE  OriginShared
<1>. SUFFICES ASSUME NEW c \in Clients, NEW i \in {SubGroup, NextGroup}, NEW g \in group[c][i]
              PROVE  LET used == PskSecretOf(g.confirmation_tag)
                     IN  Len(used) = 1 /\ c \in MembersBehind(used[1])
  BY Zenon DEF OriginShared
<1>1. i \in GroupIds /\ i # MainGroup
  BY SecretsAssumption, Zenon DEF GroupIds
<1>2. Origin(c, g.epoch_secret)
  BY <1>1, Zenon DEF HomeInv, Home, In
<1>3. g.confirmation_tag = ConfirmationTag(g.epoch_secret, g.context.confirmed_transcript_hash)
  BY <1>1, Zenon DEF TagInv, TagsAre, TaggedIn, Tagged
<1>4. PskSecretOf(g.confirmation_tag) = g.epoch_secret[3]
  BY <1>3 DEF PskSecretOf, ConfirmationTag, derive
<1>. QED BY <1>2, <1>4, Zenon DEF Origin

\* A client that still has the key package of a welcome, and the pre-shared keys
\* that went into it, can join: from_welcome_message derives what the committer
\* encrypted and tagged, whatever has happened to the group since.
THEOREM WelcomeTheorem == Spec => []WelcomeOpens
<1>1. Init => TagInv /\ HomeInv
  BY InitTagInv, InitHome, Zenon
<1>2. (TagInv /\ HomeInv) /\ [Next]_vars => (TagInv /\ HomeInv)'
  BY NextTagInv, NextHome, Zenon
<1>3. HomeInv => WelcomeOpens
  BY HomeMakesWelcomesOpen
<1>. QED
  BY <1>1, <1>2, <1>3, PTL DEF Spec

\* Whoever is in a subgroup or in a reinitialised group was in the old group, in the
\* epoch whose resumption secret the new group was made with.
THEOREM OriginTheorem == Spec => []OriginShared
<1>1. Init => TagInv /\ HomeInv
  BY InitTagInv, InitHome
<1>2. (TagInv /\ HomeInv) /\ [Next]_vars => (TagInv /\ HomeInv)'
  BY NextTagInv, NextHome
<1>3. TagInv /\ HomeInv => OriginShared
  BY HomeMakesOriginShared, Zenon
<1>. QED
  BY <1>1, <1>2, <1>3, PTL DEF Spec

=============================================================================
