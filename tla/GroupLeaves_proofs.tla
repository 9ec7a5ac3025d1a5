----------------------- MODULE GroupLeaves_proofs -----------------------
(***************************************************************************)
(* Every Group keeps the secrets of its own leaf: the invariant KeyInv and *)
(* what one operation on one Group does to it.  ObservedGroup_proofs puts  *)
(* the operations together.                                                *)
(***************************************************************************)
EXTENDS Group_proofs

-----------------------------------------------------------------------------
(* The secrets of a member belong to its leaf.  What a commit does to a    *)
(* leaf is the same for its sender and its receivers only if a member has  *)
(* one Update per epoch on the wire, although it forgets what it did not   *)
(* write; and a commit built on half-processed secrets must have lost.     *)

\* Leaves with keys among the first n
LeafUpTo(n) == [key : 0 .. n, signer : 0 .. n]

KnownLeaves(leaves, n) ==
    DOMAIN leaves \subseteq Members /\ \A m \in DOMAIN leaves : leaves[m] \in LeafUpTo(n)

\* A commit of commit_internal or of an external joiner, among the first n made
Proper(c, n) ==
    /\ c.id \in 1 .. n /\ c.by \in Members /\ c.leaf \in LeafUpTo(n)
    /\ \A p \in c.refs : p.by # c.by /\ p.key \in 0 .. n
    /\ ~c.path => c.refs = {} /\ c.remove = {}

\* If the commit of p may still be applied, p has the secrets of the leaf of m.
Fits(m, p, l) ==
    \/ p.commit.epoch = Len(l)
    \/ p.commit.epoch < Len(l) /\ l[p.commit.epoch + 1] = p.commit
    => /\ m \in DOMAIN p.commit.leaves
       /\ p.key = p.commit.leaves[m].key /\ p.signer = p.commit.leaves[m].signer

\* The pending commits of a Group of m
PendingFits(m, g, l, n) ==
    /\ g.pending_commit = {} \/ \E x : g.pending_commit = {x}
    /\ \A p \in g.pending_commit : Proper(p.commit, n) /\ Fits(m, p, l)

\* At most one proposal of each member
OnePerMember(ps) == \A p, q \in ps : p.by = q.by /\ p.by \in Members => p = q

\* The cached proposals of a Group of m, when w are the ones sent
Caches(m, g, w, n) ==
    /\ OnePerMember(g.proposals)
    /\ \A p \in g.proposals : p.epoch = g.epoch /\ p.key \in 0 .. n /\ (p.by # m => p \in w)
    /\ \A p \in w : p.by = m => p.epoch \in 0 .. g.epoch /\ (p.epoch = g.epoch => p \in g.proposals)

\* The leaf of m, now or after the next commit of l, has its key and its signer.
Next1(m, g, l) == g.epoch < Len(l) /\ m \in DOMAIN l[g.epoch + 1].leaves

Mine(m, g, l) ==
    /\ m \in DOMAIN g.leaves
    /\ g.key = g.leaves[m].key \/ (Next1(m, g, l) /\ g.key = l[g.epoch + 1].leaves[m].key)
    /\ g.signer = g.leaves[m].signer
       \/ (Next1(m, g, l) /\ g.signer = l[g.epoch + 1].leaves[m].signer)

WireInv ==
    \A p, q \in wire : p.by = q.by /\ p.epoch = q.epoch /\ p.by \in Members => p = q

KeyInv ==
    /\ options \in Scenarios /\ made \in 0 .. options.made /\ faults \in 0 .. options.faults
    /\ \A e \in 1 .. Len(log) : Proper(log[e], made)
    /\ \A e \in 0 .. Len(log) : KnownLeaves(LeavesAt(e), made)
    /\ WireInv /\ \A p \in wire : p.key \in 0 .. made
    /\ \A m \in Members :
        /\ PendingFits(m, group[m], log, made) /\ PendingFits(m, stored[m], log, made)
        /\ Caches(m, group[m], wire, made) /\ Caches(m, stored[m], wire, made)
        /\ \A p \in detached[m] : Proper(p.commit, made) /\ Fits(m, p, log)
        /\ m \notin removed => Mine(m, group[m], log) /\ Mine(m, stored[m], log)


\* More commits may be made, and more proposals sent.
LEMMA KnownGrows ==
    ASSUME NEW n \in Nat, NEW n2 \in Nat, n <= n2
    PROVE  /\ \A leaves : KnownLeaves(leaves, n) => KnownLeaves(leaves, n2)
           /\ \A c : Proper(c, n) => Proper(c, n2)
           /\ \A m, g, l : PendingFits(m, g, l, n) => PendingFits(m, g, l, n2)
           /\ \A m, g, w : Caches(m, g, w, n) => Caches(m, g, w, n2)
<1>0. 0 .. n \subseteq 0 .. n2 /\ 1 .. n \subseteq 1 .. n2
  OBVIOUS
<1>1. LeafUpTo(n) \subseteq LeafUpTo(n2)
  BY <1>0, Zenon DEF LeafUpTo
<1>2. \A leaves : KnownLeaves(leaves, n) => KnownLeaves(leaves, n2)
  BY <1>1, Zenon DEF KnownLeaves
<1>3. \A c : Proper(c, n) => Proper(c, n2)
  BY <1>0, <1>1, Zenon DEF Proper
<1>4. \A m, g, l : PendingFits(m, g, l, n) => PendingFits(m, g, l, n2)
  BY <1>3, Zenon DEF PendingFits
<1>5. \A m, g, w : Caches(m, g, w, n) => Caches(m, g, w, n2)
  BY <1>0, Zenon DEF Caches
<1>. QED BY <1>2, <1>3, <1>4, <1>5, Zenon

\* The leaves that a commit leads to
LEMMA AppliedLeaves ==
    ASSUME NEW n \in Nat, NEW leaves, KnownLeaves(leaves, n), NEW c, Proper(c, n)
    PROVE  KnownLeaves(apply_resolved(leaves, c), n)
<1>1. DOMAIN apply_resolved(leaves, c) \subseteq Members
  BY Zenon DEF apply_resolved, KnownLeaves, Proper
<1>2. ASSUME NEW m \in DOMAIN apply_resolved(leaves, c)
      PROVE  apply_resolved(leaves, c)[m] \in LeafUpTo(n)
  <2>1. CASE c.path /\ m = c.by
    BY <2>1, Zenon DEF apply_resolved, Proper
  <2>2. CASE ~(c.path /\ m = c.by) /\ \E p \in c.refs : p.by = m
    <3>1. PICK p \in c.refs : apply_resolved(leaves, c)[m] = [key |-> p.key, signer |-> p.key]
      BY <2>2, Zenon DEF apply_resolved
    <3>. QED BY <3>1 DEF Proper, LeafUpTo
  <2>3. CASE ~(c.path /\ m = c.by) /\ ~\E p \in c.refs : p.by = m
    <3>1. apply_resolved(leaves, c)[m] = leaves[m] /\ m \in DOMAIN leaves
      BY <2>3, Zenon DEF apply_resolved
    <3>. QED BY <3>1, Zenon DEF KnownLeaves
  <2>. QED BY <2>1, <2>2, <2>3, Zenon
<1>. QED BY <1>1, <1>2, Zenon DEF KnownLeaves

\* What a commit that does not remove m does to the leaf of m
LEMMA OwnLeaf ==
    ASSUME NEW leaves, NEW m \in DOMAIN leaves, NEW c, m \notin c.remove,
           ~c.path => c.refs = {}, OnePerMember(c.refs), m \in Members
    PROVE  /\ m \in DOMAIN apply_resolved(leaves, c)
           /\ c.path /\ m = c.by => apply_resolved(leaves, c)[m] = c.leaf
           /\ c.by # m => \A p \in c.refs : p.by = m =>
                apply_resolved(leaves, c)[m] = [key |-> p.key, signer |-> p.key]
           /\ ~(c.path /\ m = c.by) /\ (\A p \in c.refs : p.by # m) =>
                apply_resolved(leaves, c)[m] = leaves[m]
<1>1. m \in DOMAIN apply_resolved(leaves, c)
  BY Zenon DEF apply_resolved
<1>2. ASSUME c.by # m, NEW p \in c.refs, p.by = m
      PROVE  apply_resolved(leaves, c)[m] = [key |-> p.key, signer |-> p.key]
  <2>1. p = CHOOSE q \in c.refs : q.by = m
    BY <1>2, Zenon DEF OnePerMember
  <2>. QED BY <1>1, <1>2, <2>1, Zenon DEF apply_resolved
<1>3. c.path /\ m = c.by => apply_resolved(leaves, c)[m] = c.leaf
  BY <1>1, Zenon DEF apply_resolved
<1>4. ~(c.path /\ m = c.by) /\ (\A p \in c.refs : p.by # m) =>
            apply_resolved(leaves, c)[m] = leaves[m]
  BY <1>1, Zenon DEF apply_resolved
<1>. QED BY <1>1, <1>2, <1>3, <1>4, Zenon

LEMMA Counters ==
    ASSUME KeyInv
    PROVE  /\ options \in Scenarios /\ made \in 0 .. options.made /\ faults \in 0 .. options.faults
           /\ made \in Nat /\ options.made \in Nat /\ options.faults \in Nat /\ faults \in Nat
<1>1. options \in Scenarios /\ made \in 0 .. options.made /\ faults \in 0 .. options.faults
  BY Zenon DEF KeyInv
<1>. QED BY <1>1, LifecycleAssumption

\* What KeyInv says of the Group of one member
LEMMA KeyFacts ==
    ASSUME GroupInv, KeyInv, NEW m \in Members
    PROVE  /\ made \in Nat /\ options.made \in Nat /\ options.faults \in Nat /\ faults \in Nat
           /\ Len(log) \in Nat /\ group[m].epoch \in Nat /\ group[m].epoch \in 0 .. Len(log)
           /\ DOMAIN group[m] = Fields
           /\ group[m].leaves = LeavesAt(group[m].epoch)
           /\ KnownLeaves(group[m].leaves, made)
           /\ Caches(m, group[m], wire, made) /\ PendingFits(m, group[m], log, made)
           /\ m \notin removed => Mine(m, group[m], log)
<1>1. made \in Nat /\ options.made \in Nat /\ options.faults \in Nat /\ faults \in Nat
  BY Counters, Zenon
<1>2. /\ Len(log) \in Nat /\ group[m].epoch \in Nat /\ group[m].epoch \in 0 .. Len(log)
      /\ DOMAIN group[m] = Fields /\ group[m].leaves = LeavesAt(group[m].epoch)
  BY GroupFacts, Zenon DEF SoundGroup
<1>. QED BY <1>1, <1>2, Zenon DEF KeyInv

\* A step that replaces one Group, and makes at most one more key
LEMMA OneGroupKeys ==
    ASSUME GroupInv, KeyInv, NEW m \in Members, NEW h,
           group' = [group EXCEPT ![m] = h], UNCHANGED <<options, stored, detached, wire, log>>,
           removed \subseteq removed', made' \in made .. options.made,
           faults' \in 0 .. options.faults,
           PendingFits(m, h, log, made'), Caches(m, h, wire, made'),
           m \notin removed' => Mine(m, h, log)
    PROVE  KeyInv'
<1>1. made \in Nat /\ made' \in Nat /\ made <= made' /\ DOMAIN group = Members
  BY KeyFacts, GroupFacts
<1>2. \A n \in Members : group'[n] = IF n = m THEN h ELSE group[n]
  BY <1>1, Zenon
<1>3. 0 .. made \subseteq 0 .. made'
  BY <1>1
<1>4. \A n \in Members :
        /\ PendingFits(n, group'[n], log, made') /\ PendingFits(n, stored[n], log, made')
        /\ Caches(n, group'[n], wire, made') /\ Caches(n, stored[n], wire, made')
        /\ \A p \in detached[n] : Proper(p.commit, made') /\ Fits(n, p, log)
        /\ n \notin removed' => Mine(n, group'[n], log) /\ Mine(n, stored[n], log)
  <2> TAKE n \in Members
  <2>1. /\ PendingFits(n, stored[n], log, made') /\ Caches(n, stored[n], wire, made')
        /\ \A p \in detached[n] : Proper(p.commit, made') /\ Fits(n, p, log)
    BY <1>1, KnownGrows, Zenon DEF KeyInv
  <2>2. n \notin removed' => Mine(n, stored[n], log)
    BY Zenon DEF KeyInv
  <2>3. CASE n = m
    BY <1>2, <2>1, <2>2, <2>3, Zenon
  <2>4. CASE n # m
    <3>1. PendingFits(n, group[n], log, made') /\ Caches(n, group[n], wire, made')
      BY <1>1, KnownGrows, Zenon DEF KeyInv
    <3>2. n \notin removed' => Mine(n, group[n], log)
      BY Zenon DEF KeyInv
    <3>. QED BY <1>2, <2>1, <2>2, <2>4, <3>1, <3>2, Zenon
  <2>. QED BY <2>3, <2>4, Zenon
<1>5. \A e \in 1 .. Len(log) : Proper(log[e], made')
  BY <1>1, KnownGrows, Zenon DEF KeyInv
<1>6. \A e \in 0 .. Len(log) : KnownLeaves(LeavesAt(e), made')
  BY <1>1, KnownGrows, Zenon DEF KeyInv
<1>7. \A e : LeavesAt(e)' = LeavesAt(e)
  BY Zenon DEF LeavesAt, FirstLeaves
<1>8. \A p \in wire : p.key \in 0 .. made'
  BY <1>3, Zenon DEF KeyInv
<1>9. WireInv'
  BY Zenon DEF KeyInv, WireInv
<1>10. options \in Scenarios /\ made' \in 0 .. options.made
  BY <1>1 DEF KeyInv
<1>. QED BY <1>4, <1>5, <1>6, <1>7, <1>8, <1>9, <1>10, Zenon DEF KeyInv

\* A Group whose epoch, leaves and own secrets stay
LEMMA SameSecrets ==
    ASSUME NEW m, NEW g, NEW h, NEW l, Mine(m, g, l),
           h.epoch = g.epoch, h.leaves = g.leaves, h.key = g.key, h.signer = g.signer
    PROVE  Mine(m, h, l)
BY Zenon DEF Mine, Next1

LEMMA SameCaches ==
    ASSUME NEW m, NEW g, NEW h, NEW w, NEW n, Caches(m, g, w, n),
           h.epoch = g.epoch, h.proposals = g.proposals
    PROVE  Caches(m, h, w, n)
BY Zenon DEF Caches

\* A Group that begins a new epoch has cached nothing yet.
LEMMA EmptiedCaches ==
    ASSUME NEW m, NEW g, NEW h, NEW w, NEW n, Caches(m, g, w, n), g.epoch \in Nat,
           h.epoch = g.epoch + 1, h.proposals = {}
    PROVE  Caches(m, h, w, n)
BY DEF Caches, OnePerMember

LEMMA FewerPending ==
    ASSUME NEW m, NEW g, NEW h, NEW l, NEW n, PendingFits(m, g, l, n),
           h.pending_commit \in {{}, g.pending_commit}
    PROVE  PendingFits(m, h, l, n)
BY SMTT(20) DEF PendingFits

LEMMA ProposeUpdateKeys ==
    ASSUME GroupInv, KeyInv, NEW m \in Members, ProposeUpdate(m)
    PROVE  KeyInv'
<1>. DEFINE g == group[m]
            p == [by |-> m, epoch |-> g.epoch, key |-> made + 1, remove |-> {}]
            h == [g EXCEPT !.proposals = @ \cup {p}, !.pending_updates = @ \cup {p.key}]
<1>0. /\ made \in Nat /\ options.made \in Nat /\ DOMAIN g = Fields
      /\ Caches(m, g, wire, made) /\ PendingFits(m, g, log, made)
      /\ m \notin removed /\ Mine(m, g, log)
      /\ made < options.made /\ made' = made + 1
      /\ UNCHANGED <<options, stored, detached, wire, log, removed, faults>>
      /\ \A q \in g.proposals : q.by # m
  BY KeyFacts, Zenon DEF ProposeUpdate, Active
<1>1. group' = [group EXCEPT ![m] = h]
  BY <1>0, Zenon DEF ProposeUpdate, Fields
<1>2. /\ h.epoch = g.epoch /\ h.leaves = g.leaves /\ h.key = g.key /\ h.signer = g.signer
      /\ h.pending_commit = g.pending_commit /\ h.proposals = g.proposals \cup {p}
  BY <1>0, Zenon DEF Fields
<1>3. /\ p.by = m /\ p.epoch = g.epoch /\ p.key = made + 1
  BY Zenon
<1>. HIDE DEF p, h
<1>4. Mine(m, h, log)
  BY <1>0, <1>2, SameSecrets, Zenon
<1>5. Caches(m, h, wire, made')
  <2>1. Caches(m, g, wire, made')
    BY <1>0, KnownGrows
  <2>2. made + 1 \in 0 .. made'
    BY <1>0
  <2>3. OnePerMember(h.proposals)
    BY <1>0, <1>2, <1>3, <2>1, Zenon DEF Caches, OnePerMember
  <2>4. \A q \in h.proposals : q.epoch = h.epoch /\ q.key \in 0 .. made' /\ (q.by # m => q \in wire)
    BY <1>2, <1>3, <2>1, <2>2, Zenon DEF Caches
  <2>5. \A q \in wire : q.by = m => q.epoch \in 0 .. h.epoch /\ (q.epoch = h.epoch => q \in h.proposals)
    BY <1>2, <2>1, Zenon DEF Caches
  <2>. QED BY <2>3, <2>4, <2>5, Zenon DEF Caches
<1>6. PendingFits(m, h, log, made')
  <2>1. PendingFits(m, g, log, made')
    BY <1>0, KnownGrows
  <2>. QED BY <1>2, <2>1, FewerPending, Zenon
<1>7. made' \in made .. options.made /\ faults' \in 0 .. options.faults
  BY <1>0 DEF KeyInv
<1>. QED BY <1>0, <1>1, <1>4, <1>5, <1>6, <1>7, OneGroupKeys, Zenon

LEMMA ProcessProposalKeys ==
    ASSUME GroupInv, KeyInv, NEW m \in Members, NEW p \in wire, process_proposal(m, p)
    PROVE  KeyInv'
<1>. DEFINE g == group[m]
            h == [g EXCEPT !.proposals = @ \cup {p}]
<1>0. /\ made \in Nat /\ options.made \in Nat /\ DOMAIN g = Fields
      /\ Caches(m, g, wire, made) /\ PendingFits(m, g, log, made)
      /\ m \notin removed /\ Mine(m, g, log)
      /\ UNCHANGED <<options, stored, detached, wire, log, removed, made, faults>>
      /\ p \notin g.proposals /\ p.epoch = g.epoch
  BY KeyFacts, Zenon DEF process_proposal, Active
<1>1. group' = [group EXCEPT ![m] = h]
  BY <1>0, Zenon DEF process_proposal, Fields
<1>2. /\ h.epoch = g.epoch /\ h.leaves = g.leaves /\ h.key = g.key /\ h.signer = g.signer
      /\ h.pending_commit = g.pending_commit /\ h.proposals = g.proposals \cup {p}
  BY <1>0, Zenon DEF Fields
<1>. HIDE DEF h
<1>4. Mine(m, h, log)
  BY <1>0, <1>2, SameSecrets, Zenon
<1>5. Caches(m, h, wire, made)
  <2>1. p.by # m
    BY <1>0, Zenon DEF Caches
  <2>2. \A q \in g.proposals : q.by = p.by /\ p.by \in Members => q = p
    BY <1>0, <2>1 DEF Caches, KeyInv, WireInv
  <2>3. OnePerMember(h.proposals)
    BY <1>0, <1>2, <2>2, Zenon DEF Caches, OnePerMember
  <2>4. \A q \in h.proposals : q.epoch = h.epoch /\ q.key \in 0 .. made /\ (q.by # m => q \in wire)
    BY <1>0, <1>2 DEF Caches, KeyInv
  <2>5. \A q \in wire : q.by = m => q.epoch \in 0 .. h.epoch /\ (q.epoch = h.epoch => q \in h.proposals)
    BY <1>0, <1>2, Zenon DEF Caches
  <2>. QED BY <2>3, <2>4, <2>5, Zenon DEF Caches
<1>6. PendingFits(m, h, log, made)
  BY <1>0, <1>2, FewerPending, Zenon
<1>7. made' \in made .. options.made /\ faults' \in 0 .. options.faults
  BY <1>0 DEF KeyInv
<1>. QED BY <1>0, <1>1, <1>4, <1>5, <1>6, <1>7, OneGroupKeys, Zenon

LEMMA WithLeavesFields ==
    ASSUME NEW leaves, NEW r
    PROVE  LET c == WithLeaves(leaves, r)
           IN  /\ c.id = r.id /\ c.epoch = r.epoch /\ c.by = r.by /\ c.refs = r.refs
               /\ c.remove = r.remove /\ c.path = r.path /\ c.leaf = r.leaf
BY Zenon DEF WithLeaves

\* The commits that commit_internal can make
LEMMA CommitInternalCases ==
    ASSUME NEW m \in Members, NEW c \in commit_internal(m)
    PROVE  \E remove, reinit, path :
                /\ c = CommitBy(m, group[m], remove, reinit, path)
                /\ path = TRUE \/ (Refs(m, group[m]) = {} /\ remove = {})
BY Zenon DEF commit_internal

\* A commit of m that may still be applied is built on secrets that match.
LEMMA BuiltFits ==
    ASSUME GroupInv, KeyInv, NEW m \in Members, m \notin removed, NEW c \in commit_internal(m)
    PROVE  Proper(c, made + 1) /\ Fits(m, Pending(group[m], c), log)
<1>. DEFINE g == group[m]
<1>0. /\ made \in Nat /\ Len(log) \in Nat /\ g.epoch \in Nat /\ g.epoch \in 0 .. Len(log)
      /\ Caches(m, g, wire, made) /\ Mine(m, g, log) /\ KnownLeaves(g.leaves, made)
      /\ m \in DOMAIN g.leaves
  BY KeyFacts, Zenon DEF Mine
<1>1. PICK remove, reinit, path :
          /\ c = CommitBy(m, g, remove, reinit, path)
          /\ path = TRUE \/ (Refs(m, g) = {} /\ remove = {})
  BY CommitInternalCases, Zenon
<1>2. /\ c.id = made + 1 /\ c.by = m /\ c.refs = Refs(m, g) /\ c.path = path
      /\ c.remove = remove \cup RemovedBy(Refs(m, g)) /\ c.epoch = g.epoch
      /\ c.leaf = [key |-> made + 1, signer |-> g.leaves[m].signer]
      /\ c.leaves = apply_resolved(g.leaves, c)
  <2>. DEFINE r == [id |-> made + 1, epoch |-> g.epoch, by |-> m, refs |-> Refs(m, g),
                    remove |-> remove \cup RemovedBy(Refs(m, g)), reinit |-> reinit,
                    external |-> FALSE, path |-> path,
                    leaf |-> [key |-> made + 1, signer |-> g.leaves[m].signer]]
  <2>1. c = WithLeaves(g.leaves, r)
    BY <1>1, Zenon DEF CommitBy
  <2>2. /\ r.id = made + 1 /\ r.by = m /\ r.refs = Refs(m, g) /\ r.path = path
        /\ r.remove = remove \cup RemovedBy(Refs(m, g)) /\ r.epoch = g.epoch
        /\ r.leaf = [key |-> made + 1, signer |-> g.leaves[m].signer]
    BY Zenon
  <2>. HIDE DEF r
  <2>. QED BY <2>1, <2>2, WithLeavesSound, WithLeavesFields
<1>3. ~c.path => c.refs = {} /\ c.remove = {}
  BY <1>1, <1>2 DEF RemovedBy
<1>4. c.leaf \in LeafUpTo(made + 1)
  <2>1. g.leaves[m] \in LeafUpTo(made)
    BY <1>0, Zenon DEF KnownLeaves
  <2>2. g.leaves[m].signer \in 0 .. made
    BY <2>1, Zenon DEF LeafUpTo
  <2>3. made + 1 \in 0 .. made + 1 /\ g.leaves[m].signer \in 0 .. made + 1
    BY <1>0, <2>2
  <2>. QED BY <1>2, <2>3 DEF LeafUpTo
<1>5. \A p \in c.refs : p.by # m /\ m \notin p.remove /\ p.key \in 0 .. made + 1 /\ p \in g.proposals
  <2>1. \A p \in g.proposals : p.key \in 0 .. made
    BY <1>0, Zenon DEF Caches
  <2>2. 0 .. made \subseteq 0 .. made + 1
    BY <1>0
  <2>. QED BY <1>2, <2>1, <2>2, Zenon DEF Refs
<1>6. Proper(c, made + 1)
  <2>1. c.id \in 1 .. made + 1
    BY <1>0, <1>2
  <2>. QED BY <1>2, <1>3, <1>4, <1>5, <2>1, Zenon DEF Proper
<1>7. ASSUME c.epoch = Len(log)
      PROVE  /\ m \in DOMAIN c.leaves
             /\ Pending(g, c).key = c.leaves[m].key /\ Pending(g, c).signer = c.leaves[m].signer
  <2>1. g.key = g.leaves[m].key /\ g.signer = g.leaves[m].signer
    BY <1>0, <1>2, <1>7 DEF Mine, Next1
  <2>2. /\ Pending(g, c).key = IF c.path THEN c.leaf.key ELSE g.key
        /\ Pending(g, c).signer = g.signer
    BY Zenon DEF Pending
  <2>3. CASE c.path
    <3>1. m \in DOMAIN c.leaves /\ c.leaves[m] = c.leaf
      BY <1>2, <2>3, Zenon DEF apply_resolved
    <3>. QED BY <1>2, <2>1, <2>2, <2>3, <3>1
  <2>4. CASE ~c.path
    <3>1. m \in DOMAIN c.leaves /\ c.leaves[m] = g.leaves[m]
      BY <1>0, <1>2, <1>3, <2>4, Zenon DEF apply_resolved
    <3>. QED BY <2>1, <2>2, <2>4, <3>1, Zenon
  <2>. QED BY <2>3, <2>4, Zenon
<1>8. ASSUME c.epoch < Len(log) PROVE log[c.epoch + 1] # c
  <2>1. c.epoch + 1 \in 1 .. Len(log)
    BY <1>0, <1>2, <1>8
  <2>2. log[c.epoch + 1].id \in 1 .. made
    BY <2>1, Zenon DEF KeyInv, Proper
  <2>. QED BY <1>0, <1>2, <2>2
<1>9. Pending(g, c).commit = c
  BY Zenon DEF Pending
<1>. QED BY <1>6, <1>7, <1>8, <1>9, Zenon DEF Fits

LEMMA BuildKeys ==
    ASSUME GroupInv, KeyInv, NEW m \in Members, Build(m)
    PROVE  KeyInv'
<1>. DEFINE g == group[m]
<1>0. /\ made \in Nat /\ options.made \in Nat /\ DOMAIN g = Fields
      /\ Caches(m, g, wire, made) /\ PendingFits(m, g, log, made)
      /\ m \notin removed /\ Mine(m, g, log)
      /\ made < options.made /\ made' = made + 1
      /\ UNCHANGED <<options, stored, detached, wire, log, removed, faults>>
  BY KeyFacts, Zenon DEF Build, CanCommit, Active
<1>1. PICK c \in commit_internal(m) :
          group' = [group EXCEPT ![m].pending_commit = {Pending(group[m], c)}]
  BY Zenon DEF Build
<1>2. Proper(c, made') /\ Fits(m, Pending(g, c), log) /\ Pending(g, c).commit = c
  BY <1>0, BuiltFits, Zenon DEF Pending
<1>. DEFINE h == [g EXCEPT !.pending_commit = {Pending(g, c)}]
<1>3. /\ h.epoch = g.epoch /\ h.leaves = g.leaves /\ h.key = g.key /\ h.signer = g.signer
      /\ h.proposals = g.proposals /\ h.pending_commit = {Pending(g, c)}
  BY <1>0, Zenon DEF Fields
<1>4. group' = [group EXCEPT ![m] = h]
  BY <1>1, Zenon
<1>. HIDE DEF h
<1>5. PendingFits(m, h, log, made')
  BY <1>2, <1>3, Zenon DEF PendingFits
<1>6. Caches(m, h, wire, made')
  <2>1. Caches(m, g, wire, made')
    BY <1>0, KnownGrows
  <2>. QED BY <1>3, <2>1, SameCaches, Zenon
<1>7. Mine(m, h, log)
  BY <1>0, <1>3, SameSecrets, Zenon
<1>8. made' \in made .. options.made /\ faults' \in 0 .. options.faults
  BY <1>0 DEF KeyInv
<1>. QED BY <1>0, <1>4, <1>5, <1>6, <1>7, <1>8, OneGroupKeys, Zenon

LEMMA BuildDetachedKeys ==
    ASSUME GroupInv, KeyInv, NEW m \in Members, BuildDetached(m)
    PROVE  KeyInv'
<1>. DEFINE g == group[m]
<1>0. /\ made \in Nat /\ options.made \in Nat /\ m \notin removed
      /\ made < options.made /\ made' = made + 1 /\ DOMAIN detached = Members
      /\ UNCHANGED <<options, group, stored, wire, log, removed, faults>>
  BY KeyFacts, GroupFacts, Zenon DEF BuildDetached, CanCommit, Active
<1>1. PICK c \in commit_internal(m) :
          detached' = [detached EXCEPT ![m] = @ \cup {Pending(group[m], c)}]
  BY Zenon DEF BuildDetached
<1>2. Proper(c, made') /\ Fits(m, Pending(g, c), log) /\ Pending(g, c).commit = c
  BY <1>0, BuiltFits, Zenon DEF Pending
<1>3. 0 .. made \subseteq 0 .. made' /\ made' \in Nat /\ made <= made'
  BY <1>0
<1>4. \A n \in Members :
        /\ PendingFits(n, group[n], log, made') /\ PendingFits(n, stored[n], log, made')
        /\ Caches(n, group[n], wire, made') /\ Caches(n, stored[n], wire, made')
        /\ \A p \in detached[n] : Proper(p.commit, made') /\ Fits(n, p, log)
  BY <1>0, <1>3, KnownGrows, Zenon DEF KeyInv
<1>5. \A n \in Members : \A p \in detached'[n] : Proper(p.commit, made') /\ Fits(n, p, log)
  BY <1>0, <1>1, <1>2, <1>4, Zenon
<1>6. \A e \in 1 .. Len(log) : Proper(log[e], made')
  BY <1>0, <1>3, KnownGrows, Zenon DEF KeyInv
<1>7. \A e \in 0 .. Len(log) : KnownLeaves(LeavesAt(e), made')
  BY <1>0, <1>3, KnownGrows, Zenon DEF KeyInv
<1>8. \A e : LeavesAt(e)' = LeavesAt(e)
  BY <1>0, Zenon DEF LeavesAt, FirstLeaves
<1>9. (\A p \in wire : p.key \in 0 .. made') /\ WireInv'
  BY <1>0, <1>3, Zenon DEF KeyInv, WireInv
<1>10. options \in Scenarios /\ made' \in 0 .. options.made
  BY <1>0 DEF KeyInv
<1>11. /\ faults \in 0 .. options.faults
       /\ \A n \in Members : n \notin removed => Mine(n, group[n], log) /\ Mine(n, stored[n], log)
  BY Zenon DEF KeyInv
<1>. QED BY <1>0, <1>4, <1>5, <1>6, <1>7, <1>8, <1>9, <1>10, <1>11, Zenon DEF KeyInv

\* Applying one's own commit, from pending_commit or from CommitSecrets
LEMMA ApplyKeys ==
    ASSUME GroupInv, KeyInv, NEW m \in Members, m \notin removed, HasNext(group[m]),
           NEW p, p.commit = NextCommit(group[m]), Fits(m, p, log),
           NEW h \in {apply_detached_commit(group[m], p), apply_pending_commit(group[m], p)}
    PROVE  PendingFits(m, h, log, made) /\ Caches(m, h, wire, made) /\ Mine(m, h, log)
<1>. DEFINE g == group[m]
<1>0. /\ made \in Nat /\ Len(log) \in Nat /\ g.epoch \in Nat /\ DOMAIN g = Fields
      /\ Caches(m, g, wire, made) /\ PendingFits(m, g, log, made)
  BY KeyFacts, Zenon
<1>1. p.commit.epoch = g.epoch /\ g.epoch < Len(log) /\ log[g.epoch + 1] = p.commit
  BY NextCommitEpoch, GroupFacts, Zenon DEF GroupInv, HasNext, NextCommit
<1>2. /\ m \in DOMAIN p.commit.leaves
      /\ p.key = p.commit.leaves[m].key /\ p.signer = p.commit.leaves[m].signer
  BY <1>1, Zenon DEF Fits
<1>3. /\ h.epoch = g.epoch + 1 /\ h.leaves = p.commit.leaves /\ h.proposals = {}
      /\ h.key = p.key /\ h.signer = p.signer /\ h.pending_commit \in {{}, g.pending_commit}
  BY <1>0, <1>1, ZenonT(30) DEF apply_detached_commit, apply_pending_commit, Fields
<1>4. Mine(m, h, log)
  BY <1>2, <1>3, Zenon DEF Mine
<1>5. Caches(m, h, wire, made)
  BY <1>0, <1>3, EmptiedCaches, Zenon
<1>6. PendingFits(m, h, log, made)
  BY <1>0, <1>3, FewerPending, Zenon
<1>. QED BY <1>4, <1>5, <1>6, Zenon

\* The state of h and of g but for the secrets
SameBut(h, g) ==
    /\ h.epoch = g.epoch /\ h.leaves = g.leaves /\ h.proposals = g.proposals
    /\ h.pending_commit = g.pending_commit /\ DOMAIN h = Fields

\* What process_commit leaves behind at each of its stages
LEMMA StageFields ==
    ASSUME NEW g, NEW m, NEW c, DOMAIN g = Fields
    PROVE  /\ SameBut(AfterReInit(g, c), g) /\ SameBut(AfterSigner(g, m, c), g)
           /\ SameBut(AfterPrivateTree(g, m, c), g)
           /\ AfterReInit(g, c).key = g.key /\ AfterReInit(g, c).signer = g.signer
           /\ AfterSigner(g, m, c).key = g.key
           /\ AfterPrivateTree(g, m, c).signer = AfterSigner(g, m, c).signer
           /\ AfterKeySchedule(g, m, c).epoch = g.epoch + 1
           /\ AfterKeySchedule(g, m, c).leaves = apply_resolved(g.leaves, c)
           /\ AfterKeySchedule(g, m, c).proposals = {}
           /\ AfterKeySchedule(g, m, c).pending_commit = {}
           /\ AfterKeySchedule(g, m, c).key = AfterPrivateTree(g, m, c).key
           /\ AfterKeySchedule(g, m, c).signer = AfterPrivateTree(g, m, c).signer
<1>. DEFINE r == AfterReInit(g, c)
            s == AfterSigner(g, m, c)
            t == AfterPrivateTree(g, m, c)
            k == AfterKeySchedule(g, m, c)
<1>1. /\ r.epoch = g.epoch /\ r.leaves = g.leaves /\ r.proposals = g.proposals
      /\ r.pending_commit = g.pending_commit /\ DOMAIN r = Fields
      /\ r.key = g.key /\ r.signer = g.signer
  BY Zenon DEF AfterReInit, Fields
<1>2. /\ s.epoch = r.epoch /\ s.leaves = r.leaves /\ s.proposals = r.proposals
      /\ s.pending_commit = r.pending_commit /\ DOMAIN s = Fields /\ s.key = r.key
  <2> HIDE DEF r
  <2>. QED BY <1>1, Zenon DEF AfterSigner, Fields, r
<1>3. /\ t.epoch = s.epoch /\ t.leaves = s.leaves /\ t.proposals = s.proposals
      /\ t.pending_commit = s.pending_commit /\ DOMAIN t = Fields /\ t.signer = s.signer
  BY <1>2, Zenon DEF AfterPrivateTree, Fields
<1>4. /\ k.epoch = t.epoch + 1 /\ k.leaves = apply_resolved(g.leaves, c) /\ k.proposals = {}
      /\ k.pending_commit = {} /\ k.key = t.key /\ k.signer = t.signer
  BY <1>3, Zenon DEF AfterKeySchedule, Fields
<1>. HIDE DEF r, s, t, k
<1>5. SameBut(r, g) /\ SameBut(s, g) /\ SameBut(t, g)
  BY <1>1, <1>2, <1>3, Zenon DEF SameBut
<1>. QED BY <1>1, <1>2, <1>3, <1>4, <1>5, Zenon DEF r, s, t, k

\* The secrets that process_commit takes from pending_updates
LEMMA StageSecrets ==
    ASSUME NEW g, NEW m, NEW c, DOMAIN g = Fields
    PROVE  /\ c.path => \A p \in OwnUpdate(m, c) : OwnUpdate(m, c) = {p} =>
                AfterSigner(g, m, c).signer = p.key /\ AfterPrivateTree(g, m, c).key = p.key
           /\ ~c.path \/ OwnUpdate(m, c) = {} =>
                /\ AfterSigner(g, m, c).signer = g.signer /\ AfterPrivateTree(g, m, c).key = g.key
<1>1. /\ DOMAIN AfterReInit(g, c) = Fields /\ DOMAIN AfterSigner(g, m, c) = Fields
      /\ AfterReInit(g, c).signer = g.signer /\ AfterSigner(g, m, c).key = g.key
  BY StageFields DEF SameBut
<1>2. ~c.path \/ OwnUpdate(m, c) = {} =>
          /\ AfterSigner(g, m, c).signer = g.signer /\ AfterPrivateTree(g, m, c).key = g.key
  BY <1>1, Zenon DEF AfterSigner, AfterPrivateTree
<1>3. ASSUME c.path, NEW p \in OwnUpdate(m, c), OwnUpdate(m, c) = {p}
      PROVE  AfterSigner(g, m, c).signer = p.key /\ AfterPrivateTree(g, m, c).key = p.key
  <2>1. (CHOOSE q \in OwnUpdate(m, c) : TRUE) = p
    BY <1>3, Zenon
  <2>2. AfterSigner(g, m, c).signer = p.key
    BY <1>1, <1>3, <2>1, Zenon DEF AfterSigner, Fields
  <2>3. AfterPrivateTree(g, m, c).key = p.key
    BY <1>1, <1>3, <2>1, Zenon DEF AfterPrivateTree, Fields
  <2>. QED BY <2>2, <2>3, Zenon
<1>. QED BY <1>2, <1>3, Zenon

LEMMA ProcessCommitKeys ==
    ASSUME GroupInv, KeyInv, NEW m \in Members, m \notin removed, HasNext(group[m]), NEW fault,
           NEW h, h = process_commit(group[m], m, NextCommit(group[m]), fault)
    PROVE  PendingFits(m, h, log, made) /\ Caches(m, h, wire, made) /\ Mine(m, h, log)
<1>. DEFINE g == group[m]
            c == NextCommit(g)
            r == AfterReInit(g, c)
            s == AfterSigner(g, m, c)
            t == AfterPrivateTree(g, m, c)
            k == AfterKeySchedule(g, m, c)
<1>1. h = g \/ (/\ c.refs \subseteq g.proposals /\ m \notin c.remove
                /\ h = r \/ h = s \/ h = t \/ (h = k /\ ~(c.path /\ c.by = m)))
  BY Zenon DEF process_commit
<1>. HIDE DEF r, s, t, k
<1>2. /\ made \in Nat /\ Len(log) \in Nat /\ g.epoch \in Nat /\ DOMAIN g = Fields
      /\ Caches(m, g, wire, made) /\ PendingFits(m, g, log, made) /\ Mine(m, g, log)
      /\ m \in DOMAIN g.leaves
  BY KeyFacts, Zenon DEF Mine
<1>3. /\ c.epoch = g.epoch /\ g.epoch < Len(log) /\ log[g.epoch + 1] = c
      /\ c.leaves = apply_resolved(g.leaves, c)
  <2>1. c.epoch = g.epoch /\ Sound(c) /\ g.leaves = LeavesAt(g.epoch)
    BY NextCommitEpoch, GroupFacts, KeyFacts, Zenon DEF GroupInv
  <2>. QED BY <2>1, Zenon DEF Sound, HasNext, NextCommit
<1>4. Proper(c, made)
  <2>1. g.epoch + 1 \in 1 .. Len(log)
    BY <1>2, <1>3, SMTT(20)
  <2>. QED BY <2>1, <1>3, Zenon DEF KeyInv
<1>. HIDE DEF g, c
<1>5. /\ SameBut(r, g) /\ SameBut(s, g) /\ SameBut(t, g) /\ r.key = g.key /\ r.signer = g.signer
      /\ s.key = g.key /\ t.signer = s.signer
      /\ k.epoch = g.epoch + 1 /\ k.leaves = c.leaves /\ k.proposals = {}
      /\ k.pending_commit = {} /\ k.key = t.key /\ k.signer = t.signer
  BY <1>2, <1>3, StageFields DEF r, s, t, k
<1>6. /\ \A p \in OwnUpdate(m, c) : c.path /\ OwnUpdate(m, c) = {p} => s.signer = p.key /\ t.key = p.key
      /\ ~c.path \/ OwnUpdate(m, c) = {} => s.signer = g.signer /\ t.key = g.key
  BY <1>2, StageSecrets DEF s, t
<1>7. ASSUME NEW x, SameBut(x, g)
      PROVE  PendingFits(m, x, log, made) /\ Caches(m, x, wire, made)
  <2>1. PendingFits(m, x, log, made)
    BY <1>2, <1>7, FewerPending, Zenon DEF SameBut
  <2>. QED BY <1>2, <1>7, <2>1, SameCaches, Zenon DEF SameBut
<1>8. PendingFits(m, k, log, made) /\ Caches(m, k, wire, made)
  BY <1>2, <1>5, FewerPending, EmptiedCaches, Zenon
<1>9. ASSUME c.refs \subseteq g.proposals, m \notin c.remove
      PROVE  /\ Mine(m, r, log) /\ Mine(m, s, log) /\ Mine(m, t, log)
             /\ ~(c.path /\ c.by = m) => Mine(m, k, log)
  <2>1. OnePerMember(c.refs)
    BY <1>2, <1>9, Zenon DEF Caches, OnePerMember
  <2>2. ~c.path => c.refs = {}
    BY <1>4, Zenon DEF Proper
  <2>3. /\ m \in DOMAIN c.leaves
        /\ c.by # m => \A p \in c.refs : p.by = m => c.leaves[m] = [key |-> p.key, signer |-> p.key]
        /\ ~(c.path /\ m = c.by) /\ (\A p \in c.refs : p.by # m) => c.leaves[m] = g.leaves[m]
    BY <1>2, <1>3, <1>9, <2>1, <2>2, OwnLeaf
  <2>4. Mine(m, r, log)
    BY <1>2, <1>5, SameSecrets, Zenon DEF SameBut
  <2>5. CASE c.path /\ OwnUpdate(m, c) # {}
    <3>1. PICK p \in c.refs : OwnUpdate(m, c) = {p} /\ p.by = m
      BY <2>1, <2>5, Zenon DEF OnePerMember, OwnUpdate
    <3>2. c.by # m
      BY <3>1, <1>4, Zenon DEF Proper
    <3>3. c.leaves[m].key = p.key /\ c.leaves[m].signer = p.key
      <4>1. c.leaves[m] = [key |-> p.key, signer |-> p.key]
        BY <2>3, <3>1, <3>2, Zenon
      <4>. QED BY <4>1
    <3>4. s.signer = p.key /\ t.key = p.key
      BY <1>6, <2>5, <3>1, Zenon
    <3>5. Next1(m, g, log) /\ log[g.epoch + 1].leaves = c.leaves
      BY <1>3, <2>3, Zenon DEF Next1
    <3>6. ASSUME NEW x, SameBut(x, g), x.key \in {g.key, p.key}, x.signer \in {g.signer, p.key}
          PROVE  Mine(m, x, log)
      BY <1>2, <3>3, <3>5, <3>6, Zenon DEF Mine, Next1, SameBut
    <3>7. Mine(m, s, log) /\ Mine(m, t, log)
      BY <1>5, <3>4, <3>6, Zenon
    <3>8. Mine(m, k, log)
      BY <1>5, <2>3, <3>3, <3>4, Zenon DEF Mine
    <3>. QED BY <2>4, <3>7, <3>8, Zenon
  <2>6. CASE ~c.path \/ OwnUpdate(m, c) = {}
    <3>1. \A p \in c.refs : p.by # m
      BY <2>2, <2>6, Zenon DEF OwnUpdate
    <3>2. s.signer = g.signer /\ t.key = g.key
      BY <1>6, <2>6, Zenon
    <3>3. Mine(m, s, log) /\ Mine(m, t, log)
      BY <1>2, <1>5, <3>2, SameSecrets, Zenon DEF SameBut
    <3>4. ASSUME ~(c.path /\ c.by = m) PROVE Mine(m, k, log)
      <4>1. c.leaves[m] = g.leaves[m]
        BY <2>3, <3>1, <3>4, Zenon
      <4>2. g.key = c.leaves[m].key /\ g.signer = c.leaves[m].signer
        BY <1>2, <1>3, <4>1, Zenon DEF Mine
      <4>. QED BY <1>5, <2>3, <3>2, <4>2, Zenon DEF Mine
    <3>. QED BY <2>4, <3>3, <3>4, Zenon
  <2>. QED BY <2>5, <2>6, Zenon
<1>10. CASE h = g
  BY <1>2, <1>10, Zenon
<1>11. CASE c.refs \subseteq g.proposals /\ m \notin c.remove /\ (h = r \/ h = s \/ h = t)
  BY <1>5, <1>7, <1>9, <1>11, Zenon
<1>12. CASE c.refs \subseteq g.proposals /\ m \notin c.remove /\ h = k /\ ~(c.path /\ c.by = m)
  BY <1>8, <1>9, <1>12, Zenon
<1>. QED BY <1>1, <1>10, <1>11, <1>12, Zenon

=============================================================================
