------------------------ MODULE ObservedGroup_proofs ------------------------
(***************************************************************************)
(* Members have the secrets of their leaves, and an external client that   *)
(* follows a group sees the leaves of every epoch that its members see,    *)
(* for any number of members, epochs, commits and faults.                  *)
(*                                                                         *)
(* First, every step of Next keeps KeyInv: the delivery service lets a     *)
(* commit through, a client joins with its own commit, a Group is stored   *)
(* and loaded.  Then the observer.  ObserverAgrees is not inductive: the   *)
(* observer may go back to its snapshot, and moves on with a commit of the *)
(* log whatever the members do.  The inductive invariant compares the      *)
(* observer and its snapshot with the log, and takes from GroupInv that    *)
(* each commit of the log leads from the leaves of one epoch to the leaves *)
(* of the next.                                                            *)
(***************************************************************************)
EXTENDS ObservedGroup, GroupLeaves_proofs

-----------------------------------------------------------------------------

\* Commits and Groups when the log grows
LEMMA LongerLog ==
    ASSUME NEW l, NEW l2, Len(l) \in Nat, Len(l2) = Len(l) + 1,
           \A e \in 1 .. Len(l) : l2[e] = l[e]
    PROVE  /\ \A m, p : Fits(m, p, l) /\ p.commit.epoch \in 0 .. Len(l) => Fits(m, p, l2)
           /\ \A m, g : Mine(m, g, l) /\ g.epoch \in 0 .. Len(l) => Mine(m, g, l2)
<1>1. ASSUME NEW m, NEW p, Fits(m, p, l), p.commit.epoch \in 0 .. Len(l)
      PROVE  Fits(m, p, l2)
  <2>1. p.commit.epoch # Len(l2)
    BY <1>1
  <2>2. CASE p.commit.epoch = Len(l)
    BY <1>1, <2>1, <2>2, Zenon DEF Fits
  <2>3. CASE p.commit.epoch < Len(l)
    <3>1. l2[p.commit.epoch + 1] = l[p.commit.epoch + 1]
      BY <1>1, <2>3
    <3>. QED BY <1>1, <2>1, <2>3, <3>1, Zenon DEF Fits
  <2>. QED BY <1>1, <2>2, <2>3
<1>2. ASSUME NEW m, NEW g, Mine(m, g, l), g.epoch \in 0 .. Len(l)
      PROVE  Mine(m, g, l2)
  <2>1. CASE g.epoch = Len(l)
    BY <1>2, <2>1 DEF Mine, Next1
  <2>2. CASE g.epoch < Len(l)
    <3>1. l2[g.epoch + 1] = l[g.epoch + 1] /\ g.epoch < Len(l2)
      BY <1>2, <2>2
    <3>. QED BY <1>2, <2>2, <3>1, Zenon DEF Mine, Next1
  <2>. QED BY <1>2, <2>1, <2>2
<1>. QED BY <1>1, <1>2, Zenon

\* A commit of the last epoch is let through.
LEMMA LetThroughKeys ==
    ASSUME GroupInv, KeyInv, NEW c, Sound(c), c.epoch = Len(log), log' = Append(log, c),
           made' \in made .. options.made, Proper(c, made')
    PROVE  /\ \A e \in 1 .. Len(log') : Proper(log'[e], made')
           /\ \A e \in 0 .. Len(log') : KnownLeaves(LeavesAt(e)', made')
           /\ \A n \in Members :
                /\ PendingFits(n, group[n], log', made') /\ PendingFits(n, stored[n], log', made')
                /\ Caches(n, group[n], wire, made') /\ Caches(n, stored[n], wire, made')
                /\ \A p \in detached[n] : Proper(p.commit, made') /\ Fits(n, p, log')
                /\ n \notin removed => Mine(n, group[n], log') /\ Mine(n, stored[n], log')
<1>1. /\ Len(log) \in Nat /\ Len(log') = Len(log) + 1 /\ log'[Len(log) + 1] = c
      /\ \A e \in 1 .. Len(log) : log'[e] = log[e]
      /\ \A e \in 0 .. Len(log) : LeavesAt(e)' = LeavesAt(e)
      /\ LeavesAt(Len(log))' = c.leaves
  BY AppendFacts, Zenon DEF GroupInv, LogInv
<1>2. made \in Nat /\ made' \in Nat /\ made <= made'
  BY LifecycleAssumption DEF KeyInv
<1>3. \A e \in 1 .. Len(log') : Proper(log'[e], made')
  BY <1>1, <1>2, KnownGrows DEF KeyInv
<1>4. KnownLeaves(c.leaves, made')
  <2>1. KnownLeaves(LeavesAt(Len(log)), made')
    BY <1>1, <1>2, KnownGrows DEF KeyInv
  <2>2. c.leaves = apply_resolved(LeavesAt(Len(log)), c)
    BY Zenon DEF Sound
  <2>. QED BY <1>2, <2>1, <2>2, AppliedLeaves, Zenon
<1>5. ASSUME NEW e \in 0 .. Len(log') PROVE KnownLeaves(LeavesAt(e)', made')
  <2>1. CASE e \in 0 .. Len(log)
    <3>1. KnownLeaves(LeavesAt(e), made')
      BY <1>2, <2>1, KnownGrows, Zenon DEF KeyInv
    <3>2. LeavesAt(e)' = LeavesAt(e)
      BY <1>1, <2>1, Zenon
    <3>. QED BY <3>1, <3>2, Zenon
  <2>2. CASE e = Len(log')
    <3>1. LeavesAt(e)' = c.leaves
      BY <1>1, <2>2, Zenon
    <3>. QED BY <1>4, <3>1, Zenon
  <2>. QED BY <1>1, <2>1, <2>2
<1>6. ASSUME NEW n \in Members
      PROVE  /\ PendingFits(n, group[n], log', made') /\ PendingFits(n, stored[n], log', made')
             /\ Caches(n, group[n], wire, made') /\ Caches(n, stored[n], wire, made')
             /\ \A p \in detached[n] : Proper(p.commit, made') /\ Fits(n, p, log')
             /\ n \notin removed => Mine(n, group[n], log') /\ Mine(n, stored[n], log')
  <2>0. /\ SoundGroup(group[n]) /\ SoundGroup(stored[n])
        /\ \A p \in detached[n] : Sound(p.commit)
    BY Zenon DEF GroupInv
  <2>1. /\ group[n].epoch \in 0 .. Len(log) /\ stored[n].epoch \in 0 .. Len(log)
        /\ \A p \in group[n].pending_commit : p.commit.epoch \in 0 .. Len(log)
        /\ \A p \in stored[n].pending_commit : p.commit.epoch \in 0 .. Len(log)
        /\ \A p \in detached[n] : p.commit.epoch \in 0 .. Len(log)
    BY <2>0, Zenon DEF SoundGroup, Sound
  <2>2. /\ PendingFits(n, group[n], log, made') /\ PendingFits(n, stored[n], log, made')
        /\ Caches(n, group[n], wire, made') /\ Caches(n, stored[n], wire, made')
        /\ \A p \in detached[n] : Proper(p.commit, made') /\ Fits(n, p, log)
    BY <1>2, KnownGrows, Zenon DEF KeyInv
  <2>3. \A m, p : Fits(m, p, log) /\ p.commit.epoch \in 0 .. Len(log) => Fits(m, p, log')
    BY <1>1, LongerLog, Zenon
  <2>4. PendingFits(n, group[n], log', made') /\ PendingFits(n, stored[n], log', made')
    BY <2>1, <2>2, <2>3, Zenon DEF PendingFits
  <2>5. \A p \in detached[n] : Proper(p.commit, made') /\ Fits(n, p, log')
    BY <2>1, <2>2, <2>3, Zenon
  <2>6. n \notin removed => Mine(n, group[n], log') /\ Mine(n, stored[n], log')
    BY <1>1, <2>1, LongerLog, Zenon DEF KeyInv
  <2>. QED BY <2>2, <2>4, <2>5, <2>6, Zenon
<1>. QED BY <1>3, <1>5, <1>6, Zenon

LEMMA AcceptKeys ==
    ASSUME GroupInv, KeyInv, NEW m \in Members, Accept(m)
    PROVE  KeyInv'
<1>1. PICK p \in stored[m].pending_commit \cup detached[m] :
          p.commit.epoch = Len(log) /\ log' = Append(log, p.commit)
  BY Zenon DEF Accept
<1>2. UNCHANGED <<options, group, stored, detached, wire, removed, made, faults>>
  BY Zenon DEF Accept
<1>3. Sound(p.commit) /\ Proper(p.commit, made')
  BY <1>1, <1>2, Zenon DEF GroupInv, SoundGroup, KeyInv, PendingFits
<1>4. made \in Nat /\ options.made \in Nat /\ made' \in made .. options.made
  BY <1>2, LifecycleAssumption DEF KeyInv
<1>5. /\ \A e \in 1 .. Len(log') : Proper(log'[e], made')
      /\ \A e \in 0 .. Len(log') : KnownLeaves(LeavesAt(e)', made')
      /\ \A n \in Members :
            /\ PendingFits(n, group[n], log', made') /\ PendingFits(n, stored[n], log', made')
            /\ Caches(n, group[n], wire, made') /\ Caches(n, stored[n], wire, made')
            /\ \A q \in detached[n] : Proper(q.commit, made') /\ Fits(n, q, log')
            /\ n \notin removed => Mine(n, group[n], log') /\ Mine(n, stored[n], log')
  BY <1>1, <1>3, <1>4, LetThroughKeys, Zenon
<1>6. /\ options \in Scenarios /\ made \in 0 .. options.made /\ faults \in 0 .. options.faults
      /\ \A q \in wire : q.key \in 0 .. made
      /\ WireInv'
  BY <1>2, Zenon DEF KeyInv, WireInv
<1>. QED BY <1>2, <1>5, <1>6, Zenon DEF KeyInv

\* The joiner starts with the leaf of its own commit, and with nothing on the wire
\* for the epoch its commit begins.
LEMMA ExternalCommitKeys ==
    ASSUME GroupInv, KeyInv, NEW m \in Members, ExternalCommit(m)
    PROVE  KeyInv'
<1>. DEFINE leaf == [key |-> made + 1, signer |-> made + 1]
            r == [id |-> made + 1, epoch |-> Len(log), by |-> m, refs |-> {},
                  remove |-> DOMAIN CurrentLeaves \cap {m}, reinit |-> FALSE,
                  external |-> TRUE, path |-> TRUE, leaf |-> leaf]
            c == WithLeaves(CurrentLeaves, r)
            h == NewGroup(Len(log) + 1, c.leaves, leaf)
<1>0. /\ made \in Nat /\ options.made \in Nat /\ Len(log) \in Nat
      /\ made < options.made /\ made' = made + 1 /\ removed' = removed \ {m}
      /\ UNCHANGED <<options, detached, wire, faults>>
      /\ DOMAIN group = Members /\ DOMAIN stored = Members
      /\ group[m].epoch \in 0 .. Len(log) /\ Caches(m, group[m], wire, made)
  BY KeyFacts, GroupFacts, Zenon DEF ExternalCommit
<1>1. /\ log' = Append(log, c)
      /\ group' = [group EXCEPT ![m] = h] /\ stored' = [stored EXCEPT ![m] = h]
  BY Zenon DEF ExternalCommit
<1>2. /\ c.id = made + 1 /\ c.epoch = Len(log) /\ c.by = m /\ c.refs = {} /\ c.path
      /\ c.leaf = leaf /\ c.leaves = apply_resolved(CurrentLeaves, c)
  <2>1. /\ r.id = made + 1 /\ r.epoch = Len(log) /\ r.by = m /\ r.refs = {} /\ r.path
        /\ r.leaf = leaf
    BY Zenon
  <2> HIDE DEF r
  <2>2. c.leaves = apply_resolved(CurrentLeaves, c)
    BY WithLeavesSound, Zenon
  <2>3. /\ c.id = r.id /\ c.epoch = r.epoch /\ c.by = r.by /\ c.refs = r.refs
        /\ c.path = r.path /\ c.leaf = r.leaf
    BY WithLeavesFields
  <2>. QED BY <2>1, <2>2, <2>3, Zenon
<1>3. leaf \in LeafUpTo(made') /\ leaf.key = made + 1 /\ leaf.signer = made + 1
  BY <1>0 DEF LeafUpTo
<1>4. /\ h.epoch = Len(log) + 1 /\ h.leaves = c.leaves /\ h.key = leaf.key
      /\ h.signer = leaf.signer /\ h.pending_commit = {} /\ h.proposals = {}
  BY Zenon DEF NewGroup
<1>. HIDE DEF leaf, r, c, h
<1>5. Sound(c)
  BY <1>0, <1>2 DEF Sound, CurrentLeaves
<1>6. Proper(c, made')
  BY <1>0, <1>2, <1>3 DEF Proper
<1>7. made' \in made .. options.made
  BY <1>0
<1>8. /\ \A e \in 1 .. Len(log') : Proper(log'[e], made')
      /\ \A e \in 0 .. Len(log') : KnownLeaves(LeavesAt(e)', made')
      /\ \A n \in Members :
            /\ PendingFits(n, group[n], log', made') /\ PendingFits(n, stored[n], log', made')
            /\ Caches(n, group[n], wire, made') /\ Caches(n, stored[n], wire, made')
            /\ \A q \in detached[n] : Proper(q.commit, made') /\ Fits(n, q, log')
            /\ n \notin removed => Mine(n, group[n], log') /\ Mine(n, stored[n], log')
  BY <1>1, <1>2, <1>5, <1>6, <1>7, LetThroughKeys, Zenon
<1>9. PendingFits(m, h, log', made')
  BY <1>4, Zenon DEF PendingFits
<1>10. Caches(m, h, wire, made')
  BY <1>0, <1>4 DEF Caches, OnePerMember
<1>11. Mine(m, h, log')
  <2>1. m \in DOMAIN c.leaves /\ c.leaves[m] = leaf
    BY <1>2, Zenon DEF apply_resolved
  <2>. QED BY <1>4, <2>1, Zenon DEF Mine
<1>12. \A n \in Members : /\ group'[n] = IF n = m THEN h ELSE group[n]
                          /\ stored'[n] = IF n = m THEN h ELSE stored[n]
  BY <1>0, <1>1, Zenon
<1>13. ASSUME NEW n \in Members
       PROVE  /\ PendingFits(n, group'[n], log', made') /\ PendingFits(n, stored'[n], log', made')
              /\ Caches(n, group'[n], wire, made') /\ Caches(n, stored'[n], wire, made')
              /\ n \notin removed' => Mine(n, group'[n], log') /\ Mine(n, stored'[n], log')
  <2>1. CASE n = m
    BY <1>9, <1>10, <1>11, <1>12, <2>1, Zenon
  <2>2. CASE n # m
    BY <1>0, <1>8, <1>12, <2>2, Zenon
  <2>. QED BY <2>1, <2>2, Zenon
<1>14. /\ options \in Scenarios /\ made' \in 0 .. options.made /\ faults \in 0 .. options.faults
       /\ \A q \in wire : q.key \in 0 .. made'
       /\ WireInv'
  BY <1>0 DEF KeyInv, WireInv
<1>. QED BY <1>0, <1>8, <1>13, <1>14, Zenon DEF KeyInv

\* The snapshot becomes the Group, and its own proposals are sent: at most one for
\* its epoch, since what was sent before for this epoch is in the cache.
LEMMA WriteToStorageKeys ==
    ASSUME GroupInv, KeyInv, NEW m \in Members, WriteToStorage(m)
    PROVE  KeyInv'
<1>. DEFINE g == group[m]
            w == {p \in g.proposals : p.by = m}
<1>0. /\ m \notin removed /\ stored' = [stored EXCEPT ![m] = g] /\ wire' = wire \cup w
      /\ UNCHANGED <<options, group, detached, log, removed, made, faults>>
      /\ DOMAIN stored = Members /\ made \in Nat /\ g.epoch \in Nat
      /\ Caches(m, g, wire, made)
  BY KeyFacts, GroupFacts, Zenon DEF WriteToStorage, Active
<1>1. \A p \in w : p \in g.proposals /\ p.by = m /\ p.epoch = g.epoch /\ p.key \in 0 .. made
  BY <1>0, Zenon DEF Caches
<1>. HIDE DEF w
<1>2. ASSUME NEW p \in wire', NEW q \in wire', p.by = q.by, p.epoch = q.epoch, p.by \in Members
      PROVE  p = q
  <2>1. CASE p.by = m /\ p.epoch = g.epoch
    <3>1. p \in g.proposals /\ q \in g.proposals
      BY <1>0, <1>1, <1>2, <2>1, Zenon DEF Caches
    <3>. QED BY <1>0, <1>2, <3>1, Zenon DEF Caches, OnePerMember
  <2>2. CASE ~(p.by = m /\ p.epoch = g.epoch)
    <3>1. p \in wire /\ q \in wire
      BY <1>0, <1>1, <1>2, <2>2, Zenon
    <3>. QED BY <1>2, <3>1, Zenon DEF KeyInv, WireInv
  <2>. QED BY <2>1, <2>2, Zenon
<1>3. WireInv'
  BY <1>2, Zenon DEF WireInv
<1>4. \A p \in wire' : p.key \in 0 .. made
  BY <1>0, <1>1, Zenon DEF KeyInv
<1>5. Caches(m, g, wire', made)
  <2>1. OnePerMember(g.proposals)
    BY <1>0, Zenon DEF Caches
  <2>2. \A p \in g.proposals : p.epoch = g.epoch /\ p.key \in 0 .. made /\ (p.by # m => p \in wire')
    BY <1>0, Zenon DEF Caches
  <2>3. \A p \in wire' : p.by = m =>
            p.epoch \in 0 .. g.epoch /\ (p.epoch = g.epoch => p \in g.proposals)
    BY <1>0, <1>1 DEF Caches
  <2>. QED BY <2>1, <2>2, <2>3, Zenon DEF Caches
<1>6. ASSUME NEW n \in Members, n # m, NEW k, Caches(n, k, wire, made)
      PROVE  Caches(n, k, wire', made)
  <2>1. \A p \in wire' : p.by = n => p \in wire
    BY <1>0, <1>1, <1>6, Zenon
  <2>2. OnePerMember(k.proposals)
    BY <1>6, Zenon DEF Caches
  <2>3. \A p \in k.proposals : p.epoch = k.epoch /\ p.key \in 0 .. made /\ (p.by # n => p \in wire')
    BY <1>0, <1>6, Zenon DEF Caches
  <2>4. \A p \in wire' : p.by = n =>
            p.epoch \in 0 .. k.epoch /\ (p.epoch = k.epoch => p \in k.proposals)
    BY <1>6, <2>1, Zenon DEF Caches
  <2>. QED BY <2>2, <2>3, <2>4, Zenon DEF Caches
<1>7. ASSUME NEW n \in Members
      PROVE  /\ PendingFits(n, group[n], log, made) /\ PendingFits(n, stored'[n], log, made)
             /\ Caches(n, group[n], wire', made) /\ Caches(n, stored'[n], wire', made)
             /\ \A q \in detached[n] : Proper(q.commit, made) /\ Fits(n, q, log)
             /\ n \notin removed => Mine(n, group[n], log) /\ Mine(n, stored'[n], log)
  <2>1. stored'[n] = IF n = m THEN g ELSE stored[n]
    BY <1>0, Zenon
  <2>2. /\ PendingFits(n, group[n], log, made) /\ PendingFits(n, stored[n], log, made)
        /\ Caches(n, group[n], wire, made) /\ Caches(n, stored[n], wire, made)
        /\ \A q \in detached[n] : Proper(q.commit, made) /\ Fits(n, q, log)
        /\ n \notin removed => Mine(n, group[n], log) /\ Mine(n, stored[n], log)
    BY Zenon DEF KeyInv
  <2>3. CASE n = m
    BY <1>5, <2>1, <2>2, <2>3, Zenon
  <2>4. CASE n # m
    BY <1>6, <2>1, <2>2, <2>4, Zenon
  <2>. QED BY <2>3, <2>4, Zenon
<1>8. \A e : LeavesAt(e)' = LeavesAt(e)
  BY <1>0, Zenon DEF LeavesAt, FirstLeaves
<1>9. /\ options \in Scenarios /\ made \in 0 .. options.made /\ faults \in 0 .. options.faults
      /\ \A e \in 1 .. Len(log) : Proper(log[e], made)
      /\ \A e \in 0 .. Len(log) : KnownLeaves(LeavesAt(e), made)
  BY Zenon DEF KeyInv
<1>. QED BY <1>0, <1>3, <1>4, <1>7, <1>8, <1>9, Zenon DEF KeyInv

LEMMA InitKeyInv ==
    ASSUME Init
    PROVE  KeyInv
<1>. DEFINE leaf == [key |-> 0, signer |-> 0]
            h == NewGroup(0, FirstLeaves, leaf)
<1>0. /\ log = <<>> /\ Len(log) = 0 /\ made = 0 /\ faults = 0 /\ wire = {}
      /\ options \in Scenarios /\ removed = Members \ Founders
      /\ \A m \in Members : group[m] = h /\ stored[m] = h /\ detached[m] = {}
  BY Zenon DEF Init
<1>1. options.made \in Nat /\ options.faults \in Nat
  BY <1>0, LifecycleAssumption, Zenon
<1>2. /\ h.epoch = 0 /\ h.leaves = FirstLeaves /\ h.key = 0 /\ h.signer = 0
      /\ h.pending_commit = {} /\ h.proposals = {}
  BY Zenon DEF NewGroup
<1>. HIDE DEF h
<1>3. KnownLeaves(FirstLeaves, 0)
  BY LifecycleAssumption DEF KnownLeaves, FirstLeaves, LeafUpTo
<1>4. \A m : PendingFits(m, h, log, 0) /\ Caches(m, h, {}, 0)
  BY <1>2, Zenon DEF PendingFits, Caches, OnePerMember
<1>5. \A m \in Founders : Mine(m, h, log)
  BY <1>2 DEF Mine, FirstLeaves
<1>6. \A e \in 0 .. Len(log) : LeavesAt(e) = FirstLeaves
  BY <1>0 DEF LeavesAt
<1>7. 0 \in 0 .. options.made /\ 0 \in 0 .. options.faults
  BY <1>1
<1>8. \A e \in 1 .. Len(log) : FALSE
  BY <1>0
<1>. QED BY <1>0, <1>3, <1>4, <1>5, <1>6, <1>7, <1>8, Zenon DEF KeyInv, WireInv

\* A step of one member that makes no key
LEMMA StepKeys ==
    ASSUME GroupInv, KeyInv, NEW m \in Members, NEW h,
           group' = [group EXCEPT ![m] = h], UNCHANGED <<options, stored, detached, wire, log, made>>,
           removed \subseteq removed', faults' \in 0 .. options.faults,
           PendingFits(m, h, log, made), Caches(m, h, wire, made), Mine(m, h, log)
    PROVE  KeyInv'
<1>1. made' \in made .. options.made
  BY Counters
<1>. QED BY <1>1, OneGroupKeys, Zenon

\* A Group that loses its pending commit
LEMMA LostPendingKeys ==
    ASSUME GroupInv, KeyInv, NEW m \in Members, m \notin removed,
           NEW h, h = [group[m] EXCEPT !.pending_commit = {}]
    PROVE  PendingFits(m, h, log, made) /\ Caches(m, h, wire, made) /\ Mine(m, h, log)
<1>. DEFINE g == group[m]
<1>1. /\ DOMAIN g = Fields /\ Caches(m, g, wire, made) /\ PendingFits(m, g, log, made)
      /\ Mine(m, g, log)
  BY KeyFacts, Zenon
<1>2. /\ h.epoch = g.epoch /\ h.leaves = g.leaves /\ h.key = g.key /\ h.signer = g.signer
      /\ h.proposals = g.proposals /\ h.pending_commit = {}
  BY <1>1, Zenon DEF Fields
<1>. QED BY <1>1, <1>2, FewerPending, SameCaches, SameSecrets, Zenon

LEMMA NextKeyInv ==
    ASSUME GroupInv, KeyInv, [Next]_vars
    PROVE  KeyInv'
<1>0. CASE UNCHANGED vars
  BY <1>0, Zenon DEF vars, KeyInv, WireInv, LeavesAt, FirstLeaves
<1>. SUFFICES ASSUME Next
              PROVE  KeyInv'
  BY <1>0, Zenon
<1>. PICK m \in Members :
        \/ ProposeUpdate(m) \/ \E p \in wire : process_proposal(m, p)
        \/ Build(m) \/ BuildDetached(m) \/ Accept(m)
        \/ ApplyPending(m) \/ ApplyPendingFails(m) \/ ApplyDetached(m) \/ ProcessCommit(m)
        \/ \E fault \in options.failing \ {"apply"} : ProcessCommitFails(m, fault)
        \/ clear_pending_commit(m) \/ ExternalCommit(m) \/ WriteToStorage(m) \/ Crash(m)
  BY Zenon DEF Next
<1>a. /\ faults \in 0 .. options.faults
      /\ faults < options.faults => faults + 1 \in 0 .. options.faults
  BY Counters
<1>1. CASE ProposeUpdate(m)
  BY <1>1, ProposeUpdateKeys, Zenon
<1>2. CASE \E p \in wire : process_proposal(m, p)
  BY <1>2, ProcessProposalKeys, Zenon
<1>3. CASE Build(m)
  BY <1>3, BuildKeys, Zenon
<1>4. CASE BuildDetached(m)
  BY <1>4, BuildDetachedKeys, Zenon
<1>5. CASE Accept(m)
  BY <1>5, AcceptKeys, Zenon
<1>6. CASE ApplyPending(m)
  <2>1. PICK p \in group[m].pending_commit :
            /\ p.commit = NextCommit(group[m])
            /\ group' = [group EXCEPT ![m] = apply_pending_commit(group[m], p)]
    BY <1>6, Zenon DEF ApplyPending
  <2>2. /\ m \notin removed /\ HasNext(group[m])
        /\ UNCHANGED <<options, stored, detached, wire, log, removed, made, faults>>
    BY <1>6, Zenon DEF ApplyPending, Active
  <2>3. Fits(m, p, log)
    BY <2>1, Zenon DEF KeyInv, PendingFits
  <2>4. PICK h : h = apply_pending_commit(group[m], p)
    BY Zenon
  <2>5. PendingFits(m, h, log, made) /\ Caches(m, h, wire, made) /\ Mine(m, h, log)
    BY <2>1, <2>2, <2>3, <2>4, ApplyKeys, Zenon
  <2>. QED BY <1>a, <2>1, <2>2, <2>4, <2>5, StepKeys, Zenon
<1>7. CASE ApplyPendingFails(m)
  <2>1. PICK h : h = [group[m] EXCEPT !.pending_commit = {}]
    BY Zenon
  <2>2. /\ m \notin removed /\ group' = [group EXCEPT ![m] = h]
        /\ faults < options.faults /\ faults' = faults + 1
        /\ UNCHANGED <<options, stored, detached, wire, log, removed, made>>
    BY <1>7, <2>1, Zenon DEF ApplyPendingFails, Active
  <2>3. PendingFits(m, h, log, made) /\ Caches(m, h, wire, made) /\ Mine(m, h, log)
    BY <2>1, <2>2, LostPendingKeys, Zenon
  <2>. QED BY <1>a, <2>2, <2>3, StepKeys, Zenon
<1>8. CASE ApplyDetached(m)
  <2>1. PICK p \in detached[m] :
            /\ p.commit = NextCommit(group[m])
            /\ group' = [group EXCEPT ![m] = apply_detached_commit(group[m], p)]
    BY <1>8, Zenon DEF ApplyDetached
  <2>2. /\ m \notin removed /\ HasNext(group[m])
        /\ UNCHANGED <<options, stored, detached, wire, log, removed, made, faults>>
    BY <1>8, Zenon DEF ApplyDetached, Active
  <2>3. Fits(m, p, log)
    BY <2>1, Zenon DEF KeyInv
  <2>4. PICK h : h = apply_detached_commit(group[m], p)
    BY Zenon
  <2>5. PendingFits(m, h, log, made) /\ Caches(m, h, wire, made) /\ Mine(m, h, log)
    BY <2>1, <2>2, <2>3, <2>4, ApplyKeys, Zenon
  <2>. QED BY <1>a, <2>1, <2>2, <2>4, <2>5, StepKeys, Zenon
<1>9. CASE ProcessCommit(m)
  <2>1. PICK h : h = process_commit(group[m], m, NextCommit(group[m]), "none")
    BY Zenon
  <2>2. /\ m \notin removed /\ HasNext(group[m]) /\ group' = [group EXCEPT ![m] = h]
        /\ UNCHANGED <<options, stored, detached, wire, log, made, faults>>
        /\ removed \subseteq removed'
    BY <1>9, <2>1, Zenon DEF ProcessCommit, Active
  <2>3. PendingFits(m, h, log, made) /\ Caches(m, h, wire, made) /\ Mine(m, h, log)
    BY <2>1, <2>2, ProcessCommitKeys, Zenon
  <2>. QED BY <1>a, <2>2, <2>3, StepKeys, Zenon
<1>10. CASE \E fault \in options.failing \ {"apply"} : ProcessCommitFails(m, fault)
  <2>1. PICK fault : ProcessCommitFails(m, fault)
    BY <1>10, Zenon
  <2>2. PICK h : h = process_commit(group[m], m, NextCommit(group[m]), fault)
    BY Zenon
  <2>3. /\ m \notin removed /\ HasNext(group[m]) /\ group' = [group EXCEPT ![m] = h]
        /\ faults < options.faults /\ faults' = faults + 1
        /\ UNCHANGED <<options, stored, detached, wire, log, removed, made>>
    BY <2>1, <2>2, Zenon DEF ProcessCommitFails, Active
  <2>4. PendingFits(m, h, log, made) /\ Caches(m, h, wire, made) /\ Mine(m, h, log)
    BY <2>2, <2>3, ProcessCommitKeys, Zenon
  <2>. QED BY <1>a, <2>3, <2>4, StepKeys, Zenon
<1>11. CASE clear_pending_commit(m)
  <2>1. PICK h : h = [group[m] EXCEPT !.pending_commit = {}]
    BY Zenon
  <2>2. /\ m \notin removed /\ group' = [group EXCEPT ![m] = h]
        /\ UNCHANGED <<options, stored, detached, wire, log, removed, made, faults>>
    BY <1>11, <2>1, Zenon DEF clear_pending_commit, Active
  <2>3. PendingFits(m, h, log, made) /\ Caches(m, h, wire, made) /\ Mine(m, h, log)
    BY <2>1, <2>2, LostPendingKeys, Zenon
  <2>. QED BY <1>a, <2>2, <2>3, StepKeys, Zenon
<1>12. CASE ExternalCommit(m)
  BY <1>12, ExternalCommitKeys, Zenon
<1>13. CASE WriteToStorage(m)
  BY <1>13, WriteToStorageKeys, Zenon
<1>14. CASE Crash(m)
  <2>1. /\ m \notin removed /\ group' = [group EXCEPT ![m] = stored[m]]
        /\ faults < options.faults /\ faults' = faults + 1
        /\ UNCHANGED <<options, stored, detached, wire, log, removed, made>>
    BY <1>14, Zenon DEF Crash, Active
  <2>2. /\ PendingFits(m, stored[m], log, made) /\ Caches(m, stored[m], wire, made)
        /\ Mine(m, stored[m], log)
    BY <2>1, Zenon DEF KeyInv
  <2>. QED BY <1>a, <2>1, <2>2, StepKeys, Zenon
<1>. QED
  BY <1>1, <1>2, <1>3, <1>4, <1>5, <1>6, <1>7, <1>8, <1>9, <1>10, <1>11, <1>12, <1>13, <1>14, Zenon

\* The properties follow from the invariant.
LEMMA KeyInvTypes ==
    ASSUME GroupInv, KeyInv
    PROVE  TypeOK
<1>1. options.made \in Nat /\ made \in Nat /\ made <= options.made
  BY LifecycleAssumption DEF KeyInv
<1>2. LeafUpTo(made) \subseteq Leaf
  <2>1. 0 .. made \subseteq 0 .. options.made
    BY <1>1
  <2>. QED BY <2>1, Zenon DEF LeafUpTo, Leaf
<1>3. ASSUME NEW m \in Members, NEW g \in {group[m], stored[m]}
      PROVE  /\ g.epoch \in 0 .. Len(log)
             /\ DOMAIN g.leaves \subseteq Members
             /\ \A n \in DOMAIN g.leaves : g.leaves[n] \in Leaf
             /\ \A p, q \in g.pending_commit : p = q
             /\ \A p \in g.proposals : p.epoch = g.epoch
             /\ m \notin removed => m \in DOMAIN g.leaves
  <2>1. SoundGroup(g)
    BY GroupFacts, Zenon
  <2>2. g.epoch \in 0 .. Len(log) /\ g.leaves = LeavesAt(g.epoch)
    BY <2>1, Zenon DEF SoundGroup
  <2>3. KnownLeaves(g.leaves, made)
    BY <2>2, Zenon DEF KeyInv
  <2>4. PendingFits(m, g, log, made) /\ Caches(m, g, wire, made) /\ (m \notin removed => Mine(m, g, log))
    BY Zenon DEF KeyInv
  <2>5. \A p, q \in g.pending_commit : p = q
    BY <2>4, Zenon DEF PendingFits
  <2>6. DOMAIN g.leaves \subseteq Members /\ \A n \in DOMAIN g.leaves : g.leaves[n] \in Leaf
    BY <1>2, <2>3, Zenon DEF KnownLeaves
  <2>7. \A p \in g.proposals : p.epoch = g.epoch
    BY <2>4, Zenon DEF Caches
  <2>8. m \notin removed => m \in DOMAIN g.leaves
    BY <2>4, Zenon DEF Mine
  <2>. QED BY <2>2, <2>5, <2>6, <2>7, <2>8, Zenon
<1>5. \A e \in 1 .. Len(log) : log[e].epoch = e - 1
  BY Zenon DEF GroupInv, LogInv
<1>6. made \in 0 .. options.made /\ faults \in 0 .. options.faults
  BY Zenon DEF KeyInv
<1>. QED BY <1>3, <1>5, <1>6, Zenon DEF TypeOK

LEMMA KeyInvSecrets ==
    ASSUME GroupInv, KeyInv
    PROVE  OwnSecretsMatch
<1>1. options.made \in Nat /\ made \in Nat /\ made <= options.made
  BY LifecycleAssumption DEF KeyInv
<1>2. LeafUpTo(made) \subseteq Leaf
  <2>1. 0 .. made \subseteq 0 .. options.made
    BY <1>1
  <2>. QED BY <2>1 DEF LeafUpTo, Leaf
<1>. SUFFICES ASSUME NEW m \in Members, m \notin removed, NEW mine,
                     mine = {group[m].leaves[m]} \cup
                            {l \in Leaf : /\ HasNext(group[m])
                                          /\ m \in DOMAIN NextCommit(group[m]).leaves
                                          /\ l = NextCommit(group[m]).leaves[m]}
              PROVE  /\ group[m].key \in {l.key : l \in mine}
                     /\ group[m].signer \in {l.signer : l \in mine}
  BY Zenon DEF OwnSecretsMatch, Active
<1>. DEFINE g == group[m]
<1>3. Mine(m, g, log) /\ g.epoch \in 0 .. Len(log) /\ Len(log) \in Nat
  BY KeyFacts, Zenon
<1>4. g.leaves[m] \in mine
  BY Zenon
<1>5. Next1(m, g, log) => log[g.epoch + 1].leaves[m] \in mine
  <2>1. SUFFICES ASSUME Next1(m, g, log)
                 PROVE  log[g.epoch + 1].leaves[m] \in mine
    BY Zenon
  <2>2. HasNext(g) /\ NextCommit(g) = log[g.epoch + 1] /\ m \in DOMAIN NextCommit(g).leaves
    BY <2>1, Zenon DEF Next1, HasNext, NextCommit
  <2>3. LeavesAt(g.epoch + 1) = log[g.epoch + 1].leaves /\ g.epoch + 1 \in 0 .. Len(log)
    BY <1>3, <2>1 DEF LeavesAt, Next1
  <2>4. KnownLeaves(log[g.epoch + 1].leaves, made)
    BY <2>3, Zenon DEF KeyInv
  <2>5. NextCommit(g).leaves[m] \in Leaf
    BY <1>2, <2>2, <2>4, Zenon DEF KnownLeaves
  <2>. QED BY <2>2, <2>5, Zenon
<1>. QED BY <1>3, <1>4, <1>5, Zenon DEF Mine

\* Every Group and every snapshot is a tree with its own leaf, one pending commit
\* at most, and proposals of its own epoch, whatever the members do with them.
THEOREM TypeTheorem == Spec => []TypeOK
<1>1. Init => GroupInv /\ KeyInv
  BY InitGroupInv, InitKeyInv, Zenon
<1>2. GroupInv /\ KeyInv /\ [Next]_vars => GroupInv' /\ KeyInv'
  BY NextGroupInv, NextKeyInv, Zenon
<1>3. GroupInv /\ KeyInv => TypeOK
  BY KeyInvTypes
<1>. QED
  BY <1>1, <1>2, <1>3, PTL DEF Spec

\* process_commit sets the signer and the private tree before its last fallible
\* call; a member that crashes, retries, or applies its own commit in between still
\* has the secrets of its leaf in this epoch or the next.
THEOREM SecretsTheorem == Spec => []OwnSecretsMatch
<1>1. Init => GroupInv /\ KeyInv
  BY InitGroupInv, InitKeyInv
<1>2. GroupInv /\ KeyInv /\ [Next]_vars => GroupInv' /\ KeyInv'
  BY NextGroupInv, NextKeyInv
<1>3. GroupInv /\ KeyInv => OwnSecretsMatch
  BY KeyInvSecrets, Zenon
<1>. QED
  BY <1>1, <1>2, <1>3, PTL DEF Spec

ObserverFields == {"epoch", "leaves", "proposals", "pending_reinit"}

\* The commit that led to the epoch of o, or the next one, carries a ReInit.
ReInitSeen(o, l) ==
    \/ o.epoch > 0 /\ l[o.epoch].reinit
    \/ o.epoch < Len(l) /\ l[o.epoch + 1].reinit

\* The state o follows the commits l.
Follows(o, l) ==
    /\ DOMAIN o = ObserverFields
    /\ o.epoch \in 0 .. Len(l)
    /\ o.leaves = IF o.epoch = 0 THEN FirstLeaves ELSE l[o.epoch].leaves
    /\ o.pending_reinit => ReInitSeen(o, l)

FollowInv == \A o \in observer \cup snapshot : Follows(o, log)

-----------------------------------------------------------------------------

\* A step of the observer leaves the members and the log as they are.
LEMMA ObserverLeavesGroup ==
    ASSUME GroupInv, UNCHANGED <<group, stored, detached, log>>
    PROVE  GroupInv'
<1>1. /\ \A d : Sound(d) => Sound(d)'
      /\ \A g : SoundGroup(g) => SoundGroup(g)'
      /\ LogInv'
  BY SoundKept, Zenon DEF GroupInv
<1>2. ASSUME NEW n \in Members
      PROVE  SoundGroup(group[n])' /\ SoundGroup(stored[n])' /\ \A p \in detached'[n] : Sound(p.commit)'
  <2>1. PICK g, k : /\ g = group'[n] /\ SoundGroup(g)
                    /\ k = stored'[n] /\ SoundGroup(k)
    BY Zenon DEF GroupInv
  <2>2. SoundGroup(g)' /\ SoundGroup(k)'
    BY <1>1, <2>1, Zenon
  <2>3. SoundGroup(group[n])' /\ SoundGroup(stored[n])'
    BY <2>1, <2>2, Zenon DEF SoundGroup
  <2>4. ASSUME NEW p \in detached'[n]
        PROVE  Sound(p.commit)'
    BY <1>1, Zenon DEF GroupInv
  <2>. QED
    BY <2>3, <2>4, Zenon
<1>. QED
  BY <1>1, <1>2, Zenon DEF GroupInv

\* Every step of the members keeps the log or appends one commit to it.
LEMMA NextLog ==
    ASSUME Next
    PROVE  log' = log \/ \E c : log' = Append(log, c)
BY Zenon DEF Next, ProposeUpdate, process_proposal, Build, BuildDetached, Accept,
       ApplyPending, ApplyPendingFails, ApplyDetached, ProcessCommit,
       ProcessCommitFails, clear_pending_commit, ExternalCommit, WriteToStorage, Crash

\* What follows the log still does when the log grows.
LEMMA FollowsStays ==
    ASSUME LogInv, NEW c, log' = Append(log, c), NEW o, Follows(o, log)
    PROVE  Follows(o, log')
<1>1. /\ Len(log) \in Nat /\ Len(log') = Len(log) + 1
      /\ \A e \in 1 .. Len(log) : log'[e] = log[e]
  BY AppendFacts, Zenon DEF LogInv
<1>2. o.epoch \in 0 .. Len(log) /\ o.epoch \in 0 .. Len(log')
  BY <1>1 DEF Follows
<1>3. (IF o.epoch = 0 THEN FirstLeaves ELSE log'[o.epoch].leaves)
        = IF o.epoch = 0 THEN FirstLeaves ELSE log[o.epoch].leaves
  BY <1>1, <1>2
<1>4. ReInitSeen(o, log) => ReInitSeen(o, log')
  BY <1>1, <1>2 DEF ReInitSeen
<1>. QED
  BY <1>2, <1>3, <1>4, Zenon DEF Follows

\* GroupState::new from the GroupInfo of a member.
LEMMA JoinFollows ==
    ASSUME NEW g, SoundGroup(g)
    PROVE  Follows(join(g), log)
BY Zenon DEF SoundGroup, Follows, join, ObserverFields, LeavesAt

\* A state whose epoch, leaves and pending_reinit stay follows the log as before.
LEMMA SameFollows ==
    ASSUME NEW o, NEW l, Follows(o, l), NEW q
    PROVE  Follows([o EXCEPT !.proposals = q], l)
BY Zenon DEF Follows, ReInitSeen, ObserverFields

LEMMA WithProposalFollows ==
    ASSUME NEW o, NEW l, Follows(o, l), NEW p
    PROVE  Follows(WithProposal(o, p), l)
BY SameFollows, Zenon DEF WithProposal

\* observe_commit stays in the epoch, possibly with pending_reinit set, or moves on
\* to the leaves that the commit leads to.
LEMMA ObserveCommitFollows ==
    ASSUME LogInv, NEW o, Follows(o, log), HasNext(o), NEW fault
    PROVE  Follows(observe_commit(o, NextCommit(o), fault), log)
<1>. DEFINE c == NextCommit(o)
            r == [o EXCEPT !.pending_reinit = @ \/ c.reinit]
            h == update_key_schedule(r, c)
<1>1. Len(log) \in Nat /\ o.epoch \in Nat /\ o.epoch + 1 \in 1 .. Len(log)
  <2>1. Len(log) \in Nat
    BY DEF LogInv
  <2>. QED
    BY <2>1 DEF Follows, HasNext
<1>2. c = log[o.epoch + 1] /\ c.epoch = o.epoch /\ Sound(c)
  <2>1. c = log[o.epoch + 1]
    BY Zenon DEF NextCommit
  <2>2. log[o.epoch + 1].epoch = o.epoch /\ Sound(log[o.epoch + 1])
    BY <1>1 DEF LogInv
  <2>. QED
    BY <2>1, <2>2, Zenon
<1>3. o.leaves = LeavesAt(o.epoch)
  BY Zenon DEF Follows, LeavesAt
<1>4. c.leaves = apply_resolved(o.leaves, c)
  BY <1>2, <1>3, Zenon DEF Sound
<1>. HIDE DEF c
<1>5. /\ DOMAIN r = ObserverFields /\ r.epoch = o.epoch /\ r.leaves = o.leaves
      /\ r.pending_reinit => o.pending_reinit \/ c.reinit
  BY Zenon DEF Follows, ObserverFields
<1>6. Follows(r, log)
  <2>1. r.pending_reinit => ReInitSeen(r, log)
    BY <1>1, <1>2, <1>5 DEF Follows, ReInitSeen
  <2>. HIDE DEF r
  <2>. QED
    BY <1>5, <2>1, Zenon DEF Follows
<1>7. ASSUME ~o.pending_reinit
      PROVE  Follows(h, log)
  <2>. HIDE DEF r
  <2>1. /\ DOMAIN h = ObserverFields /\ h.epoch = o.epoch + 1
        /\ h.leaves = c.leaves /\ h.pending_reinit = r.pending_reinit
    BY <1>4, <1>5, Zenon DEF update_key_schedule, ObserverFields
  <2>. HIDE DEF h
  <2>2. h.pending_reinit => ReInitSeen(h, log)
    <3>1. h.pending_reinit => c.reinit
      BY <1>5, <1>7, <2>1, Zenon
    <3>. QED
      BY <1>1, <1>2, <2>1, <3>1 DEF ReInitSeen
  <2>. QED
    BY <1>1, <1>2, <2>1, <2>2 DEF Follows
<1>. HIDE DEF r, h
<1>8. observe_commit(o, c, fault) \in {o, r} \/ (~o.pending_reinit /\ observe_commit(o, c, fault) = h)
  BY Zenon DEF observe_commit, r, h
<1>. QED
  BY <1>6, <1>7, <1>8, Zenon DEF c

\* A step of the observer that keeps the log.
LEMMA ObserverStep ==
    ASSUME FollowInv, UNCHANGED log,
           \A o \in observer' \cup snapshot' : Follows(o, log)
    PROVE  FollowInv'
BY Zenon DEF FollowInv

LEMMA InitFollowInv == ASSUME ObservedInit PROVE FollowInv
BY Zenon DEF ObservedInit, FollowInv

LEMMA NextFollowInv ==
    ASSUME GroupInv, FollowInv, [ObservedNext]_all_vars
    PROVE  GroupInv' /\ FollowInv'
<1>1. CASE UNCHANGED all_vars
  BY <1>1, ObserverStep, ObserverLeavesGroup, Zenon DEF all_vars, observed_vars, vars, FollowInv
<1>2. CASE Next /\ UNCHANGED observed_vars
  <2>1. GroupInv'
    BY <1>2, NextGroupInv, Zenon
  <2>2. UNCHANGED <<observer, snapshot>>
    BY <1>2, Zenon DEF observed_vars
  <2>3. CASE log' = log
    BY <2>1, <2>2, <2>3, ObserverStep, Zenon DEF FollowInv
  <2>4. CASE \E c : log' = Append(log, c)
    <3>1. ASSUME NEW o \in observer \cup snapshot
          PROVE  Follows(o, log')
      <4>1. Follows(o, log) /\ LogInv
        BY Zenon DEF GroupInv, FollowInv
      <4>. QED
        BY <2>4, <4>1, FollowsStays, Zenon
    <3>. QED
      BY <2>1, <2>2, <3>1, Zenon DEF FollowInv
  <2>. QED
    BY <1>2, <2>1, <2>3, <2>4, NextLog, Zenon
<1>3. CASE ObserverNext
  <2>1. UNCHANGED <<group, stored, detached, log>>
    BY <1>3, Zenon DEF ObserverNext, Observe, ObserverProposal, insert_proposal, Propose,
           clear_proposal_cache, ObserverCommit, ObserverCommitFails, Snapshot,
           LoadSnapshot, vars
  <2>2. \A o \in observer \cup snapshot : Follows(o, log)
    BY Zenon DEF FollowInv
  <2>3. ASSUME NEW m \in Members, Observe(m)
        PROVE  \A o \in observer' \cup snapshot' : Follows(o, log)
    <3>1. observer' = {join(group[m])} /\ snapshot' = snapshot
      BY <2>3, Zenon DEF Observe
    <3>. QED
      BY <2>2, <3>1, JoinFollows, Zenon DEF GroupInv
  <2>4. ASSUME NEW p
        PROVE  /\ \A o \in observer : Follows(WithProposal(o, p), log)
               /\ \A o \in observer : Follows([o EXCEPT !.proposals = {}], log)
    BY <2>2, WithProposalFollows, SameFollows, Zenon
  <2>5. ASSUME NEW p, ObserverProposal(p) \/ insert_proposal(p)
        PROVE  \A o \in observer' \cup snapshot' : Follows(o, log)
    <3>1. snapshot' = snapshot /\ observer' \subseteq {WithProposal(o, p) : o \in observer}
      BY <2>5, Zenon DEF ObserverProposal, insert_proposal
    <3>. QED
      BY <2>2, <2>4, <3>1, Zenon
  <2>6. ASSUME NEW r, Propose(r)
        PROVE  \A o \in observer' \cup snapshot' : Follows(o, log)
    <3>1. PICK p : \E o \in observer : observer' = {WithProposal(o, p)}
      BY <2>6, Zenon DEF Propose
    <3>2. snapshot' = snapshot
      BY <2>6, Zenon DEF Propose
    <3>. QED
      BY <2>2, <2>4, <3>1, <3>2, Zenon
  <2>7. ASSUME ObserverCommit \/ ObserverCommitFails
        PROVE  \A o \in observer' \cup snapshot' : Follows(o, log)
    <3>1. PICK o \in observer : \E fault :
              HasNext(o) /\ observer' = {observe_commit(o, NextCommit(o), fault)}
      BY <2>7, Zenon DEF ObserverCommit, ObserverCommitFails
    <3>2. snapshot' = snapshot
      BY <2>7, Zenon DEF ObserverCommit, ObserverCommitFails
    <3>3. LogInv
      BY Zenon DEF GroupInv
    <3>. QED
      BY <2>2, <3>1, <3>2, <3>3, ObserveCommitFollows, Zenon
  <2>8. ASSUME clear_proposal_cache \/ Snapshot \/ LoadSnapshot
        PROVE  \A o \in observer' \cup snapshot' : Follows(o, log)
    <3>1. CASE clear_proposal_cache
      BY <2>2, <2>4, <3>1, Zenon DEF clear_proposal_cache
    <3>2. CASE Snapshot \/ LoadSnapshot
      BY <2>2, <3>2, Zenon DEF Snapshot, LoadSnapshot
    <3>. QED
      BY <2>8, <3>1, <3>2, Zenon
  <2>9. \A o \in observer' \cup snapshot' : Follows(o, log)
    BY <1>3, <2>3, <2>5, <2>6, <2>7, <2>8, Zenon DEF ObserverNext
  <2>. QED
    BY <2>1, <2>9, ObserverStep, ObserverLeavesGroup, Zenon
<1>. QED
  BY <1>1, <1>2, <1>3, Zenon DEF ObservedNext

\* An observer that processed the commits of the group (ExternalGroup's
\* process_incoming_message and update_key_schedule), lost its cache, failed half
\* way or started again from a snapshot sees in its epoch the leaves that the
\* members in that epoch see, and has pending_reinit set only by a ReInit that was
\* committed.
THEOREM ObserverTheorem == ObservedSpec => []ObserverAgrees
<1>1. ObservedInit => GroupInv /\ FollowInv
  BY InitGroupInv, InitFollowInv, Zenon DEF ObservedInit
<1>2. GroupInv /\ FollowInv /\ [ObservedNext]_all_vars => GroupInv' /\ FollowInv'
  BY NextFollowInv, Zenon
<1>3. GroupInv /\ FollowInv => ObserverAgrees
  <2>. SUFFICES ASSUME GroupInv, FollowInv, NEW o \in observer
                PROVE  /\ \A m \in Members :
                            Active(m) /\ group[m].epoch = o.epoch => o.leaves = group[m].leaves
                       /\ o.pending_reinit => \/ o.epoch > 0 /\ log[o.epoch].reinit
                                              \/ HasNext(o) /\ NextCommit(o).reinit
    BY Zenon DEF ObserverAgrees
  <2>1. Follows(o, log)
    BY Zenon DEF FollowInv
  <2>2. o.leaves = LeavesAt(o.epoch)
    BY <2>1, Zenon DEF Follows, LeavesAt
  <2>3. \A m \in Members : group[m].leaves = LeavesAt(group[m].epoch)
    BY Zenon DEF GroupInv, SoundGroup
  <2>4. o.pending_reinit => \/ o.epoch > 0 /\ log[o.epoch].reinit
                            \/ HasNext(o) /\ NextCommit(o).reinit
    BY <2>1, Zenon DEF Follows, ReInitSeen, HasNext, NextCommit
  <2>. QED
    BY <2>2, <2>3, <2>4, Zenon
<1>. QED
  BY <1>1, <1>2, <1>3, PTL DEF ObservedSpec


-----------------------------------------------------------------------------
(* What the members are promised does not depend on there being no         *)
(* observer: of what the members read it changes the wire and the counters. *)

\* Proposals that are not a member's, sent by somebody else
LEMMA OthersProposals ==
    ASSUME NEW m \in Members, NEW g, NEW w, NEW w2, NEW n, Caches(m, g, w, n), w \subseteq w2,
           \A p \in w2 \ w : p.by \notin Members
    PROVE  Caches(m, g, w2, n)
<1>1. OnePerMember(g.proposals)
  BY Zenon DEF Caches
<1>2. \A p \in g.proposals : p.epoch = g.epoch /\ p.key \in 0 .. n /\ (p.by # m => p \in w2)
  BY Zenon DEF Caches
<1>3. \A p \in w2 : p.by = m => p.epoch \in 0 .. g.epoch /\ (p.epoch = g.epoch => p \in g.proposals)
  BY Zenon DEF Caches
<1>. QED BY <1>1, <1>2, <1>3, Zenon DEF Caches

LEMMA ObserverKeepsKeys ==
    ASSUME GroupInv, KeyInv, UNCHANGED <<options, group, stored, detached, log, removed>>,
           made' \in made .. options.made, faults' \in 0 .. options.faults,
           wire \subseteq wire',
           \A p \in wire' \ wire : p.by \notin Members /\ p.key \in 0 .. made'
    PROVE  KeyInv'
<1>1. made \in Nat /\ made' \in Nat /\ made <= made' /\ 0 .. made \subseteq 0 .. made'
  BY LifecycleAssumption DEF KeyInv
<1>2. \A n \in Members :
        /\ PendingFits(n, group[n], log, made') /\ PendingFits(n, stored[n], log, made')
        /\ Caches(n, group[n], wire, made') /\ Caches(n, stored[n], wire, made')
        /\ \A p \in detached[n] : Proper(p.commit, made') /\ Fits(n, p, log)
  BY <1>1, KnownGrows, Zenon DEF KeyInv
<1>3. \A n \in Members : Caches(n, group[n], wire', made') /\ Caches(n, stored[n], wire', made')
  BY <1>2, OthersProposals, Zenon
<1>4. \A e \in 1 .. Len(log) : Proper(log[e], made')
  BY <1>1, KnownGrows, Zenon DEF KeyInv
<1>5. \A e \in 0 .. Len(log) : KnownLeaves(LeavesAt(e), made')
  BY <1>1, KnownGrows, Zenon DEF KeyInv
<1>6. \A e : LeavesAt(e)' = LeavesAt(e)
  BY Zenon DEF LeavesAt, FirstLeaves
<1>7. WireInv' /\ \A p \in wire' : p.key \in 0 .. made'
  BY <1>1, Zenon DEF KeyInv, WireInv
<1>8. /\ options \in Scenarios /\ made' \in 0 .. options.made
      /\ \A n \in Members : n \notin removed => Mine(n, group[n], log) /\ Mine(n, stored[n], log)
  BY <1>1 DEF KeyInv
<1>. QED BY <1>2, <1>3, <1>4, <1>5, <1>6, <1>7, <1>8, Zenon DEF KeyInv

LEMMA ObserverNextKeys ==
    ASSUME GroupInv, KeyInv, ObserverNext
    PROVE  KeyInv'
<1>1. UNCHANGED <<options, group, stored, detached, log, removed>>
  BY Zenon DEF ObserverNext, Observe, ObserverProposal, insert_proposal, Propose,
         clear_proposal_cache, ObserverCommit, ObserverCommitFails, Snapshot, LoadSnapshot, vars
<1>2. /\ options.made \in Nat /\ options.faults \in Nat
      /\ made \in 0 .. options.made /\ faults \in 0 .. options.faults
  BY LifecycleAssumption, Zenon DEF KeyInv
<1>3. CASE \E r \in Members : Propose(r)
  <2>1. PICK p : p.by = Observer /\ p.key = made + 1 /\ wire' = wire \cup {p}
    <3>1. PICK r \in Members : Propose(r)
      BY <1>3, Zenon
    <3>2. PICK o \in observer :
              wire' = wire \cup {[by |-> Observer, epoch |-> o.epoch, key |-> made + 1, remove |-> {r}]}
      BY <3>1, Zenon DEF Propose
    <3>. QED BY <3>2, Zenon
  <2>2. made < options.made /\ made' = made + 1 /\ faults' = faults
    BY <1>3, Zenon DEF Propose
  <2>3. made' \in made .. options.made /\ made + 1 \in 0 .. made'
    BY <1>2, <2>2
  <2>. QED BY <1>1, <1>2, <2>1, <2>2, <2>3, ObserverKeepsKeys, ObserverAssumption
<1>4. CASE ~\E r \in Members : Propose(r)
  <2>1. wire' = wire /\ made' = made /\ (faults' = faults \/ (faults < options.faults /\ faults' = faults + 1))
    BY <1>4, Zenon DEF ObserverNext, Observe, ObserverProposal, insert_proposal,
         clear_proposal_cache, ObserverCommit, ObserverCommitFails, Snapshot, LoadSnapshot, vars
  <2>2. made' \in made .. options.made /\ faults' \in 0 .. options.faults
    BY <1>2, <2>1
  <2>. QED BY <1>1, <2>1, <2>2, ObserverKeepsKeys, Zenon
<1>. QED BY <1>3, <1>4, Zenon

LEMMA NextMembers ==
    ASSUME GroupInv, HoldInv, KeyInv, [ObservedNext]_all_vars
    PROVE  GroupInv' /\ HoldInv' /\ KeyInv'
<1>1. CASE (Next \/ UNCHANGED vars)
  BY <1>1, NextGroupInv, NextHoldInv, NextKeyInv, Zenon
<1>2. CASE ObserverNext
  <2>1. UNCHANGED <<options, group, stored, detached, log>>
    BY <1>2, Zenon DEF ObserverNext, Observe, ObserverProposal, insert_proposal, Propose,
           clear_proposal_cache, ObserverCommit, ObserverCommitFails, Snapshot, LoadSnapshot, vars
  <2>2. GroupInv'
    BY <2>1, ObserverLeavesGroup, Zenon
  <2>3. HoldInv'
    BY <2>1, Zenon DEF HoldInv
  <2>4. KeyInv'
    BY <1>2, ObserverNextKeys, Zenon
  <2>. QED BY <2>2, <2>3, <2>4, Zenon
<1>. QED BY <1>1, <1>2, Zenon DEF ObservedNext, all_vars

\* With an observer that proposes removals (propose_remove), loses its cache or
\* starts again, every Group and snapshot of the members is still well formed.
THEOREM ObservedTypeTheorem == ObservedSpec => []TypeOK
<1>1. ObservedInit => GroupInv /\ HoldInv /\ KeyInv
  BY InitGroupInv, InitHoldInv, InitKeyInv, Zenon DEF ObservedInit
<1>2. GroupInv /\ HoldInv /\ KeyInv /\ [ObservedNext]_all_vars => GroupInv' /\ HoldInv' /\ KeyInv'
  BY NextMembers, Zenon
<1>3. GroupInv /\ KeyInv => TypeOK
  BY KeyInvTypes
<1>. QED
  BY <1>1, <1>2, <1>3, PTL DEF ObservedSpec

\* With an observer, what AgreementTheorem, HeldTheorem, PendingTheorem and
\* SecretsTheorem say of the members still holds: process_commit and
\* apply_pending_commit keep members in agreement, with the secrets of their leaves
\* and with the commits that only they can apply.
THEOREM ObservedMembersTheorem ==
    ObservedSpec => [](MembersAgree /\ OwnSecretsMatch /\ OwnCommitHeld /\ PendingIsCurrent)
<1>1. ObservedInit => GroupInv /\ HoldInv /\ KeyInv
  BY InitGroupInv, InitHoldInv, InitKeyInv, Zenon DEF ObservedInit
<1>2. GroupInv /\ HoldInv /\ KeyInv /\ [ObservedNext]_all_vars => GroupInv' /\ HoldInv' /\ KeyInv'
  BY NextMembers
<1>3. GroupInv => MembersAgree
  BY Zenon DEF GroupInv, SoundGroup, MembersAgree
<1>4. GroupInv /\ KeyInv => OwnSecretsMatch
  BY KeyInvSecrets
<1>5. GroupInv /\ HoldInv => OwnCommitHeld
  BY Zenon DEF HoldInv, Holds, Held, OwnCommitHeld, HasNext, NextCommit
<1>6. GroupInv /\ HoldInv => PendingIsCurrent
  BY Zenon DEF HoldInv, Holds, PendingOf, PendingIsCurrent
<1>. QED
  BY <1>1, <1>2, <1>3, <1>4, <1>5, <1>6, PTL DEF ObservedSpec

=============================================================================
