---------------------------- MODULE Group_proofs ----------------------------
(***************************************************************************)
(* Members agree on the leaves of every epoch, for any number of members,  *)
(* epochs, commits and faults.                                             *)
(*                                                                         *)
(* MembersAgree is not inductive: a Group takes its leaves from a pending  *)
(* commit, from its own snapshot, or from what apply_resolved makes of its *)
(* own leaves and a commit of the log.  The inductive invariant says of    *)
(* every commit, pending or let through, that it leads from the leaves of  *)
(* its epoch to the ones it names, and of every snapshot what it says of   *)
(* every Group.                                                            *)
(***************************************************************************)
EXTENDS Group, TLAPS

Fields ==
    {"epoch", "leaves", "key", "signer", "pending_commit", "pending_updates",
     "proposals", "pending_reinit"}

\* A commit made in an epoch the group has reached, from the leaves of that epoch.
Sound(c) ==
    /\ c.epoch \in 0 .. Len(log)
    /\ c.leaves = apply_resolved(LeavesAt(c.epoch), c)

\* A Group that has the leaves of its epoch, and whose pending commits are sound.
SoundGroup(g) ==
    /\ DOMAIN g = Fields
    /\ g.epoch \in 0 .. Len(log)
    /\ g.leaves = LeavesAt(g.epoch)
    /\ \A p \in g.pending_commit : Sound(p.commit)

LogInv ==
    /\ \E S : log \in Seq(S)
    /\ \A e \in 1 .. Len(log) : log[e].epoch = e - 1 /\ Sound(log[e])

GroupInv ==
    /\ LogInv
    /\ DOMAIN group = Members /\ DOMAIN stored = Members /\ DOMAIN detached = Members
    /\ \A m \in Members :
        /\ SoundGroup(group[m]) /\ SoundGroup(stored[m])
        /\ \A p \in detached[m] : Sound(p.commit)

-----------------------------------------------------------------------------

\* apply_resolved reads none of the leaves that WithLeaves adds to a commit.
LEMMA WithLeavesSound ==
    ASSUME NEW leaves, NEW c
    PROVE  /\ WithLeaves(leaves, c).leaves = apply_resolved(leaves, WithLeaves(leaves, c))
           /\ WithLeaves(leaves, c).epoch = c.epoch /\ WithLeaves(leaves, c).by = c.by
BY Zenon DEF WithLeaves, apply_resolved

\* Every commit of commit_internal comes from WithLeaves.
LEMMA CommitInternalSound ==
    ASSUME NEW m \in Members, NEW c \in commit_internal(m), SoundGroup(group[m])
    PROVE  Sound(c) /\ c.epoch = group[m].epoch /\ c.by = m
<1>1. PICK remove, reinit, path : c = CommitBy(m, group[m], remove, reinit, path)
  BY Zenon DEF commit_internal
<1>2. c.leaves = apply_resolved(group[m].leaves, c) /\ c.epoch = group[m].epoch
      /\ c.by = m
  BY <1>1, WithLeavesSound DEF CommitBy
<1>. QED
  BY <1>2, Zenon DEF Sound, SoundGroup

\* A commit appended to the log begins one more epoch and leaves the others alone.
LEMMA AppendFacts ==
    ASSUME NEW c, \E S : log \in Seq(S), log' = Append(log, c)
    PROVE  /\ \E S : log' \in Seq(S)
           /\ Len(log) \in Nat /\ Len(log') = Len(log) + 1
           /\ log'[Len(log) + 1] = c
           /\ \A e \in 1 .. Len(log) : log'[e] = log[e]
           /\ \A e \in 0 .. Len(log) : LeavesAt(e)' = LeavesAt(e)
           /\ LeavesAt(Len(log))' = c.leaves
<1>1. PICK S : log \in Seq(S)
  BY Zenon
<1>2. log \in Seq(S \cup {c})
  BY <1>1
<1>3. log' \in Seq(S \cup {c})
  BY <1>2
<1>4. /\ Len(log) \in Nat /\ Len(log') = Len(log) + 1
      /\ log'[Len(log) + 1] = c
      /\ \A e \in 1 .. Len(log) : log'[e] = log[e]
  BY <1>2
<1>5. \A e \in 0 .. Len(log) : LeavesAt(e)' = LeavesAt(e)
  BY <1>4 DEF LeavesAt, FirstLeaves
<1>6. LeavesAt(Len(log))' = c.leaves
  BY <1>4 DEF LeavesAt, FirstLeaves
<1>. QED
  BY <1>3, <1>4, <1>5, <1>6, Zenon

\* What is sound stays sound when the log grows.
LEMMA SoundStays ==
    ASSUME LogInv, NEW c, log' = Append(log, c)
    PROVE  /\ \A d : Sound(d) => Sound(d)'
           /\ \A g : SoundGroup(g) => SoundGroup(g)'
<1>1. /\ Len(log) \in Nat /\ Len(log') = Len(log) + 1
      /\ \A e \in 0 .. Len(log) : LeavesAt(e)' = LeavesAt(e)
  BY AppendFacts, Zenon DEF LogInv
<1>2. ASSUME NEW d, Sound(d)
      PROVE  Sound(d)'
  BY <1>1, <1>2 DEF Sound, apply_resolved
<1>3. ASSUME NEW g, SoundGroup(g)
      PROVE  SoundGroup(g)'
  BY <1>1, <1>2, <1>3 DEF SoundGroup, Fields
<1>. QED
  BY <1>2, <1>3, Zenon

\* The log stays sound when it grows by a sound commit of the last epoch.
LEMMA LogGrows ==
    ASSUME LogInv, NEW c, Sound(c), c.epoch = Len(log), log' = Append(log, c)
    PROVE  LogInv'
<1>1. /\ \E S : log' \in Seq(S)
      /\ Len(log) \in Nat /\ Len(log') = Len(log) + 1
      /\ log'[Len(log) + 1] = c
      /\ \A e \in 1 .. Len(log) : log'[e] = log[e]
  BY AppendFacts, Zenon DEF LogInv
<1>2. \A d : Sound(d) => Sound(d)'
  BY SoundStays, Zenon
<1>3. ASSUME NEW e \in 1 .. Len(log')
      PROVE  log'[e].epoch = e - 1 /\ Sound(log[e])'
  <2>1. PICK d : d = log'[e] /\ d.epoch = e - 1 /\ Sound(d)
    BY <1>1 DEF LogInv
  <2>2. Sound(d)'
    BY <1>2, <2>1, Zenon
  <2>. QED
    BY <2>1, <2>2, Zenon DEF Sound
<1>. QED
  BY <1>1, <1>3, Zenon DEF LogInv

\* Nothing changes for commits, Groups and the log while the log stays.
LEMMA SoundKept ==
    ASSUME LogInv, UNCHANGED log
    PROVE  /\ \A d : Sound(d) => Sound(d)'
           /\ \A g : SoundGroup(g) => SoundGroup(g)'
           /\ LogInv'
<1>1. \A e : LeavesAt(e)' = LeavesAt(e)
  BY Zenon DEF LeavesAt, FirstLeaves
<1>2. ASSUME NEW d
      PROVE  Sound(d)' <=> Sound(d)
  BY <1>1, Zenon DEF Sound, apply_resolved
<1>3. ASSUME NEW g
      PROVE  SoundGroup(g)' <=> SoundGroup(g)
  BY <1>1, <1>2, Zenon DEF SoundGroup, Fields
<1>4. ASSUME NEW e \in 1 .. Len(log')
      PROVE  log'[e].epoch = e - 1 /\ Sound(log[e])'
  <2>1. PICK d : d = log[e] /\ d.epoch = e - 1 /\ Sound(d)
    BY Zenon DEF LogInv
  <2>2. Sound(d)'
    BY <1>2, <2>1, Zenon
  <2>. QED
    BY <2>1, <2>2, Zenon DEF Sound
<1>. QED
  BY <1>2, <1>3, <1>4, Zenon DEF LogInv

\* A step that replaces one Group by a sound one.
LEMMA OneGroupChanges ==
    ASSUME GroupInv, NEW m \in Members, NEW h, SoundGroup(h),
           group' = [group EXCEPT ![m] = h], UNCHANGED <<stored, detached, log>>
    PROVE  GroupInv'
<1>1. /\ \A d : Sound(d) => Sound(d)'
      /\ \A g : SoundGroup(g) => SoundGroup(g)'
      /\ LogInv'
  BY SoundKept, Zenon DEF GroupInv
<1>2. ASSUME NEW n \in Members
      PROVE  SoundGroup(group[n])' /\ SoundGroup(stored[n])' /\ \A p \in detached'[n] : Sound(p.commit)'
  <2>1. PICK g : g = group'[n] /\ SoundGroup(g)
    BY Zenon DEF GroupInv
  <2>2. PICK k : k = stored'[n] /\ SoundGroup(k)
    BY Zenon DEF GroupInv
  <2>3. SoundGroup(g)' /\ SoundGroup(k)'
    BY <1>1, <2>1, <2>2, Zenon
  <2>4. SoundGroup(group[n])' /\ SoundGroup(stored[n])'
    BY <2>1, <2>2, <2>3, Zenon DEF SoundGroup
  <2>5. ASSUME NEW p \in detached'[n]
        PROVE  Sound(p.commit)'
    BY <1>1, Zenon DEF GroupInv
  <2>. QED
    BY <2>4, <2>5, Zenon
<1>. QED
  BY <1>1, <1>2, Zenon DEF GroupInv

\* A Group whose epoch, leaves and pending commits stay is as sound as before.
LEMMA SameEpochSound ==
    ASSUME NEW g, SoundGroup(g), NEW h, DOMAIN h = Fields, h.epoch = g.epoch,
           h.leaves = g.leaves, h.pending_commit \subseteq g.pending_commit
    PROVE  SoundGroup(h)
BY Zenon DEF SoundGroup

\* The next commit for a Group was made in the epoch the Group is in.
LEMMA NextCommitEpoch ==
    ASSUME LogInv, NEW g, SoundGroup(g), HasNext(g)
    PROVE  NextCommit(g).epoch = g.epoch /\ Sound(NextCommit(g))
<1>1. Len(log) \in Nat
  BY DEF LogInv
<1>2. g.epoch \in Nat /\ g.epoch + 1 \in 1 .. Len(log)
  BY <1>1 DEF SoundGroup, HasNext
<1>. QED
  BY <1>2 DEF LogInv, NextCommit

\* A Group that moves on with the next commit of the log is sound.
LEMMA NextEpochSound ==
    ASSUME LogInv, NEW g, SoundGroup(g), HasNext(g), NEW h, DOMAIN h = Fields,
           h.epoch = g.epoch + 1,
           h.leaves \in {NextCommit(g).leaves, apply_resolved(g.leaves, NextCommit(g))},
           h.pending_commit \subseteq g.pending_commit
    PROVE  SoundGroup(h)
<1>1. Len(log) \in Nat
  BY DEF LogInv
<1>2. g.epoch \in Nat /\ g.epoch + 1 \in 1 .. Len(log) /\ g.leaves = LeavesAt(g.epoch)
  BY <1>1 DEF SoundGroup, HasNext
<1>3. NextCommit(g).epoch = g.epoch /\ Sound(NextCommit(g))
  BY NextCommitEpoch, Zenon
<1>4. NextCommit(g).leaves = apply_resolved(g.leaves, NextCommit(g))
  BY <1>2, <1>3, Zenon DEF Sound
<1>5. h.leaves = LeavesAt(h.epoch)
  BY <1>2, <1>4 DEF LeavesAt, NextCommit
<1>. QED
  BY <1>1, <1>2, <1>5 DEF SoundGroup

\* process_commit stays in the epoch or moves on with the commit.
LEMMA ProcessCommitSound ==
    ASSUME LogInv, NEW m \in Members, NEW g, SoundGroup(g), HasNext(g), NEW fault
    PROVE  SoundGroup(process_commit(g, m, NextCommit(g), fault))
<1>. DEFINE c == NextCommit(g)
<1>1. /\ DOMAIN AfterPrivateTree(g, m, c) = Fields
      /\ AfterPrivateTree(g, m, c).epoch = g.epoch
      /\ AfterPrivateTree(g, m, c).leaves = g.leaves
      /\ AfterPrivateTree(g, m, c).pending_commit = g.pending_commit
  BY Zenon DEF AfterPrivateTree, AfterSigner, AfterReInit, SoundGroup, Fields
<1>2. /\ DOMAIN AfterSigner(g, m, c) = Fields
      /\ AfterSigner(g, m, c).epoch = g.epoch
      /\ AfterSigner(g, m, c).leaves = g.leaves
      /\ AfterSigner(g, m, c).pending_commit = g.pending_commit
  BY Zenon DEF AfterSigner, AfterReInit, SoundGroup, Fields
<1>3. /\ DOMAIN AfterReInit(g, c) = Fields
      /\ AfterReInit(g, c).epoch = g.epoch
      /\ AfterReInit(g, c).leaves = g.leaves
      /\ AfterReInit(g, c).pending_commit = g.pending_commit
  BY Zenon DEF AfterReInit, SoundGroup, Fields
<1>4. /\ DOMAIN AfterKeySchedule(g, m, c) = Fields
      /\ AfterKeySchedule(g, m, c).epoch = g.epoch + 1
      /\ AfterKeySchedule(g, m, c).leaves = apply_resolved(g.leaves, c)
      /\ AfterKeySchedule(g, m, c).pending_commit = {}
  BY <1>1, Zenon DEF AfterKeySchedule, Fields
<1>5. /\ SoundGroup(AfterPrivateTree(g, m, c)) /\ SoundGroup(AfterSigner(g, m, c))
      /\ SoundGroup(AfterReInit(g, c))
  BY <1>1, <1>2, <1>3, SameEpochSound, Zenon
<1>6. SoundGroup(AfterKeySchedule(g, m, c))
  BY <1>4, NextEpochSound, Zenon
<1>. QED
  BY <1>5, <1>6, Zenon DEF process_commit

\* apply_detached_commit and apply_pending_commit move on with the commit.
LEMMA ApplySound ==
    ASSUME LogInv, NEW g, SoundGroup(g), HasNext(g), NEW p, p.commit = NextCommit(g)
    PROVE  SoundGroup(apply_detached_commit(g, p)) /\ SoundGroup(apply_pending_commit(g, p))
<1>1. p.commit.epoch = g.epoch
  BY NextCommitEpoch, Zenon
<1>2. /\ DOMAIN apply_detached_commit(g, p) = Fields
      /\ apply_detached_commit(g, p).epoch = g.epoch + 1
      /\ apply_detached_commit(g, p).leaves = NextCommit(g).leaves
      /\ apply_detached_commit(g, p).pending_commit = g.pending_commit
  BY <1>1, Zenon DEF apply_detached_commit, SoundGroup, Fields
<1>3. /\ DOMAIN apply_pending_commit(g, p) = Fields
      /\ apply_pending_commit(g, p).epoch = g.epoch + 1
      /\ apply_pending_commit(g, p).leaves = NextCommit(g).leaves
      /\ apply_pending_commit(g, p).pending_commit = {}
  BY <1>1, Zenon DEF apply_pending_commit, apply_detached_commit, SoundGroup, Fields
<1>. QED
  BY <1>2, <1>3, NextEpochSound, Zenon

\* An external commit: the joiner starts in the epoch that its commit begins.
LEMMA ExternalCommitShape ==
    ASSUME NEW m \in Members, ExternalCommit(m)
    PROVE  \E r, leaf :
            LET c == WithLeaves(CurrentLeaves, r)
                h == NewGroup(Len(log) + 1, c.leaves, leaf)
            IN  /\ r.epoch = Len(log) /\ r.by = m
                /\ log' = Append(log, c)
                /\ group' = [group EXCEPT ![m] = h]
                /\ stored' = [stored EXCEPT ![m] = h]
                /\ UNCHANGED <<options, detached>>
<1>. DEFINE leaf == [key |-> made + 1, signer |-> made + 1]
            r == [id |-> made + 1, epoch |-> Len(log), by |-> m, refs |-> {},
                  remove |-> DOMAIN CurrentLeaves \cap {m}, reinit |-> FALSE,
                  external |-> TRUE, path |-> TRUE, leaf |-> leaf]
            c == WithLeaves(CurrentLeaves, r)
            h == NewGroup(Len(log) + 1, c.leaves, leaf)
<1>1. r.epoch = Len(log) /\ r.by = m
  BY Zenon
<1>2. /\ log' = Append(log, c)
      /\ group' = [group EXCEPT ![m] = h] /\ stored' = [stored EXCEPT ![m] = h]
      /\ UNCHANGED <<options, detached>>
  BY Zenon DEF ExternalCommit
<1>. HIDE DEF leaf, r
<1>. QED
  BY <1>1, <1>2, Zenon

LEMMA InitGroupInv ==
    ASSUME Init
    PROVE  GroupInv
<1>1. log = <<>> /\ log \in Seq({}) /\ Len(log) = 0
  BY DEF Init
<1>2. LogInv
  BY <1>1 DEF LogInv
<1>3. ASSUME NEW leaf
      PROVE  SoundGroup(NewGroup(0, FirstLeaves, leaf))
  BY <1>1 DEF SoundGroup, NewGroup, Fields, LeavesAt
<1>. QED
  BY <1>2, <1>3, Zenon DEF GroupInv, Init

LEMMA NextGroupInv ==
    ASSUME GroupInv, [Next]_vars
    PROVE  GroupInv'
<1>. USE DEF GroupInv
<1>0. CASE UNCHANGED vars
  BY <1>0, SoundKept, Zenon DEF vars, SoundGroup, Sound
<1>. SUFFICES ASSUME Next
              PROVE  GroupInv'
  BY <1>0, Zenon
<1>. PICK m \in Members :
        \/ ProposeUpdate(m) \/ \E p \in wire : process_proposal(m, p)
        \/ Build(m) \/ BuildDetached(m) \/ Accept(m)
        \/ ApplyPending(m) \/ ApplyPendingFails(m) \/ ApplyDetached(m) \/ ProcessCommit(m)
        \/ \E fault \in options.failing \ {"apply"} : ProcessCommitFails(m, fault)
        \/ clear_pending_commit(m) \/ ExternalCommit(m) \/ WriteToStorage(m) \/ Crash(m)
  BY Zenon DEF Next
<1>1. CASE ProposeUpdate(m)
  <2>1. PICK ps, us :
            group' = [group EXCEPT ![m] = [group[m] EXCEPT !.proposals = ps, !.pending_updates = us]]
    BY <1>1, Zenon DEF ProposeUpdate, SoundGroup, Fields
  <2>2. SoundGroup([group[m] EXCEPT !.proposals = ps, !.pending_updates = us])
    BY SameEpochSound, Zenon DEF SoundGroup, Fields
  <2>. QED
    BY <1>1, <2>1, <2>2, OneGroupChanges, Zenon DEF ProposeUpdate
<1>2. CASE \E p \in wire : process_proposal(m, p)
  <2>1. PICK p : process_proposal(m, p)
    BY <1>2, Zenon
  <2>2. SoundGroup([group[m] EXCEPT !.proposals = @ \cup {p}])
    BY SameEpochSound, Zenon DEF SoundGroup, Fields
  <2>. QED
    BY <2>1, <2>2, OneGroupChanges, Zenon DEF process_proposal
<1>3. CASE Build(m)
  <2>1. PICK c \in commit_internal(m) :
            group' = [group EXCEPT ![m].pending_commit = {Pending(group[m], c)}]
    BY <1>3, Zenon DEF Build
  <2>2. Sound(c)
    BY CommitInternalSound, Zenon
  <2>3. SoundGroup([group[m] EXCEPT !.pending_commit = {Pending(group[m], c)}])
    BY <2>2 DEF SoundGroup, Fields, Pending
  <2>. QED
    BY <1>3, <2>1, <2>3, OneGroupChanges, Zenon DEF Build
<1>4. CASE BuildDetached(m)
  <2>1. PICK c \in commit_internal(m) :
            detached' = [detached EXCEPT ![m] = @ \cup {Pending(group[m], c)}]
    BY <1>4, Zenon DEF BuildDetached
  <2>2. Sound(c) /\ Pending(group[m], c).commit = c
    BY CommitInternalSound, Zenon DEF Pending
  <2>3. UNCHANGED <<group, stored, log>>
    BY <1>4, Zenon DEF BuildDetached
  <2>4. \A n \in Members : \A p \in detached'[n] : Sound(p.commit)
    BY <2>1, <2>2, Zenon
  <2>. QED
    BY <2>1, <2>3, <2>4, SoundKept, Zenon DEF SoundGroup
<1>5. CASE Accept(m)
  <2>1. PICK p \in stored[m].pending_commit \cup detached[m] :
            /\ p.commit.epoch = Len(log)
            /\ log' = Append(log, p.commit)
            /\ UNCHANGED <<group, stored, detached>>
    BY <1>5, Zenon DEF Accept
  <2>2. Sound(p.commit)
    BY <2>1, Zenon DEF SoundGroup
  <2>3. LogInv'
    BY <2>1, <2>2, LogGrows, Zenon
  <2>. QED
    BY <2>1, <2>3, SoundStays, Zenon DEF SoundGroup
<1>6. CASE ApplyPending(m)
  <2>1. PICK p \in group[m].pending_commit :
            /\ p.commit = NextCommit(group[m])
            /\ group' = [group EXCEPT ![m] = apply_pending_commit(@, p)]
            /\ HasNext(group[m]) /\ UNCHANGED <<stored, detached, log>>
    BY <1>6, Zenon DEF ApplyPending
  <2>2. SoundGroup(apply_pending_commit(group[m], p))
    BY <2>1, ApplySound, Zenon
  <2>. QED
    BY <2>1, <2>2, OneGroupChanges, Zenon
<1>7. CASE ApplyPendingFails(m)
  <2>1. SoundGroup([group[m] EXCEPT !.pending_commit = {}])
    BY SameEpochSound, Zenon DEF SoundGroup, Fields
  <2>. QED
    BY <1>7, <2>1, OneGroupChanges, Zenon DEF ApplyPendingFails
<1>8. CASE ApplyDetached(m)
  <2>1. PICK p \in detached[m] :
            /\ p.commit = NextCommit(group[m])
            /\ group' = [group EXCEPT ![m] = apply_detached_commit(@, p)]
            /\ HasNext(group[m]) /\ UNCHANGED <<stored, detached, log>>
    BY <1>8, Zenon DEF ApplyDetached
  <2>2. SoundGroup(apply_detached_commit(group[m], p))
    BY <2>1, ApplySound, Zenon
  <2>. QED
    BY <2>1, <2>2, OneGroupChanges, Zenon
<1>9. CASE ProcessCommit(m)
  <2>1. SoundGroup(process_commit(group[m], m, NextCommit(group[m]), "none"))
    BY <1>9, ProcessCommitSound, Zenon DEF ProcessCommit
  <2>. QED
    BY <1>9, <2>1, OneGroupChanges, Zenon DEF ProcessCommit
<1>10. CASE \E fault \in options.failing \ {"apply"} : ProcessCommitFails(m, fault)
  <2>1. PICK fault : ProcessCommitFails(m, fault)
    BY <1>10, Zenon
  <2>2. SoundGroup(process_commit(group[m], m, NextCommit(group[m]), fault))
    BY <2>1, ProcessCommitSound, Zenon DEF ProcessCommitFails
  <2>. QED
    BY <2>1, <2>2, OneGroupChanges, Zenon DEF ProcessCommitFails
<1>11. CASE clear_pending_commit(m)
  <2>1. SoundGroup([group[m] EXCEPT !.pending_commit = {}])
    BY SameEpochSound, Zenon DEF SoundGroup, Fields
  <2>. QED
    BY <1>11, <2>1, OneGroupChanges, Zenon DEF clear_pending_commit
<1>12. CASE ExternalCommit(m)
  <2>1. PICK r, leaf :
            LET c == WithLeaves(CurrentLeaves, r)
                h == NewGroup(Len(log) + 1, c.leaves, leaf)
            IN  /\ r.epoch = Len(log) /\ r.by = m
                /\ log' = Append(log, c)
                /\ group' = [group EXCEPT ![m] = h]
                /\ stored' = [stored EXCEPT ![m] = h]
                /\ UNCHANGED <<options, detached>>
    BY <1>12, ExternalCommitShape, SMTT(20)
  <2>. DEFINE c == WithLeaves(CurrentLeaves, r)
              h == NewGroup(Len(log) + 1, c.leaves, leaf)
  <2>2. Len(log) \in Nat
    <3>1. PICK S : log \in Seq(S)
      BY Zenon DEF LogInv
    <3>. QED
      BY <3>1
  <2>3. Sound(c) /\ c.epoch = Len(log)
    <3>1. c.epoch = Len(log) /\ c.leaves = apply_resolved(CurrentLeaves, c)
      BY <2>1, WithLeavesSound, Zenon
    <3>. QED
      BY <2>2, <3>1 DEF Sound, CurrentLeaves
  <2>4. LogInv'
    BY <2>1, <2>3, LogGrows, Zenon
  <2>5. LeavesAt(Len(log))' = c.leaves /\ Len(log') = Len(log) + 1
    BY <2>1, AppendFacts, Zenon DEF LogInv
  <2>6. ASSUME NEW k, k = h
        PROVE  SoundGroup(k)'
    <3>1. /\ DOMAIN k = Fields /\ k.epoch = Len(log) + 1 /\ k.leaves = c.leaves
          /\ k.pending_commit = {}
      BY <2>6, Zenon DEF NewGroup, Fields
    <3>2. LeavesAt(k.epoch)' = LeavesAt(Len(log))'
      BY <2>5, <3>1, Zenon
    <3>3. k.epoch \in 0 .. Len(log')
      BY <2>2, <2>5, <3>1
    <3>. QED
      BY <2>5, <3>1, <3>2, <3>3, Zenon DEF SoundGroup
  <2>7. ASSUME NEW n \in Members
        PROVE  /\ SoundGroup(group[n])' /\ SoundGroup(stored[n])'
               /\ \A p \in detached'[n] : Sound(p.commit)'
    <3>1. PICK g : g = group'[n] /\ SoundGroup(g)'
      BY <2>1, <2>6, SoundStays, Zenon
    <3>2. PICK k : k = stored'[n] /\ SoundGroup(k)'
      BY <2>1, <2>6, SoundStays, Zenon
    <3>3. \A p \in detached'[n] : Sound(p.commit)'
      BY <2>1, SoundStays, Zenon
    <3>. QED
      BY <3>1, <3>2, <3>3, Zenon DEF SoundGroup
  <2>. QED
    BY <2>1, <2>4, <2>7, Zenon
<1>13. CASE WriteToStorage(m)
  BY <1>13, SoundKept, Zenon DEF WriteToStorage, SoundGroup
<1>14. CASE Crash(m)
  BY <1>14, OneGroupChanges, Zenon DEF Crash
<1>. QED
  BY <1>1, <1>2, <1>3, <1>4, <1>5, <1>6, <1>7, <1>8, <1>9, <1>10, <1>11, <1>12, <1>13, <1>14, Zenon

\* The leaves a member sees in an epoch are the ones that the commit leading there
\* gave to the group, whatever the member processed, applied, retried or reloaded
\* (process_commit, apply_pending_commit, apply_detached_commit, load_group).
THEOREM AgreementTheorem == Spec => []MembersAgree
<1>1. Init => GroupInv
  BY InitGroupInv, Zenon
<1>2. GroupInv /\ [Next]_vars => GroupInv'
  BY NextGroupInv, Zenon
<1>3. GroupInv => MembersAgree
  BY Zenon DEF GroupInv, SoundGroup, MembersAgree
<1>. QED
  BY <1>1, <1>2, <1>3, PTL DEF Spec

-----------------------------------------------------------------------------
(* A commit that the service let through is still held by its sender.  The *)
(* argument is about who can have which commit: a pending commit is the    *)
(* member's own and not of a later epoch than the Group; one that may      *)
(* still be let through is in the Group if it is in the snapshot; and of   *)
(* the commits that wait beyond a Group's next one, the member's own are   *)
(* detached, since neither processing nor a crash takes these away.        *)

PendingOf(m, g, o) ==
    \A p \in g.pending_commit :
        /\ p.commit.by = m /\ p.commit.epoch <= g.epoch
        /\ ~o.detach => p.commit.epoch = g.epoch

\* Of the commits l, those of m that wait beyond the next one are among d.
Ahead(m, g, l, d) ==
    \A e \in 1 .. Len(l) :
        l[e].by = m /\ e - 1 > g.epoch => \E p \in d : p.commit = l[e]

\* The next commit of l is held if it is one that only m itself can apply.
Held(m, g, l, d) ==
    /\ g.epoch < Len(l) /\ l[g.epoch + 1].by = m /\ l[g.epoch + 1].path
    /\ m \notin l[g.epoch + 1].remove
    => \E p \in g.pending_commit \cup d : p.commit = l[g.epoch + 1]

\* The pending commits of a snapshot k that may be let through are in the Group.
NotLost(k, g, l) ==
    \A p \in k.pending_commit : p.commit.epoch = Len(l) => p \in g.pending_commit

Holds(m, g, l, d, o) ==
    /\ PendingOf(m, g, o) /\ Ahead(m, g, l, d)
    /\ "apply" \notin o.failing => Held(m, g, l, d)

HoldInv ==
    \A m \in Members :
        /\ \A p \in detached[m] : p.commit.by = m /\ options.detach
        /\ Holds(m, group[m], log, detached[m], options)
        /\ Holds(m, stored[m], log, detached[m], options)
        /\ NotLost(stored[m], group[m], log)

\* What of GroupInv the argument rests on.
LEMMA GroupFacts ==
    ASSUME GroupInv
    PROVE  /\ Len(log) \in Nat
           /\ DOMAIN group = Members /\ DOMAIN stored = Members /\ DOMAIN detached = Members
           /\ \A n \in Members :
                /\ SoundGroup(group[n]) /\ SoundGroup(stored[n])
                /\ DOMAIN group[n] = Fields
                /\ group[n].epoch \in 0 .. Len(log) /\ stored[n].epoch \in 0 .. Len(log)
                /\ group[n].epoch \in Nat
                /\ \A p \in stored[n].pending_commit : p.commit.epoch \in 0 .. Len(log)
<1>1. Len(log) \in Nat
  <2>1. PICK S : log \in Seq(S)
    BY Zenon DEF GroupInv, LogInv
  <2>. QED
    BY <2>1
<1>2. \A n \in Members : SoundGroup(group[n]) /\ SoundGroup(stored[n])
  BY Zenon DEF GroupInv
<1>3. \A n \in Members :
        /\ DOMAIN group[n] = Fields
        /\ group[n].epoch \in 0 .. Len(log) /\ stored[n].epoch \in 0 .. Len(log)
        /\ \A p \in stored[n].pending_commit : Sound(p.commit)
  BY <1>2, Zenon DEF SoundGroup
<1>4. \A n \in Members : \A p \in stored[n].pending_commit : p.commit.epoch \in 0 .. Len(log)
  BY <1>3, Zenon DEF Sound
<1>5. \A n \in Members : group[n].epoch \in Nat
  <2>1. \A e \in 0 .. Len(log) : e \in Nat
    BY <1>1
  <2>. QED
    BY <2>1, <1>3, Zenon
<1>. QED
  BY <1>1, <1>2, <1>3, <1>4, <1>5, Zenon DEF GroupInv

\* A Group that stays in its epoch and loses no pending commit but one that was
\* refused.
LEMMA SameEpochHolds ==
    ASSUME NEW m, NEW g, NEW h, NEW k, NEW l, NEW d, NEW o,
           Holds(m, g, l, d, o), NotLost(k, g, l), g.epoch \in Nat, Len(l) \in Nat,
           h.epoch = g.epoch,
           \/ h.pending_commit = g.pending_commit
           \/ /\ h.pending_commit = {} /\ g.epoch < Len(l)
              /\ "apply" \in o.failing \/ \A p \in g.pending_commit : p.commit # l[g.epoch + 1]
    PROVE  Holds(m, h, l, d, o) /\ NotLost(k, h, l)
<1>1. PendingOf(m, h, o) /\ Ahead(m, h, l, d)
  BY Zenon DEF Holds, PendingOf, Ahead
<1>2. "apply" \notin o.failing => Held(m, h, l, d)
  BY Zenon DEF Holds, Held
<1>3. NotLost(k, h, l)
  BY DEF Holds, PendingOf, NotLost
<1>. QED
  BY <1>1, <1>2, <1>3, Zenon DEF Holds

\* A Group that moves on to the next epoch.
LEMMA NextEpochHolds ==
    ASSUME NEW m, NEW g, NEW h, NEW k, NEW l, NEW d, NEW o,
           Holds(m, g, l, d, o), NotLost(k, g, l), g.epoch \in Nat, Len(l) \in Nat,
           g.epoch < Len(l), h.epoch = g.epoch + 1,
           \A p \in g.pending_commit : p.commit.epoch \in Nat,
           \/ h.pending_commit = {}
           \/ o.detach /\ h.pending_commit = g.pending_commit
    PROVE  Holds(m, h, l, d, o) /\ NotLost(k, h, l)
<1>1. PendingOf(m, h, o)
  BY DEF Holds, PendingOf
<1>2. Ahead(m, h, l, d)
  BY DEF Holds, Ahead
<1>3. Held(m, h, l, d)
  <2>1. SUFFICES ASSUME h.epoch < Len(l), l[h.epoch + 1].by = m
                 PROVE  \E p \in d : p.commit = l[h.epoch + 1]
    BY Zenon DEF Held
  <2>2. h.epoch + 1 \in 1 .. Len(l) /\ (h.epoch + 1) - 1 > g.epoch
    BY <2>1
  <2>. QED
    BY <2>1, <2>2, Zenon DEF Holds, Ahead
<1>4. NotLost(k, h, l)
  BY DEF Holds, PendingOf, NotLost
<1>. QED
  BY <1>1, <1>2, <1>3, <1>4, Zenon DEF Holds

\* A commit c is let through; if it is the member's own, the member holds it.
LEMMA LogGrowsHolds ==
    ASSUME NEW m, NEW g, NEW l, NEW l2, NEW c, NEW d, NEW o,
           Holds(m, g, l, d, o), Len(l) \in Nat, g.epoch \in 0 .. Len(l),
           Len(l2) = Len(l) + 1, l2[Len(l) + 1] = c, \A e \in 1 .. Len(l) : l2[e] = l[e],
           c.by = m => \/ \E p \in d : p.commit = c
                       \/ g.epoch = Len(l) /\ \E p \in g.pending_commit : p.commit = c
    PROVE  Holds(m, g, l2, d, o)
<1>1. Ahead(m, g, l2, d)
  <2>1. SUFFICES ASSUME NEW e \in 1 .. Len(l2), l2[e].by = m, e - 1 > g.epoch
                 PROVE  \E p \in d : p.commit = l2[e]
    BY Zenon DEF Ahead
  <2>2. CASE e = Len(l) + 1
    BY <2>1, <2>2
  <2>3. CASE e # Len(l) + 1
    BY <2>1, <2>3 DEF Holds, Ahead
  <2>. QED
    BY <2>2, <2>3, Zenon
<1>2. Held(m, g, l, d) => Held(m, g, l2, d)
  <2>1. CASE g.epoch = Len(l)
    BY <2>1, Zenon DEF Held
  <2>2. CASE g.epoch # Len(l)
    <3>1. g.epoch < Len(l) /\ l2[g.epoch + 1] = l[g.epoch + 1]
      BY <2>2
    <3>. QED
      BY <3>1, Zenon DEF Held
  <2>. QED
    BY <2>1, <2>2, Zenon
<1>. QED
  BY <1>1, <1>2, Zenon DEF Holds

\* Keeping more CommitSecrets does not hurt.
LEMMA MoreDetachedHolds ==
    ASSUME NEW m, NEW g, NEW l, NEW d, NEW d2, NEW o, Holds(m, g, l, d, o), d \subseteq d2
    PROVE  Holds(m, g, l, d2, o)
<1>1. Ahead(m, g, l, d2)
  BY Zenon DEF Holds, Ahead
<1>2. Held(m, g, l, d) => Held(m, g, l, d2)
  BY Zenon DEF Held
<1>. QED
  BY <1>1, <1>2, Zenon DEF Holds

\* A step that replaces one Group.
LEMMA OneGroupHolds ==
    ASSUME GroupInv, HoldInv, NEW m \in Members, NEW h,
           Holds(m, h, log, detached[m], options), NotLost(stored[m], h, log),
           group' = [group EXCEPT ![m] = h], UNCHANGED <<options, stored, detached, log>>
    PROVE  HoldInv'
BY GroupFacts, Zenon DEF HoldInv

LEMMA InitHoldInv ==
    ASSUME Init
    PROVE  HoldInv
<1>1. ASSUME NEW m, NEW g, g.epoch = 0, g.pending_commit = {}, NEW o
      PROVE  Holds(m, g, <<>>, {}, o) /\ NotLost(g, g, <<>>)
  <2>1. PendingOf(m, g, o) /\ NotLost(g, g, <<>>)
    BY <1>1, Zenon DEF PendingOf, NotLost
  <2>2. Ahead(m, g, <<>>, {})
    BY DEF Ahead
  <2>3. Held(m, g, <<>>, {})
    BY <1>1 DEF Held
  <2>. QED
    BY <2>1, <2>2, <2>3, Zenon DEF Holds
<1>2. \A m \in Members : group[m].epoch = 0 /\ group[m].pending_commit = {}
  BY Zenon DEF Init, NewGroup
<1>. QED
  BY <1>1, <1>2, Zenon DEF Init, HoldInv

\* A step of one member that stays in its epoch, or moves on, as the lemmas say.
LEMMA StepHolds ==
    ASSUME GroupInv, HoldInv, NEW m \in Members, NEW h,
           group' = [group EXCEPT ![m] = h], UNCHANGED <<options, stored, detached, log>>,
           \/ h.epoch = group[m].epoch /\ h.pending_commit = group[m].pending_commit
           \/ /\ h.epoch = group[m].epoch /\ h.pending_commit = {} /\ HasNext(group[m])
              /\ \/ "apply" \in options.failing
                 \/ \A p \in group[m].pending_commit : p.commit # NextCommit(group[m])
           \/ /\ h.epoch = group[m].epoch + 1 /\ HasNext(group[m])
              /\ \/ h.pending_commit = {}
                 \/ options.detach /\ h.pending_commit = group[m].pending_commit
    PROVE  HoldInv'
<1>. DEFINE g == group[m]
<1>1. /\ Holds(m, g, log, detached[m], options) /\ NotLost(stored[m], g, log)
      /\ g.epoch \in Nat /\ Len(log) \in Nat
  BY GroupFacts, Zenon DEF HoldInv
<1>2. \A p \in g.pending_commit : p.commit.epoch \in Nat
  <2>1. SoundGroup(g)
    BY GroupFacts, Zenon
  <2>2. \A p \in g.pending_commit : Sound(p.commit)
    BY <2>1, Zenon DEF SoundGroup
  <2>. QED
    BY <2>2 DEF Sound
<1>3. HasNext(g) <=> g.epoch < Len(log)
  BY Zenon DEF HasNext
<1>4. NextCommit(g) = log[g.epoch + 1]
  BY Zenon DEF NextCommit
<1>. HIDE DEF g
<1>5. Holds(m, h, log, detached[m], options) /\ NotLost(stored[m], h, log)
  <2>1. CASE h.epoch = g.epoch /\ h.pending_commit = g.pending_commit
    BY <1>1, <2>1, SameEpochHolds, Zenon
  <2>2. CASE /\ h.epoch = g.epoch /\ h.pending_commit = {} /\ g.epoch < Len(log)
             /\ \/ "apply" \in options.failing
                \/ \A p \in g.pending_commit : p.commit # log[g.epoch + 1]
    BY <1>1, <2>2, SameEpochHolds, Zenon
  <2>3. CASE /\ h.epoch = g.epoch + 1 /\ g.epoch < Len(log)
             /\ \/ h.pending_commit = {}
                \/ options.detach /\ h.pending_commit = g.pending_commit
    BY <1>1, <1>2, <2>3, NextEpochHolds, Zenon
  <2>. QED
    BY <1>3, <1>4, <2>1, <2>2, <2>3, Zenon DEF g
<1>. QED
  BY <1>5, OneGroupHolds, Zenon

\* The two ways process_commit can end.
LEMMA ProcessCommitShape ==
    ASSUME NEW m, NEW g, NEW c, NEW fault, DOMAIN g = Fields, NEW h,
           h = process_commit(g, m, c, fault)
    PROVE  \/ h.epoch = g.epoch /\ h.pending_commit = g.pending_commit
           \/ h.epoch = g.epoch + 1 /\ h.pending_commit = {}
<1>1. /\ AfterReInit(g, c).epoch = g.epoch
      /\ AfterReInit(g, c).pending_commit = g.pending_commit
      /\ DOMAIN AfterReInit(g, c) = Fields
  BY Zenon DEF AfterReInit, Fields
<1>2. /\ AfterSigner(g, m, c).epoch = g.epoch
      /\ AfterSigner(g, m, c).pending_commit = g.pending_commit
      /\ DOMAIN AfterSigner(g, m, c) = Fields
  BY <1>1, Zenon DEF AfterSigner, Fields
<1>3. /\ AfterPrivateTree(g, m, c).epoch = g.epoch
      /\ AfterPrivateTree(g, m, c).pending_commit = g.pending_commit
      /\ DOMAIN AfterPrivateTree(g, m, c) = Fields
  BY <1>2, Zenon DEF AfterPrivateTree, Fields
<1>4. /\ AfterKeySchedule(g, m, c).epoch = g.epoch + 1
      /\ AfterKeySchedule(g, m, c).pending_commit = {}
  BY <1>3, Zenon DEF AfterKeySchedule, Fields
<1>. QED
  BY <1>1, <1>2, <1>3, <1>4, Zenon DEF process_commit

LEMMA ProcessCommitHolds ==
    ASSUME GroupInv, HoldInv, NEW m \in Members, NEW fault, HasNext(group[m]),
           group' = [group EXCEPT ![m] = process_commit(group[m], m, NextCommit(group[m]), fault)],
           UNCHANGED <<options, stored, detached, log>>
    PROVE  HoldInv'
<1>. DEFINE c == NextCommit(group[m])
            h == process_commit(group[m], m, c, fault)
<1>. HIDE DEF c, h
<1>1. DOMAIN group[m] = Fields
  BY GroupFacts, Zenon
<1>2. \/ h.epoch = group[m].epoch /\ h.pending_commit = group[m].pending_commit
      \/ h.epoch = group[m].epoch + 1 /\ h.pending_commit = {}
  BY <1>1, ProcessCommitShape, Zenon DEF h
<1>3. group' = [group EXCEPT ![m] = h]
  BY Zenon DEF c, h
<1>. QED
  BY <1>2, <1>3, StepHolds, Zenon

\* The service lets a commit through that its sender holds.
LEMMA AcceptHolds ==
    ASSUME GroupInv, HoldInv, NEW m \in Members, Accept(m)
    PROVE  HoldInv'
<1>1. PICK p \in stored[m].pending_commit \cup detached[m] :
          /\ p.commit.epoch = Len(log)
          /\ log' = Append(log, p.commit)
          /\ UNCHANGED <<options, group, stored, detached>>
  BY Zenon DEF Accept
<1>2. /\ Len(log') = Len(log) + 1 /\ log'[Len(log) + 1] = p.commit
      /\ \A e \in 1 .. Len(log) : log'[e] = log[e]
  BY <1>1, AppendFacts, Zenon DEF GroupInv, LogInv
<1>3. /\ \A q \in detached[m] : q.commit.by = m
      /\ PendingOf(m, group[m], options) /\ PendingOf(m, stored[m], options)
      /\ NotLost(stored[m], group[m], log)
  BY Zenon DEF HoldInv, Holds
<1>4. p.commit.by = m
  BY <1>3, Zenon DEF PendingOf
<1>5. /\ Len(log) \in Nat /\ group[m].epoch \in 0 .. Len(log) /\ stored[m].epoch \in 0 .. Len(log)
  BY GroupFacts, Zenon
<1>6. p \notin detached[m] => /\ p \in group[m].pending_commit /\ group[m].epoch = Len(log)
                              /\ p \in stored[m].pending_commit /\ stored[m].epoch = Len(log)
  BY <1>1, <1>3, <1>5 DEF PendingOf, NotLost
<1>7. ASSUME NEW n \in Members
      PROVE  /\ Holds(n, group[n], log', detached[n], options)
             /\ Holds(n, stored[n], log', detached[n], options)
  <2>1. /\ Holds(n, group[n], log, detached[n], options)
        /\ Holds(n, stored[n], log, detached[n], options)
    BY Zenon DEF HoldInv
  <2>2. group[n].epoch \in 0 .. Len(log) /\ stored[n].epoch \in 0 .. Len(log)
    BY GroupFacts, Zenon
  <2>3. p.commit.by = n =>
            \/ \E q \in detached[n] : q.commit = p.commit
            \/ /\ group[n].epoch = Len(log) /\ \E q \in group[n].pending_commit : q.commit = p.commit
               /\ stored[n].epoch = Len(log) /\ \E q \in stored[n].pending_commit : q.commit = p.commit
    BY <1>4, <1>6, Zenon
  <2>4. Holds(n, group[n], log', detached[n], options)
    BY <1>2, <1>5, <2>1, <2>2, <2>3, LogGrowsHolds, Zenon
  <2>5. Holds(n, stored[n], log', detached[n], options)
    BY <1>2, <1>5, <2>1, <2>2, <2>3, LogGrowsHolds, Zenon
  <2>. QED
    BY <2>4, <2>5, Zenon
<1>8. ASSUME NEW n \in Members
      PROVE  NotLost(stored[n], group[n], log')
  <2>1. \A q \in stored[n].pending_commit : q.commit.epoch \in 0 .. Len(log)
    BY GroupFacts, Zenon
  <2>. QED
    BY <1>2, <1>5, <2>1 DEF NotLost
<1>. QED
  BY <1>1, <1>7, <1>8, Zenon DEF HoldInv

\* A client joins by an external commit.
LEMMA ExternalCommitHolds ==
    ASSUME GroupInv, HoldInv, NEW m \in Members, ExternalCommit(m)
    PROVE  HoldInv'
<1>1. PICK r, leaf :
          LET c == WithLeaves(CurrentLeaves, r)
              h == NewGroup(Len(log) + 1, c.leaves, leaf)
          IN  /\ r.by = m
              /\ log' = Append(log, c)
              /\ group' = [group EXCEPT ![m] = h]
              /\ stored' = [stored EXCEPT ![m] = h]
              /\ UNCHANGED <<options, detached>>
  BY ExternalCommitShape, Zenon
<1>. DEFINE c == WithLeaves(CurrentLeaves, r)
            h == NewGroup(Len(log) + 1, c.leaves, leaf)
<1>2. /\ Len(log') = Len(log) + 1 /\ log'[Len(log) + 1] = c
      /\ \A e \in 1 .. Len(log) : log'[e] = log[e]
  BY <1>1, AppendFacts, Zenon DEF GroupInv, LogInv
<1>3. c.by = m /\ h.epoch = Len(log) + 1 /\ h.pending_commit = {}
  BY <1>1, WithLeavesSound, Zenon DEF NewGroup
<1>4. Len(log) \in Nat
  BY GroupFacts, Zenon
<1>. HIDE DEF c, h
<1>5. Holds(m, h, log', detached[m], options) /\ NotLost(h, h, log')
  <2>1. PendingOf(m, h, options) /\ NotLost(h, h, log')
    BY <1>3, Zenon DEF PendingOf, NotLost
  <2>2. Ahead(m, h, log', detached[m])
    BY <1>2, <1>3, <1>4 DEF Ahead
  <2>3. Held(m, h, log', detached[m])
    BY <1>2, <1>3, <1>4 DEF Held
  <2>. QED
    BY <2>1, <2>2, <2>3, Zenon DEF Holds
<1>6. ASSUME NEW n \in Members, n # m
      PROVE  /\ Holds(n, group[n], log', detached[n], options)
             /\ Holds(n, stored[n], log', detached[n], options)
             /\ NotLost(stored[n], group[n], log')
  <2>1. /\ Holds(n, group[n], log, detached[n], options)
        /\ Holds(n, stored[n], log, detached[n], options)
    BY Zenon DEF HoldInv
  <2>2. /\ group[n].epoch \in 0 .. Len(log) /\ stored[n].epoch \in 0 .. Len(log)
        /\ \A q \in stored[n].pending_commit : q.commit.epoch \in 0 .. Len(log)
    BY GroupFacts, Zenon
  <2>3. Holds(n, group[n], log', detached[n], options)
    BY <1>2, <1>3, <1>4, <1>6, <2>1, <2>2, LogGrowsHolds, Zenon
  <2>4. Holds(n, stored[n], log', detached[n], options)
    BY <1>2, <1>3, <1>4, <1>6, <2>1, <2>2, LogGrowsHolds, Zenon
  <2>5. NotLost(stored[n], group[n], log')
    BY <1>2, <1>4, <2>2 DEF NotLost
  <2>. QED
    BY <2>3, <2>4, <2>5, Zenon
<1>7. DOMAIN group = Members /\ DOMAIN stored = Members
  BY GroupFacts, Zenon
<1>8. \A n \in Members : /\ group'[n] = IF n = m THEN h ELSE group[n]
                         /\ stored'[n] = IF n = m THEN h ELSE stored[n]
  BY <1>1, <1>7, Zenon DEF c, h
<1>9. \A n \in Members : /\ \A p \in detached'[n] : p.commit.by = n /\ options'.detach
                         /\ detached'[n] = detached[n] /\ options' = options
  BY <1>1, Zenon DEF HoldInv
<1>10. ASSUME NEW n \in Members
       PROVE  /\ Holds(n, group'[n], log', detached'[n], options')
              /\ Holds(n, stored'[n], log', detached'[n], options')
              /\ NotLost(stored'[n], group'[n], log')
  <2>1. CASE n = m
    BY <1>5, <1>8, <1>9, <2>1, Zenon
  <2>2. CASE n # m
    BY <1>6, <1>8, <1>9, <2>2
  <2>. QED
    BY <2>1, <2>2, Zenon
<1>. QED
  BY <1>9, <1>10, Zenon DEF HoldInv

LEMMA NextHoldInv ==
    ASSUME GroupInv, HoldInv, [Next]_vars
    PROVE  HoldInv'
<1>0. CASE UNCHANGED vars
  BY <1>0, Zenon DEF vars, HoldInv
<1>. SUFFICES ASSUME Next
              PROVE  HoldInv'
  BY <1>0, Zenon
<1>. PICK m \in Members :
        \/ ProposeUpdate(m) \/ \E p \in wire : process_proposal(m, p)
        \/ Build(m) \/ BuildDetached(m) \/ Accept(m)
        \/ ApplyPending(m) \/ ApplyPendingFails(m) \/ ApplyDetached(m) \/ ProcessCommit(m)
        \/ \E fault \in options.failing \ {"apply"} : ProcessCommitFails(m, fault)
        \/ clear_pending_commit(m) \/ ExternalCommit(m) \/ WriteToStorage(m) \/ Crash(m)
  BY Zenon DEF Next
<1>a. SoundGroup(group[m]) /\ DOMAIN group[m] = Fields /\ LogInv
  BY GroupFacts, Zenon DEF GroupInv
<1>1. CASE ProposeUpdate(m)
  <2>1. PICK ps, us :
            group' = [group EXCEPT ![m] = [group[m] EXCEPT !.proposals = ps, !.pending_updates = us]]
    BY <1>1, <1>a, Zenon DEF ProposeUpdate, Fields
  <2>. DEFINE h == [group[m] EXCEPT !.proposals = ps, !.pending_updates = us]
  <2>2. h.epoch = group[m].epoch /\ h.pending_commit = group[m].pending_commit
    BY <1>a, Zenon DEF Fields
  <2>3. group' = [group EXCEPT ![m] = h] /\ UNCHANGED <<options, stored, detached, log>>
    BY <1>1, <2>1, Zenon DEF ProposeUpdate
  <2>. QED
    BY <2>2, <2>3, StepHolds, Zenon
<1>2. CASE \E p \in wire : process_proposal(m, p)
  <2>1. PICK p : process_proposal(m, p)
    BY <1>2, Zenon
  <2>. DEFINE h == [group[m] EXCEPT !.proposals = @ \cup {p}]
  <2>2. h.epoch = group[m].epoch /\ h.pending_commit = group[m].pending_commit
    BY <1>a, Zenon DEF Fields
  <2>3. group' = [group EXCEPT ![m] = h] /\ UNCHANGED <<options, stored, detached, log>>
    BY <2>1, Zenon DEF process_proposal
  <2>. QED
    BY <2>2, <2>3, StepHolds, Zenon
<1>3. CASE Build(m)
  <2>1. PICK c \in commit_internal(m) :
            group' = [group EXCEPT ![m].pending_commit = {Pending(group[m], c)}]
    BY <1>3, Zenon DEF Build
  <2>2. c.by = m /\ c.epoch = group[m].epoch /\ Pending(group[m], c).commit = c
    BY <1>a, CommitInternalSound, Zenon DEF Pending
  <2>. DEFINE h == [group[m] EXCEPT !.pending_commit = {Pending(group[m], c)}]
  <2>3. h.epoch = group[m].epoch /\ h.pending_commit = {Pending(group[m], c)}
    BY <1>a, Zenon DEF Fields
  <2>4. group' = [group EXCEPT ![m] = h] /\ UNCHANGED <<options, stored, detached, log>>
    BY <1>3, <2>1, Zenon DEF Build
  <2>. HIDE DEF h
  <2>5. group[m].pending_commit = {}
    BY <1>3, Zenon DEF Build, CanCommit
  <2>6. /\ Holds(m, group[m], log, detached[m], options)
        /\ NotLost(stored[m], group[m], log) /\ group[m].epoch \in Nat
    BY GroupFacts, Zenon DEF HoldInv
  <2>7. PendingOf(m, h, options)
    <3>1. h.epoch \in Nat /\ c.epoch = h.epoch
      BY <2>2, <2>3, <2>6, Zenon
    <3>2. c.epoch <= h.epoch
      BY <3>1
    <3>. QED
      BY <2>2, <2>3, <3>1, <3>2, Zenon DEF PendingOf
  <2>8. Ahead(m, h, log, detached[m])
    BY <2>3, <2>6, Zenon DEF Holds, Ahead
  <2>9. Held(m, group[m], log, detached[m]) => Held(m, h, log, detached[m])
    BY <2>3, <2>5, Zenon DEF Held
  <2>10. NotLost(stored[m], h, log)
    BY <2>5, <2>6, Zenon DEF NotLost
  <2>. QED
    BY <2>4, <2>6, <2>7, <2>8, <2>9, <2>10, OneGroupHolds, Zenon DEF Holds
<1>4. CASE BuildDetached(m)
  <2>1. PICK c \in commit_internal(m) :
            detached' = [detached EXCEPT ![m] = @ \cup {Pending(group[m], c)}]
    BY <1>4, Zenon DEF BuildDetached
  <2>2. c.by = m /\ Pending(group[m], c).commit = c
    BY <1>a, CommitInternalSound, Zenon DEF Pending
  <2>3. UNCHANGED <<options, group, stored, log>> /\ options.detach
    BY <1>4, Zenon DEF BuildDetached
  <2>4. ASSUME NEW n \in Members
        PROVE  /\ detached[n] \subseteq detached'[n]
               /\ \A p \in detached'[n] : p.commit.by = n /\ options.detach
    <3>1. /\ DOMAIN detached = Members
          /\ \A p \in detached[n] : p.commit.by = n /\ options.detach
      BY GroupFacts, Zenon DEF HoldInv
    <3>. QED
      BY <2>1, <2>2, <2>3, <3>1, Zenon
  <2>. QED
    BY <2>3, <2>4, MoreDetachedHolds, Zenon DEF HoldInv
<1>5. CASE Accept(m)
  BY <1>5, AcceptHolds, Zenon
<1>6. CASE ApplyPending(m)
  <2>1. PICK p \in group[m].pending_commit :
            /\ p.commit = NextCommit(group[m])
            /\ group' = [group EXCEPT ![m] = apply_pending_commit(@, p)]
            /\ HasNext(group[m]) /\ UNCHANGED <<options, stored, detached, log>>
    BY <1>6, Zenon DEF ApplyPending
  <2>. DEFINE h == apply_pending_commit(group[m], p)
  <2>2. p.commit.epoch = group[m].epoch
    BY <1>a, <2>1, NextCommitEpoch, Zenon
  <2>3. h.epoch = group[m].epoch + 1 /\ h.pending_commit = {}
    BY <1>a, <2>2, Zenon DEF apply_pending_commit, apply_detached_commit, Fields
  <2>. HIDE DEF h
  <2>4. group' = [group EXCEPT ![m] = h]
    BY <2>1, Zenon DEF h
  <2>. QED
    BY <2>1, <2>3, <2>4, StepHolds, Zenon
<1>7. CASE ApplyPendingFails(m)
  <2>. DEFINE h == [group[m] EXCEPT !.pending_commit = {}]
  <2>1. h.epoch = group[m].epoch /\ h.pending_commit = {}
    BY <1>a, Zenon DEF Fields
  <2>2. /\ group' = [group EXCEPT ![m] = h] /\ UNCHANGED <<options, stored, detached, log>>
        /\ "apply" \in options.failing /\ HasNext(group[m])
    BY <1>7, Zenon DEF ApplyPendingFails
  <2>. HIDE DEF h
  <2>. QED
    BY <2>1, <2>2, StepHolds, Zenon
<1>8. CASE ApplyDetached(m)
  <2>1. PICK p \in detached[m] :
            /\ p.commit = NextCommit(group[m])
            /\ group' = [group EXCEPT ![m] = apply_detached_commit(@, p)]
            /\ HasNext(group[m]) /\ UNCHANGED <<options, stored, detached, log>>
    BY <1>8, Zenon DEF ApplyDetached
  <2>. DEFINE h == apply_detached_commit(group[m], p)
  <2>2. p.commit.epoch = group[m].epoch
    BY <1>a, <2>1, NextCommitEpoch, Zenon
  <2>3. options.detach
    BY Zenon DEF HoldInv
  <2>4. h.epoch = group[m].epoch + 1 /\ h.pending_commit = group[m].pending_commit
    BY <1>a, <2>2, Zenon DEF apply_detached_commit, Fields
  <2>. HIDE DEF h
  <2>5. group' = [group EXCEPT ![m] = h]
    BY <2>1, Zenon DEF h
  <2>. QED
    BY <2>1, <2>3, <2>4, <2>5, StepHolds, Zenon
<1>9. CASE ProcessCommit(m)
  BY <1>9, ProcessCommitHolds, Zenon DEF ProcessCommit
<1>10. CASE \E fault \in options.failing \ {"apply"} : ProcessCommitFails(m, fault)
  BY <1>10, ProcessCommitHolds, Zenon DEF ProcessCommitFails
<1>11. CASE clear_pending_commit(m)
  <2>. DEFINE h == [group[m] EXCEPT !.pending_commit = {}]
  <2>1. h.epoch = group[m].epoch /\ h.pending_commit = {}
    BY <1>a DEF Fields
  <2>2. /\ group' = [group EXCEPT ![m] = h] /\ UNCHANGED <<options, stored, detached, log>>
        /\ HasNext(group[m])
        /\ \A p \in group[m].pending_commit : p.commit # NextCommit(group[m])
    BY <1>11, Zenon DEF clear_pending_commit
  <2>. HIDE DEF h
  <2>. QED
    BY <2>1, <2>2, StepHolds, Zenon
<1>12. CASE ExternalCommit(m)
  BY <1>12, ExternalCommitHolds, Zenon
<1>13. CASE WriteToStorage(m)
  <2>1. stored' = [stored EXCEPT ![m] = group[m]] /\ UNCHANGED <<options, group, detached, log>>
    BY <1>13, Zenon DEF WriteToStorage
  <2>2. NotLost(group[m], group[m], log) /\ DOMAIN stored = Members
    BY GroupFacts, Zenon DEF NotLost
  <2>. QED
    BY <2>1, <2>2, Zenon DEF HoldInv
<1>14. CASE Crash(m)
  <2>1. NotLost(stored[m], stored[m], log)
    BY Zenon DEF NotLost
  <2>2. Holds(m, stored[m], log, detached[m], options)
    BY Zenon DEF HoldInv
  <2>. QED
    BY <1>14, <2>1, <2>2, OneGroupHolds, Zenon DEF Crash
<1>. QED
  BY <1>1, <1>2, <1>3, <1>4, <1>5, <1>6, <1>7, <1>8, <1>9, <1>10, <1>11, <1>12, <1>13, <1>14, Zenon

\* A member whose commit was let through can still apply it, from pending_commit
\* or from the CommitSecrets of its application: no crash, no processed commit and
\* no clear_pending_commit takes it away.
THEOREM HeldTheorem == Spec => []OwnCommitHeld
<1>1. Init => GroupInv /\ HoldInv
  BY InitGroupInv, InitHoldInv, Zenon
<1>2. GroupInv /\ HoldInv /\ [Next]_vars => (GroupInv /\ HoldInv)'
  BY NextGroupInv, NextHoldInv, Zenon
<1>3. GroupInv /\ HoldInv => OwnCommitHeld
  BY Zenon DEF HoldInv, Holds, Held, OwnCommitHeld, HasNext, NextCommit
<1>. QED
  BY <1>1, <1>2, <1>3, PTL DEF Spec

\* Unless detached commits are used, a pending commit is for the epoch of its
\* Group: process_commit and apply_pending_commit leave none behind.
THEOREM PendingTheorem == Spec => []PendingIsCurrent
<1>1. Init => GroupInv /\ HoldInv
  BY InitGroupInv, InitHoldInv
<1>2. GroupInv /\ HoldInv /\ [Next]_vars => (GroupInv /\ HoldInv)'
  BY NextGroupInv, NextHoldInv
<1>3. GroupInv /\ HoldInv => PendingIsCurrent
  BY Zenon DEF HoldInv, Holds, PendingOf, PendingIsCurrent
<1>. QED
  BY <1>1, <1>2, <1>3, PTL DEF Spec

=============================================================================
