----------------------- MODULE PrivateMessages_proofs -----------------------
(***************************************************************************)
(* What members can derive and open, for any members, epochs, messages,    *)
(* restarts and failures.                                                  *)
(*                                                                         *)
(* That no key taken can be derived again is not inductive: an epoch that  *)
(* ends takes its tree along, storage holds an older tree, and a restart   *)
(* brings it back together with the keys taken until then.  StateInv says  *)
(* TreeInv of every tree held or stored, with the keys that the same Group *)
(* remembers to have taken from it.  It holds also when generations wrap.  *)
(* ReachInv counts: no ratchet is further than the messages sealed and the *)
(* calls failed so far, so that within NoWrap a generation names one key.  *)
(***************************************************************************)
EXTENDS PrivateMessages, SecretTree_proofs

-----------------------------------------------------------------------------
(* What can be derived from a secret tree                                  *)

\* From a tree in which no leaf is cut off, every ratchet can be taken.
LEMMA TakeSucceeds ==
    ASSUME NEW known, NEW K, TreeInv(known, K), Covered(known), NEW leaf \in Leaves
    PROVE  \E taken \in take_leaf_ratchet(known, leaf) : taken.value # {}
<1>1. ASSUME NEW now, leaf \in DOMAIN now
      PROVE  \E taken \in TakenLeaf(now, leaf) : taken.value # {}
  <2>1. CASE IsSecret(now[leaf])
    <3> DEFINE taken == Result(Without(now, leaf), {[t \in KeyTypes |-> NewRatchet]})
    <3>1. taken \in TakenLeaf(now, leaf)
      BY <1>1, <2>1, Zenon DEF TakenLeaf
    <3>2. taken.value # {}
      BY Zenon DEF Result
    <3>3. QED BY <3>1, <3>2, Zenon
  <2>2. CASE ~IsSecret(now[leaf])
    <3> DEFINE taken == Result(Without(now, leaf), {now[leaf].ratchets})
    <3>1. taken \in TakenLeaf(now, leaf)
      BY <1>1, <2>2, Zenon DEF TakenLeaf
    <3>2. taken.value # {}
      BY Zenon DEF Result
    <3>3. QED BY <3>1, <3>2, Zenon
  <2>3. QED BY <2>1, <2>2, Zenon
<1>2. CASE leaf \in DOMAIN known
  BY <1>1, <1>2, Zenon DEF take_leaf_ratchet
<1>3. CASE leaf \notin DOMAIN known
  <2> DEFINE L == Len(Path(leaf))
             now == Descent(known, leaf)[L]
  <2>1. L \in Nat /\ L \in 0 .. L
    BY PathFacts
  <2>2. Covered(now) /\ Covering(now, leaf) \subseteq Lower(leaf, L)
    BY <2>1, DescentInv, Zenon
  <2>3. Lower(leaf, L) = {leaf}
    BY <2>1 DEF Lower
  <2>4. leaf \in DOMAIN now
    BY <2>2, <2>3, Zenon DEF Covered, Covering
  <2> HIDE DEF now
  <2>5. \E taken \in TakenLeaf(now, leaf) : taken.value # {}
    BY <1>1, <2>4, Zenon
  <2>6. TakenLeaf(now, leaf) \subseteq take_leaf_ratchet(known, leaf)
    BY <1>3, Zenon DEF take_leaf_ratchet, now
  <2>7. QED BY <2>5, <2>6, Zenon
<1>4. QED BY <1>2, <1>3, Zenon

\* What a ratchet returns is a result of SecretTree::message_key_generation.
LEMMA GetResultOf ==
    ASSUME NEW known, NEW leaf, NEW t, NEW n,
           NEW taken \in take_leaf_ratchet(known, leaf), NEW rs, taken.value = {rs},
           NEW q \in get_message_key(rs[t], n)
    PROVE  Returned(taken, leaf, t, rs, q) \in TreeGetResults(known, leaf, t, n)
<1> DEFINE Of(tk) == IF tk.value = {} THEN {tk}
                     ELSE LET vs == CHOOSE v \in tk.value : TRUE
                          IN  {Returned(tk, leaf, t, vs, p) : p \in get_message_key(vs[t], n)}
<1>1. TreeGetResults(known, leaf, t, n) = UNION {Of(tk) : tk \in take_leaf_ratchet(known, leaf)}
  BY Zenon DEF TreeGetResults, Returned
<1>2. rs = CHOOSE v \in taken.value : TRUE
  BY Zenon
<1>3. Returned(taken, leaf, t, rs, q) \in Of(taken)
  BY <1>2
<1> HIDE DEF Of
<1>4. QED BY <1>1, <1>3, Zenon

Opens(known, leaf, t, n, key) ==
    \E res \in TreeGetResults(known, leaf, t, n) : res.value = {key}

AllNumbered(K) == \A k \in K : Numbered(k.key)

\* The window of generation n, when K are the keys taken
InReach(K, leaf, t, n) ==
    \/ n <= MAX_RATCHET_BACK_HISTORY
    \/ \E k \in K : /\ k.leaf = leaf /\ k.key_type = t
                    /\ n <= k.key.generation + 1 + MAX_RATCHET_BACK_HISTORY

\* The key of a message inside the window is found, unless it was taken.
LEMMA TreeOpens ==
    ASSUME NEW known, NEW K, TreeInv(known, K), Covered(known),
           NEW leaf \in Leaves, NEW t \in KeyTypes,
           NEW b \in Nat, UpTo(known, b), b + MAX_RATCHET_BACK_HISTORY < GenerationModulus,
           AllNumbered(K),
           NEW n \in Nat, n + 1 < GenerationModulus,
           NEW key, key = [leaf |-> leaf, key_type |-> t, key |-> [secret |-> n, generation |-> n]],
           key \notin K,
           InReach(K, leaf, t, n)
    PROVE  Opens(known, leaf, t, n, key)
<1>1. PICK taken \in take_leaf_ratchet(known, leaf) : taken.value # {}
  BY TakeSucceeds, Zenon
<1>2. TakenInv(known, K, leaf, taken)
  BY TakeInv, Zenon
<1>3. PICK rs : taken.value = {rs} /\ IsTaken(known, K, leaf, rs)
  BY <1>1, <1>2, Zenon DEF TakenInv
<1> DEFINE r == rs[t]
           R == Used(K, leaf, t)
           data == [secret |-> n, generation |-> n]
<1>4. r.secret <= b /\ r.secret \in Nat /\ ChainInv(r, R)
  BY <1>3, TakenUpTo, Zenon
<1>5. data \notin R
  <2> SUFFICES ASSUME NEW k \in K, k.leaf = leaf, k.key_type = t, k.key = data PROVE FALSE
    BY Zenon DEF Used
  <2>1. k = key
    BY Zenon DEF TreeInv, KeyData
  <2>2. QED BY <2>1, Zenon
<1>6. n <= r.secret + MAX_RATCHET_BACK_HISTORY
  <2>1. CASE n <= MAX_RATCHET_BACK_HISTORY
    BY <2>1, <1>4, RatchetAssumption
  <2>2. ASSUME NEW k \in K, k.leaf = leaf, k.key_type = t,
               n <= k.key.generation + 1 + MAX_RATCHET_BACK_HISTORY
        PROVE  n <= r.secret + MAX_RATCHET_BACK_HISTORY
    <3>1. k.key \in R
      BY <2>2, Zenon DEF Used
    <3>2. k.key.secret < r.secret /\ k.key.secret \in Nat
      BY <3>1, <1>4, Zenon DEF ChainInv, MessageKeyData
    <3>3. k.key.generation = k.key.secret
      BY Zenon DEF Numbered, AllNumbered
    <3>4. QED BY <2>2, <3>2, <3>3, <1>4, RatchetAssumption
  <2>3. QED BY <2>1, <2>2, Zenon DEF InReach
<1>7. r.secret + MAX_RATCHET_BACK_HISTORY < GenerationModulus
  BY <1>4, RatchetAssumption
<1> HIDE DEF r, R, data
<1>8. PICK q \in get_message_key(r, n) : q.key = {data}
  BY <1>4, <1>5, <1>6, <1>7, GetOpens, Zenon DEF data
<1> DEFINE res == Returned(taken, leaf, t, rs, q)
<1>9. res \in TreeGetResults(known, leaf, t, n)
  BY <1>3, <1>8, GetResultOf, Zenon DEF r
<1>10. res.value = {key}
  BY <1>8, ReturnedKeys DEF data
<1>11. QED BY <1>9, <1>10, Zenon DEF Opens

\* What a tree gives away of the keys taken from them: nothing.
LEMMA NotDerivable ==
    ASSUME NEW known, NEW K, TreeInv(known, K), NEW k \in K
    PROVE  ~Derivable(known, k.leaf, k.key_type, k.key)
<1>1. k \in KeyData /\ k.leaf \in Leaves /\ k.key_type \in KeyTypes
  BY Zenon DEF TreeInv, KeyData
<1> SUFFICES ASSUME NEW i \in Covering(known, k.leaf)
             PROVE  ~(IsSecret(known[i]) \/ InRatchet(known[i].ratchets[k.key_type], k.key))
  BY Zenon DEF Derivable
<1>2. i \in DOMAIN known /\ i \in UpToRoot[k.leaf] /\ ~IsSecret(known[i])
  BY Zenon DEF TreeInv, Covering
<1>3. known[i] # Secret
  BY <1>2 DEF IsSecret, Secret
<1>4. i \in Leaves /\ ChainInv(known[i].ratchets[k.key_type], Used(K, i, k.key_type))
  BY <1>1, <1>2, <1>3, Zenon DEF TreeInv, NodeInv
<1>5. i = k.leaf
  BY <1>1, <1>2, <1>4, OwnLeaf, Zenon
<1>6. k.key \in Used(K, i, k.key_type)
  BY <1>5, Zenon DEF Used
<1> DEFINE r == known[i].ratchets[k.key_type]
           R == Used(K, i, k.key_type)
<1>7. ChainInv(r, R) /\ k.key \in R
  BY <1>4, <1>6, Zenon
<1> HIDE DEF r, R
<1>8. ~InRatchet(r, k.key)
  BY <1>7 DEF ChainInv, InRatchet, IsRatchet, MessageKeyData
<1>9. QED BY <1>2, <1>8, Zenon DEF r

\* From a tree that covers a leaf, its keys not taken yet can be derived.
LEMMA StillDerivable ==
    ASSUME NEW known, NEW K, TreeInv(known, K), Covered(known), NEW leaf \in Leaves,
           NEW b \in Nat, UpTo(known, b), b < GenerationModulus
    PROVE  \E i \in Covering(known, leaf) :
              ~IsSecret(known[i]) =>
                  \A t \in KeyTypes, n \in Nat :
                      \/ InRatchet(known[i].ratchets[t], [secret |-> n, generation |-> n])
                      \/ [leaf |-> leaf, key_type |-> t,
                          key |-> [secret |-> n, generation |-> n]] \in K
<1>1. PICK i \in Covering(known, leaf) : TRUE
  BY Zenon DEF Covered
<1> SUFFICES ASSUME ~IsSecret(known[i]), NEW t \in KeyTypes, NEW n \in Nat,
                    NEW key, key = [secret |-> n, generation |-> n],
                    ~InRatchet(known[i].ratchets[t], key)
             PROVE  [leaf |-> leaf, key_type |-> t, key |-> key] \in K
  BY <1>1, Zenon
<1>2. i \in DOMAIN known /\ i \in UpToRoot[leaf] /\ known[i] # Secret
  BY <1>1 DEF Covering, IsSecret, Secret
<1>3. i \in Leaves /\ ChainInv(known[i].ratchets[t], Used(K, i, t))
  BY <1>2, Zenon DEF TreeInv, NodeInv
<1>4. i = leaf
  BY <1>2, <1>3, OwnLeaf, Zenon
<1>5. known[i].ratchets[t].secret <= b
  BY <1>2, Zenon DEF UpTo
<1> DEFINE r == known[i].ratchets[t]
           R == Used(K, i, t)
<1>6. ChainInv(r, R) /\ r.secret <= b /\ ~InRatchet(r, key)
  BY <1>3, <1>5, Zenon
<1> HIDE DEF r, R
<1>7. r.secret \in Nat /\ r.secret < GenerationModulus
  BY <1>6, RatchetAssumption DEF ChainInv, IsRatchet
<1>8. n < r.secret
  BY <1>6, <1>7 DEF InRatchet
<1>9. n \notin DOMAIN r.history
  <2> SUFFICES ASSUME n \in DOMAIN r.history PROVE FALSE
    BY Zenon
  <2>1. r.history[n] \in MessageKeyData
    BY <1>6, Zenon DEF ChainInv, IsRatchet
  <2>2. r.history[n].generation = n /\ r.history[n].secret = n
    BY <1>6, <1>7, Zenon DEF ChainInv
  <2>3. r.history[n] = key
    BY <2>1, <2>2, Zenon DEF MessageKeyData
  <2>4. QED BY <1>6, <2>3, Zenon DEF InRatchet
<1>10. key \in R
  BY <1>6, <1>7, <1>8, <1>9 DEF ChainInv
<1>11. PICK k \in K : k.leaf = leaf /\ k.key_type = t /\ k.key = key
  BY <1>4, <1>10, Zenon DEF R, Used
<1>12. k = [leaf |-> leaf, key_type |-> t, key |-> key]
  BY <1>11, Zenon DEF TreeInv, KeyData
<1>13. QED BY <1>12, Zenon

-----------------------------------------------------------------------------
(* What a member holds, in memory or in storage                            *)

\* The keys taken from the secret tree of epoch e
UsedIn(g, e) == {k \in KeyData : <<e, k>> \in g.taken}

IsGroup(g) ==
    g = [epoch |-> g.epoch, secret_tree |-> g.secret_tree, prior |-> g.prior,
         proposals |-> g.proposals, pending_commit |-> g.pending_commit,
         taken |-> g.taken, lost |-> g.lost]

\* The tree of an epoch and the keys taken from it
EpochInv(g, e) ==
    /\ TreeInv(tree_of(g, e), UsedIn(g, e))
    /\ e \notin g.lost => Covered(tree_of(g, e))

\* Every tree kept is one that its taken keys left behind, and the last
\* max_epoch_retention epochs are kept.
GroupInv(g) ==
    /\ IsGroup(g) /\ g.epoch \in Nat
    /\ g.prior = [e \in DOMAIN g.prior |-> g.prior[e]]
    /\ DOMAIN g.prior \subseteq 0 .. g.epoch - 1
    /\ g.taken \subseteq (0 .. g.epoch) \X KeyData
    /\ \A e \in Epochs(g) : EpochInv(g, e)
    /\ \A e \in 0 .. g.epoch : e >= g.epoch - max_epoch_retention => e \in Epochs(g)

\* As long as generations do not wrap they number the keys, and no ratchet is
\* further than b.
GroupReach(g, b) ==
    /\ \A e \in Epochs(g) : UpTo(tree_of(g, e), b)
    /\ \A k \in g.taken : Numbered(k[2].key)

\* The root secret alone: nothing is taken, and no leaf is cut off.
LEMMA NewTreeInv ==
    /\ TreeInv(NewSecretTree, {}) /\ Covered(NewSecretTree)
    /\ \A b \in Nat : UpTo(NewSecretTree, b)
<1>1. /\ DOMAIN NewSecretTree = {root(LeafCount)}
      /\ \A i \in DOMAIN NewSecretTree : NewSecretTree[i] = Secret
  BY Zenon DEF NewSecretTree
<1>2. \A leaf \in Leaves : root(LeafCount) \in UpToRoot[leaf]
  BY PathFacts, Zenon
<1>3. QED BY <1>1, <1>2, Zenon DEF TreeInv, NodeInv, Covered, Covering, UpTo

\* A new group
LEMMA NewGroupInv == GroupInv(NewGroup) /\ \A b \in Nat : GroupReach(NewGroup, b)
<1> DEFINE g == NewGroup
<1>1. /\ g.epoch = 0 /\ g.secret_tree = NewSecretTree /\ DOMAIN g.prior = {}
      /\ g.taken = {} /\ IsGroup(g) /\ g.prior = [e \in DOMAIN g.prior |-> g.prior[e]]
  BY Zenon DEF NewGroup, IsGroup
<1> HIDE DEF g
<1>2. Epochs(g) = {0} /\ tree_of(g, 0) = NewSecretTree /\ UsedIn(g, 0) = {}
  BY <1>1, Zenon DEF Epochs, tree_of, UsedIn
<1>3. \A e \in Epochs(g) : EpochInv(g, e)
  BY <1>2, NewTreeInv, Zenon DEF EpochInv
<1>4. GroupInv(g)
  BY <1>1, <1>2, <1>3 DEF GroupInv
<1>5. \A b \in Nat : GroupReach(g, b)
  BY <1>1, <1>2, NewTreeInv, Zenon DEF GroupReach
<1>6. QED BY <1>4, <1>5, Zenon DEF g

\* What a call to the secret tree of epoch e changes
CallOf(g, e, leaf, res, h) ==
    /\ IsGroup(h) /\ h.epoch = g.epoch
    /\ DOMAIN h.prior = DOMAIN g.prior
    /\ h.prior = [f \in DOMAIN h.prior |-> h.prior[f]]
    /\ tree_of(h, e) = res.known
    /\ \A f \in Epochs(g) : f # e => tree_of(h, f) = tree_of(g, f)
    /\ h.taken = g.taken \cup {<<e, k>> : k \in res.value}
    /\ \A f : f \notin h.lost => f \notin g.lost /\ (f = e => leaf \in DOMAIN res.known)

LEMMA CalledFields ==
    ASSUME NEW g, GroupInv(g), NEW e \in Epochs(g), NEW leaf, NEW res
    PROVE  CallOf(g, e, leaf, res, Called(g, e, leaf, res))
<1> DEFINE w == with_tree(g, e, res.known)
           h == Called(g, e, leaf, res)
<1>1. /\ IsGroup(g) /\ (e = g.epoch \/ e \in DOMAIN g.prior)
      /\ g.epoch \notin DOMAIN g.prior /\ g.prior = [f \in DOMAIN g.prior |-> g.prior[f]]
  BY DEF GroupInv, Epochs
<1>2. /\ IsGroup(w) /\ w.epoch = g.epoch /\ w.taken = g.taken /\ w.lost = g.lost
      /\ e = g.epoch => w.secret_tree = res.known /\ w.prior = g.prior
      /\ e # g.epoch => w.secret_tree = g.secret_tree /\ w.prior = [g.prior EXCEPT ![e] = res.known]
  <2>1. CASE e = g.epoch
    BY <1>1, <2>1, Zenon DEF with_tree, IsGroup
  <2>2. CASE e # g.epoch
    BY <1>1, <2>2, Zenon DEF with_tree, IsGroup
  <2>3. QED BY <2>1, <2>2, Zenon
<1>3. h = [w EXCEPT !.taken = @ \cup {<<e, k>> : k \in res.value},
                    !.lost  = IF leaf \in DOMAIN res.known THEN @ ELSE @ \cup {e}]
  BY Zenon DEF Called
<1> HIDE DEF w, h
<1>4. /\ IsGroup(h) /\ h.epoch = w.epoch /\ h.secret_tree = w.secret_tree /\ h.prior = w.prior
      /\ h.taken = w.taken \cup {<<e, k>> : k \in res.value}
      /\ h.lost = IF leaf \in DOMAIN res.known THEN w.lost ELSE w.lost \cup {e}
  BY <1>2, <1>3, Zenon DEF IsGroup
<1>5. /\ DOMAIN h.prior = DOMAIN g.prior
      /\ h.prior = [f \in DOMAIN h.prior |-> h.prior[f]]
      /\ \A f \in DOMAIN g.prior : f # e => h.prior[f] = g.prior[f]
      /\ e # g.epoch => h.prior[e] = res.known
  BY <1>1, <1>2, <1>4, Zenon
<1>6. tree_of(h, e) = res.known
  BY <1>2, <1>4, <1>5, Zenon DEF tree_of
<1>7. \A f \in Epochs(g) : f # e => tree_of(h, f) = tree_of(g, f)
  BY <1>2, <1>4, <1>5, Zenon DEF tree_of, Epochs
<1>8. CallOf(g, e, leaf, res, h)
  BY <1>2, <1>4, <1>5, <1>6, <1>7, Zenon DEF CallOf
<1>9. QED BY <1>8, Zenon DEF h

\* The keys of the epoch called join those taken; the others stay as they are.
LEMMA CalledUsed ==
    ASSUME NEW g, NEW e, NEW leaf, NEW res, NEW h, CallOf(g, e, leaf, res, h),
           res.value \subseteq KeyData
    PROVE  /\ UsedIn(h, e) = UsedIn(g, e) \cup res.value
           /\ \A f : f # e => UsedIn(h, f) = UsedIn(g, f)
<1> DEFINE new == {<<e, k>> : k \in res.value}
<1>1. \A f, k : <<f, k>> \in new <=> f = e /\ k \in res.value
  BY Zenon
<1>2. h.taken = g.taken \cup new
  BY Zenon DEF CallOf
<1> HIDE DEF new
<1>3. QED BY <1>1, <1>2, Zenon DEF UsedIn

\* A good call leaves a group that satisfies the invariant.
LEMMA CalledInv ==
    ASSUME NEW g, GroupInv(g), NEW e \in Epochs(g), NEW leaf, NEW res,
           GoodCall(tree_of(g, e), UsedIn(g, e), leaf, res),
           NEW h, h = Called(g, e, leaf, res)
    PROVE  GroupInv(h) /\ h.epoch = g.epoch /\ Epochs(h) = Epochs(g)
<1>1. CallOf(g, e, leaf, res, h)
  BY CalledFields, Zenon
<1>2. Epochs(h) = Epochs(g) /\ e \in 0 .. g.epoch
  BY <1>1 DEF CallOf, Epochs, GroupInv
<1>3. res.value \subseteq KeyData
  BY Zenon DEF GoodCall
<1>4. h.taken \subseteq (0 .. h.epoch) \X KeyData
  BY <1>1, <1>2, <1>3 DEF CallOf, GroupInv
<1>5. \A f \in Epochs(h) : EpochInv(h, f)
  <2> SUFFICES ASSUME NEW f \in Epochs(g) PROVE EpochInv(h, f)
    BY <1>2, Zenon
  <2>1. EpochInv(g, f)
    BY Zenon DEF GroupInv
  <2>2. CASE f = e
    <3>1. UsedIn(h, e) = UsedIn(g, e) \cup res.value /\ tree_of(h, e) = res.known
      BY <1>1, <1>3, CalledUsed DEF CallOf
    <3>2. e \notin h.lost => Covered(res.known)
      BY <1>1, <2>1, <2>2, Zenon DEF CallOf, GoodCall, EpochInv
    <3>3. QED BY <2>2, <3>1, <3>2, Zenon DEF EpochInv, GoodCall
  <2>3. CASE f # e
    <3>1. UsedIn(h, f) = UsedIn(g, f) /\ tree_of(h, f) = tree_of(g, f)
      BY <1>1, <1>3, <2>3, CalledUsed DEF CallOf
    <3>2. f \notin h.lost => f \notin g.lost
      BY <1>1, Zenon DEF CallOf
    <3>3. QED BY <2>1, <3>1, <3>2, Zenon DEF EpochInv
  <2>4. QED BY <2>2, <2>3, Zenon
<1>6. QED BY <1>1, <1>2, <1>4, <1>5, Zenon DEF GroupInv, CallOf

\* How far a call takes the ratchets of the group
LEMMA CalledReach ==
    ASSUME NEW g, GroupInv(g), NEW e \in Epochs(g), NEW leaf, NEW res,
           NEW h, h = Called(g, e, leaf, res), Epochs(h) = Epochs(g),
           NEW b, UpTo(res.known, b), GroupReach(g, b),
           \A k \in res.value : Numbered(k.key)
    PROVE  GroupReach(h, b)
<1>1. CallOf(g, e, leaf, res, h)
  BY CalledFields, Zenon
<1>2. ASSUME NEW f \in Epochs(h) PROVE UpTo(tree_of(h, f), b)
  BY <1>1, <1>2, Zenon DEF CallOf, GroupReach
<1>3. \A k \in h.taken : k \in g.taken \/ k[2] \in res.value
  BY <1>1 DEF CallOf
<1>4. QED BY <1>2, <1>3, Zenon DEF GroupReach

\* A change of the proposals or of the pending commit
SameCore(g, h) ==
    /\ IsGroup(h) /\ h.epoch = g.epoch /\ h.secret_tree = g.secret_tree
    /\ h.prior = g.prior /\ h.taken = g.taken /\ h.lost = g.lost

LEMMA SameCoreInv ==
    ASSUME NEW g, GroupInv(g), NEW h, SameCore(g, h)
    PROVE  GroupInv(h) /\ \A b : GroupReach(g, b) => GroupReach(h, b)
<1>1. /\ Epochs(h) = Epochs(g)
      /\ \A e : tree_of(h, e) = tree_of(g, e) /\ UsedIn(h, e) = UsedIn(g, e)
  BY Zenon DEF SameCore, Epochs, tree_of, UsedIn
<1>2. \A e \in Epochs(h) : EpochInv(h, e)
  BY <1>1, Zenon DEF GroupInv, EpochInv, SameCore
<1>3. GroupInv(h)
  BY <1>1, <1>2, Zenon DEF GroupInv, SameCore
<1>4. QED BY <1>1, <1>3, Zenon DEF GroupReach, SameCore

\* A new epoch begins with a new tree and keeps the last as it stands.
LEMMA AdvancedInv ==
    ASSUME NEW g, GroupInv(g), NEW h, h = Advanced(g)
    PROVE  GroupInv(h) /\ \A b \in Nat : GroupReach(g, b) => GroupReach(h, b)
<1>1. /\ IsGroup(g) /\ g.epoch \in Nat /\ DOMAIN g.prior \subseteq 0 .. g.epoch - 1
      /\ g.taken \subseteq (0 .. g.epoch) \X KeyData
      /\ \A e \in 0 .. g.epoch : e >= g.epoch - max_epoch_retention => e \in Epochs(g)
  BY Zenon DEF GroupInv
<1>2. /\ IsGroup(h) /\ h.epoch = g.epoch + 1 /\ h.secret_tree = NewSecretTree
      /\ h.prior = insert_past_epoch(g) /\ h.taken = g.taken /\ h.lost = g.lost
  BY <1>1, Zenon DEF Advanced, IsGroup
<1>3. /\ DOMAIN h.prior = Epochs(g)
      /\ \A e \in Epochs(g) : h.prior[e] = tree_of(g, e)
      /\ h.prior = [e \in DOMAIN h.prior |-> h.prior[e]]
  BY <1>2, Zenon DEF insert_past_epoch, Epochs
<1>4. Epochs(g) \subseteq 0 .. g.epoch
  BY <1>1 DEF Epochs
<1>5. /\ Epochs(h) = Epochs(g) \cup {g.epoch + 1}
      /\ tree_of(h, g.epoch + 1) = NewSecretTree
      /\ \A e \in Epochs(g) : tree_of(h, e) = tree_of(g, e)
  <2>1. \A e \in Epochs(g) : e # g.epoch + 1
    BY <1>1, <1>4
  <2>2. QED BY <1>2, <1>3, <2>1, Zenon DEF Epochs, tree_of
<1>6. /\ \A e : UsedIn(h, e) = UsedIn(g, e)
      /\ UsedIn(h, g.epoch + 1) = {}
  <2>1. \A k : <<g.epoch + 1, k>> \notin g.taken
    BY <1>1
  <2>2. QED BY <1>2, <2>1, Zenon DEF UsedIn
<1>7. \A e \in Epochs(h) : EpochInv(h, e)
  <2>1. \A e \in Epochs(g) : EpochInv(g, e)
    BY Zenon DEF GroupInv
  <2>2. ASSUME NEW e \in Epochs(g) PROVE EpochInv(h, e)
    BY <1>2, <1>5, <1>6, <2>1, Zenon DEF EpochInv
  <2>3. EpochInv(h, g.epoch + 1)
    BY <1>5, <1>6, NewTreeInv, Zenon DEF EpochInv
  <2>4. QED BY <1>5, <2>2, <2>3, Zenon
<1>8. \A e \in 0 .. h.epoch : e >= h.epoch - max_epoch_retention => e \in Epochs(h)
  BY <1>1, <1>2, <1>5, PrivateMessagesAssumption
<1>9. GroupInv(h)
  <2>1. DOMAIN h.prior \subseteq 0 .. h.epoch - 1
    BY <1>1, <1>2, <1>3, <1>4
  <2>2. h.taken \subseteq (0 .. h.epoch) \X KeyData
    BY <1>1, <1>2
  <2>3. h.epoch \in Nat
    BY <1>1, <1>2
  <2>4. QED BY <1>2, <1>3, <1>7, <1>8, <2>1, <2>2, <2>3, Zenon DEF GroupInv
<1>10. ASSUME NEW b \in Nat, GroupReach(g, b) PROVE GroupReach(h, b)
  BY <1>2, <1>5, <1>10, NewTreeInv, Zenon DEF GroupReach
<1>11. QED BY <1>9, <1>10, Zenon

\* write_to_storage drops epochs beyond the retention, and nothing else.
LEMMA PersistedInv ==
    ASSUME NEW g, GroupInv(g), NEW h, h = Persisted(g)
    PROVE  GroupInv(h) /\ \A b \in Nat : GroupReach(g, b) => GroupReach(h, b)
<1>1. /\ IsGroup(g) /\ g.epoch \in Nat /\ DOMAIN g.prior \subseteq 0 .. g.epoch - 1
      /\ \A e \in 0 .. g.epoch : e >= g.epoch - max_epoch_retention => e \in Epochs(g)
      /\ \A e \in Epochs(g) : EpochInv(g, e)
  BY Zenon DEF GroupInv
<1>2. /\ IsGroup(h) /\ h.epoch = g.epoch /\ h.secret_tree = g.secret_tree
      /\ h.prior = Latest(g.prior, g.epoch - max_epoch_retention)
      /\ h.taken = g.taken /\ h.lost = g.lost
  BY <1>1, Zenon DEF Persisted, IsGroup
<1>3. /\ DOMAIN h.prior = {e \in DOMAIN g.prior : e >= g.epoch - max_epoch_retention}
      /\ \A e \in DOMAIN h.prior : h.prior[e] = g.prior[e]
      /\ h.prior = [e \in DOMAIN h.prior |-> h.prior[e]]
  BY <1>2, Zenon DEF Latest
<1>4. /\ Epochs(h) \subseteq Epochs(g)
      /\ \A e \in Epochs(h) : tree_of(h, e) = tree_of(g, e) /\ UsedIn(h, e) = UsedIn(g, e)
  BY <1>2, <1>3, Zenon DEF Epochs, tree_of, UsedIn
<1>5. \A e \in Epochs(h) : EpochInv(h, e)
  BY <1>1, <1>2, <1>4, Zenon DEF EpochInv
<1>6. \A e \in 0 .. h.epoch : e >= h.epoch - max_epoch_retention => e \in Epochs(h)
  BY <1>1, <1>2, <1>3, Zenon DEF Epochs
<1>7. GroupInv(h)
  BY <1>1, <1>2, <1>3, <1>5, <1>6, Zenon DEF GroupInv
<1>8. ASSUME NEW b \in Nat, GroupReach(g, b) PROVE GroupReach(h, b)
  BY <1>2, <1>4, <1>8, Zenon DEF GroupReach
<1>9. QED BY <1>7, <1>8

\* A bound on the ratchets may be raised.
LEMMA ReachMonotone ==
    ASSUME NEW g, GroupInv(g), NEW a \in Nat, NEW b \in Nat, a <= b, GroupReach(g, a)
    PROVE  GroupReach(g, b)
<1>1. ASSUME NEW e \in Epochs(g) PROVE UpTo(tree_of(g, e), b)
  <2> DEFINE known == tree_of(g, e)
  <2>1. TreeInv(known, UsedIn(g, e)) /\ UpTo(known, a)
    BY Zenon DEF GroupInv, EpochInv, GroupReach
  <2> HIDE DEF known
  <2>2. ASSUME NEW i \in DOMAIN known, known[i] # Secret, NEW t \in KeyTypes
        PROVE  known[i].ratchets[t].secret <= b
    <3>1. known[i].ratchets[t].secret \in Nat
      BY <2>1, <2>2, Zenon DEF TreeInv, NodeInv, ChainInv, IsRatchet
    <3>2. known[i].ratchets[t].secret <= a
      BY <2>1, <2>2, Zenon DEF UpTo
    <3>3. QED BY <3>1, <3>2
  <2>3. UpTo(known, b)
    BY <2>2, Zenon DEF UpTo
  <2>4. QED BY <2>3, Zenon DEF known
<1>2. QED BY <1>1, Zenon DEF GroupReach

-----------------------------------------------------------------------------
(* The messages, and the invariants                                        *)

ContentTypes == {"Application", "Proposal", "Commit"}

LEMMA RecordedCore ==
    ASSUME NEW g, GroupInv(g), NEW c, c.content_type \in ContentTypes
    PROVE  SameCore(g, Recorded(g, c))
<1>1. IsGroup(g)
  BY Zenon DEF GroupInv
<1>2. CASE c.content_type = "Application"
  BY <1>1, <1>2, Zenon DEF Recorded, SameCore
<1>3. CASE c.content_type = "Proposal"
  BY <1>1, <1>3, Zenon DEF Recorded, SameCore, IsGroup
<1>4. CASE c.content_type = "Commit"
  BY <1>1, <1>4, Zenon DEF Recorded, SameCore, IsGroup
<1>5. QED BY <1>2, <1>3, <1>4, Zenon DEF ContentTypes

LEMMA ProcessedInv ==
    ASSUME NEW g, GroupInv(g), NEW c, c.content_type \in ContentTypes,
           NEW h, h = Processed(g, c)
    PROVE  GroupInv(h) /\ \A b \in Nat : GroupReach(g, b) => GroupReach(h, b)
<1>1. IsGroup(g)
  BY Zenon DEF GroupInv
<1>2. CASE c.content_type = "Application"
  BY <1>2, Zenon DEF Processed
<1>3. CASE c.content_type = "Proposal"
  <2>1. SameCore(g, h)
    BY <1>1, <1>3, Zenon DEF Processed, SameCore, IsGroup
  <2>2. QED BY <2>1, SameCoreInv, Zenon
<1>4. CASE c.content_type = "Commit"
  <2>1. h = g \/ h = Advanced(g)
    BY <1>4, Zenon DEF Processed
  <2>2. QED BY <2>1, AdvancedInv, Zenon
<1>5. QED BY <1>2, <1>3, <1>4, Zenon DEF ContentTypes

MessageInv(c) ==
    /\ c.epoch \in Nat /\ c.sender \in Members /\ c.content_type \in ContentTypes
    /\ c.key \in KeyData

\* The inductive invariant behind forward secrecy
StateInv ==
    /\ group = [m \in Members |-> group[m]] /\ stored = [m \in Members |-> stored[m]]
    /\ \A m \in Members : GroupInv(group[m]) /\ GroupInv(stored[m])
    /\ \A c \in net : MessageInv(c)

\* No call moves a ratchet by more than a message sealed or a fault accounts for.
Reach == sealed + faults

SealedInv(c, b) ==
    /\ Numbered(c.key.key) /\ c.key.key.secret < b
    /\ c.key.leaf = c.sender /\ c.key.key_type = key_type(c.content_type)

\* The inductive invariant behind the properties of delivery
ReachInv ==
    /\ sealed \in 0 .. MaxMessages /\ faults \in 0 .. MaxFaults
    /\ \A m \in Members : GroupReach(group[m], Reach) /\ GroupReach(stored[m], Reach)
    /\ \A c \in net : SealedInv(c, Reach)

\* No u32 overflows within the bounds of the model.
NoWrap == MaxMessages + MaxFaults + MAX_RATCHET_BACK_HISTORY < GenerationModulus

LEMMA KeyTypeType == \A content_type : key_type(content_type) \in KeyTypes
BY Zenon DEF key_type, KeyTypes

\* The keys a member seals with are those of its own leaf, and of the content.
LEMMA NextIsGoodCall ==
    ASSUME StateInv, NEW m \in Members, NEW t \in KeyTypes,
           NEW res \in TreeNextResults(group[m].secret_tree, m, t),
           NEW e, e = group[m].epoch
    PROVE  /\ e \in Epochs(group[m]) /\ m \in Leaves
           /\ GoodCall(tree_of(group[m], e), UsedIn(group[m], e), m, res)
<1>1. m \in Leaves
  BY PrivateMessagesAssumption, Zenon
<1>2. e \in Epochs(group[m]) /\ tree_of(group[m], e) = group[m].secret_tree
  BY Zenon DEF Epochs, tree_of
<1>3. TreeInv(tree_of(group[m], e), UsedIn(group[m], e))
  BY <1>2, Zenon DEF StateInv, GroupInv, EpochInv
<1>4. QED BY <1>1, <1>2, <1>3, TreeNextIsGood, Zenon

\* A message admitted is looked up in the tree of its epoch.
LEMMA GetIsGoodCall ==
    ASSUME StateInv, NEW m \in Members, NEW c \in net, Admitted(group[m], m, c),
           NEW res \in OpenResults(group[m], c)
    PROVE  /\ c.epoch \in Epochs(group[m]) /\ c.sender \in Leaves
           /\ c.key.key.generation \in Generations
           /\ TreeInv(tree_of(group[m], c.epoch), UsedIn(group[m], c.epoch))
           /\ GoodCall(tree_of(group[m], c.epoch), UsedIn(group[m], c.epoch), c.sender, res)
<1>1. MessageInv(c)
  BY Zenon DEF StateInv
<1>2. c.sender \in Leaves /\ c.key.key.generation \in Generations
  BY <1>1, PrivateMessagesAssumption, Zenon DEF MessageInv, KeyData, MessageKeyData
<1>3. c.epoch \in Epochs(group[m])
  BY Zenon DEF Admitted, Epochs
<1>4. TreeInv(tree_of(group[m], c.epoch), UsedIn(group[m], c.epoch))
  BY <1>3, Zenon DEF StateInv, GroupInv, EpochInv
<1>5. GoodCall(tree_of(group[m], c.epoch), UsedIn(group[m], c.epoch), c.sender, res)
  BY <1>2, <1>4, KeyTypeType, TreeGetIsGood, Zenon DEF OpenResults
<1>6. QED BY <1>2, <1>3, <1>4, <1>5, Zenon

-----------------------------------------------------------------------------
(* Every action preserves StateInv                                         *)

\* One member's group changes, and perhaps its storage with it.
LEMMA StateStep ==
    ASSUME StateInv, NEW m \in Members, NEW h, GroupInv(h),
           group' = [group EXCEPT ![m] = h],
           stored' = stored \/ stored' = [stored EXCEPT ![m] = h],
           \A c \in net' : c \in net \/ MessageInv(c)
    PROVE  StateInv'
<1>1. /\ group' = [n \in Members |-> group'[n]] /\ stored' = [n \in Members |-> stored'[n]]
      /\ \A n \in Members : group'[n] = group[n] \/ group'[n] = h
      /\ \A n \in Members : stored'[n] = stored[n] \/ stored'[n] = h
  BY Zenon DEF StateInv
<1>2. \A n \in Members : GroupInv(group'[n]) /\ GroupInv(stored'[n])
  BY <1>1, Zenon DEF StateInv
<1>3. QED BY <1>1, <1>2, Zenon DEF StateInv

\* What Seal does, with the result of the call named
SealedBy(m, content_type, res, h) ==
    \/ \E key \in res.value :
          LET c == Message(m, content_type, key)
          IN  /\ sealed < MaxMessages /\ sealed' = sealed + 1
              /\ net' = net \cup {c}
              /\ group' = [group EXCEPT ![m] = Recorded(h, c)]
              /\ UNCHANGED <<stored, accepted, writes, faults>>
    \/ /\ Fails(m)
       /\ group' = [group EXCEPT ![m] = h]
       /\ UNCHANGED <<stored, net, accepted, sealed, writes>>

LEMMA SealCases ==
    ASSUME NEW m, NEW content_type, Seal(m, content_type)
    PROVE  \E res \in TreeNextResults(group[m].secret_tree, m, key_type(content_type)) :
              SealedBy(m, content_type, res, Called(group[m], group[m].epoch, m, res))
BY Zenon DEF Seal, SealedBy

\* The fields of a message sealed
LEMMA MessageFields ==
    ASSUME NEW m, NEW content_type, NEW key, NEW c, c = Message(m, content_type, key)
    PROVE  /\ c.epoch = group[m].epoch /\ c.sender = m
           /\ c.content_type = content_type /\ c.key = key
BY Zenon DEF Message

\* Sealing keeps the invariant, and takes a key that was not taken before.
LEMMA SealInv ==
    ASSUME StateInv, NEW m \in Members, NEW content_type \in ContentTypes,
           Seal(m, content_type)
    PROVE  /\ StateInv'
           /\ \A c \in net' \ net : <<c.epoch, c.key>> \notin group[c.sender].taken
<1> DEFINE g == group[m]
<1>1. PICK res \in TreeNextResults(g.secret_tree, m, key_type(content_type)) :
         SealedBy(m, content_type, res, Called(g, g.epoch, m, res))
  BY SealCases, Zenon
<1>2. PICK e : e = g.epoch
  BY Zenon
<1>3. PICK h : h = Called(g, e, m, res)
  BY Zenon
<1>4. /\ e \in Epochs(g) /\ m \in Leaves
      /\ GoodCall(tree_of(g, e), UsedIn(g, e), m, res)
  BY <1>1, <1>2, KeyTypeType, NextIsGoodCall, Zenon
<1>5. GroupInv(g) /\ g.epoch \in Nat
  BY Zenon DEF StateInv, GroupInv
<1>6. GroupInv(h)
  BY <1>3, <1>4, <1>5, CalledInv, Zenon
<1>7. ASSUME NEW key \in res.value, NEW c, c = Message(m, content_type, key),
             net' = net \cup {c}, group' = [group EXCEPT ![m] = Recorded(h, c)],
             UNCHANGED <<stored, accepted, writes, faults>>
      PROVE  /\ StateInv'
             /\ \A d \in net' \ net : <<d.epoch, d.key>> \notin group[d.sender].taken
  <2>1. /\ c.epoch = e /\ c.sender = m /\ c.content_type = content_type /\ c.key = key
    BY <1>2, <1>7, MessageFields
  <2>2. key \in KeyData /\ key \notin UsedIn(g, e)
    BY <1>4, <1>7, Zenon DEF GoodCall
  <2>3. MessageInv(c)
    BY <1>2, <1>5, <2>1, <2>2, Zenon DEF MessageInv
  <2>4. GroupInv(Recorded(h, c))
    BY <1>6, <2>1, RecordedCore, SameCoreInv, Zenon
  <2>5. \A d \in net' : d \in net \/ MessageInv(d)
    BY <1>7, <2>3, Zenon
  <2>6. StateInv'
    BY <1>7, <2>4, <2>5, StateStep, Zenon
  <2>7. <<c.epoch, c.key>> \notin group[c.sender].taken
    BY <2>1, <2>2, Zenon DEF UsedIn
  <2>8. QED BY <1>7, <2>6, <2>7, Zenon
<1>8. CASE /\ Fails(m)
           /\ group' = [group EXCEPT ![m] = h]
           /\ UNCHANGED <<stored, net, accepted, sealed, writes>>
  <2>1. StateInv'
    BY <1>6, <1>8, StateStep, Zenon
  <2>2. QED BY <1>8, <2>1, Zenon
<1>9. QED BY <1>1, <1>2, <1>3, <1>7, <1>8, Zenon DEF SealedBy

\* process_incoming_message, of a message opened or refused
LEMMA ReceiveInv ==
    ASSUME StateInv, NEW m \in Members, NEW c \in net, Receive(m, c)
    PROVE  StateInv'
<1> DEFINE g == group[m]
<1>1. PICK res \in OpenResults(g, c) :
         group' = [group EXCEPT ![m] = Processed(Called(g, c.epoch, c.sender, res), c)]
  BY Zenon DEF Receive, StateInv
<1>2. PICK h : h = Called(g, c.epoch, c.sender, res)
  BY Zenon
<1>3. /\ Admitted(g, m, c) /\ UNCHANGED <<stored, net>>
      /\ MessageInv(c) /\ GroupInv(g)
  BY Zenon DEF Receive, StateInv
<1>4. GroupInv(h)
  BY <1>2, <1>3, GetIsGoodCall, CalledInv, Zenon
<1>5. GroupInv(Processed(h, c))
  BY <1>3, <1>4, ProcessedInv, Zenon DEF MessageInv
<1>6. QED BY <1>1, <1>2, <1>3, <1>5, StateStep, Zenon

LEMMA RefuseInv ==
    ASSUME StateInv, NEW m \in Members, NEW c \in net, Refuse(m, c)
    PROVE  StateInv'
<1> DEFINE g == group[m]
<1>1. PICK res \in OpenResults(g, c) :
         group' = [group EXCEPT ![m] = Called(g, c.epoch, c.sender, res)]
  BY Zenon DEF Refuse
<1>2. PICK h : h = Called(g, c.epoch, c.sender, res)
  OBVIOUS
<1>3. Admitted(g, m, c) /\ UNCHANGED <<stored, net>> /\ GroupInv(g)
  BY Zenon DEF Refuse, StateInv
<1>4. GroupInv(h)
  BY <1>2, <1>3, GetIsGoodCall, CalledInv, Zenon
<1>5. QED BY <1>1, <1>2, <1>3, <1>4, StateStep, Zenon

\* A step that seals nothing adds no message.
LEMMA StateNext ==
    ASSUME StateInv, Next
    PROVE  /\ StateInv'
           /\ \A c \in net' \ net : <<c.epoch, c.key>> \notin group[c.sender].taken
<1>1. PICK m \in Members :
         \/ EncryptApplication(m) \/ Propose(m) \/ Commit(m) \/ ApplyPendingCommit(m)
         \/ WriteToStorage(m) \/ Restart(m)
         \/ \E c \in net : Receive(m, c) \/ Refuse(m, c)
  BY Zenon DEF Next
<1>2. GroupInv(group[m]) /\ GroupInv(stored[m])
  BY Zenon DEF StateInv
<1>3. CASE EncryptApplication(m)
  BY <1>3, SealInv, Zenon DEF EncryptApplication, ContentTypes
<1>4. CASE Propose(m)
  BY <1>4, SealInv, Zenon DEF Propose, ContentTypes
<1>5. CASE Commit(m)
  BY <1>5, SealInv, Zenon DEF Commit, ContentTypes
<1>6. CASE ApplyPendingCommit(m)
  <2>1. group' = [group EXCEPT ![m] = Advanced(group[m])] /\ UNCHANGED <<stored, net>>
    BY <1>6, Zenon DEF ApplyPendingCommit, StateInv
  <2>2. GroupInv(Advanced(group[m]))
    BY <1>2, AdvancedInv, Zenon
  <2>3. StateInv'
    BY <2>1, <2>2, StateStep, Zenon
  <2>4. QED BY <2>1, <2>3, Zenon
<1>7. CASE WriteToStorage(m)
  <2>1. /\ group' = [group EXCEPT ![m] = Persisted(group[m])]
        /\ stored' = [stored EXCEPT ![m] = Persisted(group[m])] /\ UNCHANGED net
    BY <1>7, Zenon DEF WriteToStorage, StateInv
  <2>2. GroupInv(Persisted(group[m]))
    BY <1>2, PersistedInv
  <2>3. StateInv'
    BY <2>1, <2>2, StateStep, Zenon
  <2>4. QED BY <2>1, <2>3, Zenon
<1>8. CASE Restart(m)
  <2>1. group' = [group EXCEPT ![m] = stored[m]] /\ UNCHANGED <<stored, net>>
    BY <1>8, Zenon DEF Restart
  <2>2. StateInv'
    BY <1>2, <2>1, StateStep, Zenon
  <2>3. QED BY <2>1, <2>2, Zenon
<1>9. ASSUME NEW c \in net, Receive(m, c) \/ Refuse(m, c)
      PROVE  StateInv' /\ UNCHANGED net
  <2>1. UNCHANGED net
    BY <1>9, Zenon DEF Receive, Refuse
  <2>2. QED BY <1>9, <2>1, ReceiveInv, RefuseInv, Zenon
<1>10. QED BY <1>1, <1>3, <1>4, <1>5, <1>6, <1>7, <1>8, <1>9, Zenon

LEMMA StateInit == Init => StateInv
<1> SUFFICES ASSUME Init PROVE StateInv
  BY Zenon
<1>1. group = [m \in Members |-> NewGroup] /\ stored = group /\ net = {}
  BY Zenon DEF Init
<1>2. QED BY <1>1, NewGroupInv, Zenon DEF StateInv

LEMMA StateUnchanged == StateInv /\ UNCHANGED vars => StateInv'
BY Zenon DEF StateInv, vars

LEMMA StateInductive == Spec => []StateInv
<1>1. StateInv /\ [Next]_vars => StateInv'
  BY StateNext, StateUnchanged, Zenon
<1>2. QED BY StateInit, <1>1, PTL DEF Spec

\* SecretTree and PriorEpoch: whatever members seal, open, refuse, write and
\* lose by restarting, no key taken can be derived again from what is held, even
\* when the u32 generation of a ratchet wraps.
THEOREM ForwardSecrecyTheorem == Spec => []ReleasedNotDerivable
<1>1. ASSUME StateInv PROVE ReleasedNotDerivable
  <2> SUFFICES ASSUME NEW g \in Held, NEW k \in g.taken, k[1] \in Epochs(g)
               PROVE  ~Derivable(tree_of(g, k[1]), k[2].leaf, k[2].key_type, k[2].key)
    BY Zenon DEF ReleasedNotDerivable
  <2>1. GroupInv(g)
    BY <1>1, Zenon DEF Held, StateInv
  <2>2. k[2] \in KeyData /\ k = <<k[1], k[2]>>
    BY <2>1 DEF GroupInv
  <2>3. k[2] \in UsedIn(g, k[1])
    BY <2>2, Zenon DEF UsedIn
  <2>4. TreeInv(tree_of(g, k[1]), UsedIn(g, k[1]))
    BY <2>1, Zenon DEF GroupInv, EpochInv
  <2>5. QED BY <2>3, <2>4, NotDerivable, Zenon
<1>2. QED BY <1>1, StateInductive, PTL

\* CiphertextProcessor::seal: no message is sealed with a key that the sender's
\* state has used before.
THEOREM FreshKeyTheorem == Spec => SealedWithFreshKey
<1> DEFINE Fresh == \A c \in net' \ net : <<c.epoch, c.key>> \notin group[c.sender].taken
<1>1. StateInv /\ [Next]_vars => [Fresh]_vars
  BY StateNext, Zenon
<1>2. Spec => [][Fresh]_vars
  <2> HIDE DEF Fresh
  <2>1. QED BY <1>1, StateInductive, PTL DEF Spec
<1>3. QED BY <1>2, Zenon DEF SealedWithFreshKey

-----------------------------------------------------------------------------
(* Every action preserves ReachInv, as long as no generation wraps         *)

LEMMA ReachBound ==
    ASSUME NoWrap, ReachInv
    PROVE  /\ Reach \in Nat /\ sealed \in Nat /\ faults \in Nat
           /\ Reach + MAX_RATCHET_BACK_HISTORY < GenerationModulus
           /\ Reach < GenerationModulus
BY RatchetAssumption, PrivateMessagesAssumption DEF NoWrap, ReachInv, Reach

\* One member's group changes, and perhaps its storage with it.
LEMMA ReachStep ==
    ASSUME StateInv, ReachInv, NEW m \in Members, NEW h,
           group' = [group EXCEPT ![m] = h],
           stored' = stored \/ stored' = [stored EXCEPT ![m] = h],
           Reach \in Nat, Reach' \in Nat, Reach <= Reach', GroupReach(h, Reach'),
           sealed' \in 0 .. MaxMessages, faults' \in 0 .. MaxFaults,
           \A c \in net' : c \in net \/ SealedInv(c, Reach)'
    PROVE  ReachInv'
<1>1. /\ \A n \in Members : group'[n] = group[n] \/ group'[n] = h
      /\ \A n \in Members : stored'[n] = stored[n] \/ stored'[n] = h
  BY Zenon DEF StateInv
<1>2. PICK b : b = Reach'
  BY Zenon
<1>3. \A n \in Members : GroupReach(group[n], b) /\ GroupReach(stored[n], b)
  BY <1>2, ReachMonotone, Zenon DEF StateInv, ReachInv
<1>4. \A n \in Members : GroupReach(group'[n], b) /\ GroupReach(stored'[n], b)
  BY <1>1, <1>2, <1>3, Zenon
<1>5. ASSUME NEW c \in net PROVE SealedInv(c, Reach)'
  <2>1. SealedInv(c, Reach) /\ MessageInv(c)
    BY Zenon DEF ReachInv, StateInv
  <2>2. c.key.key.secret \in Nat
    BY <2>1, Zenon DEF MessageInv, KeyData, MessageKeyData
  <2>3. c.key.key.secret < Reach'
    BY <2>1, <2>2 DEF SealedInv
  <2>4. QED BY <2>1, <2>3, Zenon DEF SealedInv
<1>6. \A c \in net' : SealedInv(c, Reach)'
  BY <1>5, Zenon
<1>7. QED BY <1>2, <1>4, <1>6, Zenon DEF ReachInv

\* A key sealed with, and a call that failed, count for one step of a ratchet.
LEMMA SealReach ==
    ASSUME NoWrap, StateInv, ReachInv, NEW m \in Members,
           NEW content_type \in ContentTypes, Seal(m, content_type)
    PROVE  ReachInv'
<1> DEFINE g == group[m]
<1>1. PICK res \in TreeNextResults(g.secret_tree, m, key_type(content_type)) :
         SealedBy(m, content_type, res, Called(g, g.epoch, m, res))
  BY SealCases, Zenon
<1>2. PICK e : e = g.epoch
  BY Zenon
<1>3. PICK h : h = Called(g, e, m, res)
  BY Zenon
<1>4. PICK b : b = Reach
  BY Zenon
<1>5. /\ e \in Epochs(g) /\ m \in Leaves /\ tree_of(g, e) = g.secret_tree
      /\ GoodCall(tree_of(g, e), UsedIn(g, e), m, res)
  BY <1>1, <1>2, KeyTypeType, NextIsGoodCall, Zenon DEF tree_of
<1>6. GroupInv(g) /\ GroupReach(g, b)
  BY <1>4, Zenon DEF StateInv, ReachInv
<1>7. b \in Nat /\ b + 1 \in Nat /\ b <= b + 1 /\ b < GenerationModulus
  BY <1>4, ReachBound
<1>8. /\ UpTo(res.known, b + 1)
      /\ \A k \in res.value :
            Numbered(k.key) /\ k.key.secret <= b /\ k.key_type = key_type(content_type)
  <2>1. TreeInv(g.secret_tree, UsedIn(g, e)) /\ UpTo(g.secret_tree, b)
    BY <1>5, <1>6, Zenon DEF GroupInv, EpochInv, GroupReach
  <2>2. QED BY <1>1, <1>5, <1>7, <2>1, KeyTypeType, TreeNextUpTo
<1>9. GroupInv(h) /\ GroupReach(h, b + 1)
  <2>1. GroupInv(h) /\ Epochs(h) = Epochs(g)
    BY <1>3, <1>5, <1>6, CalledInv
  <2>2. GroupReach(g, b + 1)
    BY <1>6, <1>7, ReachMonotone, Zenon
  <2>3. PICK d : d = b + 1
    BY Zenon
  <2>4. GroupReach(h, d)
    BY <1>3, <1>5, <1>6, <1>8, <2>1, <2>2, <2>3, CalledReach
  <2>5. QED BY <2>1, <2>3, <2>4, Zenon
<1>10. /\ sealed \in 0 .. MaxMessages /\ faults \in 0 .. MaxFaults
       /\ sealed \in Nat /\ faults \in Nat
  BY PrivateMessagesAssumption DEF ReachInv
<1>11. ASSUME NEW key \in res.value, NEW c, c = Message(m, content_type, key),
              sealed < MaxMessages, sealed' = sealed + 1, net' = net \cup {c},
              group' = [group EXCEPT ![m] = Recorded(h, c)],
              UNCHANGED <<stored, accepted, writes, faults>>
       PROVE  ReachInv'
  <2>1. c.sender = m /\ c.content_type = content_type /\ c.key = key
    BY <1>11, MessageFields
  <2>2. Reach' = b + 1
    BY <1>4, <1>10, <1>11 DEF Reach
  <2>3. key.leaf = m /\ key.key.secret \in Nat
    BY <1>5, <1>11, Zenon DEF GoodCall, KeyData, MessageKeyData
  <2>4. SealedInv(c, Reach)'
    BY <1>7, <1>8, <1>11, <2>1, <2>2, <2>3 DEF SealedInv
  <2>5. GroupReach(Recorded(h, c), b + 1)
    BY <1>9, <2>1, RecordedCore, SameCoreInv, Zenon
  <2>6. \A d \in net' : d \in net \/ SealedInv(d, Reach)'
    BY <1>11, <2>4, Zenon
  <2>7. sealed' \in 0 .. MaxMessages /\ faults' \in 0 .. MaxFaults
    BY <1>10, <1>11, PrivateMessagesAssumption
  <2>8. Reach \in Nat /\ Reach' \in Nat /\ Reach <= Reach' /\ stored' = stored
    BY <1>4, <1>7, <1>11, <2>2, Zenon
  <2>9. QED BY <1>11, <2>2, <2>5, <2>6, <2>7, <2>8, ReachStep, Zenon
<1>12. CASE /\ Fails(m)
            /\ group' = [group EXCEPT ![m] = h]
            /\ UNCHANGED <<stored, net, accepted, sealed, writes>>
  <2>1. faults' = faults + 1 /\ faults' \in 0 .. MaxFaults
    BY <1>10, <1>12, PrivateMessagesAssumption DEF Fails
  <2>2. Reach' = b + 1
    BY <1>4, <1>10, <1>12, <2>1 DEF Reach
  <2>3. /\ sealed' \in 0 .. MaxMessages
        /\ \A c \in net' : c \in net \/ SealedInv(c, Reach)'
    BY <1>10, <1>12, Zenon
  <2>4. Reach \in Nat /\ Reach' \in Nat /\ Reach <= Reach' /\ stored' = stored
    BY <1>4, <1>7, <1>12, <2>2, Zenon
  <2>5. GroupReach(h, Reach')
    BY <1>9, <2>2, Zenon
  <2>6. QED BY <1>12, <2>1, <2>3, <2>4, <2>5, ReachStep, Zenon
<1>13. QED BY <1>1, <1>2, <1>3, <1>11, <1>12, Zenon DEF SealedBy

\* A message received takes no ratchet further than its sender's.
LEMMA OpenReach ==
    ASSUME NoWrap, StateInv, ReachInv, NEW m \in Members, NEW c \in net,
           Admitted(group[m], m, c), NEW res \in OpenResults(group[m], c),
           NEW h, h = Called(group[m], c.epoch, c.sender, res)
    PROVE  GroupInv(h) /\ GroupReach(h, Reach)
<1> DEFINE g == group[m]
<1>1. PICK b : b = Reach
  BY Zenon
<1>2. /\ c.epoch \in Epochs(g) /\ c.sender \in Leaves /\ c.key.key.generation \in Generations
      /\ TreeInv(tree_of(g, c.epoch), UsedIn(g, c.epoch))
      /\ GoodCall(tree_of(g, c.epoch), UsedIn(g, c.epoch), c.sender, res)
  BY GetIsGoodCall, Zenon
<1>3. GroupInv(g) /\ GroupReach(g, b)
  BY <1>1, Zenon DEF StateInv, ReachInv
<1>4. b \in Nat /\ b < GenerationModulus
  BY <1>1, ReachBound, Zenon
<1>5. c.key.key.generation + 1 <= b
  <2>1. c.key.key.generation = c.key.key.secret /\ c.key.key.secret < b
    BY <1>1, Zenon DEF ReachInv, SealedInv, Numbered
  <2>2. c.key.key.generation \in Nat
    BY <1>2, RatchetAssumption DEF Generations
  <2>3. QED BY <1>4, <2>1, <2>2
<1>6. UpTo(tree_of(g, c.epoch), b)
  BY <1>2, <1>3, Zenon DEF GroupReach
<1>7. UpTo(res.known, b) /\ \A k \in res.value : Numbered(k.key)
  BY <1>2, <1>4, <1>5, <1>6, KeyTypeType, TreeGetUpTo, Zenon DEF OpenResults
<1>8. GroupInv(h) /\ Epochs(h) = Epochs(g)
  BY <1>2, <1>3, CalledInv
<1>9. GroupReach(h, b)
  BY <1>2, <1>3, <1>7, <1>8, CalledReach
<1>10. QED BY <1>1, <1>8, <1>9, Zenon

LEMMA SumGrows ==
    ASSUME NEW s \in Nat, NEW f \in Nat, NEW k \in Nat, f <= k
    PROVE  s + f \in Nat /\ s + k \in Nat /\ s + f <= s + k
OBVIOUS

\* A step that seals nothing
LEMMA QuietReach ==
    ASSUME NoWrap, StateInv, ReachInv, NEW m \in Members, NEW h,
           group' = [group EXCEPT ![m] = h],
           stored' = stored \/ stored' = [stored EXCEPT ![m] = h],
           GroupInv(h), GroupReach(h, Reach),
           UNCHANGED net, UNCHANGED sealed, UNCHANGED faults \/ Fails(m)
    PROVE  ReachInv'
<1>1. /\ sealed \in 0 .. MaxMessages /\ faults \in 0 .. MaxFaults
      /\ sealed \in Nat /\ faults \in Nat
  BY PrivateMessagesAssumption DEF ReachInv
<1>2. faults' \in 0 .. MaxFaults /\ faults <= faults' /\ faults' \in Nat
  BY <1>1, PrivateMessagesAssumption DEF Fails
<1>3. Reach \in Nat /\ Reach' \in Nat /\ Reach <= Reach'
  <2>1. Reach = sealed + faults /\ Reach' = sealed + faults'
    BY Zenon DEF Reach
  <2>2. QED BY <1>1, <1>2, <2>1, SumGrows, Zenon
<1>4. GroupReach(h, Reach')
  BY <1>3, ReachMonotone, Zenon
<1>5. /\ sealed' \in 0 .. MaxMessages
      /\ \A c \in net' : c \in net \/ SealedInv(c, Reach)'
  BY <1>1, Zenon
<1>6. QED BY <1>2, <1>3, <1>4, <1>5, ReachStep, Zenon

LEMMA ReachNext ==
    ASSUME NoWrap, StateInv, ReachInv, Next
    PROVE  ReachInv'
<1>1. PICK m \in Members :
         \/ EncryptApplication(m) \/ Propose(m) \/ Commit(m) \/ ApplyPendingCommit(m)
         \/ WriteToStorage(m) \/ Restart(m)
         \/ \E c \in net : Receive(m, c) \/ Refuse(m, c)
  BY Zenon DEF Next
<1> DEFINE g == group[m]
<1>2. /\ GroupInv(g) /\ GroupInv(stored[m]) /\ Reach \in Nat
      /\ GroupReach(g, Reach) /\ GroupReach(stored[m], Reach)
  BY ReachBound, Zenon DEF StateInv, ReachInv
<1>3. CASE EncryptApplication(m)
  BY <1>3, SealReach, Zenon DEF EncryptApplication, ContentTypes
<1>4. CASE Propose(m)
  BY <1>4, SealReach, Zenon DEF Propose, ContentTypes
<1>5. CASE Commit(m)
  BY <1>5, SealReach, Zenon DEF Commit, ContentTypes
<1>6. CASE ApplyPendingCommit(m)
  <2>1. /\ group' = [group EXCEPT ![m] = Advanced(g)]
        /\ UNCHANGED stored /\ UNCHANGED net /\ UNCHANGED sealed /\ UNCHANGED faults
    BY <1>6, Zenon DEF ApplyPendingCommit, StateInv
  <2>2. GroupInv(Advanced(g)) /\ GroupReach(Advanced(g), Reach)
    BY <1>2, AdvancedInv, Zenon
  <2>3. QED BY <2>1, <2>2, QuietReach, Zenon
<1>7. CASE WriteToStorage(m)
  <2>1. /\ group' = [group EXCEPT ![m] = Persisted(g)]
        /\ stored' = [stored EXCEPT ![m] = Persisted(g)]
        /\ UNCHANGED net /\ UNCHANGED sealed /\ UNCHANGED faults
    BY <1>7, Zenon DEF WriteToStorage, StateInv
  <2>2. GroupInv(Persisted(g)) /\ GroupReach(Persisted(g), Reach)
    BY <1>2, PersistedInv
  <2>3. QED BY <2>1, <2>2, QuietReach, Zenon
<1>8. CASE Restart(m)
  <2>1. /\ group' = [group EXCEPT ![m] = stored[m]]
        /\ UNCHANGED stored /\ UNCHANGED net /\ UNCHANGED sealed /\ Fails(m)
    BY <1>8, Zenon DEF Restart
  <2>2. QED BY <1>2, <2>1, QuietReach, Zenon
<1>9. ASSUME NEW c \in net, Receive(m, c) PROVE ReachInv'
  <2>1. PICK res \in OpenResults(g, c) :
           group' = [group EXCEPT ![m] = Processed(Called(g, c.epoch, c.sender, res), c)]
    BY <1>9, Zenon DEF Receive, StateInv
  <2>2. PICK h : h = Called(g, c.epoch, c.sender, res)
    BY Zenon
  <2>3. /\ Admitted(g, m, c) /\ c.content_type \in ContentTypes
        /\ UNCHANGED stored /\ UNCHANGED net /\ UNCHANGED sealed /\ UNCHANGED faults
    BY <1>9, Zenon DEF Receive, StateInv, MessageInv
  <2>4. GroupInv(h) /\ GroupReach(h, Reach)
    BY <2>2, <2>3, OpenReach, Zenon
  <2>5. GroupInv(Processed(h, c)) /\ GroupReach(Processed(h, c), Reach)
    BY <1>2, <2>3, <2>4, ProcessedInv, Zenon
  <2>6. QED BY <2>1, <2>2, <2>3, <2>5, QuietReach, Zenon
<1>10. ASSUME NEW c \in net, Refuse(m, c) PROVE ReachInv'
  <2>1. PICK res \in OpenResults(g, c) :
           /\ group' = [group EXCEPT ![m] = Called(g, c.epoch, c.sender, res)]
           /\ UNCHANGED faults \/ Fails(m)
    BY <1>10, Zenon DEF Refuse
  <2>2. PICK h : h = Called(g, c.epoch, c.sender, res)
    OBVIOUS
  <2>3. Admitted(g, m, c) /\ UNCHANGED stored /\ UNCHANGED net /\ UNCHANGED sealed
    BY <1>10, Zenon DEF Refuse
  <2>4. GroupInv(h) /\ GroupReach(h, Reach)
    BY <2>2, <2>3, OpenReach, Zenon
  <2>5. QED BY <2>1, <2>2, <2>3, <2>4, QuietReach, Zenon
<1>11. QED BY <1>1, <1>3, <1>4, <1>5, <1>6, <1>7, <1>8, <1>9, <1>10, Zenon

LEMMA ReachInit == Init => ReachInv
<1> SUFFICES ASSUME Init PROVE ReachInv
  OBVIOUS
<1>1. /\ group = [m \in Members |-> NewGroup] /\ stored = group /\ net = {}
      /\ sealed = 0 /\ faults = 0
  BY Zenon DEF Init
<1>2. Reach = 0
  BY <1>1 DEF Reach
<1>3. QED BY <1>1, <1>2, NewGroupInv, PrivateMessagesAssumption DEF ReachInv

LEMMA ReachUnchanged == ReachInv /\ UNCHANGED vars => ReachInv'
BY Zenon DEF ReachInv, Reach, SealedInv, vars

LEMMA ReachInductive ==
    ASSUME NoWrap
    PROVE  Spec => [](StateInv /\ ReachInv)
<1>1. StateInv /\ ReachInv /\ [Next]_vars => ReachInv'
  BY ReachNext, ReachUnchanged, Zenon
<1>2. QED BY StateInductive, ReachInit, <1>1, PTL DEF Spec

\* SecretTree: as long as no u32 generation wraps, every key not taken yet, of
\* any leaf and in every epoch held, can still be derived, unless a derivation
\* failed on the way to a ratchet.
THEOREM NothingLostTheorem ==
    ASSUME NoWrap
    PROVE  Spec => []OthersDerivable
<1>1. ASSUME StateInv, ReachInv PROVE OthersDerivable
  <2> SUFFICES ASSUME NEW m \in Members, NEW e \in Epochs(group[m]), e \notin group[m].lost,
                      NEW known, known = tree_of(group[m], e), NEW leaf \in Leaves
               PROVE  \E i \in Covering(known, leaf) :
                         ~IsSecret(known[i]) =>
                             \A t \in KeyTypes, n \in 0 .. MaxMessages - 1 :
                                 LET key == [secret |-> n, generation |-> n]
                                 IN  \/ InRatchet(known[i].ratchets[t], key)
                                     \/ <<e, [leaf |-> leaf, key_type |-> t, key |-> key]>>
                                           \in group[m].taken
    BY Zenon DEF OthersDerivable
  <2> DEFINE K == UsedIn(group[m], e)
  <2>1. TreeInv(known, K) /\ Covered(known)
    BY <1>1, Zenon DEF StateInv, GroupInv, EpochInv
  <2>2. PICK b : b = Reach
    BY Zenon
  <2>3. UpTo(known, b) /\ b \in Nat /\ b < GenerationModulus
    BY <1>1, <2>2, ReachBound, Zenon DEF ReachInv, GroupReach
  <2>4. PICK i \in Covering(known, leaf) :
           ~IsSecret(known[i]) =>
               \A t \in KeyTypes, n \in Nat :
                   \/ InRatchet(known[i].ratchets[t], [secret |-> n, generation |-> n])
                   \/ [leaf |-> leaf, key_type |-> t,
                       key |-> [secret |-> n, generation |-> n]] \in K
    <3> HIDE DEF K
    <3>1. QED BY <2>1, <2>3, StillDerivable, Zenon
  <2>5. \A n \in 0 .. MaxMessages - 1 : n \in Nat
    OBVIOUS
  <2>6. \A k \in K : <<e, k>> \in group[m].taken
    BY Zenon DEF UsedIn
  <2> HIDE DEF K
  <2>7. QED BY <2>4, <2>5, <2>6, Zenon
<1>2. QED BY <1>1, ReachInductive, PTL

\* process_incoming_message: as long as no u32 generation wraps, a message can be
\* opened whenever it arrives, with the exceptions the code makes.
THEOREM DeliveryTheorem ==
    ASSUME NoWrap
    PROVE  Spec => []StillOpens
<1>1. ASSUME StateInv, ReachInv PROVE StillOpens
  <2> SUFFICES ASSUME NEW m \in Members, NEW c \in net, NEW g, g = group[m],
                      c.epoch <= g.epoch,
                      c.epoch >= g.epoch - IF c.content_type = "Application"
                                            THEN max_epoch_retention ELSE 0,
                      <<c.epoch, c.key>> \notin g.taken, InWindow(g, c), c.epoch \notin g.lost
               PROVE  /\ c.epoch \in Epochs(g)
                      /\ \E res \in OpenResults(g, c) : res.value = {c.key}
    BY Zenon DEF StillOpens
  <2>1. GroupInv(g) /\ MessageInv(c)
    BY <1>1, Zenon DEF StateInv
  <2>2. PICK e : e = c.epoch
    BY Zenon
  <2>3. e \in Epochs(g)
    BY <2>1, <2>2, PrivateMessagesAssumption DEF GroupInv, MessageInv, Epochs
  <2>4. PICK b : b = Reach
    BY Zenon
  <2>5. /\ b \in Nat /\ b + MAX_RATCHET_BACK_HISTORY < GenerationModulus
        /\ b < GenerationModulus /\ GroupReach(g, b) /\ SealedInv(c, b)
    BY <1>1, <2>4, ReachBound, Zenon DEF ReachInv
  <2>6. PICK known, K, t, n : /\ known = tree_of(g, e) /\ K = UsedIn(g, e)
                              /\ t = key_type(c.content_type) /\ n = c.key.key.generation
    BY Zenon
  <2>7. TreeInv(known, K) /\ Covered(known) /\ UpTo(known, b)
    BY <2>1, <2>2, <2>3, <2>5, <2>6, Zenon DEF GroupInv, EpochInv, GroupReach
  <2>8. c.sender \in Leaves /\ t \in KeyTypes
    BY <2>1, <2>6, KeyTypeType, PrivateMessagesAssumption, Zenon DEF MessageInv
  <2>9. /\ c.key = [leaf |-> c.sender, key_type |-> t,
                    key |-> [secret |-> n, generation |-> n]]
        /\ n \in Nat /\ n < b
    BY <2>1, <2>5, <2>6, RatchetAssumption, Zenon
       DEF MessageInv, SealedInv, Numbered, KeyData, MessageKeyData, Generations
  <2>10. n + 1 < GenerationModulus
    <3>1. b <= b + MAX_RATCHET_BACK_HISTORY /\ n + 1 <= b
      BY <2>5, <2>9, RatchetAssumption
    <3>2. QED BY <2>5, <2>9, <3>1, RatchetAssumption
  <2>11. c.key \notin K
    BY <2>2, <2>6, Zenon DEF UsedIn
  <2>12. AllNumbered(K)
    BY <2>5, <2>6, Zenon DEF UsedIn, GroupReach, AllNumbered
  <2>13. InReach(K, c.sender, t, n)
    <3>1. CASE n <= MAX_RATCHET_BACK_HISTORY
      BY <3>1, Zenon DEF InReach
    <3>2. CASE n > MAX_RATCHET_BACK_HISTORY
      <4>1. PICK k \in g.taken : /\ k[1] = e /\ k[2].leaf = c.sender
                                 /\ k[2].key_type = c.key.key_type
                                 /\ n <= k[2].key.generation + 1 + MAX_RATCHET_BACK_HISTORY
        BY <2>2, <2>6, <2>9, <3>2, RatchetAssumption DEF InWindow, TakenGenerations
      <4>2. k[2] \in K
        BY <2>1, <2>6, <4>1 DEF GroupInv, UsedIn
      <4>3. c.key.key_type = t
        BY <2>9
      <4>4. QED BY <4>1, <4>2, <4>3, Zenon DEF InReach
    <3>3. QED BY <2>9, <3>1, <3>2, RatchetAssumption
  <2>14. Opens(known, c.sender, t, n, c.key)
    <3>1. PICK leaf, key : leaf = c.sender /\ key = c.key
      BY Zenon
    <3>2. Opens(known, leaf, t, n, key)
      BY <2>5, <2>7, <2>8, <2>9, <2>10, <2>11, <2>12, <2>13, <3>1, TreeOpens, Zenon
    <3>3. QED BY <3>1, <3>2, Zenon
  <2>15. OpenResults(g, c) = TreeGetResults(known, c.sender, t, n)
    BY <2>2, <2>6, Zenon DEF OpenResults
  <2>16. QED BY <2>2, <2>3, <2>14, <2>15, Zenon DEF Opens
<1>2. QED BY <1>1, ReachInductive, PTL

=============================================================================
