------------------------- MODULE SecretTree_proofs ---------------------------
(***************************************************************************)
(* Ratchets and secret trees, for every size of the window, width of the   *)
(* generation, build profile and tree of up to 256 leaves.                 *)
(*                                                                         *)
(* RatchetInv is the inductive invariant of a ratchet alone.  ChainInv is  *)
(* what it says of a ratchet and the keys it has returned; TreeInv says it *)
(* of the ratchets in a tree, and that every leaf lies below at most one   *)
(* node whose secret is known.  take_leaf_ratchet walks down from the      *)
(* root, and what it does along a path of any length is shown by taking    *)
(* the first node at which it would go wrong (LeastElement).               *)
(*                                                                         *)
(* Steps without arithmetic name Zenon; the others are left to SMT.        *)
(***************************************************************************)
EXTENDS RatchetCalls, SecretTree, TLAPS

\* next_message_key takes a ratchet to a ratchet, and its key is well formed.
LEMMA RatchetedType ==
    ASSUME NEW r, IsRatchet(r)
    PROVE  /\ IsRatchet(Ratcheted(r))
           /\ Ratcheted(r).secret = r.secret + 1
           /\ Ratcheted(r).generation = Wrapped(r.generation + 1)
           /\ Ratcheted(r).history = r.history
           /\ CurrentKey(r) \in MessageKeyData
BY RatchetAssumption DEF IsRatchet, Ratcheted, Wrapped, CurrentKey, MessageKeyData, Generations

\* k turns of the loop of get_message_key, none of which passes the last u32.
LEMMA SkippedType ==
    ASSUME NEW r, IsRatchet(r), NEW k \in Nat, r.generation + k < GenerationModulus
    PROVE  /\ IsRatchet(Skipped(r, k))
           /\ Skipped(r, k).secret = r.secret + k
           /\ Skipped(r, k).generation = r.generation + k
           /\ DOMAIN Skipped(r, k).history
                = (DOMAIN r.history) \cup (r.generation .. r.generation + k - 1)
           /\ \A g \in r.generation .. r.generation + k - 1 :
                Skipped(r, k).history[g]
                  = [secret |-> r.secret + (g - r.generation), generation |-> g]
           /\ \A g \in (DOMAIN r.history) \ (r.generation .. r.generation + k - 1) :
                Skipped(r, k).history[g] = r.history[g]
<1> DEFINE new == r.generation .. r.generation + k - 1
           h == Skipped(r, k).history
<1>1. /\ r.secret \in Nat /\ r.generation \in Nat /\ r.generation < GenerationModulus
      /\ \A g \in DOMAIN r.history : r.history[g] \in MessageKeyData
      /\ DOMAIN r.history \subseteq Generations
  BY RatchetAssumption DEF IsRatchet, Generations
<1>2. new \subseteq Generations
  BY <1>1, RatchetAssumption DEF Generations
<1>3. h = [g \in (DOMAIN r.history) \cup new |->
             IF g \in new THEN [secret |-> r.secret + (g - r.generation), generation |-> g]
                          ELSE r.history[g]]
  BY Zenon DEF Skipped
<1>4. DOMAIN h = (DOMAIN r.history) \cup new
  BY <1>3, Zenon
<1>5. \A g \in new : h[g] = [secret |-> r.secret + (g - r.generation), generation |-> g]
  BY <1>3, Zenon
<1>6. \A g \in (DOMAIN r.history) \ new : h[g] = r.history[g]
  BY <1>3, Zenon
<1>7. \A g \in DOMAIN h : h[g] \in MessageKeyData
  <2> SUFFICES ASSUME NEW g \in DOMAIN h PROVE h[g] \in MessageKeyData
    BY Zenon
  <2>1. CASE g \in new
    <3>1. g \in Int /\ g >= r.generation
      BY <2>1, <1>1
    <3>2. r.secret + (g - r.generation) \in Nat
      BY <3>1, <1>1
    <3>3. h[g] = [secret |-> r.secret + (g - r.generation), generation |-> g]
      BY <2>1, <1>5, Zenon
    <3>4. g \in Generations
      BY <2>1, <1>2, Zenon
    <3> HIDE DEF h
    <3>5. QED BY <3>2, <3>3, <3>4 DEF MessageKeyData
  <2>2. CASE g \notin new
    BY <2>2, <1>4, <1>6, <1>1, Zenon
  <2>3. QED BY <2>1, <2>2, Zenon
<1>8. h \in [DOMAIN h -> MessageKeyData]
  BY <1>3, <1>4, <1>7, Zenon
<1>9. /\ Skipped(r, k).secret = r.secret + k
      /\ Skipped(r, k).generation = r.generation + k
      /\ Skipped(r, k) = [secret |-> r.secret + k, generation |-> r.generation + k, history |-> h]
  BY Zenon DEF Skipped
<1>10. r.secret + k \in Nat /\ r.generation + k \in Generations
  BY <1>1, RatchetAssumption DEF Generations
<1>11. IsRatchet(Skipped(r, k))
  <2>1. Skipped(r, k) \in [secret : Nat, generation : Generations, history : {h}]
    BY <1>9, <1>10, Zenon
  <2>2. DOMAIN h \subseteq Generations
    BY <1>4, <1>1, <1>2, Zenon
  <2>3. QED BY <2>1, <2>2, <1>8, Zenon DEF IsRatchet
<1>12. QED BY <1>4, <1>5, <1>6, <1>9, <1>11, Zenon

\* A generation that get_message_key accepts lies ahead of the ratchet, inside
\* the u32 and at most the window away, whether or not the window wraps.
LEMMA ReachableIsAhead ==
    ASSUME NEW r, IsRatchet(r), NEW g \in Generations,
           ~(g < r.generation), ~WindowPanics(r), ~(g > MaxGenerationAllowed(r))
    PROVE  /\ g - r.generation \in Nat
           /\ r.generation + (g - r.generation) = g
           /\ g < GenerationModulus
           /\ g - r.generation <= MAX_RATCHET_BACK_HISTORY
BY RatchetAssumption DEF IsRatchet, MaxGenerationAllowed, WindowPanics, Wrapped, Generations

\* history.remove_entry leaves a ratchet whose history lacks exactly that key.
LEMMA WithoutKeyType ==
    ASSUME NEW r, IsRatchet(r), NEW g
    PROVE  /\ IsRatchet(WithoutKey(r, g))
           /\ WithoutKey(r, g).secret = r.secret
           /\ WithoutKey(r, g).generation = r.generation
           /\ DOMAIN WithoutKey(r, g).history = (DOMAIN r.history) \ {g}
           /\ \A h \in (DOMAIN r.history) \ {g} : WithoutKey(r, g).history[h] = r.history[h]
BY Zenon DEF IsRatchet, WithoutKey

\* The parts of RatchetInv about a ratchet r and the keys R released so far.
ChainInv(r, R) ==
    /\ IsRatchet(r)
    /\ R \subseteq MessageKeyData
    /\ \A g \in DOMAIN r.history :
          /\ r.history[g].generation = g
          /\ r.history[g] \notin R
          /\ r.history[g].secret < r.secret
    /\ r.secret < GenerationModulus =>
          \A g \in 0 .. r.secret - 1 :
             g \in DOMAIN r.history \/ [secret |-> g, generation |-> g] \in R
    /\ \A key \in R : key.secret < r.secret
    /\ r.secret < GenerationModulus =>
          /\ r.generation = r.secret
          /\ \A g \in DOMAIN r.history : r.history[g].secret = g

\* k turns of the loop preserve the invariant: the keys they file are new.
LEMMA SkippedInv ==
    ASSUME NEW r, NEW R, ChainInv(r, R), NEW k \in Nat, r.generation + k < GenerationModulus
    PROVE  ChainInv(Skipped(r, k), R)
<1> DEFINE s == Skipped(r, k)
           new == r.generation .. r.generation + k - 1
<1>1. /\ IsRatchet(s)
      /\ s.secret = r.secret + k
      /\ s.generation = r.generation + k
      /\ DOMAIN s.history = (DOMAIN r.history) \cup new
      /\ \A g \in new :
           s.history[g] = [secret |-> r.secret + (g - r.generation), generation |-> g]
      /\ \A g \in (DOMAIN r.history) \ new : s.history[g] = r.history[g]
  BY SkippedType, Zenon DEF ChainInv
<1> HIDE DEF s
<1>2. r.secret \in Nat /\ r.generation \in Nat
  BY RatchetAssumption DEF ChainInv, IsRatchet, Generations
<1>3. \A g \in DOMAIN s.history :
          s.history[g].generation = g /\ s.history[g] \notin R /\ s.history[g].secret < s.secret
  <2> SUFFICES ASSUME NEW g \in DOMAIN s.history
               PROVE  /\ s.history[g].generation = g
                      /\ s.history[g] \notin R
                      /\ s.history[g].secret < s.secret
    BY Zenon
  <2>1. CASE g \in new
    <3>0. s.history[g] = [secret |-> r.secret + (g - r.generation), generation |-> g]
      BY <2>1, <1>1, Zenon
    <3>1. /\ s.history[g].secret = r.secret + (g - r.generation)
          /\ s.history[g].generation = g
      BY <3>0
    <3>2. s.history[g].secret >= r.secret /\ s.history[g].secret < r.secret + k
      BY <3>1, <2>1, <1>2
    <3>3. s.history[g] \notin R
      BY <3>2, <1>2 DEF ChainInv, MessageKeyData
    <3>4. QED BY <3>1, <3>2, <3>3, <1>1, Zenon
  <2>2. CASE g \notin new
    <3>1. g \in DOMAIN r.history /\ s.history[g] = r.history[g]
      BY <2>2, <1>1, Zenon
    <3>2. r.history[g].secret \in Nat
      BY <3>1, Zenon DEF ChainInv, IsRatchet, MessageKeyData
    <3>3. QED BY <3>1, <3>2, <1>1, <1>2 DEF ChainInv
  <2>3. QED BY <2>1, <2>2, Zenon
<1>4. ASSUME s.secret < GenerationModulus, NEW g \in 0 .. s.secret - 1
      PROVE  g \in DOMAIN s.history \/ [secret |-> g, generation |-> g] \in R
  <2>1. r.secret < GenerationModulus /\ r.generation = r.secret
    BY <1>4, <1>1, <1>2, RatchetAssumption DEF ChainInv
  <2>2. CASE g < r.secret
    BY <2>1, <2>2, <1>1, <1>2 DEF ChainInv
  <2>3. CASE g >= r.secret
    <3>1. g \in new
      BY <2>1, <2>3, <1>4, <1>1, <1>2
    <3>2. QED BY <3>1, <1>1, Zenon
  <2>4. QED BY <2>2, <2>3, <1>2
<1>5. \A key \in R : key.secret < s.secret
  BY <1>1, <1>2 DEF ChainInv, MessageKeyData
<1>6. ASSUME s.secret < GenerationModulus
      PROVE  s.generation = s.secret /\ \A g \in DOMAIN s.history : s.history[g].secret = g
  <2>1. r.secret < GenerationModulus /\ r.generation = r.secret
    BY <1>6, <1>1, <1>2, RatchetAssumption DEF ChainInv
  <2>2. ASSUME NEW g \in DOMAIN s.history PROVE s.history[g].secret = g
    <3>1. CASE g \in new
      <4>1. s.history[g] = [secret |-> r.secret + (g - r.generation), generation |-> g]
        BY <3>1, <1>1, Zenon
      <4>2. s.history[g].secret = r.secret + (g - r.generation)
        BY <4>1
      <4>3. QED BY <4>2, <3>1, <2>1, <1>2
    <3>2. CASE g \notin new
      BY <3>2, <2>1, <1>1, Zenon DEF ChainInv
    <3>3. QED BY <3>1, <3>2, Zenon
  <2>3. QED BY <2>1, <2>2, <1>1, Zenon
<1>7. R \subseteq MessageKeyData
  BY Zenon DEF ChainInv
<1>8. ChainInv(s, R)
  BY <1>1, <1>3, <1>4, <1>5, <1>6, <1>7, Zenon DEF ChainInv
<1>9. QED BY <1>8, Zenon DEF s

\* next_message_key preserves the invariant, and the key it returns is new.
LEMMA RatchetedInv ==
    ASSUME NEW r, NEW R, ChainInv(r, R)
    PROVE  /\ ChainInv(Ratcheted(r), R \cup {CurrentKey(r)})
           /\ CurrentKey(r) \notin R
<1> DEFINE s == Ratcheted(r)
           key == CurrentKey(r)
<1>1. /\ IsRatchet(s) /\ s.secret = r.secret + 1 /\ s.generation = Wrapped(r.generation + 1)
      /\ s.history = r.history /\ key \in MessageKeyData
  BY RatchetedType, Zenon DEF ChainInv
<1>2. /\ r.secret \in Nat /\ r.generation \in Nat /\ r.generation < GenerationModulus
      /\ key.secret = r.secret /\ key.generation = r.generation
  BY RatchetAssumption DEF ChainInv, IsRatchet, Generations, CurrentKey
<1>3. key \notin R
  BY <1>2 DEF ChainInv
<1>4. \A g \in DOMAIN s.history :
          /\ s.history[g].generation = g
          /\ s.history[g] \notin R \cup {key}
          /\ s.history[g].secret < s.secret
  <2> SUFFICES ASSUME NEW g \in DOMAIN r.history
               PROVE  /\ r.history[g].generation = g
                      /\ r.history[g] \notin R \cup {key}
                      /\ r.history[g].secret < r.secret + 1
    BY <1>1, Zenon
  <2>1. r.history[g].secret \in Nat
    BY Zenon DEF ChainInv, IsRatchet, MessageKeyData
  <2>2. QED BY <2>1, <1>2 DEF ChainInv
<1>5. ASSUME s.secret < GenerationModulus, NEW g \in 0 .. s.secret - 1
      PROVE  g \in DOMAIN s.history \/ [secret |-> g, generation |-> g] \in R \cup {key}
  <2>1. r.secret < GenerationModulus /\ r.generation = r.secret
    BY <1>5, <1>1, <1>2, RatchetAssumption DEF ChainInv
  <2>2. CASE g < r.secret
    BY <2>1, <2>2, <1>1, <1>2 DEF ChainInv
  <2>3. CASE g = r.secret
    BY <2>1, <2>3, Zenon DEF CurrentKey
  <2>4. QED BY <2>2, <2>3, <1>1, <1>2
<1>6. \A k \in R \cup {key} : k.secret < s.secret
  BY <1>1, <1>2 DEF ChainInv, MessageKeyData
<1>7. s.secret < GenerationModulus =>
          s.generation = s.secret /\ \A g \in DOMAIN s.history : s.history[g].secret = g
  BY <1>1, <1>2, RatchetAssumption DEF ChainInv, Wrapped
<1>8. R \cup {key} \subseteq MessageKeyData
  BY <1>1, Zenon DEF ChainInv
<1>9. QED BY <1>1, <1>3, <1>4, <1>5, <1>6, <1>7, <1>8, Zenon DEF ChainInv

\* Taking a key out of the history preserves the invariant, and the key is new
\* to the caller.
LEMMA WithoutKeyInv ==
    ASSUME NEW r, NEW R, ChainInv(r, R), NEW g \in DOMAIN r.history
    PROVE  /\ ChainInv(WithoutKey(r, g), R \cup {r.history[g]})
           /\ r.history[g] \notin R
<1> DEFINE s == WithoutKey(r, g)
<1>1. /\ IsRatchet(s) /\ s.secret = r.secret /\ s.generation = r.generation
      /\ DOMAIN s.history = (DOMAIN r.history) \ {g}
      /\ \A h \in (DOMAIN r.history) \ {g} : s.history[h] = r.history[h]
  BY WithoutKeyType, Zenon DEF ChainInv
<1>2. r.history[g] \in MessageKeyData /\ r.history[g].generation = g
  BY Zenon DEF ChainInv, IsRatchet
<1>3. \A h \in DOMAIN s.history : s.history[h] \notin R \cup {r.history[g]}
  BY <1>1, <1>2, Zenon DEF ChainInv
<1>4. ASSUME s.secret < GenerationModulus, NEW h \in 0 .. s.secret - 1
      PROVE  h \in DOMAIN s.history
             \/ [secret |-> h, generation |-> h] \in R \cup {r.history[g]}
  <2>1. CASE h # g
    BY <1>1, <1>4, <2>1, Zenon DEF ChainInv
  <2>2. CASE h = g
    <3>1. r.history[g].secret = g
      BY <1>1, <1>4, Zenon DEF ChainInv
    <3>2. r.history[g] = [secret |-> g, generation |-> g]
      BY <3>1, <1>2, Zenon DEF MessageKeyData
    <3>3. QED BY <3>2, <2>2, Zenon
  <2>3. QED BY <2>1, <2>2, Zenon
<1>5. QED BY <1>1, <1>2, <1>3, <1>4, Zenon DEF ChainInv

\* What every result of a call on ratchet r must satisfy, R being the keys
\* returned before.
GoodResult(r, R, res) ==
    /\ ChainInv(res.ratchet, R \cup res.key)
    /\ res.key \subseteq MessageKeyData
    /\ res.key \cap R = {}
    /\ res.ratchet.secret >= r.secret
    /\ res.ratchet.secret <= r.secret + MAX_RATCHET_BACK_HISTORY + 1

\* An error leaves no key behind: the invariant of the ratchet is enough.
LEMMA ErrIsGood ==
    ASSUME NEW r, NEW R, NEW s, ChainInv(s, R),
           s.secret >= r.secret, s.secret <= r.secret + MAX_RATCHET_BACK_HISTORY + 1
    PROVE  GoodResult(r, R, Err(s))
<1>1. Err(s).ratchet = s /\ Err(s).key = {}
  BY Zenon DEF Err
<1>2. R \cup {} = R
  BY Zenon
<1>3. QED BY <1>1, <1>2, Zenon DEF GoodResult

\* Every result of next_message_key is good, after n derivations from r.
LEMMA NextIsGood ==
    ASSUME NEW r, IsRatchet(r), NEW R, NEW s, ChainInv(s, R),
           s.secret >= r.secret, s.secret <= r.secret + MAX_RATCHET_BACK_HISTORY,
           NEW res \in next_message_key(s)
    PROVE  GoodResult(r, R, res)
<1>1. /\ r.secret \in Nat /\ s.secret \in Nat /\ MAX_RATCHET_BACK_HISTORY \in Nat
      /\ IsRatchet(s)
  BY RatchetAssumption, Zenon DEF ChainInv, IsRatchet
<1>2. CASE res = Ok(Ratcheted(s), CurrentKey(s))
  <2>1. res.ratchet = Ratcheted(s) /\ res.key = {CurrentKey(s)}
    BY <1>2, Zenon DEF Ok
  <2>2. ChainInv(res.ratchet, R \cup res.key) /\ CurrentKey(s) \notin R
    BY <2>1, RatchetedInv, Zenon
  <2>3. res.ratchet.secret = s.secret + 1 /\ CurrentKey(s) \in MessageKeyData
    BY <2>1, <1>1, RatchetedType, Zenon
  <2>4. QED BY <2>1, <2>2, <2>3, <1>1 DEF GoodResult
<1>3. CASE res = Err(s)
  BY <1>1, <1>3, ErrIsGood
<1>4. QED BY <1>2, <1>3, Zenon DEF next_message_key

\* Every result of get_message_key is good.
LEMMA GetIsGood ==
    ASSUME NEW r, NEW R, ChainInv(r, R), NEW g \in Generations, NEW res \in get_message_key(r, g)
    PROVE  GoodResult(r, R, res)
<1>1. /\ IsRatchet(r) /\ r.secret \in Nat /\ r.generation \in Nat
      /\ MAX_RATCHET_BACK_HISTORY \in Nat /\ GenerationModulus \in Nat /\ g \in Nat
  BY RatchetAssumption DEF ChainInv, IsRatchet, Generations
<1>2. CASE g < r.generation
  <2>1. res = PastKey(r, g)
    BY <1>2, Zenon DEF get_message_key
  <2>2. CASE g \in DOMAIN r.history
    <3>1. res.ratchet = WithoutKey(r, g) /\ res.key = {r.history[g]}
      BY <2>1, <2>2, Zenon DEF PastKey, Ok
    <3>2. ChainInv(res.ratchet, R \cup res.key) /\ r.history[g] \notin R
      BY <3>1, <2>2, WithoutKeyInv
    <3>3. res.ratchet.secret = r.secret /\ r.history[g] \in MessageKeyData
      BY <3>1, <2>2, <1>1, WithoutKeyType DEF IsRatchet
    <3>4. QED BY <3>1, <3>2, <3>3, <1>1 DEF GoodResult
  <2>3. CASE g \notin DOMAIN r.history
    BY <2>1, <2>3, <1>1, ErrIsGood DEF PastKey
  <2>4. QED BY <2>2, <2>3, Zenon
<1>3. CASE ~(g < r.generation)
  <2>1. res \in FutureKey(r, g) /\ ~WindowPanics(r)
    BY <1>3, Zenon DEF get_message_key
  <2>2. CASE g > MaxGenerationAllowed(r)
    <3>1. res = Err(r)
      BY <2>1, <2>2, Zenon DEF FutureKey
    <3>2. QED BY <3>1, <1>1, ErrIsGood
  <2>3. CASE ~(g > MaxGenerationAllowed(r))
    <3> DEFINE n == g - r.generation
    <3>1. /\ n \in Nat /\ r.generation + n = g /\ g < GenerationModulus
          /\ n <= MAX_RATCHET_BACK_HISTORY
      BY <1>1, <1>3, <2>1, <2>3, ReachableIsAhead, Zenon
    <3>2. \/ res \in next_message_key(Skipped(r, n))
          \/ \E k \in 0 .. n - 1 : res = Err(Skipped(r, k))
      BY <2>1, <2>3, Zenon DEF FutureKey
    <3> HIDE DEF n
    <3>3. ASSUME NEW k \in Nat, k <= n
          PROVE  /\ ChainInv(Skipped(r, k), R)
                 /\ Skipped(r, k).secret = r.secret + k
      <4>1. r.generation + k < GenerationModulus
        BY <3>1, <3>3, <1>1
      <4>2. QED BY <4>1, <1>1, SkippedInv, SkippedType, Zenon
    <3>4. CASE res \in next_message_key(Skipped(r, n))
      BY <3>1, <3>3, <3>4, <1>1, NextIsGood
    <3>5. ASSUME NEW k \in 0 .. n - 1, res = Err(Skipped(r, k))
          PROVE  GoodResult(r, R, res)
      <4>1. k \in Nat /\ k <= n
        BY <3>1
      <4>2. QED BY <4>1, <3>1, <3>3, <3>5, <1>1, ErrIsGood
    <3>6. QED BY <3>2, <3>4, <3>5, Zenon
  <2>4. QED BY <2>2, <2>3, Zenon
<1>4. QED BY <1>2, <1>3, Zenon

\* A new ratchet has lost nothing and released nothing.
LEMMA NewRatchetInv == ChainInv(NewRatchet, {})
<1>1. NoHistory \in [{} -> MessageKeyData] /\ DOMAIN NoHistory = {}
  BY Zenon DEF NoHistory
<1>2. NewRatchet.secret = 0 /\ NewRatchet.generation = 0 /\ NewRatchet.history = NoHistory
  BY Zenon DEF NewRatchet
<1>3. IsRatchet(NewRatchet)
  BY <1>1, <1>2, RatchetAssumption DEF IsRatchet, NewRatchet, Generations
<1>4. QED BY <1>1, <1>2, <1>3 DEF ChainInv

\* Until the generation wraps it numbers the keys: next_message_key returns the
\* key of the ratchet's generation and moves on by one.
LEMMA NextReach ==
    ASSUME NEW r, NEW R, ChainInv(r, R), r.secret < GenerationModulus,
           NEW res \in next_message_key(r)
    PROVE  /\ res.ratchet.secret <= r.secret + 1
           /\ \A key \in res.key : key.secret = r.secret /\ key.generation = r.secret
<1>1. IsRatchet(r) /\ r.secret \in Nat /\ r.generation = r.secret
  BY Zenon DEF ChainInv, IsRatchet
<1>2. CASE res = Ok(Ratcheted(r), CurrentKey(r))
  <2>1. res.ratchet = Ratcheted(r) /\ res.key = {CurrentKey(r)}
    BY <1>2, Zenon DEF Ok
  <2>2. Ratcheted(r).secret = r.secret + 1
    BY <1>1, RatchetedType, Zenon
  <2>3. CurrentKey(r).secret = r.secret /\ CurrentKey(r).generation = r.secret
    BY <1>1, Zenon DEF CurrentKey
  <2>4. QED BY <2>1, <2>2, <2>3, <1>1
<1>3. CASE res = Err(r)
  BY <1>1, <1>3 DEF Err
<1>4. QED BY <1>2, <1>3, Zenon DEF next_message_key

\* get_message_key moves the ratchet no further than the generation asked for,
\* and the key it returns carries that generation.
LEMMA GetReach ==
    ASSUME NEW r, NEW R, ChainInv(r, R), r.secret < GenerationModulus,
           NEW g \in Generations, NEW res \in get_message_key(r, g)
    PROVE  /\ res.ratchet.secret <= r.secret \/ res.ratchet.secret <= g + 1
           /\ \A key \in res.key : key.secret = g /\ key.generation = g
<1>1. /\ IsRatchet(r) /\ r.secret \in Nat /\ r.generation = r.secret
      /\ GenerationModulus \in Nat /\ g \in Nat
  BY RatchetAssumption DEF ChainInv, IsRatchet, Generations
<1>2. CASE g < r.generation
  <2>1. res = PastKey(r, g)
    BY <1>2, Zenon DEF get_message_key
  <2>2. CASE g \in DOMAIN r.history
    <3>1. res.ratchet = WithoutKey(r, g) /\ res.key = {r.history[g]}
      BY <2>1, <2>2, Zenon DEF PastKey, Ok
    <3>2. r.history[g].secret = g /\ r.history[g].generation = g
      BY <2>2, Zenon DEF ChainInv
    <3>3. res.ratchet.secret = r.secret
      BY <3>1, <1>1, WithoutKeyType
    <3>4. QED BY <3>1, <3>2, <3>3, <1>1
  <2>3. CASE g \notin DOMAIN r.history
    BY <2>1, <2>3, <1>1 DEF PastKey, Err
  <2>4. QED BY <2>2, <2>3, Zenon
<1>3. CASE ~(g < r.generation)
  <2>1. res \in FutureKey(r, g) /\ ~WindowPanics(r)
    BY <1>3, Zenon DEF get_message_key
  <2>2. CASE g > MaxGenerationAllowed(r)
    BY <2>1, <2>2, <1>1 DEF FutureKey, Err
  <2>3. CASE ~(g > MaxGenerationAllowed(r))
    <3> DEFINE n == g - r.generation
    <3>1. n \in Nat /\ r.generation + n = g /\ g < GenerationModulus
      BY <1>1, <1>3, <2>1, <2>3, ReachableIsAhead, Zenon
    <3>2. \/ res \in next_message_key(Skipped(r, n))
          \/ \E k \in 0 .. n - 1 : res = Err(Skipped(r, k))
      BY <2>1, <2>3, Zenon DEF FutureKey
    <3> HIDE DEF n
    <3>3. ASSUME NEW k \in Nat, k <= n
          PROVE  /\ ChainInv(Skipped(r, k), R)
                 /\ Skipped(r, k).secret = r.secret + k
      <4>1. r.generation + k < GenerationModulus
        BY <3>1, <3>3, <1>1
      <4>2. QED BY <4>1, <1>1, SkippedInv, SkippedType, Zenon
    <3>4. CASE res \in next_message_key(Skipped(r, n))
      <4>1. ChainInv(Skipped(r, n), R) /\ Skipped(r, n).secret = g
        BY <3>1, <3>3, <1>1
      <4>2. /\ res.ratchet.secret <= Skipped(r, n).secret + 1
            /\ \A key \in res.key : /\ key.secret = Skipped(r, n).secret
                                    /\ key.generation = Skipped(r, n).secret
        BY <3>1, <3>4, <4>1, NextReach, Zenon
      <4>3. QED BY <4>1, <4>2, Zenon
    <3>5. ASSUME NEW k \in 0 .. n - 1, res = Err(Skipped(r, k))
          PROVE  res.ratchet.secret <= g + 1 /\ res.key = {}
      <4>1. k \in Nat /\ k <= n
        BY <3>1
      <4>2. Skipped(r, k).secret = r.secret + k
        BY <4>1, <3>3, Zenon
      <4>3. QED BY <4>1, <4>2, <3>1, <3>5, <1>1 DEF Err
    <3>6. QED BY <3>2, <3>4, <3>5, Zenon
  <2>4. QED BY <2>2, <2>3, Zenon
<1>4. QED BY <1>2, <1>3, Zenon

\* Away from the end of the u32, a key inside the window that was not returned
\* yet is one that get_message_key can return.
LEMMA GetOpens ==
    ASSUME NEW r, NEW R, ChainInv(r, R), NEW n \in Nat, n + 1 < GenerationModulus,
           r.secret + MAX_RATCHET_BACK_HISTORY < GenerationModulus,
           n <= r.secret + MAX_RATCHET_BACK_HISTORY,
           [secret |-> n, generation |-> n] \notin R
    PROVE  \E res \in get_message_key(r, n) : res.key = {[secret |-> n, generation |-> n]}
<1> DEFINE key == [secret |-> n, generation |-> n]
<1>1. /\ IsRatchet(r) /\ r.secret \in Nat /\ r.generation = r.secret
      /\ r.secret < GenerationModulus
      /\ GenerationModulus \in Nat /\ MAX_RATCHET_BACK_HISTORY \in Nat
  BY RatchetAssumption DEF ChainInv, IsRatchet
<1>2. CASE n < r.generation
  <2>1. n \in DOMAIN r.history
    BY <1>1, <1>2 DEF ChainInv
  <2>2. r.history[n].secret = n /\ r.history[n].generation = n /\ r.history[n] \in MessageKeyData
    BY <1>1, <2>1, Zenon DEF ChainInv, IsRatchet
  <2>3. r.history[n] = key
    BY <2>2, Zenon DEF MessageKeyData
  <2>4. PastKey(r, n) \in get_message_key(r, n) /\ PastKey(r, n).key = {key}
    BY <1>2, <2>1, <2>3, Zenon DEF get_message_key, PastKey, Ok
  <2>5. QED BY <2>4, Zenon
<1>3. CASE ~(n < r.generation)
  <2> DEFINE s == Skipped(r, n - r.generation)
             res == Ok(Ratcheted(s), CurrentKey(s))
  <2>1. ~WindowPanics(r) /\ ~(n > MaxGenerationAllowed(r))
    BY <1>1 DEF WindowPanics, MaxGenerationAllowed, Wrapped
  <2>2. s.secret = n /\ s.generation = n
    <3>1. n - r.generation \in Nat /\ r.generation + (n - r.generation) = n
      BY <1>1, <1>3
    <3>2. s.secret = r.secret + (n - r.generation) /\ s.generation = r.generation + (n - r.generation)
      BY <3>1, <1>1, SkippedType
    <3>3. QED BY <3>1, <3>2, <1>1, Zenon
  <2> HIDE DEF s
  <2>3. ~NextPanics(s)
    BY <2>2, <1>1 DEF NextPanics
  <2>4. res \in next_message_key(s) /\ res.key = {key}
    BY <2>2, <2>3, Zenon DEF next_message_key, Ok, CurrentKey
  <2>5. res \in get_message_key(r, n)
    BY <1>3, <2>1, <2>4, Zenon DEF get_message_key, FutureKey, s
  <2>6. QED BY <2>4, <2>5, Zenon
<1>4. QED BY <1>2, <1>3, Zenon

\* Every call preserves the invariant, returns no key returned before, and runs
\* no more derivations than the window allows.
LEMMA RatchetStep ==
    ASSUME RatchetInv, CallNext
    PROVE  /\ RatchetInv'
           /\ last' \cap released = {}
           /\ ratchet'.secret >= ratchet.secret
           /\ ratchet'.secret <= ratchet.secret + MAX_RATCHET_BACK_HISTORY + 1
<1>1. ChainInv(ratchet, released)
  BY Zenon DEF RatchetInv, ChainInv, TypeOK, HistoryIsUnreleased, NoKeyLost
<1>2. ASSUME NEW res, GoodResult(ratchet, released, res), Apply(res)
      PROVE  /\ ChainInv(ratchet', released')
             /\ last' \subseteq MessageKeyData
             /\ last' \cap released = {}
             /\ ratchet'.secret >= ratchet.secret
             /\ ratchet'.secret <= ratchet.secret + MAX_RATCHET_BACK_HISTORY + 1
  BY <1>2, Zenon DEF Apply, GoodResult
<1>3. \E res : GoodResult(ratchet, released, res) /\ Apply(res)
  <2>1. CASE NextMessageKey
    <3>1. PICK res \in next_message_key(ratchet) : Apply(res)
      BY <2>1, Zenon DEF NextMessageKey
    <3>2. /\ IsRatchet(ratchet) /\ ratchet.secret \in Nat
          /\ ratchet.secret >= ratchet.secret
          /\ ratchet.secret <= ratchet.secret + MAX_RATCHET_BACK_HISTORY
      BY <1>1, RatchetAssumption DEF ChainInv, IsRatchet
    <3>3. GoodResult(ratchet, released, res)
      BY <3>2, <1>1, NextIsGood, Zenon
    <3>4. QED BY <3>1, <3>3, Zenon
  <2>2. CASE \E g \in Generations : GetMessageKey(g)
    <3>1. PICK g \in Generations : \E res \in get_message_key(ratchet, g) : Apply(res)
      BY <2>2, Zenon DEF GetMessageKey
    <3>2. QED BY <3>1, <1>1, GetIsGood, Zenon
  <2>3. QED BY <2>1, <2>2, Zenon DEF CallNext
<1>4. /\ ChainInv(ratchet', released')
      /\ last' \subseteq MessageKeyData
      /\ last' \cap released = {}
      /\ ratchet'.secret >= ratchet.secret
      /\ ratchet'.secret <= ratchet.secret + MAX_RATCHET_BACK_HISTORY + 1
  BY <1>2, <1>3, Zenon
<1>5. QED
  BY <1>4, Zenon DEF RatchetInv, ChainInv, TypeOK, HistoryIsUnreleased, NoKeyLost

\* The inductive invariant holds in every reachable state of the ratchet.
THEOREM RatchetInvariant == CallSpec => []RatchetInv
<1>1. CallInit => RatchetInv
  <2>1. SUFFICES ASSUME CallInit PROVE RatchetInv
    BY Zenon
  <2>2. NoHistory \in [{} -> MessageKeyData] /\ DOMAIN NoHistory = {}
    BY DEF NoHistory
  <2>3. /\ ratchet = NewRatchet /\ ratchet.secret = 0 /\ ratchet.generation = 0
        /\ ratchet.history = NoHistory
    BY <2>1, Zenon DEF CallInit, NewRatchet
  <2>4. IsRatchet(ratchet)
    BY <2>2, <2>3, RatchetAssumption DEF IsRatchet, NewRatchet, Generations
  <2>5. QED
    BY <2>1, <2>2, <2>3, <2>4
       DEF CallInit, RatchetInv, TypeOK, HistoryIsUnreleased, NoKeyLost
<1>2. RatchetInv /\ [CallNext]_callVars => RatchetInv'
  <2>1. RatchetInv /\ UNCHANGED callVars => RatchetInv'
    BY Zenon DEF callVars, RatchetInv, TypeOK, HistoryIsUnreleased, NoKeyLost
  <2>2. QED BY <2>1, RatchetStep, Zenon
<1>3. QED BY <1>1, <1>2, PTL DEF CallSpec

\* For every window, width and build profile: types are kept, a skipped key
\* stays available until it is returned, and until the counter wraps no key
\* disappears unreturned.
THEOREM RatchetSafety == CallSpec => [](TypeOK /\ HistoryIsUnreleased /\ NoKeyLost)
<1>1. RatchetInv => TypeOK /\ HistoryIsUnreleased /\ NoKeyLost
  BY Zenon DEF RatchetInv
<1>2. QED BY <1>1, RatchetInvariant, PTL

\* For every window, width and build profile, no key is returned twice.
THEOREM KeyIsReleasedOnce == CallSpec => KeyReleasedOnce
<1>1. RatchetInv /\ [CallNext]_callVars => [last' \cap released = {}]_callVars
  BY RatchetStep, Zenon
<1>2. QED BY <1>1, RatchetInvariant, PTL DEF CallSpec, KeyReleasedOnce

\* For every window, width and build profile, one call does a bounded number
\* of derivations and the chain never runs backwards.
THEOREM WorkIsBounded == CallSpec => BoundedWork
<1>1. RatchetInv /\ [CallNext]_callVars =>
        [/\ ratchet'.secret >= ratchet.secret
         /\ ratchet'.secret <= ratchet.secret + MAX_RATCHET_BACK_HISTORY + 1]_callVars
  BY RatchetStep, Zenon
<1>2. QED BY <1>1, RatchetInvariant, PTL DEF CallSpec, BoundedWork

-----------------------------------------------------------------------------
(* The secret tree.  Paths and children are related as TreeShape says.     *)

\* The leaf and the nodes of its path after the first j from the root
Lower(leaf, j) == {leaf} \cup {Above(leaf, i) : i \in j + 1 .. Len(Path(leaf))}

\* The path of a leaf, from the root down
LEMMA PathFacts ==
    ASSUME NEW leaf \in Leaves
    PROVE  /\ Len(Path(leaf)) \in 0 .. 8
           /\ \A j \in 1 .. Len(Path(leaf)) :
                 /\ Above(leaf, j) \in Inner(LeafCount)
                 /\ UpToRoot[leaf] \cap Children(Above(leaf, j)) \subseteq Lower(leaf, j)
           /\ UpToRoot[leaf] = Lower(leaf, 0)
           /\ root(LeafCount) \in UpToRoot[leaf]
           /\ \A x \in Inner(LeafCount) :
                 IF x \in UpToRoot[leaf]
                   THEN \E y \in Children(x) : UpToRoot[leaf] \cap Children(x) = {y}
                   ELSE UpToRoot[leaf] \cap Children(x) = {}
<1> DEFINE path == direct_copath(leaf, LeafCount)
           n == Len(path)
           Low(i) == {leaf} \cup {path[h].path : h \in 1 .. i - 1}
           up == Low(n + 1)
<1>1. Path(leaf) = path
  BY Zenon DEF Path, Paths
<1>2. TreeShape(LeafCount)
  BY SecretTreeAssumption, TreeShapeAssumption, Zenon
<1>3. /\ path \in Seq([path : Inner(LeafCount), copath : Nat]) /\ n <= 8
      /\ root(LeafCount) \in up
      /\ \A i \in 1 .. n : up \cap Children(path[i].path) \subseteq Low(i)
      /\ \A x \in Inner(LeafCount) :
            IF x \in up THEN \E y \in Children(x) : up \cap Children(x) = {y}
            ELSE up \cap Children(x) = {}
  BY <1>2, Zenon DEF TreeShape, Leaves
<1> HIDE DEF path
<1>4. /\ n \in Nat /\ DOMAIN path = 1 .. n
      /\ \A i \in 1 .. n : path[i].path \in Inner(LeafCount)
  <2>1. PICK S : S = [path : Inner(LeafCount), copath : Nat]
    BY Zenon
  <2>2. path \in Seq(S)
    BY <1>3, <2>1, Zenon
  <2>3. n \in Nat /\ DOMAIN path = 1 .. n /\ \A i \in 1 .. n : path[i] \in S
    BY <2>2
  <2>4. QED BY <2>1, <2>3, Zenon
<1>5. \A j \in 1 .. n : Above(leaf, j) = path[n + 1 - j].path
  BY <1>1, Zenon DEF Above
<1> HIDE DEF n
<1>6. \A j \in 0 .. n : Lower(leaf, j) = Low(n + 1 - j)
  <2> SUFFICES ASSUME NEW j \in 0 .. n PROVE Lower(leaf, j) = Low(n + 1 - j)
    BY Zenon
  <2>1. ASSUME NEW i \in j + 1 .. n PROVE Above(leaf, i) \in Low(n + 1 - j)
    <3>1. n + 1 - i \in 1 .. (n + 1 - j) - 1 /\ i \in 1 .. n
      BY <1>4
    <3>2. QED BY <3>1, <1>5, Zenon
  <2>2. ASSUME NEW h \in 1 .. (n + 1 - j) - 1 PROVE path[h].path \in Lower(leaf, j)
    <3>1. n + 1 - h \in j + 1 .. n /\ n + 1 - h \in 1 .. n /\ n + 1 - (n + 1 - h) = h
      BY <1>4
    <3>2. Above(leaf, n + 1 - h) = path[h].path
      BY <3>1, <1>5, Zenon
    <3>3. QED BY <3>1, <3>2, <1>1, Zenon DEF Lower, n
  <2>3. QED BY <2>1, <2>2, <1>1 DEF Lower, n
<1>7. UpToRoot[leaf] = up
  <2>1. UpToRoot[leaf] = {leaf} \cup {path[i].path : i \in 1 .. n}
    BY <1>1, <1>4, Zenon DEF UpToRoot
  <2>2. 1 .. (n + 1) - 1 = 1 .. n
    BY <1>4
  <2>3. QED BY <2>1, <2>2, Zenon
<1>8. \A j \in 1 .. n :
          /\ Above(leaf, j) \in Inner(LeafCount)
          /\ UpToRoot[leaf] \cap Children(Above(leaf, j)) \subseteq Lower(leaf, j)
  <2> SUFFICES ASSUME NEW j \in 1 .. n
               PROVE  /\ Above(leaf, j) \in Inner(LeafCount)
                      /\ UpToRoot[leaf] \cap Children(Above(leaf, j)) \subseteq Lower(leaf, j)
    BY Zenon
  <2>1. n + 1 - j \in 1 .. n /\ j \in 0 .. n
    BY <1>4
  <2>2. up \cap Children(path[n + 1 - j].path) \subseteq Low(n + 1 - j)
    BY <2>1, <1>3, Zenon DEF n
  <2>3. QED BY <2>1, <2>2, <1>4, <1>5, <1>6, <1>7, Zenon
<1>9. UpToRoot[leaf] = Lower(leaf, 0)
  <2>1. 0 \in 0 .. n /\ n + 1 - 0 = n + 1
    BY <1>4
  <2>2. QED BY <2>1, <1>6, <1>7, Zenon
<1> HIDE DEF up
<1>10. n \in 0 .. 8
  <2>1. n \in Nat /\ n <= 8
    BY <1>3, <1>4, Zenon
  <2>2. QED BY <2>1
<1>11. /\ root(LeafCount) \in UpToRoot[leaf]
       /\ \A x \in Inner(LeafCount) :
             IF x \in UpToRoot[leaf]
               THEN \E y \in Children(x) : UpToRoot[leaf] \cap Children(x) = {y}
               ELSE UpToRoot[leaf] \cap Children(x) = {}
  BY <1>3, <1>7, Zenon
<1>12. Len(Path(leaf)) = n
  BY <1>1, Zenon DEF n
<1> HIDE DEF n
<1>13. QED BY <1>8, <1>9, <1>10, <1>11, <1>12, Zenon

\* Inner nodes are no leaves.
LEMMA InnerNotLeaf == Inner(LeafCount) \cap Leaves = {}
<1>1. LeafCount \in Nat
  <2>1. \A d \in 0 .. 8 : 2^d \in Nat
    <3>1. \A d \in 0 .. 8 : d \in {0, 1, 2, 3, 4, 5, 6, 7, 8}
      OBVIOUS
    <3>2. /\ 2^0 \in Nat /\ 2^1 \in Nat /\ 2^2 \in Nat /\ 2^3 \in Nat /\ 2^4 \in Nat
          /\ 2^5 \in Nat /\ 2^6 \in Nat /\ 2^7 \in Nat /\ 2^8 \in Nat
      OBVIOUS
    <3>3. QED BY <3>1, <3>2, Zenon
  <2>2. QED BY <2>1, SecretTreeAssumption, Zenon
<1>2. \A i \in 0 .. LeafCount - 1 : is_leaf(2 * i)
  BY <1>1 DEF is_leaf
<1>3. QED BY <1>2, Zenon DEF Inner, Leaves

\* The only leaf on a leaf's way to the root is itself.
LEMMA OwnLeaf ==
    ASSUME NEW leaf \in Leaves, NEW i \in Leaves, i \in UpToRoot[leaf]
    PROVE  i = leaf
BY PathFacts, InnerNotLeaf DEF Lower

-----------------------------------------------------------------------------
(* What a tree of known secrets must satisfy, when K are the keys taken    *)
(* from it.                                                                *)

KeyData == [leaf : Leaves, key_type : KeyTypes, key : MessageKeyData]

\* The keys of K that came from one ratchet
Used(K, leaf, t) == {k.key : k \in {k \in K : k.leaf = leaf /\ k.key_type = t}}

\* A node is a secret, or the two ratchets of a leaf.
NodeInv(node, i, K) ==
    \/ node = Secret
    \/ /\ i \in Leaves
       /\ node = Ratchet(node.ratchets)
       /\ node.ratchets = [t \in KeyTypes |-> node.ratchets[t]]
       /\ \A t \in KeyTypes : ChainInv(node.ratchets[t], Used(K, i, t))

\* No two known nodes lead to one leaf, and a leaf whose ratchets were used is
\* reached from its ratchets alone.
TreeInv(known, K) ==
    /\ K \subseteq KeyData
    /\ \A i \in DOMAIN known : NodeInv(known[i], i, K)
    /\ \A leaf \in Leaves : \A i, j \in Covering(known, leaf) : i = j
    /\ \A k \in K : \A i \in Covering(known, k.leaf) : ~IsSecret(known[i])

\* No leaf is cut off.
Covered(known) == \A leaf \in Leaves : Covering(known, leaf) # {}

\* The tree `known` grew out of `before`: its ratchets are those of before.
SameRatchets(before, known) ==
    \A i \in DOMAIN known : known[i] = Secret \/ (i \in DOMAIN before /\ known[i] = before[i])

\* consume_node on a node of a path
LEMMA ConsumeInv ==
    ASSUME NEW known, NEW K, TreeInv(known, K), NEW x \in Inner(LeafCount)
    PROVE  /\ TreeInv(consume_node(known, x), K)
           /\ Covered(known) => Covered(consume_node(known, x))
           /\ SameRatchets(known, consume_node(known, x))
           /\ DOMAIN consume_node(known, x) \subseteq (DOMAIN known \ {x}) \cup Children(x)
           /\ x \notin DOMAIN known => DOMAIN consume_node(known, x) = DOMAIN known
<1> DEFINE new == consume_node(known, x)
<1>1. x \notin Leaves
  BY InnerNotLeaf, Zenon
<1>2. CASE HoldsSecret(known, x)
  <2>1. /\ x \in DOMAIN known
        /\ DOMAIN new = (DOMAIN known \ {x}) \cup Children(x)
        /\ \A i \in DOMAIN new : new[i] = IF i \in Children(x) THEN Secret ELSE known[i]
    BY <1>2, Zenon DEF HoldsSecret, consume_node, set_node, Without, Children
  <2> HIDE DEF new
  <2>2. ASSUME NEW leaf \in Leaves, x \notin UpToRoot[leaf]
        PROVE  /\ UpToRoot[leaf] \cap Children(x) = {}
               /\ Covering(new, leaf) = Covering(known, leaf)
    <3>1. UpToRoot[leaf] \cap Children(x) = {}
      BY <2>2, PathFacts, Zenon
    <3>2. QED BY <3>1, <2>1, <2>2, Zenon DEF Covering
  <2>3. ASSUME NEW leaf \in Leaves, x \in UpToRoot[leaf]
        PROVE  \E y \in Children(x) : Covering(new, leaf) = {y} /\ y \in DOMAIN new
    <3>1. PICK y \in Children(x) : UpToRoot[leaf] \cap Children(x) = {y}
      BY <2>3, PathFacts, Zenon
    <3>2. x \in Covering(known, leaf)
      BY <2>1, <2>3, Zenon DEF Covering
    <3>3. \A i \in Covering(known, leaf) : i = x
      BY <3>2, Zenon DEF TreeInv
    <3>4. \A i \in DOMAIN known \ {x} : i \notin UpToRoot[leaf]
      BY <3>3, Zenon DEF Covering
    <3>5. Covering(new, leaf) = {y} /\ y \in DOMAIN new
      BY <3>1, <3>4, <2>1, Zenon DEF Covering
    <3>6. QED BY <3>5, Zenon
  <2>4. \A i \in DOMAIN new : NodeInv(new[i], i, K)
    BY <2>1, Zenon DEF NodeInv, TreeInv
  <2>5. ASSUME NEW leaf \in Leaves, NEW i \in Covering(new, leaf), NEW j \in Covering(new, leaf)
        PROVE  i = j
    <3>1. CASE x \in UpToRoot[leaf]
      BY <2>3, <2>5, <3>1
    <3>2. CASE x \notin UpToRoot[leaf]
      BY <2>2, <2>5, <3>2, Zenon DEF TreeInv
    <3>3. QED BY <3>1, <3>2, Zenon
  <2>6. ASSUME NEW k \in K, NEW i \in Covering(new, k.leaf)
        PROVE  ~IsSecret(new[i])
    <3>1. k.leaf \in Leaves
      BY Zenon DEF TreeInv, KeyData
    <3>2. x \notin UpToRoot[k.leaf]
      BY <1>2, <2>1, Zenon DEF TreeInv, Covering, HoldsSecret
    <3>3. i \in Covering(known, k.leaf) /\ i \notin Children(x) /\ i \in DOMAIN new
      BY <3>1, <3>2, <2>2, <2>6, Zenon DEF Covering
    <3>4. new[i] = known[i]
      BY <3>3, <2>1, Zenon
    <3>5. QED BY <3>3, <3>4, Zenon DEF TreeInv
  <2>7. TreeInv(new, K)
    BY <2>4, <2>5, <2>6, Zenon DEF TreeInv
  <2>8. Covered(known) => Covered(new)
    <3> SUFFICES ASSUME Covered(known), NEW leaf \in Leaves PROVE Covering(new, leaf) # {}
      BY Zenon DEF Covered
    <3>1. CASE x \in UpToRoot[leaf]
      BY <2>3, <3>1, Zenon
    <3>2. CASE x \notin UpToRoot[leaf]
      BY <2>2, <3>2, Zenon DEF Covered
    <3>3. QED BY <3>1, <3>2, Zenon
  <2>9. SameRatchets(known, new)
    BY <2>1, Zenon DEF SameRatchets
  <2>10. QED BY <2>1, <2>7, <2>8, <2>9, Zenon DEF new
<1>3. CASE ~HoldsSecret(known, x)
  <2>1. x \notin DOMAIN known
    <3>1. IsSecret(Secret)
      BY Zenon DEF IsSecret, Secret
    <3>2. \A i \in DOMAIN known \ Leaves : known[i] = Secret
      BY Zenon DEF TreeInv, NodeInv
    <3>3. QED BY <1>1, <1>3, <3>1, <3>2, Zenon DEF HoldsSecret
  <2>2. DOMAIN new = DOMAIN known /\ \A i \in DOMAIN known : new[i] = known[i]
    BY <1>3, <2>1, Zenon DEF consume_node, Without
  <2> HIDE DEF new
  <2>3. \A leaf : Covering(new, leaf) = Covering(known, leaf)
    BY <2>2, Zenon DEF Covering
  <2>4. \A leaf : Covering(known, leaf) \subseteq DOMAIN known
    BY Zenon DEF Covering
  <2>5. TreeInv(new, K)
    BY <2>2, <2>3, <2>4, Zenon DEF TreeInv
  <2>6. QED BY <2>1, <2>2, <2>3, <2>5, Zenon DEF new, Covered, SameRatchets
<1>4. QED BY <1>2, <1>3, Zenon

\* A nonempty set of numbers of path nodes has a least element.
LEMMA LeastElement ==
    ASSUME NEW S, S \subseteq 0 .. 8, S # {}
    PROVE  \E n \in S : \A m \in S : n <= m
<1> SUFFICES ASSUME \A n \in S : \E m \in S : m < n PROVE FALSE
  OBVIOUS
<1>1. 0 \notin S /\ 1 \notin S /\ 2 \notin S
  OBVIOUS
<1>2. 3 \notin S /\ 4 \notin S /\ 5 \notin S
  BY <1>1
<1>3. 6 \notin S /\ 7 \notin S /\ 8 \notin S
  BY <1>1, <1>2
<1>4. PICK n \in S : TRUE
  BY Zenon
<1>5. n \in 0 .. 8
  BY Zenon
<1>6. QED BY <1>1, <1>2, <1>3, <1>4, <1>5

\* The loop of take_leaf_ratchet is the function its recursive definition
\* describes.
LEMMA DescentDef ==
    ASSUME NEW known, NEW leaf \in Leaves
    PROVE  /\ Descent(known, leaf)[0] = known
           /\ \A j \in 1 .. Len(Path(leaf)) :
                 Descent(known, leaf)[j]
                   = consume_node(Descent(known, leaf)[j - 1], Above(leaf, j))
<1> DEFINE L == Len(Path(leaf))
           Loop(f, n) == f = [j \in 0 .. n |-> IF j = 0 THEN known
                                               ELSE consume_node(f[j - 1], Above(leaf, j))]
           Bad == {n \in 0 .. 8 : ~ \E f : Loop(f, n)}
<1>1. L \in 0 .. 8
  BY PathFacts, Zenon
<1> HIDE DEF L
<1>2. Bad = {}
  <2> SUFFICES ASSUME Bad # {} PROVE FALSE
    BY Zenon
  <2>1. PICK n \in Bad : \A m \in Bad : n <= m
    BY LeastElement, Zenon
  <2>2. CASE n = 0
    <3> DEFINE f == [j \in 0 .. 0 |-> known]
    <3>1. Loop(f, 0)
      OBVIOUS
    <3>2. QED BY <3>1, <2>1, <2>2, Zenon
  <2>3. CASE n # 0
    <3>0. n \in 0 .. 8
      BY Zenon
    <3>1. n - 1 \in 0 .. 8 /\ n - 1 \notin Bad
      <4> HIDE DEF Bad
      <4>1. QED BY <2>1, <2>3, <3>0
    <3>2. PICK f : Loop(f, n - 1)
      BY <3>1, Zenon
    <3> DEFINE g == [j \in 0 .. n |-> IF j = n THEN consume_node(f[n - 1], Above(leaf, n)) ELSE f[j]]
    <3>3. \A j \in 0 .. n - 1 : g[j] = f[j]
      BY <2>1
    <3>4. ASSUME NEW j \in 0 .. n
          PROVE  g[j] = IF j = 0 THEN known ELSE consume_node(g[j - 1], Above(leaf, j))
      <4>1. CASE j = 0
        BY <2>1, <2>3, <4>1, <3>2, <3>3
      <4>2. CASE j # 0 /\ j # n
        <5>1. j \in 0 .. n - 1 /\ j - 1 \in 0 .. n - 1
          BY <2>1, <4>2
        <5>2. g[j] = f[j] /\ g[j - 1] = f[j - 1]
          BY <5>1, <3>3, Zenon
        <5>3. f[j] = consume_node(f[j - 1], Above(leaf, j))
          BY <5>1, <4>2, <3>2, Zenon
        <5>4. QED BY <5>2, <5>3, <4>2, Zenon
      <4>3. CASE j # 0 /\ j = n
        <5>1. j - 1 \in 0 .. n - 1
          BY <2>1, <4>3
        <5>2. QED BY <5>1, <4>3, <3>3, Zenon
      <4>4. QED BY <4>1, <4>2, <4>3, Zenon
    <3>5. Loop(g, n)
      BY <3>4, Zenon
    <3>6. QED BY <3>5, <2>1, Zenon
  <2>4. QED BY <2>2, <2>3, Zenon
<1>3. \E f : Loop(f, L)
  BY <1>1, <1>2, Zenon
<1>4. Descent(known, leaf) = CHOOSE f : Loop(f, L)
  BY Zenon DEF Descent, L
<1>5. Loop(Descent(known, leaf), L)
  BY <1>3, <1>4, Zenon
<1>6. QED BY <1>1, <1>5 DEF L

\* The loop: every step keeps the invariant, and behind it no node of the path
\* is left.
LEMMA DescentInv ==
    ASSUME NEW known, NEW K, TreeInv(known, K), NEW leaf \in Leaves,
           NEW j \in 0 .. Len(Path(leaf))
    PROVE  LET now == Descent(known, leaf)[j]
           IN  /\ TreeInv(now, K)
               /\ Covered(known) => Covered(now)
               /\ SameRatchets(known, now)
               /\ Covering(now, leaf) \subseteq Lower(leaf, j)
<1> DEFINE L == Len(Path(leaf))
           now(i) == Descent(known, leaf)[i]
           Good(i) == /\ TreeInv(now(i), K)
                      /\ Covered(known) => Covered(now(i))
                      /\ SameRatchets(known, now(i))
                      /\ Covering(now(i), leaf) \subseteq Lower(leaf, i)
           Bad == {i \in 0 .. L : ~Good(i)}
<1>1. L \in 0 .. 8 /\ j \in 0 .. L
  BY PathFacts, Zenon
<1>2. now(0) = known /\ \A i \in 1 .. L : now(i) = consume_node(now(i - 1), Above(leaf, i))
  BY DescentDef, Zenon
<1> HIDE DEF L, now
<1>3. Good(0)
  BY <1>2, PathFacts, Zenon DEF SameRatchets, Covering
<1>4. ASSUME NEW i \in 1 .. L, Good(i - 1) PROVE Good(i)
  <2> DEFINE x == Above(leaf, i)
  <2>1. /\ x \in Inner(LeafCount)
        /\ UpToRoot[leaf] \cap Children(x) \subseteq Lower(leaf, i)
    BY PathFacts, Zenon DEF L
  <2>2. now(i) = consume_node(now(i - 1), x)
    BY <1>2, Zenon
  <2> HIDE DEF x
  <2>3. /\ TreeInv(now(i), K)
        /\ Covered(now(i - 1)) => Covered(now(i))
        /\ SameRatchets(now(i - 1), now(i))
        /\ DOMAIN now(i) \subseteq (DOMAIN now(i - 1) \ {x}) \cup Children(x)
    BY <1>4, <2>1, <2>2, ConsumeInv, Zenon
  <2>4. SameRatchets(known, now(i))
    BY <1>4, <2>3, Zenon DEF SameRatchets
  <2>5. \A y \in Lower(leaf, i - 1) : y = x \/ y \in Lower(leaf, i)
    <3>1. \A h \in (i - 1) + 1 .. L : h = i \/ h \in i + 1 .. L
      BY <1>1
    <3>2. QED BY <3>1, Zenon DEF Lower, L, x
  <2>6. Covering(now(i), leaf) \subseteq Lower(leaf, i)
    BY <1>4, <2>1, <2>3, <2>5, Zenon DEF Covering
  <2>7. QED BY <1>4, <2>3, <2>4, <2>6, Zenon
<1> HIDE DEF Good
<1>5. Bad = {}
  <2> SUFFICES ASSUME Bad # {} PROVE FALSE
    BY Zenon
  <2>1. Bad \subseteq 0 .. 8
    BY <1>1
  <2>2. PICK n \in Bad : \A m \in Bad : n <= m
    BY <2>1, LeastElement, Zenon
  <2>3. n \in 0 .. L /\ ~Good(n)
    BY Zenon
  <2>4. n # 0
    BY <2>3, <1>3, Zenon
  <2>5. n \in 1 .. L /\ n - 1 \in 0 .. L
    BY <1>1, <2>3, <2>4
  <2>6. ~Good(n - 1)
    BY <2>3, <2>5, <1>4, Zenon
  <2>7. n - 1 \in Bad
    BY <2>5, <2>6, Zenon
  <2> HIDE DEF Bad
  <2>8. QED BY <2>2, <2>5, <2>7, <1>1
<1>6. Good(j)
  BY <1>1, <1>5, Zenon
<1>7. QED BY <1>6, Zenon DEF Good, now

-----------------------------------------------------------------------------
(* The calls of SecretTree                                                 *)

\* The ratchets rs that were taken for a leaf, the tree being as `known` before
IsTaken(known, K, leaf, rs) ==
    /\ rs = [t \in KeyTypes |-> rs[t]]
    /\ \A t \in KeyTypes :
          /\ ChainInv(rs[t], Used(K, leaf, t))
          /\ \/ rs[t] = NewRatchet
             \/ leaf \in DOMAIN known /\ known[leaf] # Secret /\ rs[t] = known[leaf].ratchets[t]

\* A tree without the node of a leaf
Emptied(known, K, leaf, rest) ==
    /\ TreeInv(rest, K)
    /\ leaf \notin DOMAIN rest
    /\ SameRatchets(known, rest)

TakenInv(known, K, leaf, res) ==
    /\ Emptied(known, K, leaf, res.known)
    /\ \/ res.value = {}
       \/ \E rs : /\ res.value = {rs} /\ IsTaken(known, K, leaf, rs)
                  /\ Covering(res.known, leaf) = {}
                  /\ Covered(known) => \A k \in Leaves \ {leaf} : Covering(res.known, k) # {}

\* Taking a node away keeps the invariant.
LEMMA WithoutInv ==
    ASSUME NEW known, NEW K, TreeInv(known, K), NEW x
    PROVE  /\ TreeInv(Without(known, x), K)
           /\ x \notin DOMAIN Without(known, x)
           /\ SameRatchets(known, Without(known, x))
           /\ \A leaf : Covering(Without(known, x), leaf) = Covering(known, leaf) \ {x}
<1> DEFINE rest == Without(known, x)
<1>1. DOMAIN rest = DOMAIN known \ {x} /\ \A i \in DOMAIN rest : rest[i] = known[i]
  BY Zenon DEF Without
<1> HIDE DEF rest
<1>2. /\ \A leaf : Covering(rest, leaf) = Covering(known, leaf) \ {x}
      /\ \A leaf : Covering(rest, leaf) \subseteq DOMAIN rest
  BY <1>1, Zenon DEF Covering
<1>3. TreeInv(rest, K)
  BY <1>1, <1>2 DEF TreeInv
<1>4. QED BY <1>1, <1>2, <1>3, Zenon DEF rest, SameRatchets

\* What was grown out of a grown tree was grown out of the first.
LEMMA SameRatchetsTwice ==
    ASSUME NEW a, NEW b, NEW c, SameRatchets(a, b), SameRatchets(b, c)
    PROVE  SameRatchets(a, c)
BY Zenon DEF SameRatchets

\* The node of a leaf is taken out of a tree that grew out of `known`.
LEMMA TakenLeafInv ==
    ASSUME NEW known, NEW now, NEW K, TreeInv(now, K), SameRatchets(known, now),
           Covered(known) => Covered(now),
           NEW leaf \in Leaves, NEW res \in TakenLeaf(now, leaf)
    PROVE  TakenInv(known, K, leaf, res)
<1>1. CASE leaf \notin DOMAIN now
  <2>1. res.known = now /\ res.value = {}
    BY <1>1 DEF TakenLeaf, Result
  <2>2. QED BY <2>1, <1>1, Zenon DEF TakenInv, Emptied
<1>2. CASE leaf \in DOMAIN now
  <2> DEFINE rest == Without(now, leaf)
  <2>1. /\ TreeInv(rest, K) /\ leaf \notin DOMAIN rest /\ SameRatchets(now, rest)
        /\ \A k : Covering(rest, k) = Covering(now, k) \ {leaf}
    BY WithoutInv, Zenon
  <2>2. Emptied(known, K, leaf, rest)
    BY <2>1, SameRatchetsTwice, Zenon DEF Emptied
  <2>3. leaf \in Covering(now, leaf)
    BY <1>2, PathFacts DEF Covering, Lower
  <2>4. Covering(rest, leaf) = {}
    BY <2>1, <2>3, Zenon DEF TreeInv
  <2>5. ASSUME Covered(known), NEW k \in Leaves \ {leaf} PROVE Covering(rest, k) # {}
    <3>1. leaf \notin Covering(now, k)
      BY OwnLeaf, Zenon DEF Covering
    <3>2. QED BY <3>1, <2>1, <2>5, Zenon DEF Covered
  <2>6. NodeInv(now[leaf], leaf, K)
    BY <1>2, Zenon DEF TreeInv
  <2>7. IsSecret(Secret) /\ \A rs : ~IsSecret(Ratchet(rs)) /\ Ratchet(rs).ratchets = rs
    BY Zenon DEF IsSecret, Secret, Ratchet
  <2>8. CASE IsSecret(now[leaf])
    <3> DEFINE rs == [t \in KeyTypes |-> NewRatchet]
    <3>1. \A t : Used(K, leaf, t) = {}
      BY <2>3, <2>8 DEF Used, TreeInv
    <3>2. IsTaken(known, K, leaf, rs)
      BY <3>1, NewRatchetInv, Zenon DEF IsTaken
    <3>3. /\ res.known = rest
          /\ res.value = {} \/ res.value = {rs}
      BY <1>2, <2>8 DEF TakenLeaf, Result
    <3> HIDE DEF rest, rs
    <3>4. QED BY <3>2, <3>3, <2>2, <2>4, <2>5, Zenon DEF TakenInv
  <2>9. CASE ~IsSecret(now[leaf])
    <3> DEFINE rs == now[leaf].ratchets
    <3>1. /\ rs = [t \in KeyTypes |-> rs[t]]
          /\ \A t \in KeyTypes : ChainInv(rs[t], Used(K, leaf, t))
      BY <2>6, <2>7, <2>9, Zenon DEF NodeInv
    <3>2. leaf \in DOMAIN known /\ now[leaf] = known[leaf] /\ known[leaf] # Secret
      BY <1>2, <2>7, <2>9, Zenon DEF SameRatchets
    <3>3. IsTaken(known, K, leaf, rs)
      BY <3>1, <3>2, Zenon DEF IsTaken
    <3>4. res.known = rest /\ res.value = {rs}
      BY <1>2, <2>9 DEF TakenLeaf, Result
    <3> HIDE DEF rest, rs
    <3>5. QED BY <3>3, <3>4, <2>2, <2>4, <2>5, Zenon DEF TakenInv
  <2>10. QED BY <2>8, <2>9, Zenon
<1>3. QED BY <1>1, <1>2, Zenon

\* take_leaf_ratchet, with the failures on the way
LEMMA TakeInv ==
    ASSUME NEW known, NEW K, TreeInv(known, K), NEW leaf \in Leaves,
           NEW res \in take_leaf_ratchet(known, leaf)
    PROVE  TakenInv(known, K, leaf, res)
<1>1. CASE leaf \in DOMAIN known
  <2>1. res \in TakenLeaf(known, leaf)
    BY <1>1, Zenon DEF take_leaf_ratchet
  <2>2. SameRatchets(known, known)
    BY Zenon DEF SameRatchets
  <2>3. QED BY <2>1, <2>2, TakenLeafInv, Zenon
<1>2. CASE leaf \notin DOMAIN known
  <2> DEFINE L == Len(Path(leaf))
             now(j) == Descent(known, leaf)[j]
  <2>1. L \in Nat
    BY PathFacts
  <2>2. \A j \in 0 .. L : /\ TreeInv(now(j), K)
                          /\ Covered(known) => Covered(now(j))
                          /\ SameRatchets(known, now(j))
    BY DescentInv, Zenon
  <2>3. \/ res \in TakenLeaf(now(L), leaf)
        \/ \E k \in FailedDescents(known, leaf) : res = Result(k, {})
    BY <1>2, Zenon DEF take_leaf_ratchet
  <2>4. \A k \in FailedDescents(known, leaf) : \E j \in 1 .. L :
            k = Without(now(j - 1), Above(leaf, j)) /\ HoldsSecret(now(j - 1), Above(leaf, j))
    BY Zenon DEF FailedDescents
  <2>5. \A j \in 1 .. L : Above(leaf, j) \in UpToRoot[leaf] /\ Above(leaf, j) # leaf
    BY PathFacts, InnerNotLeaf DEF Lower
  <2> HIDE DEF L, now
  <2>6. CASE res \in TakenLeaf(now(L), leaf)
    BY <2>1, <2>2, <2>6, TakenLeafInv
  <2>7. ASSUME NEW k \in FailedDescents(known, leaf), res = Result(k, {})
        PROVE  TakenInv(known, K, leaf, res)
    <3>1. PICK j \in 1 .. L :
              k = Without(now(j - 1), Above(leaf, j)) /\ HoldsSecret(now(j - 1), Above(leaf, j))
      BY <2>4, Zenon
    <3> DEFINE x == Above(leaf, j)
               prev == now(j - 1)
    <3>2. j - 1 \in 0 .. L /\ x \in UpToRoot[leaf] /\ x # leaf
      BY <2>1, <2>5
    <3>3. TreeInv(prev, K) /\ SameRatchets(known, prev)
      BY <2>2, <3>2, Zenon
    <3>4. k = Without(prev, x) /\ x \in DOMAIN prev
      BY <3>1, Zenon DEF HoldsSecret
    <3> HIDE DEF x, prev
    <3>5. /\ TreeInv(k, K) /\ SameRatchets(prev, k)
          /\ Covering(k, leaf) = Covering(prev, leaf) \ {x}
      BY <3>3, <3>4, WithoutInv, Zenon
    <3>6. Covering(k, leaf) = {}
      BY <3>2, <3>3, <3>4, <3>5 DEF TreeInv, Covering
    <3>7. leaf \notin DOMAIN k
      BY <3>6, PathFacts, Zenon DEF Covering, Lower
    <3>8. Emptied(known, K, leaf, k)
      BY <3>3, <3>5, <3>7, SameRatchetsTwice, Zenon DEF Emptied
    <3>9. res.known = k /\ res.value = {}
      BY <2>7, Zenon DEF Result
    <3>10. QED BY <3>8, <3>9, Zenon DEF TakenInv
  <2>8. QED BY <2>3, <2>6, <2>7, Zenon
<1>3. QED BY <1>1, <1>2, Zenon

\* From K to all, only the ratchet t of a leaf has given keys.
MoreUsed(K, all, leaf, t, keys) ==
    /\ Used(all, leaf, t) = Used(K, leaf, t) \cup keys
    /\ \A i, u : i # leaf \/ u # t => Used(all, i, u) = Used(K, i, u)

\* The keys of one ratchet after one more call
LEMMA UsedMore ==
    ASSUME NEW K, NEW leaf, NEW t, NEW keys, NEW all, all = K \cup KeyOf(leaf, t, keys)
    PROVE  MoreUsed(K, all, leaf, t, keys)
<1> DEFINE N == KeyOf(leaf, t, keys)
<1>0. all = K \cup N
  BY Zenon
<1>1. \A k \in N : k.leaf = leaf /\ k.key_type = t /\ k.key \in keys
  BY DEF KeyOf
<1>2. \A x \in keys : \E k \in N : k.leaf = leaf /\ k.key_type = t /\ k.key = x
  <2> SUFFICES ASSUME NEW x \in keys
               PROVE  \E k \in N : k.leaf = leaf /\ k.key_type = t /\ k.key = x
    BY Zenon
  <2> DEFINE k == [leaf |-> leaf, key_type |-> t, key |-> x]
  <2>1. k \in N /\ k.leaf = leaf /\ k.key_type = t /\ k.key = x
    BY Zenon DEF KeyOf
  <2>2. QED BY <2>1, Zenon
<1> HIDE DEF N
<1>3. Used(all, leaf, t) = Used(K, leaf, t) \cup keys
  <2>1. ASSUME NEW x \in Used(all, leaf, t) PROVE x \in Used(K, leaf, t) \cup keys
    BY <2>1, <1>0, <1>1, Zenon DEF Used
  <2>2. ASSUME NEW x \in Used(K, leaf, t) PROVE x \in Used(all, leaf, t)
    BY <2>2, <1>0, Zenon DEF Used
  <2>3. ASSUME NEW x \in keys PROVE x \in Used(all, leaf, t)
    BY <2>3, <1>0, <1>2, Zenon DEF Used
  <2>4. QED BY <2>1, <2>2, <2>3, Zenon
<1>4. ASSUME NEW i, NEW u, i # leaf \/ u # t PROVE Used(all, i, u) = Used(K, i, u)
  BY <1>0, <1>1, <1>4, Zenon DEF Used
<1>5. QED BY <1>3, <1>4, Zenon DEF MoreUsed

\* The ratchets of a leaf are put back, with the keys they gave.
LEMMA PutBack ==
    ASSUME NEW rest, NEW K, NEW leaf \in Leaves, TreeInv(rest, K),
           Covering(rest, leaf) = {},
           NEW t \in KeyTypes, NEW keys, keys \subseteq MessageKeyData,
           NEW all, all = K \cup KeyOf(leaf, t, keys),
           NEW rs, rs = [u \in KeyTypes |-> rs[u]],
           \A u \in KeyTypes : ChainInv(rs[u], Used(all, leaf, u))
    PROVE  TreeInv(set_node(rest, leaf, Ratchet(rs)), all)
<1> DEFINE new == set_node(rest, leaf, Ratchet(rs))
           N == KeyOf(leaf, t, keys)
<1>0. all = K \cup N
  BY Zenon
<1>1. /\ DOMAIN new = DOMAIN rest \cup {leaf}
      /\ new[leaf] = Ratchet(rs)
      /\ \A i \in DOMAIN rest : i # leaf => new[i] = rest[i]
  BY Zenon DEF set_node
<1>2. N \subseteq KeyData /\ \A k \in N : k.leaf = leaf
  BY DEF KeyOf, KeyData
<1>3. \A i, u : i # leaf => Used(all, i, u) = Used(K, i, u)
  <2>1. MoreUsed(K, all, leaf, t, keys)
    BY UsedMore, Zenon
  <2>2. QED BY <2>1, Zenon DEF MoreUsed
<1>4. ~IsSecret(Ratchet(rs)) /\ Ratchet(rs).ratchets = rs
  BY Zenon DEF IsSecret, Ratchet
<1>5. NodeInv(Ratchet(rs), leaf, all)
  BY <1>4, Zenon DEF NodeInv
<1> HIDE DEF new, N
<1>6. all \subseteq KeyData
  BY <1>0, <1>2, Zenon DEF TreeInv
<1>7. ASSUME NEW i \in DOMAIN new PROVE NodeInv(new[i], i, all)
  <2>1. CASE i = leaf
    BY <2>1, <1>1, <1>5, Zenon
  <2>2. CASE i # leaf
    <3>1. i \in DOMAIN rest /\ new[i] = rest[i]
      BY <2>2, <1>1, Zenon
    <3>2. NodeInv(rest[i], i, K)
      BY <3>1, Zenon DEF TreeInv
    <3>3. QED BY <3>1, <3>2, <2>2, <1>3, Zenon DEF NodeInv
  <2>3. QED BY <2>1, <2>2, Zenon
<1>8. ASSUME NEW k \in Leaves, k # leaf PROVE Covering(new, k) = Covering(rest, k)
  <2>1. leaf \notin UpToRoot[k]
    BY <1>8, OwnLeaf, Zenon
  <2>2. QED BY <2>1, <1>1, Zenon DEF Covering
<1>9. Covering(new, leaf) = {leaf}
  <2>1. leaf \in UpToRoot[leaf]
    BY PathFacts DEF Lower
  <2>2. QED BY <2>1, <1>1, Zenon DEF Covering
<1>10. \A k \in Leaves : \A i, j \in Covering(new, k) : i = j
  BY <1>8, <1>9 DEF TreeInv
<1>11. ASSUME NEW k \in all, NEW i \in Covering(new, k.leaf) PROVE ~IsSecret(new[i])
  <2>1. CASE k.leaf = leaf
    BY <2>1, <1>1, <1>4, <1>9, Zenon
  <2>2. CASE k.leaf # leaf
    <3>1. k \in K /\ k.leaf \in Leaves
      BY <2>2, <1>0, <1>2, Zenon DEF TreeInv, KeyData
    <3>2. i \in Covering(rest, k.leaf)
      BY <2>2, <3>1, <1>8, Zenon
    <3>3. i \in DOMAIN rest /\ i # leaf
      BY <3>1, <3>2, <2>2, OwnLeaf, Zenon DEF Covering
    <3>4. QED BY <3>1, <3>2, <3>3, <1>1, Zenon DEF TreeInv
  <2>3. QED BY <2>1, <2>2, Zenon
<1>12. TreeInv(new, all)
  BY <1>6, <1>7, <1>10, <1>11, Zenon DEF TreeInv
<1>13. QED BY <1>12, Zenon DEF new

\* What a call for a leaf must leave behind, K being the keys taken before
GoodCall(known, K, leaf, res) ==
    /\ TreeInv(res.known, K \cup res.value)
    /\ res.value \subseteq KeyData
    /\ res.value \cap K = {}
    /\ \A k \in res.value : k.leaf = leaf
    /\ leaf \in DOMAIN res.known /\ Covered(known) => Covered(res.known)

\* An error that leaves the leaf empty
LEMMA EmptiedIsGood ==
    ASSUME NEW known, NEW K, NEW leaf, NEW res,
           Emptied(known, K, leaf, res.known), res.value = {}
    PROVE  GoodCall(known, K, leaf, res)
<1>1. K \cup res.value = K
  BY Zenon
<1>2. QED BY <1>1, Zenon DEF GoodCall, Emptied

\* Ratchet t of the ratchets that were taken gave the result q and was put back.
Returned(taken, leaf, t, rs, q) ==
    Result(set_node(taken.known, leaf, Ratchet([rs EXCEPT ![t] = q.ratchet])),
           KeyOf(leaf, t, q.key))

\* A ratchet was taken, used and put back.
LEMMA PutBackIsGood ==
    ASSUME NEW known, NEW K, NEW leaf \in Leaves, NEW t \in KeyTypes,
           NEW taken, TakenInv(known, K, leaf, taken), NEW rs, taken.value = {rs},
           NEW q, GoodResult(rs[t], Used(K, leaf, t), q),
           NEW res, res = Returned(taken, leaf, t, rs, q)
    PROVE  GoodCall(known, K, leaf, res)
<1> DEFINE rest == taken.known
           new == [rs EXCEPT ![t] = q.ratchet]
<1>0. PICK N, all : N = KeyOf(leaf, t, q.key) /\ all = K \cup N
  BY Zenon
<1>1. /\ IsTaken(known, K, leaf, rs) /\ Covering(rest, leaf) = {} /\ TreeInv(rest, K)
      /\ Covered(known) => \A k \in Leaves \ {leaf} : Covering(rest, k) # {}
  BY Zenon DEF TakenInv, Emptied
<1>2. /\ ChainInv(q.ratchet, Used(K, leaf, t) \cup q.key)
      /\ q.key \subseteq MessageKeyData /\ q.key \cap Used(K, leaf, t) = {}
  BY Zenon DEF GoodResult
<1>3. /\ new = [u \in KeyTypes |-> new[u]]
      /\ new[t] = q.ratchet
      /\ \A u \in KeyTypes : u # t => new[u] = rs[u]
  BY <1>1, Zenon DEF IsTaken
<1> HIDE DEF new
<1>4. ASSUME NEW u \in KeyTypes PROVE ChainInv(new[u], Used(all, leaf, u))
  <2>1. MoreUsed(K, all, leaf, t, q.key)
    BY <1>0, UsedMore, Zenon
  <2>2. CASE u = t
    BY <2>1, <2>2, <1>2, <1>3, Zenon DEF MoreUsed
  <2>3. CASE u # t
    BY <2>1, <2>3, <1>1, <1>3, Zenon DEF IsTaken, MoreUsed
  <2>4. QED BY <2>2, <2>3, Zenon
<1>5. /\ res.known = set_node(rest, leaf, Ratchet(new))
      /\ res.value = N
  BY <1>0, Zenon DEF Returned, Result, new
<1> HIDE DEF rest
<1>6. TreeInv(res.known, K \cup res.value)
  <2>1. TreeInv(set_node(rest, leaf, Ratchet(new)), all)
    BY <1>0, <1>1, <1>2, <1>3, <1>4, PutBack, Zenon
  <2>2. QED BY <2>1, <1>0, <1>5, Zenon
<1>7. \A k \in N : \E x \in q.key : k = [leaf |-> leaf, key_type |-> t, key |-> x]
  BY <1>0, Zenon DEF KeyOf
<1>8. \A k \in N : k.leaf = leaf /\ k.key_type = t /\ k.key \in q.key /\ k \in KeyData
  BY <1>2, <1>7 DEF KeyData
<1>9. res.value \subseteq KeyData /\ \A k \in res.value : k.leaf = leaf
  BY <1>5, <1>8, Zenon
<1>10. res.value \cap K = {}
  <2> SUFFICES ASSUME NEW k \in res.value, k \in K PROVE FALSE
    BY Zenon
  <2>1. k.leaf = leaf /\ k.key_type = t /\ k.key \in q.key
    BY <1>5, <1>8, Zenon
  <2>2. k.key \in Used(K, leaf, t)
    BY <2>1, Zenon DEF Used
  <2>3. QED BY <2>1, <2>2, <1>2, Zenon
<1>11. ASSUME Covered(known), NEW k \in Leaves PROVE Covering(res.known, k) # {}
  <2>1. DOMAIN res.known = DOMAIN rest \cup {leaf}
    BY <1>5, Zenon DEF set_node
  <2>2. leaf \in UpToRoot[leaf]
    BY PathFacts DEF Lower
  <2>3. CASE k = leaf
    BY <2>1, <2>2, <2>3, Zenon DEF Covering
  <2>4. CASE k # leaf
    <3>1. Covering(rest, k) # {}
      BY <1>1, <1>11, <2>4, Zenon
    <3>2. QED BY <3>1, <2>1, Zenon DEF Covering
  <2>5. QED BY <2>3, <2>4, Zenon
<1>12. QED BY <1>6, <1>9, <1>10, <1>11, Zenon DEF GoodCall, Covered

\* What the results of next_message_key are made of
LEMMA NextResultShape ==
    ASSUME NEW known, NEW K, TreeInv(known, K), NEW leaf \in Leaves, NEW t,
           NEW res \in TreeNextResults(known, leaf, t)
    PROVE  \E taken \in take_leaf_ratchet(known, leaf) :
              /\ TakenInv(known, K, leaf, taken)
              /\ \/ res.known = taken.known /\ res.value = {}
                 \/ \E rs : /\ taken.value = {rs}
                            /\ \E q \in next_message_key(rs[t]) :
                                  res = Returned(taken, leaf, t, rs, q)
<1>1. PICK taken \in take_leaf_ratchet(known, leaf) :
          res \in IF taken.value = {} THEN {taken}
                  ELSE LET rs == CHOOSE v \in taken.value : TRUE
                       IN  {IF q.key = {} THEN Result(taken.known, {})
                            ELSE Returned(taken, leaf, t, rs, q) :
                              q \in next_message_key(rs[t])}
  BY Zenon DEF TreeNextResults, Returned
<1>2. TakenInv(known, K, leaf, taken)
  BY TakeInv, Zenon
<1>3. CASE taken.value = {}
  BY <1>1, <1>2, <1>3, Zenon
<1>4. CASE taken.value # {}
  <2>1. PICK rs : taken.value = {rs}
    BY <1>2, <1>4, Zenon DEF TakenInv
  <2>2. rs = CHOOSE v \in taken.value : TRUE
    BY <2>1, Zenon
  <2>3. PICK q \in next_message_key(rs[t]) :
            res = IF q.key = {} THEN Result(taken.known, {})
                  ELSE Returned(taken, leaf, t, rs, q)
    BY <1>1, <1>4, <2>2, Zenon
  <2>4. CASE q.key = {}
    <3>1. res.known = taken.known /\ res.value = {}
      BY <2>3, <2>4, Zenon DEF Result
    <3>2. QED BY <3>1, <1>2, Zenon
  <2>5. CASE q.key # {}
    BY <1>2, <2>1, <2>3, <2>5, Zenon
  <2>6. QED BY <2>4, <2>5, Zenon
<1>5. QED BY <1>3, <1>4, Zenon

\* The same for message_key_generation
LEMMA GetResultShape ==
    ASSUME NEW known, NEW K, TreeInv(known, K), NEW leaf \in Leaves, NEW t, NEW g,
           NEW res \in TreeGetResults(known, leaf, t, g)
    PROVE  \E taken \in take_leaf_ratchet(known, leaf) :
              /\ TakenInv(known, K, leaf, taken)
              /\ \/ res.known = taken.known /\ res.value = {}
                 \/ \E rs : /\ taken.value = {rs}
                            /\ \E q \in get_message_key(rs[t], g) :
                                  res = Returned(taken, leaf, t, rs, q)
<1>1. PICK taken \in take_leaf_ratchet(known, leaf) :
          res \in IF taken.value = {} THEN {taken}
                  ELSE LET rs == CHOOSE v \in taken.value : TRUE
                       IN  {Returned(taken, leaf, t, rs, q) :
                              q \in get_message_key(rs[t], g)}
  BY Zenon DEF TreeGetResults, Returned
<1>2. TakenInv(known, K, leaf, taken)
  BY TakeInv, Zenon
<1>3. CASE taken.value = {}
  BY <1>1, <1>2, <1>3, Zenon
<1>4. CASE taken.value # {}
  <2>1. PICK rs : taken.value = {rs}
    BY <1>2, <1>4, Zenon DEF TakenInv
  <2>2. rs = CHOOSE v \in taken.value : TRUE
    BY <2>1, Zenon
  <2>3. QED BY <1>1, <1>2, <1>4, <2>1, <2>2, Zenon
<1>5. QED BY <1>3, <1>4, Zenon

\* SecretTree::next_message_key is a good call.
LEMMA TreeNextIsGood ==
    ASSUME NEW known, NEW K, TreeInv(known, K), NEW leaf \in Leaves, NEW t \in KeyTypes,
           NEW res \in TreeNextResults(known, leaf, t)
    PROVE  GoodCall(known, K, leaf, res)
<1>1. PICK taken \in take_leaf_ratchet(known, leaf) :
         /\ TakenInv(known, K, leaf, taken)
         /\ \/ res.known = taken.known /\ res.value = {}
            \/ \E rs : /\ taken.value = {rs}
                       /\ \E q \in next_message_key(rs[t]) :
                             res = Returned(taken, leaf, t, rs, q)
  BY NextResultShape
<1>2. CASE res.known = taken.known /\ res.value = {}
  BY <1>1, <1>2, EmptiedIsGood, Zenon DEF TakenInv
<1>3. ASSUME NEW rs, taken.value = {rs}, NEW q \in next_message_key(rs[t]),
             res = Returned(taken, leaf, t, rs, q)
      PROVE  GoodCall(known, K, leaf, res)
  <2>1. ChainInv(rs[t], Used(K, leaf, t))
    BY <1>1, <1>3, Zenon DEF TakenInv, IsTaken
  <2>2. /\ IsRatchet(rs[t]) /\ rs[t].secret \in Nat
        /\ rs[t].secret >= rs[t].secret
        /\ rs[t].secret <= rs[t].secret + MAX_RATCHET_BACK_HISTORY
    BY <2>1, RatchetAssumption DEF ChainInv, IsRatchet
  <2>3. GoodResult(rs[t], Used(K, leaf, t), q)
    BY <1>3, <2>1, <2>2, NextIsGood, Zenon
  <2>4. QED BY <1>1, <1>3, <2>3, PutBackIsGood, Zenon
<1>4. QED BY <1>1, <1>2, <1>3, Zenon

\* SecretTree::message_key_generation is a good call.
LEMMA TreeGetIsGood ==
    ASSUME NEW known, NEW K, TreeInv(known, K), NEW leaf \in Leaves, NEW t \in KeyTypes,
           NEW g \in Generations, NEW res \in TreeGetResults(known, leaf, t, g)
    PROVE  GoodCall(known, K, leaf, res)
<1>1. PICK taken \in take_leaf_ratchet(known, leaf) :
         /\ TakenInv(known, K, leaf, taken)
         /\ \/ res.known = taken.known /\ res.value = {}
            \/ \E rs : /\ taken.value = {rs}
                       /\ \E q \in get_message_key(rs[t], g) :
                             res = Returned(taken, leaf, t, rs, q)
  BY GetResultShape
<1>2. CASE res.known = taken.known /\ res.value = {}
  BY <1>1, <1>2, EmptiedIsGood, Zenon DEF TakenInv
<1>3. ASSUME NEW rs, taken.value = {rs}, NEW q \in get_message_key(rs[t], g),
             res = Returned(taken, leaf, t, rs, q)
      PROVE  GoodCall(known, K, leaf, res)
  <2>1. ChainInv(rs[t], Used(K, leaf, t))
    BY <1>1, <1>3, Zenon DEF TakenInv, IsTaken
  <2>2. GoodResult(rs[t], Used(K, leaf, t), q)
    BY <1>3, <2>1, GetIsGood, Zenon
  <2>3. QED BY <1>1, <1>3, <2>2, PutBackIsGood, Zenon
<1>4. QED BY <1>1, <1>2, <1>3, Zenon

-----------------------------------------------------------------------------
(* How far the ratchets of a tree have come                                *)

UpTo(known, b) ==
    \A i \in DOMAIN known :
        known[i] = Secret \/ \A t \in KeyTypes : known[i].ratchets[t].secret <= b

\* The number of a key in its chain is the generation it carries.
Numbered(key) == key.generation = key.secret

\* The ratchets taken for a leaf have come as far as those of the tree.
LEMMA TakenUpTo ==
    ASSUME NEW known, NEW K, NEW leaf, NEW rs, IsTaken(known, K, leaf, rs),
           NEW b \in Nat, UpTo(known, b), NEW t \in KeyTypes
    PROVE  /\ rs[t].secret <= b /\ rs[t].secret \in Nat
           /\ ChainInv(rs[t], Used(K, leaf, t))
<1>1. ChainInv(rs[t], Used(K, leaf, t)) /\ rs[t].secret \in Nat
  BY Zenon DEF IsTaken, ChainInv, IsRatchet
<1>2. NewRatchet.secret = 0
  BY Zenon DEF NewRatchet
<1>3. QED BY <1>1, <1>2 DEF IsTaken, UpTo

\* A ratchet that has come as far as b is put back.
LEMMA ReturnedUpTo ==
    ASSUME NEW known, NEW K, NEW leaf, NEW t \in KeyTypes,
           NEW taken, TakenInv(known, K, leaf, taken), NEW rs, taken.value = {rs},
           NEW a \in Nat, UpTo(known, a), NEW b \in Nat, a <= b,
           NEW q, q.ratchet.secret <= b,
           NEW res, res = Returned(taken, leaf, t, rs, q)
    PROVE  UpTo(res.known, b)
<1> DEFINE rest == taken.known
           new == [rs EXCEPT ![t] = q.ratchet]
<1>1. IsTaken(known, K, leaf, rs) /\ SameRatchets(known, rest) /\ TreeInv(rest, K)
  BY Zenon DEF TakenInv, Emptied
<1>2. /\ new[t] = q.ratchet
      /\ \A u \in KeyTypes : u # t => new[u] = rs[u]
  BY <1>1, Zenon DEF IsTaken
<1>3. res.known = set_node(rest, leaf, Ratchet(new))
  BY Zenon DEF Returned, Result
<1> HIDE DEF new, rest
<1>4. /\ DOMAIN res.known = DOMAIN rest \cup {leaf}
      /\ res.known[leaf] = Ratchet(new)
      /\ \A i \in DOMAIN rest : i # leaf => res.known[i] = rest[i]
  BY <1>3, Zenon DEF set_node
<1>5. \A u \in KeyTypes : Ratchet(new).ratchets[u].secret <= b
  <2> SUFFICES ASSUME NEW u \in KeyTypes PROVE new[u].secret <= b
    BY Zenon DEF Ratchet
  <2>1. CASE u = t
    BY <2>1, <1>2, Zenon
  <2>2. CASE u # t
    <3>1. rs[u].secret <= a /\ rs[u].secret \in Nat
      BY <1>1, TakenUpTo, Zenon
    <3>2. QED BY <2>2, <3>1, <1>2
  <2>3. QED BY <2>1, <2>2, Zenon
<1>6. ASSUME NEW i \in DOMAIN rest, rest[i] # Secret, NEW u \in KeyTypes
      PROVE  rest[i].ratchets[u].secret <= b
  <2>1. rest[i] = known[i] /\ i \in DOMAIN known
    BY <1>1, <1>6, Zenon DEF SameRatchets
  <2>2. rest[i].ratchets[u].secret \in Nat
    BY <1>1, <1>6, Zenon DEF TreeInv, NodeInv, ChainInv, IsRatchet
  <2>3. rest[i].ratchets[u].secret <= a
    BY <1>6, <2>1, Zenon DEF UpTo
  <2>4. QED BY <2>2, <2>3
<1>7. QED BY <1>4, <1>5, <1>6, Zenon DEF UpTo

\* An error that leaves the leaf empty
LEMMA EmptiedUpTo ==
    ASSUME NEW known, NEW K, NEW leaf, NEW taken, TakenInv(known, K, leaf, taken),
           NEW a \in Nat, UpTo(known, a), NEW b \in Nat, a <= b
    PROVE  UpTo(taken.known, b)
<1> DEFINE rest == taken.known
<1>1. SameRatchets(known, rest) /\ TreeInv(rest, K)
  BY Zenon DEF TakenInv, Emptied
<1> HIDE DEF rest
<1>2. ASSUME NEW i \in DOMAIN rest, rest[i] # Secret, NEW u \in KeyTypes
      PROVE  rest[i].ratchets[u].secret <= b
  <2>1. rest[i] = known[i] /\ i \in DOMAIN known
    BY <1>1, <1>2, Zenon DEF SameRatchets
  <2>2. rest[i].ratchets[u].secret \in Nat
    BY <1>1, <1>2, Zenon DEF TreeInv, NodeInv, ChainInv, IsRatchet
  <2>3. rest[i].ratchets[u].secret <= a
    BY <1>2, <2>1, Zenon DEF UpTo
  <2>4. QED BY <2>2, <2>3
<1>3. UpTo(rest, b)
  BY <1>2, Zenon DEF UpTo
<1>4. QED BY <1>3, Zenon DEF rest

\* The keys a call returns
LEMMA ReturnedKeys ==
    ASSUME NEW taken, NEW leaf, NEW t, NEW rs, NEW q,
           NEW res, res = Returned(taken, leaf, t, rs, q)
    PROVE  /\ \A k \in res.value : k.leaf = leaf /\ k.key_type = t /\ k.key \in q.key
           /\ \A key : q.key = {key} =>
                 res.value = {[leaf |-> leaf, key_type |-> t, key |-> key]}
<1>1. res.value = {[leaf |-> leaf, key_type |-> t, key |-> x] : x \in q.key}
  BY Zenon DEF Returned, Result, KeyOf
<1>2. \A k \in res.value : \E x \in q.key : k = [leaf |-> leaf, key_type |-> t, key |-> x]
  BY <1>1, Zenon
<1>3. QED BY <1>1, <1>2

\* SecretTree::next_message_key moves one ratchet by one.
LEMMA TreeNextUpTo ==
    ASSUME NEW known, NEW K, TreeInv(known, K), NEW leaf \in Leaves, NEW t \in KeyTypes,
           NEW b \in Nat, UpTo(known, b), b < GenerationModulus,
           NEW res \in TreeNextResults(known, leaf, t)
    PROVE  /\ UpTo(res.known, b + 1)
           /\ \A k \in res.value : Numbered(k.key) /\ k.key.secret <= b /\ k.key_type = t
<1>1. PICK taken \in take_leaf_ratchet(known, leaf) :
         /\ TakenInv(known, K, leaf, taken)
         /\ \/ res.known = taken.known /\ res.value = {}
            \/ \E rs : /\ taken.value = {rs}
                       /\ \E q \in next_message_key(rs[t]) :
                             res = Returned(taken, leaf, t, rs, q)
  BY NextResultShape
<1>2. CASE res.known = taken.known /\ res.value = {}
  BY <1>1, <1>2, EmptiedUpTo
<1>3. ASSUME NEW rs, taken.value = {rs}, NEW q \in next_message_key(rs[t]),
             res = Returned(taken, leaf, t, rs, q)
      PROVE  /\ UpTo(res.known, b + 1)
             /\ \A k \in res.value : Numbered(k.key) /\ k.key.secret <= b /\ k.key_type = t
  <2>1. IsTaken(known, K, leaf, rs)
    BY <1>1, <1>3, Zenon DEF TakenInv
  <2>2. /\ rs[t].secret <= b /\ rs[t].secret \in Nat
        /\ ChainInv(rs[t], Used(K, leaf, t))
    BY <2>1, TakenUpTo, Zenon
  <2>3. rs[t].secret < GenerationModulus
    BY <2>2, RatchetAssumption
  <2>4. /\ q.ratchet.secret <= rs[t].secret + 1
        /\ \A key \in q.key : key.secret = rs[t].secret /\ key.generation = rs[t].secret
    BY <1>3, <2>2, <2>3, NextReach, Zenon
  <2>5. q.ratchet.secret \in Nat
    <3>1. IsRatchet(rs[t])
      BY <2>2, Zenon DEF ChainInv
    <3>2. rs[t].secret >= rs[t].secret /\ rs[t].secret <= rs[t].secret + MAX_RATCHET_BACK_HISTORY
      BY <2>2, RatchetAssumption
    <3>3. GoodResult(rs[t], Used(K, leaf, t), q)
      BY <1>3, <2>2, <3>1, <3>2, NextIsGood, Zenon
    <3>4. QED BY <3>3, Zenon DEF GoodResult, ChainInv, IsRatchet
  <2>6. q.ratchet.secret <= b + 1 /\ b + 1 \in Nat /\ b <= b + 1
    BY <2>2, <2>4, <2>5
  <2>7. UpTo(res.known, b + 1)
    BY <1>1, <1>3, <2>6, ReturnedUpTo, Zenon
  <2>8. \A k \in res.value : k.key_type = t /\ k.key \in q.key
    BY <1>3, ReturnedKeys
  <2>9. QED BY <2>2, <2>4, <2>7, <2>8, Zenon DEF Numbered
<1>4. QED BY <1>1, <1>2, <1>3, Zenon

\* SecretTree::message_key_generation moves one ratchet as far as the message.
LEMMA TreeGetUpTo ==
    ASSUME NEW known, NEW K, TreeInv(known, K), NEW leaf \in Leaves, NEW t \in KeyTypes,
           NEW b \in Nat, UpTo(known, b), b < GenerationModulus,
           NEW g \in Generations, g + 1 <= b,
           NEW res \in TreeGetResults(known, leaf, t, g)
    PROVE  /\ UpTo(res.known, b)
           /\ \A k \in res.value : Numbered(k.key)
<1>1. PICK taken \in take_leaf_ratchet(known, leaf) :
         /\ TakenInv(known, K, leaf, taken)
         /\ \/ res.known = taken.known /\ res.value = {}
            \/ \E rs : /\ taken.value = {rs}
                       /\ \E q \in get_message_key(rs[t], g) :
                             res = Returned(taken, leaf, t, rs, q)
  BY GetResultShape
<1>2. CASE res.known = taken.known /\ res.value = {}
  BY <1>1, <1>2, EmptiedUpTo
<1>3. ASSUME NEW rs, taken.value = {rs}, NEW q \in get_message_key(rs[t], g),
             res = Returned(taken, leaf, t, rs, q)
      PROVE  /\ UpTo(res.known, b)
             /\ \A k \in res.value : Numbered(k.key)
  <2>1. IsTaken(known, K, leaf, rs)
    BY <1>1, <1>3, Zenon DEF TakenInv
  <2>2. /\ rs[t].secret <= b /\ rs[t].secret \in Nat
        /\ ChainInv(rs[t], Used(K, leaf, t))
    BY <2>1, TakenUpTo, Zenon
  <2>3. rs[t].secret < GenerationModulus
    BY <2>2, RatchetAssumption
  <2>4. /\ q.ratchet.secret <= rs[t].secret \/ q.ratchet.secret <= g + 1
        /\ \A key \in q.key : key.secret = g /\ key.generation = g
    BY <1>3, <2>2, <2>3, GetReach, Zenon
  <2>5. q.ratchet.secret \in Nat
    <3>1. GoodResult(rs[t], Used(K, leaf, t), q)
      BY <1>3, <2>2, GetIsGood, Zenon
    <3>2. QED BY <3>1, Zenon DEF GoodResult, ChainInv, IsRatchet
  <2>6. q.ratchet.secret <= b /\ b <= b
    BY <2>2, <2>4, <2>5, RatchetAssumption DEF Generations
  <2>7. UpTo(res.known, b)
    BY <1>1, <1>3, <2>6, ReturnedUpTo, Zenon
  <2>8. \A k \in res.value : k.key \in q.key
    BY <1>3, ReturnedKeys
  <2>9. QED BY <2>4, <2>7, <2>8, Zenon DEF Numbered
<1>4. QED BY <1>1, <1>2, <1>3, Zenon

=============================================================================
