-------------------------- MODULE SecretKeyRatchet --------------------------
(***************************************************************************)
(* The symmetric ratchet of mls-rs/src/group/secret_tree.rs (feature       *)
(* out_of_order): one chain of secrets from which one message key per      *)
(* generation is derived, and the history of keys that were skipped.       *)
(*                                                                         *)
(* The KDF is abstracted to what the properties tell apart: deriving       *)
(* "secret" from a secret is injective and one-way, so a secret is the     *)
(* number of derivations that led to it, and a MessageKeyData is the       *)
(* secret and the generation number its nonce and key are derived from.    *)
(* The generation is a u32: it lives in 0..GenerationModulus-1, apart from *)
(* the secret, because it wraps and the chain does not.                    *)
(***************************************************************************)
EXTENDS Integers

CONSTANTS
    MAX_RATCHET_BACK_HISTORY,  \* how far ahead of the ratchet a receiver may jump
    GenerationModulus,         \* 2^32 in the code: the width of `generation`
    OverflowChecks,            \* TRUE: the build panics on overflow; FALSE: it wraps
    KdfMayFail                 \* TRUE: a call to the crypto provider may return an error

ASSUME RatchetAssumption ==
    /\ MAX_RATCHET_BACK_HISTORY \in Nat
    /\ GenerationModulus \in Nat
    /\ MAX_RATCHET_BACK_HISTORY < GenerationModulus
    /\ OverflowChecks \in BOOLEAN
    /\ KdfMayFail \in BOOLEAN

Generations == 0 .. GenerationModulus - 1
MessageKeyData == [secret : Nat, generation : Generations]

\* The sum of two u32, reduced to a u32: it overflows at most once.
Wrapped(n) == IF n >= GenerationModulus THEN n - GenerationModulus ELSE n

NoHistory == [g \in {} |-> [secret |-> 0, generation |-> 0]]

-----------------------------------------------------------------------------
(* SecretKeyRatchet as a value, and its methods as operators.              *)

\* SecretKeyRatchet::new
NewRatchet == [secret |-> 0, generation |-> 0, history |-> NoHistory]

\* The key that next_message_key derives from the ratchet as it stands.
CurrentKey(r) == [secret |-> r.secret, generation |-> r.generation]

\* Faulty: the generation of the next key is not counted.
RatchetedUncounted(r) ==
    [secret |-> r.secret + 1, generation |-> r.generation, history |-> r.history]

\* The ratchet after next_message_key.
Ratcheted(r) ==
    [secret     |-> r.secret + 1,
     generation |-> Wrapped(r.generation + 1),
     history    |-> r.history]

NextPanics(r) == OverflowChecks /\ r.generation + 1 >= GenerationModulus

\* Faulty: skipped keys are not kept.
SkippedUnfiled(r, k) ==
    [secret |-> r.secret + k, generation |-> r.generation + k, history |-> r.history]

\* k turns of the loop of get_message_key: each derives a key and files it in
\* the history under the generation it was derived for.
Skipped(r, k) ==
    LET new == r.generation .. r.generation + k - 1
    IN  [secret     |-> r.secret + k,
         generation |-> r.generation + k,
         history    |-> [g \in (DOMAIN r.history) \cup new |->
                           IF g \in new
                             THEN [secret |-> r.secret + (g - r.generation),
                                   generation |-> g]
                             ELSE r.history[g]]]

\* Faulty: a key that is handed out stays in the history.
WithoutKeyKept(r, g) == r

\* history.remove_entry(g)
WithoutKey(r, g) ==
    [secret     |-> r.secret,
     generation |-> r.generation,
     history    |-> [h \in (DOMAIN r.history) \ {g} |-> r.history[h]]]

\* Faulty: no limit on how far ahead a message may be.
MaxGenerationUnlimited(r) == GenerationModulus - 1

\* self.generation + MAX_RATCHET_BACK_HISTORY, in a u32
MaxGenerationAllowed(r) == Wrapped(r.generation + MAX_RATCHET_BACK_HISTORY)

WindowPanics(r) ==
    /\ OverflowChecks
    /\ r.generation + MAX_RATCHET_BACK_HISTORY >= GenerationModulus

IsRatchet(r) ==
    /\ r \in [secret : Nat, generation : Generations, history : {r.history}]
    /\ r.history \in [DOMAIN r.history -> MessageKeyData]
    /\ DOMAIN r.history \subseteq Generations

-----------------------------------------------------------------------------
(* The results a call can have: the ratchet it leaves, and the key it      *)
(* returns, as a set that is empty when the call returns an error.  A call *)
(* that panics has no result.                                              *)

Ok(r, key) == [ratchet |-> r, key |-> {key}]
Err(r) == [ratchet |-> r, key |-> {}]

\* next_message_key.  A failing derivation returns before self is assigned.
next_message_key(r) ==
    {res \in {Ok(Ratcheted(r), CurrentKey(r))} : ~NextPanics(r)}
        \cup {res \in {Err(r)} : KdfMayFail}

\* get_message_key for a generation already passed: the skipped key is handed
\* out and forgotten; one that is not in the history is KeyMissing.
PastKey(r, g) ==
    IF g \in DOMAIN r.history THEN Ok(WithoutKey(r, g), r.history[g]) ELSE Err(r)

\* get_message_key for the current or a later generation.  Beyond the window it
\* is InvalidFutureGeneration.  The final next_message_key may fail and so may
\* any turn of the loop: the turns that were completed stay completed.
FutureKey(r, g) ==
    IF g > MaxGenerationAllowed(r)
      THEN {Err(r)}
      ELSE {Err(Skipped(r, k)) : k \in {i \in 0 .. g - r.generation - 1 : KdfMayFail}}
             \cup next_message_key(Skipped(r, g - r.generation))

get_message_key(r, g) ==
    IF g < r.generation THEN {PastKey(r, g)}
    ELSE {res \in FutureKey(r, g) : ~WindowPanics(r)}

=============================================================================
