---------------------------- MODULE RatchetCalls ----------------------------
(***************************************************************************)
(* One ratchet under every sequence of calls that a sender or a receiver   *)
(* can make: in any order of generations, with derivations that fail at    *)
(* any point, up to and past the end of the u32 generation.                *)
(***************************************************************************)
EXTENDS SecretKeyRatchet

CONSTANT MaxSecret  \* bound of the model: derivations per ratchet

ASSUME MaxSecretAssumption == MaxSecret \in Nat

VARIABLES
    ratchet,   \* the SecretKeyRatchet
    released,  \* every key a call has returned so far
    last       \* what the last call returned: {key}, or {} for an error

callVars == <<ratchet, released, last>>

CallInit ==
    /\ ratchet = NewRatchet
    /\ released = {}
    /\ last = {}

\* A call returns: the ratchet is left as res says, the caller has the key.
Apply(res) ==
    /\ res.ratchet.secret <= MaxSecret
    /\ ratchet' = res.ratchet
    /\ last' = res.key
    /\ released' = released \cup res.key

\* The sender asks for its next key.
NextMessageKey == \E res \in next_message_key(ratchet) : Apply(res)

\* The receiver asks for the key of a generation that a message names.
GetMessageKey(g) == \E res \in get_message_key(ratchet, g) : Apply(res)

CallNext == NextMessageKey \/ \E g \in Generations : GetMessageKey(g)

CallSpec == CallInit /\ [][CallNext]_callVars

-----------------------------------------------------------------------------
(* Properties.                                                             *)

\* Type invariant: the ratchet, the returned keys and the last result are
\* values of the types declared in secret_tree.rs.
TypeOK ==
    /\ IsRatchet(ratchet)
    /\ released \subseteq MessageKeyData
    /\ last \subseteq MessageKeyData

\* get_message_key and next_message_key never return a key that an earlier
\* call returned, whatever the order of the generations asked for, whichever
\* derivations fail and however often the u32 generation wraps.
KeyReleasedOnce == [][last' \cap released = {}]_callVars

\* A key kept in the history is one that was derived for that generation,
\* that no call has returned yet, and that the current secret can no longer
\* produce.
HistoryIsUnreleased ==
    \A g \in DOMAIN ratchet.history :
        /\ ratchet.history[g].generation = g
        /\ ratchet.history[g] \notin released
        /\ ratchet.history[g].secret < ratchet.secret

\* Until the generation wraps, get_message_key drops no key: every generation
\* the ratchet has passed was either returned or is still in the history, also
\* when a derivation fails half way through a jump.
NoKeyLost ==
    ratchet.secret < GenerationModulus =>
        \A g \in 0 .. ratchet.secret - 1 :
            g \in DOMAIN ratchet.history \/ [secret |-> g, generation |-> g] \in released

\* No call, whatever generation a message names, makes the ratchet run more
\* than MAX_RATCHET_BACK_HISTORY + 1 derivations, or run backwards.
BoundedWork ==
    [][/\ ratchet'.secret >= ratchet.secret
       /\ ratchet'.secret <= ratchet.secret + MAX_RATCHET_BACK_HISTORY + 1]_callVars

\* The inductive invariant behind the properties above: what the chain has
\* passed can not come back, and the u32 counts the chain until it wraps.
RatchetInv ==
    /\ TypeOK
    /\ HistoryIsUnreleased
    /\ NoKeyLost
    /\ \A key \in released : key.secret < ratchet.secret
    /\ ratchet.secret < GenerationModulus =>
          /\ ratchet.generation = ratchet.secret
          /\ \A g \in DOMAIN ratchet.history : ratchet.history[g].secret = g

=============================================================================
