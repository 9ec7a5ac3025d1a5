---------------------------- MODULE KeySchedule ----------------------------
(***************************************************************************)
(* The key schedule (mls-rs/src/group/key_schedule.rs), the transcript     *)
(* hashes and the tags made with its secrets.  Hashes, key derivations and *)
(* MACs are free constructors: two results are equal exactly when they     *)
(* were computed in the same way from equal inputs.                        *)
(***************************************************************************)
EXTENDS Naturals, Sequences

\* KeySchedule::from_random_epoch_secret, and a path secret
Random(n) == <<"random", n>>

\* PathSecret::empty
EmptyPathSecret == <<"empty">>

\* SecretsProducer::derive: everything a Group keeps of an epoch comes from the
\* epoch secret by a label.
derive(epoch_secret, label) == <<label, epoch_secret>>

\* from_key_schedule, up to the joiner secret
JoinerSecret(init_secret, commit_secret, context) ==
    <<"joiner", init_secret, commit_secret, context>>

from_joiner(joiner_secret, context, psk_secret) ==
    <<"epoch", joiner_secret, psk_secret, context>>

\* WelcomeSecret::from_joiner_secret
WelcomeSecret(joiner_secret, psk_secret) == <<"welcome", joiner_secret, psk_secret>>

-----------------------------------------------------------------------------

\* get_external_key_pair, the public half
ExternalPub(epoch_secret) == <<"public", derive(epoch_secret, "external")>>

\* InitSecret::encode_for_external: the init secret and the KEM output.
encode_for_external(external_pub, n) == <<"external init", n, external_pub>>
KemOutput(external_pub, n) == <<n, external_pub>>

\* derive_for_external: opening a KEM output made for another key gives
\* another secret.
derive_for_external(epoch_secret, kem_output) ==
    encode_for_external(ExternalPub(epoch_secret), kem_output[1])

-----------------------------------------------------------------------------

\* The empty ConfirmedTranscriptHash of a new group.
NoTranscript == <<"none">>

\* ConfirmationTag::create
ConfirmationTag(epoch_secret, confirmed) ==
    <<"tag", derive(epoch_secret, "confirm"), confirmed>>

\* InterimTranscriptHash::create
InterimTranscriptHash(confirmed, confirmation_tag) ==
    <<"interim", confirmed, confirmation_tag>>

\* transcript_hash::create; a content and its signature are known by their number
ConfirmedTranscriptHash(interim, content) == <<"confirmed", interim, content>>

=============================================================================
