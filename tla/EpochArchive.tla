----------------------------- MODULE EpochArchive -----------------------------
(***************************************************************************)
(* What a group is promised about its prior epochs, whatever the storage   *)
(* provider: an archive from epoch ids to the messages consumed in them,   *)
(* which grows by the epoch that ends, is saved as a whole together with   *)
(* the group's own state, and falls back as a whole to what was saved last *)
(* when the process ends.  GroupStateRepository implements it.             *)
(***************************************************************************)
EXTENDS Integers

CONSTANTS Messages, max_epoch_retention

VARIABLES
    loaded,   \* the group is in memory
    epoch,    \* the current epoch
    used,     \* messages consumed in the current epoch
    archive,  \* prior epoch id -> messages consumed in it
    saved,    \* the state saved last : {} or {[epoch, used]}
    stored,   \* the archive saved last
    last      \* the message accepted by the last step

vars == <<loaded, epoch, used, archive, saved, stored, last>>

Restricted(f, S) == [x \in S |-> f[x]]

\* The last max_epoch_retention epochs of the archive
Retained == {id \in DOMAIN archive :
                \A newest \in DOMAIN archive : id > newest - max_epoch_retention}

Init ==
    /\ loaded = TRUE
    /\ epoch \in {0, 1}
    /\ used = {}
    /\ archive = [id \in {} |-> {}]
    /\ saved = {}
    /\ stored = archive
    /\ last = {}

\* The current epoch ends and enters the archive, which has no gaps.
Advance ==
    /\ loaded
    /\ DOMAIN archive # {} => epoch - 1 \in DOMAIN archive
    /\ epoch \notin DOMAIN archive
    /\ archive' = [id \in DOMAIN archive \cup {epoch} |->
                      IF id = epoch THEN used ELSE archive[id]]
    /\ epoch' = epoch + 1
    /\ used' = {}
    /\ last' = {}
    /\ UNCHANGED <<loaded, saved, stored>>

\* A message may consume its key, and is accepted only with a fresh one.
Consume(id, before, after) ==
    \/ after = before /\ last' = {}
    \/ \E m \in Messages \ before :
          after = before \cup {m} /\ last' \in {{}, {<<id, m>>}}

OpenCurrent ==
    /\ loaded
    /\ Consume(epoch, used, used')
    /\ UNCHANGED <<loaded, epoch, archive, saved, stored>>

OpenPrior(id) ==
    /\ loaded
    /\ id # epoch
    /\ DOMAIN archive' = DOMAIN archive
    /\ archive' = [archive EXCEPT ![id] = archive'[id]]
    /\ Consume(id, archive[id], archive'[id])
    /\ UNCHANGED <<loaded, epoch, used, saved, stored>>

\* Saving may forget epochs, but none of the retained ones.
Save ==
    /\ loaded
    /\ saved' = {[epoch |-> epoch, used |-> used]}
    /\ stored' = Restricted(archive, Retained)
    /\ last' = {}

SaveAndContinue ==
    /\ Save
    /\ Retained \subseteq DOMAIN archive' /\ DOMAIN archive' \subseteq DOMAIN archive
    /\ archive' = Restricted(archive, DOMAIN archive')
    /\ UNCHANGED <<loaded, epoch, used>>

SaveAndStop ==
    /\ Save
    /\ archive' = stored'
    /\ loaded' = FALSE
    /\ UNCHANGED <<epoch, used>>

Stop ==
    /\ loaded
    /\ archive' = stored
    /\ loaded' = FALSE
    /\ last' = {}
    /\ UNCHANGED <<epoch, used, saved, stored>>

Load ==
    /\ ~loaded
    /\ saved = {[epoch |-> epoch', used |-> used']}
    /\ loaded' = TRUE
    /\ last' = {}
    /\ UNCHANGED <<archive, saved, stored>>

\* A second membership starts at a later epoch, over what is stored.
JoinAgain ==
    /\ ~loaded
    /\ epoch' > epoch
    /\ \A id \in DOMAIN archive : epoch' > id
    /\ used' = {}
    /\ loaded' = TRUE
    /\ last' = {}
    /\ UNCHANGED <<archive, saved, stored>>

Delete ==
    /\ ~loaded
    /\ saved' = {}
    /\ stored' = [id \in {} |-> {}]
    /\ archive' = stored'
    /\ last' = {}
    /\ UNCHANGED <<loaded, epoch, used>>

Refused == last' = {} /\ UNCHANGED <<loaded, epoch, used, archive, saved, stored>>

Next ==
    \/ Advance \/ OpenCurrent \/ \E id \in DOMAIN archive : OpenPrior(id)
    \/ SaveAndContinue \/ SaveAndStop \/ Stop \/ Load \/ JoinAgain \/ Delete \/ Refused

Spec == Init /\ [][Next]_vars

==============================================================================
