--------------------------- MODULE ObservedGroup ---------------------------
(***************************************************************************)
(* A group that an external client follows without being a member          *)
(* (src/mls-rs/src/external_client.rs, external_client/group.rs).  It      *)
(* starts from the GroupInfo of some member, receives the proposals and    *)
(* commits of the delivery service in the clear, may itself propose to     *)
(* remove a member, and keeps snapshots that it starts again from.  It has *)
(* no secrets, so nothing tells it when its state is wrong.                *)
(***************************************************************************)
EXTENDS Group

CONSTANT Observer       \* the external client, as the sender of a proposal

ASSUME ObserverAssumption == Observer \notin Members

VARIABLES
    observer,   \* its ExternalGroup, if it has one
    snapshot    \* its ExternalSnapshot, if it has taken one

observed_vars == <<observer, snapshot>>

all_vars == <<vars, observed_vars>>

ObservedInit == Init /\ observer = {} /\ snapshot = {}

-----------------------------------------------------------------------------

\* ExternalGroup::join and GroupState::new, with what a GroupInfo tells.
join(g) ==
    [epoch |-> g.epoch, leaves |-> g.leaves, proposals |-> {}, pending_reinit |-> FALSE]

\* ExternalClient::observe_group
Observe(m) ==
    /\ options.observe /\ observer = {} /\ Active(m)
    /\ observer' = {join(group[m])}
    /\ UNCHANGED <<vars, snapshot>>

WithProposal(o, p) == [o EXCEPT !.proposals = @ \cup {p}]

\* process_incoming_message of a proposal, with cache_proposals
ObserverProposal(p) ==
    /\ \E o \in observer :
        /\ p.epoch = o.epoch
        /\ observer' = {WithProposal(o, p)}
    /\ UNCHANGED <<vars, snapshot>>

\* insert_proposal_from_message and insert_proposal: nothing is checked.
insert_proposal(p) ==
    /\ observer' = {WithProposal(o, p) : o \in observer}
    /\ UNCHANGED <<vars, snapshot>>

\* propose_remove and propose
Propose(r) ==
    /\ made < options.made
    /\ \E o \in observer :
        /\ r \in DOMAIN o.leaves
        /\ \A p \in o.proposals : r \notin p.remove
        /\ LET p == [by |-> Observer, epoch |-> o.epoch, key |-> made + 1, remove |-> {r}]
           IN  observer' = {WithProposal(o, p)} /\ wire' = wire \cup {p}
    /\ made' = made + 1
    /\ UNCHANGED <<options, group, stored, detached, log, removed, faults, snapshot>>

clear_proposal_cache ==
    /\ faults < options.faults
    /\ observer' = {[o EXCEPT !.proposals = {}] : o \in observer}
    /\ faults' = faults + 1
    /\ UNCHANGED <<options, group, stored, detached, wire, log, removed, made, snapshot>>

-----------------------------------------------------------------------------

\* Faulty: the public tree of the last epoch stays.
update_key_scheduleOldTree(o, c) == [o EXCEPT !.epoch = @ + 1, !.proposals = {}]

\* The observer's update_key_schedule, which cannot fail.
update_key_schedule(o, c) ==
    [o EXCEPT !.epoch = @ + 1, !.proposals = {}, !.leaves = apply_resolved(@, c)]

\* Faulty: a commit must refer to all the proposals of the cache.
observe_commitExact(o, c, fault) ==
    IF o.pending_reinit \/ c.refs # o.proposals THEN o
    ELSE IF fault # "none" THEN [o EXCEPT !.pending_reinit = @ \/ c.reinit]
    ELSE update_key_schedule([o EXCEPT !.pending_reinit = @ \/ c.reinit], c)

\* process_commit as the observer runs it: it is not removed, and it has no
\* secrets to update, but pending_reinit is set before the last fallible calls.
observe_commit(o, c, fault) ==
    IF o.pending_reinit \/ ~(c.refs \subseteq o.proposals) THEN o
    ELSE IF fault # "none" THEN [o EXCEPT !.pending_reinit = @ \/ c.reinit]
    ELSE update_key_schedule([o EXCEPT !.pending_reinit = @ \/ c.reinit], c)

ObserverCommit ==
    /\ \E o \in observer :
        /\ HasNext(o)
        /\ observer' = {observe_commit(o, NextCommit(o), "none")}
    /\ UNCHANGED <<vars, snapshot>>

ObserverCommitFails ==
    /\ "path" \in options.failing /\ faults < options.faults
    /\ \E o \in observer :
        /\ HasNext(o)
        /\ observer' = {observe_commit(o, NextCommit(o), "path")}
    /\ faults' = faults + 1
    /\ UNCHANGED <<options, group, stored, detached, wire, log, removed, made, snapshot>>

\* ExternalGroup::snapshot
Snapshot ==
    /\ snapshot' = observer
    /\ UNCHANGED <<vars, observer>>

\* The process ends; ExternalClient::load_group starts again from the snapshot.
LoadSnapshot ==
    /\ faults < options.faults
    /\ observer' = snapshot
    /\ faults' = faults + 1
    /\ UNCHANGED <<options, group, stored, detached, wire, log, removed, made, snapshot>>

ObserverNext ==
    \/ \E m \in Members : Observe(m)
    \/ \E p \in wire : ObserverProposal(p)
    \/ \E p \in wire : insert_proposal(p)
    \/ \E r \in Members : Propose(r)
    \/ clear_proposal_cache
    \/ ObserverCommit
    \/ ObserverCommitFails
    \/ Snapshot
    \/ LoadSnapshot

ObservedNext == (Next /\ UNCHANGED observed_vars) \/ ObserverNext

ObservedSpec == ObservedInit /\ [][ObservedNext]_all_vars

\* The service delivers every message to the members and to the observer again
\* until it has been processed, and an application applies its commit once it is
\* let through.
ObservedFairSpec ==
    /\ ObservedSpec
    /\ WF_all_vars(\E p \in wire : ObserverProposal(p))
    /\ WF_all_vars(ObserverCommit)
    /\ \A m \in Members :
        /\ WF_all_vars(ApplyPending(m) /\ UNCHANGED observed_vars)
        /\ WF_all_vars(ApplyDetached(m) /\ UNCHANGED observed_vars)
        /\ WF_all_vars(ProcessCommit(m) /\ UNCHANGED observed_vars)
        /\ WF_all_vars((\E p \in wire : process_proposal(m, p)) /\ UNCHANGED observed_vars)

\* Furthermore, an application clears a pending commit that has been refused.
ClearingSpec ==
    /\ ObservedFairSpec
    /\ \A m \in Members : WF_all_vars(clear_pending_commit(m) /\ UNCHANGED observed_vars)

-----------------------------------------------------------------------------

\* An observer sees the same leaves as every member that is in its epoch, however
\* it got there, and refuses further commits only because of a ReInit that was
\* committed: observe_commit needs no secret to follow the group.
ObserverAgrees ==
    \A o \in observer :
        /\ \A m \in Members :
            Active(m) /\ group[m].epoch = o.epoch => o.leaves = group[m].leaves
        /\ o.pending_reinit => \/ o.epoch > 0 /\ log[o.epoch].reinit
                               \/ HasNext(o) /\ NextCommit(o).reinit

\* An observer reaches the last epoch of the group, whatever was lost with its
\* cache or in a crash: every proposal a commit refers to, its own included, can
\* be received again.  (A failure after pending_reinit was set is beyond retry.)
ObserverCatchesUp ==
    ~options.reinit => <>[](\A o \in observer : o.epoch = Len(log))

=============================================================================
