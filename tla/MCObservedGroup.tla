-------------------------- MODULE MCObservedGroup --------------------------
(***************************************************************************)
(* The scenarios: a group with everything but detached commits and         *)
(* ReInits, one with detached commits, one with ReInits and failing        *)
(* storage, and two that an external client observes.                      *)
(***************************************************************************)
EXTENDS ObservedGroup

Plain ==
    [epochs |-> 2, made |-> 3, faults |-> 1, failing |-> {"path", "schedule"},
     remove |-> TRUE, update |-> TRUE, reinit |-> FALSE, detach |-> FALSE,
     join |-> TRUE, observe |-> FALSE]

Detached == [Plain EXCEPT !.detach = TRUE, !.join = FALSE, !.made = 2]

ReInits ==
    [Plain EXCEPT !.failing = @ \cup {"apply"}, !.reinit = TRUE, !.join = FALSE, !.made = 2]

Observed == [Plain EXCEPT !.made = 2, !.observe = TRUE, !.failing = {"path"}]

ObservedReInit ==
    [Observed EXCEPT !.reinit = TRUE, !.update = FALSE, !.remove = FALSE, !.join = FALSE]

MCScenarios == {Plain, Detached, ReInits, Observed, ObservedReInit}

Joining ==
    {[Plain EXCEPT !.made = 2, !.faults = 0, !.failing = {}, !.remove = FALSE,
                   !.update = FALSE]}

=============================================================================
