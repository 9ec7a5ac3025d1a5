------------------------ MODULE MCGroupStateRepository ------------------------
(***************************************************************************)
(* Two clients for GroupStateRepository: one with the in-memory provider,  *)
(* which never fails, and one with SQLite, whose calls may fail and who    *)
(* may join again.                                                         *)
(***************************************************************************)
EXTENDS GroupStateRepository

MCConfigurations ==
    {[backend |-> "InMemory", storage_may_fail |-> FALSE, delete_may_fail |-> FALSE,
      may_rejoin |-> FALSE],
     [backend |-> "SqLite", storage_may_fail |-> TRUE, delete_may_fail |-> TRUE,
      may_rejoin |-> TRUE]}

===============================================================================
