----------------------------- MODULE MCTreeKemGroup -----------------------------
(***************************************************************************)
(* Four members, one proposal at a time, the last of whom makes external   *)
(* commits only; five with some roles fixed and larger commits; and three  *)
(* that refuse commits after decap.  The names of key chains are           *)
(* arbitrary: for every client, the view numbers the chains in use from 0. *)
(***************************************************************************)
EXTENDS TreeKemGroup

MCScenarios ==
    {[leaves |-> 4, proposals |-> 1, committers |-> 0 .. 2, proposed |-> 0 .. 3,
      rotators |-> {}, may_join |-> TRUE, may_refuse |-> FALSE],
     [leaves |-> 5, proposals |-> 4, committers |-> {0, 2, 4}, proposed |-> {1, 3},
      rotators |-> {0}, may_join |-> FALSE, may_refuse |-> FALSE],
     [leaves |-> 3, proposals |-> 1, committers |-> 0 .. 1, proposed |-> 1 .. 2,
      rotators |-> {}, may_join |-> TRUE, may_refuse |-> TRUE]}

ChainsInUse ==
    ChainsOf(UNION {Range(private[m]) : m \in DOMAIN private} \cup KeysOf(nodes) \cup exposed)

Renamed(key, used) ==
    IF key = NoKey THEN NoKey
    ELSE <<key[1][1], Cardinality({c \in used : c[1] = key[1][1] /\ c[2] < key[1][2]}), key[2]>>

RenamedNode(n, used) ==
    CASE n.kind = "leaf"   -> [n EXCEPT !.leaf.key = Renamed(@, used)]
      [] n.kind = "parent" -> [n EXCEPT !.key = Renamed(@, used)]
      [] OTHER             -> n

ViewWith(used) ==
    <<[x \in DOMAIN nodes |-> RenamedNode(nodes[x], used)],
      [m \in DOMAIN private |-> [k \in DOMAIN private[m] |-> Renamed(private[m][k], used)]],
      index, signer, stray, failed, {Renamed(key, used) : key \in exposed}, scenario>>

MCView == ViewWith(ChainsInUse)

===============================================================================
