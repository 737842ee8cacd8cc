---------------------------- MODULE Reservations ----------------------------
(***************************************************************************)
(* What a fluxq matcher promises about reservations (pkg/matcher/matcher.go,*)
(* the Matcher interface): Allocate hands out a fresh id holding nodes no   *)
(* other reservation holds, Free releases exactly what that id held, and    *)
(* removing a cluster drops its reservations and touches no other's.        *)
(***************************************************************************)
EXTENDS Functions

CONSTANTS Clusters,   \* cluster ids
          Nodes,      \* node vertex ids
          Ids         \* reservation ids

VARIABLES held,       \* reservation id -> [cluster, nodes]
          granted     \* every id ever handed out

rvars == <<held, granted>>

Holding == [cluster : Clusters, nodes : SUBSET Nodes]

Init == held = <<>> /\ granted = {}

\* Allocate on a cluster the matcher reserves on.
Grant(a, h) ==
  /\ a \notin granted
  /\ \A b \in DOMAIN held :
       held[b].cluster = h.cluster => held[b].nodes \cap h.nodes = {}
  /\ held' = [b \in DOMAIN held \cup {a} |-> IF b = a THEN h ELSE held[b]]
  /\ granted' = granted \cup {a}

\* Allocate on a satisfy-only cluster: an id that holds nothing.
GrantNothing(a) ==
  /\ a \notin granted
  /\ granted' = granted \cup {a}
  /\ UNCHANGED held

Release(a) ==
  /\ a \in DOMAIN held
  /\ held' = Restrict(held, DOMAIN held \ {a})
  /\ UNCHANGED granted

DropCluster(c) ==
  /\ held' = Restrict(held, {a \in DOMAIN held : held[a].cluster # c})
  /\ UNCHANGED granted

Next ==
  \/ \E a \in Ids, h \in Holding : Grant(a, h)
  \/ \E a \in Ids : GrantNothing(a)
  \/ \E a \in DOMAIN held : Release(a)
  \/ \E c \in Clusters : DropCluster(c)

Spec == Init /\ [][Next]_rvars
=============================================================================
