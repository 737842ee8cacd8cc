----------------------------- MODULE SimMatcher -----------------------------
(***************************************************************************)
(* pkg/matcher/sim.go: the in-process matcher.  It keeps the registered     *)
(* cluster graphs, a ledger of allocated nodes per cluster, and the live    *)
(* allocations.  Every method runs under the matcher's own mutex, so each   *)
(* is one atomic action.                                                    *)
(*                                                                          *)
(* Data abstraction: a containment tree is a function from its node         *)
(* vertices to their summed capacity (nodeCapacity), a node vertex is its   *)
(* position in the graph (the order VerticesOfType returns), and an         *)
(* auxiliary subsystem tree is the set of resource requests that            *)
(* satisfyResource finds in it.                                             *)
(***************************************************************************)
EXTENDS Naturals, FiniteSets, Functions, SequencesExt

CONSTANTS
  Clusters,      \* cluster ids
  Containments,  \* containment graphs a cluster may register with
  Names,         \* auxiliary subsystem names
  AuxGraphs,     \* auxiliary graphs, each the set of requests it satisfies
  Specs,         \* jobspecs that may be submitted
  MaxAllocs      \* bound on ids minted

Capacity == [cores : Nat, gpus : Nat, mem : Nat]

ContainmentSubsystem == "containment"

ASSUME ContainmentsAssumption ==
  \A g \in Containments :
    /\ DOMAIN g \subseteq Nat /\ IsFiniteSet(DOMAIN g)
    /\ g \in [DOMAIN g -> Capacity]

ASSUME NamesAssumption == ContainmentSubsystem \notin Names

\* jobspec.counts returns at least one node; requires maps a subsystem to the
\* concrete alternatives ExpandSection gives for its section.
ASSUME SpecsAssumption ==
  \A js \in Specs :
    /\ js.nodes \in Nat \ {0}
    /\ js.need \in Capacity
    /\ DOMAIN js.requires \subseteq Names

ASSUME MaxAllocsAssumption == MaxAllocs \in Nat

Nodes == UNION {DOMAIN g : g \in Containments}

PartialFunctions(S, T) == UNION {[D -> T] : D \in SUBSET S}

ClusterGraph ==
  [containment : Containments, subsystems : PartialFunctions(Names, AuxGraphs),
   reserves : BOOLEAN]

VARIABLES
  clusters,   \* id -> ClusterGraph, for the registered ids
  order,      \* the registered ids, oldest first
  allocated,  \* id -> set of nodes in use
  live,       \* allocation id -> [cluster, nodes]
  nextID      \* ids minted so far

vars == <<clusters, order, allocated, live, nextID>>

LiveAlloc == [cluster : Clusters, nodes : SUBSET Nodes]

Put(f, x, v) == [y \in DOMAIN f \cup {x} |-> IF y = x THEN v ELSE f[y]]

Drop(f, S) == Restrict(f, DOMAIN f \ S)

-----------------------------------------------------------------------------
(* Cluster graphs (pkg/graph) *)

\* Adds or replaces; the name "containment" replaces the tree nodes are
\* allocated from.
AttachSubsystem(cg, name, g) ==
  IF name = ContainmentSubsystem
    THEN [cg EXCEPT !.containment = g]
    ELSE [cg EXCEPT !.subsystems = Put(cg.subsystems, name, g)]

\* Refuses containment, which is never in the domain.
DetachSubsystem(cg, name) ==
  [cg EXCEPT !.subsystems = Drop(cg.subsystems, {name})]

-----------------------------------------------------------------------------
(* Matching *)

\* OR across the section's alternatives, AND within each.
SubsystemSatisfies(cg, sub, section) ==
  /\ sub \in DOMAIN cg.subsystems
  /\ \E concrete \in section : concrete \subseteq cg.subsystems[sub]

HasCapacity(cap, need) ==
  cap.cores >= need.cores /\ cap.gpus >= need.gpus /\ cap.mem >= need.mem

\* MUTANT: the scan that forgets to skip allocated nodes.
FittingNodesIgnoringLedger(cg, js, busy) ==
  {n \in DOMAIN cg.containment : HasCapacity(cg.containment[n], js.need)}

FittingNodes(cg, js, busy) ==
  {n \in DOMAIN cg.containment \ busy : HasCapacity(cg.containment[n], js.need)}

\* MUTANT: one node too many.
FirstNodesPlusOne(S, k) == {n \in S : Cardinality({m \in S : m < n}) <= k}

\* free[:needNodes]: the first k of S in graph order.
FirstNodes(S, k) == {n \in S : Cardinality({m \in S : m < n}) < k}

\* One candidate of Evaluate, which is satisfy-only and allocates nothing.
Candidate(c, js) ==
  LET cg == clusters[c]
      missing == {sub \in DOMAIN js.requires :
                    ~SubsystemSatisfies(cg, sub, js.requires[sub])}
      structOK == Cardinality(FittingNodes(cg, js, {})) >= js.nodes
      free == Cardinality(FittingNodes(cg, js, allocated[c]))
      feasible == missing = {} /\ structOK
  IN [cluster |-> c,
      missing |-> missing \cup IF structOK THEN {} ELSE {ContainmentSubsystem},
      feasible |-> feasible, freeNodes |-> free,
      freeNow |-> feasible /\ free >= js.nodes]

Evaluate(js) == [i \in 1..Len(order) |-> Candidate(order[i], js)]

-----------------------------------------------------------------------------
(* Operations *)

Init ==
  /\ clusters = <<>> /\ order = <<>> /\ allocated = <<>>
  /\ live = <<>> /\ nextID = 0

\* MUTANT: re-registration starts from an empty ledger.
AddClusterResettingLedger(c, cg) ==
  /\ clusters' = Put(clusters, c, cg)
  /\ order' = IF c \in DOMAIN clusters THEN order ELSE Append(order, c)
  /\ allocated' = Put(allocated, c, {})
  /\ UNCHANGED <<live, nextID>>

\* A new id starts with an empty ledger; a known one keeps the ledger it has
\* and only its graph is replaced.
AddCluster(c, cg) ==
  /\ clusters' = Put(clusters, c, cg)
  /\ IF c \in DOMAIN clusters
       THEN UNCHANGED <<order, allocated>>
       ELSE order' = Append(order, c) /\ allocated' = Put(allocated, c, {})
  /\ UNCHANGED <<live, nextID>>

\* MUTANT: live allocations survive their cluster.
RemoveClusterKeepingLive(c) ==
  /\ clusters' = Drop(clusters, {c})
  /\ order' = RemoveFirst(order, c)
  /\ allocated' = Drop(allocated, {c})
  /\ UNCHANGED <<live, nextID>>

\* MUTANT: the id stays in the iteration order.
RemoveClusterKeepingOrder(c) ==
  /\ clusters' = Drop(clusters, {c})
  /\ live' = Drop(live, {a \in DOMAIN live : live[a].cluster = c})
  /\ allocated' = Drop(allocated, {c})
  /\ UNCHANGED <<order, nextID>>

\* MUTANT: the ledger of a removed cluster is kept.
RemoveClusterKeepingLedger(c) ==
  /\ clusters' = Drop(clusters, {c})
  /\ order' = RemoveFirst(order, c)
  /\ live' = Drop(live, {a \in DOMAIN live : live[a].cluster = c})
  /\ UNCHANGED <<allocated, nextID>>

RemoveCluster(c) ==
  /\ clusters' = Drop(clusters, {c})
  /\ order' = RemoveFirst(order, c)
  /\ live' = Drop(live, {a \in DOMAIN live : live[a].cluster = c})
  /\ allocated' = Drop(allocated, {c})
  /\ UNCHANGED nextID

\* AddSubsystem fails on an unknown cluster; the ledger is kept.
AddSubsystem(c, name, g) ==
  /\ c \in DOMAIN clusters
  /\ clusters' = [clusters EXCEPT ![c] = AttachSubsystem(clusters[c], name, g)]
  /\ UNCHANGED <<order, allocated, live, nextID>>

RemoveSubsystem(c, name) ==
  /\ c \in DOMAIN clusters
  /\ name \in DOMAIN clusters[c].subsystems
  /\ clusters' = [clusters EXCEPT ![c] = DetachSubsystem(clusters[c], name)]
  /\ UNCHANGED <<order, allocated, live, nextID>>

\* Allocate on a cluster that keeps no ledger (config reserve=false).
AllocateSatisfyOnly(c) ==
  /\ c \in DOMAIN clusters /\ ~clusters[c].reserves
  /\ nextID < MaxAllocs
  /\ nextID' = nextID + 1
  /\ UNCHANGED <<clusters, order, allocated, live>>

\* Allocate; an unregistered cluster (an error) and one without room (not
\* allocated, no error) change nothing.
Allocate(js, c) ==
  /\ c \in DOMAIN clusters /\ clusters[c].reserves
  /\ nextID < MaxAllocs
  /\ LET free == FittingNodes(clusters[c], js, allocated[c])
         chosen == FirstNodes(free, js.nodes)
     IN /\ Cardinality(free) >= js.nodes
        /\ allocated' = [allocated EXCEPT ![c] = @ \cup chosen]
        /\ live' = Put(live, nextID + 1, [cluster |-> c, nodes |-> chosen])
  /\ nextID' = nextID + 1
  /\ UNCHANGED <<clusters, order>>

\* Free; an unknown id is a no-op.
Free(a) ==
  /\ a \in DOMAIN live
  /\ allocated' = [allocated EXCEPT ![live[a].cluster] = @ \ live[a].nodes]
  /\ live' = Drop(live, {a})
  /\ UNCHANGED <<clusters, order, nextID>>

Next ==
  \/ \E c \in Clusters, cg \in ClusterGraph : AddCluster(c, cg)
  \/ \E c \in Clusters : RemoveCluster(c)
  \/ \E c \in Clusters, name \in Names, g \in AuxGraphs : AddSubsystem(c, name, g)
  \/ \E c \in Clusters, g \in Containments : AddSubsystem(c, ContainmentSubsystem, g)
  \/ \E c \in Clusters, name \in Names : RemoveSubsystem(c, name)
  \/ \E c \in Clusters : AllocateSatisfyOnly(c)
  \/ \E js \in Specs, c \in Clusters : Allocate(js, c)
  \/ \E a \in DOMAIN live : Free(a)

Spec == Init /\ [][Next]_vars

-----------------------------------------------------------------------------
(* Properties *)

\* The maps of the matcher are keyed by the same registered clusters, and
\* every id in use was minted.
TypeOK ==
  /\ clusters \in PartialFunctions(Clusters, ClusterGraph)
  /\ allocated \in [DOMAIN clusters -> SUBSET Nodes]
  /\ nextID \in 0..MaxAllocs
  /\ live \in PartialFunctions(1..nextID, LiveAlloc)

\* Two live allocations never hold the same node of a cluster, whatever
\* re-registrations, graph replacements and frees came between them
\* (Allocate, sim.go:244-269).
NoDoubleBooking ==
  \A a, b \in DOMAIN live :
    a # b /\ live[a].cluster = live[b].cluster
      => live[a].nodes \cap live[b].nodes = {}

\* The nodes of c that live allocations hold.
HeldOn(c) ==
  {n \in Nodes : \E a \in DOMAIN live : live[a].cluster = c /\ n \in live[a].nodes}

\* The ledger of a registered cluster is exactly the nodes its live
\* allocations hold: nothing leaks and nothing is released early, also when a
\* cluster is removed and comes back, or its graph shrinks under a live
\* allocation (sim.go:51-68, 244-283).
LedgerExact ==
  /\ \A a \in DOMAIN live : live[a].cluster \in DOMAIN clusters
  /\ \A c \in DOMAIN clusters : allocated[c] = HeldOn(c)

\* Evaluate visits every registered cluster exactly once, through any sequence
\* of registrations and removals (sim.go:40-68, 213-240).
OneCandidatePerCluster ==
  /\ ToSet(order) = DOMAIN clusters
  /\ Len(order) = Cardinality(DOMAIN clusters)

\* FreeNow is kept by Allocate: a candidate reported free now is feasible and,
\* if it reserves, has as many free fitting nodes as the job asks for, which is
\* what an allocation holds (sim.go:213-269).
FreeNowMeansRoom ==
  \A js \in Specs : \A i \in DOMAIN Evaluate(js) :
    LET cand == Evaluate(js)[i]
        free == FittingNodes(clusters[cand.cluster], js, allocated[cand.cluster])
    IN cand.freeNow =>
         /\ Cardinality(FirstNodes(free, js.nodes)) = js.nodes
         /\ FirstNodes(free, js.nodes) \cap HeldOn(cand.cluster) = {}

IInv == TypeOK /\ NoDoubleBooking /\ LedgerExact

\* The detailed matcher implements the reservation promise: ids are never
\* reused, a grant is disjoint from every holding, Free and RemoveCluster
\* release only what they name.
Promise == INSTANCE Reservations WITH
  held <- live, granted <- 1..nextID, Ids <- 1..MaxAllocs

ImplementsReservations == Promise!Spec
=============================================================================
