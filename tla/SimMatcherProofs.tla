-------------------------- MODULE SimMatcherProofs --------------------------
(***************************************************************************)
(* The reservation ledger of the in-process matcher, proved for every fleet,*)
(* every set of graphs and jobspecs and any number of allocations: IInv is  *)
(* inductive, and the matcher implements Reservations.                      *)
(***************************************************************************)
EXTENDS SimMatcher, OrderLemmas

\* A partial function is a function on a part of the key set.
LEMMA PartialFunctionsMember ==
  ASSUME NEW S, NEW T, NEW f
  PROVE  f \in PartialFunctions(S, T) <=> DOMAIN f \subseteq S /\ f \in [DOMAIN f -> T]
<1>1. ASSUME f \in PartialFunctions(S, T)
      PROVE  DOMAIN f \subseteq S /\ f \in [DOMAIN f -> T]
  <2>1. PICK D \in SUBSET S : f \in [D -> T]
    BY <1>1 DEF PartialFunctions
  <2> QED
    BY <2>1
<1>2. ASSUME DOMAIN f \subseteq S, f \in [DOMAIN f -> T]
      PROVE  f \in PartialFunctions(S, T)
  BY <1>2 DEF PartialFunctions
<1> QED
  BY <1>1, <1>2

\* A graph update (new cluster, replaced cluster, attached or detached
\* subsystem) leaves a well-typed map of clusters.
LEMMA PutType ==
  ASSUME NEW S, NEW T, NEW f \in PartialFunctions(S, T), NEW x \in S, NEW v \in T
  PROVE  Put(f, x, v) \in PartialFunctions(S, T)
<1>1. DOMAIN f \subseteq S /\ f \in [DOMAIN f -> T]
  BY PartialFunctionsMember
<1>2. DOMAIN Put(f, x, v) \subseteq S
  BY <1>1 DEF Put
<1>3. Put(f, x, v) \in [DOMAIN Put(f, x, v) -> T]
  BY <1>1 DEF Put
<1> QED
  BY <1>2, <1>3, PartialFunctionsMember

\* Removing keys (RemoveCluster, DetachSubsystem, Free) keeps the type.
LEMMA DropType ==
  ASSUME NEW S, NEW T, NEW f \in PartialFunctions(S, T), NEW D
  PROVE  Drop(f, D) \in PartialFunctions(S, T)
<1>1. DOMAIN f \subseteq S /\ f \in [DOMAIN f -> T]
  BY PartialFunctionsMember
<1>2. DOMAIN Drop(f, D) \subseteq S
  BY <1>1 DEF Drop, Restrict
<1>3. Drop(f, D) \in [DOMAIN Drop(f, D) -> T]
  BY <1>1 DEF Drop, Restrict
<1> QED
  BY <1>2, <1>3, PartialFunctionsMember

\* Widening the key set keeps the type (ids minted grow with nextID).
LEMMA WidenType ==
  ASSUME NEW S, NEW R, NEW T, S \subseteq R, NEW f \in PartialFunctions(S, T)
  PROVE  f \in PartialFunctions(R, T)
<1>1. DOMAIN f \subseteq S /\ f \in [DOMAIN f -> T]
  BY PartialFunctionsMember
<1> QED
  BY <1>1, PartialFunctionsMember

\* The nodes Allocate takes are free nodes of the cluster's own graph.
LEMMA ChosenAreFree ==
  ASSUME NEW cg \in ClusterGraph, NEW js, NEW busy, NEW k
  PROVE  /\ FirstNodes(FittingNodes(cg, js, busy), k) \subseteq Nodes
         /\ FirstNodes(FittingNodes(cg, js, busy), k) \cap busy = {}
  BY DEF FirstNodes, FittingNodes, ClusterGraph, Nodes

\* Attaching or detaching a subsystem yields a cluster graph again.
LEMMA AttachType ==
  ASSUME NEW cg \in ClusterGraph
  PROVE  /\ \A name \in Names, g \in AuxGraphs :
              AttachSubsystem(cg, name, g) \in ClusterGraph
         /\ \A g \in Containments :
              AttachSubsystem(cg, ContainmentSubsystem, g) \in ClusterGraph
         /\ \A name \in Names : DetachSubsystem(cg, name) \in ClusterGraph
<1>0. cg.subsystems \in PartialFunctions(Names, AuxGraphs)
  BY DEF ClusterGraph
<1>1. ASSUME NEW name \in Names, NEW g \in AuxGraphs
      PROVE  AttachSubsystem(cg, name, g) \in ClusterGraph
  <2>1. name # ContainmentSubsystem
    BY NamesAssumption
  <2>2. Put(cg.subsystems, name, g) \in PartialFunctions(Names, AuxGraphs)
    BY <1>0, PutType
  <2> QED
    BY <2>1, <2>2 DEF AttachSubsystem, ClusterGraph
<1>2. ASSUME NEW g \in Containments
      PROVE  AttachSubsystem(cg, ContainmentSubsystem, g) \in ClusterGraph
  BY DEF AttachSubsystem, ClusterGraph
<1>3. ASSUME NEW name \in Names
      PROVE  DetachSubsystem(cg, name) \in ClusterGraph
  <2>1. Drop(cg.subsystems, {name}) \in PartialFunctions(Names, AuxGraphs)
    BY <1>0, DropType
  <2> QED
    BY <2>1 DEF DetachSubsystem, ClusterGraph
<1> QED
  BY <1>1, <1>2, <1>3

\* The initial, empty matcher satisfies the inductive invariant.
LEMMA InitIInv == Init => IInv
<1> SUFFICES ASSUME Init PROVE IInv
  OBVIOUS
<1>1. clusters = <<>> /\ allocated = <<>> /\ live = <<>> /\ nextID = 0
  BY DEF Init
<1>2. DOMAIN <<>> = {} /\ \A T : <<>> \in [{} -> T]
  OBVIOUS
<1>3. \A S, T : <<>> \in PartialFunctions(S, T)
  BY <1>2, PartialFunctionsMember
<1>5. TypeOK
  BY <1>1, <1>2, <1>3, MaxAllocsAssumption DEF TypeOK
<1>4. NoDoubleBooking /\ LedgerExact
  BY <1>1, <1>2 DEF NoDoubleBooking, LedgerExact
<1> QED
  BY <1>4, <1>5 DEF IInv

\* What IInv says, in the form the steps below use.
LEMMA IInvFacts ==
  ASSUME IInv
  PROVE  /\ clusters \in [DOMAIN clusters -> ClusterGraph]
         /\ DOMAIN clusters \subseteq Clusters
         /\ allocated \in [DOMAIN clusters -> SUBSET Nodes]
         /\ nextID \in Nat /\ nextID <= MaxAllocs
         /\ live \in [DOMAIN live -> LiveAlloc]
         /\ DOMAIN live \subseteq 1..nextID
  BY PartialFunctionsMember, MaxAllocsAssumption DEF IInv, TypeOK

\* AddCluster: a new cluster starts with an empty ledger, which is right
\* because no live allocation names an unregistered cluster.
LEMMA AddClusterStep ==
  ASSUME IInv, NEW c \in Clusters, NEW cg \in ClusterGraph, AddCluster(c, cg)
  PROVE  IInv'
<1>1. clusters' = Put(clusters, c, cg) /\ live' = live /\ nextID' = nextID
  BY DEF AddCluster
<1>2. DOMAIN clusters' = DOMAIN clusters \cup {c}
  BY <1>1 DEF Put
<1>3. clusters' \in PartialFunctions(Clusters, ClusterGraph)
  BY <1>1, PutType DEF IInv, TypeOK
<1>4. allocated' \in [DOMAIN clusters' -> SUBSET Nodes]
  <2>1. CASE c \in DOMAIN clusters
    BY <1>2, <2>1, IInvFacts DEF AddCluster
  <2>2. CASE c \notin DOMAIN clusters
    BY <1>2, <2>2, IInvFacts DEF AddCluster, Put
  <2> QED
    BY <2>1, <2>2
<1>5. TypeOK'
  BY <1>1, <1>3, <1>4 DEF IInv, TypeOK
<1>6. NoDoubleBooking'
  BY <1>1 DEF IInv, NoDoubleBooking
<1>7. LedgerExact'
  <2>1. \A d \in DOMAIN clusters : allocated'[d] = allocated[d]
    BY IInvFacts DEF AddCluster, Put
  <2>2. \A d : HeldOn(d)' = HeldOn(d)
    BY <1>1 DEF HeldOn
  <2>3. c \notin DOMAIN clusters => allocated'[c] = {} /\ HeldOn(c) = {}
    BY IInvFacts DEF AddCluster, Put, HeldOn, IInv, LedgerExact
  <2> QED
    BY <1>1, <1>2, <2>1, <2>2, <2>3 DEF IInv, LedgerExact
<1> QED
  BY <1>5, <1>6, <1>7 DEF IInv

\* RemoveCluster: the cluster's ledger and its allocations go together.
LEMMA RemoveClusterStep ==
  ASSUME IInv, NEW c \in Clusters, RemoveCluster(c)
  PROVE  IInv'
<1> DEFINE Gone == {a \in DOMAIN live : live[a].cluster = c}
<1>1. /\ clusters' = Drop(clusters, {c}) /\ allocated' = Drop(allocated, {c})
      /\ live' = Drop(live, Gone) /\ nextID' = nextID
  BY DEF RemoveCluster
<1>2. DOMAIN clusters' = DOMAIN clusters \ {c}
  BY <1>1 DEF Drop, Restrict
<1>3. /\ allocated' \in [DOMAIN clusters' -> SUBSET Nodes]
      /\ \A d \in DOMAIN clusters' : allocated'[d] = allocated[d]
  BY <1>1, <1>2, IInvFacts DEF Drop, Restrict
<1>4. /\ DOMAIN live' = {a \in DOMAIN live : live[a].cluster # c}
      /\ \A a \in DOMAIN live' : live'[a] = live[a]
  BY <1>1 DEF Drop, Restrict
<1>5. TypeOK'
  BY <1>1, <1>3, DropType DEF IInv, TypeOK
<1>6. NoDoubleBooking'
  BY <1>4 DEF IInv, NoDoubleBooking
<1>7. LedgerExact'
  <2>1. \A d : d # c => HeldOn(d)' = HeldOn(d)
    BY <1>4 DEF HeldOn
  <2> QED
    BY <1>2, <1>3, <1>4, <2>1 DEF IInv, LedgerExact
<1> QED
  BY <1>5, <1>6, <1>7 DEF IInv

\* Attaching and detaching subsystems: the graph changes, the ledger does not.
LEMMA GraphStep ==
  ASSUME IInv, NEW c \in DOMAIN clusters, NEW cg \in ClusterGraph,
         clusters' = [clusters EXCEPT ![c] = cg],
         UNCHANGED <<order, allocated, live, nextID>>
  PROVE  IInv'
<1>1. clusters' \in [DOMAIN clusters -> ClusterGraph]
  BY IInvFacts
<1>2. TypeOK'
  BY <1>1, IInvFacts, PartialFunctionsMember DEF IInv, TypeOK
<1>3. NoDoubleBooking'
  BY DEF IInv, NoDoubleBooking
<1>4. \A d : HeldOn(d)' = HeldOn(d)
  BY DEF HeldOn
<1>5. LedgerExact'
  BY <1>1, <1>4 DEF IInv, LedgerExact
<1> QED
  BY <1>2, <1>3, <1>5 DEF IInv

\* Allocate: the new allocation takes free nodes only, so it is disjoint from
\* every holding, and the ledger grows by exactly those nodes.
LEMMA AllocateStep ==
  ASSUME IInv, NEW js \in Specs, NEW c \in Clusters, Allocate(js, c)
  PROVE  IInv'
<1> DEFINE chosen == FirstNodes(FittingNodes(clusters[c], js, allocated[c]), js.nodes)
           new == [cluster |-> c, nodes |-> chosen]
<1>1. /\ c \in DOMAIN clusters
      /\ allocated' = [allocated EXCEPT ![c] = @ \cup chosen]
      /\ live' = Put(live, nextID + 1, new)
      /\ nextID' = nextID + 1 /\ nextID < MaxAllocs /\ clusters' = clusters
  BY DEF Allocate
<1>2. chosen \subseteq Nodes /\ chosen \cap allocated[c] = {}
  BY <1>1, ChosenAreFree, IInvFacts
<1>3. new \in LiveAlloc
  BY <1>2 DEF LiveAlloc
<1>4. nextID + 1 \notin DOMAIN live
  BY IInvFacts
<1>5. /\ DOMAIN live' = DOMAIN live \cup {nextID + 1}
      /\ live'[nextID + 1] = new
      /\ \A a \in DOMAIN live : live'[a] = live[a]
  BY <1>1, <1>4 DEF Put
<1> HIDE DEF chosen
<1>6. TypeOK'
  <2>1. nextID + 1 \in 1..(nextID + 1) /\ 1..nextID \subseteq 1..(nextID + 1)
    BY IInvFacts
  <2>2. live \in PartialFunctions(1..(nextID + 1), LiveAlloc)
    BY <2>1, WidenType DEF IInv, TypeOK
  <2>3. live' \in PartialFunctions(1..(nextID + 1), LiveAlloc)
    BY <1>1, <1>3, <2>1, <2>2, PutType
  <2>4. allocated' \in [DOMAIN clusters' -> SUBSET Nodes]
    BY <1>1, <1>2, IInvFacts
  <2>5. nextID' \in 0..MaxAllocs
    BY <1>1, IInvFacts, MaxAllocsAssumption
  <2> QED
    BY <1>1, <2>3, <2>4, <2>5 DEF IInv, TypeOK
<1>7. NoDoubleBooking'
  <2>1. \A a \in DOMAIN live : live[a].cluster = c => live[a].nodes \cap chosen = {}
    <3> SUFFICES ASSUME NEW a \in DOMAIN live, live[a].cluster = c
                 PROVE  live[a].nodes \cap chosen = {}
      OBVIOUS
    <3>1. live[a].nodes \subseteq HeldOn(c)
      BY IInvFacts DEF HeldOn, LiveAlloc
    <3> QED
      BY <1>1, <1>2, <3>1 DEF IInv, LedgerExact
  <2> QED
    BY <1>5, <2>1 DEF IInv, NoDoubleBooking
<1>8. LedgerExact'
  <2>1. \A d : d # c => HeldOn(d)' = HeldOn(d)
    BY <1>5 DEF HeldOn
  <2>2. HeldOn(c)' = HeldOn(c) \cup chosen
    BY <1>2, <1>5 DEF HeldOn
  <2>3. \A d \in DOMAIN clusters : allocated'[d] =
          IF d = c THEN allocated[d] \cup chosen ELSE allocated[d]
    BY <1>1, IInvFacts
  <2>4. \A d \in DOMAIN clusters' : allocated'[d] = HeldOn(d)'
    BY <1>1, <2>1, <2>2, <2>3 DEF IInv, LedgerExact
  <2>5. \A a \in DOMAIN live' : live'[a].cluster \in DOMAIN clusters'
    BY <1>1, <1>5 DEF IInv, LedgerExact
  <2> QED
    BY <2>4, <2>5 DEF LedgerExact
<1> QED
  BY <1>6, <1>7, <1>8 DEF IInv

\* Allocate on a satisfy-only cluster only mints an id.
LEMMA SatisfyOnlyStep ==
  ASSUME IInv, NEW c \in Clusters, AllocateSatisfyOnly(c)
  PROVE  IInv'
<1>1. /\ nextID < MaxAllocs /\ nextID' = nextID + 1
      /\ UNCHANGED <<clusters, allocated, live>>
  BY DEF AllocateSatisfyOnly
<1>2. nextID' \in 0..MaxAllocs /\ 1..nextID \subseteq 1..nextID'
  BY <1>1, IInvFacts, MaxAllocsAssumption
<1>3. TypeOK'
  BY <1>1, <1>2, WidenType DEF IInv, TypeOK
<1>4. NoDoubleBooking'
  BY <1>1 DEF IInv, NoDoubleBooking
<1>5. LedgerExact'
  BY <1>1 DEF IInv, LedgerExact, HeldOn
<1> QED
  BY <1>3, <1>4, <1>5 DEF IInv

\* Free: taking an allocation's nodes out of the ledger removes no node that
\* another allocation of the cluster holds, because they are disjoint.
LEMMA FreeStep ==
  ASSUME IInv, NEW a \in DOMAIN live, Free(a)
  PROVE  IInv'
<1>0. PICK c : c = live[a].cluster
  OBVIOUS
<1>1. /\ allocated' = [allocated EXCEPT ![c] = @ \ live[a].nodes]
      /\ live' = Drop(live, {a}) /\ nextID' = nextID /\ clusters' = clusters
  BY <1>0 DEF Free
<1>2. c \in DOMAIN clusters
  BY <1>0 DEF IInv, LedgerExact
<1>3. /\ DOMAIN live' = DOMAIN live \ {a}
      /\ \A b \in DOMAIN live' : live'[b] = live[b]
  BY <1>1 DEF Drop, Restrict
<1>4. TypeOK'
  <2>1. allocated' \in [DOMAIN clusters' -> SUBSET Nodes]
    BY <1>1, <1>2, IInvFacts
  <2> QED
    BY <1>1, <2>1, DropType DEF IInv, TypeOK
<1>5. NoDoubleBooking'
  BY <1>3 DEF IInv, NoDoubleBooking
<1>6. LedgerExact'
  <2>1. \A d : d # c => HeldOn(d)' = HeldOn(d)
    BY <1>0, <1>3 DEF HeldOn
  <2>2. \A b \in DOMAIN live : b # a /\ live[b].cluster = c
          => live[b].nodes \cap live[a].nodes = {}
    BY <1>0 DEF IInv, NoDoubleBooking
  <2>3. HeldOn(c)' = HeldOn(c) \ live[a].nodes
    BY <1>0, <1>3, <2>2 DEF HeldOn
  <2>4. \A d \in DOMAIN clusters : allocated'[d] =
          IF d = c THEN allocated[d] \ live[a].nodes ELSE allocated[d]
    BY <1>1, IInvFacts
  <2>5. \A d \in DOMAIN clusters' : allocated'[d] = HeldOn(d)'
    BY <1>1, <2>1, <2>3, <2>4 DEF IInv, LedgerExact
  <2>6. \A b \in DOMAIN live' : live'[b].cluster \in DOMAIN clusters'
    BY <1>1, <1>3 DEF IInv, LedgerExact
  <2> QED
    BY <2>5, <2>6 DEF LedgerExact
<1> QED
  BY <1>4, <1>5, <1>6 DEF IInv

\* Every step of the matcher preserves the inductive invariant.
LEMMA NextIInv == IInv /\ [Next]_vars => IInv'
<1> SUFFICES ASSUME IInv, [Next]_vars PROVE IInv'
  OBVIOUS
<1>1. ASSUME NEW c \in Clusters, NEW cg \in ClusterGraph, AddCluster(c, cg) PROVE IInv'
  BY <1>1, AddClusterStep
<1>2. ASSUME NEW c \in Clusters, RemoveCluster(c) PROVE IInv'
  BY <1>2, RemoveClusterStep
<1>3. ASSUME NEW c \in Clusters, NEW name \in Names, NEW g \in AuxGraphs,
             AddSubsystem(c, name, g)
      PROVE  IInv'
  <2>1. AttachSubsystem(clusters[c], name, g) \in ClusterGraph
    BY <1>3, AttachType, IInvFacts DEF AddSubsystem
  <2> QED
    BY <1>3, <2>1, GraphStep DEF AddSubsystem
<1>4. ASSUME NEW c \in Clusters, NEW g \in Containments,
             AddSubsystem(c, ContainmentSubsystem, g)
      PROVE  IInv'
  <2>1. AttachSubsystem(clusters[c], ContainmentSubsystem, g) \in ClusterGraph
    BY <1>4, AttachType, IInvFacts DEF AddSubsystem
  <2> QED
    BY <1>4, <2>1, GraphStep DEF AddSubsystem
<1>5. ASSUME NEW c \in Clusters, NEW name \in Names, RemoveSubsystem(c, name)
      PROVE  IInv'
  <2>1. DetachSubsystem(clusters[c], name) \in ClusterGraph
    BY <1>5, AttachType, IInvFacts DEF RemoveSubsystem
  <2> QED
    BY <1>5, <2>1, GraphStep DEF RemoveSubsystem
<1>6. ASSUME NEW c \in Clusters, AllocateSatisfyOnly(c) PROVE IInv'
  BY <1>6, SatisfyOnlyStep
<1>7. ASSUME NEW js \in Specs, NEW c \in Clusters, Allocate(js, c) PROVE IInv'
  BY <1>7, AllocateStep
<1>8. ASSUME NEW a \in DOMAIN live, Free(a) PROVE IInv'
  BY <1>8, FreeStep
<1>9. CASE UNCHANGED vars
  BY <1>9 DEF vars, IInv, TypeOK, NoDoubleBooking, LedgerExact, HeldOn
<1> QED
  BY <1>1, <1>2, <1>3, <1>4, <1>5, <1>6, <1>7, <1>8, <1>9 DEF Next

\* The matcher's state is always well typed: its maps are keyed by the
\* registered clusters and every id in use was minted (sim.go:16-28).
THEOREM TypeCorrect == Spec => []TypeOK
<1>1. IInv => TypeOK
  BY DEF IInv
<1> QED
  BY <1>1, InitIInv, NextIInv, PTL DEF Spec

\* No two live allocations share a node (Allocate, sim.go:244-269).
THEOREM NeverDoubleBooked == Spec => []NoDoubleBooking
<1>1. IInv => NoDoubleBooking
  BY DEF IInv
<1> QED
  BY <1>1, InitIInv, NextIInv, PTL DEF Spec

\* The ledger is exactly what the live allocations hold (sim.go:244-283).
THEOREM LedgerAlwaysExact == Spec => []LedgerExact
<1>1. IInv => LedgerExact
  BY DEF IInv
<1> QED
  BY <1>1, InitIInv, NextIInv, PTL DEF Spec

\* Minting an id adds exactly one, never granted before.
LEMMA MintFresh ==
  ASSUME NEW n \in Nat, NEW N \in Nat, n < N
  PROVE  /\ n + 1 \in 1..N /\ n + 1 \notin 1..n
         /\ 1..(n + 1) = (1..n) \cup {n + 1}
  OBVIOUS

\* Every matcher step is a step of Reservations or leaves it unchanged.
LEMMA NextRefines == IInv /\ [Next]_vars => [Promise!Next]_(Promise!rvars)
<1> SUFFICES ASSUME IInv, [Next]_vars PROVE Promise!Next \/ UNCHANGED Promise!rvars
  OBVIOUS
<1>1. ASSUME UNCHANGED <<live, nextID>> PROVE UNCHANGED Promise!rvars
  BY <1>1 DEF Promise!rvars
<1>2. ASSUME NEW c \in Clusters, RemoveCluster(c) PROVE Promise!Next
  <2>1. live' = Restrict(live, {a \in DOMAIN live : live[a].cluster # c})
    <3>1. DOMAIN live \ {a \in DOMAIN live : live[a].cluster = c}
            = {a \in DOMAIN live : live[a].cluster # c}
      OBVIOUS
    <3> QED
      BY <1>2, <3>1 DEF RemoveCluster, Drop
  <2>2. Promise!DropCluster(c)
    BY <1>2, <2>1 DEF RemoveCluster, Promise!DropCluster, Restrict, Promise!Restrict
  <2> QED
    BY <2>2 DEF Promise!Next
<1>3. ASSUME NEW c \in Clusters, AllocateSatisfyOnly(c) PROVE Promise!Next
  <2>1. nextID + 1 \in 1..MaxAllocs /\ nextID + 1 \notin 1..nextID
        /\ 1..nextID' = (1..nextID) \cup {nextID + 1} /\ live' = live
    BY <1>3, MintFresh, IInvFacts, MaxAllocsAssumption DEF AllocateSatisfyOnly
  <2>2. Promise!GrantNothing(nextID + 1)
    BY <2>1 DEF Promise!GrantNothing
  <2> QED
    BY <2>1, <2>2 DEF Promise!Next
<1>4. ASSUME NEW js \in Specs, NEW c \in Clusters, Allocate(js, c) PROVE Promise!Next
  <2> DEFINE chosen == FirstNodes(FittingNodes(clusters[c], js, allocated[c]), js.nodes)
             new == [cluster |-> c, nodes |-> chosen]
  <2>1. nextID + 1 \in 1..MaxAllocs /\ nextID + 1 \notin 1..nextID
        /\ 1..nextID' = (1..nextID) \cup {nextID + 1}
    BY <1>4, MintFresh, IInvFacts, MaxAllocsAssumption DEF Allocate
  <2>2. c \in DOMAIN clusters /\ live' = Put(live, nextID + 1, new)
    BY <1>4 DEF Allocate
  <2>3. chosen \subseteq Nodes /\ chosen \cap allocated[c] = {}
    BY <2>2, ChosenAreFree, IInvFacts
  <2> HIDE DEF chosen
  <2>4. \A b \in DOMAIN live : live[b].cluster = c => live[b].nodes \cap chosen = {}
    <3> SUFFICES ASSUME NEW b \in DOMAIN live, live[b].cluster = c
                 PROVE  live[b].nodes \cap chosen = {}
      OBVIOUS
    <3>1. live[b].nodes \subseteq HeldOn(c)
      BY IInvFacts DEF HeldOn, LiveAlloc
    <3> QED
      BY <2>2, <2>3, <3>1 DEF IInv, LedgerExact
  <2>5. new \in Promise!Holding
    BY <2>3 DEF Promise!Holding
  <2>6. Promise!Grant(nextID + 1, new)
    BY <2>1, <2>2, <2>4 DEF Promise!Grant, Put
  <2> QED
    BY <2>1, <2>5, <2>6 DEF Promise!Next
<1>5. ASSUME NEW a \in DOMAIN live, Free(a) PROVE Promise!Next
  <2>1. Promise!Release(a)
    BY <1>5 DEF Free, Drop, Restrict, Promise!Release, Promise!Restrict
  <2> QED
    BY <2>1 DEF Promise!Next
<1>6. ASSUME Next PROVE Promise!Next \/ UNCHANGED <<live, nextID>>
  BY <1>2, <1>3, <1>4, <1>5, <1>6
     DEF Next, AddCluster, AddSubsystem, RemoveSubsystem
<1> QED
  BY <1>1, <1>6 DEF vars

\* The matcher implements the reservation promise (matcher.go:25-69).
THEOREM SimImplementsReservations == Spec => ImplementsReservations
<1>1. Init => Promise!Init
  BY DEF Init, Promise!Init
<1> QED
  BY <1>1, InitIInv, NextIInv, NextRefines, PTL
     DEF Spec, ImplementsReservations, Promise!Spec

-----------------------------------------------------------------------------

OrderOK == Lists(order, DOMAIN clusters)

LEMMA NextOrder == ASSUME OrderOK, [Next]_vars PROVE OrderOK'
<1>1. ASSUME NEW c \in Clusters, NEW cg \in ClusterGraph, AddCluster(c, cg) PROVE OrderOK'
  <2>1. DOMAIN clusters' = DOMAIN clusters \cup {c}
    BY <1>1 DEF AddCluster, Put
  <2>2. CASE c \in DOMAIN clusters
    <3>1. DOMAIN clusters' = DOMAIN clusters /\ order' = order
      BY <1>1, <2>1, <2>2 DEF AddCluster
    <3> QED
      BY <3>1 DEF OrderOK
  <2>3. CASE c \notin DOMAIN clusters
    <3>1. order' = Append(order, c)
      BY <1>1, <2>3 DEF AddCluster
    <3>2. Lists(Append(order, c), DOMAIN clusters \cup {c})
      BY <2>3, ListsAppend DEF OrderOK
    <3> QED
      BY <2>1, <3>1, <3>2 DEF OrderOK
  <2> QED
    BY <2>2, <2>3
<1>2. ASSUME NEW c \in Clusters, RemoveCluster(c) PROVE OrderOK'
  <2>1. DOMAIN clusters' = DOMAIN clusters \ {c} /\ order' = RemoveFirst(order, c)
    BY <1>2 DEF RemoveCluster, Drop, Restrict
  <2>2. CASE c \in DOMAIN clusters
    <3>1. Lists(RemoveFirst(order, c), DOMAIN clusters \ {c})
      BY <2>2, ListsRemove DEF OrderOK
    <3> QED
      BY <2>1, <3>1 DEF OrderOK
  <2>3. CASE c \notin DOMAIN clusters
    <3>1. RemoveFirst(order, c) = order /\ DOMAIN clusters \ {c} = DOMAIN clusters
      BY <2>3, ListsOthers DEF OrderOK
    <3> QED
      BY <2>1, <3>1 DEF OrderOK
  <2> QED
    BY <2>2, <2>3
<1>3. ASSUME UNCHANGED order, DOMAIN clusters' = DOMAIN clusters PROVE OrderOK'
  BY <1>3 DEF OrderOK
<1>4. ASSUME NEW c, NEW name, NEW g, AddSubsystem(c, name, g) PROVE OrderOK'
  BY <1>3, <1>4 DEF AddSubsystem
<1>5. ASSUME NEW c, NEW name, RemoveSubsystem(c, name) PROVE OrderOK'
  BY <1>3, <1>5 DEF RemoveSubsystem
<1>6. ASSUME UNCHANGED <<clusters, order>> PROVE OrderOK'
  BY <1>3, <1>6
<1> QED
  BY <1>1, <1>2, <1>4, <1>5, <1>6 DEF Next, AllocateSatisfyOnly, Allocate, Free, vars

\* Evaluate visits every registered cluster once, whatever was registered and
\* removed in what order (sim.go:40-68, 213-240).
THEOREM EachVisitedOnce == Spec => []OneCandidatePerCluster
<1>1. Init => OrderOK
  BY ListsEmpty DEF Init, OrderOK
<1>2. OrderOK => OneCandidatePerCluster
  BY ListsAll, ListsCount DEF OrderOK, OneCandidatePerCluster
<1> QED
  BY <1>1, <1>2, NextOrder, PTL DEF Spec

-----------------------------------------------------------------------------

\* How many members of S come before x numbers S from 0.
LEMMA RankInjective ==
  ASSUME NEW S \in SUBSET Nat, IsFiniteSet(S),
         NEW rank, rank = [x \in S |-> Cardinality({m \in S : m < x})]
  PROVE  rank \in Injection(S, 0..Cardinality(S) - 1)
<1> DEFINE Below(x) == {m \in S : m < x}
<1>1. Cardinality(S) \in Nat
  BY FS_CardinalityType
<1>2. ASSUME NEW x \in S
      PROVE  IsFiniteSet(Below(x)) /\ rank[x] = Cardinality(Below(x)) /\ rank[x] \in Nat
  <2>1. Below(x) \in SUBSET S
    OBVIOUS
  <2>2. IsFiniteSet(Below(x))
    BY <2>1, FS_Subset
  <2> QED
    BY <2>2, FS_CardinalityType
<1>3. ASSUME NEW x \in S PROVE rank[x] \in 0..Cardinality(S) - 1
  <2>1. IsFiniteSet(S \ {x}) /\ Cardinality(S \ {x}) = Cardinality(S) - 1
    BY FS_RemoveElement
  <2>2. Below(x) \in SUBSET (S \ {x})
    OBVIOUS
  <2>3. Cardinality(Below(x)) <= Cardinality(S \ {x})
    BY <2>1, <2>2, FS_Subset
  <2> HIDE DEF Below
  <2> QED
    BY <1>1, <1>2, <2>1, <2>3
<1>4. ASSUME NEW x \in S, NEW y \in S, x < y PROVE rank[x] < rank[y]
  <2>1. x \notin Below(x)
    OBVIOUS
  <2>2. Below(x) \cup {x} \in SUBSET Below(y)
    <3>1. x \in Nat /\ y \in Nat /\ S \subseteq Nat
      OBVIOUS
    <3>2. \A m \in Nat : m < x => m < y
      BY <1>4, <3>1
    <3> QED
      BY <1>4, <3>1, <3>2
  <2>3. Cardinality(Below(x) \cup {x}) = Cardinality(Below(x)) + 1
    BY <1>2, <2>1, FS_AddElement
  <2>4. Cardinality(Below(x) \cup {x}) <= Cardinality(Below(y))
    BY <1>2, <2>2, FS_Subset
  <2> HIDE DEF Below
  <2> QED
    BY <1>2, <2>3, <2>4
<1>5. rank \in [S -> 0..Cardinality(S) - 1]
  BY <1>3
<1>6. ASSUME NEW x \in S, NEW y \in S, rank[x] = rank[y] PROVE x = y
  <2>1. x \in Nat /\ y \in Nat /\ rank[x] \in Nat /\ rank[y] \in Nat
    BY <1>2
  <2>2. ~(x < y) /\ ~(y < x)
    BY <1>4, <1>6, <2>1
  <2> QED
    BY <2>1, <2>2
<1> QED
  BY <1>5, <1>6 DEF Injection, IsInjective

\* free[:k] of at least k nodes is k nodes (sim.go:262-266).
LEMMA FirstNodesCount ==
  ASSUME NEW S \in SUBSET Nat, IsFiniteSet(S), NEW k \in Nat, k <= Cardinality(S)
  PROVE  Cardinality(FirstNodes(S, k)) = k
<1> DEFINE F == FirstNodes(S, k)
<1>1. PICK rank : rank = [x \in S |-> Cardinality({m \in S : m < x})]
  OBVIOUS
<1>2. Cardinality(S) \in Nat
  BY FS_CardinalityType
<1>3. IsFiniteSet(0..Cardinality(S) - 1) /\ Cardinality(0..Cardinality(S) - 1) = Cardinality(S)
  <2>1. PICK n \in Nat : n = Cardinality(S)
    BY <1>2
  <2>2. n - 1 \in Int
    BY <2>1
  <2>3. /\ IsFiniteSet(0..(n - 1))
        /\ Cardinality(0..(n - 1)) = IF 0 > n - 1 THEN 0 ELSE (n - 1) - 0 + 1
    BY <2>2, FS_Interval
  <2>4. (IF 0 > n - 1 THEN 0 ELSE (n - 1) - 0 + 1) = n
    BY <2>1
  <2> QED
    BY <2>1, <2>3, <2>4
<1>4. rank \in Injection(S, 0..Cardinality(S) - 1)
  BY <1>1, RankInjective
<1>5. rank \in Surjection(S, 0..Cardinality(S) - 1)
  BY <1>3, <1>4, FS_Injection
<1>6. F = {x \in S : rank[x] < k}
  BY <1>1 DEF FirstNodes
<1>7. IsFiniteSet(F)
  BY <1>6, FS_Subset
<1> HIDE DEF F
<1> DEFINE first == [x \in F |-> rank[x]]
<1>8. first \in Bijection(F, 0..k - 1)
  <2>1. \A x \in F : x \in S /\ rank[x] \in 0..k - 1
    BY <1>2, <1>4, <1>6 DEF Injection
  <2>2. \A v \in 0..k - 1 : \E x \in F : rank[x] = v
    <3> SUFFICES ASSUME NEW v \in 0..k - 1 PROVE \E x \in F : rank[x] = v
      OBVIOUS
    <3>1. v \in 0..Cardinality(S) - 1 /\ v < k
      BY <1>2
    <3>2. PICK x \in S : rank[x] = v
      BY <1>5, <3>1 DEF Surjection
    <3> QED
      BY <1>6, <3>1, <3>2
  <2>3. \A x, y \in F : rank[x] = rank[y] => x = y
    BY <1>4, <2>1 DEF Injection, IsInjective
  <2> QED
    BY <2>1, <2>2, <2>3 DEF Bijection, Injection, Surjection, IsInjective
<1>9. Cardinality(0..k - 1) = Cardinality(F)
  BY <1>7, <1>8, FS_Bijection DEF ExistsBijection
<1>10. Cardinality(0..k - 1) = k
  BY FS_Interval
<1> QED
  BY <1>9, <1>10 DEF F

\* What Evaluate reports as free now, Allocate finds: as many free fitting nodes
\* as the job asks for, none of which anybody holds (sim.go:213-269).
THEOREM FreeNowIsKept == Spec => []FreeNowMeansRoom
<1>1. ASSUME IInv, OrderOK PROVE FreeNowMeansRoom
  <2> SUFFICES ASSUME NEW js \in Specs, NEW i \in DOMAIN Evaluate(js),
                      NEW c, c = order[i], Candidate(c, js).freeNow,
                      NEW free, free = FittingNodes(clusters[c], js, allocated[c])
               PROVE  /\ Cardinality(FirstNodes(free, js.nodes)) = js.nodes
                      /\ FirstNodes(free, js.nodes) \cap HeldOn(c) = {}
    BY DEF FreeNowMeansRoom, Evaluate, Candidate
  <2>1. i \in 1..Len(order) /\ c \in DOMAIN clusters
    BY <1>1 DEF Evaluate, OrderOK, Lists
  <2>2. clusters[c] \in ClusterGraph /\ allocated[c] = HeldOn(c)
    BY <1>1, <2>1, IInvFacts DEF IInv, LedgerExact
  <2>3. free \in SUBSET Nat /\ IsFiniteSet(free)
    <3>1. /\ clusters[c].containment \in Containments
          /\ free \subseteq DOMAIN clusters[c].containment
      BY <2>2 DEF FittingNodes, ClusterGraph
    <3> QED
      BY <3>1, ContainmentsAssumption, FS_Subset
  <2>4. js.nodes \in Nat /\ js.nodes <= Cardinality(free)
    <3>1. Cardinality(free) >= js.nodes
      BY DEF Candidate
    <3>2. js.nodes \in Nat /\ Cardinality(free) \in Nat
      BY <2>3, SpecsAssumption, FS_CardinalityType
    <3> QED
      BY <3>1, <3>2
  <2>5. Cardinality(FirstNodes(free, js.nodes)) = js.nodes
    BY <2>3, <2>4, FirstNodesCount
  <2>6. FirstNodes(free, js.nodes) \cap HeldOn(c) = {}
    BY <2>2 DEF FirstNodes, FittingNodes
  <2> QED
    BY <2>5, <2>6
<1>2. Init => OrderOK
  BY ListsEmpty DEF Init, OrderOK
<1> QED
  BY <1>1, <1>2, InitIInv, NextIInv, NextOrder, PTL DEF Spec

=============================================================================
