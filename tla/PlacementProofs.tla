-------------------------- MODULE PlacementProofs --------------------------
(***************************************************************************)
(* Proofs about a placement and what becomes of it (Placement, Artifacts),  *)
(* for any fleet and job and any walks over their trees that keep the       *)
(* assumptions of the two modules.  The inductive invariant says what each  *)
(* phase of the pass knows; most of the work is in the repacking and in     *)
(* the comparison of scores.                                                *)
(***************************************************************************)
EXTENDS Artifacts, FiniteSetTheorems, SequenceTheorems, WellFoundedInduction, TLAPS

-----------------------------------------------------------------------------
(* Numbers *)

LEMMA ExactDivision ==
  ASSUME NEW t \in Nat \ {0}, NEW n \in Nat \ {0}, t % n = 0
  PROVE  t \div n \in Nat \ {0} /\ n * (t \div n) = t /\ n <= t
OBVIOUS

LEMMA MinOf ==
  ASSUME NEW S, S \subseteq Nat, S # {}
  PROVE  Min(S) \in S /\ \A y \in S : Min(S) <= y
<1>1. PICK x \in S : \A y \in S : ~ <<y, x>> \in OpToRel(<, Nat)
  BY WFMin, NatLessThanWellFounded
<1>2. \A y \in S : x <= y
  <2> TAKE y \in S
  <2>1. ~(y < x)
    BY <1>1 DEF OpToRel
  <2> QED
    BY <2>1
<1> QED
  BY <1>2 DEF Min

LEMMA MinOfTwo ==
  ASSUME NEW a \in Nat, NEW b \in Nat
  PROVE  Min({a, b}) = IF a <= b THEN a ELSE b
<1>1. Min({a, b}) \in {a, b} /\ \A y \in {a, b} : Min({a, b}) <= y
  BY MinOf
<1> QED
  BY <1>1

LEMMA SurplusType ==
  ASSUME NEW cand, NEW js, cand.freeNodes \in Nat, Ask(js.resources) \in Asks
  PROVE  Surplus(cand, js) \in Nat
<1> DEFINE d == cand.freeNodes - Ask(js.resources).nodes
<1>1. d \in Int
  BY PlacementAssumption DEF Asks
<1>2. \E x \in {0, d} : \A y \in {0, d} : x >= y
  BY <1>1
<1>3. Surplus(cand, js) \in {0, d} /\ \A y \in {0, d} : Surplus(cand, js) >= y
  BY <1>2 DEF Surplus, Max
<1> QED
  BY <1>1, <1>3

\* Of two clusters with room for the job that match as much of it, the one that
\* is not beaten by the other has no more nodes to spare.
LEMMA ScoresOrder ==
  ASSUME NEW a, NEW b, NEW js, NEW m \in Nat, a.matched = m, b.matched = m,
         a.freeNow, b.freeNow, a.freeNodes \in Nat, b.freeNodes \in Nat,
         Ask(js.resources) \in Asks, ~Scores(b, a, js)
  PROVE  Surplus(a, js) <= Surplus(b, js)
<1> DEFINE x == 1 + Surplus(a, js)
           y == 1 + Surplus(b, js)
<1>1. Surplus(a, js) \in Nat /\ Surplus(b, js) \in Nat
  BY SurplusType
<1>2. x \in Nat \ {0} /\ y \in Nat \ {0}
  BY <1>1
<1>3. (2 * x) \div 2 = x /\ (2 * y) \div 2 = y
  BY <1>2
<1>4. /\ Score(a, js) = [num |-> 10 * m * (2 * x) + 2 + x, den |-> 2 * x]
      /\ Score(b, js) = [num |-> 10 * m * (2 * y) + 2 + y, den |-> 2 * y]
  BY <1>3 DEF Score
<1> HIDE DEF x, y
<1>5. (10 * m * (2 * y) + 2 + y) * (2 * x) <= (10 * m * (2 * x) + 2 + x) * (2 * y)
  <2>1. (10 * m * (2 * y) + 2 + y) * (2 * x) \in Int /\ (10 * m * (2 * x) + 2 + x) * (2 * y) \in Int
    BY <1>2
  <2>2. ~((10 * m * (2 * y) + 2 + y) * (2 * x) > (10 * m * (2 * x) + 2 + x) * (2 * y))
    BY <1>4 DEF Scores
  <2> QED
    BY <2>1, <2>2
<1>6. x <= y
  BY <1>2, <1>5
<1> QED
  BY <1>1, <1>6 DEF x, y

-----------------------------------------------------------------------------
(* The inductive invariant *)

\* The fleet is one of Fleets, but for which nodes are busy.
FleetKept ==
  \E f \in Fleets :
    /\ DOMAIN fleet = DOMAIN f
    /\ \A c \in DOMAIN f :
         /\ DOMAIN fleet[c] = DOMAIN f[c]
         /\ \A field \in DOMAIN f[c] \ {"busy"} : fleet[c][field] = f[c][field]

\* The cores asked for in all.
Cores(js) == Ask(js.resources).nodes * OrOne(Ask(js.resources).cores)

\* The job is the one submitted, but for its resources, which come to as much.
JobKept ==
  /\ origin \in Requests
  /\ DOMAIN job = DOMAIN origin
  /\ \A field \in DOMAIN origin \ {"resources"} : job[field] = origin[field]
  /\ Ask(job.resources) \in Asks
  /\ Cores(job) = Cores(origin)
  /\ Ask(origin.resources).cores > 0 => Ask(job.resources).cores > 0

Phases == {"submitted", "feasible", "infeasible", "ranked", "placed", "failed"}

\* What was found out about the clusters still holds: nodes become busy only
\* with the placement.
FoundKept ==
  /\ phase \in Phases
  /\ phase \in {"submitted", "failed"} => cands = <<>>
  /\ phase \in {"feasible", "infeasible", "ranked"} => cands = Evaluated(job)
  /\ phase # "placed" => placed = None

\* Those left to try can take the job some day, are in order of their scores,
\* and no cluster with room was passed over.
RankedKept ==
  phase = "ranked" =>
    /\ ranked \in Seq(DOMAIN fleet)
    /\ \A i \in 1..Len(ranked) : cands[ranked[i]].feasible
    /\ \A c \in DOMAIN fleet : cands[c].freeNow /\ fleet[c].dispatchable =>
         \E i \in 1..Len(ranked) : ranked[i] = c
    /\ scorer = "default" =>
         \A i, j \in 1..Len(ranked) : i < j => ~Scores(cands[ranked[j]], cands[ranked[i]], job)

\* The cluster chosen has a node for the job and what it requires.
PlacedKept ==
  phase = "placed" =>
    /\ placed \in DOMAIN fleet
    /\ FittingNodes(fleet[placed], job) # {}
    /\ Matched(fleet[placed], job) = DOMAIN job.requires
    /\ scorer = "default" =>
         \A c \in DOMAIN cands : cands[c].freeNow /\ fleet[c].dispatchable =>
           Surplus(cands[placed], job) <= Surplus(cands[c], job)

\* The artifact is of the job and the cluster it was placed on, and an attempt
\* goes wrong only for the two reasons of StubContract.
ArtifactKept ==
  /\ outcome \in Outcomes \cup {None}
  /\ artifact # None => phase = "placed" /\ artifact = StubTransform(job, fleet[placed])
  /\ artifact # None /\ outcome \in {"repairable", "wrongTarget", "failsAtOnce"} =>
       job.words \cap Forbidden # {}
  /\ artifact # None /\ outcome = "hardFail" =>
       job.words \cap Forbidden # {} \/ fleet[placed].manager = "slurm_operator"

IInv ==
  /\ FleetKept /\ JobKept /\ FoundKept /\ RankedKept /\ PlacedKept
  /\ RepackComplete /\ ArtifactKept

-----------------------------------------------------------------------------
(* What the invariant says of clusters and jobs *)

LEMMA ClusterFacts ==
  ASSUME FleetKept
  PROVE  /\ IsFiniteSet(DOMAIN fleet) /\ DOMAIN fleet \subseteq Nat
         /\ \A c \in DOMAIN fleet :
              /\ {"nodes", "subs", "dispatchable", "busy"} \subseteq DOMAIN fleet[c]
              /\ IsFiniteSet(DOMAIN fleet[c].nodes) /\ DOMAIN fleet[c].nodes \subseteq Nat
              /\ \A n \in DOMAIN fleet[c].nodes :
                   Capacity(fleet[c].nodes[n]) \in [cores : Nat, gpus : Nat, mem : Nat]
<1>1. PICK f \in Fleets :
        /\ DOMAIN fleet = DOMAIN f
        /\ \A c \in DOMAIN f :
             /\ DOMAIN fleet[c] = DOMAIN f[c]
             /\ \A field \in DOMAIN f[c] \ {"busy"} : fleet[c][field] = f[c][field]
  BY DEF FleetKept
<1>2. ASSUME NEW S, NEW s \in Seq(S)
      PROVE  IsFiniteSet(DOMAIN s) /\ DOMAIN s \subseteq Nat
  <2>1. Len(s) \in Nat /\ DOMAIN s = 1..Len(s)
    BY <1>2
  <2> QED
    BY <2>1, FS_Interval
<1>3. f \in Seq(ToSet(f))
  BY FleetsAssumption
<1>4. IsFiniteSet(DOMAIN fleet) /\ DOMAIN fleet \subseteq Nat
  BY <1>1, <1>2, <1>3
<1>5. ASSUME NEW c \in DOMAIN fleet
      PROVE  /\ {"nodes", "subs", "dispatchable", "busy"} \subseteq DOMAIN fleet[c]
             /\ IsFiniteSet(DOMAIN fleet[c].nodes) /\ DOMAIN fleet[c].nodes \subseteq Nat
             /\ \A n \in DOMAIN fleet[c].nodes :
                  Capacity(fleet[c].nodes[n]) \in [cores : Nat, gpus : Nat, mem : Nat]
  <2>1. /\ {"nodes", "subs", "dispatchable", "busy"} \subseteq DOMAIN f[c]
        /\ f[c].nodes \in Seq(ToSet(f[c].nodes))
        /\ \A n \in DOMAIN f[c].nodes :
             Capacity(f[c].nodes[n]) \in [cores : Nat, gpus : Nat, mem : Nat]
    BY <1>1, <1>5, FleetsAssumption
  <2>2. fleet[c].nodes = f[c].nodes /\ DOMAIN fleet[c] = DOMAIN f[c]
    BY <1>1, <1>5, <2>1
  <2>3. IsFiniteSet(DOMAIN f[c].nodes) /\ DOMAIN f[c].nodes \subseteq Nat
    BY <1>2, <2>1
  <2> QED
    BY <2>1, <2>2, <2>3
<1> QED
  BY <1>4, <1>5

LEMMA JobFacts ==
  ASSUME JobKept
  PROVE  /\ {"resources", "requires", "total", "perSlot"} \subseteq DOMAIN job
         /\ job.requires = origin.requires /\ job.total = origin.total
         /\ IsFiniteSet(DOMAIN job.requires)
         /\ Ask(job.resources) \in Asks /\ Ask(origin.resources) \in Asks
         /\ Cores(job) = Cores(origin)
         /\ Ask(origin.resources).cores > 0 => Ask(job.resources).cores > 0
<1>1. /\ {"resources", "requires", "total", "perSlot"} \subseteq DOMAIN origin
      /\ IsFiniteSet(DOMAIN origin.requires) /\ Ask(origin.resources) \in Asks
  BY RequestsAssumption DEF JobKept
<1>2. job.requires = origin.requires /\ job.total = origin.total
  BY <1>1 DEF JobKept
<1> QED
  BY <1>1, <1>2 DEF JobKept

LEMMA AskFacts ==
  ASSUME NEW ask \in Asks
  PROVE  /\ ask.nodes \in Nat \ {0} /\ ask.cores \in Nat /\ ask.gpus \in Nat /\ ask.mem \in Nat
         /\ OrOne(ask.cores) \in Nat \ {0} /\ ask.cores <= OrOne(ask.cores)
         /\ ask.nodes * OrOne(ask.cores) \in Nat \ {0}
<1>1. ask.nodes \in Nat \ {0} /\ ask.cores \in Nat /\ ask.gpus \in Nat /\ ask.mem \in Nat
  BY PlacementAssumption DEF Asks
<1>2. OrOne(ask.cores) \in Nat \ {0} /\ ask.cores <= OrOne(ask.cores)
  BY <1>1 DEF OrOne
<1>3. \A m, n \in Nat \ {0} : m * n \in Nat \ {0}
  OBVIOUS
<1> QED
  BY <1>1, <1>2, <1>3

\* The nodes that fit are some of the cluster's, and so are the free ones.
LEMMA FittingFinite ==
  ASSUME FleetKept, NEW c \in DOMAIN fleet, NEW js
  PROVE  /\ IsFiniteSet(FittingNodes(fleet[c], js))
         /\ Cardinality(FittingNodes(fleet[c], js)) \in Nat
         /\ \A busy : /\ IsFiniteSet(FittingNodes(fleet[c], js) \ busy)
                      /\ Cardinality(FittingNodes(fleet[c], js) \ busy) \in Nat
<1>1. IsFiniteSet(DOMAIN fleet[c].nodes)
  BY ClusterFacts
<1>2. FittingNodes(fleet[c], js) \subseteq DOMAIN fleet[c].nodes
  BY DEF FittingNodes
<1> QED
  BY <1>1, <1>2, FS_Subset, FS_CardinalityType

LEMMA CandidateFacts ==
  ASSUME FleetKept, NEW c \in DOMAIN fleet, NEW js, IsFiniteSet(DOMAIN js.requires)
  PROVE  LET cand == Candidate(fleet[c], js)
         IN /\ cand.freeNodes \in Nat
            /\ cand.feasible \in BOOLEAN /\ cand.freeNow \in BOOLEAN
            /\ cand.freeNow <=> cand.feasible /\
                 Cardinality(FittingNodes(fleet[c], js) \ fleet[c].busy) >= Ask(js.resources).nodes
            /\ cand.feasible <=> /\ Matched(fleet[c], js) = DOMAIN js.requires
                                 /\ Cardinality(FittingNodes(fleet[c], js)) >= Ask(js.resources).nodes
            /\ cand.feasible => cand.matched = Cardinality(DOMAIN js.requires)
            /\ Cardinality(DOMAIN js.requires) \in Nat
<1>1. Cardinality(FittingNodes(fleet[c], js) \ fleet[c].busy) \in Nat
  BY FittingFinite
<1>2. Cardinality(DOMAIN js.requires) \in Nat
  BY FS_CardinalityType
<1> QED
  BY <1>1, <1>2 DEF Candidate

-----------------------------------------------------------------------------
(* Repacking *)

\* What Splits allows divides the cores evenly, on nodes the cluster has, and
\* nothing else does.
LEMMA SplitsFacts ==
  ASSUME NEW total \in Nat \ {0}, NEW shape, shape.cores \in Nat, NEW count \in Nat
  PROVE  /\ Splits(total, shape, count) \subseteq Nat
         /\ \A n \in Splits(total, shape, count) :
              /\ n \in Nat \ {0} /\ n <= count /\ n <= total
              /\ total \div n \in Nat \ {0} /\ n * (total \div n) = total
              /\ total \div n <= shape.cores
         /\ \A n \in Nat \ {0} : n <= count /\ total % n = 0 /\ shape.cores * n >= total
                                   => n \in Splits(total, shape, count)
<1>1. Min({count, total}) = IF count <= total THEN count ELSE total
  BY MinOfTwo
<1>2. \A n \in Splits(total, shape, count) :
         /\ n \in Nat \ {0} /\ n <= count /\ n <= total /\ total % n = 0
         /\ total \div n <= shape.cores
  BY <1>1 DEF Splits
<1>3. ASSUME NEW n \in Nat \ {0}, n <= count, total % n = 0, shape.cores * n >= total
      PROVE  n \in Splits(total, shape, count)
  <2>1. total \div n \in Nat \ {0} /\ n * (total \div n) = total /\ n <= total
    BY <1>3, ExactDivision
  <2>2. total \div n <= shape.cores
    <3>1. SUFFICES ASSUME total \div n > shape.cores PROVE FALSE
      BY <2>1
    <3>2. \A q, k \in Nat : q > k => n * q > k * n
      BY <1>3
    <3> QED
      BY <1>3, <2>1, <3>1, <3>2
  <2>3. n \in 1..Min({count, total})
    BY <1>1, <1>3, <2>1
  <2> QED
    BY <1>3, <2>2, <2>3 DEF Splits
<1>4. \A n \in Splits(total, shape, count) :
        total \div n \in Nat \ {0} /\ n * (total \div n) = total
  BY <1>2, ExactDivision
<1> QED
  BY <1>2, <1>3, <1>4

LEMMA ShapeFinite ==
  ASSUME FleetKept, NEW c \in DOMAIN fleet, NEW n \in DOMAIN fleet[c].nodes
  PROVE  Cardinality(ShapeOf(fleet[c], n)) \in Nat /\ IsFiniteSet(ShapeOf(fleet[c], n))
<1>1. ShapeOf(fleet[c], n) \subseteq DOMAIN fleet[c].nodes
  BY DEF ShapeOf
<1> QED
  BY <1>1, ClusterFacts, FS_Subset, FS_CardinalityType

\* The repacked job asks for as many cores in all, of nodes of that shape, as
\* many as the cluster has.
LEMMA RepackedAsk ==
  ASSUME FleetKept, NEW c \in DOMAIN fleet, NEW js, "resources" \in DOMAIN js,
         Ask(js.resources) \in Asks, NEW n \in Repackable(fleet[c], js)
  PROVE  LET to == Repacked(fleet[c], n, js)
             ask == Ask(to.resources)
             shape == Capacity(fleet[c].nodes[n])
         IN /\ DOMAIN to = DOMAIN js
            /\ \A field \in DOMAIN js \ {"resources"} : to[field] = js[field]
            /\ ask \in Asks /\ Cores(to) = Cores(js) /\ ask.cores > 0
            /\ ask.nodes <= Cardinality(ShapeOf(fleet[c], n))
            /\ ask.cores <= shape.cores /\ ask.gpus <= shape.gpus /\ ask.mem <= shape.mem
            /\ n \in DOMAIN fleet[c].nodes
<1> DEFINE ask == Ask(js.resources)
           total == ask.nodes * OrOne(ask.cores)
           shape == Capacity(fleet[c].nodes[n])
           splits == SplitsOver(fleet[c], n, js)
           nodes == Min(splits)
           to == Repacked(fleet[c], n, js)
           new == [nodes |-> nodes, cores |-> total \div nodes, gpus |-> ask.gpus, mem |-> ask.mem]
<1>1. n \in DOMAIN fleet[c].nodes /\ splits # {}
  BY DEF Repackable
<1>2. shape \in [cores : Nat, gpus : Nat, mem : Nat]
  BY <1>1, ClusterFacts
<1>3. /\ ask.nodes \in Nat \ {0} /\ ask.gpus \in Nat /\ ask.mem \in Nat
      /\ total \in Nat \ {0} /\ total <= MaxCount
  BY AskFacts DEF Asks
<1>4. /\ shape.gpus >= ask.gpus /\ shape.mem >= ask.mem
      /\ splits = Splits(total, shape, Cardinality(ShapeOf(fleet[c], n)))
  BY <1>1 DEF SplitsOver
<1>5. Cardinality(ShapeOf(fleet[c], n)) \in Nat
  BY <1>1, ShapeFinite
<1> HIDE DEF total, shape
<1>6. /\ splits \subseteq Nat
      /\ \A k \in splits :
           /\ k \in Nat \ {0} /\ k <= Cardinality(ShapeOf(fleet[c], n)) /\ k <= total
           /\ total \div k \in Nat \ {0} /\ k * (total \div k) = total
           /\ total \div k <= shape.cores
  BY <1>2, <1>3, <1>4, <1>5, SplitsFacts
<1>7. nodes \in splits
  BY <1>1, <1>6, MinOf
<1>8. to = [js EXCEPT !.resources = Containment(nodes, total \div nodes, ask.gpus, ask.mem)]
  BY DEF Repacked, total
<1> HIDE DEF splits, nodes, to, ask
<1>9. /\ nodes \in Nat \ {0} /\ total \div nodes \in Nat \ {0}
      /\ nodes * (total \div nodes) = total
      /\ nodes <= total /\ total \div nodes <= shape.cores
      /\ nodes <= Cardinality(ShapeOf(fleet[c], n))
  BY <1>6, <1>7
<1>10. total \div nodes <= total
  <2>1. \A p, q \in Nat \ {0} : q <= p * q
    OBVIOUS
  <2> QED
    BY <1>9, <2>1
<1>11. new \in Asks /\ new.cores > 0
  <2>1. OrOne(total \div nodes) = total \div nodes
    BY <1>9 DEF OrOne
  <2>2. ask.gpus \in 0..MaxCount /\ ask.mem \in 0..MaxCount
    BY DEF Asks, ask
  <2>3. nodes \in 1..MaxCount /\ total \div nodes \in 0..MaxCount
    BY <1>3, <1>9, <1>10, PlacementAssumption
  <2> QED
    BY <1>3, <1>9, <2>1, <2>2, <2>3 DEF Asks
<1>12. Ask(to.resources) = new
  <2>1. to.resources = Containment(new.nodes, new.cores, new.gpus, new.mem)
    BY <1>8
  <2> QED
    BY <1>11, <2>1, ContainmentAssumption
<1>13. Cores(to) = Cores(js)
  <2>1. OrOne(total \div nodes) = total \div nodes
    BY <1>9 DEF OrOne
  <2> QED
    BY <1>9, <1>12, <2>1 DEF Cores, total, ask
<1>14. /\ DOMAIN to = DOMAIN js
       /\ \A field \in DOMAIN js \ {"resources"} : to[field] = js[field]
  BY <1>8
<1> QED
  BY <1>1, <1>4, <1>9, <1>11, <1>12, <1>13, <1>14 DEF shape, to

LEMMA HelpfulFacts ==
  ASSUME FleetKept, NEW js, Helpful(js) # {}
  PROVE  LET c == Min(Helpful(js))
             n == Min(Repackable(fleet[c], js))
         IN /\ c \in DOMAIN fleet /\ n \in Nat /\ n \in Repackable(fleet[c], js)
            /\ Proposal(js) = Repacked(fleet[c], n, js)
<1> DEFINE c == Min(Helpful(js))
<1>1. Helpful(js) \subseteq Nat
  BY ClusterFacts DEF Helpful
<1>2. c \in Helpful(js)
  BY <1>1, MinOf
<1>3. c \in DOMAIN fleet /\ Repackable(fleet[c], js) # {}
  BY <1>2 DEF Helpful
<1>4. Repackable(fleet[c], js) \subseteq Nat
  BY <1>3, ClusterFacts DEF Repackable
<1>5. Min(Repackable(fleet[c], js)) \in Repackable(fleet[c], js)
  BY <1>3, <1>4, MinOf
<1> QED
  BY <1>3, <1>4, <1>5 DEF Proposal

\* What a job without requirements is repacked for, takes it.
LEMMA RepackedFeasible ==
  ASSUME FleetKept, NEW c \in DOMAIN fleet, NEW js, {"resources", "requires"} \subseteq DOMAIN js,
         Ask(js.resources) \in Asks, DOMAIN js.requires = {},
         NEW n \in Repackable(fleet[c], js)
  PROVE  AnyFeasible(Repacked(fleet[c], n, js))
<1> DEFINE to == Repacked(fleet[c], n, js)
           ask == Ask(to.resources)
<1>1. /\ to.requires = js.requires /\ ask \in Asks
      /\ ask.nodes <= Cardinality(ShapeOf(fleet[c], n))
      /\ n \in DOMAIN fleet[c].nodes
      /\ LET shape == Capacity(fleet[c].nodes[n])
         IN ask.cores <= shape.cores /\ ask.gpus <= shape.gpus /\ ask.mem <= shape.mem
  BY RepackedAsk
<1> HIDE DEF to
<1>2. ShapeOf(fleet[c], n) \subseteq FittingNodes(fleet[c], to)
  BY <1>1 DEF ShapeOf, FittingNodes
<1>3. Cardinality(FittingNodes(fleet[c], to)) >= Cardinality(ShapeOf(fleet[c], n))
  BY <1>1, <1>2, FittingFinite, ShapeFinite, FS_Subset
<1>4. Cardinality(FittingNodes(fleet[c], to)) >= ask.nodes
  BY <1>1, <1>3, FittingFinite, ShapeFinite, AskFacts
<1>5. Matched(fleet[c], to) = DOMAIN to.requires /\ IsFiniteSet(DOMAIN to.requires)
  BY <1>1, FS_EmptySet DEF Matched
<1>6. Candidate(fleet[c], to).feasible
  BY <1>4, <1>5, CandidateFacts
<1> QED
  BY <1>6 DEF AnyFeasible, to

\* Where equal nodes could share the cores of a job evenly, it is repacked.
LEMMA RepackPossible ==
  ASSUME FleetKept, NEW c \in DOMAIN fleet, NEW js,
         Ask(js.resources) \in Asks, DOMAIN js.requires = {},
         NEW S \in SUBSET DOMAIN fleet[c].nodes, S # {}, Cores(js) % Cardinality(S) = 0,
         \A n, m \in S : Capacity(fleet[c].nodes[n]) = Capacity(fleet[c].nodes[m]),
         \A n \in S : LET has == Capacity(fleet[c].nodes[n])
                          ask == Ask(js.resources)
                      IN /\ has.cores * Cardinality(S) >= Cores(js)
                         /\ has.gpus >= ask.gpus /\ has.mem >= ask.mem
  PROVE  c \in Helpful(js)
<1> DEFINE count == Cardinality(S)
           total == Cores(js)
<1>1. PICK n \in S : TRUE
  OBVIOUS
<1> DEFINE shape == Capacity(fleet[c].nodes[n])
           all == Cardinality(ShapeOf(fleet[c], n))
<1>2. /\ n \in DOMAIN fleet[c].nodes /\ shape.cores \in Nat
      /\ shape.cores * count >= total
      /\ shape.gpus >= Ask(js.resources).gpus /\ shape.mem >= Ask(js.resources).mem
  BY <1>1, ClusterFacts
<1>3. S \subseteq ShapeOf(fleet[c], n)
  BY <1>1 DEF ShapeOf
<1>4. all \in Nat /\ IsFiniteSet(ShapeOf(fleet[c], n))
  BY <1>2, ShapeFinite
<1>5. count \in Nat \ {0} /\ count <= all
  BY <1>3, <1>4, FS_Subset, FS_CardinalityType, FS_EmptySet
<1>6. total \in Nat \ {0} /\ total = Ask(js.resources).nodes * OrOne(Ask(js.resources).cores)
  BY AskFacts DEF Cores
<1> HIDE DEF total, count, shape, all
<1>7. count \in Splits(total, shape, all)
  <2>1. total % count = 0
    BY DEF total, count
  <2> QED
    BY <1>2, <1>4, <1>5, <1>6, <2>1, SplitsFacts
<1>8. SplitsOver(fleet[c], n, js) # {}
  BY <1>2, <1>6, <1>7 DEF SplitsOver, shape, all
<1>9. RequiredTypes(js) = {}
  BY DEF RequiredTypes
<1>10. n \in Repackable(fleet[c], js)
  BY <1>2, <1>8, <1>9 DEF Repackable
<1> QED
  BY <1>10 DEF Helpful

-----------------------------------------------------------------------------
(* The pass keeps the invariant *)

PassInv == FleetKept /\ JobKept /\ FoundKept /\ RankedKept /\ PlacedKept /\ RepackComplete

LEMMA InitPass == InitA => IInv
<1> SUFFICES ASSUME InitA PROVE IInv
  OBVIOUS
<1> USE DEF InitA, Init
<1>1. FleetKept
  BY DEF FleetKept
<1>2. JobKept
  BY RequestsAssumption DEF JobKept
<1>3. FoundKept /\ RankedKept /\ PlacedKept /\ RepackComplete
  BY DEF FoundKept, Phases, RankedKept, PlacedKept, RepackComplete
<1>4. ArtifactKept
  BY NoneAssumption DEF ArtifactKept, Outcomes
<1> QED
  BY <1>1, <1>2, <1>3, <1>4 DEF IInv

LEMMA EvaluatePass ==
  ASSUME PassInv, Evaluate PROVE PassInv'
<1> USE DEF PassInv
<1>1. FleetKept' /\ JobKept'
  BY DEF Evaluate, FleetKept, JobKept, Cores
<1>2. FoundKept'
  BY DEF Evaluate, FoundKept, Evaluated, Phases
<1>3. RankedKept' /\ PlacedKept' /\ RepackComplete'
  BY DEF Evaluate, RankedKept, PlacedKept, RepackComplete
<1> QED
  BY <1>1, <1>2, <1>3

LEMMA FailInfeasiblePass ==
  ASSUME PassInv, FailInfeasible PROVE PassInv'
<1> USE DEF PassInv
<1>1. /\ {"resources", "requires", "total", "perSlot"} \subseteq DOMAIN job
      /\ Ask(job.resources) \in Asks /\ fleet' = fleet /\ origin' = origin /\ placed' = placed
      /\ phase = "infeasible" /\ phase' \in {"submitted", "failed"}
  BY JobFacts DEF FailInfeasible
<1>2. FleetKept'
  BY <1>1 DEF FleetKept
<1>3. JobKept'
  <2>1. CASE Helpful(job) # {} /\ AnyFeasible(Proposal(job))
    <3>1. PICK c \in DOMAIN fleet, n \in Nat :
               n \in Repackable(fleet[c], job) /\ Proposal(job) = Repacked(fleet[c], n, job)
      BY <2>1, HelpfulFacts
    <3>2. job' = Repacked(fleet[c], n, job)
      BY <2>1, <3>1 DEF FailInfeasible
    <3>3. /\ DOMAIN job' = DOMAIN job
          /\ \A field \in DOMAIN job \ {"resources"} : job'[field] = job[field]
          /\ Ask(job'.resources) \in Asks /\ Cores(job)' = Cores(job)
          /\ Ask(job'.resources).cores > 0
      BY <1>1, <3>1, <3>2, RepackedAsk DEF Cores
    <3>4. Cores(origin)' = Cores(origin)
      BY <1>1 DEF Cores
    <3> QED
      BY <1>1, <3>3, <3>4 DEF JobKept
  <2>2. CASE ~(Helpful(job) # {} /\ AnyFeasible(Proposal(job)))
    BY <1>1, <2>2 DEF FailInfeasible, JobKept, Cores
  <2> QED
    BY <2>1, <2>2
<1>4. FoundKept'
  BY <1>1 DEF FailInfeasible, FoundKept, Phases
<1>5. RankedKept' /\ PlacedKept'
  BY <1>1 DEF RankedKept, PlacedKept
<1>6. RepackComplete'
  <2>1. SUFFICES ASSUME phase' = "failed", DOMAIN job'.requires = {} PROVE RepackComplete'
    BY DEF RepackComplete
  <2>2. job' = job /\ ~(Helpful(job) # {} /\ AnyFeasible(Proposal(job)))
    BY <2>1 DEF FailInfeasible
  <2>3. Helpful(job) = {}
    <3>1. SUFFICES ASSUME Helpful(job) # {} PROVE AnyFeasible(Proposal(job))
      BY <2>2
    <3>2. PICK c \in DOMAIN fleet, n \in Nat :
               n \in Repackable(fleet[c], job) /\ Proposal(job) = Repacked(fleet[c], n, job)
      BY <3>1, HelpfulFacts
    <3> QED
      BY <1>1, <2>1, <2>2, <3>2, RepackedFeasible
  <2>4. \A c \in DOMAIN fleet : \A S \in SUBSET DOMAIN fleet[c].nodes :
             LET ask == Ask(job.resources)
                 total == ask.nodes * OrOne(ask.cores)
             IN ~ /\ S # {} /\ total % Cardinality(S) = 0
                  /\ \A n, m \in S : Capacity(fleet[c].nodes[n]) = Capacity(fleet[c].nodes[m])
                  /\ \A n \in S : LET has == Capacity(fleet[c].nodes[n])
                                  IN /\ has.cores * Cardinality(S) >= total
                                     /\ has.gpus >= ask.gpus /\ has.mem >= ask.mem
    BY <1>1, <2>1, <2>2, <2>3, RepackPossible DEF Cores
  <2> QED
    BY <1>1, <2>2, <2>4 DEF RepackComplete
<1> QED
  BY <1>2, <1>3, <1>4, <1>5, <1>6

\* A ranking lists each cluster that can take the job once.
LEMMA RankingFacts ==
  ASSUME FleetKept, NEW order \in Rankings
  PROVE  /\ order \in Seq(DOMAIN fleet)
         /\ \A i \in 1..Len(order) : cands[order[i]].feasible
         /\ \A c \in DOMAIN fleet : cands[c].feasible /\ fleet[c].dispatchable =>
              \E i \in 1..Len(order) : order[i] = c
         /\ scorer = "default" =>
              \A i, j \in 1..Len(order) : i < j => ~Scores(cands[order[j]], cands[order[i]], job)
<1> DEFINE able == {c \in DOMAIN fleet : cands[c].feasible /\ fleet[c].dispatchable}
           N == Cardinality(able)
<1>1. IsFiniteSet(able) /\ N \in Nat
  BY ClusterFacts, FS_Subset, FS_CardinalityType
<1>2. /\ order \in [1..N -> able]
      /\ \A i, j \in 1..N : i # j => order[i] # order[j]
  BY DEF Rankings, SetToSeqs
<1>3. Len(order) = N /\ order \in Seq(DOMAIN fleet)
  <2>1. order \in [1..N -> DOMAIN fleet]
    BY <1>2
  <2> HIDE DEF N, able
  <2> QED
    BY <1>1, <2>1, LenProperties, SeqDef
<1>4. order \in Injection(1..N, able)
  BY <1>2 DEF Injection, IsInjective
<1>5. IsFiniteSet(1..N) /\ Cardinality(1..N) = N
  BY <1>1, FS_Interval
<1>6. order \in Surjection(1..N, able)
  BY <1>1, <1>4, <1>5, FS_Injection
<1>7. \A c \in able : \E i \in 1..N : order[i] = c
  BY <1>6 DEF Surjection
<1>8. \A i \in 1..N : cands[order[i]].feasible
  BY <1>2
<1>9. scorer = "default" =>
        \A i, j \in 1..N : i < j => ~Scores(cands[order[j]], cands[order[i]], job)
  BY <1>2 DEF Rankings
<1> QED
  BY <1>3, <1>7, <1>8, <1>9

LEMMA RankPass ==
  ASSUME PassInv, Rank PROVE PassInv'
<1> USE DEF PassInv
<1>1. /\ ranked' \in Rankings /\ phase = "feasible" /\ phase' = "ranked"
      /\ UNCHANGED <<fleet, scorer, job, cands, placed, origin>>
      /\ cands = Evaluated(job)
  BY DEF Rank, FoundKept
<1>2. FleetKept' /\ JobKept' /\ PlacedKept' /\ RepackComplete'
  BY <1>1 DEF FleetKept, JobKept, Cores, PlacedKept, RepackComplete
<1>3. FoundKept'
  BY <1>1 DEF FoundKept, Phases, Evaluated
<1>4. \A c \in DOMAIN fleet : cands[c].freeNow => cands[c].feasible
  BY <1>1, JobFacts, CandidateFacts DEF Evaluated
<1>5. RankedKept'
  BY <1>1, <1>4, RankingFacts DEF RankedKept
<1> QED
  BY <1>2, <1>3, <1>5

LEMMA PlacePass ==
  ASSUME PassInv, Place PROVE PassInv'
<1> USE DEF PassInv
<1> DEFINE c == Head(ranked)
           nodes == Ask(job.resources).nodes
           free == FittingNodes(fleet[c], job) \ fleet[c].busy
<1>1. /\ phase = "ranked" /\ ranked # <<>> /\ ranked \in Seq(DOMAIN fleet)
      /\ cands = Evaluated(job) /\ placed = None
      /\ UNCHANGED <<scorer, job, cands, origin>>
  BY DEF Place, FoundKept, RankedKept
<1>2. /\ 1 \in 1..Len(ranked) /\ c = ranked[1] /\ c \in DOMAIN fleet
      /\ Len(ranked) \in Nat
  BY <1>1
<1>3. IsFiniteSet(DOMAIN job.requires) /\ Ask(job.resources) \in Asks
  BY JobFacts
<1>4. nodes \in Nat \ {0} /\ Cardinality(free) \in Nat /\ IsFiniteSet(free)
  BY <1>2, <1>3, AskFacts, FittingFinite
<1>5. /\ DOMAIN cands = DOMAIN fleet
      /\ \A d \in DOMAIN fleet : cands[d] = Candidate(fleet[d], job)
  BY <1>1 DEF Evaluated
<1>6. JobKept' /\ phase' \in {"ranked", "placed"}
  BY <1>1 DEF Place, JobKept, Cores
<1>7. RepackComplete'
  BY <1>6 DEF RepackComplete
<1>8. CASE Cardinality(free) >= nodes
  <2>1. /\ fleet' = [fleet EXCEPT ![c].busy = fleet[c].busy \cup
                       {n \in free : Cardinality({m \in free : m < n}) < nodes}]
        /\ placed' = c /\ phase' = "placed"
    BY <1>8 DEF Place
  <2>2. /\ DOMAIN fleet' = DOMAIN fleet
        /\ \A d \in DOMAIN fleet :
             /\ DOMAIN fleet'[d] = DOMAIN fleet[d]
             /\ \A field \in DOMAIN fleet[d] \ {"busy"} : fleet'[d][field] = fleet[d][field]
    BY <1>2, <2>1
  <2>3. FleetKept'
    <3>1. PICK f \in Fleets :
            /\ DOMAIN fleet = DOMAIN f
            /\ \A d \in DOMAIN f :
                 /\ DOMAIN fleet[d] = DOMAIN f[d]
                 /\ \A field \in DOMAIN f[d] \ {"busy"} : fleet[d][field] = f[d][field]
      BY DEF FleetKept
    <3> QED
      BY <2>2, <3>1 DEF FleetKept
  <2>4. \A d \in DOMAIN fleet : /\ fleet'[d].nodes = fleet[d].nodes /\ fleet'[d].subs = fleet[d].subs
                                /\ fleet'[d].dispatchable = fleet[d].dispatchable
    BY <2>2, ClusterFacts
  <2>5. FoundKept' /\ RankedKept'
    BY <2>1 DEF FoundKept, Phases, RankedKept
  <2>6. cands[c].feasible /\ cands[c].freeNow
    <3>1. cands[c].feasible
      BY <1>1, <1>2 DEF RankedKept
    <3> QED
      BY <1>2, <1>3, <1>5, <1>8, <3>1, CandidateFacts
  <2>7. /\ FittingNodes(fleet'[c], job) = FittingNodes(fleet[c], job)
        /\ Matched(fleet'[c], job) = Matched(fleet[c], job)
    BY <1>2, <2>4 DEF FittingNodes, Matched, SubsystemSatisfies
  <2>8. FittingNodes(fleet[c], job) # {} /\ Matched(fleet[c], job) = DOMAIN job.requires
    <3>1. free # {}
      BY <1>4, <1>8, FS_EmptySet
    <3> QED
      BY <1>2, <1>3, <1>5, <2>6, <3>1, CandidateFacts
  <2>9. ASSUME scorer = "default", NEW d \in DOMAIN fleet, cands[d].freeNow, fleet[d].dispatchable
        PROVE  Surplus(cands[c], job) <= Surplus(cands[d], job)
    <3>1. PICK i \in 1..Len(ranked) : ranked[i] = d
      BY <1>1, <2>9 DEF RankedKept
    <3>2. cands[c].freeNodes \in Nat /\ cands[d].freeNodes \in Nat
      BY <1>2, <1>3, <1>5, CandidateFacts
    <3>3. CASE i = 1
      BY <1>2, <1>3, <3>1, <3>2, <3>3, SurplusType
    <3>4. CASE i # 1
      <4>1. ~Scores(cands[d], cands[c], job)
        BY <1>1, <1>2, <2>9, <3>1, <3>4 DEF RankedKept
      <4>2. cands[d].feasible
        BY <1>3, <1>5, <2>9, CandidateFacts
      <4>3. /\ Cardinality(DOMAIN job.requires) \in Nat
            /\ cands[c].matched = Cardinality(DOMAIN job.requires)
            /\ cands[d].matched = Cardinality(DOMAIN job.requires)
        <5>1. \A e \in DOMAIN fleet : cands[e].feasible =>
                cands[e].matched = Cardinality(DOMAIN job.requires)
          BY <1>3, <1>5, CandidateFacts
        <5>2. Cardinality(DOMAIN job.requires) \in Nat
          BY <1>3, FS_CardinalityType
        <5> QED
          BY <1>2, <2>6, <4>2, <5>1, <5>2
      <4> QED
        BY <1>3, <2>6, <2>9, <3>2, <4>1, <4>3, ScoresOrder
    <3> QED
      BY <3>3, <3>4
  <2>10. PlacedKept'
    <3>1. \A d \in DOMAIN fleet : Surplus(cands[d], job)' = Surplus(cands'[d], job')
      OBVIOUS
    <3> QED
      BY <1>1, <1>2, <1>5, <2>1, <2>2, <2>4, <2>7, <2>8, <2>9 DEF PlacedKept
  <2> QED
    BY <1>6, <1>7, <2>3, <2>5, <2>10
<1>9. CASE ~(Cardinality(free) >= nodes)
  <2>1. ranked' = Tail(ranked) /\ UNCHANGED <<fleet, phase, placed>>
    BY <1>9 DEF Place
  <2>2. FleetKept' /\ FoundKept' /\ PlacedKept'
    BY <1>1, <2>1 DEF FleetKept, FoundKept, PlacedKept, Evaluated
  <2>3. /\ ranked' \in Seq(DOMAIN fleet) /\ Len(ranked') = Len(ranked) - 1
        /\ \A i \in 1..Len(ranked') : i + 1 \in 1..Len(ranked) /\ ranked'[i] = ranked[i + 1]
    BY <1>1, <1>2, <2>1
  <2>4. ~cands[c].freeNow
    BY <1>2, <1>3, <1>5, <1>9, CandidateFacts
  <2>5. ASSUME NEW d \in DOMAIN fleet, cands[d].freeNow, fleet[d].dispatchable
        PROVE  \E i \in 1..Len(ranked') : ranked'[i] = d
    <3>1. PICK k \in 1..Len(ranked) : ranked[k] = d
      BY <1>1, <2>5 DEF RankedKept
    <3>2. k - 1 \in 1..Len(ranked') /\ (k - 1) + 1 = k
      BY <1>2, <2>3, <2>4, <2>5, <3>1
    <3> QED
      BY <2>3, <3>1, <3>2
  <2>6. \A i \in 1..Len(ranked') : cands[ranked'[i]].feasible
    BY <1>1, <2>3 DEF RankedKept
  <2>7. ASSUME scorer = "default", NEW i \in 1..Len(ranked'), NEW j \in 1..Len(ranked'), i < j
        PROVE  ~Scores(cands[ranked'[j]], cands[ranked'[i]], job)
    <3>1. i + 1 < j + 1 /\ i + 1 \in 1..Len(ranked) /\ j + 1 \in 1..Len(ranked)
      BY <2>3, <2>7
    <3> QED
      BY <1>1, <2>3, <2>7, <3>1 DEF RankedKept
  <2>8. RankedKept'
    BY <1>1, <2>1, <2>3, <2>5, <2>6, <2>7 DEF RankedKept
  <2> QED
    BY <1>6, <1>7, <2>2, <2>8
<1> QED
  BY <1>8, <1>9

LEMMA NextPass ==
  ASSUME PassInv, [Next]_vars PROVE PassInv'
<1>1. CASE Evaluate
  BY <1>1, EvaluatePass
<1>2. CASE Rank
  BY <1>2, RankPass
<1>3. CASE Place
  BY <1>3, PlacePass
<1>4. CASE FailInfeasible
  BY <1>4, FailInfeasiblePass
<1>5. CASE UNCHANGED vars
  BY <1>5 DEF vars, PassInv, FleetKept, JobKept, Cores, FoundKept, Evaluated, RankedKept,
              PlacedKept, RepackComplete
<1> QED
  BY <1>1, <1>2, <1>3, <1>4, <1>5 DEF Next

-----------------------------------------------------------------------------
(* The attempt keeps the invariant *)

\* What Stub makes is of its manager's kind and speaks its dialect; words that
\* are forbidden come from the job.
LEMMA StubShape ==
  ASSUME NEW js, NEW cl, cl.manager \in DOMAIN Hosts, NEW a, a = StubTransform(js, cl), a # None
  PROVE  /\ EmulatorRuns(cl, a) /\ a.type = WantKind(cl.manager)
         /\ a.words \cap Forbidden = js.words \cap Forbidden
         /\ Hosts[cl.manager] \in {None, a.kind}
         /\ a.kind = "MiniCluster" => a = MiniCluster(js, cl)
<1>1. ASSUME NEW type, NEW kind, NEW own, NEW claim, kind \in {"MiniCluster", "SlurmJob", "Job", None},
             a = [type |-> type, kind |-> kind, words |-> js.words \cup own, claim |-> claim],
             own \cap Forbidden = {}, type = WantKind(cl.manager), kind = Hosts[cl.manager],
             Dialect[cl.manager] \subseteq own, kind = "MiniCluster" => a = MiniCluster(js, cl)
      PROVE  /\ EmulatorRuns(cl, a) /\ a.type = WantKind(cl.manager)
             /\ a.words \cap Forbidden = js.words \cap Forbidden
             /\ Hosts[cl.manager] \in {None, a.kind}
             /\ a.kind = "MiniCluster" => a = MiniCluster(js, cl)
  <2>1. a.type = type /\ a.kind = kind /\ a.words = js.words \cup own
    BY <1>1
  <2> QED
    BY <1>1, <2>1 DEF EmulatorRuns
<1>2. CASE cl.manager = "flux_uri"
  <2> DEFINE own == {"resources", "tasks"}
  <2>1. a = [type |-> "jobspec", kind |-> None, words |-> js.words \cup own,
             claim |-> NoClaim]
    BY <1>2 DEF StubTransform, FluxSpec
  <2>2. None # "MiniCluster"
    BY <1>2, NoneAssumption DEF StubTransform
  <2>3. own \cap Forbidden = {}
    BY DEF Forbidden
  <2>4. "jobspec" = WantKind(cl.manager) /\ None = Hosts[cl.manager]
    BY <1>2 DEF WantKind, Hosts
  <2>5. Dialect[cl.manager] \subseteq own
    BY <1>2 DEF Dialect
  <2> HIDE DEF own
  <2> QED
    BY <1>1, <2>1, <2>2, <2>3, <2>4, <2>5
<1>3. CASE cl.manager = "k8s_job"
  <2> DEFINE own == {"image", "command"}
  <2>1. a = [type |-> "manifest", kind |-> "Job", words |-> js.words \cup own,
             claim |-> NoClaim]
    BY <1>3 DEF StubTransform, K8sJob, Manifest
  <2>2. "Job" # "MiniCluster"
    BY <1>3, NoneAssumption DEF StubTransform
  <2>3. own \cap Forbidden = {}
    BY DEF Forbidden
  <2>4. "manifest" = WantKind(cl.manager) /\ "Job" = Hosts[cl.manager]
    BY <1>3 DEF WantKind, Hosts
  <2>5. Dialect[cl.manager] \subseteq own
    BY <1>3 DEF Dialect
  <2> HIDE DEF own
  <2> QED
    BY <1>1, <2>1, <2>2, <2>3, <2>4, <2>5
<1>4. CASE cl.manager = "slurm_operator"
  <2> DEFINE own == {"nodes", "ntasks", "image", "command"}
  <2>1. a = [type |-> "manifest", kind |-> "SlurmJob", words |-> js.words \cup own,
             claim |-> NoClaim]
    BY <1>4 DEF StubTransform, SlurmJob, Manifest
  <2>2. "SlurmJob" # "MiniCluster"
    BY <1>4, NoneAssumption DEF StubTransform
  <2>3. own \cap Forbidden = {}
    BY DEF Forbidden
  <2>4. "manifest" = WantKind(cl.manager) /\ "SlurmJob" = Hosts[cl.manager]
    BY <1>4 DEF WantKind, Hosts
  <2>5. Dialect[cl.manager] \subseteq own
    BY <1>4 DEF Dialect
  <2> HIDE DEF own
  <2> QED
    BY <1>1, <2>1, <2>2, <2>3, <2>4, <2>5
<1>5. CASE cl.manager = "flux_operator"
  <2> DEFINE own == {"size", "image", "command"}
  <2>1. a = [type |-> "manifest", kind |-> "MiniCluster", words |-> js.words \cup own,
             claim |-> Claim(js, cl)]
    BY <1>5 DEF StubTransform, MiniCluster, Manifest
  <2>2. a = MiniCluster(js, cl)
    BY <1>5, NoneAssumption DEF StubTransform
  <2>3. own \cap Forbidden = {}
    BY DEF Forbidden
  <2>4. "manifest" = WantKind(cl.manager) /\ "MiniCluster" = Hosts[cl.manager]
    BY <1>5 DEF WantKind, Hosts
  <2>5. Dialect[cl.manager] \subseteq own
    BY <1>5 DEF Dialect
  <2> HIDE DEF own
  <2> QED
    BY <1>1, <2>1, <2>2, <2>3, <2>4, <2>5
<1> QED
  BY <1>2, <1>3, <1>4, <1>5 DEF Hosts

LEMMA ClusterFactsA ==
  ASSUME FleetKept, NEW c \in DOMAIN fleet
  PROVE  /\ fleet[c].manager \in DOMAIN Hosts
         /\ "architecture" \in DOMAIN fleet[c].subs =>
              \E arch \in {"amd64", "arm64", "aarch64", "arm"} :
                Values(fleet[c].subs["architecture"]) = {arch}
<1>1. PICK f \in Fleets :
        /\ DOMAIN fleet = DOMAIN f
        /\ \A d \in DOMAIN f :
             /\ DOMAIN fleet[d] = DOMAIN f[d]
             /\ \A field \in DOMAIN f[d] \ {"busy"} : fleet[d][field] = f[d][field]
  BY DEF FleetKept
<1>2. {"manager", "subs"} \subseteq DOMAIN f[c]
  BY <1>1, ClustersAssumption, FleetsAssumption
<1>3. fleet[c].manager = f[c].manager /\ fleet[c].subs = f[c].subs
  BY <1>1, <1>2
<1> QED
  BY <1>1, <1>3, ClustersAssumption

LEMMA TransformKeeps ==
  ASSUME IInv, Transform PROVE ArtifactKept'
BY NoneAssumption DEF IInv, Transform, ArtifactKept, Outcomes, vars

LEMMA SubmitKeeps ==
  ASSUME IInv, ValidateThenSubmit PROVE ArtifactKept'
<1> USE DEF IInv
<1>1. /\ artifact # None /\ outcome = None /\ artifact' = artifact
      /\ UNCHANGED <<fleet, job, phase, placed>>
  BY DEF ValidateThenSubmit, vars
<1>2. phase = "placed" /\ artifact = StubTransform(job, fleet[placed]) /\ placed \in DOMAIN fleet
  BY <1>1 DEF ArtifactKept, PlacedKept
<1> DEFINE cl == fleet[placed]
           verdict == Verdict(cl, artifact)
<1>3. cl.manager \in DOMAIN Hosts
  BY <1>2, ClusterFactsA
<1>4. /\ EmulatorRuns(cl, artifact) /\ artifact.type = WantKind(cl.manager)
      /\ artifact.words \cap Forbidden = job.words \cap Forbidden
      /\ Hosts[cl.manager] \in {None, artifact.kind}
  BY <1>1, <1>2, <1>3, StubShape
<1>5. PICK drivers \in {"real", "emulated"} :
        outcome' = IF verdict = "valid" THEN Submitted(cl, artifact, drivers) ELSE verdict
  BY DEF ValidateThenSubmit
<1>6. verdict = "valid" \/ (verdict = "repairable" /\ job.words \cap Forbidden # {})
  BY <1>4 DEF Verdict
<1>7. \/ Submitted(cl, artifact, drivers) = "submitted"
      \/ Submitted(cl, artifact, drivers) = "hardFail" /\ cl.manager = "slurm_operator"
  BY <1>3, <1>4 DEF Submitted, RealDrivers, Hosts
<1> HIDE DEF cl, verdict
<1>8. \/ outcome' = "submitted"
      \/ outcome' = "hardFail" /\ cl.manager = "slurm_operator"
      \/ outcome' = "repairable" /\ job.words \cap Forbidden # {}
  BY <1>5, <1>6, <1>7
<1> QED
  BY <1>1, <1>2, <1>8 DEF ArtifactKept, Outcomes, cl

LEMMA RepairKeeps ==
  ASSUME IInv, Repair PROVE ArtifactKept'
BY NoneAssumption DEF IInv, Repair, ArtifactKept, Outcomes, vars

\* A job with an artifact has been placed, and the pass is over for it.
LEMMA PlacementKeeps ==
  ASSUME IInv, PlacementStep PROVE ArtifactKept'
<1>1. CASE artifact = None
  BY <1>1 DEF IInv, PlacementStep, ArtifactKept
<1>2. CASE artifact # None
  <2>1. phase = "placed"
    BY <1>2 DEF IInv, ArtifactKept
  <2>2. UNCHANGED vars
    BY <2>1 DEF PlacementStep, Next, Evaluate, Rank, Place, FailInfeasible
  <2> QED
    BY <2>2 DEF IInv, PlacementStep, ArtifactKept, vars
<1> QED
  BY <1>1, <1>2

LEMMA NextKeeps == IInv /\ [NextA]_varsA => IInv'
<1> SUFFICES ASSUME IInv, [NextA]_varsA PROVE IInv'
  OBVIOUS
<1>1. PassInv' <=> (FleetKept /\ JobKept /\ FoundKept /\ RankedKept /\ PlacedKept /\ RepackComplete)'
  BY DEF PassInv
<1>2. PassInv /\ [Next]_vars
  BY DEF IInv, PassInv, NextA, varsA, PlacementStep, Transform, ValidateThenSubmit, Repair
<1>3. PassInv'
  BY <1>2, NextPass
<1>4. CASE PlacementStep
  BY <1>1, <1>3, <1>4, PlacementKeeps DEF IInv
<1>5. CASE Transform
  BY <1>1, <1>3, <1>5, TransformKeeps DEF IInv
<1>6. CASE ValidateThenSubmit
  BY <1>1, <1>3, <1>6, SubmitKeeps DEF IInv
<1>7. CASE Repair
  BY <1>1, <1>3, <1>7, RepairKeeps DEF IInv
<1>8. CASE UNCHANGED varsA
  <2>1. ArtifactKept'
    BY <1>8 DEF IInv, ArtifactKept, varsA, vars
  <2> QED
    BY <1>1, <1>3, <2>1 DEF IInv
<1> QED
  BY <1>4, <1>5, <1>6, <1>7, <1>8 DEF NextA

LEMMA Invariance == SpecA => []IInv
<1>1. InitA => IInv
  BY InitPass
<1>2. IInv /\ [NextA]_varsA => IInv'
  BY NextKeeps
<1> QED
  BY <1>1, <1>2, PTL DEF SpecA

-----------------------------------------------------------------------------
(* Theorems *)

\* However often a job is repacked, it runs with the cores it asked for in all
\* and with the requirements it was submitted with (reconcile.go:128-186).
THEOREM CoresKept == SpecA => []CoresPreserved
<1>1. IInv => CoresPreserved
  <2> SUFFICES ASSUME IInv PROVE CoresPreserved
    OBVIOUS
  <2> DEFINE was == Ask(origin.resources)
             is == Ask(job.resources)
  <2>1. /\ job.requires = origin.requires /\ Cores(job) = Cores(origin)
        /\ was.cores > 0 => is.cores > 0
        /\ was \in Asks /\ is \in Asks
    BY JobFacts DEF IInv
  <2>2. was.cores \in Nat /\ is.cores \in Nat
    BY <2>1, AskFacts
  <2>3. ASSUME was.cores > 0 PROVE is.nodes * is.cores = was.nodes * was.cores
    <3>1. OrOne(was.cores) = was.cores /\ OrOne(is.cores) = is.cores
      BY <2>1, <2>2, <2>3 DEF OrOne
    <3> QED
      BY <2>1, <3>1 DEF Cores
  <2> QED
    BY <2>1, <2>3 DEF CoresPreserved
<1> QED
  BY <1>1, Invariance, PTL

\* Every proposal of the reconciler for a job without requirements is feasible
\* on the fleet it was made for (reconcile.go:128-186, sim.go:193-240).
THEOREM ProposalsFit == SpecA => []RepackFits
<1>1. IInv => RepackFits
  <2> SUFFICES ASSUME IInv, phase = "infeasible", DOMAIN job.requires = {},
                      NEW c \in Helpful(job), NEW n \in Repackable(fleet[c], job)
               PROVE  AnyFeasible(Repacked(fleet[c], n, job))
    BY DEF RepackFits
  <2>1. FleetKept /\ JobKept /\ c \in DOMAIN fleet
    BY DEF IInv, Helpful
  <2>2. {"resources", "requires"} \subseteq DOMAIN job /\ Ask(job.resources) \in Asks
    BY <2>1, JobFacts
  <2> QED
    BY <2>1, <2>2, RepackedFeasible
<1> QED
  BY <1>1, Invariance, PTL

\* A job without requirements is failed only if no cluster has equal nodes that
\* could share its cores evenly (manager.go:574-597, reconcile.go:166-186).
THEOREM FailsOnlyUnrepackable == SpecA => []RepackComplete
BY Invariance, PTL DEF IInv

\* Of the clusters with room the default scorer's choice wastes least, and a
\* job is left waiting only if there is none (score.go:33-54,
\* manager.go:230-302).
THEOREM WastesLeast == SpecA => []BestFit
<1>1. IInv => BestFit
  <2> SUFFICES ASSUME IInv, scorer = "default", NEW c \in DOMAIN cands,
                      cands[c].freeNow, fleet[c].dispatchable
               PROVE  /\ phase = "placed" => Surplus(cands[placed], job) <= Surplus(cands[c], job)
                      /\ ~(phase = "ranked" /\ ranked = <<>>)
    BY DEF BestFit
  <2>1. phase = "placed" => Surplus(cands[placed], job) <= Surplus(cands[c], job)
    BY DEF IInv, PlacedKept
  <2>2. ASSUME phase = "ranked", ranked = <<>> PROVE FALSE
    <3>1. c \in DOMAIN fleet
      BY <2>2 DEF IInv, FoundKept, Evaluated
    <3>2. \E i \in 1..Len(ranked) : ranked[i] = c
      BY <2>2, <3>1 DEF IInv, RankedKept
    <3> QED
      BY <2>2, <3>2
  <2> QED
    BY <2>1, <2>2
<1> QED
  BY <1>1, Invariance, PTL

\* The artifact Stub makes of a placed job is accepted by the validator and by
\* the backend of the cluster's manager, unless the job's own words are
\* forbidden (transform.go:60-88, validate.go:41-110, emulator.go:82-103).
THEOREM ArtifactsAccepted == SpecA => []StubContract
<1>1. IInv => StubContract
  <2> SUFFICES ASSUME IInv, artifact # None
               PROVE  /\ EmulatorRuns(fleet[placed], artifact)
                      /\ outcome \in {"repairable", "wrongTarget", "failsAtOnce"} =>
                           job.words \cap Forbidden # {}
                      /\ outcome = "hardFail" => \/ job.words \cap Forbidden # {}
                                                 \/ fleet[placed].manager = "slurm_operator"
    BY DEF StubContract
  <2>1. placed \in DOMAIN fleet /\ artifact = StubTransform(job, fleet[placed]) /\ FleetKept
    BY DEF IInv, ArtifactKept, PlacedKept
  <2>2. EmulatorRuns(fleet[placed], artifact)
    BY <2>1, ClusterFactsA, StubShape
  <2> QED
    BY <2>2 DEF IInv, ArtifactKept
<1> QED
  BY <1>1, Invariance, PTL

\* A MiniCluster of a job was made for the cluster it was placed on, which has
\* a node that fits.
LEMMA MiniClusterFacts ==
  ASSUME IInv, artifact # None, artifact.kind = "MiniCluster"
  PROVE  /\ placed \in DOMAIN fleet /\ FittingNodes(fleet[placed], job) # {}
         /\ ~NoDevice(job, fleet[placed]) /\ SecretaryView(job, fleet[placed]) # None
         /\ artifact.claim = Claim(job, fleet[placed])
<1>1. /\ placed \in DOMAIN fleet /\ artifact = StubTransform(job, fleet[placed])
      /\ FittingNodes(fleet[placed], job) # {} /\ FleetKept
  BY DEF IInv, ArtifactKept, PlacedKept
<1>2. artifact = MiniCluster(job, fleet[placed])
  BY <1>1, ClusterFactsA, StubShape
<1>3. ~(NoDevice(job, fleet[placed]) \/ SecretaryView(job, fleet[placed]) = None)
  BY <1>2 DEF MiniCluster
<1>4. artifact = Manifest("MiniCluster", job.words \cup {"size", "image", "command"},
                          Claim(job, fleet[placed]))
  BY <1>2, <1>3 DEF MiniCluster
<1>5. artifact.claim = Claim(job, fleet[placed])
  BY <1>4 DEF Manifest
<1> QED
  BY <1>1, <1>3, <1>5

\* On like nodes a MiniCluster claims the GPUs a node has, which are enough
\* for the job (transform.go:140-185, 538-574, sim.go:193-211).
THEOREM DevicesSuffice == SpecA => []DevicesClaimed
<1>1. IInv => DevicesClaimed
  <2> DEFINE nodes == fleet[placed].nodes
             Has(n) == Capacity(nodes[n]).gpus
  <2> SUFFICES ASSUME IInv, artifact # None, artifact.kind = "MiniCluster", WantsGPUs(job),
                      \A n, m \in DOMAIN nodes : Has(n) = Has(m),
                      NEW n \in DOMAIN nodes
               PROVE  /\ artifact.claim.gpus = Has(n) /\ artifact.claim.broker = Has(n)
                      /\ artifact.claim.gpus >= Ask(job.resources).gpus
    BY DEF DevicesClaimed
  <2>1. /\ placed \in DOMAIN fleet /\ FittingNodes(fleet[placed], job) # {}
        /\ artifact.claim = Claim(job, fleet[placed])
    BY MiniClusterFacts
  <2>2. FleetKept /\ JobKept
    BY DEF IInv
  <2>3. Has(n) \in Nat
    BY <2>1, <2>2, ClusterFacts
  <2>4. GPUsPerNode(fleet[placed]) = Has(n)
    <3>1. {Has(m) : m \in DOMAIN nodes} = {Has(n)}
      OBVIOUS
    <3>2. Min({Has(n)}) = Has(n)
      BY <2>3 DEF Min
    <3>3. nodes # <<>>
      OBVIOUS
    <3> QED
      BY <3>1, <3>2, <3>3 DEF GPUsPerNode
  <2>5. artifact.claim.gpus = Has(n) /\ artifact.claim.broker = Has(n)
    BY <2>1, <2>4 DEF Claim
  <2>6. PICK m \in FittingNodes(fleet[placed], job) : TRUE
    BY <2>1
  <2>7. m \in DOMAIN nodes /\ Has(m) >= Ask(job.resources).gpus
    BY <2>6 DEF FittingNodes
  <2> QED
    BY <2>5, <2>7
<1> QED
  BY <1>1, Invariance, PTL

-----------------------------------------------------------------------------
(* Views *)

Minor(v) == IF Len(v) > 1 THEN v[2] ELSE 0
UpTo(v, w) == v[1] < w[1] \/ (v[1] = w[1] /\ Minor(v) <= Minor(w))

\* Of a version of two fields, compareVersions looks at no more than two of the
\* other's.
LEMMA NewerFields ==
  ASSUME NEW a \in Nat, NEW b \in Nat, NEW w \in Seq(Nat), w # <<>>
  PROVE  ~Newer(<<a, b>>, w) <=> UpTo(<<a, b>>, w)
<1> DEFINE v == <<a, b>>
           Field(s, i) == IF i \in DOMAIN s THEN s[i] ELSE 0
           top == Max({Len(v), Len(w)})
<1>1. /\ Len(v) = 2 /\ DOMAIN v = 1..2 /\ v[1] = a /\ v[2] = b
      /\ Len(w) \in Nat /\ Len(w) >= 1 /\ DOMAIN w = 1..Len(w)
      /\ \A i \in 1..Len(w) : w[i] \in Nat
  OBVIOUS
<1>2. top \in Nat /\ top >= 2
  <2>1. \E x \in {Len(v), Len(w)} : \A y \in {Len(v), Len(w)} : x >= y
    BY <1>1
  <2>2. top \in {Len(v), Len(w)} /\ \A y \in {Len(v), Len(w)} : top >= y
    BY <2>1 DEF Max
  <2> QED
    BY <1>1, <2>2
<1>3. Newer(v, w) <=> \E i \in 1..top : /\ \A j \in 1..(i - 1) : Field(v, j) = Field(w, j)
                                        /\ Field(v, i) > Field(w, i)
  BY DEF Newer
<1>4. /\ Field(v, 1) = a /\ Field(v, 2) = b
      /\ Field(w, 1) = w[1] /\ Field(w, 2) = Minor(w) /\ Minor(v) = b
      /\ Field(w, 1) \in Nat /\ Field(w, 2) \in Nat
  BY <1>1 DEF Minor
<1>5. \A i \in Nat : i >= 3 => Field(v, i) = 0 /\ Field(w, i) \in Nat
  BY <1>1
<1> HIDE DEF v, Field, top
<1>6. ASSUME NEW i \in 1..top, \A j \in 1..(i - 1) : Field(v, j) = Field(w, j),
             Field(v, i) > Field(w, i)
      PROVE  ~UpTo(v, w)
  <2>1. CASE i = 1
    BY <1>1, <1>4, <1>6, <2>1 DEF UpTo
  <2>2. CASE i = 2
    BY <1>1, <1>4, <1>6, <2>2 DEF UpTo
  <2>3. CASE i >= 3
    BY <1>2, <1>5, <1>6, <2>3
  <2> QED
    BY <1>2, <2>1, <2>2, <2>3
<1>7. ASSUME ~UpTo(v, w) PROVE Newer(v, w)
  <2>1. CASE a > w[1]
    <3>1. 1 \in 1..top /\ Field(v, 1) > Field(w, 1) /\ 1..(1 - 1) = {}
      BY <1>2, <1>4, <2>1
    <3> QED
      BY <1>3, <3>1
  <2>2. CASE a = w[1] /\ b > Minor(w)
    <3>1. 2 \in 1..top /\ Field(v, 2) > Field(w, 2) /\ \A j \in 1..(2 - 1) : j = 1
      BY <1>2, <1>4, <2>2
    <3>2. Field(v, 1) = Field(w, 1)
      BY <1>4, <2>2
    <3> QED
      BY <1>3, <3>1, <3>2
  <2> QED
    BY <1>1, <1>4, <1>7, <2>1, <2>2 DEF UpTo
<1> QED
  BY <1>3, <1>6, <1>7 DEF v

LEMMA ViewVersions ==
  \A v \in Views : /\ \E a, b \in Nat : v.glibc = <<a, b>>
                   /\ v.glibc \in Seq(Nat) /\ v.glibc # <<>>
<1>1. \A v \in Views : \E a, b \in Nat : v.glibc = <<a, b>>
  BY DEF Views
<1>2. \A a, b \in Nat : <<a, b>> \in Seq(Nat) /\ <<a, b>> # <<>>
  OBVIOUS
<1> QED
  BY <1>1, <1>2

LEMMA ClaimFields ==
  ASSUME NEW js, NEW cl
  PROVE  Claim(js, cl).arm = IsArm(cl) /\ Claim(js, cl).view = SecretaryView(js, cl)
BY DEF Claim

LEMMA HostVersion ==
  ASSUME JobKept
  PROVE  LET host == IF job.glibc = <<>> THEN DefaultViewGlibc ELSE job.glibc
         IN host \in Seq(Nat) /\ host # <<>>
<1>1. job.glibc = origin.glibc /\ origin.glibc \in Seq(Nat)
  BY JobsAssumption DEF JobKept
<1>2. DefaultViewGlibc \in Seq(Nat) /\ DefaultViewGlibc # <<>>
  BY DEF DefaultViewGlibc
<1> QED
  BY <1>1, <1>2

\* A cluster of one architecture is told from the others by its name.
LEMMA ArmOrNot ==
  ASSUME FleetKept, NEW c \in DOMAIN fleet
  PROVE  IsArm(fleet[c]) <=> /\ "architecture" \in DOMAIN fleet[c].subs
                             /\ Values(fleet[c].subs["architecture"]) # {"amd64"}
<1> DEFINE g == fleet[c].subs["architecture"]
<1>1. CASE "architecture" \notin DOMAIN fleet[c].subs
  BY <1>1 DEF IsArm, Advertises
<1>2. CASE "architecture" \in DOMAIN fleet[c].subs
  <2>1. PICK arch \in {"amd64", "arm64", "aarch64", "arm"} : Values(g) = {arch}
    BY <1>2, ClusterFactsA
  <2>2. \A name \in {"arm64", "aarch64", "arm"} :
          (\E v \in Within(g) : v.type = name) <=> name \in Values(g)
    BY DEF Values
  <2>3. IsArm(fleet[c]) <=> \E name \in {"arm64", "aarch64", "arm"} : name \in Values(g)
    BY <1>2, <2>2 DEF IsArm, Advertises
  <2> QED
    BY <1>2, <2>1, <2>3
<1> QED
  BY <1>1, <1>2

\* The view a MiniCluster mounts was built for its architecture and loads
\* against its image, and no newer one does (transform.go:353-441).
THEOREM MountsWhatLoads == SpecA => []ViewLoads
<1>1. IInv => ViewLoads
  <2> DEFINE cl == fleet[placed]
             onArm == "architecture" \in DOMAIN cl.subs /\ Values(cl.subs["architecture"]) # {"amd64"}
             host == IF job.glibc = <<>> THEN DefaultViewGlibc ELSE job.glibc
             Loads(v) == v.arm = onArm /\ UpTo(v.glibc, host)
             fits == {v \in Views : v.arm = IsArm(cl) /\ ~Newer(v.glibc, host)}
             best == {v \in fits : \A w \in fits : ~Newer(w.glibc, v.glibc)}
  <2> SUFFICES ASSUME IInv, artifact # None, artifact.kind = "MiniCluster", cl.view = ""
               PROVE  /\ artifact.claim.arm = onArm
                      /\ \E v \in Views : /\ v.name = artifact.claim.view /\ Loads(v)
                                          /\ \A w \in Views : Loads(w) => UpTo(w.glibc, v.glibc)
    BY DEF ViewLoads, UpTo, Minor
  <2>1. /\ placed \in DOMAIN fleet /\ SecretaryView(job, cl) # None
        /\ artifact.claim = Claim(job, cl)
    BY MiniClusterFacts
  <2>2. FleetKept /\ JobKept
    BY DEF IInv
  <2>3. IsArm(cl) = onArm
    BY <2>1, <2>2, ArmOrNot DEF IsArm
  <2>4. artifact.claim.arm = onArm /\ artifact.claim.view = SecretaryView(job, cl)
    <3>1. artifact.claim.arm = IsArm(cl) /\ artifact.claim.view = SecretaryView(job, cl)
      BY <2>1, ClaimFields
    <3> HIDE DEF onArm
    <3> QED
      BY <2>3, <3>1
  <2>5. best # {} /\ SecretaryView(job, cl) = (CHOOSE v \in best : TRUE).name
    BY <2>1 DEF SecretaryView
  <2>6. host \in Seq(Nat) /\ host # <<>>
    BY <2>2, HostVersion
  <2> HIDE DEF host
  <2>7. \A v \in Views : ~Newer(v.glibc, host) <=> UpTo(v.glibc, host)
    BY <2>6, NewerFields, ViewVersions
  <2>8. \A v, w \in Views : ~Newer(w.glibc, v.glibc) <=> UpTo(w.glibc, v.glibc)
    <3>1. TAKE v \in Views, w \in Views
    <3> QED
      BY NewerFields, ViewVersions
  <2>9. \A v \in Views : v \in fits <=> Loads(v)
    BY <2>3, <2>7
  <2>10. PICK v \in best : v.name = artifact.claim.view
    BY <2>4, <2>5
  <2>11. v \in Views /\ Loads(v)
    BY <2>9
  <2>12. \A w \in Views : Loads(w) => UpTo(w.glibc, v.glibc)
    BY <2>8, <2>9, <2>11
  <2> QED
    BY <2>4, <2>10, <2>11, <2>12
<1> QED
  BY <1>1, Invariance, PTL

-----------------------------------------------------------------------------
(* What was required is there *)

\* The one value that is left of several, if there is one, is everybody's.
LEMMA OneValue ==
  ASSUME NEW T, IsFiniteSet(T), NEW none, Cardinality(T \ {none}) = 1
  PROVE  \E value : T \ {none} = {value}
<1>1. IsFiniteSet(T \ {none})
  BY FS_Subset
<1> QED
  BY <1>1, FS_Singleton

LEMMA FiniteImage ==
  ASSUME NEW f, IsFiniteSet(DOMAIN f)
  PROVE  IsFiniteSet({f[n] : n \in DOMAIN f})
<1> DEFINE T == {f[n] : n \in DOMAIN f}
           g == [n \in DOMAIN f |-> f[n]]
<1>1. g \in Surjection(DOMAIN f, T)
  BY DEF Surjection
<1> QED
  BY <1>1, FS_Surjection

LEMMA OneOfNothing ==
  ASSUME NEW S, Cardinality(S) = 1
  PROVE  S # {}
BY FS_EmptySet

LEMMA BucketBelow ==
  ASSUME NEW gb \in Nat
  PROVE  BucketFloor[MemoryBucket(gb)] <= gb /\ BucketFloor[MemoryBucket(gb)] \in Nat
<1>1. /\ BucketFloor["0-16GB"] = 0 /\ BucketFloor["16-64GB"] = 16
      /\ BucketFloor["64-192GB"] = 64 /\ BucketFloor["192GB+"] = 192
  BY DEF BucketFloor
<1>2. CASE gb < 16
  <2>1. MemoryBucket(gb) = "0-16GB"
    BY <1>2 DEF MemoryBucket
  <2> QED
    BY <1>1, <2>1
<1>3. CASE 16 <= gb /\ gb < 64
  <2>1. MemoryBucket(gb) = "16-64GB"
    BY <1>3 DEF MemoryBucket
  <2> QED
    BY <1>1, <1>3, <2>1
<1>4. CASE 64 <= gb /\ gb < 192
  <2>1. MemoryBucket(gb) = "64-192GB"
    BY <1>4 DEF MemoryBucket
  <2> QED
    BY <1>1, <1>4, <2>1
<1>5. CASE 192 <= gb
  <2>1. MemoryBucket(gb) = "192GB+"
    BY <1>5 DEF MemoryBucket
  <2> QED
    BY <1>1, <1>5, <2>1
<1> QED
  BY <1>2, <1>3, <1>4, <1>5

\* What facts come to in a category is a single value that no node of them
\* contradicts.
LEMMA UniformValue ==
  ASSUME NEW facts, facts \in Seq(ToSet(facts)), \A fact \in ToSet(facts) : fact.mem \in Nat,
         NEW sub \in DOMAIN SubsystemsFromFacts(facts) \cap {"architecture", "gpu", "memory"}
  PROVE  \E value :
           /\ SubsystemsFromFacts(facts)[sub] = Singleton(sub, value)
           /\ \A fact \in ToSet(facts) :
                /\ sub = "architecture" => fact.arch \in {None, value}
                /\ sub = "gpu" => fact.vendor \in {None, value}
                /\ sub = "memory" => fact.mem = 0 \/ fact.mem >= BucketFloor[value]
<1> DEFINE Archs == {facts[n].arch : n \in DOMAIN facts}
           Vendors == {facts[n].vendor : n \in DOMAIN facts}
           archs == Archs \ {None}
           vendors == Vendors \ {None}
<1>1. IsFiniteSet(DOMAIN facts) /\ ToSet(facts) = {facts[n] : n \in DOMAIN facts}
  BY FS_Interval DEF ToSet
<1>2. CASE sub = "architecture"
  <2>1. /\ Cardinality(archs) = 1
        /\ SubsystemsFromFacts(facts)[sub] = Singleton(sub, CHOOSE v \in archs : TRUE)
    BY <1>2 DEF SubsystemsFromFacts
  <2>2. PICK value : archs = {value}
    <3> DEFINE f == [n \in DOMAIN facts |-> facts[n].arch]
    <3>1. DOMAIN f = DOMAIN facts /\ Archs = {f[n] : n \in DOMAIN facts}
      OBVIOUS
    <3>2. Cardinality(Archs \ {None}) = 1
      BY <2>1
    <3> HIDE DEF f
    <3>3. IsFiniteSet(Archs)
      BY <1>1, <3>1, FiniteImage
    <3> HIDE DEF Archs
    <3> QED
      BY <3>2, <3>3, OneValue
  <2>3. (CHOOSE v \in archs : TRUE) = value
    BY <2>2
  <2>4. \A fact \in ToSet(facts) : fact.arch \in {None, value}
    BY <1>1, <2>2
  <2> QED
    BY <1>2, <2>1, <2>3, <2>4
<1>3. CASE sub = "gpu"
  <2>1. /\ Cardinality(vendors) = 1
        /\ SubsystemsFromFacts(facts)[sub] = Singleton(sub, CHOOSE v \in vendors : TRUE)
    BY <1>3 DEF SubsystemsFromFacts
  <2>2. PICK value : vendors = {value}
    <3> DEFINE f == [n \in DOMAIN facts |-> facts[n].vendor]
    <3>1. DOMAIN f = DOMAIN facts /\ Vendors = {f[n] : n \in DOMAIN facts}
      OBVIOUS
    <3>2. Cardinality(Vendors \ {None}) = 1
      BY <2>1
    <3> HIDE DEF f
    <3>3. IsFiniteSet(Vendors)
      BY <1>1, <3>1, FiniteImage
    <3> HIDE DEF Vendors
    <3> QED
      BY <3>2, <3>3, OneValue
  <2>3. (CHOOSE v \in vendors : TRUE) = value
    BY <2>2
  <2>4. \A fact \in ToSet(facts) : fact.vendor \in {None, value}
    BY <1>1, <2>2
  <2> QED
    BY <1>3, <2>1, <2>3, <2>4
<1>4. CASE sub = "memory"
  <2> DEFINE known == {facts[n].mem : n \in DOMAIN facts} \ {0}
             value == MemoryBucket(Min(known))
  <2>1. /\ Cardinality(BucketOf(facts)) = 1
        /\ SubsystemsFromFacts(facts)[sub] = Singleton(sub, CHOOSE v \in BucketOf(facts) : TRUE)
    BY <1>4 DEF SubsystemsFromFacts
  <2>2. known # {} /\ BucketOf(facts) = {value}
    <3>1. BucketOf(facts) = IF known = {} THEN {} ELSE {value}
      BY DEF BucketOf
    <3>2. BucketOf(facts) # {}
      BY <2>1, OneOfNothing
    <3> HIDE DEF known, value
    <3> QED
      BY <3>1, <3>2
  <2>3. known \subseteq Nat
    BY <1>1
  <2>4. Min(known) \in known /\ \A y \in known : Min(known) <= y
    BY <2>2, <2>3, MinOf
  <2>5. BucketFloor[value] <= Min(known) /\ BucketFloor[value] \in Nat
    BY <2>3, <2>4, BucketBelow
  <2>6. \A fact \in ToSet(facts) : fact.mem \in Nat /\ (fact.mem = 0 \/ fact.mem \in known)
    BY <1>1
  <2>7. (CHOOSE v \in BucketOf(facts) : TRUE) = value
    BY <2>2
  <2> HIDE DEF known, value
  <2>8. \A fact \in ToSet(facts) : fact.mem = 0 \/ fact.mem >= BucketFloor[value]
    <3> DEFINE least == Min(known)
               floor == BucketFloor[value]
    <3>1. least \in Nat /\ floor \in Nat /\ floor <= least /\ \A y \in known : least <= y
      BY <2>3, <2>4, <2>5
    <3> HIDE DEF least, floor
    <3>2. \A y \in known : y >= floor
      BY <2>3, <3>1
    <3> QED
      BY <2>6, <3>2 DEF floor
  <2> QED
    BY <1>4, <2>1, <2>7, <2>8
<1> QED
  BY <1>2, <1>3, <1>4

\* The graph of one value has the vertices of the category and of the value.
LEMMA SingletonVertices ==
  ASSUME NEW sub, NEW value, NEW g, g = Singleton(sub, value), Unfolds(g),
         \A v \in ToSet(g) :
           Unfolds(v.children) /\ \A w \in ToSet(v.children) : Unfolds(w.children),
         NEW v \in Within(g), NEW type \in {v.type, v.name}
  PROVE  type \in {"cluster", sub, value}
<1> DEFINE unit == [type |-> value, name |-> value, size |-> 1, children |-> <<>>]
           root == [type |-> "cluster", name |-> sub, size |-> 1, children |-> <<unit>>]
<1>1. g = <<root>>
  BY DEF Singleton, Vertex, Unit
<1>2. root.children = <<unit>> /\ unit.children = <<>>
  OBVIOUS
<1>3. /\ root.type = "cluster" /\ root.name = sub
      /\ unit.type = value /\ unit.name = value
  OBVIOUS
<1> HIDE DEF unit, root
<1>4. ToSet(<<root>>) = {root} /\ ToSet(<<unit>>) = {unit} /\ ToSet(<<>>) = {}
  BY DEF ToSet
<1>5. Unfolds(<<unit>>) /\ Unfolds(<<>>)
  BY <1>1, <1>2, <1>4
<1>6. Within(<<>>) = {} /\ Within(<<unit>>) = {unit} /\ Within(g) = {root, unit}
  <2>1. Within(<<>>) = {}
    BY <1>4, <1>5 DEF Unfolds
  <2>2. Within(<<unit>>) = {unit}
    <3>1. Within(<<unit>>) = {unit} \cup UNION {Within(w.children) : w \in {unit}}
      BY <1>4, <1>5 DEF Unfolds
    <3>2. UNION {Within(w.children) : w \in {unit}} = Within(unit.children)
      OBVIOUS
    <3> QED
      BY <1>2, <2>1, <3>1, <3>2
  <2>3. Within(g) = {root} \cup UNION {Within(w.children) : w \in {root}}
    BY <1>1, <1>4 DEF Unfolds
  <2>4. UNION {Within(w.children) : w \in {root}} = Within(root.children)
    OBVIOUS
  <2> QED
    BY <1>2, <2>1, <2>2, <2>3, <2>4
<1> QED
  BY <1>3, <1>6

\* What a job requires of a discovered cluster, its nodes have, as far as that
\* was found out (discover.go:30-75, sim.go:165-242).
THEOREM RequirementsReal == SpecA => []RequiredIsReal
<1>1. IInv => RequiredIsReal
  <2> SUFFICES ASSUME IInv, placed # None,
                      NEW sub \in DOMAIN job.requires \cap {"architecture", "gpu", "memory"}
               PROVE  \A fact \in ToSet(fleet[placed].facts) :
                        \E r \in ToSet(job.requires[sub]) :
                          CASE sub = "architecture" -> fact.arch \in {None, r.type}
                            [] sub = "gpu"          -> fact.vendor \in {None, r.type}
                            [] sub = "memory"       -> fact.mem = 0 \/ fact.mem >= BucketFloor[r.type]
    BY DEF RequiredIsReal
  <2>1. SUFFICES ASSUME NEW fact \in ToSet(fleet[placed].facts)
                 PROVE  \E r \in ToSet(job.requires[sub]) :
                          CASE sub = "architecture" -> fact.arch \in {None, r.type}
                            [] sub = "gpu"          -> fact.vendor \in {None, r.type}
                            [] sub = "memory"       -> fact.mem = 0 \/ fact.mem >= BucketFloor[r.type]
    OBVIOUS
  <2>2. /\ placed \in DOMAIN fleet /\ Matched(fleet[placed], job) = DOMAIN job.requires
        /\ FleetKept /\ JobKept
    BY DEF IInv, FoundKept, PlacedKept
  <2>3. PICK f \in Fleets :
          /\ DOMAIN fleet = DOMAIN f
          /\ \A c \in DOMAIN f :
               /\ DOMAIN fleet[c] = DOMAIN f[c]
               /\ \A field \in DOMAIN f[c] \ {"busy"} : fleet[c][field] = f[c][field]
    BY <2>2 DEF FleetKept
  <2> DEFINE cl == f[placed]
             section == origin.requires[sub]
  <2>4. placed \in DOMAIN f /\ {"facts", "subs"} \subseteq DOMAIN cl
    BY <2>2, <2>3, ClustersAssumption, FleetsAssumption
  <2>5. fleet[placed].facts = cl.facts /\ fleet[placed].subs = cl.subs
    BY <2>3, <2>4
  <2>6. job.requires = origin.requires /\ origin \in Requests
    BY <2>2, JobFacts DEF JobKept
  <2>7. sub \in DOMAIN cl.subs /\ Satisfies(cl.subs[sub], section)
    BY <2>2, <2>5, <2>6 DEF Matched, SubsystemSatisfies
  <2>8. PICK r \in ToSet(section) : r.type \notin {"anyof", "cluster", sub}
    BY <2>6, JobsAssumption
  <2>9. PICK v \in Within(cl.subs[sub]) : r.type \in {v.type, v.name}
    BY <2>4, <2>6, <2>7, <2>8, SatisfiesAssumption
  <2>10. cl.facts # <<>>
    BY <2>1, <2>5 DEF ToSet
  <2>11. /\ cl.facts \in Seq(ToSet(cl.facts))
         /\ \A known \in ToSet(cl.facts) : known.mem \in Nat
         /\ sub \in DOMAIN SubsystemsFromFacts(cl.facts)
         /\ cl.subs[sub] = SubsystemsFromFacts(cl.facts)[sub]
    BY <2>4, <2>7, <2>10, FactsAssumption
  <2>12. PICK value :
           /\ cl.subs[sub] = Singleton(sub, value)
           /\ \A known \in ToSet(cl.facts) :
                /\ sub = "architecture" => known.arch \in {None, value}
                /\ sub = "gpu" => known.vendor \in {None, value}
                /\ sub = "memory" => known.mem = 0 \/ known.mem >= BucketFloor[value]
    BY <2>11, UniformValue
  <2>13. /\ Unfolds(cl.subs[sub])
         /\ \A u \in ToSet(cl.subs[sub]) :
              Unfolds(u.children) /\ \A w \in ToSet(u.children) : Unfolds(w.children)
    BY <2>4, <2>7, WithinAssumption
  <2>14. r.type \in {"cluster", sub, value}
    BY <2>9, <2>12, <2>13, SingletonVertices
  <2>15. r.type = value
    BY <2>8, <2>14
  <2>16. fact \in ToSet(cl.facts) /\ r \in ToSet(job.requires[sub])
    BY <2>5, <2>6, <2>8
  <2>17. CASE sub = "architecture"
    BY <2>12, <2>15, <2>16, <2>17
  <2>18. CASE sub = "gpu"
    BY <2>12, <2>15, <2>16, <2>18
  <2>19. CASE sub = "memory"
    BY <2>12, <2>15, <2>16, <2>19
  <2> QED
    BY <2>17, <2>18, <2>19
<1> QED
  BY <1>1, Invariance, PTL

=============================================================================
