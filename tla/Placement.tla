----------------------------- MODULE Placement -----------------------------
(***************************************************************************)
(* How one job is placed: what its jobspec asks for (pkg/jobspec), which    *)
(* clusters can take it (sim.go over the graphs of pkg/graph), in which     *)
(* order they are tried (pkg/score), and what is proposed when none can     *)
(* (pkg/reconcile, failInfeasible).  The machine takes one job through it   *)
(* on a fleet in which other jobs hold some nodes.  How placements          *)
(* interleave is the subject of Pipeline and InlineManager.                 *)
(*                                                                          *)
(* The walks over jobspec and graph trees are parameters here.  ResourceTrees *)
(* defines them; what is relied on of them is assumed below.                *)
(***************************************************************************)
EXTENDS Integers, FiniteSets, SequencesExt

CONSTANTS
  Fleets,   \* fleets, as sequences of clusters in order of registration
  Requests, \* jobs that may be submitted
  Scorers,  \* scorers the server may be configured with
  MaxCount, \* the largest number of cores or nodes a job may ask for in all
  None,
  Ask(_),          \* what resources come to: [nodes, cores, gpus, mem], the
                   \* last three of each node
  Capacity(_),     \* [cores, gpus, mem] of a node vertex
  Satisfies(_, _), \* whether a graph satisfies a section of requirements
  Within(_)        \* the vertices of a graph

-----------------------------------------------------------------------------
(* Jobspecs *)

Resource(type, count, with) ==
  [type |-> type, count |-> count, exclusive |-> FALSE, with |-> with]

\* A count that is not given is one.
OrOne(n) == IF n <= 0 THEN 1 ELSE n

IfAny(kind, n) == IF n > 0 THEN <<Resource(kind, n, <<>>)>> ELSE <<>>

Containment(nodes, cores, gpus, mem) ==
  LET inner == <<Resource("core", cores, <<>>)>> \o IfAny("gpu", gpus) \o IfAny("memory", mem)
  IN <<Resource("node", nodes, <<Resource("slot", 1, inner)>>)>>

TasksTotal(js) ==
  IF js.total > 0 THEN js.total
  ELSE Ask(js.resources).nodes * OrOne(js.perSlot)

RequiredTypes(js) ==
  UNION {{js.requires[sub][i].type : i \in DOMAIN js.requires[sub]} : sub \in DOMAIN js.requires}

-----------------------------------------------------------------------------
(* Graphs.  A vertex holds its children; a name is the basename's too.  The  *)
(* root and rack of a containment graph are left out: a graph is its nodes.  *)

Vertex(type, name, size, children) ==
  [type |-> type, name |-> name, size |-> size, children |-> children]

Unit(type) == Vertex(type, type, 1, <<>>)

\* BuildContainment, for groups of like nodes: cores nest under a socket,
\* memory is one vertex of some size.
BuildNode(group) ==
  Vertex("node", "node", 1,
    <<Vertex("socket", "socket", 1, [i \in 1..group.cores |-> Unit("core")])>>
      \o [i \in 1..group.gpus |-> Unit("gpu")]
      \o IF group.mem > 0 THEN <<Vertex("memory", "memory", group.mem, <<>>)>> ELSE <<>>)

BuildContainment(groups) ==
  FlattenSeq([g \in DOMAIN groups |-> [i \in 1..groups[g].count |-> BuildNode(groups[g])]])

-----------------------------------------------------------------------------
(* What the machine starts from *)

Asks ==
  {ask \in [nodes : 1..MaxCount, cores : 0..MaxCount, gpus : 0..MaxCount, mem : 0..MaxCount] :
     ask.nodes * OrOne(ask.cores) <= MaxCount}

ASSUME PlacementAssumption ==
  Scorers \subseteq {"default", "first-feasible"} /\ MaxCount \in Nat

\* Fleets are lists of clusters, and clusters of nodes, whose capacities are not
\* negative.
ASSUME FleetsAssumption ==
  \A f \in Fleets :
    /\ f \in Seq(ToSet(f))
    /\ \A c \in DOMAIN f :
         /\ {"nodes", "subs", "dispatchable", "busy"} \subseteq DOMAIN f[c]
         /\ f[c].nodes \in Seq(ToSet(f[c].nodes))
         /\ \A n \in DOMAIN f[c].nodes :
              Capacity(f[c].nodes[n]) \in [cores : Nat, gpus : Nat, mem : Nat]

\* A jobspec asks for a node at least, and its counts are not negative.
ASSUME RequestsAssumption ==
  \A js \in Requests :
    /\ {"resources", "requires", "total", "perSlot"} \subseteq DOMAIN js
    /\ IsFiniteSet(DOMAIN js.requires)
    /\ Ask(js.resources) \in Asks

\* The tree Containment builds counts to the numbers it is built from.
ASSUME ContainmentAssumption ==
  \A ask \in Asks :
    ask.cores > 0 => Ask(Containment(ask.nodes, ask.cores, ask.gpus, ask.mem)) = ask

VARIABLES
  fleet,    \* [nodes, subs, dispatchable, busy] of each cluster
  scorer,   \* configured scorer
  job,      \* the jobspec at hand
  phase,    \* step of the pass it is at
  cands,    \* what Evaluate returned
  ranked,   \* clusters left to try, best first
  placed,   \* cluster it was placed on, or None
  origin    \* the jobspec the user submitted (history)

vars == <<fleet, scorer, job, phase, cands, ranked, placed, origin>>

-----------------------------------------------------------------------------
(* Evaluation *)

SubsystemSatisfies(cl, sub, section) ==
  sub \in DOMAIN cl.subs /\ Satisfies(cl.subs[sub], section)

FittingNodes(cl, js) ==
  LET ask == Ask(js.resources)
  IN {n \in DOMAIN cl.nodes :
        LET has == Capacity(cl.nodes[n])
        IN has.cores >= ask.cores /\ has.gpus >= ask.gpus /\ has.mem >= ask.mem}

Matched(cl, js) == {sub \in DOMAIN js.requires : SubsystemSatisfies(cl, sub, js.requires[sub])}

Candidate(cl, js) ==
  LET nodes == Ask(js.resources).nodes
      fitting == FittingNodes(cl, js)
      matched == Matched(cl, js)
      feasible == matched = DOMAIN js.requires /\ Cardinality(fitting) >= nodes
      free == Cardinality(fitting \ cl.busy)
  IN [feasible |-> feasible, matched |-> Cardinality(matched),
      freeNodes |-> free, freeNow |-> feasible /\ free >= nodes]

Evaluated(js) == [c \in DOMAIN fleet |-> Candidate(fleet[c], js)]

AnyFeasible(js) == \E c \in DOMAIN fleet : Candidate(fleet[c], js).feasible

-----------------------------------------------------------------------------
(* Scoring *)

\* max(0, FreeNodes - Nodes).
Surplus(cand, js) == Max({0, cand.freeNodes - Ask(js.resources).nodes})

\* 10 * matched + 1 / (1 + surplus) + (0.5 if free now), as a fraction.
Score(cand, js) ==
  LET d == 2 * (1 + Surplus(cand, js))
  IN [num |-> 10 * cand.matched * d + 2 + (IF cand.freeNow THEN d \div 2 ELSE 0), den |-> d]

\* MUTANT: the emptiest cluster first.
LowerScores(a, b, js) ==
  Score(a, js).num * Score(b, js).den < Score(b, js).num * Score(a, js).den

Scores(a, b, js) ==
  Score(a, js).num * Score(b, js).den > Score(b, js).num * Score(a, js).den

\* Shuffled, then stably sorted: any order in which scores do not increase.
\* first-feasible keeps the matcher's order.  Emulated clusters are dropped from
\* the ranking, which comes to ranking the others.
Rankings ==
  LET able == {c \in DOMAIN fleet : cands[c].feasible /\ fleet[c].dispatchable}
      Follows(c, d) == IF scorer = "default" THEN ~Scores(cands[d], cands[c], job) ELSE c < d
  IN {order \in SetToSeqs(able) :
        \A m, n \in DOMAIN order : m < n => Follows(order[m], order[n])}

-----------------------------------------------------------------------------
(* Repacking *)

\* The nodes with the shape of node n.
ShapeOf(cl, n) == {m \in DOMAIN cl.nodes : Capacity(cl.nodes[m]) = Capacity(cl.nodes[n])}

\* The caps of BuildFleetView: types and names in any auxiliary graph.
Caps(cl) ==
  UNION {{v.type : v \in Within(cl.subs[sub])} \cup {v.name : v \in Within(cl.subs[sub])} :
           sub \in DOMAIN cl.subs}

\* MUTANT: rounds up instead of asking for an exact division.
SplitsRounded(total, shape, count) ==
  {n \in 1..Min({count, total}) : (total + n - 1) \div n <= shape.cores}

\* MUTANT: the node count is not limited by the cluster's.
SplitsUnbounded(total, shape, count) ==
  {n \in 1..total : total % n = 0 /\ total \div n <= shape.cores}

\* MUTANT: a single node is never tried.
SplitsFromTwo(total, shape, count) ==
  {n \in 2..Min({count, total}) : total % n = 0 /\ total \div n <= shape.cores}

\* The node counts repackOntoShape may choose; it takes the least.
Splits(total, shape, count) ==
  {n \in 1..Min({count, total}) : total % n = 0 /\ total \div n <= shape.cores}

\* The node counts for which the cores js asks for in all can be spread over
\* the shape of node n.
SplitsOver(cl, n, js) ==
  LET ask == Ask(js.resources)
      shape == Capacity(cl.nodes[n])
  IN IF shape.gpus >= ask.gpus /\ shape.mem >= ask.mem
       THEN Splits(ask.nodes * OrOne(ask.cores), shape, Cardinality(ShapeOf(cl, n)))
       ELSE {}

\* The nodes with a shape js can be repacked onto.
Repackable(cl, js) ==
  {n \in DOMAIN cl.nodes : RequiredTypes(js) \subseteq Caps(cl) /\ SplitsOver(cl, n, js) # {}}

Repacked(cl, n, js) ==
  LET ask == Ask(js.resources)
      nodes == Min(SplitsOver(cl, n, js))
  IN [js EXCEPT !.resources =
        Containment(nodes, (ask.nodes * OrOne(ask.cores)) \div nodes, ask.gpus, ask.mem)]

Helpful(js) == {c \in DOMAIN fleet : Repackable(fleet[c], js) # {}}

\* The first shape of the first cluster: shapes are listed as their first nodes
\* are.
Proposal(js) ==
  LET cl == fleet[Min(Helpful(js))] IN Repacked(cl, Min(Repackable(cl, js)), js)

-----------------------------------------------------------------------------
(* One job *)

Init ==
  /\ fleet \in Fleets /\ scorer \in Scorers /\ job \in Requests
  /\ phase = "submitted" /\ cands = <<>> /\ ranked = <<>> /\ placed = None
  /\ origin = job

\* With no cluster registered nothing is impossible: the job waits.
Evaluate ==
  /\ phase = "submitted" /\ fleet # <<>>
  /\ cands' = Evaluated(job)
  /\ phase' = IF \E c \in DOMAIN fleet : cands'[c].feasible THEN "feasible" ELSE "infeasible"
  /\ UNCHANGED <<fleet, scorer, job, ranked, placed, origin>>

Rank ==
  /\ phase = "feasible"
  /\ ranked' \in Rankings
  /\ phase' = "ranked"
  /\ UNCHANGED <<fleet, scorer, job, cands, placed, origin>>

\* Allocate on the best cluster left; the lowest-numbered free nodes are taken.
Place ==
  /\ phase = "ranked" /\ ranked # <<>>
  /\ LET c == Head(ranked)
         nodes == Ask(job.resources).nodes
         free == FittingNodes(fleet[c], job) \ fleet[c].busy
     IN IF Cardinality(free) >= nodes
          THEN /\ fleet' = [fleet EXCEPT ![c].busy = @ \cup
                             {n \in free : Cardinality({m \in free : m < n}) < nodes}]
               /\ placed' = c /\ phase' = "placed" /\ ranked' = <<>>
          ELSE ranked' = Tail(ranked) /\ UNCHANGED <<fleet, phase, placed>>
  /\ UNCHANGED <<scorer, job, cands, origin>>

\* failInfeasible with AutoResubmit: the first proposal, if it is feasible, is
\* submitted as a new job.
FailInfeasible ==
  /\ phase = "infeasible"
  /\ IF Helpful(job) # {} /\ AnyFeasible(Proposal(job))
       THEN job' = Proposal(job) /\ phase' = "submitted"
       ELSE phase' = "failed" /\ UNCHANGED job
  /\ cands' = <<>>
  /\ UNCHANGED <<fleet, scorer, ranked, placed, origin>>

Settled ==
  \/ phase \in {"placed", "failed"}
  \/ phase = "ranked" /\ ranked = <<>>
  \/ phase = "submitted" /\ fleet = <<>>

Next ==
  \/ Evaluate \/ Rank \/ Place \/ FailInfeasible
  \/ Settled /\ UNCHANGED vars

Spec == Init /\ [][Next]_vars

-----------------------------------------------------------------------------
(* Properties *)

\* A proposal for a job without requirements is one the matcher accepts: the
\* shapes the reconciler reads and the trees the matcher walks agree
\* (reconcile.go:70-186, sim.go:96-211).
RepackFits ==
  phase = "infeasible" /\ DOMAIN job.requires = {} =>
    \A c \in Helpful(job) : \A n \in Repackable(fleet[c], job) :
      AnyFeasible(Repacked(fleet[c], n, job))

\* A job fails without a suggestion only if there is none: no number of equal
\* nodes of a cluster can share its cores evenly (reconcile.go:166-186).
RepackComplete ==
  phase = "failed" /\ DOMAIN job.requires = {} =>
    \A c \in DOMAIN fleet : \A S \in SUBSET DOMAIN fleet[c].nodes :
      LET ask == Ask(job.resources)
          total == ask.nodes * OrOne(ask.cores)
      IN ~ /\ S # {} /\ total % Cardinality(S) = 0
           /\ \A n, m \in S : Capacity(fleet[c].nodes[n]) = Capacity(fleet[c].nodes[m])
           /\ \A n \in S : LET has == Capacity(fleet[c].nodes[n])
                           IN /\ has.cores * Cardinality(S) >= total
                              /\ has.gpus >= ask.gpus /\ has.mem >= ask.mem

\* "Total cores are preserved, not rounded up" (reconcile.go:166-167, and
\* reconcile_test.go:52-53): a job that asks for cores runs in the end, however
\* often it was repacked, with as many in all and with the requirements it was
\* submitted with.  This is not all of the work that reconcile.go:6-10 promises
\* to preserve: see README.md.
CoresPreserved ==
  LET was == Ask(origin.resources)
      is == Ask(job.resources)
  IN /\ was.cores > 0 => is.nodes * is.cores = was.nodes * was.cores
     /\ job.requires = origin.requires

\* "Least wasted capacity": a full cluster may be tried first, but of the
\* clusters with room the default scorer takes one with the fewest nodes to
\* spare, and a job waits only if none has room (score.go:33-54,
\* manager.go:268-302).
BestFit ==
  scorer = "default" =>
    \A c \in DOMAIN cands :
      cands[c].freeNow /\ fleet[c].dispatchable =>
        /\ phase = "placed" => Surplus(cands[placed], job) <= Surplus(cands[c], job)
        /\ ~(phase = "ranked" /\ ranked = <<>>)

=============================================================================
