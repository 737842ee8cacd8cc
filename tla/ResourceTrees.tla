--------------------------- MODULE ResourceTrees ---------------------------
(***************************************************************************)
(* The walks over trees that a placement rests on, as the recursive         *)
(* functions they are in the code: what a jobspec counts to, the shape      *)
(* Fluxion is asked for and the alternatives of its requirements            *)
(* (pkg/jobspec), what a node has below it (sim.go, graph.go), and how a    *)
(* request is matched against a subsystem graph (sim.go).  They are the     *)
(* values of Placement's operator constants.                                *)
(***************************************************************************)
EXTENDS Artifacts

-----------------------------------------------------------------------------
(* Jobspecs *)

\* counts: how much of a kind the trees rs ask for, mult times.
RECURSIVE Amount(_, _, _)
Amount(kind, rs, mult) ==
  MapThenSumSet(LAMBDA i : LET m == mult * OrOne(rs[i].count)
                           IN (IF rs[i].type = kind THEN m ELSE 0)
                                + Amount(kind, rs[i].with, m), DOMAIN rs)

\* counts: the outermost node requests, each with the number of nodes it means.
RECURSIVE NodeRequests(_, _)
NodeRequests(rs, mult) ==
  FlattenSeq([i \in DOMAIN rs |->
    LET m == mult * OrOne(rs[i].count)
    IN IF rs[i].type = "node" THEN <<[nodes |-> m, with |-> rs[i].with]>>
                              ELSE NodeRequests(rs[i].with, m)])

\* Without a node the whole request is one node's; unlike nodes are asked for
\* as if all were the largest.
Counts(rs) ==
  LET found == NodeRequests(rs, 1)
      PerNode(kind) == IF found = <<>> THEN Amount(kind, rs, 1)
                       ELSE Max({Amount(kind, found[i].with, 1) : i \in DOMAIN found})
  IN [nodes |-> IF found = <<>> THEN 1
                ELSE MapThenSumSet(LAMBDA i : found[i].nodes, DOMAIN found),
      cores |-> PerNode("core"), gpus |-> PerNode("gpu"), mem |-> PerNode("memory")]

RECURSIVE AsksExclusiveNode(_)
AsksExclusiveNode(rs) ==
  \E i \in DOMAIN rs : \/ rs[i].type = "node" /\ rs[i].exclusive
                       \/ AsksExclusiveNode(rs[i].with)

Exclusive(rs) == AsksExclusiveNode(rs) \/ Counts(rs).cores < 1

\* MUTANT: a whole-node request shares its node.
ToFluxSpecShared(rs) ==
  LET ask == Counts(rs)
      inner == <<Resource("socket", 1, <<Resource("core", OrOne(ask.cores), <<>>)>>)>>
                 \o IfAny("gpu", ask.gpus) \o IfAny("memory", ask.mem)
  IN <<Resource("node", ask.nodes, <<Resource("slot", 1, inner)>>)>>

\* ToFluxSpec: the shape Fluxion is asked for.
ToFluxSpec(rs) ==
  LET ask == Counts(rs)
      inner == <<Resource("socket", 1, <<Resource("core", OrOne(ask.cores), <<>>)>>)>>
                 \o IfAny("gpu", ask.gpus) \o IfAny("memory", ask.mem)
  IN <<[Resource("node", ask.nodes, <<Resource("slot", 1, inner)>>)
          EXCEPT !.exclusive = Exclusive(rs)]>>

\* MUTANT: only the last anyof of a section has its alternatives combined.
ExpandSectionLast(section) ==
  FoldLeft(LAMBDA alts, r : IF r.type = "anyof"
                              THEN {<<choice>> : choice \in ToSet(r.with)}
                              ELSE {Append(alt, r) : alt \in alts}, {<<>>}, section)

\* The concrete sections a section with anyof groups stands for.
ExpandSection(section) ==
  FoldLeft(LAMBDA alts, r :
             IF r.type = "anyof"
               THEN {Append(alt, choice) : alt \in alts, choice \in ToSet(r.with)}
               ELSE {Append(alt, r) : alt \in alts}, {<<>>}, section)

-----------------------------------------------------------------------------
(* Graphs *)

\* How much of a kind is below a vertex.
RECURSIVE Below(_, _)
Below(kind, v) ==
  MapThenSumSet(LAMBDA i : (IF v.children[i].type = kind THEN OrOne(v.children[i].size) ELSE 0)
                              + Below(kind, v.children[i]), DOMAIN v.children)

NodeCapacity(v) ==
  [cores |-> Below("core", v), gpus |-> Below("gpu", v), mem |-> Below("memory", v)]

RECURSIVE Vertices(_)
Vertices(g) == ToSet(g) \cup UNION {Vertices(g[i].children) : i \in DOMAIN g}

MatchVertex(v, r) == r.type \in {v.type, v.name}

\* Some vertex matches r, and its children satisfy what r asks for below it.
RECURSIVE ChildrenSatisfy(_, _)
ChildrenSatisfy(v, rs) ==
  \A i \in DOMAIN rs : \E child \in ToSet(v.children) :
    MatchVertex(child, rs[i]) /\ ChildrenSatisfy(child, rs[i].with)

SatisfyResource(g, r) ==
  \E v \in Vertices(g) : MatchVertex(v, r) /\ ChildrenSatisfy(v, r.with)

SectionSatisfied(g, section) ==
  \E alt \in ExpandSection(section) : \A i \in DOMAIN alt : SatisfyResource(g, alt[i])

-----------------------------------------------------------------------------
(* Properties *)

\* Both matchers are asked for the same nodes: the canonical tree given to
\* Fluxion counts to what the in-process matcher reads from the user's own tree
\* (a slot must hold a core), and wants whole nodes exactly when that one does
\* (flux.go:16-49 against jobspec.go:102-215).
SameAskOfBothMatchers ==
  LET flux == ToFluxSpec(job.resources)
  IN /\ Counts(flux) = [Counts(job.resources) EXCEPT !.cores = OrOne(@)]
     /\ Exclusive(flux) = Exclusive(job.resources)

\* anyof means OR and everything else AND: a section satisfies when each plain
\* entry does, and one child of each anyof, however many of them it mixes
\* (flux.go:56-86, sim.go:165-191).
AnyOfMeansOne ==
  \A c \in DOMAIN fleet : \A sub \in DOMAIN job.requires \cap DOMAIN fleet[c].subs :
    LET section == job.requires[sub]
        Met(r) == SatisfyResource(fleet[c].subs[sub], r)
    IN SubsystemSatisfies(fleet[c], sub, section) <=>
         \A i \in DOMAIN section :
           IF section[i].type = "anyof" THEN \E r \in ToSet(section[i].with) : Met(r)
                                        ELSE Met(section[i])

=============================================================================
