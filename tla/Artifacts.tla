----------------------------- MODULE Artifacts -----------------------------
(***************************************************************************)
(* What becomes of a placed job.  A cluster was described by what discovery *)
(* read off its nodes (pkg/cluster/discover.go); the job is compiled into   *)
(* the artifact of the cluster's manager by the deterministic transformer   *)
(* (pkg/transform), checked (validate.go), and handed to a driver that must *)
(* accept it (driver.go, emulator.go).  Composes Placement: a job goes on   *)
(* with the cluster that was chosen there.                                  *)
(*                                                                          *)
(* An artifact is text.  Kept of it: its type, the kind of its object, the  *)
(* words any later check looks for, and what it claims from a node.         *)
(***************************************************************************)
EXTENDS Placement

\* Clusters have three more fields: the manager, the view their config names
\* ("" if it does not), and the facts they were discovered from (<<>> if they
\* were described by hand).  Jobs have two: the glibc recorded for their
\* image (<<>> if none is), and the words the user chose that end up in the
\* artifact.
VARIABLES
  artifact,  \* what the transformer made, or None
  outcome    \* what the attempt came to, or None

varsA == <<vars, artifact, outcome>>

\* The managers, and the kind of object each hosts (expectedKind; a Flux
\* instance takes a jobspec).
Hosts == [flux_operator |-> "MiniCluster", slurm_operator |-> "SlurmJob",
          k8s_job |-> "Job", flux_uri |-> None]

-----------------------------------------------------------------------------
(* Discovery, from [arch, vendor, network, cores, gpus, mem] of each node *)

Singleton(sub, value) == <<Vertex("cluster", sub, 1, <<Unit(value)>>)>>

MemoryBucket(gb) ==
  CASE gb < 16        -> "0-16GB"
    [] gb \in 16..63  -> "16-64GB"
    [] gb \in 64..191 -> "64-192GB"
    [] OTHER          -> "192GB+"

BucketFloor == [b \in {"0-16GB", "16-64GB", "64-192GB", "192GB+"} |->
  CASE b = "0-16GB" -> 0 [] b = "16-64GB" -> 16 [] b = "64-192GB" -> 64 [] b = "192GB+" -> 192]

\* MUTANT: the bucket of the largest node.
BucketOfLargest(facts) ==
  {MemoryBucket(Max({facts[n].mem : n \in DOMAIN facts}))}

\* The bucket of the smallest node whose memory is known.
BucketOf(facts) ==
  LET known == {facts[n].mem : n \in DOMAIN facts} \ {0}
  IN IF known = {} THEN {} ELSE {MemoryBucket(Min(known))}

\* SubsystemsFromFacts: one graph for each category in which all nodes that
\* have a value have the same.
SubsystemsFromFacts(facts) ==
  LET Seen(sub) ==
        CASE sub = "architecture" -> {facts[n].arch : n \in DOMAIN facts} \ {None}
          [] sub = "gpu"          -> {facts[n].vendor : n \in DOMAIN facts} \ {None}
          [] sub = "network"      -> {facts[n].network : n \in DOMAIN facts} \ {None}
          [] sub = "memory"       -> BucketOf(facts)
      uniform == {sub \in {"architecture", "gpu", "network", "memory"} :
                    Cardinality(Seen(sub)) = 1}
  IN [sub \in uniform |-> Singleton(sub, CHOOSE v \in Seen(sub) : TRUE)]

\* ContainmentFromFacts: like nodes are collapsed into groups, in order of
\* first appearance.
ContainmentFromFacts(facts) ==
  LET Shape(n) == [cores |-> facts[n].cores, gpus |-> facts[n].gpus, mem |-> facts[n].mem]
      shapes == FoldLeft(LAMBDA seen, n : IF Contains(seen, Shape(n)) THEN seen
                                          ELSE Append(seen, Shape(n)),
                         <<>>, [n \in DOMAIN facts |-> n])
  IN BuildContainment([g \in DOMAIN shapes |->
       [count |-> Cardinality({n \in DOMAIN facts : Shape(n) = shapes[g]}),
        cores |-> shapes[g].cores, gpus |-> shapes[g].gpus, mem |-> shapes[g].mem]])

\* Values: what a graph advertises.
Values(g) == {v.type : v \in Within(g)} \ {"cluster"}

\* What the clusters of the fleet advertise in a subsystem.
Advertised(sub) ==
  UNION {Values(fleet[c].subs[sub]) :
           c \in {d \in DOMAIN fleet : sub \in DOMAIN fleet[d].subs}}

\* MUTANT: memory is recomputed from the sizes of the nodes.
VocabularyRecomputed ==
  [sub \in {"memory"} |->
     UNION {{MemoryBucket(fact.mem) : fact \in ToSet(fleet[c].facts)} : c \in DOMAIN fleet}]

\* Derive: the dimensions a job may be classified along.  The vendor of the
\* GPUs is one only if there is a choice.
Vocabulary ==
  LET Enough(sub) == IF sub = "gpu" THEN 2 ELSE 1
      dims == {sub \in {"architecture", "network", "gpu", "memory"} :
                 Cardinality(Advertised(sub)) >= Enough(sub)}
  IN [sub \in dims |-> Advertised(sub)]

-----------------------------------------------------------------------------
(* What is assumed of clusters, jobs and the walks *)

Outcomes == {"hardFail", "repairable", "wrongTarget", "failsAtOnce", "submitted"}

ASSUME NoneAssumption ==
  None \notin Outcomes \cup {"MiniCluster", "SlurmJob", "Job"}

\* Every cluster has a manager that is known, and where its architecture is
\* known it is one the views are built for: the code takes any other for amd64.
ASSUME ClustersAssumption ==
  \A f \in Fleets : \A c \in DOMAIN f :
    /\ {"manager", "view", "facts"} \subseteq DOMAIN f[c] /\ f[c].manager \in DOMAIN Hosts
    /\ "architecture" \in DOMAIN f[c].subs =>
         \E arch \in {"amd64", "arm64", "aarch64", "arm"} :
           Values(f[c].subs["architecture"]) = {arch}

\* The sections that classify a job each ask for a plain value.
ASSUME JobsAssumption ==
  \A js \in Requests :
    /\ {"glibc", "words"} \subseteq DOMAIN js /\ js.glibc \in Seq(Nat)
    /\ \A sub \in DOMAIN js.requires \cap {"architecture", "gpu", "memory"} :
         \E r \in ToSet(js.requires[sub]) : r.type \notin {"anyof", "cluster", sub}

\* A discovered cluster advertises of these categories what its facts come to.
ASSUME FactsAssumption ==
  \A f \in Fleets : \A c \in DOMAIN f : f[c].facts # <<>> =>
    /\ f[c].facts \in Seq(ToSet(f[c].facts))
    /\ \A fact \in ToSet(f[c].facts) : fact.mem \in Nat
    /\ \A sub \in DOMAIN f[c].subs \cap {"architecture", "gpu", "network", "memory"} :
         /\ sub \in DOMAIN SubsystemsFromFacts(f[c].facts)
         /\ f[c].subs[sub] = SubsystemsFromFacts(f[c].facts)[sub]

\* The vertices of a graph are its roots and those below them.
Unfolds(g) == Within(g) = ToSet(g) \cup UNION {Within(v.children) : v \in ToSet(g)}

ASSUME WithinAssumption ==
  \A f \in Fleets : \A c \in DOMAIN f : \A sub \in DOMAIN f[c].subs :
    /\ Unfolds(f[c].subs[sub])
    /\ \A v \in ToSet(f[c].subs[sub]) :
         Unfolds(v.children) /\ \A w \in ToSet(v.children) : Unfolds(w.children)

\* A graph that satisfies a section has a vertex for every plain entry of it.
ASSUME SatisfiesAssumption ==
  \A f \in Fleets, js \in Requests : \A c \in DOMAIN f :
    \A sub \in DOMAIN f[c].subs \cap DOMAIN js.requires :
      Satisfies(f[c].subs[sub], js.requires[sub]) =>
        \A r \in ToSet(js.requires[sub]) : r.type # "anyof" =>
          \E v \in Within(f[c].subs[sub]) : r.type \in {v.type, v.name}

-----------------------------------------------------------------------------
(* The Flux views a MiniCluster can mount, each built against a glibc *)

Views ==
  {[name |-> "noble", glibc |-> <<2, 39>>, arm |-> FALSE],
   [name |-> "jammy", glibc |-> <<2, 35>>, arm |-> FALSE],
   [name |-> "focal", glibc |-> <<2, 31>>, arm |-> FALSE],
   [name |-> "arm-noble", glibc |-> <<2, 39>>, arm |-> TRUE],
   [name |-> "jammy-arm", glibc |-> <<2, 35>>, arm |-> TRUE],
   [name |-> "arm-focal", glibc |-> <<2, 31>>, arm |-> TRUE]}

DefaultViewGlibc == <<2, 35>>

\* compareVersions(a, b) > 0: numeric fields, a missing one is 0.
Newer(a, b) ==
  LET Field(v, i) == IF i \in DOMAIN v THEN v[i] ELSE 0
  IN \E i \in 1..Max({Len(a), Len(b)}) :
       /\ \A j \in 1..(i - 1) : Field(a, j) = Field(b, j)
       /\ Field(a, i) > Field(b, i)

\* SubsystemHas.
Advertises(cl, sub, value) ==
  sub \in DOMAIN cl.subs /\ \E v \in Within(cl.subs[sub]) : v.type = value

\* MUTANT: one name of the architecture only.
IsArm64(cl) == Advertises(cl, "architecture", "arm64")

IsArm(cl) == \E name \in {"arm64", "aarch64", "arm"} : Advertises(cl, "architecture", name)

\* secretaryView: the view the config names (none means the empty name), else
\* the newest that loads in the image, else None.
SecretaryView(js, cl) ==
  LET have == IF js.glibc = <<>> THEN DefaultViewGlibc ELSE js.glibc
      fits == {v \in Views : v.arm = IsArm(cl) /\ ~Newer(v.glibc, have)}
      best == {v \in fits : \A w \in fits : ~Newer(w.glibc, v.glibc)}
  IN CASE cl.view = "none" -> ""
       [] cl.view # "" /\ cl.view # "none" -> cl.view
       [] cl.view = "" /\ best # {} -> (CHOOSE v \in best : TRUE).name
       [] OTHER -> None

-----------------------------------------------------------------------------
(* Transform *)

\* The least of the nodes' GPUs.
GPUsPerNode(cl) ==
  IF cl.nodes = <<>> THEN 0 ELSE Min({Capacity(cl.nodes[n]).gpus : n \in DOMAIN cl.nodes})

\* The first of deviceResources' vendors that is advertised.
Vendor(cl) ==
  IF Advertises(cl, "gpu", "nvidia") THEN "nvidia"
  ELSE IF Advertises(cl, "gpu", "amd") THEN "amd" ELSE None

WantsGPUs(js) == Ask(js.resources).gpus > 0

\* deviceResources fails: the cluster has no GPU on some node, or no vendor.
NoDevice(js, cl) == WantsGPUs(js) /\ (GPUsPerNode(cl) < 1 \/ Vendor(cl) = None)

\* MUTANT: the job's count is claimed although the node is the job's alone.
ClaimAsAsked(js, cl) ==
  [vendor |-> IF WantsGPUs(js) THEN Vendor(cl) ELSE None,
   gpus |-> Ask(js.resources).gpus,
   efa |-> Advertises(cl, "network", "efa"),
   broker |-> GPUsPerNode(cl), view |-> SecretaryView(js, cl),
   arm |-> IsArm(cl)]

\* What the MiniCluster claims and declares: every GPU of a node if the job
\* wants any, the fabric where it exists (deviceResources), the GPUs written
\* into the broker's resource set (fluxResources), and the view (fluxBlock).
Claim(js, cl) ==
  [vendor |-> IF WantsGPUs(js) THEN Vendor(cl) ELSE None,
   gpus |-> IF WantsGPUs(js) THEN GPUsPerNode(cl) ELSE 0,
   efa |-> Advertises(cl, "network", "efa"),
   broker |-> GPUsPerNode(cl), view |-> SecretaryView(js, cl),
   arm |-> IsArm(cl)]

\* k8sJob and slurmJob claim nothing.
NoClaim == [vendor |-> None, gpus |-> 0, efa |-> FALSE, broker |-> 0, view |-> "", arm |-> FALSE]

Manifest(kind, words, claim) ==
  [type |-> "manifest", kind |-> kind, words |-> words, claim |-> claim]

MiniCluster(js, cl) ==
  IF NoDevice(js, cl) \/ SecretaryView(js, cl) = None THEN None
  ELSE Manifest("MiniCluster", js.words \cup {"size", "image", "command"}, Claim(js, cl))

\* MUTANT: the task count is left to Slurm.
SlurmJobWithoutTasks(js) ==
  Manifest("SlurmJob", js.words \cup {"nodes", "image", "command"}, NoClaim)

SlurmJob(js) ==
  Manifest("SlurmJob", js.words \cup {"nodes", "ntasks", "image", "command"}, NoClaim)

K8sJob(js) == Manifest("Job", js.words \cup {"image", "command"}, NoClaim)

FluxSpec(js) ==
  [type |-> "jobspec", kind |-> None, words |-> js.words \cup {"resources", "tasks"},
   claim |-> NoClaim]

\* Stub.Transform; None is an error.
StubTransform(js, cl) ==
  CASE cl.manager = "flux_uri"       -> FluxSpec(js)
    [] cl.manager = "k8s_job"        -> K8sJob(js)
    [] cl.manager = "flux_operator"  -> MiniCluster(js, cl)
    [] cl.manager = "slurm_operator" -> SlurmJob(js)

-----------------------------------------------------------------------------
(* The validator and the drivers *)

\* policyScan looks for these anywhere in the text of a manifest.
Forbidden == {"hostPath", "hostNetwork: true", "hostPID: true", "hostIPC: true",
              "privileged: true"}

\* defaultValidate.  A rendered artifact has its header and is not empty.
Verdict(cl, c) ==
  IF c.type = "jobspec" THEN "valid"
  ELSE IF c.words \cap Forbidden # {} THEN "repairable"
  ELSE IF Hosts[cl.manager] \notin {None, c.kind} THEN "wrongTarget" ELSE "valid"

\* What each emulated backend checks of its dialect.
Dialect == [flux_operator |-> {"size", "image"}, slurm_operator |-> {"nodes", "ntasks"},
            k8s_job |-> {"image", "command"}, flux_uri |-> {"resources", "tasks"}]

WantKind(manager) == IF manager = "flux_uri" THEN "jobspec" ELSE "manifest"

\* An emulated backend runs the artifact; another one of the right type it
\* accepts, and reports as failed at once.
EmulatorRuns(cl, c) ==
  /\ c.kind = Hosts[cl.manager]
  /\ Dialect[cl.manager] \subseteq c.words

\* The real registry: K8sDriver serves two managers, FluxCGODriver one.
RealDrivers == {"k8s_job", "flux_operator", "flux_uri"}

\* driverFor and Submit, up to what a live backend answers.  drivers is "real",
\* or "emulated" where no real registry is wired; placed clusters are not
\* marked emulated.
Submitted(cl, c, drivers) ==
  IF \/ drivers = "real" /\ cl.manager \notin RealDrivers
     \/ c.type # WantKind(cl.manager) THEN "hardFail"
  ELSE IF drivers = "emulated" /\ ~EmulatorRuns(cl, c) THEN "failsAtOnce" ELSE "submitted"

-----------------------------------------------------------------------------
(* The attempt *)

InitA == Init /\ artifact = None /\ outcome = None

PlacementStep == Next /\ UNCHANGED <<artifact, outcome>>

\* runAttempt; an error of the transformer is a hard failure.
Transform ==
  /\ phase = "placed" /\ outcome = None /\ artifact = None
  /\ artifact' = StubTransform(job, fleet[placed])
  /\ outcome' = IF artifact' = None THEN "hardFail" ELSE None
  /\ UNCHANGED vars

ValidateThenSubmit ==
  /\ artifact # None /\ outcome = None
  /\ LET verdict == Verdict(fleet[placed], artifact)
     IN \E drivers \in {"real", "emulated"} :
          outcome' = IF verdict = "valid" THEN Submitted(fleet[placed], artifact, drivers)
                                          ELSE verdict
  /\ UNCHANGED <<vars, artifact>>

\* runRepair: the deterministic transformer is no repairer.
Repair ==
  /\ outcome = "repairable"
  /\ outcome' = "hardFail"
  /\ UNCHANGED <<vars, artifact>>

NextA == PlacementStep \/ Transform \/ ValidateThenSubmit \/ Repair

SpecA == InitA /\ [][NextA]_varsA

-----------------------------------------------------------------------------
(* Properties *)

\* "Each emulated backend [is] a contract test for transform": what Stub makes
\* of a job that was placed is, unless the user's own words are forbidden, an
\* artifact the validator passes, the emulated backend of that manager runs
\* and the real driver's type check accepts; only a manager without a real
\* driver refuses it (emulator.go:13-18, transform.go:60-88, validate.go:41-73).
StubContract ==
  artifact # None =>
    /\ EmulatorRuns(fleet[placed], artifact)
    /\ outcome \in {"repairable", "wrongTarget", "failsAtOnce"} => job.words \cap Forbidden # {}
    /\ outcome = "hardFail" => \/ job.words \cap Forbidden # {}
                               \/ fleet[placed].manager = "slurm_operator"

\* The view mounted into a MiniCluster is built for the architecture the
\* cluster advertises and against a glibc the image can host, and no newer view
\* is (transform.go:271-441, whose comments tell of jobs that died of either).
ViewLoads ==
  artifact # None /\ artifact.kind = "MiniCluster" /\ fleet[placed].view = "" =>
    LET cl == fleet[placed]
        onArm == "architecture" \in DOMAIN cl.subs /\ Values(cl.subs["architecture"]) # {"amd64"}
        Minor(v) == IF Len(v) > 1 THEN v[2] ELSE 0
        UpTo(v, w) == v[1] < w[1] \/ (v[1] = w[1] /\ Minor(v) <= Minor(w))
        host == IF job.glibc = <<>> THEN DefaultViewGlibc ELSE job.glibc
        Loads(v) == v.arm = onArm /\ UpTo(v.glibc, host)
    IN /\ artifact.claim.arm = onArm
       /\ \E v \in Views : /\ v.name = artifact.claim.view /\ Loads(v)
                           /\ \A w \in Views : Loads(w) => UpTo(w.glibc, v.glibc)

\* On a cluster of like nodes the claim of a GPU job is what a node has: no
\* less than the job asked for (the matcher saw to that), so it starts, and
\* all of it, so that the broker's resource set has no device the pod lacks
\* (transform.go:140-185, 538-574).  Of unlike nodes the poorest is claimed;
\* see the hazards.
DevicesClaimed ==
  artifact # None /\ artifact.kind = "MiniCluster" /\ WantsGPUs(job) =>
    LET nodes == fleet[placed].nodes
        Has(n) == Capacity(nodes[n]).gpus
    IN (\A n, m \in DOMAIN nodes : Has(n) = Has(m)) =>
         \A n \in DOMAIN nodes :
           /\ artifact.claim.gpus = Has(n) /\ artifact.claim.broker = Has(n)
           /\ artifact.claim.gpus >= Ask(job.resources).gpus

\* Whatever the vocabulary offers for classifying a job, the job can require:
\* some cluster of the fleet satisfies it (derive.go:24-46, 66-92, against the
\* matcher's walk, sim.go:126-191).
VocabularyIsMatched ==
  \A sub \in DOMAIN Vocabulary : \A value \in Vocabulary[sub] :
    \E c \in DOMAIN fleet : SubsystemSatisfies(fleet[c], sub, <<Resource(value, 0, <<>>)>>)

\* What a job required, the nodes of the cluster it was placed on have, as far
\* as discovery read it: aggregating, advertising and matching lose nothing
\* (discover.go:30-75, sim.go:165-242).  A node without a value is believed.
RequiredIsReal ==
  placed # None =>
    \A fact \in ToSet(fleet[placed].facts) :
      \A sub \in DOMAIN job.requires \cap {"architecture", "gpu", "memory"} :
        \E r \in ToSet(job.requires[sub]) :
          CASE sub = "architecture" -> fact.arch \in {None, r.type}
            [] sub = "gpu"          -> fact.vendor \in {None, r.type}
            [] sub = "memory"       -> fact.mem = 0 \/ fact.mem >= BucketFloor[r.type]
=============================================================================
