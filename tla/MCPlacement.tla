---------------------------- MODULE MCPlacement ----------------------------
(* Fleets of two small clusters, any of whose nodes may be busy, or of one  *)
(* or two discovered clusters of every manager; jobs written in the ways    *)
(* users write them, with images of several ages.                           *)
EXTENDS ResourceTrees

Group(count, cores, gpus) == [count |-> count, cores |-> cores, gpus |-> gpus, mem |-> 1]

Software == <<Vertex("software", "software", 1,
              <<Vertex("lammps", "lammps", 1, <<Vertex("software", "kokkos", 1, <<>>)>>),
                Unit("mpich")>>)>>

Cluster(groups, subs, dispatchable) ==
  LET nodes == BuildContainment(groups)
  IN {[nodes |-> nodes, subs |-> subs, dispatchable |-> dispatchable, busy |-> busy,
       manager |-> "k8s_job", view |-> "", facts |-> <<>>] :
        busy \in SUBSET DOMAIN nodes}

Bare == <<>>
WithSoftware == [sub \in {"software"} |-> Software]

HandMade ==
  LET first == Cluster(<<Group(1, 4, 1), Group(2, 2, 0)>>, WithSoftware, TRUE)
                 \cup Cluster(<<Group(1, 3, 0)>>, Bare, FALSE)
      second == Cluster(<<Group(3, 2, 0)>>, WithSoftware, TRUE)
                  \cup Cluster(<<Group(1, 4, 1)>>, Bare, TRUE)
  IN {<<>>} \cup {<<a>> : a \in first} \cup {<<a, b>> : a \in first, b \in second}

Fact(arch, vendor, cores, gpus, mem) ==
  [arch |-> arch, vendor |-> vendor, network |-> IF gpus > 1 THEN "efa" ELSE "ethernet",
   cores |-> cores, gpus |-> gpus, mem |-> mem]

Discovered(facts, manager, view) ==
  [nodes |-> ContainmentFromFacts(facts), subs |-> SubsystemsFromFacts(facts),
   dispatchable |-> TRUE, busy |-> {}, manager |-> manager, view |-> view, facts |-> facts]

Hardware ==
  { <<Fact("amd64", "nvidia", 2, 2, 60), Fact("amd64", "nvidia", 2, 2, 60)>>,
    <<Fact("aarch64", "amd", 4, 1, 200), Fact("aarch64", "amd", 4, 1, 10)>>,
    <<Fact("arm64", None, 2, 0, 12), Fact("amd64", None, 2, 0, 0)>>,
    \* GPUs on some of the nodes, and unlike numbers of them
    <<Fact("amd64", "nvidia", 2, 1, 60), Fact("amd64", None, 2, 0, 60)>>,
    <<Fact("amd64", "nvidia", 2, 2, 70), Fact("amd64", "nvidia", 2, 1, 60)>>,
    \* two vendors
    <<Fact("amd64", "nvidia", 2, 1, 60), Fact("amd64", "amd", 2, 1, 60)>> }

MCFleets ==
  HandMade
    \cup {<<Discovered(facts, manager, "")>> : facts \in Hardware, manager \in DOMAIN Hosts}
    \cup {<<Discovered(facts, "flux_operator", view)>> :
            facts \in Hardware, view \in {"none", "site-view"}}
    \cup {<<Discovered(a, "flux_operator", ""), Discovered(b, "k8s_job", "")>> :
            a, b \in Hardware}

Leaf(type) == Resource(type, 0, <<>>)

Trees ==
  { Containment(1, 2, 0, 0), Containment(2, 2, 0, 1), Containment(3, 1, 0, 0),
    Containment(6, 1, 0, 0), Containment(5, 1, 0, 0), Containment(1, 6, 0, 0),
    Containment(2, 2, 1, 0), Containment(1, 2, 2, 0),
    \* no node; nested counts; two kinds of nodes; whole nodes
    <<Resource("slot", 2, <<Resource("core", 2, <<>>)>>)>>,
    <<Resource("rack", 2, <<Resource("node", 1, <<Resource("slot", 2, <<Leaf("core")>>)>>)>>)>>,
    <<Resource("node", 1, <<Resource("core", 3, <<>>)>>),
      Resource("node", 1, <<Resource("core", 1, <<>>), Leaf("gpu")>>)>>,
    <<[Resource("node", 2, <<>>) EXCEPT !.exclusive = TRUE]>>,
    <<Leaf("node")>> }

Sections ==
  { <<Resource("lammps", 0, <<Leaf("kokkos")>>)>>,
    <<Resource("mpich", 0, <<Leaf("kokkos")>>)>>,
    <<Leaf("lammps"), Resource("anyof", 0, <<Leaf("openmpi"), Leaf("mpich")>>)>>,
    <<Resource("anyof", 0, <<Leaf("openmpi"), Leaf("cray")>>),
      Resource("anyof", 0, <<Leaf("lammps"), Leaf("cray")>>)>> }

Request(tree, requires, total, glibc, words) ==
  [resources |-> tree, requires |-> requires, total |-> total, perSlot |-> 1,
   glibc |-> glibc, words |-> words]

Required ==
  {[sub \in {"memory"} |-> <<Leaf(b)>>] : b \in DOMAIN BucketFloor}
    \cup {[sub \in {"gpu"} |-> <<Leaf(v)>>] : v \in {"nvidia", "amd"}}
    \cup {[sub \in {"architecture"} |-> <<Leaf(a)>>] : a \in {"amd64", "arm64", "aarch64"}}

MCRequests ==
  {Request(tree, <<>>, total, <<>>, {}) : tree \in Trees, total \in {0, 5}}
  \cup {Request(tree, [sub \in {"software"} |-> section], 0, <<>>, {}) :
          tree \in {Containment(1, 2, 0, 0), Containment(6, 1, 0, 0)}, section \in Sections}
  \cup {Request(Containment(1, 2, gpus, 0), <<>>, 0, glibc, {}) :
          gpus \in {0, 1, 2}, glibc \in {<<2, 9>>, <<2, 31>>, <<2, 36>>, <<3>>, <<2, 39, 1>>}}
  \cup {Request(Containment(1, 2, 0, 0), <<>>, 0, <<2, 36>>, {"hostPath"})}
  \cup {Request(Containment(1, 2, 0, 0), requires, 0, <<>>, {}) : requires \in Required}
=============================================================================
