---------------------------- MODULE MCSimMatcher ----------------------------
(* Two clusters; no containment yet (as the API registers them), one node,  *)
(* or two nodes of which the second has the GPU; one auxiliary subsystem;   *)
(* jobs of one and two nodes.                                               *)
EXTENDS SimMatcher

Cap(c, g) == [cores |-> c, gpus |-> g, mem |-> 0]

MCContainments == {<<>>, <<Cap(4, 0)>>, <<Cap(4, 0), Cap(2, 1)>>}

MCAuxGraphs == {{"lammps"}, {"lammps", "kokkos"}}

Plain == [nodes |-> 1, need |-> Cap(2, 0), requires |-> <<>>]
Wide  == [nodes |-> 2, need |-> Cap(1, 0), requires |-> <<>>]
Gpu   == [nodes |-> 1, need |-> Cap(1, 1),
          requires |-> [s \in {"software"} |-> {{"kokkos"}, {"lammps", "kokkos"}}]]

MCSpecs == {Plain, Wide, Gpu}
=============================================================================
