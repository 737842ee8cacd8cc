-------------------------- MODULE MCInlineManager --------------------------
(* Jobs of one node; "j2" also needs lammps.  Graphs: none, or one node.    *)
EXTENDS InlineManager

Cap(c) == [cores |-> c, gpus |-> 0, mem |-> 0]

MCContainments == {<<>>, <<Cap(2)>>}

MCAuxGraphs == {{"lammps"}}

Plain == [nodes |-> 1, need |-> Cap(2), requires |-> <<>>]
Lammps == [Plain EXCEPT !.requires = [s \in {"software"} |-> {{"lammps"}}]]

MCSpecs == {Plain, Lammps}
MCSpecOf == [j \in Jobs |-> IF j = "j2" THEN Lammps ELSE Plain]

MCOffered == {<<Cap(2)>>}

MCConfigs == {[emulated |-> FALSE, reserves |-> TRUE],
              [emulated |-> TRUE, reserves |-> FALSE]}
=============================================================================
