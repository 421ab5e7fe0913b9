------------------------------ MODULE MCCompare ------------------------------
(***************************************************************************)
(* Instances of Compare for TLC: every order of three jobs of a catalogue. *)
(***************************************************************************)
EXTENDS Compare

MCTopologyKeys == {"zone"}

Node(name, zone, cpu, gpu) ==
  [name |-> name, topology |-> [k \in {"zone"} |-> zone],
   capacity |-> [cpu |-> cpu, gpu |-> gpu]]

Request(name, replicas, cpu, gpu, key) ==
  [name |-> name, replicas |-> replicas,
   resourcesPerReplica |-> [cpu |-> cpu, gpu |-> gpu], requiredTopology |-> key,
   arrivalTick |-> 0, durationTicks |-> 1]

MCClusters ==
  { << Node(2, 1, 3, 1), Node(1, 1, 1, 1), Node(3, 2, 2, 0) >>,
    << Node(1, 0, 2, 1) >>, << Node(0, 1, 2, 1) >> }

Catalogue == { <<2, 1, 0, "zone">>, <<2, 1, 1, "">>, <<4, 1, 0, "">> }

MCJobSets ==
  {[i \in 1 .. 3 |-> Request(i, shape[i][1], shape[i][2], shape[i][3], shape[i][4])] :
      shape \in [1 .. 3 -> Catalogue]}
    \cup { << >>, << Request(1, 0, 1, 0, "") >>,
           << Request(1, 3, 1, 0, "zone"), Request(2, 3, 1, 0, "zone") >> }
=============================================================================
