------------------------------ MODULE MCSchedule ------------------------------
(***************************************************************************)
(* Instances of Schedule for TLC: the clusters of MCSimulation's kind, and *)
(* every job set that can be put together from a catalogue.                *)
(***************************************************************************)
EXTENDS ScheduleProperties

MCTopologyKeys == {"zone"}

Node(name, zone, cpu, gpu) ==
  [name |-> name, topology |-> [k \in {"zone"} |-> zone],
   capacity |-> [cpu |-> cpu, gpu |-> gpu]]

Request(name, replicas, cpu, gpu, key) ==
  [name |-> name, replicas |-> replicas,
   resourcesPerReplica |-> [cpu |-> cpu, gpu |-> gpu], requiredTopology |-> key,
   arrivalTick |-> 0, durationTicks |-> 1]

MCClusters ==
  { << Node(2, 1, 3, 1), Node(1, 1, 1, 1), Node(3, 2, 2, 0) >>,
    << Node(1, 1, 4, 0), Node(2, 2, 3, 7) >>,       \* the totals are MaxInt64 = 7
    << Node(1, 1, 4, 0), Node(2, 2, 4, 0) >>,       \* a total overflows
    << Node(1, 0, 2, 1) >>, << >> }

Catalogue ==
  { <<2, 1, 0, "zone">>, <<1, 2, 0, "">>, <<3, 1, 0, "zone">>, <<2, 1, 1, "">>,
    <<1, 0, 1, "">>, <<4, 1, 0, "zone">>, <<7, 0, 1, "zone">>, <<4, 1, 0, "">> }

JobSetsOf(catalogue, sizes) ==
  UNION {{[i \in 1 .. size |-> Request(i, shape[i][1], shape[i][2], shape[i][3], shape[i][4])] :
            shape \in [1 .. size -> catalogue]} : size \in sizes}

MCJobSets ==
  JobSetsOf(Catalogue, {0, 1, 3})
    \cup JobSetsOf({<<2, 1, 0, "zone">>, <<1, 2, 0, "">>, <<2, 1, 1, "">>, <<4, 1, 0, "">>}, {4})
    \cup JobSetsOf({<<4, 2, 0, "">>, <<1, 0, 0, "">>, <<0, 1, 0, "">>}, {1})
    \cup { << Request(1, 1, 1, 0, ""), Request(1, 1, 1, 0, "") >> }

MCPolicyNames == {"strict-fifo", "backfill", "all"}
=============================================================================
