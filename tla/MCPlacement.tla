----------------------------- MODULE MCPlacement -----------------------------
(***************************************************************************)
(* Instances of PlacementProperties for TLC: every way to use up four      *)
(* nodes in two zones, and jobs of every shape.                            *)
(***************************************************************************)
EXTENDS PlacementProperties

MCTopologyKeys == {"zone"}

\* Zone 1 has nodes 2 and 3, zone 2 has nodes 1 and 4.
ZoneOf == << 2, 1, 1, 2 >>
MostCPU == << 3, 2, 3, 1 >>
MostGPU == << 1, 2, 0, 1 >>

MCNodes ==
  [n \in 1 .. 4 |-> [topology |-> [k \in {"zone"} |-> ZoneOf[n]],
                     capacity |-> [cpu |-> MostCPU[n], gpu |-> MostGPU[n]]]]

MCNodeStates ==
  {[nodes |-> MCNodes,
    remaining |-> [n \in 1 .. 4 |-> [cpu |-> cpu[n], gpu |-> gpu[n]]]] :
     cpu \in {f \in [1 .. 4 -> 0 .. 3] : \A n \in 1 .. 4 : f[n] <= MostCPU[n]},
     gpu \in {g \in [1 .. 4 -> 0 .. 2] : \A n \in 1 .. 4 : g[n] <= MostGPU[n]}}

Request(replicas, cpu, gpu, key) ==
  [name |-> 1, replicas |-> replicas,
   resourcesPerReplica |-> [cpu |-> cpu, gpu |-> gpu], requiredTopology |-> key,
   arrivalTick |-> 0, durationTicks |-> 1]

MCJobs ==
  { Request(1, 1, 1, "zone"), Request(2, 1, 0, "zone"), Request(3, 1, 0, "zone"),
    Request(2, 1, 1, "zone"), Request(2, 2, 0, "zone"), Request(2, 0, 1, "zone"),
    Request(3, 1, 0, ""), Request(5, 1, 0, ""), Request(2, 2, 1, "") }
=============================================================================
