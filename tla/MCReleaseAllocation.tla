------------------------- MODULE MCReleaseAllocation -------------------------
(***************************************************************************)
(* Instances of ReleaseAllocation for TLC: consistent and inconsistent     *)
(* states of two nodes, valid and invalid jobs, every allocation of up to  *)
(* two entries over two known nodes and one unknown, and some of three.    *)
(***************************************************************************)
EXTENDS ReleaseAllocation

MCTopologyKeys == {"zone"}

Usage(cpu, gpu) == [cpu |-> cpu, gpu |-> gpu]

State(name, capacity, remaining) ==
  [name |-> name, capacity |-> capacity, remaining |-> remaining]

MCNodeStates ==
  {<< State(1, Usage(3, 3), Usage(cpu, 1)), State(2, Usage(2, 0), Usage(0, gpu)) >> :
     cpu \in -1 .. 4, gpu \in 0 .. 1}
    \cup { << State(1, Usage(3, 3), Usage(0, 0)), State(1, Usage(2, 0), Usage(0, 0)) >>,
           << State(1, Usage(-1, 0), Usage(-1, 0)) >>, << >> }

Request(replicas, cpu, gpu) ==
  [name |-> 1, replicas |-> replicas, resourcesPerReplica |-> Usage(cpu, gpu)]

MCReleasedJobs ==
  { Request(replicas, cpu, 1) : replicas \in 0 .. 4, cpu \in -1 .. 2 }
    \cup { Request(2, 1, 0), Request(2, 0, 0), Request(2, 1, -1), Request(1, 3, 0) }

Entries == [node : 1 .. 3, replicas : {0, 1, 2, 3}]
MCAllocations == UNION {[1 .. size -> Entries] : size \in 0 .. 2}
                   \cup [1 .. 3 -> [node : 1 .. 2, replicas : {1, 3}]]
=============================================================================
