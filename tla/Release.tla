------------------------------- MODULE Release -------------------------------
(***************************************************************************)
(* releaseAllocation (src/internal/scheduler/state.go): give the resources *)
(* of an allocation back to the nodes that supplied them.  The function    *)
(* validates the whole release before it changes any node, so it is a      *)
(* predicate (no error is returned) and the node states that result.       *)
(*                                                                         *)
(* Node states and allocations are represented as in module Placement, so  *)
(* a duplicate node, of the state or of the allocation, has no             *)
(* representation here.                                                    *)
(***************************************************************************)
EXTENDS TopoModel

ValidateNodeResourceState(capacity, remaining) ==
  \A d \in Dim : /\ capacity[d] >= 0
                 /\ remaining[d] >= 0
                 /\ remaining[d] <= capacity[d]

\* checkedResourcesForReplicas returns no error.
ResourcesForReplicasFit(perReplica, k) ==
  /\ k > 0
  /\ \A d \in Dim : perReplica[d] > 0 => k <= MaxInt64 \div perReplica[d]

ReleaseAccepted(nodes, remaining, job, allocation) ==
  LET request == job.resourcesPerReplica
  IN  /\ job.replicas > 0
      /\ \A d \in Dim : request[d] >= 0
      /\ \E d \in Dim : request[d] # 0
      /\ \A n \in DOMAIN nodes :
           ValidateNodeResourceState(nodes[n].capacity, remaining[n])
      /\ DOMAIN allocation \subseteq DOMAIN nodes
      /\ \A n \in DOMAIN allocation :
           /\ ResourcesForReplicasFit(request, allocation[n])
           /\ \A d \in Dim : ResourcesForReplicas(request, allocation[n])[d]
                               <= nodes[n].capacity[d] - remaining[n][d]
      /\ SumFunction(allocation) = job.replicas

\* Fault: every node gets back one replica.
ReleasedOnce(remaining, job, allocation) ==
  [n \in DOMAIN remaining |->
     IF n \notin DOMAIN allocation THEN remaining[n]
     ELSE [d \in Dim |-> remaining[n][d] + job.resourcesPerReplica[d]]]

Released(remaining, job, allocation) ==
  [n \in DOMAIN remaining |->
     IF n \notin DOMAIN allocation THEN remaining[n]
     ELSE [d \in Dim |-> remaining[n][d]
             + ResourcesForReplicas(job.resourcesPerReplica, allocation[n])[d]]]
=============================================================================
