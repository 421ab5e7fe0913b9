------------------------------ MODULE Scheduler ------------------------------
(***************************************************************************)
(* What src/internal/scheduler/scheduler.go gives to both schedulers: the  *)
(* node states a cluster starts with and the reason for a job behind a     *)
(* blocked head of the queue.                                              *)
(***************************************************************************)
EXTENDS Placement, QueuePolicies

NoReason == [code |-> "none"]
HeadOfLineReason(name) == [code |-> "head_of_line_blocked", blockingJob |-> name]

\* makeNodeStates: one state per node of the cluster.
MakeNodeStates(cluster) ==
  [n \in {cluster[k].name : k \in DOMAIN cluster} |->
     LET node == cluster[CHOOSE k \in DOMAIN cluster : cluster[k].name = n]
     IN  [topology |-> node.topology, capacity |-> node.capacity]]

IdleResources(nodes) == [n \in DOMAIN nodes |-> nodes[n].capacity]

\* Types: a nodeState's immutable part, the domains and the reasons reported.
NodeInfo == [topology : Topologies, capacity : [Dim -> NonNegInt64]]
Domains == Nat \cup {GlobalTopologyDomain}
ReasonCodes == {NoReason.code, "insufficient_capacity", "topology_fragmented",
                "head_of_line_blocked"}
=============================================================================
