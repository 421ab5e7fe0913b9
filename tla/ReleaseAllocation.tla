-------------------------- MODULE ReleaseAllocation --------------------------
(***************************************************************************)
(* releaseAllocation (src/internal/scheduler/state.go), step by step: one  *)
(* action is one iteration of one of its loops.  Node states and           *)
(* allocations are slices here, which may name a node twice.  Simulation   *)
(* uses the operators of module Release instead; AgreesWithRelease says    *)
(* that they are what this procedure computes.                             *)
(***************************************************************************)
EXTENDS Release

CONSTANTS
  NodeStates,     \* the []nodeState it may be called with
  ReleasedJobs,   \* the jobs
  Allocations     \* the []Allocation

\* Any list of node states, any job and any list of entries, valid or not.
NodeState == [name : Nat, capacity : Resources, remaining : Resources]
Allocation == [node : Nat, replicas : Int64]

ASSUME NodeStatesAssumption == \A slice \in NodeStates : slice \in Seq(NodeState)
ASSUME ReleasedJobsAssumption ==
  \A released \in ReleasedJobs :
    released.replicas \in Int64 /\ released.resourcesPerReplica \in Resources
ASSUME AllocationsAssumption == \A slice \in Allocations : slice \in Seq(Allocation)

VARIABLES
  nodes, job, allocation,   \* the arguments; nodes[k].remaining is written to
  given,                    \* nodes as they were passed
  pc, failed,
  allocatedReplicas,        \* of the entries of the allocation looked at
  releases                  \* []pendingRelease

argumentVars == <<job, allocation, given>>
vars == <<nodes, argumentVars, pc, failed, allocatedReplicas, releases>>

Init ==
  /\ nodes \in NodeStates /\ job \in ReleasedJobs /\ allocation \in Allocations
  /\ given = nodes
  /\ pc = "job" /\ failed = FALSE
  /\ allocatedReplicas = 0 /\ releases = <<>>

Reject ==
  /\ failed' = TRUE /\ pc' = "returned"
  /\ UNCHANGED <<nodes, argumentVars, allocatedReplicas, releases>>

Goto(step) ==
  /\ pc' = step
  /\ UNCHANGED <<nodes, argumentVars, failed, allocatedReplicas, releases>>

-----------------------------------------------------------------------------
ReleasableJob ==
  /\ job.replicas > 0
  /\ \A d \in Dim : job.resourcesPerReplica[d] >= 0
  /\ \E d \in Dim : job.resourcesPerReplica[d] # 0

ConsistentState ==
  /\ \A k, l \in DOMAIN nodes : nodes[k].name = nodes[l].name => k = l
  /\ \A k \in DOMAIN nodes :
       ValidateNodeResourceState(nodes[k].capacity, nodes[k].remaining)

CheckState ==
  /\ pc = "job"
  /\ IF ReleasableJob /\ ConsistentState THEN Goto("allocation") ELSE Reject

\* The entry of the allocation this iteration looks at, and its node.
ThisEntry == allocation[Len(releases) + 1]
EntriesLeft == Len(releases) < Len(allocation)
NodeIndexes(name) == {k \in DOMAIN nodes : nodes[k].name = name}

Consumption(k, d) == nodes[k].capacity[d] - nodes[k].remaining[d]

\* Fault: a node may be named twice.
EntryAcceptedTwice(entry) ==
  /\ entry.replicas > 0
  /\ NodeIndexes(entry.node) # {}
  /\ allocatedReplicas <= MaxInt64 - entry.replicas
  /\ ResourcesForReplicasFit(job.resourcesPerReplica, entry.replicas)
  /\ \A k \in NodeIndexes(entry.node), d \in Dim :
       ResourcesForReplicas(job.resourcesPerReplica, entry.replicas)[d] <= Consumption(k, d)

EntryAccepted(entry) ==
  /\ entry.replicas > 0
  /\ NodeIndexes(entry.node) # {}
  /\ \A l \in DOMAIN releases : allocation[l].node # entry.node
  /\ allocatedReplicas <= MaxInt64 - entry.replicas
  /\ ResourcesForReplicasFit(job.resourcesPerReplica, entry.replicas)
  /\ \A k \in NodeIndexes(entry.node), d \in Dim :
       ResourcesForReplicas(job.resourcesPerReplica, entry.replicas)[d] <= Consumption(k, d)

CheckEntry ==
  /\ pc = "allocation" /\ EntriesLeft
  /\ \/ ~ EntryAccepted(ThisEntry) /\ Reject
     \/ /\ EntryAccepted(ThisEntry)
        /\ allocatedReplicas' = allocatedReplicas + ThisEntry.replicas
        /\ releases' = Append(releases,
             [node |-> CHOOSE k \in NodeIndexes(ThisEntry.node) : TRUE,
              resources |-> ResourcesForReplicas(job.resourcesPerReplica,
                                                 ThisEntry.replicas)])
        /\ UNCHANGED <<nodes, argumentVars, pc, failed>>

CheckTotal ==
  /\ pc = "allocation" /\ ~ EntriesLeft
  /\ IF allocatedReplicas # job.replicas THEN Reject ELSE Goto("apply")

Apply ==
  /\ pc = "apply" /\ releases # <<>>
  /\ nodes' = [nodes EXCEPT ![Head(releases).node].remaining =
                 [d \in Dim |-> @[d] + Head(releases).resources[d]]]
  /\ releases' = Tail(releases)
  /\ UNCHANGED <<argumentVars, pc, failed, allocatedReplicas>>

Applied == pc = "apply" /\ releases = <<>> /\ Goto("returned")

Returned == pc = "returned" /\ UNCHANGED vars

Next == CheckState \/ CheckEntry \/ CheckTotal \/ Apply \/ Applied \/ Returned

Spec == Init /\ [][Next]_vars

-----------------------------------------------------------------------------
(***************************************************************************)
(* The procedure computes what module Release says: it accepts exactly the *)
(* slices that are functions of the node, with a release that is accepted  *)
(* there, and leaves the nodes as there.  A release it rejects, for the    *)
(* last entry or for the total, has changed no node.                       *)
(***************************************************************************)
IsFunctionOf(slice, name(_)) ==
  \A k, l \in DOMAIN slice : name(slice[k]) = name(slice[l]) => k = l

ByName(slice, name(_), value(_)) ==
  [x \in {name(slice[k]) : k \in DOMAIN slice} |->
     value(slice[CHOOSE k \in DOMAIN slice : name(slice[k]) = x])]

NodeName(node) == node.name
Remaining(node) == node.remaining
Node(node) == node
EntryNode(entry) == entry.node
EntryReplicas(entry) == entry.replicas

RemainingByNode(slice) == ByName(slice, NodeName, Remaining)
AllocationByNode == ByName(allocation, EntryNode, EntryReplicas)

ShouldAccept ==
  /\ IsFunctionOf(given, NodeName) /\ IsFunctionOf(allocation, EntryNode)
  /\ ReleaseAccepted(ByName(given, NodeName, Node), RemainingByNode(given),
                     job, AllocationByNode)

AgreesWithRelease ==
  pc = "returned" =>
    /\ failed <=> ~ ShouldAccept
    /\ failed => nodes = given
    /\ ~ failed =>
         RemainingByNode(nodes) = Released(RemainingByNode(given), job, AllocationByNode)
=============================================================================
