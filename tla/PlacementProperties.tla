------------------------- MODULE PlacementProperties -------------------------
(***************************************************************************)
(* One call of placeJob on node states and a job chosen at the start, and  *)
(* what its outcome promises, stated against module Feasibility: every     *)
(* spread of the job over the cluster, not the slots and the greedy        *)
(* packing the code computes.                                              *)
(***************************************************************************)
EXTENDS Scheduler, Release, Feasibility

CONSTANTS
  NodeStates,   \* the pairs of nodes and remaining to place on
  Jobs          \* the jobs to place

\* What ValidateCluster and ValidateJobs have established before placeJob is
\* called, and what the schedulers keep true of the resources that remain.
ASSUME NodeStatesAssumption ==
  \A state \in NodeStates :
    LET names == DOMAIN state.nodes
    IN  /\ IsFiniteSet(names) /\ names \subseteq Nat
        /\ state.nodes \in [names -> NodeInfo]
        /\ state.remaining \in [names -> [Dim -> NonNegInt64]]
        /\ \A n \in names, d \in Dim :
             state.remaining[n][d] <= state.nodes[n].capacity[d]

ASSUME JobsAssumption == \A j \in Jobs : j \in Job /\ ValidateJobs(<<j>>)

VARIABLES nodes, remaining, job, outcome
vars == <<nodes, remaining, job, outcome>>

NotCalled == [kind |-> "none"]

Init ==
  /\ \E state \in NodeStates :
       nodes = state.nodes /\ remaining = state.remaining
  /\ job \in Jobs
  /\ outcome = NotCalled

Call ==
  /\ outcome = NotCalled
  /\ outcome' \in PlaceJob(nodes, remaining, job)
  /\ remaining' = IF outcome'.kind = "placed"
                  THEN Consumed(remaining, job, outcome'.allocation) ELSE remaining
  /\ UNCHANGED <<nodes, job>>

Return == outcome # NotCalled /\ UNCHANGED vars

Next == Call \/ Return

Spec == Init /\ [][Next]_vars

-----------------------------------------------------------------------------
(***************************************************************************)
(* References.                                                             *)
(***************************************************************************)
NodesUsedBy(spread) == {n \in DOMAIN spread : spread[n] > 0}

\* The most replicas of the job that the nodes of a set can host, each node
\* being charged at most what it has left.
HostableOn(n) ==
  Max({k \in 0 .. MaxInt64 :
         \A d \in Dim : k * job.resourcesPerReplica[d] <= remaining[n][d]})
Hostable(members) == SumFunction([n \in members |-> HostableOn(n)])

DomainsOf(key) == {Label(nodes[n].topology, key) : n \in DOMAIN nodes}
MembersOf(key, d) ==
  IF key = NoTopology THEN DOMAIN nodes
  ELSE {n \in DOMAIN nodes : Label(nodes[n].topology, key) = d}

\* The fewest nodes a spread over members can use.
FewestNodes(members) ==
  Min({Cardinality(NodesUsedBy(spread)) : spread \in Spreads(members, remaining, job)})

-----------------------------------------------------------------------------
(***************************************************************************)
(* A job is placed if and only if some spread of it over one topology      *)
(* domain exists; placeJob never fails with an error.                      *)
(***************************************************************************)
PlacedIffFeasible ==
  outcome = NotCalled =>
    \A result \in PlaceJob(nodes, remaining, job) :
      result.kind = IF Feasible(nodes, remaining, job) THEN "placed" ELSE "rejected"

(***************************************************************************)
(* What placeJob selects is a spread the nodes can take, and among those   *)
(* of its domain it uses the fewest nodes: filling the largest node first  *)
(* is optimal.                                                             *)
(***************************************************************************)
PackingIsSoundAndCompact ==
  outcome = NotCalled =>
    \A result \in PlaceJob(nodes, remaining, job) :
      result.kind = "placed" =>
        LET members == MembersOf(job.requiredTopology, result.domain)
            used    == DOMAIN result.allocation
        IN  /\ used \subseteq members
            /\ [n \in members |-> IF n \in used THEN result.allocation[n] ELSE 0]
                 \in Spreads(members, remaining, job)
            /\ Cardinality(used) = FewestNodes(members)
            /\ \A n \in used : result.allocation[n] > 0

(***************************************************************************)
(* The selected domain is the best fit: it can host the fewest replicas of *)
(* those that can host the job; then it needs the fewest nodes; then it is *)
(* the first by name.                                                      *)
(***************************************************************************)
BestFitDomain ==
  outcome = NotCalled /\ job.requiredTopology # NoTopology =>
    \A result \in PlaceJob(nodes, remaining, job) :
      result.kind = "placed" =>
        \A d \in DomainsOf(job.requiredTopology) \ {result.domain} :
          LET mine   == MembersOf(job.requiredTopology, result.domain)
              others == MembersOf(job.requiredTopology, d)
          IN  Spreads(others, remaining, job) # {} =>
                \/ Hostable(mine) < Hostable(others)
                \/ /\ Hostable(mine) = Hostable(others)
                   /\ \/ FewestNodes(mine) < FewestNodes(others)
                      \/ /\ FewestNodes(mine) = FewestNodes(others)
                         /\ result.domain < d

(***************************************************************************)
(* Placement is deterministic although sort.Slice is not stable: there is  *)
(* exactly one candidate the sort can put first.                           *)
(***************************************************************************)
OneOutcome ==
  outcome = NotCalled => Cardinality(PlaceJob(nodes, remaining, job)) = 1

(***************************************************************************)
(* The reason of a refusal is the right one, with the right numbers: a     *)
(* job is "fragmented" exactly when only its topology requirement keeps it *)
(* out, and the largest domain named is the first that hosts most.         *)
(***************************************************************************)
ReasonIsExact ==
  outcome = NotCalled =>
    \A result \in PlaceJob(nodes, remaining, job) :
      result.kind = "rejected" =>
        LET reason == result.reason
            domains == DomainsOf(job.requiredTopology)
            HostableIn(d) == Hostable(MembersOf(job.requiredTopology, d))
        IN  IF Feasible(nodes, remaining, [job EXCEPT !.requiredTopology = NoTopology])
            THEN /\ reason.code = "topology_fragmented"
                 /\ reason.totalAvailableSlots = Hostable(DOMAIN nodes)
                 /\ reason.largestDomainSlots = HostableIn(reason.largestDomain)
                 /\ reason.largestDomain \in domains
                 /\ \A d \in domains \ {reason.largestDomain} :
                      \/ HostableIn(d) < reason.largestDomainSlots
                      \/ /\ HostableIn(d) = reason.largestDomainSlots
                         /\ reason.largestDomain < d
            ELSE /\ reason.code = "insufficient_capacity"
                 /\ reason.availableClusterSlots = Hostable(DOMAIN nodes)

(***************************************************************************)
(* The rollback tryAdmit and finalPlacementReason rely on: the release of  *)
(* what was just placed is accepted and restores every node exactly.       *)
(***************************************************************************)
RollbackRestores ==
  outcome = NotCalled =>
    \A result \in PlaceJob(nodes, remaining, job) :
      result.kind = "placed" =>
        LET charged == Consumed(remaining, job, result.allocation)
        IN  /\ ReleaseAccepted(nodes, charged, job, result.allocation)
            /\ Released(charged, job, result.allocation) = remaining
=============================================================================
