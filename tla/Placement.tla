------------------------------ MODULE Placement ------------------------------
(***************************************************************************)
(* placeJob (src/internal/scheduler/placement.go): where one job goes on   *)
(* the current node states, or why it goes nowhere.                        *)
(*                                                                         *)
(* The []nodeState slice is split into `nodes`, the immutable part, and    *)
(* `remaining`; both are functions of the node name, because the slice is  *)
(* only ever walked in name order.  A []Allocation is a function from the  *)
(* nodes used to the replicas placed there: the slice is sorted by node    *)
(* name and names a node once.                                             *)
(*                                                                         *)
(* placeJob looks at its context only before it consumes anything, so      *)
(* cancellation is left to the modules that call it.                       *)
(***************************************************************************)
EXTENDS TopoModel

GlobalTopologyDomain == -1

\* Fault: the GPU limit is forgotten when the CPU limits too.
AvailableReplicaSlotsCPUOnly(remaining, perReplica) ==
  LET d == IF perReplica["cpu"] > 0 THEN "cpu" ELSE "gpu"
  IN  remaining[d] \div perReplica[d]

\* Replicas of a request that fit in what remains of one node.  Go's division
\* truncates and \div rounds down: they agree because remaining is never negative.
AvailableReplicaSlots(remaining, perReplica) ==
  LET limits == {remaining[d] \div perReplica[d] :
                   d \in {e \in Dim : perReplica[e] > 0}}
  IN  IF limits = {} THEN 0 ELSE Min(limits)

NodeSlots(remaining, job) ==
  [n \in DOMAIN remaining |->
     AvailableReplicaSlots(remaining[n], job.resourcesPerReplica)]

\* Fault: the required topology is ignored.
BuildDomainsGlobal(nodes, key) == [d \in {GlobalTopologyDomain} |-> DOMAIN nodes]

\* The domains a job may be placed in, each with its nodes.
BuildDomains(nodes, key) ==
  IF key = NoTopology
  THEN [d \in {GlobalTopologyDomain} |-> DOMAIN nodes]
  ELSE [d \in {Label(nodes[n].topology, key) : n \in DOMAIN nodes} |->
          {n \in DOMAIN nodes : Label(nodes[n].topology, key) = d}]

DomainSlots(slots, domains) ==
  [d \in DOMAIN domains |-> SumFunctionOnSet(slots, domains[d])]

\* Fault: the last of the largest domains in lexical order.
LargestAvailableDomainLast(domainSlots) ==
  LET most == Max(Range(domainSlots) \cup {0})
  IN  [domain |-> Max({d \in DOMAIN domainSlots : domainSlots[d] = most} \cup {EmptyName}),
       slots  |-> most]

\* The largest domain; the first in lexical order when several are.
LargestAvailableDomain(domainSlots) ==
  IF DOMAIN domainSlots = {}
  THEN [domain |-> EmptyName, slots |-> 0]
  ELSE LET most == Max(Range(domainSlots))
       IN  [domain |-> Min({d \in DOMAIN domainSlots : domainSlots[d] = most}),
            slots  |-> most]

\* Fault: nodes are filled in name order.
PackedBeforeByName(slots, m, n) == m < n

\* Nodes are filled in the order of their slots, most first, then by name.
PackedBefore(slots, m, n) ==
  \/ slots[m] > slots[n]
  \/ slots[m] = slots[n] /\ m < n

\* Fill the nodes in that order until every replica is placed.  Unplaced is
\* what is left when the packing reaches node n.
CompactPacking(slots, members, replicas) ==
  LET Earlier(n) == {m \in members : PackedBefore(slots, m, n)}
      Unplaced(n) == replicas - SumFunctionOnSet(slots, Earlier(n))
  IN  [n \in {m \in members : slots[m] # 0 /\ Unplaced(m) > 0} |->
         IF slots[n] < Unplaced(n) THEN slots[n] ELSE Unplaced(n)]

\* Fault: a domain that is just large enough is passed over.
CandidatesWithSpare(slots, domains, replicas) ==
  [d \in {e \in DOMAIN domains :
            SumFunctionOnSet(slots, domains[e]) > replicas} |->
     CompactPacking(slots, domains[d], replicas)]

\* Fault: a domain that is one slot short is a candidate.
CandidatesShort(slots, domains, replicas) ==
  [d \in {e \in DOMAIN domains :
            SumFunctionOnSet(slots, domains[e]) + 1 >= replicas} |->
     CompactPacking(slots, domains[d], replicas)]

\* The packing of every domain with enough slots: the candidates.
Candidates(slots, domains, replicas) ==
  [d \in {e \in DOMAIN domains :
            SumFunctionOnSet(slots, domains[e]) >= replicas} |->
     CompactPacking(slots, domains[d], replicas)]

\* Fault: fewest nodes before best fit.
PreferredFewestNodes(domainSlots, candidates, c, d) ==
  LET NodesUsed(e) == Cardinality(DOMAIN candidates[e])
  IN  \/ NodesUsed(c) < NodesUsed(d)
      \/ /\ NodesUsed(c) = NodesUsed(d)
         /\ \/ domainSlots[c] < domainSlots[d]
            \/ domainSlots[c] = domainSlots[d] /\ c < d

\* Fault: domains alike in slots and nodes have no order.
PreferredUntied(domainSlots, candidates, c, d) ==
  LET NodesUsed(e) == Cardinality(DOMAIN candidates[e])
  IN  \/ domainSlots[c] < domainSlots[d]
      \/ domainSlots[c] = domainSlots[d] /\ NodesUsed(c) < NodesUsed(d)

\* The comparison candidates are sorted by: best fit, fewest nodes, name.
Preferred(domainSlots, candidates, c, d) ==
  LET NodesUsed(e) == Cardinality(DOMAIN candidates[e])
  IN  \/ domainSlots[c] < domainSlots[d]
      \/ /\ domainSlots[c] = domainSlots[d]
         /\ \/ NodesUsed(c) < NodesUsed(d)
            \/ NodesUsed(c) = NodesUsed(d) /\ c < d

\* The candidates sorting may put first.  sort.Slice is not stable: elements
\* its comparison does not tell apart could come first in any order.
Selectable(domainSlots, candidates) ==
  {c \in DOMAIN candidates :
     \A d \in DOMAIN candidates : ~ Preferred(domainSlots, candidates, d, c)}

(***************************************************************************)
(* The three kinds of outcome of placeJob.                                 *)
(***************************************************************************)
Placed(domain, allocation) ==
  [kind |-> "placed", domain |-> domain, allocation |-> allocation]

Rejected(reason) == [kind |-> "rejected", reason |-> reason]

PlacementFailed == [kind |-> "error"]

InsufficientCapacity(clusterSlots) ==
  [code |-> "insufficient_capacity", availableClusterSlots |-> clusterSlots]

TopologyFragmented(key, clusterSlots, largest) ==
  [code |-> "topology_fragmented", topologyKey |-> key,
   totalAvailableSlots |-> clusterSlots,
   largestDomain |-> largest.domain, largestDomainSlots |-> largest.slots]

\* Why a job without a candidate domain goes nowhere.
Refusal(domainSlots, clusterSlots, job) ==
  IF clusterSlots < job.replicas
  THEN Rejected(InsufficientCapacity(clusterSlots))
  ELSE IF job.requiredTopology = NoTopology
       THEN PlacementFailed
       ELSE Rejected(TopologyFragmented(job.requiredTopology, clusterSlots,
                                        LargestAvailableDomain(domainSlots)))

\* The outcomes placeJob can return: an error if a packing leaves replicas
\* unplaced, a refusal if no domain is large enough, else the selected domain.
PlaceJob(nodes, remaining, job) ==
  LET slots        == NodeSlots(remaining, job)
      clusterSlots == SumFunctionOnSet(slots, DOMAIN nodes)
      domains      == BuildDomains(nodes, job.requiredTopology)
      domainSlots  == DomainSlots(slots, domains)
      candidates   == Candidates(slots, domains, job.replicas)
  IN  IF \E c \in DOMAIN candidates : SumFunction(candidates[c]) # job.replicas
      THEN {PlacementFailed}
      ELSE IF DOMAIN candidates = {}
           THEN {Refusal(domainSlots, clusterSlots, job)}
           ELSE {Placed(c, candidates[c]) : c \in Selectable(domainSlots, candidates)}

\* Fault: only CPUs are charged.
ConsumedCPU(remaining, job, allocation) ==
  [n \in DOMAIN remaining |->
     IF n \notin DOMAIN allocation THEN remaining[n]
     ELSE [remaining[n] EXCEPT !["cpu"] =
             @ - job.resourcesPerReplica["cpu"] * allocation[n]]]

\* What remains after the nodes of an allocation have been charged for it.
Consumed(remaining, job, allocation) ==
  [n \in DOMAIN remaining |->
     IF n \notin DOMAIN allocation THEN remaining[n]
     ELSE [d \in Dim |-> remaining[n][d]
             - ResourcesForReplicas(job.resourcesPerReplica, allocation[n])[d]]]
=============================================================================
