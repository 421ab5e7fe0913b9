-------------------------- MODULE PlacementTheorems --------------------------
(***************************************************************************)
(* What one call of placeJob promises, for every cluster, every state of   *)
(* its nodes and every valid job.                                          *)
(***************************************************************************)
EXTENDS PlacementProperties, PlacementProofs

\* What a call starts from.
InputOK ==
  /\ PlacementInput(nodes, remaining, job)
  /\ nodes \in [DOMAIN nodes -> NodeInfo]
  /\ \A n \in DOMAIN nodes, d \in Dim : remaining[n][d] <= nodes[n].capacity[d]
  /\ job \in Job

CallInv == outcome = NotCalled => InputOK

LEMMA InitInput == Init => InputOK
<1> SUFFICES ASSUME Init PROVE InputOK
  OBVIOUS
<1>1. PICK state \in NodeStates : nodes = state.nodes /\ remaining = state.remaining
  BY DEF Init
<1>2. job \in Job /\ ValidateJobs(<<job>>)
  BY JobsAssumption DEF Init
<1>3. /\ job.replicas \in PosInt64
      /\ job.resourcesPerReplica \in [Dim -> Nat]
      /\ \E d \in Dim : job.resourcesPerReplica[d] # 0
  <2>1. PICK jobs : jobs = <<job>>
    OBVIOUS
  <2>2. jobs \in Seq(Job) /\ 1 \in DOMAIN jobs /\ jobs[1] = job /\ ValidateJobs(jobs)
    BY <1>2, <2>1
  <2> QED BY <2>2, ValidStaticJob
<1> QED BY <1>1, <1>2, <1>3, NodeStatesAssumption DEF InputOK, PlacementInput

LEMMA CallInvStep == CallInv /\ [Next]_vars => CallInv'
<1> SUFFICES ASSUME CallInv, [Next]_vars, outcome' = NotCalled PROVE InputOK'
  BY DEF CallInv
<1>1. CASE Call
  <2>1. outcome'.kind # "placed"
    BY DEF NotCalled
  <2>2. UNCHANGED <<nodes, remaining, job>> /\ outcome = NotCalled
    BY <1>1, <2>1 DEF Call
  <2> QED BY <2>2 DEF CallInv, InputOK
<1>2. CASE Return \/ UNCHANGED vars
  <2>1. UNCHANGED <<nodes, remaining, job, outcome>>
    BY <1>2 DEF Return, vars
  <2> QED BY <2>1 DEF CallInv, InputOK
<1> QED BY <1>1, <1>2 DEF Next

\* In every state before the call, its input is as validated.
THEOREM InputAlwaysOK == Spec => []CallInv
<1>1. Init => CallInv
  BY InitInput DEF CallInv
<1> QED BY <1>1, CallInvStep, PTL DEF Spec

LEMMA NamesAreNumbers ==
  InputOK => /\ DOMAIN BuildDomains(nodes, job.requiredTopology) \subseteq Int
             /\ job.requiredTopology # NoTopology =>
                  DOMAIN BuildDomains(nodes, job.requiredTopology) \subseteq Nat
<1> SUFFICES ASSUME InputOK
             PROVE  /\ DOMAIN BuildDomains(nodes, job.requiredTopology) \subseteq Int
                    /\ job.requiredTopology # NoTopology =>
                         DOMAIN BuildDomains(nodes, job.requiredTopology) \subseteq Nat
  OBVIOUS
<1>0. job.requiredTopology \in TopologyKeys \cup {NoTopology}
  BY DEF InputOK, Job
<1>1. \A d \in DOMAIN BuildDomains(nodes, job.requiredTopology) : d \in Domains
  BY <1>0, DomainType DEF InputOK
<1>2. \A d \in Domains : d \in Int
  BY DEF Domains, GlobalTopologyDomain
<1>3. ASSUME job.requiredTopology # NoTopology,
             NEW d \in DOMAIN BuildDomains(nodes, job.requiredTopology)
      PROVE  d \in Nat
  <2>1. PICK n \in DOMAIN nodes : d = Label(nodes[n].topology, job.requiredTopology)
    BY <1>3 DEF BuildDomains
  <2>2. nodes[n].topology[job.requiredTopology] \in Nat \cup {MissingKey}
    BY <1>0, <1>3 DEF InputOK, NodeInfo, Topologies
  <2> QED BY <2>1, <2>2 DEF Label, EmptyName
<1> QED BY <1>1, <1>2, <1>3

-----------------------------------------------------------------------------
(***************************************************************************)
(* A job is placed if and only if it fits, and placeJob never fails.       *)
(***************************************************************************)
THEOREM PlacesWhatFits == Spec => []PlacedIffFeasible
<1>1. CallInv => PlacedIffFeasible
  BY PlacedExactlyWhenFeasible DEF CallInv, InputOK, PlacedIffFeasible
<1> QED BY <1>1, InputAlwaysOK, PTL

(***************************************************************************)
(* Placement is deterministic.                                             *)
(***************************************************************************)
THEOREM PlacementIsDeterministic == Spec => []OneOutcome
<1>1. CallInv => OneOutcome
  <2> SUFFICES ASSUME InputOK PROVE Cardinality(PlaceJob(nodes, remaining, job)) = 1
    BY DEF CallInv, OneOutcome
  <2>1. PICK one : PlaceJob(nodes, remaining, job) = {one}
    BY NamesAreNumbers, OutcomeIsBest DEF InputOK
  <2> QED BY <2>1, FS_Singleton
<1> QED BY <1>1, InputAlwaysOK, PTL

\* The domain of a placement, its members and its packing.
LEMMA PlacedPacking ==
  ASSUME InputOK, NEW result \in PlaceJob(nodes, remaining, job), result.kind = "placed"
  PROVE  LET slots == NodeSlots(remaining, job)
             members == MembersOf(job.requiredTopology, result.domain)
         IN  /\ result.domain \in DOMAIN CandidatesOf(nodes, remaining, job)
             /\ result.domain \in DOMAIN BuildDomains(nodes, job.requiredTopology)
             /\ members = BuildDomains(nodes, job.requiredTopology)[result.domain]
             /\ members \in SUBSET DOMAIN nodes
             /\ SumFunctionOnSet(slots, members) >= job.replicas
             /\ result.allocation = CandidatesOf(nodes, remaining, job)[result.domain]
             /\ result.allocation = CompactPacking(slots, members, job.replicas)
<1> DEFINE domains == BuildDomains(nodes, job.requiredTopology)
           candidates == CandidatesOf(nodes, remaining, job)
<1>1. result.domain \in DOMAIN candidates /\ result.allocation = candidates[result.domain]
  BY NamesAreNumbers, OutcomeIsBest DEF InputOK
<1>2. /\ result.domain \in DOMAIN domains
      /\ domains[result.domain] \in SUBSET DOMAIN nodes
      /\ SumFunctionOnSet(NodeSlots(remaining, job), domains[result.domain]) >= job.replicas
      /\ candidates[result.domain]
           = CompactPacking(NodeSlots(remaining, job), domains[result.domain], job.replicas)
  BY <1>1, CandidatePackings DEF InputOK
<1>3. MembersOf(job.requiredTopology, result.domain) = domains[result.domain]
  <2>1. CASE job.requiredTopology = NoTopology
    BY <1>2, <2>1 DEF BuildDomains, MembersOf
  <2>2. CASE job.requiredTopology # NoTopology
    BY <1>2, <2>2 DEF BuildDomains, MembersOf
  <2> QED BY <2>1, <2>2
<1> HIDE DEF domains, candidates
<1> QED BY <1>1, <1>2, <1>3 DEF domains, candidates

\* FewestNodes is what the packing uses.
LEMMA FewestNodesUsed ==
  ASSUME InputOK, NEW members \in SUBSET DOMAIN nodes,
         SumFunctionOnSet(NodeSlots(remaining, job), members) >= job.replicas
  PROVE  FewestNodes(members)
           = Cardinality(DOMAIN CompactPacking(NodeSlots(remaining, job), members, job.replicas))
BY PackingUsesFewest DEF InputOK, FewestNodes, NodesUsedBy

(***************************************************************************)
(* What is selected is a spread its nodes can take, on the fewest nodes.   *)
(***************************************************************************)
THEOREM PackingIsBest == Spec => []PackingIsSoundAndCompact
<1>1. ASSUME InputOK, NEW result \in PlaceJob(nodes, remaining, job), result.kind = "placed"
      PROVE  LET members == MembersOf(job.requiredTopology, result.domain)
                 used    == DOMAIN result.allocation
             IN  /\ used \subseteq members
                 /\ [n \in members |-> IF n \in used THEN result.allocation[n] ELSE 0]
                      \in Spreads(members, remaining, job)
                 /\ Cardinality(used) = FewestNodes(members)
                 /\ \A n \in used : result.allocation[n] > 0
  <2>1. PICK members, packing :
          /\ members = MembersOf(job.requiredTopology, result.domain)
          /\ packing = result.allocation
    OBVIOUS
  <2>2. /\ members \in SUBSET DOMAIN nodes
        /\ SumFunctionOnSet(NodeSlots(remaining, job), members) >= job.replicas
        /\ packing = CompactPacking(NodeSlots(remaining, job), members, job.replicas)
    BY <1>1, <2>1, PlacedPacking
  <2>3. /\ DOMAIN packing \subseteq members
        /\ \A n \in DOMAIN packing : packing[n] \in Nat \ {0}
        /\ [n \in members |-> IF n \in DOMAIN packing THEN packing[n] ELSE 0]
             \in Spreads(members, remaining, job)
    BY <1>1, <2>2, PackingIsSpread DEF InputOK
  <2>4. Cardinality(DOMAIN packing) = FewestNodes(members)
    BY <1>1, <2>2, FewestNodesUsed
  <2>5. \A n \in DOMAIN packing : packing[n] > 0
    BY <2>3
  <2> QED BY <2>1, <2>3, <2>4, <2>5
<1>2. CallInv => PackingIsSoundAndCompact
  BY <1>1 DEF CallInv, PackingIsSoundAndCompact
<1> QED BY <1>2, InputAlwaysOK, PTL

-----------------------------------------------------------------------------
(***************************************************************************)
(* The domain selected.                                                    *)
(***************************************************************************)
\* Hostable adds up slots.
LEMMA HostableSlots ==
  ASSUME InputOK, NEW members \in SUBSET DOMAIN nodes
  PROVE  /\ Hostable(members) = SumFunctionOnSet(NodeSlots(remaining, job), members)
         /\ Hostable(members) \in Nat
<1> DEFINE hostable == [n \in members |-> HostableOn(n)]
           slots == NodeSlots(remaining, job)
<1>1. IsFiniteSet(members)
  BY FS_Subset DEF InputOK, PlacementInput
<1>2. \A n \in members : hostable[n] = slots[n]
  <2> HIDE DEF slots
  <2>1. ASSUME NEW n \in members PROVE HostableOn(n) = slots[n]
    BY SlotsAreMost DEF InputOK, HostableOn, slots
  <2> QED BY <2>1
<1>3. \A n \in members : slots[n] \in Nat
  BY SlotsExact DEF InputOK
<1>4. Hostable(members) = SumFunctionOnSet(hostable, members)
  BY DEF Hostable, SumFunction
<1> HIDE DEF hostable, slots
<1>5. SumFunctionOnSet(hostable, members) = SumFunctionOnSet(slots, members)
  BY <1>1, <1>2, SumSame
<1>6. SumFunctionOnSet(slots, members) \in Nat
  BY <1>1, <1>3, SumNonNegative
<1> QED BY <1>4, <1>5, <1>6 DEF slots

\* The domains of a key and their members are those placeJob builds.
LEMMA DomainMembers ==
  ASSUME InputOK, job.requiredTopology # NoTopology
  PROVE  LET domains == BuildDomains(nodes, job.requiredTopology)
         IN  /\ DomainsOf(job.requiredTopology) = DOMAIN domains
             /\ DOMAIN domains \subseteq Nat /\ IsFiniteSet(DOMAIN domains)
             /\ DOMAIN nodes # {} => DOMAIN domains # {}
             /\ \A d \in DOMAIN domains :
                  /\ MembersOf(job.requiredTopology, d) = domains[d]
                  /\ domains[d] \in SUBSET DOMAIN nodes
                  /\ DomainSlots(NodeSlots(remaining, job), domains)[d] = Hostable(domains[d])
<1> DEFINE domains == BuildDomains(nodes, job.requiredTopology)
<1>1. DomainsOf(job.requiredTopology) = DOMAIN domains
  BY DEF DomainsOf, BuildDomains
<1>2. DOMAIN domains \subseteq Nat /\ IsFiniteSet(DOMAIN domains)
  BY NamesAreNumbers, DomainsFinite DEF InputOK, PlacementInput
<1>3. DOMAIN nodes # {} => DOMAIN domains # {}
  BY DEF BuildDomains
<1>4. \A d \in DOMAIN domains : /\ MembersOf(job.requiredTopology, d) = domains[d]
                                /\ domains[d] \in SUBSET DOMAIN nodes
  BY DEF MembersOf, BuildDomains
<1> HIDE DEF domains
<1>5. ASSUME NEW d \in DOMAIN domains
      PROVE  DomainSlots(NodeSlots(remaining, job), domains)[d] = Hostable(domains[d])
  BY <1>4, HostableSlots DEF DomainSlots
<1> QED BY <1>1, <1>2, <1>3, <1>4, <1>5 DEF domains

(***************************************************************************)
(* The selected domain is the best fit.                                    *)
(***************************************************************************)
THEOREM SelectionIsBestFit == Spec => []BestFitDomain
<1>1. ASSUME InputOK, job.requiredTopology # NoTopology,
             NEW result \in PlaceJob(nodes, remaining, job), result.kind = "placed",
             NEW d \in DomainsOf(job.requiredTopology) \ {result.domain},
             NEW mine, mine = MembersOf(job.requiredTopology, result.domain),
             NEW others, others = MembersOf(job.requiredTopology, d),
             Spreads(others, remaining, job) # {}
      PROVE  \/ Hostable(mine) < Hostable(others)
             \/ /\ Hostable(mine) = Hostable(others)
                /\ \/ FewestNodes(mine) < FewestNodes(others)
                   \/ /\ FewestNodes(mine) = FewestNodes(others)
                      /\ result.domain < d
  <2> DEFINE slots == NodeSlots(remaining, job)
             domains == BuildDomains(nodes, job.requiredTopology)
             candidates == CandidatesOf(nodes, remaining, job)
             domainSlots == DomainSlots(slots, domains)
  <2>1. PICK c : c = result.domain
    OBVIOUS
  <2>2. /\ c \in DOMAIN candidates /\ c \in DOMAIN domains
        /\ mine = domains[c] /\ mine \in SUBSET DOMAIN nodes
        /\ SumFunctionOnSet(slots, mine) >= job.replicas
        /\ candidates[c] = CompactPacking(slots, mine, job.replicas)
    BY <1>1, <2>1, PlacedPacking
  <2>3. /\ d \in DOMAIN domains /\ d # c
        /\ others = domains[d] /\ others \in SUBSET DOMAIN nodes
        /\ domainSlots[d] = Hostable(others) /\ domainSlots[c] = Hostable(mine)
    BY <1>1, <2>1, <2>2, DomainMembers
  <2>4. SumFunctionOnSet(slots, others) >= job.replicas
    <3>1. PICK spread : spread \in Spreads(others, remaining, job)
      BY <1>1
    <3> QED BY <1>1, <2>3, <3>1, SpreadNeedsSlots DEF InputOK
  <2>5. d \in DOMAIN candidates /\ candidates[d] = CompactPacking(slots, others, job.replicas)
    <3> HIDE DEF slots, domains
    <3> QED BY <2>3, <2>4 DEF CandidatesOf, Candidates, slots, domains
  <2>6. Preferred(domainSlots, candidates, c, d)
    BY <1>1, <2>1, <2>3, <2>5, NamesAreNumbers, OutcomeIsBest DEF InputOK
  <2>7. /\ FewestNodes(mine) = Cardinality(DOMAIN candidates[c])
        /\ FewestNodes(others) = Cardinality(DOMAIN candidates[d])
    BY <1>1, <2>2, <2>3, <2>4, <2>5, FewestNodesUsed
  <2> HIDE DEF slots, domains, candidates, domainSlots
  <2> QED BY <2>1, <2>3, <2>6, <2>7 DEF Preferred
<1>2. CallInv => BestFitDomain
  BY <1>1 DEF CallInv, BestFitDomain
<1> QED BY <1>2, InputAlwaysOK, PTL

-----------------------------------------------------------------------------
(***************************************************************************)
(* What was just placed can be released, and nothing is lost.              *)
(***************************************************************************)
THEOREM RollbackIsExact == Spec => []RollbackRestores
<1>1. CallInv => RollbackRestores
  BY RollbackAccepted DEF CallInv, InputOK, RollbackRestores
<1> QED BY <1>1, InputAlwaysOK, PTL

-----------------------------------------------------------------------------
(***************************************************************************)
(* The reason of a refusal.                                                *)
(***************************************************************************)
\* LargestAvailableDomain is the first of those with the most slots.
LEMMA LargestDomain ==
  ASSUME NEW domainSlots, IsFiniteSet(DOMAIN domainSlots), DOMAIN domainSlots # {},
         DOMAIN domainSlots \subseteq Int, \A d \in DOMAIN domainSlots : domainSlots[d] \in Int
  PROVE  LET largest == LargestAvailableDomain(domainSlots)
         IN  /\ largest.domain \in DOMAIN domainSlots
             /\ largest.slots = domainSlots[largest.domain]
             /\ \A d \in DOMAIN domainSlots \ {largest.domain} :
                  \/ domainSlots[d] < largest.slots
                  \/ domainSlots[d] = largest.slots /\ largest.domain < d
<1> DEFINE most == Max(Range(domainSlots))
           widest == {d \in DOMAIN domainSlots : domainSlots[d] = most}
           first == Min(widest)
<1>1. LargestAvailableDomain(domainSlots) = [domain |-> first, slots |-> most]
  BY DEF LargestAvailableDomain
<1>2. most \in Range(domainSlots) /\ \A x \in Range(domainSlots) : x <= most
  <2>1. IsFiniteSet(Range(domainSlots))
    BY FiniteImage DEF Range
  <2>2. Range(domainSlots) \in SUBSET Int /\ Range(domainSlots) # {}
    BY DEF Range
  <2> HIDE DEF most
  <2> QED BY <2>1, <2>2, MaxProperty DEF most
<1> HIDE DEF most
<1>3. /\ widest # {} /\ widest \in SUBSET Int /\ IsFiniteSet(widest)
      /\ \A d \in DOMAIN domainSlots : domainSlots[d] <= most
      /\ most \in Int
  <2>1. widest # {} /\ most \in Int
    BY <1>2 DEF Range
  <2>2. \A d \in DOMAIN domainSlots : domainSlots[d] <= most
    BY <1>2 DEF Range
  <2>3. IsFiniteSet(widest)
    BY FS_Subset
  <2> QED BY <2>1, <2>2, <2>3
<1>4. \A d \in DOMAIN domainSlots : d \in widest <=> domainSlots[d] = most
  OBVIOUS
<1>5. widest \subseteq DOMAIN domainSlots
  OBVIOUS
<1> HIDE DEF widest
<1>6. first \in widest /\ \A d \in widest : first <= d
  BY <1>3, MaxProperty
<1> HIDE DEF first
<1>7. ASSUME NEW d \in DOMAIN domainSlots \ {first}
      PROVE  \/ domainSlots[d] < most
             \/ domainSlots[d] = most /\ first < d
  <2>1. /\ d \in Int /\ first \in Int /\ domainSlots[d] \in Int
        /\ domainSlots[d] <= most /\ most \in Int
        /\ domainSlots[d] = most => first <= d
    BY <1>3, <1>4, <1>5, <1>6
  <2> QED BY <2>1
<1>8. first \in DOMAIN domainSlots /\ domainSlots[first] = most
  BY <1>4, <1>5, <1>6
<1> QED BY <1>1, <1>7, <1>8

\* A job fits without its topology requirement when the cluster has slots enough.
LEMMA FitsSomewhere ==
  ASSUME InputOK
  PROVE  Feasible(nodes, remaining, [job EXCEPT !.requiredTopology = NoTopology])
           <=> Hostable(DOMAIN nodes) >= job.replicas
<1>1. PICK free : free = [job EXCEPT !.requiredTopology = NoTopology]
  OBVIOUS
<1>2. /\ free.requiredTopology = NoTopology
      /\ free.replicas = job.replicas
      /\ free.resourcesPerReplica = job.resourcesPerReplica
  BY <1>1 DEF InputOK, Job
<1>3. PlacementInput(nodes, remaining, free)
  BY <1>2 DEF InputOK, PlacementInput
<1>4. NodeSlots(remaining, free) = NodeSlots(remaining, job)
  BY <1>2 DEF NodeSlots
<1>5. DOMAIN CandidatesOf(nodes, remaining, free) # {}
        <=> SumFunctionOnSet(NodeSlots(remaining, job), DOMAIN nodes) >= job.replicas
  BY <1>2, <1>4 DEF CandidatesOf, Candidates, BuildDomains
<1> QED BY <1>1, <1>3, <1>5, FeasibleMeansCandidate, HostableSlots

(***************************************************************************)
(* The reason of a refusal is the right one, with the right numbers.       *)
(***************************************************************************)
THEOREM RefusalIsExplained == Spec => []ReasonIsExact
<1>1. ASSUME InputOK, NEW result \in PlaceJob(nodes, remaining, job), result.kind = "rejected"
      PROVE  LET reason == result.reason
                 domains == DomainsOf(job.requiredTopology)
                 HostableIn(d) == Hostable(MembersOf(job.requiredTopology, d))
             IN  IF Feasible(nodes, remaining, [job EXCEPT !.requiredTopology = NoTopology])
                 THEN /\ reason.code = "topology_fragmented"
                      /\ reason.totalAvailableSlots = Hostable(DOMAIN nodes)
                      /\ reason.largestDomainSlots = HostableIn(reason.largestDomain)
                      /\ reason.largestDomain \in domains
                      /\ \A d \in domains \ {reason.largestDomain} :
                           \/ HostableIn(d) < reason.largestDomainSlots
                           \/ /\ HostableIn(d) = reason.largestDomainSlots
                              /\ reason.largestDomain < d
                 ELSE /\ reason.code = "insufficient_capacity"
                      /\ reason.availableClusterSlots = Hostable(DOMAIN nodes)
  <2> DEFINE key == job.requiredTopology
             domains == BuildDomains(nodes, key)
             domainSlots == DomainSlots(NodeSlots(remaining, job), domains)
             clusterSlots == Hostable(DOMAIN nodes)
  <2>1. DOMAIN CandidatesOf(nodes, remaining, job) = {}
    BY <1>1, PlacedExactlyWhenFeasible, FeasibleMeansCandidate DEF InputOK
  <2>2. clusterSlots = SumFunctionOnSet(NodeSlots(remaining, job), DOMAIN nodes)
        /\ clusterSlots \in Nat
    BY <1>1, HostableSlots
  <2>3. job.replicas \in Nat \ {0}
    BY <1>1, MaxInt64Assumption DEF InputOK, PlacementInput, PosInt64
  <2> DEFINE refusal == IF clusterSlots < job.replicas
                        THEN InsufficientCapacity(clusterSlots)
                        ELSE TopologyFragmented(key, clusterSlots,
                                                LargestAvailableDomain(domainSlots))
  <2>4. result = Rejected(refusal)
    <3> HIDE DEF clusterSlots
    <3> QED BY <1>1, <2>1, <2>2, Outcomes, RefusalIsReason DEF InputOK
  <2> HIDE DEF clusterSlots, domainSlots, domains, refusal
  <2>5. result.reason = refusal
    BY <2>4 DEF Rejected
  <2>6. CASE clusterSlots < job.replicas
    <3>1. refusal = InsufficientCapacity(clusterSlots)
      BY <2>6 DEF refusal
    <3>2. /\ result.reason.code = "insufficient_capacity"
          /\ result.reason.availableClusterSlots = clusterSlots
      BY <2>5, <3>1 DEF InsufficientCapacity
    <3>3. ~ Feasible(nodes, remaining, [job EXCEPT !.requiredTopology = NoTopology])
      BY <1>1, <2>2, <2>3, <2>6, FitsSomewhere DEF clusterSlots
    <3> QED BY <3>2, <3>3 DEF clusterSlots
  <2>7. CASE ~ (clusterSlots < job.replicas)
    <3>1. PICK largest : largest = LargestAvailableDomain(domainSlots)
      OBVIOUS
    <3>2. refusal = TopologyFragmented(key, clusterSlots, largest)
      BY <2>7, <3>1 DEF refusal
    <3>3. PICK reason : reason = result.reason
      OBVIOUS
    <3>4. /\ reason.code = "topology_fragmented"
          /\ reason.totalAvailableSlots = clusterSlots
          /\ reason.largestDomain = largest.domain
          /\ reason.largestDomainSlots = largest.slots
      BY <2>5, <3>2, <3>3 DEF TopologyFragmented
    <3>5. Feasible(nodes, remaining, [job EXCEPT !.requiredTopology = NoTopology])
      BY <1>1, <2>2, <2>3, <2>7, FitsSomewhere DEF clusterSlots
    <3>6. key # NoTopology
      <4>1. ASSUME key = NoTopology PROVE FALSE
        <5>1. CandidatesOf(nodes, remaining, job)
                = Candidates(NodeSlots(remaining, job),
                             [d \in {GlobalTopologyDomain} |-> DOMAIN nodes], job.replicas)
          BY <4>1 DEF CandidatesOf, BuildDomains
        <5>2. ~ (clusterSlots >= job.replicas)
          BY <2>1, <2>2, <5>1 DEF Candidates
        <5> QED BY <2>2, <2>3, <2>7, <5>2
      <4> QED BY <4>1
    <3>7. /\ DomainsOf(key) = DOMAIN domains /\ DOMAIN domains # {}
          /\ DOMAIN domains \subseteq Nat /\ IsFiniteSet(DOMAIN domains)
          /\ DOMAIN domainSlots = DOMAIN domains
          /\ \A d \in DOMAIN domains : /\ domainSlots[d] = Hostable(MembersOf(key, d))
                                       /\ domainSlots[d] \in Nat
      <4>1. DOMAIN nodes # {}
        <5>1. CASE DOMAIN nodes = {}
          <6>1. clusterSlots = SumFunctionOnSet(NodeSlots(remaining, job), {})
            BY <2>2, <5>1
          <6>2. clusterSlots = 0
            BY <6>1, SumEmpty
          <6> QED BY <2>3, <2>7, <6>2
        <5> QED BY <5>1
      <4>2. /\ DomainsOf(key) = DOMAIN domains /\ DOMAIN domains # {}
            /\ DOMAIN domains \subseteq Nat /\ IsFiniteSet(DOMAIN domains)
            /\ \A d \in DOMAIN domains :
                 /\ MembersOf(key, d) = domains[d]
                 /\ domains[d] \in SUBSET DOMAIN nodes
                 /\ domainSlots[d] = Hostable(domains[d])
        BY <1>1, <3>6, <4>1, DomainMembers DEF domains, domainSlots
      <4>3. \A d \in DOMAIN domains : Hostable(domains[d]) \in Nat
        BY <1>1, <4>2, HostableSlots
      <4> QED BY <4>2, <4>3 DEF domainSlots, DomainSlots
    <3>8. /\ largest.domain \in DOMAIN domains
          /\ largest.slots = domainSlots[largest.domain]
          /\ \A d \in DOMAIN domains \ {largest.domain} :
               \/ domainSlots[d] < largest.slots
               \/ domainSlots[d] = largest.slots /\ largest.domain < d
      BY <3>1, <3>7, LargestDomain
    <3>9. \A d \in DOMAIN domains : domainSlots[d] = Hostable(MembersOf(key, d))
      BY <3>7
    <3> QED BY <3>3, <3>4, <3>5, <3>7, <3>8, <3>9 DEF clusterSlots
  <2> QED BY <2>6, <2>7
<1>2. CallInv => ReasonIsExact
  BY <1>1 DEF CallInv, ReasonIsExact
<1> QED BY <1>2, InputAlwaysOK, PTL
=============================================================================
