---------------------------- MODULE ReleaseProofs ----------------------------
(***************************************************************************)
(* releaseAllocation, loop by loop, computes what module Release says, for *)
(* every list of node states, every job and every list of entries it may   *)
(* be called with, valid or not.                                           *)
(*                                                                         *)
(* The invariant is what the procedure knows at each of its loops: which   *)
(* entries have been accepted, how many replicas they hold, and, once it   *)
(* writes, which nodes have been credited.                                 *)
(***************************************************************************)
EXTENDS ReleaseAllocation, PlacementProofs, SequenceTheorems

AnyNodeState == [name : Nat, capacity : [Dim -> Int], remaining : [Dim -> Int]]

TypeInv ==
  /\ given \in Seq(NodeState)
  /\ nodes \in Seq(AnyNodeState)
  /\ job.replicas \in Int64 /\ job.resourcesPerReplica \in [Dim -> Int]
  /\ allocation \in Seq(Allocation)
  /\ pc \in {"job", "allocation", "apply", "returned"}
  /\ failed \in BOOLEAN /\ allocatedReplicas \in Int
  /\ releases \in Seq([node : Nat, resources : [Dim -> Int]])

(***************************************************************************)
(* What the checks establish, said of the node states as they were given.  *)
(***************************************************************************)
GivenIndexes(name) == {k \in DOMAIN given : given[k].name = name}
GivenConsumption(k, d) == given[k].capacity[d] - given[k].remaining[d]

GivenConsistent ==
  /\ \A k, l \in DOMAIN given : given[k].name = given[l].name => k = l
  /\ \A k \in DOMAIN given : ValidateNodeResourceState(given[k].capacity, given[k].remaining)

Credit(l) == ResourcesForReplicas(job.resourcesPerReplica, allocation[l].replicas)
CreditedNode(l) == CHOOSE k \in GivenIndexes(allocation[l].node) : TRUE

EntryFits(l) ==
  /\ allocation[l].replicas > 0
  /\ GivenIndexes(allocation[l].node) # {}
  /\ ResourcesForReplicasFit(job.resourcesPerReplica, allocation[l].replicas)
  /\ \A k \in GivenIndexes(allocation[l].node), d \in Dim :
       Credit(l)[d] <= GivenConsumption(k, d)

Accepted(count) ==
  /\ \A l \in 1 .. count : EntryFits(l)
  /\ \A k, l \in 1 .. count : allocation[k].node = allocation[l].node => k = l

Replicas == [l \in DOMAIN allocation |-> allocation[l].replicas]
ReplicasOf(count) == SumFunctionOnSet(Replicas, 1 .. count)

ReleaseOf(l) == [node |-> CreditedNode(l), resources |-> Credit(l)]

\* The first entries have been credited to their nodes, the others not yet.
Credited(count) ==
  /\ DOMAIN nodes = DOMAIN given
  /\ \A k \in DOMAIN given : nodes[k].name = given[k].name
  /\ \A k \in DOMAIN given :
       (\A l \in 1 .. count : CreditedNode(l) # k) => nodes[k].remaining = given[k].remaining
  /\ \A l \in 1 .. count :
       nodes[CreditedNode(l)].remaining =
         [d \in Dim |-> given[CreditedNode(l)].remaining[d] + Credit(l)[d]]

Looked == Len(releases)
Applications == Len(allocation) - Len(releases)

Progress ==
  /\ pc = "job" => nodes = given /\ releases = <<>> /\ allocatedReplicas = 0
  /\ pc = "allocation" =>
       /\ nodes = given /\ ReleasableJob /\ GivenConsistent
       /\ Looked <= Len(allocation) /\ Accepted(Looked)
       /\ allocatedReplicas = ReplicasOf(Looked)
       /\ \A l \in 1 .. Looked : releases[l] = ReleaseOf(l)
  /\ pc = "apply" =>
       /\ ReleasableJob /\ GivenConsistent
       /\ Accepted(Len(allocation)) /\ ReplicasOf(Len(allocation)) = job.replicas
       /\ Looked <= Len(allocation)
       /\ \A l \in 1 .. Looked : releases[l] = ReleaseOf(Applications + l)
       /\ Credited(Applications)
  /\ failed => pc = "returned"

Inv == TypeInv /\ Progress /\ AgreesWithRelease

-----------------------------------------------------------------------------
(***************************************************************************)
(* Lists that are functions of a name.                                     *)
(***************************************************************************)
LEMMA Slices ==
  /\ \A s : IsFunctionOf(s, NodeName)
              <=> \A k, l \in DOMAIN s : s[k].name = s[l].name => k = l
  /\ \A s : IsFunctionOf(s, EntryNode)
              <=> \A k, l \in DOMAIN s : s[k].node = s[l].node => k = l
  /\ \A s : ByName(s, NodeName, Node) =
              [x \in {s[k].name : k \in DOMAIN s} |->
                 s[CHOOSE k \in DOMAIN s : s[k].name = x]]
  /\ \A s : RemainingByNode(s) =
              [x \in {s[k].name : k \in DOMAIN s} |->
                 s[CHOOSE k \in DOMAIN s : s[k].name = x].remaining]
  /\ AllocationByNode =
       [x \in {allocation[l].node : l \in DOMAIN allocation} |->
          allocation[CHOOSE l \in DOMAIN allocation : allocation[l].node = x].replicas]
BY DEF IsFunctionOf, ByName, RemainingByNode, AllocationByNode,
       NodeName, Node, Remaining, EntryNode, EntryReplicas

\* The states of the nodes, by name.
LEMMA NodesByName ==
  ASSUME NEW s, \A k, l \in DOMAIN s : s[k].name = s[l].name => k = l
  PROVE  /\ DOMAIN ByName(s, NodeName, Node) = {s[k].name : k \in DOMAIN s}
         /\ DOMAIN RemainingByNode(s) = {s[k].name : k \in DOMAIN s}
         /\ \A k \in DOMAIN s : /\ ByName(s, NodeName, Node)[s[k].name] = s[k]
                                /\ RemainingByNode(s)[s[k].name] = s[k].remaining
         /\ RemainingByNode(s) = [n \in DOMAIN RemainingByNode(s) |-> RemainingByNode(s)[n]]
<1> DEFINE names == {s[k].name : k \in DOMAIN s}
<1>1. /\ ByName(s, NodeName, Node) =
           [x \in names |-> s[CHOOSE k \in DOMAIN s : s[k].name = x]]
      /\ RemainingByNode(s) =
           [x \in names |-> s[CHOOSE k \in DOMAIN s : s[k].name = x].remaining]
  BY Slices
<1>2. ASSUME NEW k \in DOMAIN s
      PROVE  s[k].name \in names /\ (CHOOSE l \in DOMAIN s : s[l].name = s[k].name) = k
  OBVIOUS
<1> HIDE DEF names
<1>3. \A k \in DOMAIN s : /\ ByName(s, NodeName, Node)[s[k].name] = s[k]
                          /\ RemainingByNode(s)[s[k].name] = s[k].remaining
  BY <1>1, <1>2
<1>4. RemainingByNode(s) = [n \in DOMAIN RemainingByNode(s) |-> RemainingByNode(s)[n]]
  BY <1>1
<1> QED BY <1>1, <1>3, <1>4 DEF names

\* The allocation, by node.
LEMMA EntriesByNode ==
  ASSUME \A k, l \in DOMAIN allocation : allocation[k].node = allocation[l].node => k = l
  PROVE  /\ DOMAIN AllocationByNode = {allocation[l].node : l \in DOMAIN allocation}
         /\ \A l \in DOMAIN allocation :
              AllocationByNode[allocation[l].node] = allocation[l].replicas
<1> DEFINE names == {allocation[l].node : l \in DOMAIN allocation}
<1>1. AllocationByNode =
        [x \in names |->
          allocation[CHOOSE l \in DOMAIN allocation : allocation[l].node = x].replicas]
  BY Slices
<1>2. ASSUME NEW k \in DOMAIN allocation
      PROVE  /\ allocation[k].node \in names
             /\ (CHOOSE l \in DOMAIN allocation : allocation[l].node = allocation[k].node) = k
  OBVIOUS
<1> HIDE DEF names
<1> QED BY <1>1, <1>2 DEF names

LEMMA EntryType == \A entry \in Allocation : entry.replicas \in Int
BY MaxInt64Assumption DEF Allocation, Int64

\* The replicas of an allocation add up to those of its entries.
LEMMA ReplicasAddUp ==
  ASSUME TypeInv,
         \A k, l \in DOMAIN allocation : allocation[k].node = allocation[l].node => k = l
  PROVE  SumFunction(AllocationByNode) = ReplicasOf(Len(allocation))
<1>0. allocation \in Seq(Allocation)
  BY DEF TypeInv
<1>1. /\ DOMAIN allocation = 1 .. Len(allocation) /\ Len(allocation) \in Nat
      /\ \A l \in DOMAIN allocation : allocation[l].replicas \in Int
  BY <1>0, EntryType
<1>2. IsFiniteSet(DOMAIN allocation)
  BY <1>1, FS_Interval
<1>3. /\ DOMAIN AllocationByNode = {allocation[l].node : l \in DOMAIN allocation}
      /\ \A l \in DOMAIN allocation :
           AllocationByNode[allocation[l].node] = allocation[l].replicas
  BY EntriesByNode
<1> DEFINE nodeOf == [l \in DOMAIN allocation |-> allocation[l].node]
<1>4. /\ {nodeOf[l] : l \in DOMAIN allocation} = DOMAIN AllocationByNode
      /\ \A l \in DOMAIN allocation : nodeOf[l] = allocation[l].node
  BY <1>3
<1> HIDE DEF nodeOf
<1>5. \A l \in DOMAIN allocation : Replicas[l] = allocation[l].replicas
  BY DEF Replicas
<1>6. SumFunctionOnSet(AllocationByNode, {nodeOf[l] : l \in DOMAIN allocation})
        = SumFunctionOnSet(Replicas, DOMAIN allocation)
  <2> DEFINE K == DOMAIN allocation
  <2>1. /\ IsFiniteSet(K) /\ \A k \in K : Replicas[k] \in Int
        /\ \A k, l \in K : nodeOf[k] = nodeOf[l] => k = l
        /\ \A k \in K : AllocationByNode[nodeOf[k]] = Replicas[k]
    BY <1>1, <1>2, <1>3, <1>4, <1>5
  <2> HIDE DEF K
  <2>2. SumFunctionOnSet(AllocationByNode, {nodeOf[l] : l \in K})
          = SumFunctionOnSet(Replicas, K)
    BY ONLY <2>1, SumByName
  <2> QED BY <2>2 DEF K
<1> QED BY <1>1, <1>4, <1>6 DEF ReplicasOf, SumFunction

-----------------------------------------------------------------------------
(***************************************************************************)
(* What the loops check is what module Release asks for.                   *)
(***************************************************************************)
LEMMA NodeOfEntry ==
  ASSUME TypeInv, GivenConsistent, NEW name
  PROVE  \A k \in GivenIndexes(name) :
           /\ k \in DOMAIN given /\ given[k].name = name
           /\ (CHOOSE l \in GivenIndexes(name) : TRUE) = k
BY DEF GivenConsistent, GivenIndexes

LEMMA ChecksMeanAccepted ==
  ASSUME TypeInv, ReleasableJob, GivenConsistent, Accepted(Len(allocation)),
         ReplicasOf(Len(allocation)) = job.replicas
  PROVE  ShouldAccept
<1> DEFINE byName == ByName(given, NodeName, Node)
           remaining == RemainingByNode(given)
<1>0. DOMAIN allocation = 1 .. Len(allocation)
  BY DEF TypeInv
<1>1. /\ \A k, l \in DOMAIN given : given[k].name = given[l].name => k = l
      /\ \A k, l \in DOMAIN allocation : allocation[k].node = allocation[l].node => k = l
  BY <1>0 DEF GivenConsistent, Accepted
<1>2. IsFunctionOf(given, NodeName) /\ IsFunctionOf(allocation, EntryNode)
  BY <1>1, Slices
<1>3. /\ DOMAIN byName = {given[k].name : k \in DOMAIN given}
      /\ \A k \in DOMAIN given : /\ byName[given[k].name] = given[k]
                                 /\ remaining[given[k].name] = given[k].remaining
  BY <1>1, NodesByName
<1>4. /\ DOMAIN AllocationByNode = {allocation[l].node : l \in DOMAIN allocation}
      /\ \A l \in DOMAIN allocation :
           AllocationByNode[allocation[l].node] = allocation[l].replicas
  BY <1>1, EntriesByNode
<1> HIDE DEF byName, remaining
<1>5. ASSUME NEW n \in DOMAIN byName
      PROVE  ValidateNodeResourceState(byName[n].capacity, remaining[n])
  <2>1. PICK k \in DOMAIN given : n = given[k].name
    BY <1>3
  <2> QED BY <1>3, <2>1 DEF GivenConsistent
<1>6. ASSUME NEW n \in DOMAIN AllocationByNode
      PROVE  /\ n \in DOMAIN byName
             /\ ResourcesForReplicasFit(job.resourcesPerReplica, AllocationByNode[n])
             /\ \A d \in Dim :
                  ResourcesForReplicas(job.resourcesPerReplica, AllocationByNode[n])[d]
                    <= byName[n].capacity[d] - remaining[n][d]
  <2>1. PICK l \in DOMAIN allocation : n = allocation[l].node
    BY <1>4
  <2>2. EntryFits(l) /\ AllocationByNode[n] = allocation[l].replicas
    BY <1>0, <1>4, <2>1 DEF Accepted
  <2>3. PICK k \in GivenIndexes(n) : TRUE
    BY <2>1, <2>2 DEF EntryFits
  <2>4. k \in DOMAIN given /\ given[k].name = n
    BY <2>3 DEF GivenIndexes
  <2>5. byName[n] = given[k] /\ remaining[n] = given[k].remaining /\ n \in DOMAIN byName
    BY <1>3, <2>4
  <2> QED BY <2>1, <2>2, <2>3, <2>5 DEF EntryFits, Credit, GivenConsumption
<1>7. SumFunction(AllocationByNode) = job.replicas
  BY <1>1, ReplicasAddUp
<1>8. ReleaseAccepted(byName, remaining, job, AllocationByNode)
  BY <1>5, <1>6, <1>7 DEF ReleaseAccepted, ReleasableJob
<1> QED BY <1>2, <1>8 DEF ShouldAccept, byName, remaining

LEMMA AcceptedMeansChecks ==
  ASSUME TypeInv, ShouldAccept
  PROVE  /\ ReleasableJob /\ GivenConsistent /\ Accepted(Len(allocation))
         /\ ReplicasOf(Len(allocation)) = job.replicas
<1> DEFINE byName == ByName(given, NodeName, Node)
           remaining == RemainingByNode(given)
<1>0. DOMAIN allocation = 1 .. Len(allocation)
  BY DEF TypeInv
<1>1. /\ \A k, l \in DOMAIN given : given[k].name = given[l].name => k = l
      /\ \A k, l \in DOMAIN allocation : allocation[k].node = allocation[l].node => k = l
  BY Slices DEF ShouldAccept
<1>2. ReleaseAccepted(byName, remaining, job, AllocationByNode)
  BY DEF ShouldAccept
<1>3. /\ DOMAIN byName = {given[k].name : k \in DOMAIN given}
      /\ \A k \in DOMAIN given : /\ byName[given[k].name] = given[k]
                                 /\ remaining[given[k].name] = given[k].remaining
  BY <1>1, NodesByName
<1>4. /\ DOMAIN AllocationByNode = {allocation[l].node : l \in DOMAIN allocation}
      /\ \A l \in DOMAIN allocation :
           AllocationByNode[allocation[l].node] = allocation[l].replicas
  BY <1>1, EntriesByNode
<1> HIDE DEF byName, remaining
<1>5. ReleasableJob
  BY <1>2 DEF ReleaseAccepted, ReleasableJob
<1>6. ASSUME NEW k \in DOMAIN given
      PROVE  ValidateNodeResourceState(given[k].capacity, given[k].remaining)
  <2>1. given[k].name \in DOMAIN byName
    BY <1>3
  <2> QED BY <1>2, <1>3, <2>1 DEF ReleaseAccepted
<1>7. GivenConsistent
  BY <1>1, <1>6 DEF GivenConsistent
<1>8. ASSUME NEW l \in DOMAIN allocation
      PROVE  EntryFits(l)
  <2> DEFINE n == allocation[l].node
  <2>1. n \in DOMAIN AllocationByNode /\ AllocationByNode[n] = allocation[l].replicas
    BY <1>4
  <2>2. n \in DOMAIN byName
    BY <1>2, <2>1 DEF ReleaseAccepted
  <2>3. /\ ResourcesForReplicasFit(job.resourcesPerReplica, allocation[l].replicas)
        /\ \A d \in Dim : Credit(l)[d] <= byName[n].capacity[d] - remaining[n][d]
    BY <1>2, <2>1 DEF ReleaseAccepted, Credit
  <2>4. PICK k \in DOMAIN given : given[k].name = n
    BY <1>3, <2>2
  <2>5. k \in GivenIndexes(n)
    BY <2>4 DEF GivenIndexes
  <2>6. ASSUME NEW j \in GivenIndexes(n), NEW d \in Dim
        PROVE  Credit(l)[d] <= GivenConsumption(j, d)
    <3>1. j \in DOMAIN given /\ given[j].name = n
      BY <2>6 DEF GivenIndexes
    <3>2. byName[n] = given[j] /\ remaining[n] = given[j].remaining
      BY <1>3, <3>1
    <3> QED BY <2>3, <3>2 DEF GivenConsumption
  <2>7. allocation[l].replicas > 0
    BY <2>3 DEF ResourcesForReplicasFit
  <2> QED BY <2>3, <2>5, <2>6, <2>7 DEF EntryFits
<1>9. Accepted(Len(allocation))
  BY <1>0, <1>1, <1>8 DEF Accepted
<1>10. ReplicasOf(Len(allocation)) = job.replicas
  BY <1>1, <1>2, ReplicasAddUp DEF ReleaseAccepted
<1> QED BY <1>5, <1>7, <1>9, <1>10

-----------------------------------------------------------------------------
(***************************************************************************)
(* The running total of the entries looked at.                             *)
(***************************************************************************)
LEMMA RunningTotal ==
  ASSUME TypeInv, NEW count \in 0 .. Len(allocation)
  PROVE  /\ ReplicasOf(count) \in Int
         /\ ReplicasOf(0) = 0
         /\ count + 1 \in 1 .. Len(allocation) =>
              ReplicasOf(count + 1) = ReplicasOf(count) + allocation[count + 1].replicas
         /\ Accepted(Len(allocation)) => ReplicasOf(count) <= ReplicasOf(Len(allocation))
<1> DEFINE all == 1 .. Len(allocation)
<1>1. allocation \in Seq(Allocation)
  BY DEF TypeInv
<1>2. /\ Len(allocation) \in Nat /\ DOMAIN allocation = all /\ IsFiniteSet(all)
      /\ \A l \in all : Replicas[l] = allocation[l].replicas /\ Replicas[l] \in Int
  BY <1>1, EntryType, FS_Interval DEF Replicas
<1>3. IsFiniteSet(1 .. count) /\ 1 .. count \subseteq all /\ IsFiniteSet(1 .. count + 1)
  BY <1>2, FS_Interval
<1>4. ReplicasOf(count) \in Int
  BY <1>2, <1>3, SumInt DEF ReplicasOf
<1>5. ReplicasOf(0) = 0
  <2>1. 1 .. 0 = {}
    OBVIOUS
  <2> QED BY <2>1, SumEmpty DEF ReplicasOf
<1>6. ASSUME count + 1 \in all
      PROVE  ReplicasOf(count + 1) = ReplicasOf(count) + allocation[count + 1].replicas
  <2>1. /\ (1 .. count + 1) \ {count + 1} = 1 .. count
        /\ count + 1 \in 1 .. count + 1 /\ 1 .. count + 1 \subseteq all
    BY <1>2, <1>6
  <2>2. \A l \in 1 .. count + 1 : Replicas[l] \in Int
    BY <1>2, <2>1
  <2>3. SumFunctionOnSet(Replicas, 1 .. count + 1)
          = Replicas[count + 1]
              + SumFunctionOnSet(Replicas, (1 .. count + 1) \ {count + 1})
    BY ONLY <1>3, <2>1, <2>2, SumRemove
  <2>4. ReplicasOf(count + 1) = Replicas[count + 1] + ReplicasOf(count)
    BY <2>1, <2>3 DEF ReplicasOf
  <2> QED BY <1>2, <1>4, <1>6, <2>4
<1>7. ASSUME Accepted(Len(allocation))
      PROVE  ReplicasOf(count) <= ReplicasOf(Len(allocation))
  <2>1. \A l \in all : Replicas[l] \in Nat
    BY <1>2, <1>7 DEF Accepted, EntryFits
  <2> HIDE DEF all
  <2>2. SumFunctionOnSet(Replicas, 1 .. count) <= SumFunctionOnSet(Replicas, all)
    BY ONLY <1>2, <1>3, <2>1, SumOfPart
  <2> QED BY <2>2 DEF ReplicasOf, all
<1> QED BY <1>4, <1>5, <1>6, <1>7

-----------------------------------------------------------------------------
(***************************************************************************)
(* Every step preserves the invariant.                                     *)
(***************************************************************************)
LEMMA SeqSubset ==
  ASSUME NEW S, NEW T, \A x \in S : x \in T, NEW s \in Seq(S)
  PROVE  s \in Seq(T)
BY SeqDef

LEMMA InvInit == Init => Inv
<1> SUFFICES ASSUME Init PROVE Inv
  OBVIOUS
<1>1. given \in Seq(NodeState) /\ allocation \in Seq(Allocation)
  BY NodeStatesAssumption, AllocationsAssumption DEF Init
<1>2. job.replicas \in Int64 /\ job.resourcesPerReplica \in [Dim -> Int]
  BY ReleasedJobsAssumption, MaxInt64Assumption DEF Init, Resources, Int64
<1>3. given \in Seq(AnyNodeState)
  <2>1. \A x \in NodeState : x \in AnyNodeState
    BY MaxInt64Assumption DEF NodeState, AnyNodeState, Resources, Int64
  <2> QED BY <1>1, <2>1, SeqSubset
<1>4. TypeInv
  <2>1. nodes = given /\ pc = "job" /\ failed = FALSE /\ allocatedReplicas = 0 /\ releases = <<>>
    BY DEF Init
  <2>2. nodes \in Seq(AnyNodeState)
    BY <1>3, <2>1
  <2>3. releases \in Seq([node : Nat, resources : [Dim -> Int]])
    BY <2>1
  <2>4. pc \in {"job", "allocation", "apply", "returned"} /\ allocatedReplicas \in Int
    BY <2>1
  <2>5. failed \in BOOLEAN
    BY <2>1
  <2> QED BY ONLY <1>1, <1>2, <2>2, <2>3, <2>4, <2>5 DEF TypeInv
<1>5. Progress /\ AgreesWithRelease
  BY DEF Init, Progress, AgreesWithRelease
<1> QED BY <1>4, <1>5 DEF Inv

\* A release that is rejected should be.
LEMMA RejectKeepsInv ==
  ASSUME Inv, pc \in {"job", "allocation"}, ~ ShouldAccept, Reject
  PROVE  Inv'
<1>1. /\ failed' = TRUE /\ pc' = "returned"
      /\ UNCHANGED <<nodes, job, allocation, given, allocatedReplicas, releases>>
  BY DEF Reject, argumentVars
<1>2. nodes = given
  BY DEF Inv, Progress
<1>3. TypeInv'
  BY <1>1 DEF Inv, TypeInv
<1>4. Progress'
  BY <1>1 DEF Progress
<1>5. ShouldAccept' <=> ShouldAccept
  BY <1>1 DEF ShouldAccept, AllocationByNode
<1>6. AgreesWithRelease'
  BY <1>1, <1>2, <1>5 DEF AgreesWithRelease
<1> QED BY <1>3, <1>4, <1>6 DEF Inv

LEMMA CheckStateKeepsInv == ASSUME Inv, CheckState PROVE Inv'
<1>1. TypeInv /\ pc = "job" /\ nodes = given /\ releases = <<>> /\ allocatedReplicas = 0
  BY DEF Inv, Progress, CheckState
<1>2. ConsistentState <=> GivenConsistent
  BY <1>1 DEF ConsistentState, GivenConsistent
<1>3. CASE ~ (ReleasableJob /\ ConsistentState)
  <2>1. ~ ShouldAccept
    BY <1>1, <1>2, <1>3, AcceptedMeansChecks
  <2> QED BY <1>1, <1>3, <2>1, RejectKeepsInv DEF CheckState
<1>4. CASE ReleasableJob /\ ConsistentState
  <2>1. /\ pc' = "allocation"
        /\ UNCHANGED <<nodes, job, allocation, given, failed, allocatedReplicas, releases>>
    BY <1>4 DEF CheckState, Goto, argumentVars
  <2>2. TypeInv'
    BY <1>1, <2>1 DEF TypeInv
  <2>3. ~ failed
    BY <1>1 DEF Inv, Progress
  <2>4. Looked = 0 /\ Len(allocation) \in Nat /\ 0 \in 0 .. Len(allocation)
    BY <1>1 DEF TypeInv, Looked
  <2>5. ReplicasOf(0) = 0
    BY <1>1, <2>4, RunningTotal
  <2>6. ReleasableJob' /\ GivenConsistent'
    BY <1>2, <1>4, <2>1 DEF ReleasableJob, GivenConsistent
  <2>7. ReplicasOf(0)' = 0 /\ Looked' = 0
    BY <2>1, <2>4, <2>5 DEF ReplicasOf, Replicas, Looked
  <2>8. Progress'
    BY <1>1, <2>1, <2>3, <2>4, <2>6, <2>7 DEF Progress, Accepted
  <2>9. AgreesWithRelease'
    BY <2>1 DEF AgreesWithRelease
  <2> QED BY <2>2, <2>8, <2>9 DEF Inv
<1> QED BY <1>3, <1>4

\* In the second loop: what an entry must satisfy, apart from the running total.
LEMMA EntryChecks ==
  ASSUME TypeInv, nodes = given, Accepted(Looked), EntriesLeft,
         \A l \in 1 .. Looked : releases[l] = ReleaseOf(l)
  PROVE  /\ Looked \in Nat /\ Looked + 1 \in 1 .. Len(allocation)
         /\ DOMAIN releases = 1 .. Looked
         /\ ThisEntry = allocation[Looked + 1] /\ ThisEntry.replicas \in Int
         /\ EntryAccepted(ThisEntry) <=>
              /\ Accepted(Looked + 1)
              /\ allocatedReplicas <= MaxInt64 - ThisEntry.replicas
<1>1. releases \in Seq([node : Nat, resources : [Dim -> Int]]) /\ allocation \in Seq(Allocation)
  BY DEF TypeInv
<1>2. /\ Looked \in Nat /\ Looked + 1 \in 1 .. Len(allocation)
      /\ DOMAIN releases = 1 .. Looked /\ Looked + 1 \in DOMAIN allocation
      /\ ThisEntry = allocation[Looked + 1]
  BY <1>1 DEF Looked, EntriesLeft, ThisEntry
<1>3. ThisEntry.replicas \in Int
  BY <1>1, <1>2, EntryType
<1>4. EntryFits(Looked + 1) <=>
        /\ ThisEntry.replicas > 0
        /\ NodeIndexes(ThisEntry.node) # {}
        /\ ResourcesForReplicasFit(job.resourcesPerReplica, ThisEntry.replicas)
        /\ \A k \in NodeIndexes(ThisEntry.node), d \in Dim :
             ResourcesForReplicas(job.resourcesPerReplica, ThisEntry.replicas)[d]
               <= Consumption(k, d)
  BY <1>2 DEF EntryFits, NodeIndexes, GivenIndexes, Consumption, GivenConsumption, Credit
<1>5. 1 .. Looked + 1 = (1 .. Looked) \cup {Looked + 1} /\ Looked + 1 \notin 1 .. Looked
  BY <1>2
<1>6. Accepted(Looked + 1) <=>
        /\ EntryFits(Looked + 1)
        /\ \A l \in 1 .. Looked : allocation[l].node # allocation[Looked + 1].node
  BY <1>5 DEF Accepted
<1> QED BY <1>2, <1>3, <1>4, <1>6 DEF EntryAccepted

\* The node an entry is credited to.
LEMMA CreditType ==
  ASSUME TypeInv, NEW l \in DOMAIN allocation, EntryFits(l)
  PROVE  /\ CreditedNode(l) \in DOMAIN given /\ CreditedNode(l) \in Nat
         /\ given[CreditedNode(l)].name = allocation[l].node
         /\ Credit(l) \in [Dim -> Int]
<1>1. given \in Seq(NodeState) /\ allocation \in Seq(Allocation)
  BY DEF TypeInv
<1>2. CreditedNode(l) \in GivenIndexes(allocation[l].node)
  BY DEF CreditedNode, EntryFits
<1>3. CreditedNode(l) \in DOMAIN given /\ given[CreditedNode(l)].name = allocation[l].node
  BY <1>2 DEF GivenIndexes
<1>4. \A k \in DOMAIN given : k \in Nat
  BY <1>1
<1>5. allocation[l] \in Allocation
  BY <1>1
<1>6. allocation[l].replicas \in Int /\ \A d \in Dim : job.resourcesPerReplica[d] \in Int
  BY <1>5, EntryType DEF TypeInv
<1>7. \A d \in Dim : job.resourcesPerReplica[d] * allocation[l].replicas \in Int
  BY <1>6, TimesInt
<1>8. Credit(l) \in [Dim -> Int]
  BY <1>7 DEF Credit, ResourcesForReplicas
<1> QED BY <1>3, <1>4, <1>8

LEMMA CheckEntryKeepsInv == ASSUME Inv, CheckEntry PROVE Inv'
<1>1. /\ TypeInv /\ pc = "allocation" /\ nodes = given /\ ReleasableJob /\ GivenConsistent
      /\ EntriesLeft /\ Accepted(Looked) /\ allocatedReplicas = ReplicasOf(Looked)
      /\ \A l \in 1 .. Looked : releases[l] = ReleaseOf(l)
      /\ ~ failed
  BY DEF Inv, Progress, CheckEntry
<1>2. /\ Looked \in Nat /\ Looked + 1 \in 1 .. Len(allocation)
      /\ DOMAIN releases = 1 .. Looked
      /\ ThisEntry = allocation[Looked + 1] /\ ThisEntry.replicas \in Int
      /\ EntryAccepted(ThisEntry) <=>
           /\ Accepted(Looked + 1)
           /\ allocatedReplicas <= MaxInt64 - ThisEntry.replicas
  BY <1>1, EntryChecks
<1>3. Len(allocation) \in Nat /\ DOMAIN allocation = 1 .. Len(allocation)
  BY <1>1 DEF TypeInv
<1>4. Looked \in 0 .. Len(allocation) /\ Looked + 1 \in 0 .. Len(allocation)
  BY <1>2, <1>3
<1>5. /\ ReplicasOf(Looked) \in Int /\ ReplicasOf(Looked + 1) \in Int
      /\ ReplicasOf(Looked + 1) = ReplicasOf(Looked) + ThisEntry.replicas
      /\ Accepted(Len(allocation)) => ReplicasOf(Looked + 1) <= ReplicasOf(Len(allocation))
  BY <1>1, <1>2, <1>4, RunningTotal
<1>6. CASE ~ EntryAccepted(ThisEntry)
  <2>1. Reject
    BY <1>6 DEF CheckEntry
  <2>2. ASSUME ShouldAccept PROVE FALSE
    <3>1. Accepted(Len(allocation)) /\ ReplicasOf(Len(allocation)) = job.replicas
      BY <1>1, <2>2, AcceptedMeansChecks
    <3>2. Accepted(Looked + 1)
      BY <1>2, <1>3, <3>1 DEF Accepted
    <3>3. job.replicas \in Int /\ job.replicas <= MaxInt64 /\ MaxInt64 \in Int
      BY <1>1, MaxInt64Assumption DEF TypeInv, Int64
    <3>4. allocatedReplicas <= MaxInt64 - ThisEntry.replicas
      BY ONLY <1>1, <1>2, <1>5, <3>1, <3>3
    <3> QED BY <1>2, <1>6, <3>2, <3>4
  <2> QED BY <1>1, <2>1, <2>2, RejectKeepsInv
<1>7. CASE EntryAccepted(ThisEntry)
  <2>1. Accepted(Looked + 1)
    BY <1>2, <1>7
  <2>2. NodeIndexes(ThisEntry.node) = GivenIndexes(allocation[Looked + 1].node)
    BY <1>1, <1>2 DEF NodeIndexes, GivenIndexes
  <2>3. [node |-> CHOOSE k \in NodeIndexes(ThisEntry.node) : TRUE,
         resources |-> ResourcesForReplicas(job.resourcesPerReplica, ThisEntry.replicas)]
          = ReleaseOf(Looked + 1)
    BY <1>2, <2>2 DEF ReleaseOf, CreditedNode, Credit
  <2>4. /\ allocatedReplicas' = allocatedReplicas + ThisEntry.replicas
        /\ releases' = Append(releases, ReleaseOf(Looked + 1))
        /\ UNCHANGED <<nodes, job, allocation, given, pc, failed>>
    BY <1>7, <2>3 DEF CheckEntry, argumentVars
  <2>5. EntryFits(Looked + 1)
    BY <1>2, <2>1 DEF Accepted
  <2>6. CreditedNode(Looked + 1) \in Nat /\ Credit(Looked + 1) \in [Dim -> Int]
    BY <1>1, <1>2, <1>3, <2>5, CreditType
  <2>7. ReleaseOf(Looked + 1) \in [node : Nat, resources : [Dim -> Int]]
    BY <2>6 DEF ReleaseOf
  <2>8. releases \in Seq([node : Nat, resources : [Dim -> Int]]) /\ Len(releases) = Looked
    BY <1>1 DEF TypeInv, Looked
  <2>9. /\ releases' \in Seq([node : Nat, resources : [Dim -> Int]])
        /\ Looked' = Looked + 1
        /\ \A l \in 1 .. Looked : releases'[l] = releases[l]
        /\ releases'[Looked + 1] = ReleaseOf(Looked + 1)
    BY <2>4, <2>7, <2>8 DEF Looked
  <2>10. allocatedReplicas' = ReplicasOf(Looked + 1)
    BY <1>1, <1>5, <2>4
  <2>11. TypeInv'
    BY <1>1, <1>5, <2>4, <2>9, <2>10 DEF TypeInv
  <2>12. \A l \in 1 .. Looked + 1 : releases'[l] = ReleaseOf(l)
    BY <1>1, <1>2, <2>9
  <2>13. /\ ReleasableJob' /\ GivenConsistent'
         /\ \A c : Accepted(c)' <=> Accepted(c)
         /\ \A c : ReplicasOf(c)' = ReplicasOf(c)
         /\ \A l : ReleaseOf(l)' = ReleaseOf(l)
    BY <1>1, <2>4 DEF ReleasableJob, GivenConsistent, Accepted, EntryFits, Credit, GivenIndexes,
      GivenConsumption, ReplicasOf, Replicas, ReleaseOf, CreditedNode
  <2>14. Progress'
    BY <1>1, <1>2, <2>1, <2>4, <2>9, <2>10, <2>12, <2>13 DEF Progress
  <2>15. AgreesWithRelease'
    BY <1>1, <2>4 DEF AgreesWithRelease
  <2> QED BY <2>11, <2>14, <2>15 DEF Inv
<1> QED BY <1>6, <1>7

LEMMA CheckTotalKeepsInv == ASSUME Inv, CheckTotal PROVE Inv'
<1>1. /\ TypeInv /\ pc = "allocation" /\ nodes = given /\ ReleasableJob /\ GivenConsistent
      /\ Looked <= Len(allocation) /\ ~ EntriesLeft
      /\ Accepted(Looked) /\ allocatedReplicas = ReplicasOf(Looked)
      /\ \A l \in 1 .. Looked : releases[l] = ReleaseOf(l)
      /\ ~ failed
  BY DEF Inv, Progress, CheckTotal
<1>2. /\ Looked = Len(allocation) /\ Len(allocation) \in Nat
      /\ DOMAIN allocation = 1 .. Len(allocation)
  BY <1>1 DEF TypeInv, Looked, EntriesLeft
<1>3. CASE allocatedReplicas # job.replicas
  <2>1. ~ ShouldAccept
    BY <1>1, <1>2, <1>3, AcceptedMeansChecks
  <2> QED BY <1>1, <1>3, <2>1, RejectKeepsInv DEF CheckTotal
<1>4. CASE allocatedReplicas = job.replicas
  <2>1. /\ pc' = "apply"
        /\ UNCHANGED <<nodes, job, allocation, given, failed, allocatedReplicas, releases>>
    BY <1>4 DEF CheckTotal, Goto, argumentVars
  <2>2. TypeInv'
    BY <1>1, <2>1 DEF TypeInv
  <2>3. /\ ReleasableJob' /\ GivenConsistent'
        /\ \A c : Accepted(c)' <=> Accepted(c)
        /\ \A c : ReplicasOf(c)' = ReplicasOf(c)
        /\ \A l : ReleaseOf(l)' = ReleaseOf(l)
        /\ Looked' = Looked /\ Applications' = 0
    BY <1>1, <1>2, <2>1 DEF ReleasableJob, GivenConsistent, Accepted, EntryFits, Credit,
      GivenIndexes, GivenConsumption, ReplicasOf, Replicas, ReleaseOf, CreditedNode, Looked,
      Applications
  <2>4. Credited(0)
    BY <1>1 DEF Credited
  <2>5. Credited(0)'
    BY <2>1, <2>4 DEF Credited, CreditedNode, GivenIndexes, Credit
  <2>6. \A l \in 1 .. Looked : releases'[l] = ReleaseOf(0 + l)
    BY <1>1, <1>2, <2>1
  <2>7. Progress'
    BY <1>1, <1>2, <1>4, <2>1, <2>3, <2>5, <2>6 DEF Progress
  <2>8. AgreesWithRelease'
    BY <2>1 DEF AgreesWithRelease
  <2> QED BY <2>2, <2>7, <2>8 DEF Inv
<1> QED BY <1>3, <1>4

LEMMA ApplyKeepsInv == ASSUME Inv, Apply PROVE Inv'
<1>n. PICK next : next = Applications + 1
  OBVIOUS
<1>t. PICK target : target = CreditedNode(next)
  OBVIOUS
<1>1. /\ TypeInv /\ pc = "apply" /\ ReleasableJob /\ GivenConsistent
      /\ Accepted(Len(allocation)) /\ ReplicasOf(Len(allocation)) = job.replicas
      /\ Looked <= Len(allocation) /\ releases # <<>> /\ ~ failed
      /\ \A l \in 1 .. Looked : releases[l] = ReleaseOf(Applications + l)
      /\ Credited(Applications)
  BY DEF Inv, Progress, Apply
<1>2. /\ allocation \in Seq(Allocation) /\ nodes \in Seq(AnyNodeState)
      /\ given \in Seq(NodeState)
      /\ releases \in Seq([node : Nat, resources : [Dim -> Int]])
  BY <1>1 DEF TypeInv
<1>3. /\ Len(allocation) \in Nat /\ DOMAIN allocation = 1 .. Len(allocation)
      /\ Looked \in Nat /\ Looked > 0 /\ Applications = Len(allocation) - Looked
  BY <1>1, <1>2 DEF Looked, Applications
<1>4. /\ next \in 1 .. Len(allocation) /\ Applications \in Nat
      /\ 1 .. next = (1 .. Applications) \cup {next} /\ next \notin 1 .. Applications
      /\ 1 .. Applications \subseteq 1 .. Len(allocation)
  BY <1>1, <1>3, <1>n
<1>5. Head(releases) = ReleaseOf(next)
  <2>1. Head(releases) = releases[1] /\ 1 \in 1 .. Looked
    BY <1>1, <1>2, <1>3
  <2> QED BY <1>1, <1>n, <2>1
<1>6. /\ nodes' = [nodes EXCEPT ![target].remaining =
                     [d \in Dim |-> @[d] + Credit(next)[d]]]
      /\ releases' = Tail(releases)
      /\ UNCHANGED <<job, allocation, given, pc, failed, allocatedReplicas>>
  <2>1. Head(releases).node = target /\ Head(releases).resources = Credit(next)
    BY <1>5, <1>t DEF ReleaseOf
  <2> QED BY <2>1 DEF Apply, argumentVars
<1>7. \A l \in 1 .. next : EntryFits(l) /\ l \in DOMAIN allocation
  BY <1>1, <1>3, <1>4 DEF Accepted
<1>8. \A l \in 1 .. next : /\ CreditedNode(l) \in DOMAIN given
                           /\ given[CreditedNode(l)].name = allocation[l].node
                           /\ Credit(l) \in [Dim -> Int]
  BY <1>1, <1>7, CreditType
<1>9. next \in 1 .. next
  BY <1>4
<1>10. \A l \in 1 .. Applications : CreditedNode(l) # target
  <2>1. \A l \in 1 .. Applications : allocation[l].node # allocation[next].node
    BY <1>1, <1>4 DEF Accepted
  <2>2. \A l \in 1 .. Applications : l \in 1 .. next
    BY <1>4
  <2> QED BY <1>8, <1>9, <1>t, <2>1, <2>2
<1>11. DOMAIN nodes = DOMAIN given /\ target \in DOMAIN nodes /\ target \in DOMAIN given
  BY <1>1, <1>8, <1>9, <1>t DEF Credited
<1>12. nodes[target].remaining = given[target].remaining
  BY <1>1, <1>10, <1>11 DEF Credited
<1>13. nodes[target] \in AnyNodeState
  BY <1>2, <1>11
<1> DEFINE credited == [d \in Dim |-> given[target].remaining[d] + Credit(next)[d]]
<1>14. credited \in [Dim -> Int]
  <2>1. given[target].remaining \in [Dim -> Int]
    BY <1>12, <1>13 DEF AnyNodeState
  <2> QED BY <1>8, <1>9, <2>1
<1>15. nodes' = [nodes EXCEPT ![target] = [nodes[target] EXCEPT !.remaining = credited]]
  BY <1>6, <1>12
<1> HIDE DEF credited
<1>16. [nodes[target] EXCEPT !.remaining = credited] \in AnyNodeState
  BY <1>13, <1>14 DEF AnyNodeState
<1>17. nodes' \in Seq(AnyNodeState)
  BY <1>2, <1>11, <1>15, <1>16
<1>18. /\ DOMAIN nodes' = DOMAIN nodes
       /\ \A k \in DOMAIN nodes : k # target => nodes'[k] = nodes[k]
       /\ nodes'[target].remaining = credited /\ nodes'[target].name = nodes[target].name
  BY <1>2, <1>11, <1>13, <1>15 DEF AnyNodeState
<1>19. /\ releases' \in Seq([node : Nat, resources : [Dim -> Int]])
       /\ Looked' = Looked - 1
       /\ \A l \in 1 .. Looked - 1 : releases'[l] = releases[l + 1]
  BY <1>1, <1>2, <1>3, <1>6 DEF Looked
<1>20. TypeInv'
  BY <1>1, <1>6, <1>17, <1>19 DEF TypeInv
<1>21. /\ ReleasableJob' /\ GivenConsistent'
       /\ \A c : Accepted(c)' <=> Accepted(c)
       /\ \A c : ReplicasOf(c)' = ReplicasOf(c)
       /\ \A l : ReleaseOf(l)' = ReleaseOf(l)
       /\ \A l : CreditedNode(l)' = CreditedNode(l) /\ Credit(l)' = Credit(l)
  BY <1>1, <1>6 DEF ReleasableJob, GivenConsistent, Accepted, EntryFits, Credit, GivenIndexes,
    GivenConsumption, ReplicasOf, Replicas, ReleaseOf, CreditedNode
<1>22. Applications' = next
  BY <1>3, <1>6, <1>19, <1>n DEF Applications, Looked
<1>23. ASSUME NEW l \in 1 .. Looked - 1
       PROVE  releases'[l] = ReleaseOf(next + l)
  <2>1. l + 1 \in 1 .. Looked /\ Applications + (l + 1) = next + l
    BY <1>3, <1>4, <1>n
  <2>2. releases[l + 1] = ReleaseOf(Applications + (l + 1))
    BY <1>1, <2>1
  <2> QED BY <1>19, <2>1, <2>2
<1>24. ASSUME NEW k \in DOMAIN given PROVE nodes'[k].name = given[k].name
  BY <1>1, <1>11, <1>18 DEF Credited
<1>25. ASSUME NEW k \in DOMAIN given, \A l \in 1 .. next : CreditedNode(l) # k
       PROVE  nodes'[k].remaining = given[k].remaining
  <2>1. k # target /\ \A l \in 1 .. Applications : CreditedNode(l) # k
    BY <1>4, <1>9, <1>25, <1>t
  <2> QED BY <1>1, <1>11, <1>18, <2>1 DEF Credited
<1>26. ASSUME NEW l \in 1 .. next
       PROVE  nodes'[CreditedNode(l)].remaining =
                [d \in Dim |-> given[CreditedNode(l)].remaining[d] + Credit(l)[d]]
  <2>1. CASE l = next
    BY <1>18, <1>t, <2>1 DEF credited
  <2>2. CASE l \in 1 .. Applications
    BY <1>1, <1>8, <1>10, <1>11, <1>18, <2>2 DEF Credited
  <2> QED BY <1>4, <2>1, <2>2
<1>27. Credited(next)'
  BY <1>6, <1>11, <1>18, <1>21, <1>24, <1>25, <1>26 DEF Credited
<1>28. Progress'
  <2>1. Looked' <= Len(allocation') /\ Accepted(Len(allocation))'
        /\ ReplicasOf(Len(allocation))' = job'.replicas
    BY <1>1, <1>3, <1>6, <1>19, <1>21
  <2>2. \A l \in 1 .. Looked' : releases'[l] = ReleaseOf(Applications + l)'
    BY <1>19, <1>21, <1>22, <1>23
  <2>3. Credited(Applications)'
    BY <1>22, <1>27
  <2>4. pc' = "apply" /\ ~ failed'
    BY <1>1, <1>6
  <2> QED BY <1>21, <2>1, <2>2, <2>3, <2>4 DEF Progress
<1>29. AgreesWithRelease'
  BY <1>1, <1>6 DEF AgreesWithRelease
<1> QED BY <1>20, <1>28, <1>29 DEF Inv

\* Once every entry has been credited, the nodes are as module Release says.
LEMMA AppliedMeansReleased ==
  ASSUME TypeInv, GivenConsistent, Accepted(Len(allocation)), Credited(Len(allocation))
  PROVE  RemainingByNode(nodes) = Released(RemainingByNode(given), job, AllocationByNode)
<1> DEFINE before == RemainingByNode(given)
           after == RemainingByNode(nodes)
           released == Released(before, job, AllocationByNode)
<1>1. DOMAIN allocation = 1 .. Len(allocation)
  BY DEF TypeInv
<1>2. /\ DOMAIN nodes = DOMAIN given
      /\ \A k \in DOMAIN given : nodes[k].name = given[k].name
  BY DEF Credited
<1>3. /\ \A k, l \in DOMAIN given : given[k].name = given[l].name => k = l
      /\ \A k, l \in DOMAIN nodes : nodes[k].name = nodes[l].name => k = l
      /\ \A k, l \in DOMAIN allocation : allocation[k].node = allocation[l].node => k = l
  BY <1>1, <1>2 DEF GivenConsistent, Accepted
<1>4. /\ DOMAIN before = {given[k].name : k \in DOMAIN given}
      /\ DOMAIN after = {nodes[k].name : k \in DOMAIN nodes}
      /\ \A k \in DOMAIN given : before[given[k].name] = given[k].remaining
      /\ \A k \in DOMAIN given : after[given[k].name] = nodes[k].remaining
      /\ after = [n \in DOMAIN after |-> after[n]]
  <2>1. /\ DOMAIN before = {given[k].name : k \in DOMAIN given}
        /\ \A k \in DOMAIN given : before[given[k].name] = given[k].remaining
    BY <1>3, NodesByName
  <2>2. /\ DOMAIN after = {nodes[k].name : k \in DOMAIN nodes}
        /\ \A k \in DOMAIN nodes : after[nodes[k].name] = nodes[k].remaining
        /\ after = [n \in DOMAIN after |-> after[n]]
    BY <1>3, NodesByName
  <2> HIDE DEF before, after
  <2> QED BY <1>2, <2>1, <2>2
<1>5. /\ DOMAIN AllocationByNode = {allocation[l].node : l \in DOMAIN allocation}
      /\ \A l \in DOMAIN allocation :
           AllocationByNode[allocation[l].node] = allocation[l].replicas
  BY <1>3, EntriesByNode
<1> HIDE DEF before, after
<1>6. DOMAIN after = DOMAIN before
  BY <1>2, <1>4
<1>7. ASSUME NEW n \in DOMAIN before
      PROVE  after[n] = released[n]
  <2>1. PICK k \in DOMAIN given : n = given[k].name
    BY <1>4
  <2>2. CASE n \notin DOMAIN AllocationByNode
    <3>1. ASSUME NEW l \in 1 .. Len(allocation), CreditedNode(l) = k PROVE FALSE
      <4>1. EntryFits(l) /\ l \in DOMAIN allocation
        BY <1>1 DEF Accepted
      <4>2. given[k].name = allocation[l].node
        BY <3>1, <4>1, CreditType
      <4> QED BY <1>5, <2>1, <2>2, <4>1, <4>2
    <3>2. nodes[k].remaining = given[k].remaining
      BY <3>1 DEF Credited
    <3> QED BY <1>4, <2>1, <2>2, <3>2 DEF Released
  <2>3. CASE n \in DOMAIN AllocationByNode
    <3>1. PICK l \in DOMAIN allocation : n = allocation[l].node
      BY <1>5, <2>3
    <3>2. EntryFits(l)
      BY <1>1 DEF Accepted
    <3>3. CreditedNode(l) \in DOMAIN given /\ given[CreditedNode(l)].name = n
      BY <3>1, <3>2, CreditType
    <3>4. CreditedNode(l) = k
      BY <1>3, <2>1, <3>3
    <3>5. nodes[k].remaining = [d \in Dim |-> given[k].remaining[d] + Credit(l)[d]]
      BY <1>1, <3>4 DEF Credited
    <3>6. Credit(l) = ResourcesForReplicas(job.resourcesPerReplica, AllocationByNode[n])
      BY <1>5, <3>1 DEF Credit
    <3>7. after[n] = [d \in Dim |-> before[n][d]
            + ResourcesForReplicas(job.resourcesPerReplica, AllocationByNode[n])[d]]
      BY <1>4, <2>1, <3>5, <3>6
    <3> QED BY <2>3, <3>7 DEF Released
  <2> QED BY <2>2, <2>3
<1>8. DOMAIN released = DOMAIN before /\ released = [n \in DOMAIN before |-> released[n]]
  BY DEF Released
<1>9. after = released
  <2> HIDE DEF released
  <2> QED BY <1>4, <1>6, <1>7, <1>8
<1> QED BY <1>9 DEF before, after

LEMMA AppliedKeepsInv == ASSUME Inv, Applied PROVE Inv'
<1>1. /\ TypeInv /\ pc = "apply" /\ ReleasableJob /\ GivenConsistent /\ releases = <<>>
      /\ Accepted(Len(allocation)) /\ ReplicasOf(Len(allocation)) = job.replicas
      /\ Credited(Applications) /\ ~ failed
  BY DEF Inv, Progress, Applied
<1>2. Applications = Len(allocation)
  BY <1>1 DEF TypeInv, Applications
<1>3. /\ pc' = "returned"
      /\ UNCHANGED <<nodes, job, allocation, given, failed, allocatedReplicas, releases>>
  BY DEF Applied, Goto, argumentVars
<1>4. ShouldAccept
  BY <1>1, ChecksMeanAccepted
<1>5. RemainingByNode(nodes) = Released(RemainingByNode(given), job, AllocationByNode)
  BY <1>1, <1>2, AppliedMeansReleased
<1>6. TypeInv' /\ Progress'
  BY <1>1, <1>3 DEF TypeInv, Progress
<1>7. /\ ShouldAccept' <=> ShouldAccept
      /\ RemainingByNode(nodes)' = RemainingByNode(nodes)
      /\ Released(RemainingByNode(given), job, AllocationByNode)'
           = Released(RemainingByNode(given), job, AllocationByNode)
  BY <1>3 DEF ShouldAccept, AllocationByNode
<1>8. AgreesWithRelease'
  BY <1>1, <1>3, <1>4, <1>5, <1>7 DEF AgreesWithRelease
<1> QED BY <1>6, <1>8 DEF Inv

LEMMA InvStep == Inv /\ [Next]_vars => Inv'
<1> SUFFICES ASSUME Inv, [Next]_vars PROVE Inv'
  OBVIOUS
<1>1. CASE UNCHANGED vars
  <2>1. UNCHANGED <<nodes, job, allocation, given, pc, failed, allocatedReplicas, releases>>
    BY <1>1 DEF vars, argumentVars
  <2>2. TypeInv'
    BY <2>1 DEF Inv, TypeInv
  <2>3. /\ ReleasableJob => ReleasableJob'
        /\ GivenConsistent => GivenConsistent'
        /\ \A c : Accepted(c) => Accepted(c)'
        /\ \A c : Credited(c) => Credited(c)'
        /\ \A c : ReplicasOf(c)' = ReplicasOf(c)
        /\ \A l : ReleaseOf(l)' = ReleaseOf(l)
        /\ Looked' = Looked /\ Applications' = Applications
    BY <2>1 DEF ReleasableJob, GivenConsistent, Accepted, EntryFits, Credit,
      GivenIndexes, GivenConsumption, ReplicasOf, Replicas, ReleaseOf, CreditedNode, Credited,
      Looked, Applications
  <2>5. Progress'
    <3>1. failed => pc = "returned"
      BY DEF Inv, Progress
    <3>2. failed' => pc' = "returned"
      BY <2>1, <3>1
    <3>3. CASE pc = "job"
      BY <2>1, <3>2, <3>3 DEF Inv, Progress
    <3>4. CASE pc = "allocation"
      BY <2>1, <2>3, <3>2, <3>4 DEF Inv, Progress
    <3>5. CASE pc = "apply"
      BY <2>1, <2>3, <3>2, <3>5 DEF Inv, Progress
    <3>6. CASE pc = "returned"
      BY <2>1, <3>2, <3>6 DEF Progress
    <3> QED BY <3>3, <3>4, <3>5, <3>6 DEF Inv, TypeInv
  <2>4. AgreesWithRelease'
    BY <2>1 DEF Inv, AgreesWithRelease, ShouldAccept, AllocationByNode
  <2> QED BY <2>2, <2>4, <2>5 DEF Inv
<1>2. CASE CheckState
  BY <1>2, CheckStateKeepsInv
<1>3. CASE CheckEntry
  BY <1>3, CheckEntryKeepsInv
<1>4. CASE CheckTotal
  BY <1>4, CheckTotalKeepsInv
<1>5. CASE Apply
  BY <1>5, ApplyKeepsInv
<1>6. CASE Applied
  BY <1>6, AppliedKeepsInv
<1> QED BY <1>1, <1>2, <1>3, <1>4, <1>5, <1>6 DEF Next, Returned

(***************************************************************************)
(* releaseAllocation accepts exactly the releases module Release accepts,  *)
(* leaves the nodes as Released says, and changes no node when it returns  *)
(* an error, whatever it is called with: inconsistent or duplicate nodes,  *)
(* entries for unknown or repeated nodes, totals beyond int64.             *)
(***************************************************************************)
THEOREM ReleaseIsAtomic == Spec => []AgreesWithRelease
<1>1. Inv => AgreesWithRelease
  BY DEF Inv
<1> QED BY <1>1, InvInit, InvStep, PTL DEF Spec
=============================================================================
