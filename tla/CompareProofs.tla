---------------------------- MODULE CompareProofs ----------------------------
(***************************************************************************)
(* Proofs about Compare, for every cluster, job set and int64 bound: the   *)
(* goroutines are those of module ScheduleProofs, so what is proved there  *)
(* of one schedule is used here of each of the two.                        *)
(***************************************************************************)
EXTENDS Compare, TLAPS

StrictP == INSTANCE ScheduleProofs WITH
  policy <- strictPolicy, PolicyNames <- {PolicyStrictFIFO}, CallerMayCancel <- TRUE,
  pc <- strictPc, err <- strictErr, remaining <- strictRemaining,
  blockingJob <- strictBlockingJob, decisions <- strictDecisions,
  totals <- strictTotals

BackfillP == INSTANCE ScheduleProofs WITH
  policy <- backfillPolicy, PolicyNames <- {PolicyBackfill}, CallerMayCancel <- TRUE,
  pc <- backfillPc, err <- backfillErr, remaining <- backfillRemaining,
  blockingJob <- backfillBlockingJob, decisions <- backfillDecisions,
  totals <- backfillTotals

-----------------------------------------------------------------------------
(***************************************************************************)
(* Strict, StrictP, Backfill and BackfillP are instances of one module, so *)
(* an operator that reads no variable is the same in each; a prover sees   *)
(* that only when it opens the definitions, from the innermost out.        *)
(***************************************************************************)
LEMMA SameConstants ==
  /\ StrictP!EmptyName = Strict!EmptyName
  /\ StrictP!NoTopology = Strict!NoTopology
  /\ StrictP!MissingKey = Strict!MissingKey
  /\ StrictP!GlobalTopologyDomain = Strict!GlobalTopologyDomain
  /\ StrictP!Dim = Strict!Dim
  /\ StrictP!StatusAdmitted = Strict!StatusAdmitted
  /\ StrictP!StatusPending = Strict!StatusPending
  /\ Backfill!EmptyName = Strict!EmptyName
  /\ Backfill!NoTopology = Strict!NoTopology
  /\ Backfill!MissingKey = Strict!MissingKey
  /\ Backfill!GlobalTopologyDomain = Strict!GlobalTopologyDomain
  /\ Backfill!Dim = Strict!Dim
  /\ Backfill!StatusAdmitted = Strict!StatusAdmitted
  /\ Backfill!StatusPending = Strict!StatusPending
  /\ BackfillP!EmptyName = Strict!EmptyName
  /\ BackfillP!NoTopology = Strict!NoTopology
  /\ BackfillP!MissingKey = Strict!MissingKey
  /\ BackfillP!GlobalTopologyDomain = Strict!GlobalTopologyDomain
  /\ BackfillP!Dim = Strict!Dim
  /\ BackfillP!StatusAdmitted = Strict!StatusAdmitted
  /\ BackfillP!StatusPending = Strict!StatusPending
BY DEF Strict!EmptyName, StrictP!EmptyName, Backfill!EmptyName, BackfillP!EmptyName,
       Strict!NoTopology, StrictP!NoTopology, Backfill!NoTopology,
       BackfillP!NoTopology, Strict!MissingKey, StrictP!MissingKey,
       Backfill!MissingKey, BackfillP!MissingKey, Strict!GlobalTopologyDomain,
       StrictP!GlobalTopologyDomain, Backfill!GlobalTopologyDomain,
       BackfillP!GlobalTopologyDomain, Strict!Dim, StrictP!Dim, Backfill!Dim,
       BackfillP!Dim, Strict!StatusAdmitted, StrictP!StatusAdmitted,
       Backfill!StatusAdmitted, BackfillP!StatusAdmitted, Strict!StatusPending,
       StrictP!StatusPending, Backfill!StatusPending, BackfillP!StatusPending

LEMMA SameSumFunctionOnSet == \A f, S :
  /\ StrictP!SumFunctionOnSet(f, S) = Strict!SumFunctionOnSet(f, S)
  /\ Backfill!SumFunctionOnSet(f, S) = Strict!SumFunctionOnSet(f, S)
  /\ BackfillP!SumFunctionOnSet(f, S) = Strict!SumFunctionOnSet(f, S)
BY DEF Strict!SumFunctionOnSet, StrictP!SumFunctionOnSet, Backfill!SumFunctionOnSet,
       BackfillP!SumFunctionOnSet, Strict!FoldFunctionOnSet,
       StrictP!FoldFunctionOnSet, Backfill!FoldFunctionOnSet,
       BackfillP!FoldFunctionOnSet, Strict!MapThenFoldSet, StrictP!MapThenFoldSet,
       Backfill!MapThenFoldSet, BackfillP!MapThenFoldSet

LEMMA SameSumFunction == \A f :
  /\ StrictP!SumFunction(f) = Strict!SumFunction(f)
  /\ Backfill!SumFunction(f) = Strict!SumFunction(f)
  /\ BackfillP!SumFunction(f) = Strict!SumFunction(f)
BY SameSumFunctionOnSet
   DEF Strict!SumFunction, StrictP!SumFunction, Backfill!SumFunction,
       BackfillP!SumFunction

LEMMA SameMin == \A S :
  /\ StrictP!Min(S) = Strict!Min(S)
  /\ Backfill!Min(S) = Strict!Min(S)
  /\ BackfillP!Min(S) = Strict!Min(S)
BY DEF Strict!Min, StrictP!Min, Backfill!Min, BackfillP!Min

LEMMA SameMax == \A S :
  /\ StrictP!Max(S) = Strict!Max(S)
  /\ Backfill!Max(S) = Strict!Max(S)
  /\ BackfillP!Max(S) = Strict!Max(S)
BY DEF Strict!Max, StrictP!Max, Backfill!Max, BackfillP!Max

LEMMA SameRange == \A f :
  /\ StrictP!Range(f) = Strict!Range(f)
  /\ Backfill!Range(f) = Strict!Range(f)
  /\ BackfillP!Range(f) = Strict!Range(f)
BY DEF Strict!Range, StrictP!Range, Backfill!Range, BackfillP!Range

LEMMA SameCardinality == \A S :
  /\ StrictP!Cardinality(S) = Strict!Cardinality(S)
  /\ Backfill!Cardinality(S) = Strict!Cardinality(S)
  /\ BackfillP!Cardinality(S) = Strict!Cardinality(S)
BY DEF Strict!Cardinality, StrictP!Cardinality, Backfill!Cardinality,
       BackfillP!Cardinality

LEMMA SameLabel == \A t, key :
  /\ StrictP!Label(t, key) = Strict!Label(t, key)
  /\ Backfill!Label(t, key) = Strict!Label(t, key)
  /\ BackfillP!Label(t, key) = Strict!Label(t, key)
BY SameConstants
   DEF Strict!Label, StrictP!Label, Backfill!Label, BackfillP!Label

LEMMA SameResourcesForReplicas == \A r, k :
  /\ StrictP!ResourcesForReplicas(r, k) = Strict!ResourcesForReplicas(r, k)
  /\ Backfill!ResourcesForReplicas(r, k) = Strict!ResourcesForReplicas(r, k)
  /\ BackfillP!ResourcesForReplicas(r, k) = Strict!ResourcesForReplicas(r, k)
BY SameConstants
   DEF Strict!ResourcesForReplicas, StrictP!ResourcesForReplicas,
       Backfill!ResourcesForReplicas, BackfillP!ResourcesForReplicas

LEMMA SameAvailableReplicaSlots == \A r, p :
  /\ StrictP!AvailableReplicaSlots(r, p) = Strict!AvailableReplicaSlots(r, p)
  /\ Backfill!AvailableReplicaSlots(r, p) = Strict!AvailableReplicaSlots(r, p)
  /\ BackfillP!AvailableReplicaSlots(r, p) = Strict!AvailableReplicaSlots(r, p)
BY SameConstants, SameMin
   DEF Strict!AvailableReplicaSlots, StrictP!AvailableReplicaSlots,
       Backfill!AvailableReplicaSlots, BackfillP!AvailableReplicaSlots

LEMMA SameNodeSlots == \A r, j :
  /\ StrictP!NodeSlots(r, j) = Strict!NodeSlots(r, j)
  /\ Backfill!NodeSlots(r, j) = Strict!NodeSlots(r, j)
  /\ BackfillP!NodeSlots(r, j) = Strict!NodeSlots(r, j)
BY SameAvailableReplicaSlots
   DEF Strict!NodeSlots, StrictP!NodeSlots, Backfill!NodeSlots, BackfillP!NodeSlots

LEMMA SameBuildDomains == \A n, key :
  /\ StrictP!BuildDomains(n, key) = Strict!BuildDomains(n, key)
  /\ Backfill!BuildDomains(n, key) = Strict!BuildDomains(n, key)
  /\ BackfillP!BuildDomains(n, key) = Strict!BuildDomains(n, key)
BY DEF Strict!BuildDomains, StrictP!BuildDomains, Backfill!BuildDomains,
       BackfillP!BuildDomains, Strict!Label, StrictP!Label, Backfill!Label,
       BackfillP!Label, Strict!EmptyName, StrictP!EmptyName, Backfill!EmptyName,
       BackfillP!EmptyName, Strict!MissingKey, StrictP!MissingKey,
       Backfill!MissingKey, BackfillP!MissingKey, Strict!NoTopology,
       StrictP!NoTopology, Backfill!NoTopology, BackfillP!NoTopology,
       Strict!GlobalTopologyDomain, StrictP!GlobalTopologyDomain,
       Backfill!GlobalTopologyDomain, BackfillP!GlobalTopologyDomain

LEMMA SameDomainSlots == \A s, d :
  /\ StrictP!DomainSlots(s, d) = Strict!DomainSlots(s, d)
  /\ Backfill!DomainSlots(s, d) = Strict!DomainSlots(s, d)
  /\ BackfillP!DomainSlots(s, d) = Strict!DomainSlots(s, d)
BY SameSumFunctionOnSet
   DEF Strict!DomainSlots, StrictP!DomainSlots, Backfill!DomainSlots,
       BackfillP!DomainSlots

LEMMA SameLargestAvailableDomain == \A s :
  /\ StrictP!LargestAvailableDomain(s) = Strict!LargestAvailableDomain(s)
  /\ Backfill!LargestAvailableDomain(s) = Strict!LargestAvailableDomain(s)
  /\ BackfillP!LargestAvailableDomain(s) = Strict!LargestAvailableDomain(s)
BY SameConstants, SameMin, SameMax, SameRange
   DEF Strict!LargestAvailableDomain, StrictP!LargestAvailableDomain,
       Backfill!LargestAvailableDomain, BackfillP!LargestAvailableDomain

LEMMA SameCompactPacking == \A s, m, r :
  /\ StrictP!CompactPacking(s, m, r) = Strict!CompactPacking(s, m, r)
  /\ Backfill!CompactPacking(s, m, r) = Strict!CompactPacking(s, m, r)
  /\ BackfillP!CompactPacking(s, m, r) = Strict!CompactPacking(s, m, r)
BY SameSumFunctionOnSet
   DEF Strict!CompactPacking, StrictP!CompactPacking, Backfill!CompactPacking,
       BackfillP!CompactPacking, Strict!PackedBefore, StrictP!PackedBefore,
       Backfill!PackedBefore, BackfillP!PackedBefore

LEMMA SameCandidates == \A s, d, r :
  /\ StrictP!Candidates(s, d, r) = Strict!Candidates(s, d, r)
  /\ Backfill!Candidates(s, d, r) = Strict!Candidates(s, d, r)
  /\ BackfillP!Candidates(s, d, r) = Strict!Candidates(s, d, r)
BY SameSumFunctionOnSet, SameCompactPacking
   DEF Strict!Candidates, StrictP!Candidates, Backfill!Candidates,
       BackfillP!Candidates

LEMMA SameSelectable == \A s, c :
  /\ StrictP!Selectable(s, c) = Strict!Selectable(s, c)
  /\ Backfill!Selectable(s, c) = Strict!Selectable(s, c)
  /\ BackfillP!Selectable(s, c) = Strict!Selectable(s, c)
BY SameCardinality
   DEF Strict!Selectable, StrictP!Selectable, Backfill!Selectable,
       BackfillP!Selectable, Strict!Preferred, StrictP!Preferred,
       Backfill!Preferred, BackfillP!Preferred

LEMMA SameRefusal == \A s, c, j :
  /\ StrictP!Refusal(s, c, j) = Strict!Refusal(s, c, j)
  /\ Backfill!Refusal(s, c, j) = Strict!Refusal(s, c, j)
  /\ BackfillP!Refusal(s, c, j) = Strict!Refusal(s, c, j)
BY SameConstants, SameLargestAvailableDomain
   DEF Strict!Refusal, StrictP!Refusal, Backfill!Refusal, BackfillP!Refusal,
       Strict!Rejected, StrictP!Rejected, Backfill!Rejected, BackfillP!Rejected,
       Strict!InsufficientCapacity, StrictP!InsufficientCapacity,
       Backfill!InsufficientCapacity, BackfillP!InsufficientCapacity,
       Strict!PlacementFailed, StrictP!PlacementFailed, Backfill!PlacementFailed,
       BackfillP!PlacementFailed, Strict!TopologyFragmented,
       StrictP!TopologyFragmented, Backfill!TopologyFragmented,
       BackfillP!TopologyFragmented

LEMMA SameConsumed == \A r, j, a :
  /\ StrictP!Consumed(r, j, a) = Strict!Consumed(r, j, a)
  /\ Backfill!Consumed(r, j, a) = Strict!Consumed(r, j, a)
  /\ BackfillP!Consumed(r, j, a) = Strict!Consumed(r, j, a)
BY SameConstants, SameResourcesForReplicas
   DEF Strict!Consumed, StrictP!Consumed, Backfill!Consumed, BackfillP!Consumed

LEMMA SameMakeNodeStates == \A c :
  /\ StrictP!MakeNodeStates(c) = Strict!MakeNodeStates(c)
  /\ Backfill!MakeNodeStates(c) = Strict!MakeNodeStates(c)
  /\ BackfillP!MakeNodeStates(c) = Strict!MakeNodeStates(c)
BY DEF Strict!MakeNodeStates, StrictP!MakeNodeStates, Backfill!MakeNodeStates,
       BackfillP!MakeNodeStates

LEMMA SameIdleResources == \A n :
  /\ StrictP!IdleResources(n) = Strict!IdleResources(n)
  /\ Backfill!IdleResources(n) = Strict!IdleResources(n)
  /\ BackfillP!IdleResources(n) = Strict!IdleResources(n)
BY DEF Strict!IdleResources, StrictP!IdleResources, Backfill!IdleResources,
       BackfillP!IdleResources

LEMMA SameTotalCapacity == \A c, d :
  /\ StrictP!TotalCapacity(c, d) = Strict!TotalCapacity(c, d)
  /\ Backfill!TotalCapacity(c, d) = Strict!TotalCapacity(c, d)
  /\ BackfillP!TotalCapacity(c, d) = Strict!TotalCapacity(c, d)
BY SameSumFunction
   DEF Strict!TotalCapacity, StrictP!TotalCapacity, Backfill!TotalCapacity,
       BackfillP!TotalCapacity

LEMMA SameUniqueNames == \A r :
  /\ StrictP!UniqueNames(r) = Strict!UniqueNames(r)
  /\ Backfill!UniqueNames(r) = Strict!UniqueNames(r)
  /\ BackfillP!UniqueNames(r) = Strict!UniqueNames(r)
BY SameConstants
   DEF Strict!UniqueNames, StrictP!UniqueNames, Backfill!UniqueNames,
       BackfillP!UniqueNames

LEMMA SameValidateCluster == \A c :
  /\ StrictP!ValidateCluster(c) = Strict!ValidateCluster(c)
  /\ Backfill!ValidateCluster(c) = Strict!ValidateCluster(c)
  /\ BackfillP!ValidateCluster(c) = Strict!ValidateCluster(c)
BY SameConstants, SameUniqueNames, SameTotalCapacity
   DEF Strict!ValidateCluster, StrictP!ValidateCluster, Backfill!ValidateCluster,
       BackfillP!ValidateCluster

LEMMA SameValidateJobs == \A c :
  /\ StrictP!ValidateJobs(c) = Strict!ValidateJobs(c)
  /\ Backfill!ValidateJobs(c) = Strict!ValidateJobs(c)
  /\ BackfillP!ValidateJobs(c) = Strict!ValidateJobs(c)
BY SameConstants, SameUniqueNames
   DEF Strict!ValidateJobs, StrictP!ValidateJobs, Backfill!ValidateJobs,
       BackfillP!ValidateJobs

LEMMA SameValidateTopologyRequirements == \A c, j :
  /\ StrictP!ValidateTopologyRequirements(c, j) = Strict!ValidateTopologyRequirements(c, j)
  /\ Backfill!ValidateTopologyRequirements(c, j) = Strict!ValidateTopologyRequirements(c, j)
  /\ BackfillP!ValidateTopologyRequirements(c, j) = Strict!ValidateTopologyRequirements(c, j)
BY SameConstants, SameLabel
   DEF Strict!ValidateTopologyRequirements, StrictP!ValidateTopologyRequirements,
       Backfill!ValidateTopologyRequirements, BackfillP!ValidateTopologyRequirements

LEMMA SamePlaceJob == \A n, r, j :
  /\ StrictP!PlaceJob(n, r, j) = Strict!PlaceJob(n, r, j)
  /\ Backfill!PlaceJob(n, r, j) = Strict!PlaceJob(n, r, j)
  /\ BackfillP!PlaceJob(n, r, j) = Strict!PlaceJob(n, r, j)
<1> SUFFICES ASSUME NEW n, NEW r, NEW j
             PROVE  /\ StrictP!PlaceJob(n, r, j) = Strict!PlaceJob(n, r, j)
                    /\ Backfill!PlaceJob(n, r, j) = Strict!PlaceJob(n, r, j)
                    /\ BackfillP!PlaceJob(n, r, j) = Strict!PlaceJob(n, r, j)
  OBVIOUS
<1> PICK slots : slots = Strict!NodeSlots(r, j)
  OBVIOUS
<1> PICK domains : domains = Strict!BuildDomains(n, j.requiredTopology)
  OBVIOUS
<1> PICK candidates : candidates = Strict!Candidates(slots, domains, j.replicas)
  OBVIOUS
<1> PICK best : best = Strict!Selectable(Strict!DomainSlots(slots, domains), candidates)
  OBVIOUS
<1> PICK refusal : refusal = Strict!Refusal(Strict!DomainSlots(slots, domains),
                               Strict!SumFunctionOnSet(slots, DOMAIN n), j)
  OBVIOUS
<1> PICK placements : placements = {Strict!Placed(c, candidates[c]) : c \in best}
  OBVIOUS
<1> PICK outcome : outcome =
      IF \E c \in DOMAIN candidates : Strict!SumFunction(candidates[c]) # j.replicas
      THEN {Strict!PlacementFailed}
      ELSE IF DOMAIN candidates = {} THEN {refusal} ELSE placements
  OBVIOUS
<1>1. /\ placements = {StrictP!Placed(c, candidates[c]) : c \in best}
      /\ placements = {Backfill!Placed(c, candidates[c]) : c \in best}
      /\ placements = {BackfillP!Placed(c, candidates[c]) : c \in best}
  BY DEF Strict!Placed, StrictP!Placed, Backfill!Placed, BackfillP!Placed
<1>2. /\ StrictP!PlacementFailed = Strict!PlacementFailed
      /\ Backfill!PlacementFailed = Strict!PlacementFailed
      /\ BackfillP!PlacementFailed = Strict!PlacementFailed
  BY DEF Strict!PlacementFailed, StrictP!PlacementFailed,
         Backfill!PlacementFailed, BackfillP!PlacementFailed
<1>3. Strict!PlaceJob(n, r, j) = outcome
  BY DEF Strict!PlaceJob
<1>4. /\ StrictP!NodeSlots(r, j) = slots
      /\ Backfill!NodeSlots(r, j) = slots
      /\ BackfillP!NodeSlots(r, j) = slots
  BY SameNodeSlots
<1>5. /\ StrictP!BuildDomains(n, j.requiredTopology) = domains
      /\ Backfill!BuildDomains(n, j.requiredTopology) = domains
      /\ BackfillP!BuildDomains(n, j.requiredTopology) = domains
  BY SameBuildDomains
<1>6. /\ StrictP!Candidates(slots, domains, j.replicas) = candidates
      /\ Backfill!Candidates(slots, domains, j.replicas) = candidates
      /\ BackfillP!Candidates(slots, domains, j.replicas) = candidates
  BY SameCandidates
<1>7. /\ StrictP!Selectable(StrictP!DomainSlots(slots, domains), candidates) = best
      /\ Backfill!Selectable(Backfill!DomainSlots(slots, domains), candidates) = best
      /\ BackfillP!Selectable(BackfillP!DomainSlots(slots, domains), candidates) = best
  BY SameSelectable, SameDomainSlots
<1>8. ASSUME NEW s, NEW k
      PROVE  /\ StrictP!Refusal(s, k, j) = Strict!Refusal(s, k, j)
             /\ Backfill!Refusal(s, k, j) = Strict!Refusal(s, k, j)
             /\ BackfillP!Refusal(s, k, j) = Strict!Refusal(s, k, j)
  BY SameRefusal
<1>9. /\ StrictP!Refusal(StrictP!DomainSlots(slots, domains),
            StrictP!SumFunctionOnSet(slots, DOMAIN n), j) = refusal
      /\ Backfill!Refusal(Backfill!DomainSlots(slots, domains),
            Backfill!SumFunctionOnSet(slots, DOMAIN n), j) = refusal
      /\ BackfillP!Refusal(BackfillP!DomainSlots(slots, domains),
            BackfillP!SumFunctionOnSet(slots, DOMAIN n), j) = refusal
  BY <1>8, SameDomainSlots, SameSumFunctionOnSet
<1>10. /\ \A c : StrictP!SumFunction(candidates[c]) = Strict!SumFunction(candidates[c])
       /\ \A c : Backfill!SumFunction(candidates[c]) = Strict!SumFunction(candidates[c])
       /\ \A c : BackfillP!SumFunction(candidates[c]) = Strict!SumFunction(candidates[c])
  BY SameSumFunction
<1>11. StrictP!PlaceJob(n, r, j) = outcome
  BY <1>1, <1>2, <1>4, <1>5, <1>6, <1>7, <1>9, <1>10 DEF StrictP!PlaceJob
<1>12. Backfill!PlaceJob(n, r, j) = outcome
  BY <1>1, <1>2, <1>4, <1>5, <1>6, <1>7, <1>9, <1>10 DEF Backfill!PlaceJob
<1>13. BackfillP!PlaceJob(n, r, j) = outcome
  BY <1>1, <1>2, <1>4, <1>5, <1>6, <1>7, <1>9, <1>10 DEF BackfillP!PlaceJob
<1> QED BY <1>3, <1>11, <1>12, <1>13

-----------------------------------------------------------------------------
(***************************************************************************)
(* The goroutine that runs strict FIFO is a schedule of ScheduleProofs.    *)
(***************************************************************************)
LEMMA StrictResult ==
  /\ StrictP!NoResources = Strict!NoResources
  /\ \A job : StrictP!Requested(job) = Strict!Requested(job)
  /\ \A u, w : StrictP!AddResources(u, w) = Strict!AddResources(u, w)
  /\ StrictP!nodes = Strict!nodes
BY SameConstants, SameResourcesForReplicas, SameMakeNodeStates
    DEF Strict!NoResources, StrictP!NoResources, Strict!Requested, StrictP!Requested,
        Strict!AddResources, StrictP!AddResources, Strict!nodes, StrictP!nodes

LEMMA StrictStarts == Strict!Init => StrictP!Init
BY SameConstants, StrictResult DEF Strict!Init, StrictP!Init, Strict!NilContext, StrictP!NilContext

LEMMA StrictFails == \A error : Strict!Fail(error) <=> StrictP!Fail(error)
BY DEF Strict!Fail, StrictP!Fail, Strict!inputVars, StrictP!inputVars, Strict!resultVars,
    StrictP!resultVars

LEMMA StrictInputError == StrictP!InputError = Strict!InputError
BY SameValidateCluster, SameValidateJobs, SameValidateTopologyRequirements
    DEF Strict!InputError, StrictP!InputError, Strict!Policies, StrictP!Policies,
        Strict!PolicyStrictFIFO, StrictP!PolicyStrictFIFO, Strict!PolicyBackfill,
        StrictP!PolicyBackfill, Strict!NilContext, StrictP!NilContext

LEMMA StrictSteps == Strict!Step => StrictP!Step
<1>1. Strict!RejectInput => StrictP!RejectInput
  BY StrictFails, StrictInputError DEF Strict!RejectInput, StrictP!RejectInput
<1>2. Strict!Start => StrictP!Start
  BY SameConstants, SameIdleResources, SameTotalCapacity, StrictResult, StrictInputError
     DEF Strict!Start, StrictP!Start, Strict!inputVars, StrictP!inputVars
<1>3. \A job, reason : Strict!LeavePending(reason) => StrictP!LeavePending(reason)
  BY SameConstants, StrictResult DEF Strict!LeavePending, StrictP!LeavePending
<1>4. Strict!SkipBlocked => StrictP!SkipBlocked
  BY <1>3, SameConstants
     DEF Strict!SkipBlocked, StrictP!SkipBlocked, Strict!NextJob, StrictP!NextJob,
         Strict!JobsLeft, StrictP!JobsLeft, Strict!HeadOfLineReason,
         StrictP!HeadOfLineReason, Strict!inputVars, StrictP!inputVars
<1>5. Strict!Decide => StrictP!Decide
  <2>1. Strict!ThisJob = StrictP!ThisJob /\ (Strict!NextJob <=> StrictP!NextJob)
    BY DEF Strict!ThisJob, StrictP!ThisJob, Strict!NextJob, StrictP!NextJob,
           Strict!JobsLeft, StrictP!JobsLeft
  <2>2. Strict!Blocks = StrictP!Blocks
    BY <2>1 DEF Strict!Blocks, StrictP!Blocks, Strict!PolicyStrictFIFO,
           StrictP!PolicyStrictFIFO
  <2>3. \A placed : Strict!Refuse(placed.reason) => StrictP!Refuse(placed.reason)
    BY <1>3, <2>2 DEF Strict!Refuse, StrictP!Refuse, Strict!inputVars, StrictP!inputVars
  <2>4. \A placed : Strict!Admit(placed) => StrictP!Admit(placed)
    BY <2>1, SameConstants, SameConsumed, StrictResult
       DEF Strict!Admit, StrictP!Admit, Strict!NoReason, StrictP!NoReason,
           Strict!inputVars, StrictP!inputVars
  <2>5. Strict!PlaceJob(Strict!nodes, strictRemaining, Strict!ThisJob)
          = StrictP!PlaceJob(StrictP!nodes, strictRemaining, StrictP!ThisJob)
    BY <2>1, StrictResult, SamePlaceJob
  <2> QED BY <2>1, <2>3, <2>4, <2>5, SameConstants, StrictFails
             DEF Strict!Decide, StrictP!Decide
<1>6. Strict!Canceled => StrictP!Canceled
  BY StrictFails DEF Strict!Canceled, StrictP!Canceled, Strict!JobsLeft, StrictP!JobsLeft
<1>7. Strict!Finish => StrictP!Finish
  BY DEF Strict!Finish, StrictP!Finish, Strict!JobsLeft, StrictP!JobsLeft,
        Strict!inputVars, StrictP!inputVars, Strict!resultVars, StrictP!resultVars
<1> QED BY <1>1, <1>2, <1>4, <1>5, <1>6, <1>7 DEF Strict!Step, StrictP!Step

-----------------------------------------------------------------------------
(***************************************************************************)
(* And so is the one that runs backfill.                                   *)
(***************************************************************************)
LEMMA BackfillResult ==
  /\ BackfillP!NoResources = Backfill!NoResources
  /\ \A job : BackfillP!Requested(job) = Backfill!Requested(job)
  /\ \A u, w : BackfillP!AddResources(u, w) = Backfill!AddResources(u, w)
  /\ BackfillP!nodes = Backfill!nodes
BY SameConstants, SameResourcesForReplicas, SameMakeNodeStates
    DEF Backfill!NoResources, BackfillP!NoResources, Backfill!Requested,
        BackfillP!Requested, Backfill!AddResources, BackfillP!AddResources,
        Backfill!nodes, BackfillP!nodes

LEMMA BackfillStarts == Backfill!Init => BackfillP!Init
BY SameConstants, BackfillResult
   DEF Backfill!Init, BackfillP!Init, Backfill!NilContext, BackfillP!NilContext

LEMMA BackfillFails == \A error : Backfill!Fail(error) <=> BackfillP!Fail(error)
BY DEF Backfill!Fail, BackfillP!Fail, Backfill!inputVars, BackfillP!inputVars,
    Backfill!resultVars, BackfillP!resultVars

LEMMA BackfillInputError == BackfillP!InputError = Backfill!InputError
BY SameValidateCluster, SameValidateJobs, SameValidateTopologyRequirements
    DEF Backfill!InputError, BackfillP!InputError, Backfill!Policies,
        BackfillP!Policies, Backfill!PolicyStrictFIFO, BackfillP!PolicyStrictFIFO,
        Backfill!PolicyBackfill, BackfillP!PolicyBackfill, Backfill!NilContext,
        BackfillP!NilContext

LEMMA BackfillSteps == Backfill!Step => BackfillP!Step
<1>1. Backfill!RejectInput => BackfillP!RejectInput
  BY BackfillFails, BackfillInputError DEF Backfill!RejectInput, BackfillP!RejectInput
<1>2. Backfill!Start => BackfillP!Start
  BY SameConstants, SameIdleResources, SameTotalCapacity, BackfillResult, BackfillInputError
     DEF Backfill!Start, BackfillP!Start, Backfill!inputVars, BackfillP!inputVars
<1>3. \A job, reason : Backfill!LeavePending(reason) => BackfillP!LeavePending(reason)
  BY SameConstants, BackfillResult DEF Backfill!LeavePending, BackfillP!LeavePending
<1>4. Backfill!SkipBlocked => BackfillP!SkipBlocked
  BY <1>3, SameConstants
     DEF Backfill!SkipBlocked, BackfillP!SkipBlocked, Backfill!NextJob,
         BackfillP!NextJob, Backfill!JobsLeft, BackfillP!JobsLeft,
         Backfill!HeadOfLineReason, BackfillP!HeadOfLineReason, Backfill!inputVars,
         BackfillP!inputVars
<1>5. Backfill!Decide => BackfillP!Decide
  <2>1. Backfill!ThisJob = BackfillP!ThisJob /\ (Backfill!NextJob <=> BackfillP!NextJob)
    BY DEF Backfill!ThisJob, BackfillP!ThisJob, Backfill!NextJob, BackfillP!NextJob,
           Backfill!JobsLeft, BackfillP!JobsLeft
  <2>2. Backfill!Blocks = BackfillP!Blocks
    BY <2>1 DEF Backfill!Blocks, BackfillP!Blocks, Backfill!PolicyStrictFIFO,
           BackfillP!PolicyStrictFIFO
  <2>3. \A placed : Backfill!Refuse(placed.reason) => BackfillP!Refuse(placed.reason)
    BY <1>3, <2>2 DEF Backfill!Refuse, BackfillP!Refuse, Backfill!inputVars, BackfillP!inputVars
  <2>4. \A placed : Backfill!Admit(placed) => BackfillP!Admit(placed)
    BY <2>1, SameConstants, SameConsumed, BackfillResult
       DEF Backfill!Admit, BackfillP!Admit, Backfill!NoReason, BackfillP!NoReason,
           Backfill!inputVars, BackfillP!inputVars
  <2>5. Backfill!PlaceJob(Backfill!nodes, backfillRemaining, Backfill!ThisJob)
          = BackfillP!PlaceJob(BackfillP!nodes, backfillRemaining, BackfillP!ThisJob)
    BY <2>1, BackfillResult, SamePlaceJob
  <2> QED BY <2>1, <2>3, <2>4, <2>5, SameConstants, BackfillFails
             DEF Backfill!Decide, BackfillP!Decide
<1>6. Backfill!Canceled => BackfillP!Canceled
  BY BackfillFails DEF Backfill!Canceled, BackfillP!Canceled, Backfill!JobsLeft, BackfillP!JobsLeft
<1>7. Backfill!Finish => BackfillP!Finish
  BY DEF Backfill!Finish, BackfillP!Finish, Backfill!JobsLeft, BackfillP!JobsLeft,
        Backfill!inputVars, BackfillP!inputVars, Backfill!resultVars,
        BackfillP!resultVars
<1> QED BY <1>1, <1>2, <1>4, <1>5, <1>6, <1>7 DEF Backfill!Step, BackfillP!Step

-----------------------------------------------------------------------------
(***************************************************************************)
(* What ScheduleProofs proves of a run holds of both goroutines, because   *)
(* what it assumes of the constants is assumed here.                       *)
(***************************************************************************)
LEMMA Assumed ==
  /\ MaxInt64 \in Nat \ {0} /\ TRUE \in BOOLEAN
  /\ StrictP!IsFiniteSet(TopologyKeys) /\ BackfillP!IsFiniteSet(TopologyKeys)
  /\ Clusters \subseteq Seq(StrictP!NodeInput) /\ Clusters \subseteq Seq(BackfillP!NodeInput)
  /\ JobSets \subseteq Seq(StrictP!Job) /\ JobSets \subseteq Seq(BackfillP!Job)
<1>1. /\ StrictP!IsFiniteSet(TopologyKeys) <=> IsFiniteSet(TopologyKeys)
      /\ BackfillP!IsFiniteSet(TopologyKeys) <=> IsFiniteSet(TopologyKeys)
  BY DEF IsFiniteSet, StrictP!IsFiniteSet, BackfillP!IsFiniteSet
<1>2. /\ StrictP!Resources = Strict!Resources /\ BackfillP!Resources = Strict!Resources
      /\ StrictP!Int64 = Strict!Int64 /\ BackfillP!Int64 = Strict!Int64
  BY SameConstants DEF Strict!Resources, StrictP!Resources, BackfillP!Resources,
         Strict!Int64, StrictP!Int64, BackfillP!Int64
<1>3. StrictP!Topologies = Strict!Topologies /\ BackfillP!Topologies = Strict!Topologies
  BY SameConstants DEF Strict!Topologies, StrictP!Topologies, BackfillP!Topologies
<1>4. StrictP!NodeInput = Strict!NodeInput /\ BackfillP!NodeInput = Strict!NodeInput
  BY <1>2, <1>3 DEF Strict!NodeInput, StrictP!NodeInput, BackfillP!NodeInput
<1>5. StrictP!Job = Strict!Job /\ BackfillP!Job = Strict!Job
  BY <1>2, SameConstants DEF Strict!Job, StrictP!Job, BackfillP!Job
<1> QED BY <1>1, <1>4, <1>5, MaxInt64Assumption, TopologyKeysAssumption,
           ClustersAssumption, JobSetsAssumption

LEMMA StrictRuns ==
  /\ Strict!Init => StrictP!RunInv
  /\ StrictP!RunInv /\ Strict!Step => StrictP!RunInv'
<1>1. Strict!Init => StrictP!RunInv
  BY Assumed, StrictStarts, StrictP!RunInit
<1>2. StrictP!RunInv /\ Strict!Step => StrictP!RunInv'
  BY Assumed, StrictSteps, StrictP!RunStep
<1> QED BY <1>1, <1>2

LEMMA StrictContextEnds ==
  ASSUME StrictP!RunInv, UNCHANGED <<inputVars, strictVars>>,
         ctxErr' \in {"none"} \cup ContextErrors
  PROVE  StrictP!RunInv'
<1>1. UNCHANGED <<StrictP!inputVars, strictPc, strictErr, StrictP!resultVars>>
  BY DEF inputVars, strictVars, StrictP!inputVars, StrictP!resultVars
<1>2. ctxErr' \in {"none"} \cup StrictP!ContextErrors
  BY DEF ContextErrors, StrictP!ContextErrors
<1> QED BY ONLY Assumed, StrictP!RunInv, <1>1, <1>2, StrictP!RunContext

LEMMA StrictFailsWithContext ==
  ASSUME StrictP!RunInv, Strict!Step, strictPolicy = PolicyStrictFIFO, InputErr = "none"
  PROVE  strictErr' \in {strictErr, ctxErr}
<1>1. StrictP!Inv /\ StrictP!Step
  BY StrictSteps DEF StrictP!RunInv
<1>2. strictPolicy \in StrictP!Policies
  BY DEF StrictP!Policies, StrictP!PolicyStrictFIFO, StrictP!PolicyBackfill, PolicyStrictFIFO
<1>3. /\ StrictP!ValidateCluster(cluster) /\ StrictP!ValidateJobs(jobs)
      /\ StrictP!ValidateTopologyRequirements(cluster, jobs)
  BY SameValidateCluster, SameValidateJobs, SameValidateTopologyRequirements DEF InputErr
<1> QED BY Assumed, <1>1, <1>2, <1>3, StrictP!FailsWithContext

LEMMA StrictEnds ==
  ASSUME StrictP!RunInv
  PROVE  IF strictPc = "failed" THEN strictErr # "none" ELSE strictErr = "none"
BY DEF StrictP!RunInv, StrictP!Ending

LEMMA BackfillRuns ==
  /\ Backfill!Init => BackfillP!RunInv
  /\ BackfillP!RunInv /\ Backfill!Step => BackfillP!RunInv'
<1>1. Backfill!Init => BackfillP!RunInv
  BY Assumed, BackfillStarts, BackfillP!RunInit
<1>2. BackfillP!RunInv /\ Backfill!Step => BackfillP!RunInv'
  BY Assumed, BackfillSteps, BackfillP!RunStep
<1> QED BY <1>1, <1>2

LEMMA BackfillContextEnds ==
  ASSUME BackfillP!RunInv, UNCHANGED <<inputVars, backfillVars>>,
         ctxErr' \in {"none"} \cup ContextErrors
  PROVE  BackfillP!RunInv'
<1>1. UNCHANGED <<BackfillP!inputVars, backfillPc, backfillErr, BackfillP!resultVars>>
  BY DEF inputVars, backfillVars, BackfillP!inputVars, BackfillP!resultVars
<1>2. ctxErr' \in {"none"} \cup BackfillP!ContextErrors
  BY DEF ContextErrors, BackfillP!ContextErrors
<1> QED BY ONLY Assumed, BackfillP!RunInv, <1>1, <1>2, BackfillP!RunContext

LEMMA BackfillFailsWithContext ==
  ASSUME BackfillP!RunInv, Backfill!Step, backfillPolicy = PolicyBackfill, InputErr = "none"
  PROVE  backfillErr' \in {backfillErr, ctxErr}
<1>1. BackfillP!Inv /\ BackfillP!Step
  BY BackfillSteps DEF BackfillP!RunInv
<1>2. backfillPolicy \in BackfillP!Policies
  BY DEF BackfillP!Policies, BackfillP!PolicyStrictFIFO, BackfillP!PolicyBackfill, PolicyBackfill
<1>3. /\ BackfillP!ValidateCluster(cluster) /\ BackfillP!ValidateJobs(jobs)
      /\ BackfillP!ValidateTopologyRequirements(cluster, jobs)
  BY SameValidateCluster, SameValidateJobs, SameValidateTopologyRequirements DEF InputErr
<1> QED BY Assumed, <1>1, <1>2, <1>3, BackfillP!FailsWithContext

LEMMA BackfillEnds ==
  ASSUME BackfillP!RunInv
  PROVE  IF backfillPc = "failed" THEN backfillErr # "none" ELSE backfillErr = "none"
BY DEF BackfillP!RunInv, BackfillP!Ending

-----------------------------------------------------------------------------
(***************************************************************************)
(* The invariant of the comparison.  A goroutine fails only with the error *)
(* of the derived context, and while outcomes are collected that is the    *)
(* caller's: the first failure collected finds the context ended.          *)
(***************************************************************************)
Errors == {"none"} \cup ContextErrors
Outcome == [policy : Policies, err : Errors]

TypeInv ==
  /\ callerErr \in Errors \cup {NilContext} /\ ctxErr \in Errors
  /\ phase \in {"start", "collect", "returned"}
  /\ running \subseteq Policies
  /\ outcomes \in Seq(Outcome)
  /\ completed \in [Policies -> Errors \cup {NotReceived}]
  /\ strictPolicy = PolicyStrictFIFO /\ backfillPolicy = PolicyBackfill

\* The outcome of a policy is in one place: not there yet, in the channel, or
\* received.
OneOutcomePerPolicy ==
  /\ \A p \in running : completed[p] = NotReceived
  /\ \A k \in DOMAIN outcomes :
       outcomes[k].policy \notin running /\ completed[outcomes[k].policy] = NotReceived
  /\ \A k, l \in DOMAIN outcomes : outcomes[k].policy = outcomes[l].policy => k = l

Phases ==
  /\ phase = "collect" => InputErr = "none" /\ callerErr # NilContext
  /\ phase # "collect" => running = {} /\ outcomes = <<>>
  /\ phase = "start" => /\ ctxErr = "none" /\ strictErr = "none" /\ backfillErr = "none"
                        /\ strictPc = "start" /\ backfillPc = "start"
                        /\ \A p \in Policies : completed[p] = NotReceived
  /\ phase # "returned" => returned = NotYet
  /\ returned = Results => \A p \in Policies : completed[p] = "none"

OutcomesTrue ==
  /\ \A k \in DOMAIN outcomes :
       /\ outcomes[k].err = ErrOf(outcomes[k].policy)
       /\ PcOf(outcomes[k].policy) \in Strict!Terminal
  /\ \A p \in Policies : completed[p] # NotReceived =>
       completed[p] = ErrOf(p) /\ PcOf(p) \in Strict!Terminal

ErrorsExplained ==
  /\ strictErr \in Errors /\ backfillErr \in Errors
  /\ phase # "returned" => /\ strictErr \in {"none", ctxErr} /\ backfillErr \in {"none", ctxErr}
                           /\ ctxErr \in {"none", callerErr}
  /\ \A p \in Policies : ErrOf(p) \in {"none", callerErr}

Inv ==
  /\ TypeInv /\ OneOutcomePerPolicy /\ Phases /\ OutcomesTrue /\ ErrorsExplained
  /\ StrictP!RunInv /\ BackfillP!RunInv

LEMMA PoliciesDiffer ==
  /\ PolicyStrictFIFO \in Policies /\ PolicyBackfill \in Policies
  /\ PolicyStrictFIFO # PolicyBackfill
  /\ \A p \in Policies : p = PolicyStrictFIFO \/ p = PolicyBackfill
BY DEF Policies, PolicyStrictFIFO, PolicyBackfill

LEMMA ErrorsDiffer == NotReceived \notin Errors /\ "none" \notin ContextErrors
BY DEF Errors, ContextErrors, NotReceived

LEMMA InvInit == Init => Inv
<1> SUFFICES ASSUME Init PROVE Inv
  OBVIOUS
<1>1. StrictP!RunInv /\ BackfillP!RunInv
  BY StrictRuns, BackfillRuns DEF Init
<1>2. /\ strictPolicy = PolicyStrictFIFO /\ backfillPolicy = PolicyBackfill
      /\ strictErr = "none" /\ backfillErr = "none"
      /\ strictPc = "start" /\ backfillPc = "start"
  BY DEF Init, Strict!Init, Backfill!Init
<1>3. TypeInv
  BY <1>2 DEF Init, ComparisonInit, TypeInv, Outcome, Errors
<1>4. OneOutcomePerPolicy /\ Phases
  BY <1>2 DEF Init, ComparisonInit, OneOutcomePerPolicy, Phases, NotYet, Results
<1>5. OutcomesTrue /\ ErrorsExplained
  BY <1>2 DEF Init, ComparisonInit, OutcomesTrue, ErrorsExplained, Errors, ErrOf
<1> QED BY <1>1, <1>3, <1>4, <1>5 DEF Inv

\* A step of the calling goroutine or of a context that moves no outcome.
LEMMA CallerKeepsInv ==
  ASSUME Inv, UNCHANGED <<inputVars, strictVars, backfillVars, running, outcomes, completed>>,
         callerErr' \in Errors \cup {NilContext}, ctxErr' \in Errors,
         callerErr \in {"none", callerErr'},
         phase' = "collect" => callerErr' # NilContext,
         phase' \in {phase, "returned"},
         phase' # "collect" => running = {} /\ outcomes = <<>>,
         phase' = "start" => phase = "start" /\ ctxErr' = "none",
         phase' # "returned" => /\ returned' = returned /\ phase # "returned"
                                /\ ctxErr \in {"none", ctxErr'} /\ ctxErr' \in {"none", callerErr'},
         returned' = Results => \A p \in Policies : completed[p] = "none"
  PROVE  Inv'
<1>1. StrictP!RunInv' /\ BackfillP!RunInv'
  BY StrictContextEnds, BackfillContextEnds DEF Inv, Errors
<1>2. /\ strictErr' = strictErr /\ backfillErr' = backfillErr
      /\ strictPc' = strictPc /\ backfillPc' = backfillPc
      /\ strictPolicy' = strictPolicy /\ backfillPolicy' = backfillPolicy
      /\ UNCHANGED <<running, outcomes, completed>> /\ InputErr' = InputErr
  BY DEF strictVars, backfillVars, inputVars, InputErr
<1>3. TypeInv'
  BY <1>2 DEF Inv, TypeInv
<1>4. OneOutcomePerPolicy' /\ OutcomesTrue'
  BY <1>2 DEF Inv, OneOutcomePerPolicy, OutcomesTrue, ErrOf, PcOf
<1>5. Phases'
  BY <1>2 DEF Inv, Phases
<1>6. ErrorsExplained'
  BY <1>2 DEF Inv, ErrorsExplained, ErrOf
<1> QED BY <1>1, <1>3, <1>4, <1>5, <1>6 DEF Inv

LEMMA StrictKeepsInput ==
  Strict!Step => UNCHANGED <<cluster, jobs, strictPolicy, ctxErr>>
BY DEF Strict!Step, Strict!RejectInput, Strict!Start, Strict!SkipBlocked, Strict!Decide,
       Strict!Refuse, Strict!Admit, Strict!Canceled, Strict!Finish, Strict!Fail, Strict!inputVars

LEMMA StrictKeepsInv ==
  ASSUME Inv, StrictStep
  PROVE  Inv'
<1>1. /\ PolicyStrictFIFO \in running /\ Strict!Step
      /\ UNCHANGED <<comparisonVars, inputVars, backfillVars, strictPolicy>>
  BY StrictKeepsInput DEF StrictStep, inputVars
<1>2. /\ UNCHANGED <<callerErr, ctxErr, phase, running, outcomes, completed, returned>>
      /\ backfillErr' = backfillErr /\ backfillPc' = backfillPc /\ backfillPolicy' = backfillPolicy
      /\ strictPolicy' = strictPolicy /\ InputErr' = InputErr
  BY <1>1 DEF comparisonVars, backfillVars, inputVars, InputErr
<1>3. phase = "collect" /\ InputErr = "none"
  BY <1>1 DEF Inv, Phases
<1>4. StrictP!RunInv'
  BY <1>1, StrictRuns DEF Inv
<1>5. BackfillP!RunInv'
  BY <1>1, <1>2, BackfillContextEnds DEF Inv, TypeInv, Errors
<1>6. strictErr' \in {strictErr, ctxErr}
  BY <1>1, <1>3, StrictFailsWithContext DEF Inv, TypeInv
<1>7. TypeInv' /\ OneOutcomePerPolicy'
  BY <1>2 DEF Inv, TypeInv, OneOutcomePerPolicy
<1>8. Phases'
  BY <1>2, <1>3 DEF Inv, Phases
<1>9. \A p \in Policies \ {PolicyStrictFIFO} : ErrOf(p)' = ErrOf(p) /\ PcOf(p)' = PcOf(p)
  BY <1>2, PoliciesDiffer DEF ErrOf, PcOf
<1>10. OutcomesTrue'
  <2>1. ASSUME NEW k \in DOMAIN outcomes
        PROVE  outcomes[k].policy \in Policies \ {PolicyStrictFIFO}
    <3>1. outcomes[k] \in Outcome /\ outcomes[k].policy \notin running
      BY DEF Inv, TypeInv, OneOutcomePerPolicy
    <3> QED BY <1>1, <3>1 DEF Outcome
  <2>2. completed[PolicyStrictFIFO] = NotReceived
    BY <1>1 DEF Inv, OneOutcomePerPolicy
  <2>3. Strict!Terminal' = Strict!Terminal
    BY DEF Strict!Terminal
  <2> QED BY <1>2, <1>9, <2>1, <2>2, <2>3 DEF Inv, OutcomesTrue
<1>11. ErrorsExplained'
  BY <1>2, <1>3, <1>6, PoliciesDiffer DEF Inv, TypeInv, ErrorsExplained, ErrOf
<1> QED BY <1>4, <1>5, <1>7, <1>8, <1>10, <1>11 DEF Inv

LEMMA BackfillKeepsInput ==
  Backfill!Step => UNCHANGED <<cluster, jobs, backfillPolicy, ctxErr>>
BY DEF Backfill!Step, Backfill!RejectInput, Backfill!Start, Backfill!SkipBlocked, Backfill!Decide,
       Backfill!Refuse, Backfill!Admit, Backfill!Canceled, Backfill!Finish,
       Backfill!Fail, Backfill!inputVars

LEMMA BackfillKeepsInv ==
  ASSUME Inv, BackfillStep
  PROVE  Inv'
<1>1. /\ PolicyBackfill \in running /\ Backfill!Step
      /\ UNCHANGED <<comparisonVars, inputVars, strictVars, backfillPolicy>>
  BY BackfillKeepsInput DEF BackfillStep, inputVars
<1>2. /\ UNCHANGED <<callerErr, ctxErr, phase, running, outcomes, completed, returned>>
      /\ strictErr' = strictErr /\ strictPc' = strictPc /\ strictPolicy' = strictPolicy
      /\ backfillPolicy' = backfillPolicy /\ InputErr' = InputErr
  BY <1>1 DEF comparisonVars, strictVars, inputVars, InputErr
<1>3. phase = "collect" /\ InputErr = "none"
  BY <1>1 DEF Inv, Phases
<1>4. BackfillP!RunInv'
  BY <1>1, BackfillRuns DEF Inv
<1>5. StrictP!RunInv'
  BY <1>1, <1>2, StrictContextEnds DEF Inv, TypeInv, Errors
<1>6. backfillErr' \in {backfillErr, ctxErr}
  BY <1>1, <1>3, BackfillFailsWithContext DEF Inv, TypeInv
<1>7. TypeInv' /\ OneOutcomePerPolicy'
  BY <1>2 DEF Inv, TypeInv, OneOutcomePerPolicy
<1>8. Phases'
  BY <1>2, <1>3 DEF Inv, Phases
<1>9. \A p \in Policies \ {PolicyBackfill} : ErrOf(p)' = ErrOf(p) /\ PcOf(p)' = PcOf(p)
  BY <1>2, PoliciesDiffer DEF ErrOf, PcOf
<1>10. OutcomesTrue'
  <2>1. ASSUME NEW k \in DOMAIN outcomes
        PROVE  outcomes[k].policy \in Policies \ {PolicyBackfill}
    <3>1. outcomes[k] \in Outcome /\ outcomes[k].policy \notin running
      BY DEF Inv, TypeInv, OneOutcomePerPolicy
    <3> QED BY <1>1, <3>1 DEF Outcome
  <2>2. completed[PolicyBackfill] = NotReceived
    BY <1>1 DEF Inv, OneOutcomePerPolicy
  <2>3. Strict!Terminal' = Strict!Terminal
    BY DEF Strict!Terminal
  <2> QED BY <1>2, <1>9, <2>1, <2>2, <2>3 DEF Inv, OutcomesTrue
<1>11. ErrorsExplained'
  BY <1>2, <1>3, <1>6, PoliciesDiffer DEF Inv, TypeInv, ErrorsExplained, ErrOf
<1> QED BY <1>4, <1>5, <1>7, <1>8, <1>10, <1>11 DEF Inv

\* A goroutine ends and its outcome goes to the channel.
LEMMA SendKeepsInv ==
  ASSUME Inv, NEW p \in Policies, Send(p, ErrOf(p)), PcOf(p) \in Strict!Terminal,
         UNCHANGED <<inputVars, strictVars, backfillVars>>
  PROVE  Inv'
<1> PICK sent : sent = [policy |-> p, err |-> ErrOf(p)]
  OBVIOUS
<1>1. /\ p \in running /\ running' = running \ {p}
      /\ outcomes' = Append(outcomes, sent)
      /\ UNCHANGED <<callerErr, ctxErr, phase, completed, returned>>
  BY DEF Send
<1>2. /\ ErrOf(p) \in Errors
      /\ sent \in Outcome /\ sent.policy = p /\ sent.err = ErrOf(p)
  <2>1. ErrOf(p) \in Errors
    BY DEF Inv, ErrorsExplained, ErrOf
  <2> QED BY <2>1 DEF Outcome
<1>3. outcomes \in Seq(Outcome)
  BY DEF Inv, TypeInv
<1>4. /\ outcomes' \in Seq(Outcome)
      /\ DOMAIN outcomes' = 1 .. Len(outcomes) + 1
      /\ DOMAIN outcomes = 1 .. Len(outcomes) /\ Len(outcomes) \in Nat
      /\ \A k \in DOMAIN outcomes : outcomes'[k] = outcomes[k]
      /\ outcomes'[Len(outcomes) + 1] = sent
  BY <1>1, <1>2, <1>3
<1>5. phase = "collect"
  BY <1>1 DEF Inv, Phases
<1>6. /\ strictErr' = strictErr /\ backfillErr' = backfillErr
      /\ strictPc' = strictPc /\ backfillPc' = backfillPc
      /\ strictPolicy' = strictPolicy /\ backfillPolicy' = backfillPolicy
      /\ InputErr' = InputErr
  BY DEF strictVars, backfillVars, inputVars, InputErr
<1>7. StrictP!RunInv' /\ BackfillP!RunInv'
  BY <1>1, StrictContextEnds, BackfillContextEnds DEF Inv, TypeInv, Errors
<1>8. TypeInv'
  BY <1>1, <1>4, <1>6 DEF Inv, TypeInv
<1>9. ASSUME NEW k \in DOMAIN outcomes'
      PROVE  outcomes'[k].policy \notin running' /\ completed[outcomes'[k].policy] = NotReceived
  BY <1>1, <1>2, <1>4 DEF Inv, OneOutcomePerPolicy
<1>10. ASSUME NEW k \in DOMAIN outcomes', NEW l \in DOMAIN outcomes',
              outcomes'[k].policy = outcomes'[l].policy
       PROVE  k = l
  BY <1>1, <1>2, <1>4, <1>10 DEF Inv, OneOutcomePerPolicy
<1>11. OneOutcomePerPolicy'
  BY <1>1, <1>9, <1>10 DEF Inv, OneOutcomePerPolicy
<1>12. Phases'
  BY <1>1, <1>5, <1>6 DEF Inv, Phases
<1>13. \A q : ErrOf(q)' = ErrOf(q) /\ PcOf(q)' = PcOf(q)
  BY <1>6 DEF ErrOf, PcOf
<1>14. OutcomesTrue'
  <2>1. ASSUME NEW k \in DOMAIN outcomes'
        PROVE  outcomes'[k].err = ErrOf(outcomes'[k].policy)
               /\ PcOf(outcomes'[k].policy) \in Strict!Terminal
    BY <1>2, <1>4 DEF Inv, OutcomesTrue
  <2>2. Strict!Terminal' = Strict!Terminal
    BY DEF Strict!Terminal
  <2> QED BY <1>1, <1>13, <2>1, <2>2 DEF Inv, OutcomesTrue
<1>15. ErrorsExplained'
  BY <1>1, <1>6, <1>13 DEF Inv, ErrorsExplained
<1> QED BY <1>7, <1>8, <1>11, <1>12, <1>14, <1>15 DEF Inv

\* An outcome is taken from the channel.  If it is an error, the context has
\* ended with it already.
LEMMA CollectKeepsInv ==
  ASSUME Inv, CollectOne
  PROVE  Inv'
<1> PICK outcome : outcome = Head(outcomes)
  OBVIOUS
<1> PICK p : p = outcome.policy
  OBVIOUS
<1>1. /\ phase = "collect" /\ outcomes # <<>>
      /\ completed' = [completed EXCEPT ![p] = outcome.err]
      /\ outcomes' = Tail(outcomes)
      /\ ctxErr' = IF outcome.err # "none" THEN CanceledContext ELSE ctxErr
      /\ UNCHANGED <<callerErr, phase, running, returned>>
      /\ UNCHANGED <<inputVars, strictVars, backfillVars>>
  BY DEF CollectOne, Collect
<1>2. outcomes \in Seq(Outcome)
  BY DEF Inv, TypeInv
<1>3. outcome \in Outcome /\ outcome = outcomes[1] /\ 1 \in DOMAIN outcomes
  BY <1>1, <1>2
<1>4. p \in Policies /\ outcome.err \in Errors
  BY <1>3 DEF Outcome
<1>5. /\ outcomes' \in Seq(Outcome)
      /\ \A k \in DOMAIN outcomes' : k + 1 \in DOMAIN outcomes /\ k # 0
                                     /\ k \in Nat /\ outcomes'[k] = outcomes[k + 1]
  BY <1>1, <1>2
<1>6. /\ completed' \in [Policies -> Errors \cup {NotReceived}]
      /\ completed'[p] = outcome.err
      /\ \A q \in Policies \ {p} : completed'[q] = completed[q]
  BY <1>1, <1>4 DEF Inv, TypeInv
<1>7. p \notin running /\ completed[p] = NotReceived
  BY <1>3 DEF Inv, OneOutcomePerPolicy
<1>8. outcome.err = ErrOf(p) /\ PcOf(p) \in Strict!Terminal
  BY <1>3 DEF Inv, OutcomesTrue
<1>9. ctxErr' = ctxErr
  <2>1. ErrOf(p) \in {"none", ctxErr}
    BY <1>1 DEF Inv, ErrorsExplained, ErrOf
  <2> QED BY <1>1, <1>8, <2>1 DEF CanceledContext
<1>10. /\ strictErr' = strictErr /\ backfillErr' = backfillErr
       /\ strictPc' = strictPc /\ backfillPc' = backfillPc
       /\ strictPolicy' = strictPolicy /\ backfillPolicy' = backfillPolicy
       /\ InputErr' = InputErr
  BY <1>1 DEF strictVars, backfillVars, inputVars, InputErr
<1>11. StrictP!RunInv' /\ BackfillP!RunInv'
  BY <1>1, <1>9, StrictContextEnds, BackfillContextEnds DEF Inv, TypeInv, Errors
<1>12. TypeInv'
  BY <1>1, <1>5, <1>6, <1>9, <1>10 DEF Inv, TypeInv
<1>13. ASSUME NEW k \in DOMAIN outcomes'
       PROVE  outcomes'[k].policy \in Policies \ {p}
  <2>1. k + 1 \in DOMAIN outcomes /\ k + 1 # 1 /\ outcomes'[k] = outcomes[k + 1]
    BY <1>5
  <2>2. outcomes[k + 1] \in Outcome
    BY <1>2, <2>1
  <2>3. outcomes[k + 1].policy # outcomes[1].policy
    BY <1>3, <2>1 DEF Inv, OneOutcomePerPolicy
  <2> QED BY <1>3, <2>1, <2>2, <2>3 DEF Outcome
<1>14. OneOutcomePerPolicy'
  BY <1>1, <1>5, <1>6, <1>7, <1>13 DEF Inv, OneOutcomePerPolicy, TypeInv
<1>15. returned # Results
  BY <1>1 DEF Inv, Phases, NotYet, Results
<1>16. Phases'
  BY <1>1, <1>9, <1>10, <1>15 DEF Inv, Phases
<1>17. \A q : ErrOf(q)' = ErrOf(q) /\ PcOf(q)' = PcOf(q)
  BY <1>10 DEF ErrOf, PcOf
<1>18. OutcomesTrue'
  <2>1. Strict!Terminal' = Strict!Terminal
    BY DEF Strict!Terminal
  <2>2. ASSUME NEW k \in DOMAIN outcomes'
        PROVE  (outcomes[k].err = ErrOf(outcomes[k].policy)
                  /\ PcOf(outcomes[k].policy) \in Strict!Terminal)'
    BY <1>5, <1>17, <2>1 DEF Inv, OutcomesTrue
  <2>3. ASSUME NEW q \in Policies, completed'[q] # NotReceived
        PROVE  (completed[q] = ErrOf(q) /\ PcOf(q) \in Strict!Terminal)'
    BY <1>6, <1>8, <1>17, <2>1, <2>3 DEF Inv, OutcomesTrue
  <2> QED BY <2>2, <2>3 DEF OutcomesTrue
<1>19. ErrorsExplained'
  BY <1>1, <1>9, <1>10, <1>17 DEF Inv, ErrorsExplained
<1> QED BY <1>11, <1>12, <1>14, <1>16, <1>18, <1>19 DEF Inv

LEMMA InvStep == Inv /\ [Next]_vars => Inv'
<1> SUFFICES ASSUME Inv, [Next]_vars PROVE Inv'
  OBVIOUS
<1>1. ASSUME Start PROVE Inv'
  <2>1. CASE Reject(InputErr)
    <3>1. /\ phase = "start" /\ phase' = "returned"
          /\ UNCHANGED <<inputVars, strictVars, backfillVars>>
          /\ UNCHANGED <<callerErr, ctxErr, running, outcomes, completed>>
      BY <1>1, <2>1 DEF Start, Reject
    <3>2. running = {} /\ outcomes = <<>> /\ returned' # Results
      BY <2>1, <3>1 DEF Inv, Phases, Reject, Failure, Results
    <3>3. callerErr \in Errors \cup {NilContext} /\ ctxErr \in Errors
      BY DEF Inv, TypeInv
    <3> QED BY <3>1, <3>2, <3>3, CallerKeepsInv
  <2>2. CASE Launch(InputErr)
    <3>1. /\ phase = "start" /\ phase' = "collect" /\ InputErr = "none" /\ running' = Policies
          /\ callerErr = "none"
          /\ UNCHANGED <<callerErr, ctxErr, outcomes, completed, returned>>
          /\ UNCHANGED <<inputVars, strictVars, backfillVars>>
      BY <1>1, <2>2 DEF Start, Launch
    <3>2. /\ UNCHANGED <<strictPolicy, strictPc, strictErr>>
          /\ UNCHANGED <<backfillPolicy, backfillPc, backfillErr>>
          /\ InputErr' = InputErr
      BY <3>1 DEF strictVars, backfillVars, inputVars, InputErr
    <3>3. StrictP!RunInv' /\ BackfillP!RunInv'
      BY <3>1, StrictContextEnds, BackfillContextEnds DEF Inv, TypeInv, Errors
    <3>4. /\ outcomes = <<>> /\ returned = NotYet
          /\ \A p \in Policies : completed[p] = NotReceived
      BY <3>1 DEF Inv, Phases
    <3>5. TypeInv' /\ OneOutcomePerPolicy'
      BY <3>1, <3>2, <3>4 DEF Inv, TypeInv, OneOutcomePerPolicy
    <3>6. Phases'
      BY <3>1, <3>2, <3>4 DEF Phases, NotYet, Results, NilContext
    <3>7. OutcomesTrue' /\ ErrorsExplained'
      BY <3>1, <3>2, <3>4 DEF Inv, OutcomesTrue, ErrorsExplained, ErrOf, PcOf
    <3> QED BY <3>3, <3>5, <3>6, <3>7 DEF Inv
  <2> QED BY <1>1, <2>1, <2>2 DEF Start
<1>2. ASSUME Answer PROVE Inv'
  <2>1. /\ phase = "collect" /\ AllCollected /\ returned' = Selected /\ phase' = "returned"
        /\ ctxErr' = CanceledContext
        /\ UNCHANGED <<callerErr, running, outcomes, completed>>
        /\ UNCHANGED <<inputVars, strictVars, backfillVars>>
    BY <1>2 DEF Answer, Return
  <2>2. running = {}
    BY <2>1 DEF AllCollected, Inv, TypeInv, OneOutcomePerPolicy
  <2>3. outcomes = <<>>
    <3>1. \A k \in DOMAIN outcomes : outcomes[k] \in Outcome
      BY DEF Inv, TypeInv
    <3>2. DOMAIN outcomes = {}
      BY <2>1, <3>1 DEF AllCollected, Inv, OneOutcomePerPolicy, Outcome
    <3> QED BY <3>2 DEF Inv, TypeInv
  <2>4. returned' = Results => \A p \in Policies : completed[p] = "none"
    BY <2>1 DEF Selected, Results, Failure
  <2>5. callerErr \in Errors \cup {NilContext} /\ ctxErr' \in Errors
    BY <2>1 DEF Inv, TypeInv, CanceledContext, Errors, ContextErrors
  <2> QED BY <2>1, <2>2, <2>3, <2>4, <2>5, CallerKeepsInv
<1>3. ASSUME Environment PROVE Inv'
  <2>1. /\ UNCHANGED <<phase, running, outcomes, completed, returned>>
        /\ UNCHANGED <<inputVars, strictVars, backfillVars>>
        /\ \/ callerErr = "none" /\ phase # "returned" /\ callerErr' \in ContextErrors
                /\ ctxErr' = ctxErr
           \/ phase = "collect" /\ ctxErr = "none" /\ ctxErr' = callerErr /\ callerErr' = callerErr
    BY <1>3 DEF Environment, EndContext, Propagate
  <2>2. /\ callerErr' \in Errors \cup {NilContext} /\ ctxErr \in Errors /\ ctxErr' \in Errors
        /\ phase = "collect" => callerErr' # NilContext
    BY <2>1 DEF Inv, TypeInv, Phases, Errors, ContextErrors, NilContext
  <2>3. phase # "returned"
    BY <2>1
  <2>4. ctxErr \in {"none", callerErr} /\ (phase # "collect" => running = {} /\ outcomes = <<>>)
        /\ (phase = "start" => ctxErr = "none") /\ returned = NotYet
    BY <2>3 DEF Inv, ErrorsExplained, Phases
  <2>5. returned' # Results
    BY <2>1, <2>4 DEF NotYet, Results
  <2> QED BY <2>1, <2>2, <2>3, <2>4, <2>5, CallerKeepsInv
<1>4. ASSUME SendOutcome PROVE Inv'
  <2>1. CASE strictPc \in Strict!Terminal /\ Send(PolicyStrictFIFO, strictErr)
    <3>1. ErrOf(PolicyStrictFIFO) = strictErr /\ PcOf(PolicyStrictFIFO) = strictPc
      BY DEF ErrOf, PcOf
    <3> QED BY <1>4, <2>1, <3>1, PoliciesDiffer, SendKeepsInv DEF SendOutcome
  <2>2. CASE backfillPc \in Backfill!Terminal /\ Send(PolicyBackfill, backfillErr)
    <3>1. ErrOf(PolicyBackfill) = backfillErr /\ PcOf(PolicyBackfill) = backfillPc
      BY PoliciesDiffer DEF ErrOf, PcOf
    <3>2. Backfill!Terminal = Strict!Terminal
      BY DEF Strict!Terminal, Backfill!Terminal
    <3> QED BY <1>4, <2>2, <3>1, <3>2, PoliciesDiffer, SendKeepsInv DEF SendOutcome
  <2> QED BY <1>4, <2>1, <2>2 DEF SendOutcome
<1>5. ASSUME UNCHANGED vars PROVE Inv'
  <2>1. /\ UNCHANGED <<callerErr, ctxErr, phase, running, outcomes, completed, returned>>
        /\ UNCHANGED <<inputVars, strictVars, backfillVars>>
    BY <1>5 DEF vars, comparisonVars
  <2>2. /\ UNCHANGED <<strictPolicy, strictPc, strictErr>>
        /\ UNCHANGED <<backfillPolicy, backfillPc, backfillErr>>
        /\ InputErr' = InputErr
    BY <2>1 DEF strictVars, backfillVars, inputVars, InputErr
  <2>3. StrictP!RunInv' /\ BackfillP!RunInv'
    BY <2>1, StrictContextEnds, BackfillContextEnds DEF Inv, TypeInv, Errors
  <2>4. TypeInv' /\ OneOutcomePerPolicy' /\ Phases'
    BY <2>1, <2>2 DEF Inv, TypeInv, OneOutcomePerPolicy, Phases
  <2>5. OutcomesTrue' /\ ErrorsExplained'
    BY <2>1, <2>2 DEF Inv, OutcomesTrue, ErrorsExplained, ErrOf, PcOf
  <2> QED BY <2>3, <2>4, <2>5 DEF Inv
<1> QED BY <1>1, <1>2, <1>3, <1>4, <1>5, StrictKeepsInv, BackfillKeepsInv, CollectKeepsInv
        DEF Next, Goroutines, Returned

LEMMA InvCorrect == Spec => []Inv
BY InvInit, InvStep, PTL DEF Spec

-----------------------------------------------------------------------------
(***************************************************************************)
(* The answer speaks for both schedules.  When Compare collects, no error  *)
(* but the caller's can be among the outcomes, so the two ways Selected    *)
(* looks at them come to the same.                                         *)
(***************************************************************************)
LEMMA SelectedSpeaksForBoth ==
  ASSUME Inv, phase = "collect", AllCollected
  PROVE  /\ \A p \in Policies : PcOf(p) \in Strict!Terminal
         /\ Selected = IF FailedRuns = {} THEN Results
                       ELSE Failure(FirstPolicy(FailedRuns), callerErr)
<1>1. ASSUME NEW p \in Policies
      PROVE  /\ completed[p] = ErrOf(p) /\ PcOf(p) \in Strict!Terminal
             /\ ErrOf(p) \in {"none", callerErr}
  BY DEF Inv, OutcomesTrue, ErrorsExplained, AllCollected
<1> DEFINE genuine == {p \in FailedRuns : completed[p] # "canceled"}
<1>2. FailedRuns = {p \in Policies : completed[p] # "none"}
  BY <1>1 DEF FailedRuns
<1>3. Selected =
        IF genuine # {} THEN Failure(FirstPolicy(genuine), completed[FirstPolicy(genuine)])
        ELSE IF FailedRuns # {}
             THEN Failure(FirstPolicy(FailedRuns), completed[FirstPolicy(FailedRuns)])
             ELSE Results
  BY <1>2 DEF Selected
<1>4. genuine = {} \/ genuine = FailedRuns
  BY <1>1, <1>2
<1>5. FailedRuns # {} => /\ FirstPolicy(FailedRuns) \in Policies
                         /\ completed[FirstPolicy(FailedRuns)] = callerErr
  <2>1. \A S \in SUBSET Policies : S # {} => FirstPolicy(S) \in S
    BY PoliciesDiffer DEF FirstPolicy
  <2>2. FailedRuns # {} => FirstPolicy(FailedRuns) \in FailedRuns
    BY <2>1, <1>2
  <2> QED BY <2>2, <1>1, <1>2
<1> QED BY <1>1, <1>3, <1>4, <1>5

LEMMA AnswersForBothStep ==
  ASSUME Inv, AnswersForBoth, [Next]_vars
  PROVE  AnswersForBoth'
<1>1. CASE UNCHANGED vars
  <2>1. /\ UNCHANGED <<callerErr, phase, running, outcomes, returned>>
        /\ UNCHANGED <<strictPc, strictErr, backfillPc, backfillErr>>
    BY <1>1 DEF vars, comparisonVars, strictVars, backfillVars
  <2> QED BY <2>1 DEF AnswersForBoth, NoGoroutineLeft, NothingStarted, BothEnded, FailedRuns,
                      ErrOf, PcOf, Strict!Terminal
<1>2. CASE Start
  <2>1. UNCHANGED <<strictPc, strictErr, backfillPc, backfillErr>>
    BY <1>2 DEF Start, strictVars, backfillVars
  <2>2. CASE Reject(InputErr)
    <3>1. /\ phase = "start" /\ UNCHANGED <<running, outcomes>>
          /\ returned'.kind = "error" /\ returned'.policy = NoPolicy
      BY <2>2 DEF Reject, Failure
    <3>2. running = {} /\ outcomes = <<>> /\ strictPc = "start" /\ backfillPc = "start"
      BY <3>1 DEF Inv, Phases
    <3> QED BY <2>1, <3>1, <3>2 DEF AnswersForBoth, NoGoroutineLeft, NothingStarted, PcOf
  <2>3. CASE Launch(InputErr)
    BY <2>3 DEF Launch, AnswersForBoth
  <2> QED BY <1>2, <2>2, <2>3 DEF Start
<1>3. CASE Answer
  <2>1. /\ phase = "collect" /\ AllCollected /\ returned' = Selected /\ phase' = "returned"
        /\ UNCHANGED <<callerErr, running, outcomes, completed>>
        /\ UNCHANGED <<strictPc, strictErr, backfillPc, backfillErr>>
    BY <1>3 DEF Answer, Return, strictVars, backfillVars
  <2>2. Inv'
    BY InvStep
  <2>3. NoGoroutineLeft'
    BY <2>1, <2>2 DEF Inv, Phases, NoGoroutineLeft
  <2>4. BothEnded'
    <3>1. FailedRuns' = FailedRuns
      BY <2>1 DEF FailedRuns, ErrOf
    <3>2. \A p : PcOf(p)' = PcOf(p)
      BY <2>1 DEF PcOf
    <3>3. Strict!Terminal' = Strict!Terminal
      BY DEF Strict!Terminal
    <3> QED BY <2>1, <3>1, <3>2, <3>3, SelectedSpeaksForBoth DEF BothEnded
  <2> QED BY <2>3, <2>4 DEF AnswersForBoth
<1>4. CASE StrictStep \/ BackfillStep \/ SendOutcome \/ CollectOne \/ Environment
  <2>1. running # {} \/ phase # "returned"
    BY <1>4 DEF StrictStep, BackfillStep, SendOutcome, Send, CollectOne, Collect,
                Environment, EndContext, Propagate
  <2>2. phase' = phase
    BY <1>4 DEF StrictStep, BackfillStep, SendOutcome, Send, CollectOne, Collect,
                Environment, EndContext, Propagate, comparisonVars
  <2> QED BY <2>1, <2>2 DEF Inv, Phases, AnswersForBoth
<1> QED BY <1>1, <1>2, <1>3, <1>4 DEF Next, Goroutines, Returned

(***************************************************************************)
(* When Compare returns, either it has started no schedule or both have    *)
(* ended and nothing of them is left, and then the answer is both results, *)
(* or the caller's own error for the first policy that failed: the order   *)
(* of the outcomes does not show.                                          *)
(***************************************************************************)
THEOREM AnswerSpeaksForBoth == Spec => []AnswersForBoth
<1>1. Init => AnswersForBoth
  BY DEF Init, ComparisonInit, AnswersForBoth
<1>2. Inv /\ AnswersForBoth /\ [Next]_vars => AnswersForBoth'
  BY AnswersForBothStep
<1> QED BY <1>1, <1>2, InvCorrect, PTL DEF Spec

-----------------------------------------------------------------------------
(***************************************************************************)
(* The answer is the verdict of the abstract specification, or the error   *)
(* of the caller's context: that is the only one a schedule can have got.  *)
(***************************************************************************)
LEMMA AnswerIsAtomic ==
  ASSUME Inv, Answer
  PROVE  Atomic!Answer \/ Atomic!AnswerEnded
<1>1. /\ phase = "collect" /\ AllCollected /\ returned' = Selected
      /\ callerErr' = callerErr /\ InputErr' = InputErr
  BY DEF Answer, Return, InputErr, inputVars
<1>2. returned = Atomic!NotYet /\ InputErr = "none" /\ callerErr # Atomic!NilContext
  BY <1>1 DEF Inv, Phases, NotYet, Atomic!NotYet, NilContext, Atomic!NilContext
<1>3. \A p \in Policies : completed[p] \in {"none", callerErr}
  BY <1>1 DEF Inv, OutcomesTrue, ErrorsExplained, AllCollected
<1>4. Policies = Atomic!Policies
  BY DEF Atomic!Policies, Policies, Atomic!PolicyBackfill, Atomic!PolicyStrictFIFO,
         PolicyBackfill, PolicyStrictFIFO
<1>5. CASE \A p \in Policies : completed[p] = "none"
  <2>1. returned' = Results
    BY <1>1, <1>5 DEF Selected
  <2>2. Atomic!Failing = {}
    BY <1>4 DEF Atomic!Failing
  <2>3. Atomic!Verdict = Results
    BY <1>2, <2>2 DEF Atomic!Verdict, Atomic!Results, Results
  <2> QED BY <1>1, <1>2, <2>1, <2>3 DEF Atomic!Answer
<1>6. CASE \E p \in Policies : completed[p] # "none"
  <2>1. PICK p \in Policies : completed[p] # "none" /\ returned' = Failure(p, completed[p])
    <3>1. \A S \in SUBSET Policies : S # {} => FirstPolicy(S) \in S
      BY PoliciesDiffer DEF FirstPolicy
    <3> QED BY <1>1, <1>6, <3>1 DEF Selected
  <2>2. callerErr \in Atomic!ContextErrors /\ returned' = Atomic!Failure(p, callerErr)
    BY <1>2, <1>3, <2>1 DEF Failure, Atomic!Failure, Inv, TypeInv, Errors, ContextErrors,
                            Atomic!ContextErrors, NilContext, Atomic!NilContext
  <2> QED BY <1>1, <1>2, <1>4, <2>2 DEF Atomic!AnswerEnded
<1> QED BY <1>5, <1>6

LEMMA StepIsAtomic == Inv /\ [Next]_vars => [Atomic!Next]_(Atomic!vars)
<1> SUFFICES ASSUME Inv, [Next]_vars PROVE [Atomic!Next]_(Atomic!vars)
  OBVIOUS
<1>1. ASSUME UNCHANGED <<InputErr, callerErr, returned>> PROVE UNCHANGED Atomic!vars
  BY <1>1 DEF Atomic!vars
<1>2. UNCHANGED inputVars => InputErr' = InputErr
  BY DEF inputVars, InputErr
<1>3. CASE Start
  <2>1. CASE Reject(InputErr)
    <3>1. /\ returned = Atomic!NotYet /\ callerErr' = callerErr /\ InputErr' = InputErr
          /\ returned' = Atomic!Failure(NoPolicy,
                                        IF callerErr # "none" THEN callerErr ELSE InputErr)
          /\ callerErr # "none" \/ InputErr # "none"
      BY <1>2, <1>3, <2>1 DEF Start, Reject, Inv, Phases, NotYet, Atomic!NotYet,
                              Failure, Atomic!Failure
    <3>2. CASE callerErr = NilContext
      BY <3>1, <3>2 DEF Atomic!Next, Atomic!Respond, Atomic!RefuseNil, Atomic!NoPolicy, NoPolicy,
                        NilContext, Atomic!NilContext
    <3>3. CASE callerErr \in ContextErrors
      BY <3>1, <3>3, ErrorsDiffer
         DEF Atomic!Next, Atomic!Respond, Atomic!AnswerEnded, Atomic!NoPolicy, NoPolicy,
             ContextErrors, Atomic!ContextErrors
    <3>4. CASE callerErr = "none" /\ InputErr # "none"
      BY <3>1, <3>4 DEF Atomic!Next, Atomic!Respond, Atomic!Answer, Atomic!Verdict,
                        Atomic!NoPolicy, NoPolicy, Atomic!NilContext
    <3> QED BY <3>1, <3>2, <3>3, <3>4 DEF Inv, TypeInv, Errors
  <2>2. CASE Launch(InputErr)
    BY <1>1, <1>2, <1>3, <2>2 DEF Start, Launch
  <2> QED BY <1>3, <2>1, <2>2 DEF Start
<1>4. CASE StrictStep
  BY <1>1, <1>2, <1>4, StrictKeepsInput DEF StrictStep, comparisonVars, inputVars
<1>5. CASE BackfillStep
  BY <1>1, <1>2, <1>5, BackfillKeepsInput DEF BackfillStep, comparisonVars, inputVars
<1>6. CASE SendOutcome
  BY <1>1, <1>2, <1>6 DEF SendOutcome, Send
<1>7. CASE CollectOne
  BY <1>1, <1>2, <1>7 DEF CollectOne, Collect
<1>8. CASE Answer
  BY <1>8, AnswerIsAtomic DEF Atomic!Next, Atomic!Respond
<1>9. CASE Environment
  <2>1. CASE EndContext
    BY <1>2, <1>9, <2>1 DEF Environment, EndContext, Atomic!Next, Atomic!EndContext,
                            ContextErrors, Atomic!ContextErrors
  <2>2. CASE Propagate
    BY <1>1, <1>2, <1>9, <2>2 DEF Environment, Propagate
  <2> QED BY <1>9, <2>1, <2>2 DEF Environment
<1>10. CASE UNCHANGED vars
  BY <1>1, <1>2, <1>10 DEF vars, comparisonVars
<1> QED BY <1>3, <1>4, <1>5, <1>6, <1>7, <1>8, <1>9, <1>10
        DEF Next, Goroutines, Returned

LEMMA InitIsAtomic == Init => Atomic!Init
BY DEF Init, ComparisonInit, InputErr, Atomic!Init, Atomic!InputErrors, Atomic!Policies,
       Policies, Atomic!PolicyBackfill, Atomic!PolicyStrictFIFO, PolicyBackfill,
       PolicyStrictFIFO, Atomic!NotYet, NotYet, NilContext, Atomic!NilContext

(***************************************************************************)
(* The safety part of ImplementsAtomic: whatever the interleaving of the   *)
(* two schedules and the end of the caller's context, Compare returns what *)
(* it would had they been run one after the other, or, once the caller's   *)
(* context has ended, its error.                                           *)
(***************************************************************************)
THEOREM ComparesAtomically == Spec => Atomic!Init /\ [][Atomic!Next]_(Atomic!vars)
BY InitIsAtomic, InvCorrect, StepIsAtomic, PTL DEF Spec

-----------------------------------------------------------------------------
(***************************************************************************)
(* The two results tell one story.  Both schedules are done: the story is  *)
(* that of the decisions, one job after the other.                         *)
(***************************************************************************)
BothDone ==
  /\ StrictP!RunInv /\ strictPc = "done"
  /\ BackfillP!RunInv /\ backfillPc = "done" /\ backfillPolicy = PolicyBackfill

LEMMA SameNodes == StrictP!nodes = BackfillP!nodes /\ StrictP!NodeNames = BackfillP!NodeNames
BY StrictResult, BackfillResult, SameMakeNodeStates
   DEF StrictP!NodeNames, BackfillP!NodeNames, Strict!nodes, Backfill!nodes

LEMMA BothDecideAll ==
  ASSUME BothDone
  PROVE  /\ Len(jobs) \in Nat /\ DOMAIN jobs = 1 .. Len(jobs)
         /\ StrictP!IsFiniteSet(DOMAIN jobs)
         /\ StrictP!Decided = DOMAIN jobs /\ BackfillP!Decided = DOMAIN jobs
         /\ Len(strictDecisions) = Len(jobs) /\ Len(backfillDecisions) = Len(jobs)
<1>1. /\ StrictP!TypeInv /\ Len(jobs) \in Nat /\ DOMAIN jobs = 1 .. Len(jobs)
      /\ StrictP!Decided = DOMAIN jobs /\ Len(strictDecisions) = Len(jobs)
  BY Assumed, StrictP!DoneDecidedAll DEF BothDone
<1>2. BackfillP!Decided = DOMAIN jobs /\ Len(backfillDecisions) = Len(jobs)
  BY Assumed, BackfillP!DoneDecidedAll DEF BothDone
<1>3. StrictP!IsFiniteSet(DOMAIN jobs)
  BY Assumed, <1>1, StrictP!JobsFinite
<1> QED BY <1>1, <1>2, <1>3

\* A job both placed alike holds the same in both.
LEMMA SameHeld ==
  ASSUME BothDone, NEW k \in DOMAIN jobs, strictDecisions[k] = backfillDecisions[k], NEW n, NEW d
  PROVE  StrictP!Held(k, n, d) = BackfillP!Held(k, n, d)
BY BothDecideAll, SameResourcesForReplicas DEF StrictP!Held, BackfillP!Held

\* What was decided alike before a job leaves it the same resources.
LEMMA SameLeft ==
  ASSUME BothDone, NEW k \in DOMAIN jobs,
         \A j \in DOMAIN jobs : j < k => strictDecisions[j] = backfillDecisions[j]
  PROVE  StrictP!LeftBefore(k) = BackfillP!LeftBefore(k)
<1>1. \A j \in 1 .. (k - 1) : j \in DOMAIN jobs /\ j < k
  BY BothDecideAll
<1>2. ASSUME NEW n, NEW d
      PROVE  StrictP!SumFunctionOnSet([j \in 1 .. (k - 1) |-> StrictP!Held(j, n, d)], 1 .. (k - 1))
               = BackfillP!SumFunctionOnSet([j \in 1 .. (k - 1) |-> BackfillP!Held(j, n, d)],
                                            1 .. (k - 1))
  <2>1. [j \in 1 .. (k - 1) |-> StrictP!Held(j, n, d)]
          = [j \in 1 .. (k - 1) |-> BackfillP!Held(j, n, d)]
    BY <1>1, SameHeld
  <2> QED BY <2>1, SameSumFunctionOnSet
<1>3. StrictP!Dim = BackfillP!Dim
  BY SameConstants
<1>4. ASSUME NEW n
      PROVE  [d \in StrictP!Dim |-> StrictP!nodes[n].capacity[d]
                - StrictP!SumFunctionOnSet([j \in 1 .. (k - 1) |-> StrictP!Held(j, n, d)],
                                           1 .. (k - 1))]
               = [d \in BackfillP!Dim |-> BackfillP!nodes[n].capacity[d]
                    - BackfillP!SumFunctionOnSet([j \in 1 .. (k - 1) |-> BackfillP!Held(j, n, d)],
                                                 1 .. (k - 1))]
  BY <1>2, <1>3, SameNodes
<1> QED BY <1>4, SameNodes DEF StrictP!LeftBefore, BackfillP!LeftBefore

\* So placement decides alike on it.
LEMMA SameDecision ==
  ASSUME BothDone, NEW k \in DOMAIN jobs,
         StrictP!FromPlacement(k), BackfillP!FromPlacement(k),
         \A j \in DOMAIN jobs : j < k => strictDecisions[j] = backfillDecisions[j]
  PROVE  strictDecisions[k] = backfillDecisions[k]
<1>1. PICK a \in StrictP!PlaceJob(StrictP!nodes, StrictP!LeftBefore(k), jobs[k]) :
        strictDecisions[k] = StrictP!Reported(jobs[k], a)
  BY DEF StrictP!FromPlacement
<1>2. PICK b \in BackfillP!PlaceJob(BackfillP!nodes, BackfillP!LeftBefore(k), jobs[k]) :
        backfillDecisions[k] = BackfillP!Reported(jobs[k], b)
  BY DEF BackfillP!FromPlacement
<1>3. b \in StrictP!PlaceJob(StrictP!nodes, StrictP!LeftBefore(k), jobs[k])
  BY <1>2, SameNodes, SameLeft, SamePlaceJob
<1>4. /\ StrictP!Inv /\ StrictP!History /\ StrictP!Running /\ k \in StrictP!Decided
  BY BothDecideAll DEF BothDone, StrictP!RunInv, StrictP!Running
<1>5. a = b
  BY Assumed, <1>1, <1>3, <1>4, StrictP!OneReport
<1>6. /\ StrictP!NoReason = BackfillP!NoReason /\ StrictP!NoResources = BackfillP!NoResources
      /\ StrictP!Requested(jobs[k]) = BackfillP!Requested(jobs[k])
  BY SameConstants, SameResourcesForReplicas
     DEF StrictP!NoReason, BackfillP!NoReason, StrictP!NoResources, BackfillP!NoResources,
         StrictP!Requested, BackfillP!Requested
<1>7. StrictP!Reported(jobs[k], a) = BackfillP!Reported(jobs[k], a)
  BY <1>6, SameConstants DEF StrictP!Reported, BackfillP!Reported
<1> QED BY <1>1, <1>2, <1>5, <1>7

\* Behind the job that blocks strict FIFO nothing is admitted by it.
Blocked(blocked) ==
  \A k \in DOMAIN jobs :
    IF k <= blocked THEN strictDecisions[k] = backfillDecisions[k]
    ELSE ~ Admitted(strictDecisions[k]) /\ strictDecisions[k].allocation = <<>>

LEMMA AgreeUntilBlocked ==
  ASSUME BothDone
  PROVE  \E blocked \in 1 .. Len(jobs) + 1 : Blocked(blocked)
<1>1. PICK blocked \in 1 .. Len(jobs) + 1 :
        \A k \in DOMAIN jobs :
          IF k <= blocked THEN StrictP!FromPlacement(k)
          ELSE /\ strictDecisions[k].status = StrictP!StatusPending
               /\ strictDecisions[k].allocation = <<>>
  BY Assumed, StrictP!DoneDecisions DEF BothDone
<1>2. \A k \in DOMAIN jobs : BackfillP!FromPlacement(k)
  <2>1. \A k \in DOMAIN jobs : k <= Len(jobs) + 1
    BY BothDecideAll
  <2>2. backfillPolicy = BackfillP!PolicyBackfill
    BY DEF BothDone, PolicyBackfill, BackfillP!PolicyBackfill
  <2> QED BY Assumed, <2>1, <2>2, BackfillP!DoneDecisions DEF BothDone
<1> DEFINE Agree(k) == k <= blocked => strictDecisions[k] = backfillDecisions[k]
           S == {n \in Nat : \A k \in DOMAIN jobs : k <= n => Agree(k)}
<1>3. 0 \in S
  BY BothDecideAll
<1>4. ASSUME NEW n \in Nat, n \in S PROVE n + 1 \in S
  <2>1. ASSUME NEW k \in DOMAIN jobs, k <= n + 1, k <= blocked
        PROVE  strictDecisions[k] = backfillDecisions[k]
    <3>1. \A j \in DOMAIN jobs : j < k => strictDecisions[j] = backfillDecisions[j]
      BY <1>4, <2>1, BothDecideAll
    <3> QED BY <1>1, <1>2, <2>1, <3>1, SameDecision
  <2> QED BY <2>1
<1>5. Nat \subseteq S
  <2> HIDE DEF S
  <2> QED BY ONLY Assumed, <1>3, <1>4, StrictP!NatSetInduction
<1>6. \A k \in DOMAIN jobs : k <= blocked => strictDecisions[k] = backfillDecisions[k]
  BY <1>5, BothDecideAll
<1>7. \A k \in DOMAIN jobs : ~ (k <= blocked) =>
        ~ Admitted(strictDecisions[k]) /\ strictDecisions[k].allocation = <<>>
  BY <1>1 DEF Admitted, StrictP!StatusPending, Strict!StatusAdmitted
<1> QED BY <1>6, <1>7 DEF Blocked

\* Each node has given no less under backfill.
LEMMA BackfillLeavesLess ==
  ASSUME BothDone, NEW d \in StrictP!Dim, NEW n \in StrictP!NodeNames
  PROVE  backfillRemaining[n][d] <= strictRemaining[n][d]
<1>1. PICK blocked \in 1 .. Len(jobs) + 1 : Blocked(blocked)
  BY AgreeUntilBlocked
<1>2. d \in BackfillP!Dim /\ n \in BackfillP!NodeNames
  BY SameConstants, SameNodes
<1>3. /\ strictRemaining[n][d] \in Int /\ StrictP!nodes[n].capacity[d] \in Int
      /\ strictRemaining[n][d] + StrictP!TotalHeld(n, d) = StrictP!nodes[n].capacity[d]
      /\ \A k \in DOMAIN jobs : StrictP!Held(k, n, d) \in Nat
  BY Assumed, StrictP!DoneAccounted DEF BothDone
<1>4. /\ backfillRemaining[n][d] \in Int
      /\ backfillRemaining[n][d] + BackfillP!TotalHeld(n, d) = BackfillP!nodes[n].capacity[d]
      /\ \A k \in DOMAIN jobs : BackfillP!Held(k, n, d) \in Nat
  BY Assumed, <1>2, BackfillP!DoneAccounted DEF BothDone
<1>5. ASSUME NEW k \in DOMAIN jobs
      PROVE  StrictP!Held(k, n, d) <= BackfillP!Held(k, n, d)
  <2>1. CASE k <= blocked
    BY <1>1, <1>3, <2>1, SameHeld DEF Blocked
  <2>2. CASE ~ (k <= blocked)
    <3>1. n \notin DOMAIN strictDecisions[k].allocation
      BY <1>1, <2>2 DEF Blocked
    <3>2. StrictP!Held(k, n, d) = 0
      BY <3>1 DEF StrictP!Held
    <3> QED BY <1>4, <3>2
  <2> QED BY <2>1, <2>2
<1> PICK f : f = [k \in DOMAIN jobs |-> StrictP!Held(k, n, d)]
  OBVIOUS
<1> PICK e : e = [k \in DOMAIN jobs |-> BackfillP!Held(k, n, d)]
  OBVIOUS
<1>6. /\ StrictP!IsFiniteSet(DOMAIN jobs)
      /\ \A k \in DOMAIN jobs : f[k] \in Int
      /\ \A k \in DOMAIN jobs : e[k] \in Int
      /\ \A k \in DOMAIN jobs : f[k] <= e[k]
  BY <1>3, <1>4, <1>5, BothDecideAll
<1>7. /\ StrictP!SumFunctionOnSet(f, DOMAIN jobs) <= StrictP!SumFunctionOnSet(e, DOMAIN jobs)
      /\ StrictP!SumFunctionOnSet(f, DOMAIN jobs) \in Int
      /\ StrictP!SumFunctionOnSet(e, DOMAIN jobs) \in Int
  BY ONLY Assumed, <1>6, StrictP!SumMonotone, StrictP!SumInt
<1>8. StrictP!TotalHeld(n, d) <= BackfillP!TotalHeld(n, d)
      /\ StrictP!TotalHeld(n, d) \in Int /\ BackfillP!TotalHeld(n, d) \in Int
  BY <1>7, SameSumFunctionOnSet DEF StrictP!TotalHeld, BackfillP!TotalHeld
<1>9. StrictP!nodes[n].capacity[d] = BackfillP!nodes[n].capacity[d]
  BY SameNodes
<1> QED BY <1>3, <1>4, <1>8, <1>9

\* So it uses no less of the cluster.
LEMMA BackfillUsesMore ==
  ASSUME BothDone
  PROVE  /\ \A d \in Strict!Dim : strictTotals.used[d] <= backfillTotals.used[d]
         /\ strictTotals.total = backfillTotals.total
<1>1. /\ StrictP!Dim = Strict!Dim /\ BackfillP!Dim = Strict!Dim
      /\ BackfillP!NodeNames = StrictP!NodeNames
  BY SameConstants, SameNodes
<1>2. /\ StrictP!IsFiniteSet(StrictP!NodeNames)
      /\ strictTotals.total = [d \in Strict!Dim |-> StrictP!TotalCapacity(cluster, d)]
      /\ \A d \in Strict!Dim :
           /\ \A n \in StrictP!NodeNames : strictRemaining[n][d] \in Int
           /\ strictTotals.used[d] \in Int /\ strictTotals.total[d] \in Int
           /\ strictTotals.used[d]
                + StrictP!SumFunction([n \in StrictP!NodeNames |-> strictRemaining[n][d]])
                = strictTotals.total[d]
  BY Assumed, <1>1, StrictP!DoneAccounted DEF BothDone
<1>3. /\ backfillTotals.total = [d \in Strict!Dim |-> BackfillP!TotalCapacity(cluster, d)]
      /\ \A d \in Strict!Dim :
           /\ \A n \in StrictP!NodeNames : backfillRemaining[n][d] \in Int
           /\ backfillTotals.used[d] \in Int /\ backfillTotals.total[d] \in Int
           /\ backfillTotals.used[d]
                + BackfillP!SumFunction([n \in StrictP!NodeNames |-> backfillRemaining[n][d]])
                = backfillTotals.total[d]
  BY Assumed, <1>1, BackfillP!DoneAccounted DEF BothDone
<1>4. strictTotals.total = backfillTotals.total
  BY <1>2, <1>3, SameTotalCapacity
<1>5. ASSUME NEW d \in Strict!Dim
      PROVE  strictTotals.used[d] <= backfillTotals.used[d]
  <2> PICK f : f = [n \in StrictP!NodeNames |-> backfillRemaining[n][d]]
    OBVIOUS
  <2> PICK e : e = [n \in StrictP!NodeNames |-> strictRemaining[n][d]]
    OBVIOUS
  <2>1. \A n \in StrictP!NodeNames : f[n] \in Int /\ e[n] \in Int /\ f[n] <= e[n]
    BY <1>1, <1>2, <1>3, BackfillLeavesLess
  <2>2. /\ StrictP!SumFunctionOnSet(f, StrictP!NodeNames)
             <= StrictP!SumFunctionOnSet(e, StrictP!NodeNames)
        /\ StrictP!SumFunctionOnSet(f, StrictP!NodeNames) \in Int
        /\ StrictP!SumFunctionOnSet(e, StrictP!NodeNames) \in Int
    BY ONLY Assumed, <1>2, <2>1, StrictP!SumMonotone, StrictP!SumInt
  <2>3. /\ StrictP!SumFunction(e) = StrictP!SumFunctionOnSet(e, StrictP!NodeNames)
        /\ BackfillP!SumFunction(f) = StrictP!SumFunctionOnSet(f, StrictP!NodeNames)
    BY SameSumFunctionOnSet DEF StrictP!SumFunction, BackfillP!SumFunction
  <2>4. /\ strictTotals.used[d] + StrictP!SumFunction(e) = strictTotals.total[d]
        /\ backfillTotals.used[d] + BackfillP!SumFunction(f) = backfillTotals.total[d]
        /\ strictTotals.used[d] \in Int /\ backfillTotals.used[d] \in Int
        /\ strictTotals.total[d] = backfillTotals.total[d] /\ strictTotals.total[d] \in Int
    BY <1>2, <1>3, <1>4
  <2> QED BY <2>2, <2>3, <2>4
<1> QED BY <1>4, <1>5

(***************************************************************************)
(* The two results of Compare agree up to the job that blocks strict FIFO, *)
(* from which on strict FIFO admits nothing, and backfill never uses less  *)
(* of a resource.                                                          *)
(***************************************************************************)
THEOREM BackfillAdmitsNoLess == Spec => []BackfillDominates
<1>1. ASSUME Inv, returned = Results PROVE BothDone
  <2>1. \A p \in Policies : completed[p] = "none"
    BY <1>1 DEF Inv, Phases
  <2>2. \A p \in Policies : ErrOf(p) = "none" /\ PcOf(p) \in Strict!Terminal
    BY <1>1, <2>1 DEF Inv, OutcomesTrue, NotReceived
  <2>3. /\ strictErr = "none" /\ strictPc \in {"done", "failed"}
        /\ backfillErr = "none" /\ backfillPc \in {"done", "failed"}
    BY <2>2, PoliciesDiffer DEF ErrOf, PcOf, Strict!Terminal
  <2> QED BY <1>1, <2>3, StrictEnds, BackfillEnds DEF Inv, TypeInv, BothDone
<1>2. ASSUME BothDone PROVE BackfillDominates
  <2>1. PICK blocked \in 1 .. Len(jobs) + 1 : Blocked(blocked)
    BY <1>2, AgreeUntilBlocked
  <2>2. \A k \in DOMAIN jobs :
          IF k <= blocked THEN strictDecisions[k] = backfillDecisions[k]
          ELSE ~ Admitted(strictDecisions[k])
    BY <2>1 DEF Blocked
  <2> QED BY <1>2, <2>2, BothDecideAll, BackfillUsesMore DEF BackfillDominates
<1>3. Inv => BackfillDominates
  BY <1>1, <1>2 DEF BackfillDominates
<1> QED BY <1>3, InvCorrect, PTL
=============================================================================
