---------------------------- MODULE ScheduleProofs ----------------------------
(***************************************************************************)
(* Proofs about the static schedule, for every cluster, job set and int64  *)
(* bound: types, the accounting of resources, and who blocks whom.         *)
(*                                                                         *)
(* The three need one another: that the used resources stay in int64 is    *)
(* that they and what remains add up to a validated total, and what a job  *)
(* holds is a number because its decision is well-formed.                  *)
(***************************************************************************)
EXTENDS ScheduleProperties, PlacementProofs

InputsValidated ==
  Running =>
    /\ policy \in Policies /\ ValidateCluster(cluster) /\ ValidateJobs(jobs)
    /\ totals.total = [d \in Dim |-> TotalCapacity(cluster, d)]

NothingDecided ==
  pc = "start" =>
    /\ blockingJob = EmptyName /\ decisions = <<>>
    /\ totals = [admitted |-> 0, pending |-> 0, headOfLineBlocked |-> 0,
                 used |-> NoResources, total |-> NoResources]

\* result.Jobs is a list, whatever its elements are.
DecisionsListed == \E S : decisions \in Seq(S)

TypeInv ==
  /\ TypeOK /\ InputsValidated /\ NothingDecided
  /\ DecisionsListed

Inv == TypeInv /\ ResourcesAccounted /\ BlockedByFirst

-----------------------------------------------------------------------------
(***************************************************************************)
(* Facts about a schedule whose inputs have been validated.                *)
(***************************************************************************)
LEMMA NodesTyped ==
  ASSUME TypeInv, Running
  PROVE  /\ IsFiniteSet(NodeNames) /\ NodeNames = {cluster[k].name : k \in DOMAIN cluster}
         /\ NodeNames \subseteq Nat
         /\ nodes \in [NodeNames -> NodeInfo]
         /\ remaining \in [NodeNames -> [Dim -> NonNegInt64]]
<1>1. cluster \in Seq(NodeInput) /\ ValidateCluster(cluster)
  BY DEF TypeInv, TypeOK, InputsValidated
<1>2. nodes \in [{cluster[k].name : k \in DOMAIN cluster} -> NodeInfo]
      /\ IsFiniteSet({cluster[k].name : k \in DOMAIN cluster})
      /\ {cluster[k].name : k \in DOMAIN cluster} \subseteq Nat
  BY <1>1, NodeStatesType DEF nodes
<1> QED BY <1>2 DEF NodeNames, TypeInv, TypeOK

LEMMA JobTyped ==
  ASSUME TypeInv, Running, NEW k \in DOMAIN jobs
  PROVE  /\ jobs[k] \in Job /\ jobs[k].name # EmptyName
         /\ jobs[k].resourcesPerReplica \in [Dim -> Nat]
         /\ PlacementInput(nodes, remaining, jobs[k])
<1>1. jobs \in Seq(Job) /\ ValidateJobs(jobs)
  BY DEF TypeInv, TypeOK, InputsValidated
<1>2. jobs[k].name # EmptyName
  BY <1>1 DEF ValidateJobs, UniqueNames
<1> QED BY <1>1, <1>2, ValidStaticJob, NodesTyped DEF PlacementInput, NodeNames

\* What all the replicas of a validated job ask for is in range.
LEMMA RequestedInRange ==
  ASSUME TypeInv, Running, NEW k \in DOMAIN jobs
  PROVE  Requested(jobs[k]) \in [Dim -> NonNegInt64]
<1>1. jobs \in Seq(Job) /\ ValidateJobs(jobs)
  BY DEF TypeInv, TypeOK, InputsValidated
<1> QED BY <1>1, RequestInRange DEF Requested, ResourcesForReplicas

\* The job of this iteration is one of the input.
LEMMA ThisJobIndex ==
  ASSUME TypeInv, NextJob
  PROVE  /\ Running /\ pc = "loop"
         /\ Len(decisions) \in Nat /\ DOMAIN decisions = 1 .. Len(decisions)
         /\ Len(decisions) + 1 \in DOMAIN jobs
         /\ ThisJob = jobs[Len(decisions) + 1]
         /\ DOMAIN decisions \subseteq DOMAIN jobs
<1>1. jobs \in Seq(Job) /\ Len(decisions) \in 0 .. Len(jobs) /\ DecisionsListed
  BY DEF TypeInv, TypeOK
<1>2. PICK S : decisions \in Seq(S)
  BY <1>1 DEF DecisionsListed
<1> QED BY <1>1, <1>2 DEF NextJob, JobsLeft, ThisJob, Running

\* What a job holds is a natural number.
LEMMA HeldType ==
  ASSUME TypeInv, Running, NEW k \in DOMAIN jobs, NEW n, NEW d \in Dim
  PROVE  Held(k, n, d) \in Nat
<1>1. CASE k \in Decided /\ n \in DOMAIN decisions[k].allocation
  <2> DEFINE r == jobs[k].resourcesPerReplica[d]
             m == decisions[k].allocation[n]
  <2>1. r \in Nat
    BY JobTyped
  <2>2. m \in Nat
    <3>1. IsAllocation(decisions[k].allocation)
      BY <1>1 DEF TypeInv, TypeOK, DecisionOK
    <3>2. m \in PosInt64
      BY <1>1, <3>1 DEF IsAllocation
    <3> QED BY <3>2, MaxInt64Assumption DEF PosInt64
  <2>3. Held(k, n, d) = r * m
    BY <1>1 DEF Held, ResourcesForReplicas
  <2> HIDE DEF r, m
  <2> QED BY <2>1, <2>2, <2>3, TimesMonotone
<1>2. CASE ~ (k \in Decided /\ n \in DOMAIN decisions[k].allocation)
  BY <1>2 DEF Held
<1> QED BY <1>1, <1>2

LEMMA JobsFinite == ASSUME TypeInv PROVE IsFiniteSet(DOMAIN jobs)
<1>1. DOMAIN jobs = 1 .. Len(jobs) /\ Len(jobs) \in Nat
  BY DEF TypeInv, TypeOK
<1> QED BY <1>1, FS_Interval

-----------------------------------------------------------------------------
LEMMA InvInit == Init => Inv
<1> SUFFICES ASSUME Init PROVE Inv
  OBVIOUS
<1>1. TypeOK
  <2>1. cluster \in Seq(NodeInput) /\ jobs \in Seq(Job) /\ policy \in PolicyNames
    BY ClustersAssumption, JobSetsAssumption DEF Init
  <2>2. NoResources \in [Dim -> NonNegInt64]
    BY MaxInt64Assumption DEF NoResources, NonNegInt64
  <2>3. Len(jobs) \in Nat
    BY <2>1
  <2> QED BY <2>1, <2>2, <2>3
          DEF Init, TypeOK, Running, Decided, EmptyName
<1>2. InputsValidated /\ NothingDecided /\ ResourcesAccounted /\ BlockedByFirst
  BY DEF Init, InputsValidated, NothingDecided, ResourcesAccounted, NodeAccounting,
         UsedAccounting, BlockedByFirst, Running
<1>3. DecisionsListed
  <2>1. decisions \in Seq({})
    BY DEF Init
  <2> QED BY <2>1 DEF DecisionsListed
<1> QED BY <1>1, <1>2, <1>3 DEF Inv, TypeInv

\* A step that changes no part of the result.
LEMMA MoveKeepsInv ==
  ASSUME Inv, UNCHANGED <<inputVars, resultVars>>,
         ctxErr' \in {"none", NilContext} \cup ContextErrors,
         \/ pc' = pc /\ err' = err
         \/ pc' = "failed" /\ err' \in {"placement"} \cup InputErrors \cup ContextErrors
         \/ pc = "loop" /\ pc' = "done" /\ err' = err
  PROVE  Inv'
<1> USE DEF Inv, inputVars, resultVars
<1>1. Running' => Running
  BY DEF Running
<1>2. TypeOK'
  BY <1>1 DEF TypeInv, TypeOK, Terminal, NodeNames, nodes, Decided, DecisionOK, IsAllocation
<1>3. InputsValidated' /\ NothingDecided' /\ DecisionsListed'
  BY <1>1 DEF TypeInv, InputsValidated, NothingDecided, DecisionsListed
<1>4. ResourcesAccounted'
  BY <1>1 DEF ResourcesAccounted, NodeAccounting, UsedAccounting, NodeNames, nodes,
              TotalHeld, Held, Decided
<1>5. BlockedByFirst'
  BY <1>1 DEF BlockedByFirst, NothingBlocks, BlocksQueue, PendingAt, Decided, IsHeadOfLine
<1> QED BY <1>2, <1>3, <1>4, <1>5 DEF TypeInv

-----------------------------------------------------------------------------
(***************************************************************************)
(* A decision is added: the ones before it stay as they are.               *)
(***************************************************************************)
Decides(decision) ==
  /\ decisions' = Append(decisions, decision)
  /\ UNCHANGED <<inputVars, ctxErr, pc, err>>

LEMMA DecisionAdded ==
  ASSUME TypeInv, NextJob, NEW decision, Decides(decision)
  PROVE  /\ Running' /\ Len(decisions') = Len(decisions) + 1
         /\ DecisionsListed'
         /\ DOMAIN decisions' = DOMAIN decisions \cup {Len(decisions) + 1}
         /\ Len(decisions) + 1 \notin DOMAIN decisions
         /\ decisions'[Len(decisions) + 1] = decision
         /\ \A k \in DOMAIN decisions : decisions'[k] = decisions[k]
<1>1. PICK S : decisions \in Seq(S)
  BY DEF TypeInv, DecisionsListed
<1>2. decisions' = Append(decisions, decision) /\ decisions \in Seq(S \cup {decision})
  BY <1>1 DEF Decides
<1>3. /\ Len(decisions') = Len(decisions) + 1 /\ Len(decisions) \in Nat
      /\ DOMAIN decisions' = 1 .. Len(decisions) + 1
      /\ DOMAIN decisions = 1 .. Len(decisions)
      /\ decisions'[Len(decisions) + 1] = decision
      /\ \A k \in DOMAIN decisions : decisions'[k] = decisions[k]
      /\ decisions' \in Seq(S \cup {decision})
  BY <1>2
<1>4. DecisionsListed'
  BY <1>3 DEF DecisionsListed
<1> QED BY <1>3, <1>4, ThisJobIndex DEF Running, Decides

\* The types, but for the counters.
LEMMA DecisionKeepsTypes ==
  ASSUME TypeInv, NextJob, NEW decision, Decides(decision), DecisionOK(decision),
         remaining' \in [NodeNames -> [Dim -> NonNegInt64]], blockingJob' \in Nat,
         totals' \in [admitted : Nat, pending : Nat, headOfLineBlocked : Nat,
                      used : [Dim -> NonNegInt64], total : [Dim -> NonNegInt64]],
         totals'.total = totals.total
  PROVE  TypeInv'
<1>1. NodeNames' = NodeNames /\ inputVars' = inputVars /\ pc' = "loop" /\ UNCHANGED <<ctxErr, err>>
  BY ThisJobIndex DEF Decides, NodeNames, nodes, inputVars
<1>2. Len(decisions') \in 0 .. Len(jobs)
  <2>1. Len(jobs) \in Nat /\ Len(decisions) + 1 \in 1 .. Len(jobs)
    BY ThisJobIndex DEF TypeInv, TypeOK
  <2> QED BY <2>1, DecisionAdded
<1>3. \A k \in DOMAIN decisions' : DecisionOK(decisions[k])'
  <2>1. \A k \in DOMAIN decisions' : DecisionOK(decisions'[k])
    BY DecisionAdded DEF TypeInv, TypeOK, Decided
  <2> SUFFICES ASSUME NEW k \in DOMAIN decisions' PROVE DecisionOK(decisions[k])'
    OBVIOUS
  <2>2. PICK x : x = decisions'[k]
    OBVIOUS
  <2>3. DecisionOK(x)
    BY <2>1, <2>2
  <2> QED BY <1>1, <2>2, <2>3 DEF DecisionOK, IsAllocation
<1>4. TypeOK'
  BY <1>1, <1>2, <1>3 DEF TypeInv, TypeOK, Decided, inputVars
<1> QED BY <1>1, <1>4, DecisionAdded, ThisJobIndex
        DEF TypeInv, InputsValidated, NothingDecided, inputVars

(***************************************************************************)
(* A job is left pending: nothing is charged.                              *)
(***************************************************************************)
LEMMA PendingKeepsAccounts ==
  ASSUME TypeInv, NextJob, ResourcesAccounted,
         NEW decision, Decides(decision), decision.allocation = <<>>,
         remaining' = remaining, totals'.used = totals.used, totals'.total = totals.total
  PROVE  ResourcesAccounted'
<1>1. Running /\ nodes' = nodes /\ jobs' = jobs
  BY ThisJobIndex DEF Decides, nodes, inputVars
<1>2. \A k, n, d : Held(k, n, d)' = Held(k, n, d)
  BY <1>1, DecisionAdded DEF Held, Decided
<1>3. \A n, d : TotalHeld(n, d)' = TotalHeld(n, d)
  BY <1>1, <1>2 DEF TotalHeld
<1> QED BY <1>1, <1>3 DEF ResourcesAccounted, NodeAccounting, UsedAccounting, NodeNames

LEMMA PendingDecisionOK ==
  ASSUME NEW reason, reason.code \in ReasonCodes, NEW decision,
         decision = [status |-> StatusPending, reason |-> reason, domain |-> EmptyName,
                     allocation |-> <<>>, allocated |-> NoResources]
  PROVE  DecisionOK(decision)
<1>1. NoResources \in [Dim -> NonNegInt64]
  BY MaxInt64Assumption DEF NoResources, NonNegInt64
<1>2. IsAllocation(<<>>)
  BY DEF IsAllocation
<1>3. EmptyName \in Domains
  BY DEF EmptyName, Domains
<1> QED BY <1>1, <1>2, <1>3 DEF DecisionOK

\* While no head is blocked, every refusal had a reason of its own.
LEMMA NothingBlocksYet ==
  ASSUME Inv, NextJob, blockingJob = EmptyName
  PROVE  NothingBlocks /\ (policy = PolicyStrictFIFO => PendingAt = {})
<1>1. Running
  BY ThisJobIndex DEF Inv
<1>2. ASSUME NEW head \in Decided PROVE ~ BlocksQueue(head)
  BY ThisJobIndex, JobTyped, <1>1, <1>2 DEF BlocksQueue, Inv, Decided
<1> QED BY <1>1, <1>2 DEF Inv, BlockedByFirst

LEMMA SkipBlockedKeepsInv ==
  ASSUME Inv, SkipBlocked
  PROVE  Inv'
<1> DEFINE decision ==
      [status |-> StatusPending, reason |-> HeadOfLineReason(blockingJob),
       domain |-> EmptyName, allocation |-> <<>>, allocated |-> NoResources]
<1>1. /\ TypeInv /\ ResourcesAccounted /\ BlockedByFirst /\ NextJob /\ Running
      /\ blockingJob # EmptyName
      /\ Decides(decision)
      /\ totals' = [totals EXCEPT !.pending = @ + 1, !.headOfLineBlocked = @ + 1]
      /\ UNCHANGED <<remaining, blockingJob, jobs, policy>>
  BY ThisJobIndex DEF Inv, SkipBlocked, LeavePending, Decides, inputVars
<1>2. /\ totals \in [admitted : Nat, pending : Nat, headOfLineBlocked : Nat,
                      used : [Dim -> NonNegInt64], total : [Dim -> NonNegInt64]]
      /\ remaining \in [NodeNames -> [Dim -> NonNegInt64]] /\ blockingJob \in Nat
  BY <1>1 DEF TypeInv, TypeOK
<1>3. DecisionOK(decision)
  BY PendingDecisionOK DEF HeadOfLineReason, ReasonCodes
<1>4. /\ decision.allocation = <<>> /\ decision.status = StatusPending
      /\ decision.reason = HeadOfLineReason(blockingJob)
  OBVIOUS
<1> HIDE DEF decision
<1>5. TypeInv'
  <2>1. /\ totals' \in [admitted : Nat, pending : Nat, headOfLineBlocked : Nat,
                         used : [Dim -> NonNegInt64], total : [Dim -> NonNegInt64]]
        /\ totals'.total = totals.total
    <3>1. totals' = [admitted |-> totals.admitted, pending |-> totals.pending + 1,
                     headOfLineBlocked |-> totals.headOfLineBlocked + 1,
                     used |-> totals.used, total |-> totals.total]
      BY <1>1, <1>2
    <3>2. /\ totals.admitted \in Nat /\ totals.pending + 1 \in Nat
          /\ totals.headOfLineBlocked + 1 \in Nat
          /\ totals.used \in [Dim -> NonNegInt64] /\ totals.total \in [Dim -> NonNegInt64]
      BY <1>2
    <3> QED BY <3>1, <3>2
  <2> QED BY <1>1, <1>2, <1>3, <2>1, DecisionKeepsTypes
<1>6. ResourcesAccounted'
  BY <1>1, <1>2, <1>4, PendingKeepsAccounts
<1>7. PICK head \in Decided : policy = PolicyStrictFIFO /\ BlocksQueue(head)
  BY <1>1 DEF BlockedByFirst, NothingBlocks
<1>8. /\ DOMAIN decisions' = DOMAIN decisions \cup {Len(decisions) + 1}
      /\ decisions'[Len(decisions) + 1] = decision
      /\ \A k \in DOMAIN decisions : decisions'[k] = decisions[k]
      /\ Len(decisions') = Len(decisions) + 1
  BY <1>1, DecisionAdded
<1>9. DOMAIN decisions = 1 .. Len(decisions) /\ Len(decisions) \in Nat
  BY <1>1, ThisJobIndex
<1>10. BlocksQueue(head)'
  <2>1. head \in DOMAIN decisions /\ head # Len(decisions) + 1 /\ ~ (Len(decisions) + 1 < head)
    BY <1>7, <1>9 DEF Decided
  <2>2. blockingJob' = jobs'[head].name /\ jobs' = jobs
    BY <1>1, <1>7 DEF BlocksQueue
  <2>3. decisions'[head].status = StatusPending /\ IsHeadOfLine(head)' = FALSE
    BY <1>7, <1>8, <2>1 DEF BlocksQueue, IsHeadOfLine
  <2>4. \A k \in DOMAIN decisions' : k < head => decisions'[k].status = StatusAdmitted
    BY <1>7, <1>8, <2>1 DEF BlocksQueue, Decided
  <2>5. \A k \in DOMAIN decisions' :
          k > head => /\ decisions'[k].status = StatusPending
                      /\ decisions'[k].reason = HeadOfLineReason(jobs[head].name)
    BY <1>1, <1>4, <1>7, <1>8, <2>2 DEF BlocksQueue, Decided
  <2>6. totals'.headOfLineBlocked = Len(decisions') - head
    BY <1>1, <1>2, <1>7, <1>8, <1>9, <2>1 DEF BlocksQueue
  <2> QED BY <2>2, <2>3, <2>4, <2>5, <2>6 DEF BlocksQueue, Decided
<1>11. BlockedByFirst'
  BY <1>1, <1>7, <1>8, <1>10 DEF BlockedByFirst, Decided
<1> QED BY <1>5, <1>6, <1>11 DEF Inv

LEMMA RefuseKeepsInv ==
  ASSUME Inv, NextJob, blockingJob = EmptyName, NEW reason, Refuse(reason),
         reason.code \in ReasonCodes \ {"none", "head_of_line_blocked"}
  PROVE  Inv'
<1> DEFINE decision ==
      [status |-> StatusPending, reason |-> reason,
       domain |-> EmptyName, allocation |-> <<>>, allocated |-> NoResources]
<1> PICK this : this = Len(decisions) + 1
  OBVIOUS
<1>1. /\ TypeInv /\ ResourcesAccounted /\ Running
      /\ Decides(decision)
      /\ totals' = [totals EXCEPT !.pending = @ + 1]
      /\ blockingJob' = Blocks
      /\ UNCHANGED <<remaining, jobs, policy>>
  BY ThisJobIndex DEF Inv, Refuse, LeavePending, Decides, inputVars
<1>2. /\ totals \in [admitted : Nat, pending : Nat, headOfLineBlocked : Nat,
                      used : [Dim -> NonNegInt64], total : [Dim -> NonNegInt64]]
      /\ remaining \in [NodeNames -> [Dim -> NonNegInt64]]
  BY <1>1 DEF TypeInv, TypeOK
<1>3. DecisionOK(decision)
  BY PendingDecisionOK
<1>4. /\ decision.allocation = <<>> /\ decision.status = StatusPending
      /\ decision.reason = reason
  OBVIOUS
<1>5. /\ this \in DOMAIN jobs /\ ThisJob = jobs[this] /\ Len(decisions) \in Nat
      /\ DOMAIN decisions = 1 .. Len(decisions)
      /\ jobs[this].name \in Nat
  BY <1>1, ThisJobIndex, JobTyped DEF Job
<1>6. /\ DOMAIN decisions' = DOMAIN decisions \cup {this}
      /\ decisions'[this] = decision /\ Len(decisions') = this
      /\ \A k \in DOMAIN decisions : decisions'[k] = decisions[k]
  BY <1>1, DecisionAdded
<1> HIDE DEF decision
<1>7. blockingJob' \in Nat
  BY <1>1, <1>5 DEF Blocks, EmptyName
<1>8. TypeInv'
  BY <1>1, <1>2, <1>3, <1>7, DecisionKeepsTypes
<1>9. ResourcesAccounted'
  BY <1>1, <1>2, <1>4, PendingKeepsAccounts
<1>10. NothingBlocks /\ (policy = PolicyStrictFIFO => PendingAt = {})
  BY NothingBlocksYet
<1>11. \A k \in DOMAIN decisions' : ~ IsHeadOfLine(k)'
  BY <1>4, <1>6, <1>10 DEF NothingBlocks, IsHeadOfLine, Decided
<1>12. ASSUME policy = PolicyStrictFIFO PROVE BlockedByFirst'
  <2>1. \A k \in DOMAIN decisions : k < this /\ decisions[k].status = StatusAdmitted
    <3>1. \A k \in DOMAIN decisions : k < this
      BY <1>5
    <3>2. \A k \in DOMAIN decisions : decisions[k].status \in {StatusAdmitted, StatusPending}
      BY <1>1 DEF TypeInv, TypeOK, DecisionOK, Decided
    <3> QED BY <3>1, <3>2, <1>10, <1>12 DEF PendingAt, Decided
  <2>2. totals'.headOfLineBlocked = 0 /\ Len(decisions') - this = 0
    <3>1. this \in Int
      BY <1>5
    <3> QED BY <1>1, <1>2, <1>6, <1>10, <3>1 DEF NothingBlocks
  <2>3. this \in DOMAIN decisions' /\ ~ (this > this) /\ \A k \in DOMAIN decisions' : ~ (k > this)
    BY <1>5, <1>6, <2>1
  <2>4. BlocksQueue(this)'
    <3>1. blockingJob' = jobs'[this].name
      BY <1>1, <1>5, <1>12 DEF Blocks
    <3>2. \A k \in DOMAIN decisions' : k < this => decisions'[k].status = StatusAdmitted
      BY <1>5, <1>6, <2>1, <2>3
    <3>3. decisions'[this].status = StatusPending /\ ~ IsHeadOfLine(this)'
      BY <1>4, <1>6, <1>11, <2>3
    <3>4. totals'.headOfLineBlocked = Len(decisions') - this
      BY <2>2
    <3> QED BY <3>1, <3>2, <3>3, <3>4, <2>3 DEF BlocksQueue, Decided
  <2> QED BY <1>1, <1>12, <2>3, <2>4 DEF BlockedByFirst, Decided
<1>13. ASSUME policy # PolicyStrictFIFO PROVE BlockedByFirst'
  <2>1. blockingJob' = EmptyName /\ totals'.headOfLineBlocked = 0
    BY <1>1, <1>2, <1>10, <1>13 DEF NothingBlocks, Blocks
  <2> QED BY <1>1, <1>11, <1>13, <2>1 DEF BlockedByFirst, NothingBlocks, Decided
<1> QED BY <1>8, <1>9, <1>12, <1>13 DEF Inv

(***************************************************************************)
(* A job is admitted: its nodes are charged, and the used resources grow   *)
(* by as much as all its replicas ask for.                                 *)
(***************************************************************************)
Admission(placed) ==
  [status |-> StatusAdmitted, reason |-> NoReason, domain |-> placed.domain,
   allocation |-> placed.allocation, allocated |-> Requested(ThisJob)]

AdmissionCounted ==
  totals' = [totals EXCEPT !.admitted = @ + 1,
                           !.used = AddResources(@, Requested(ThisJob))]

\* What is charged to each node is what the job now holds of it.
LEMMA AdmitKeepsNodeAccounts ==
  ASSUME TypeInv, TypeInv', NextJob, NodeAccounting,
         NEW placed \in PlaceJob(nodes, remaining, ThisJob), placed.kind = "placed",
         Decides(Admission(placed)),
         remaining' = Consumed(remaining, ThisJob, placed.allocation)
  PROVE  NodeAccounting'
<1> DEFINE alloc == placed.allocation
<1> PICK this : this = Len(decisions) + 1
  OBVIOUS
<1>1. /\ Running /\ Running' /\ jobs' = jobs /\ nodes' = nodes
      /\ this \in DOMAIN jobs /\ ThisJob = jobs[this]
  BY ThisJobIndex, DecisionAdded DEF Decides, nodes, inputVars
<1>2. /\ DOMAIN decisions' = DOMAIN decisions \cup {this} /\ this \notin DOMAIN decisions
      /\ decisions'[this].allocation = alloc
      /\ \A k \in DOMAIN decisions : decisions'[k] = decisions[k]
  <2>1. /\ DOMAIN decisions' = DOMAIN decisions \cup {this} /\ this \notin DOMAIN decisions
        /\ decisions'[this] = Admission(placed)
        /\ \A k \in DOMAIN decisions : decisions'[k] = decisions[k]
    BY DecisionAdded
  <2> QED BY <2>1 DEF Admission
<1>3. remaining \in [NodeNames -> [Dim -> NonNegInt64]]
  BY <1>1, NodesTyped
<1> SUFFICES ASSUME NEW n \in NodeNames, NEW d \in Dim
             PROVE  (remaining[n][d] + TotalHeld(n, d) = nodes[n].capacity[d])'
  BY <1>1 DEF NodeAccounting, NodeNames
<1> DEFINE amount == IF n \in DOMAIN alloc
                     THEN ResourcesForReplicas(ThisJob.resourcesPerReplica, alloc[n])[d]
                     ELSE 0
           before == [k \in DOMAIN jobs |-> Held(k, n, d)]
           after == [k \in DOMAIN jobs |-> IF k = this THEN amount ELSE Held(k, n, d)]
<1>4. amount \in Int
  <2>1. PlacementInput(nodes, remaining, ThisJob)
    BY <1>1, JobTyped
  <2>2. n \in DOMAIN alloc =>
          ResourcesForReplicas(ThisJob.resourcesPerReplica, alloc[n])[d] \in 0 .. remaining[n][d]
    BY <2>1, PlacedAllocation
  <2> QED BY <2>2
<1>5. /\ Held(this, n, d) = 0 /\ Held(this, n, d)' = amount
      /\ \A k \in DOMAIN jobs \ {this} : Held(k, n, d)' = Held(k, n, d)
      /\ \A k \in DOMAIN jobs : Held(k, n, d) \in Int
  <2>1. \A k \in DOMAIN jobs : Held(k, n, d) \in Nat
    BY <1>1, HeldType
  <2> QED BY <1>1, <1>2, <2>1 DEF Held, Decided
<1> HIDE DEF amount
<1>6. /\ TotalHeld(n, d) = SumFunctionOnSet(before, DOMAIN jobs)
      /\ TotalHeld(n, d)' = SumFunctionOnSet(after, DOMAIN jobs)
  <2>1. [k \in DOMAIN jobs |-> Held(k, n, d)'] = after
    BY <1>5
  <2> QED BY <1>1, <2>1 DEF TotalHeld
<1>7. /\ \A k \in DOMAIN jobs : before[k] \in Int /\ after[k] \in Int
      /\ \A k \in DOMAIN jobs \ {this} : after[k] = before[k]
      /\ before[this] = 0 /\ after[this] = amount
  BY <1>1, <1>4, <1>5
<1>8. IsFiniteSet(DOMAIN jobs)
  BY JobsFinite
<1> HIDE DEF before, after
<1>9. SumFunctionOnSet(after, DOMAIN jobs)
        = SumFunctionOnSet(before, DOMAIN jobs) - before[this] + after[this]
  BY <1>1, <1>7, <1>8, SumUpdate
<1>10. SumFunctionOnSet(before, DOMAIN jobs) \in Int
  BY <1>7, <1>8, SumInt
<1>11. remaining[n][d] \in Int
  BY <1>3, MaxInt64Assumption DEF NonNegInt64
<1>12. remaining'[n][d] = remaining[n][d] - amount
  BY <1>3, <1>11 DEF Consumed, amount
<1>13. remaining[n][d] + TotalHeld(n, d) = nodes[n].capacity[d]
  BY <1>1 DEF NodeAccounting
<1> QED BY <1>1, <1>4, <1>6, <1>7, <1>9, <1>10, <1>11, <1>12, <1>13

\* The charges to the nodes add up to what all the replicas ask for.
LEMMA AdmitKeepsUsed ==
  ASSUME TypeInv, NextJob, UsedAccounting,
         NEW placed \in PlaceJob(nodes, remaining, ThisJob), placed.kind = "placed",
         Decides(Admission(placed)),
         remaining' = Consumed(remaining, ThisJob, placed.allocation),
         AdmissionCounted
  PROVE  /\ UsedAccounting'
         /\ totals' \in [admitted : Nat, pending : Nat, headOfLineBlocked : Nat,
                         used : [Dim -> NonNegInt64], total : [Dim -> NonNegInt64]]
         /\ totals'.total = totals.total
<1> DEFINE alloc == placed.allocation
           job == ThisJob
           Sum(rem, d) == SumFunctionOnSet([n \in NodeNames |-> rem[n][d]], NodeNames)
<1>1. Running /\ nodes' = nodes /\ NodeNames' = NodeNames
  BY ThisJobIndex DEF Decides, nodes, inputVars, NodeNames
<1>2. /\ IsFiniteSet(NodeNames) /\ remaining \in [NodeNames -> [Dim -> NonNegInt64]]
      /\ job.resourcesPerReplica \in [Dim -> Nat] /\ PlacementInput(nodes, remaining, job)
      /\ Requested(job) \in [Dim -> NonNegInt64]
  BY <1>1, ThisJobIndex, NodesTyped, JobTyped, RequestedInRange
<1>3. /\ DOMAIN alloc \subseteq NodeNames /\ alloc \in [DOMAIN alloc -> PosInt64]
      /\ SumFunctionOnSet(alloc, DOMAIN alloc) = job.replicas
      /\ \A n \in DOMAIN alloc, d \in Dim :
            ResourcesForReplicas(job.resourcesPerReplica, alloc[n])[d] \in 0 .. remaining[n][d]
  BY <1>2, PlacedAllocation DEF NodeNames, SumFunction
<1>4. totals \in [admitted : Nat, pending : Nat, headOfLineBlocked : Nat,
                   used : [Dim -> NonNegInt64], total : [Dim -> NonNegInt64]]
  BY DEF TypeInv, TypeOK
<1> HIDE DEF job
<1>5. remaining' \in [NodeNames -> [Dim -> NonNegInt64]]
  BY <1>2, <1>3, ConsumedType DEF job
<1>6. ASSUME NEW rem \in [NodeNames -> [Dim -> NonNegInt64]], NEW d \in Dim
      PROVE  Sum(rem, d) \in Nat
  <2> DEFINE f == [n \in NodeNames |-> rem[n][d]]
  <2>1. \A n \in NodeNames : f[n] \in Nat
    BY MaxInt64Assumption DEF NonNegInt64
  <2> HIDE DEF f
  <2>2. SumFunctionOnSet(f, NodeNames) \in Nat
    BY <1>2, <2>1, SumNonNegative
  <2> QED BY <2>2 DEF f
<1>7. ASSUME NEW d \in Dim
      PROVE  Sum(remaining', d) = Sum(remaining, d) - Requested(job)[d]
  <2> DEFINE f == [n \in NodeNames |-> remaining[n][d]]
             r == job.resourcesPerReplica[d]
  <2> PICK e : e = [n \in NodeNames |-> remaining'[n][d]]
    OBVIOUS
  <2>1. \A n \in NodeNames : f[n] \in Int
    BY <1>2, MaxInt64Assumption DEF NonNegInt64
  <2>2. \A n \in DOMAIN alloc : alloc[n] \in Int
    BY <1>3, MaxInt64Assumption DEF PosInt64
  <2>3. r \in Int
    BY <1>2
  <2>4. \A n \in NodeNames : e[n] = IF n \in DOMAIN alloc THEN f[n] - r * alloc[n] ELSE f[n]
    BY <1>2 DEF Consumed, ResourcesForReplicas, job
  <2>5. r * SumFunctionOnSet(alloc, DOMAIN alloc) = Requested(job)[d]
    BY <1>3 DEF Requested, ResourcesForReplicas
  <2>6. SumFunctionOnSet(e, NodeNames)
          = SumFunctionOnSet(f, NodeNames) - r * SumFunctionOnSet(alloc, DOMAIN alloc)
    <3> HIDE DEF f, r, alloc
    <3>1. IsFiniteSet(NodeNames) /\ DOMAIN alloc \subseteq NodeNames
      BY <1>2, <1>3
    <3> QED BY <2>1, <2>2, <2>3, <2>4, <3>1, SumDecrease
  <2> QED BY <2>5, <2>6
<1>8. ASSUME NEW d \in Dim
      PROVE  totals.used[d] + Sum(remaining, d) = totals.total[d]
  BY <1>1 DEF UsedAccounting, SumFunction
<1> HIDE DEF Sum
<1> PICK used : used = [d \in Dim |-> totals.used[d] + Requested(job)[d]]
  OBVIOUS
<1>9. totals' = [admitted |-> totals.admitted + 1, pending |-> totals.pending,
                 headOfLineBlocked |-> totals.headOfLineBlocked,
                 used |-> used, total |-> totals.total]
  BY <1>4 DEF AdmissionCounted, AddResources, job
<1>10. ASSUME NEW d \in Dim
       PROVE  used[d] + Sum(remaining', d) = totals.total[d] /\ used[d] \in NonNegInt64
  <2>1. totals.used[d] \in NonNegInt64 /\ totals.total[d] \in NonNegInt64
        /\ Requested(job)[d] \in NonNegInt64
    BY <1>2, <1>4
  <2>2. used[d] = totals.used[d] + Requested(job)[d]
    OBVIOUS
  <2>3. Sum(remaining, d) \in Nat /\ Sum(remaining', d) \in Nat
    BY <1>2, <1>5, <1>6
  <2> QED BY <1>7, <1>8, <2>1, <2>2, <2>3, MaxInt64Assumption DEF NonNegInt64
<1>11. UsedAccounting'
  <2>1. totals'.used = used /\ totals'.total = totals.total
    BY <1>9
  <2> QED BY <1>1, <1>10, <2>1 DEF UsedAccounting, SumFunction, Sum
<1>12. /\ totals.admitted + 1 \in Nat /\ totals.pending \in Nat
       /\ totals.headOfLineBlocked \in Nat /\ totals.total \in [Dim -> NonNegInt64]
       /\ used \in [Dim -> NonNegInt64]
  BY <1>4, <1>10
<1> QED BY <1>9, <1>11, <1>12

LEMMA AdmitKeepsInv ==
  ASSUME Inv, NextJob, blockingJob = EmptyName,
         NEW placed \in PlaceJob(nodes, remaining, ThisJob), placed.kind = "placed",
         Admit(placed)
  PROVE  Inv'
<1> DEFINE decision == Admission(placed)
<1>1. /\ TypeInv /\ NodeAccounting /\ UsedAccounting /\ Running
      /\ Decides(decision) /\ AdmissionCounted
      /\ remaining' = Consumed(remaining, ThisJob, placed.allocation)
      /\ UNCHANGED <<blockingJob, jobs, policy>>
  BY ThisJobIndex DEF Inv, ResourcesAccounted, Admit, Admission, AdmissionCounted, Decides,
                      inputVars
<1>2. /\ DOMAIN placed.allocation \subseteq NodeNames
      /\ placed.allocation \in [DOMAIN placed.allocation -> PosInt64]
      /\ \A n \in DOMAIN placed.allocation, d \in Dim :
            ResourcesForReplicas(ThisJob.resourcesPerReplica, placed.allocation[n])[d]
              \in 0 .. remaining[n][d]
      /\ placed.domain \in DOMAIN BuildDomains(nodes, ThisJob.requiredTopology)
  <2>1. PlacementInput(nodes, remaining, ThisJob)
    BY <1>1, ThisJobIndex, JobTyped
  <2> QED BY <2>1, PlacedAllocation DEF NodeNames
<1>3. Requested(ThisJob) \in [Dim -> NonNegInt64] /\ ThisJob \in Job
  BY <1>1, ThisJobIndex, JobTyped, RequestedInRange
<1>4. nodes \in [NodeNames -> NodeInfo] /\ remaining \in [NodeNames -> [Dim -> NonNegInt64]]
  BY <1>1, NodesTyped
<1>5. placed.domain \in Domains
  BY <1>2, <1>3, <1>4, DomainType DEF Job
<1>6. DecisionOK(decision)
  BY <1>2, <1>3, <1>5 DEF Admission, DecisionOK, IsAllocation, NoReason, ReasonCodes
<1>7. remaining' \in [NodeNames -> [Dim -> NonNegInt64]]
  BY <1>1, <1>2, <1>4, ConsumedType
<1>8. blockingJob' \in Nat
  BY <1>1 DEF TypeInv, TypeOK
<1>9. decision.status = StatusAdmitted /\ decision.reason = NoReason
  BY DEF Admission
<1> HIDE DEF decision
<1>10. /\ UsedAccounting'
       /\ totals' \in [admitted : Nat, pending : Nat, headOfLineBlocked : Nat,
                       used : [Dim -> NonNegInt64], total : [Dim -> NonNegInt64]]
       /\ totals'.total = totals.total
  BY <1>1, AdmitKeepsUsed DEF decision
<1>11. TypeInv'
  BY <1>1, <1>6, <1>7, <1>8, <1>10, DecisionKeepsTypes
<1>12. NodeAccounting'
  BY <1>1, <1>11, AdmitKeepsNodeAccounts DEF decision
<1>13. NothingBlocks /\ (policy = PolicyStrictFIFO => PendingAt = {})
  BY NothingBlocksYet
<1>14. /\ DOMAIN decisions' = DOMAIN decisions \cup {Len(decisions) + 1}
       /\ decisions'[Len(decisions) + 1] = decision
       /\ \A k \in DOMAIN decisions : decisions'[k] = decisions[k]
  BY <1>1, DecisionAdded
<1>15. totals'.headOfLineBlocked = totals.headOfLineBlocked
  BY <1>1 DEF AdmissionCounted, TypeInv, TypeOK
<1>16. NothingBlocks'
  BY <1>1, <1>9, <1>13, <1>14, <1>15 DEF NothingBlocks, IsHeadOfLine, NoReason, Decided
<1>17. policy' = PolicyStrictFIFO => PendingAt' = {}
  BY <1>1, <1>9, <1>13, <1>14 DEF PendingAt, Decided, StatusAdmitted, StatusPending
<1> QED BY <1>10, <1>11, <1>12, <1>16, <1>17 DEF Inv, ResourcesAccounted, BlockedByFirst

-----------------------------------------------------------------------------
\* The schedule starts on an idle cluster.
LEMMA StartKeepsInv ==
  ASSUME Inv, Start
  PROVE  Inv'
<1>1. /\ pc = "start" /\ InputError = "none" /\ pc' = "loop"
      /\ UNCHANGED <<cluster, jobs, policy, ctxErr, err, blockingJob, decisions, nodes>>
      /\ remaining' = IdleResources(nodes)
      /\ blockingJob = EmptyName /\ decisions = <<>>
  BY DEF Start, Inv, TypeInv, NothingDecided, inputVars, nodes
<1>2. policy \in Policies /\ ValidateCluster(cluster) /\ ValidateJobs(jobs)
  BY <1>1, MaxInt64Assumption DEF InputError, NilContext, Inv, TypeInv, TypeOK, ContextErrors
<1>3. /\ cluster \in Seq(NodeInput) /\ jobs \in Seq(Job)
      /\ IsFiniteSet(NodeNames) /\ NodeNames = {cluster[k].name : k \in DOMAIN cluster}
      /\ nodes \in [NodeNames -> NodeInfo]
      /\ IdleResources(nodes) \in [NodeNames -> [Dim -> NonNegInt64]]
  <2>1. cluster \in Seq(NodeInput) /\ jobs \in Seq(Job)
    BY DEF Inv, TypeInv, TypeOK
  <2>2. LET names == {cluster[k].name : k \in DOMAIN cluster}
        IN  /\ IsFiniteSet(names) /\ nodes \in [names -> NodeInfo]
            /\ IdleResources(nodes) \in [names -> [Dim -> NonNegInt64]]
    BY <1>2, <2>1, NodeStatesType DEF nodes
  <2> QED BY <2>1, <2>2 DEF NodeNames
<1> PICK total : total = [d \in Dim |-> TotalCapacity(cluster, d)]
  OBVIOUS
<1>4. totals' = [admitted |-> 0, pending |-> 0, headOfLineBlocked |-> 0,
                 used |-> NoResources, total |-> total]
  BY <1>1 DEF Start, Inv, TypeInv, NothingDecided
<1>5. ASSUME NEW d \in Dim
      PROVE  /\ SumFunction([n \in NodeNames |-> IdleResources(nodes)[n][d]]) = total[d]
             /\ total[d] \in NonNegInt64
  <2>1. /\ SumFunction([n \in NodeNames |-> nodes[n].capacity[d]]) = TotalCapacity(cluster, d)
        /\ TotalCapacity(cluster, d) \in NonNegInt64
    BY <1>2, <1>3, IdleTotal DEF nodes, NodeNames
  <2>2. \A n \in NodeNames : IdleResources(nodes)[n] = nodes[n].capacity
    BY DEF IdleResources, NodeNames
  <2>3. [n \in NodeNames |-> IdleResources(nodes)[n][d]] = [n \in NodeNames |-> nodes[n].capacity[d]]
    BY <2>2
  <2> QED BY <2>1, <2>3
<1>6. TypeOK'
  <2>1. NoResources \in [Dim -> NonNegInt64] /\ total \in [Dim -> NonNegInt64]
    <3>1. NoResources \in [Dim -> NonNegInt64]
      BY MaxInt64Assumption DEF NoResources, NonNegInt64
    <3>2. \A d \in Dim : total[d] \in NonNegInt64
      BY <1>5
    <3>3. total \in [Dim -> NonNegInt64]
      BY <3>2
    <3> QED BY <3>1, <3>3
  <2>2. totals' \in [admitted : Nat, pending : Nat, headOfLineBlocked : Nat,
                     used : [Dim -> NonNegInt64], total : [Dim -> NonNegInt64]]
    BY <1>4, <2>1
  <2>3. NodeNames' = NodeNames /\ Decided' = {}
    BY <1>1 DEF NodeNames, Decided
  <2> QED BY <1>1, <1>3, <2>2, <2>3 DEF Inv, TypeInv, TypeOK
<1>7. TypeInv'
  <2>1. DecisionsListed'
    BY <1>1 DEF Inv, TypeInv, DecisionsListed
  <2>2. totals'.total = total
    BY <1>4
  <2> QED BY <1>1, <1>2, <1>6, <2>1, <2>2 DEF TypeInv, InputsValidated, NothingDecided
<1>8. NodeAccounting'
  <2> SUFFICES ASSUME NEW n \in NodeNames, NEW d \in Dim
               PROVE  (remaining[n][d] + TotalHeld(n, d) = nodes[n].capacity[d])'
    BY <1>1 DEF NodeAccounting, NodeNames
  <2> DEFINE held == [k \in DOMAIN jobs |-> 0]
  <2>1. TotalHeld(n, d)' = SumFunctionOnSet(held, DOMAIN jobs)
    BY <1>1 DEF TotalHeld, Held, Decided
  <2>2. IsFiniteSet(DOMAIN jobs) /\ \A k \in DOMAIN jobs : held[k] = 0
    BY JobsFinite DEF Inv
  <2> HIDE DEF held
  <2>3. TotalHeld(n, d)' = 0
    BY <2>1, <2>2, SumZero
  <2>4. remaining'[n][d] = nodes[n].capacity[d] /\ nodes[n].capacity[d] \in Int
    BY <1>1, <1>3, MaxInt64Assumption DEF IdleResources, NodeNames, NodeInfo, NonNegInt64
  <2> QED BY <1>1, <2>3, <2>4
<1>9. UsedAccounting'
  <2> SUFFICES ASSUME NEW d \in Dim
               PROVE  totals'.used[d] + SumFunction([n \in NodeNames |-> remaining'[n][d]])
                        = totals'.total[d]
    BY <1>1 DEF UsedAccounting, NodeNames
  <2>1. totals'.used[d] = 0 /\ totals'.total[d] = total[d]
    BY <1>4 DEF NoResources
  <2>2. SumFunction([n \in NodeNames |-> remaining'[n][d]]) = total[d] /\ total[d] \in Int
    BY <1>1, <1>5, MaxInt64Assumption DEF NonNegInt64
  <2> QED BY <2>1, <2>2
<1>10. BlockedByFirst'
  BY <1>1, <1>4 DEF BlockedByFirst, NothingBlocks, PendingAt, Decided
<1> QED BY <1>7, <1>8, <1>9, <1>10 DEF Inv, ResourcesAccounted

-----------------------------------------------------------------------------
\* Every step of the schedule, one step of the proof per action.
LEMMA InvStep == Inv /\ [Next]_vars => Inv'
<1> SUFFICES ASSUME Inv, [Next]_vars PROVE Inv'
  OBVIOUS
<1>1. ctxErr \in {"none", NilContext} \cup ContextErrors
  BY DEF Inv, TypeInv, TypeOK
<1>2. ASSUME NEW error \in {"placement"} \cup InputErrors \cup ContextErrors, Fail(error)
      PROVE  Inv'
  BY <1>1, <1>2, MoveKeepsInv DEF Fail
<1>3. CASE RejectInput
  <2>1. InputError \in InputErrors \cup ContextErrors
    BY <1>1, <1>3 DEF RejectInput, InputError, InputErrors
  <2> QED BY <1>2, <1>3, <2>1 DEF RejectInput
<1>4. CASE Start
  BY <1>4, StartKeepsInv
<1>5. CASE SkipBlocked
  BY <1>5, SkipBlockedKeepsInv
<1>6. CASE Decide
  <2>1. PICK placed \in PlaceJob(nodes, remaining, ThisJob) :
          \/ placed.kind = "error" /\ Fail("placement")
          \/ placed.kind = "rejected" /\ Refuse(placed.reason)
          \/ placed.kind = "placed" /\ Admit(placed)
    BY <1>6 DEF Decide
  <2>2. NextJob /\ blockingJob = EmptyName
    BY <1>6 DEF Decide
  <2>3. CASE placed.kind = "error" /\ Fail("placement")
    BY <1>2, <2>3
  <2>4. CASE placed.kind = "rejected" /\ Refuse(placed.reason)
    BY <2>2, <2>4, RefusalReason, RefuseKeepsInv
  <2>5. CASE placed.kind = "placed" /\ Admit(placed)
    BY <2>2, <2>5, AdmitKeepsInv
  <2> QED BY <2>1, <2>3, <2>4, <2>5
<1>7. CASE Canceled
  BY <1>1, <1>2, <1>7 DEF Canceled, InputErrors
<1>8. CASE Finish
  BY <1>1, <1>8, MoveKeepsInv DEF Finish
<1>9. CASE EndContext
  BY <1>1, <1>9, MoveKeepsInv DEF EndContext
<1>10. CASE UNCHANGED vars
  BY <1>1, <1>10, MoveKeepsInv DEF vars
<1> QED BY <1>3, <1>4, <1>5, <1>6, <1>7, <1>8, <1>9, <1>10 DEF Next, Step, Terminated

LEMMA InvCorrect == Spec => []Inv
BY InvInit, InvStep, PTL DEF Spec

(***************************************************************************)
(* Type correctness of every schedule; that the used resources, which the  *)
(* code adds up without a check, stay in int64 is a part of it.            *)
(***************************************************************************)
THEOREM ScheduleTypeCorrect == Spec => []TypeOK
<1>1. Inv => TypeOK
  BY DEF Inv, TypeInv
<1> QED BY <1>1, InvCorrect, PTL

(***************************************************************************)
(* In every schedule the nodes' charges are the reported allocations, and  *)
(* the used resources are what the nodes are short of.                     *)
(***************************************************************************)
THEOREM ScheduleAccounts == Spec => []ResourcesAccounted
<1>1. Inv => ResourcesAccounted
  BY DEF Inv
<1> QED BY <1>1, InvCorrect, PTL

(***************************************************************************)
(* Under strict FIFO one job, the first that is refused, blocks the queue, *)
(* and every job behind it is pending and says so; backfill blocks none.   *)
(***************************************************************************)
THEOREM FirstRefusedBlocks == Spec => []BlockedByFirst
<1>1. Inv => BlockedByFirst
  BY DEF Inv
<1> QED BY <1>1, InvCorrect, PTL

-----------------------------------------------------------------------------
(***************************************************************************)
(* Only the caller's arguments and context make a schedule fail.           *)
(***************************************************************************)
LEMMA FailsOnlyForCallerStep ==
  Inv /\ FailsOnlyForCaller /\ [Next]_vars => FailsOnlyForCaller'
<1> SUFFICES ASSUME Inv, FailsOnlyForCaller, [Next]_vars PROVE FailsOnlyForCaller'
  OBVIOUS
<1> USE DEF FailsOnlyForCaller
<1>1. CASE RejectInput
  <2>1. err' \in InputErrors \/ (err' = ctxErr /\ ctxErr' = ctxErr)
    BY <1>1 DEF RejectInput, Fail, InputError, InputErrors
  <2> QED BY <2>1
<1>2. CASE Decide
  <2>1. PICK placed \in PlaceJob(nodes, remaining, ThisJob) :
          \/ placed.kind = "error" /\ Fail("placement")
          \/ placed.kind = "rejected" /\ Refuse(placed.reason)
          \/ placed.kind = "placed" /\ Admit(placed)
    BY <1>2 DEF Decide
  <2>2. PlacementInput(nodes, remaining, ThisJob)
    BY <1>2, ThisJobIndex, JobTyped DEF Decide, Inv
  <2>3. placed.kind # "error"
    BY <2>2, PlacedExactlyWhenFeasible
  <2>4. UNCHANGED <<err, ctxErr>>
    BY <2>1, <2>3 DEF Refuse, Admit
  <2> QED BY <2>4
<1>3. CASE Canceled
  <2>1. err' = ctxErr /\ ctxErr' = ctxErr
    BY <1>3 DEF Canceled, Fail
  <2> QED BY <2>1
<1>4. CASE EndContext
  BY <1>4 DEF EndContext
<1>5. CASE Start \/ SkipBlocked \/ Finish \/ UNCHANGED vars
  <2>1. UNCHANGED <<err, ctxErr>>
    BY <1>5 DEF Start, SkipBlocked, Finish, vars
  <2> QED BY <2>1
<1> QED BY <1>1, <1>2, <1>3, <1>4, <1>5 DEF Next, Step, Terminated

(***************************************************************************)
(* Once its arguments are validated a schedule fails only because its      *)
(* context ended.                                                          *)
(***************************************************************************)
THEOREM PlacementNeverFails == Spec => []FailsOnlyForCaller
<1>1. Init => FailsOnlyForCaller
  BY DEF Init, FailsOnlyForCaller
<1> QED BY <1>1, FailsOnlyForCallerStep, InvCorrect, PTL DEF Spec

-----------------------------------------------------------------------------
(***************************************************************************)
(* The pass is greedy: what it refuses does not fit any more.              *)
(***************************************************************************)
\* The decisions made stay unfit if no node gets anything back.
LEMMA StaysUnfit ==
  ASSUME Inv, Running, RefusedStaysUnfit, UNCHANGED inputVars,
         remaining' \in [NodeNames -> [Dim -> NonNegInt64]],
         \A n \in NodeNames, d \in Dim : remaining'[n][d] <= remaining[n][d],
         NEW k \in PendingAt, ~ IsHeadOfLine(k)
  PROVE  ~ Feasible(nodes, remaining', jobs[k])
<1>1. ~ Feasible(nodes, remaining, jobs[k])
  BY DEF RefusedStaysUnfit
<1>2. k \in DOMAIN jobs
  <2>1. Len(decisions) \in 0 .. Len(jobs) /\ jobs \in Seq(Job) /\ DecisionsListed
    BY DEF Inv, TypeInv, TypeOK
  <2>2. DOMAIN decisions = 1 .. Len(decisions)
    BY <2>1 DEF DecisionsListed
  <2> QED BY <2>1, <2>2 DEF PendingAt, Decided
<1>3. /\ jobs[k].resourcesPerReplica \in [Dim -> Nat] /\ jobs[k].replicas \in Nat
      /\ remaining \in [NodeNames -> [Dim -> NonNegInt64]]
  BY <1>2, JobTyped, MaxInt64Assumption DEF Inv, PlacementInput, PosInt64, NodeNames
<1> QED BY <1>1, <1>3, FeasibleMonotone DEF NodeNames

LEMMA RefusedStaysUnfitStep ==
  Inv /\ RefusedStaysUnfit /\ [Next]_vars => RefusedStaysUnfit'
<1> SUFFICES ASSUME Inv, RefusedStaysUnfit, [Next]_vars, Running'
             PROVE  \A k \in PendingAt' :
                      ~ IsHeadOfLine(k)' => ~ Feasible(nodes', remaining', jobs'[k])
  BY DEF RefusedStaysUnfit
<1> PICK this : this = Len(decisions) + 1
  OBVIOUS
\* A step that adds a decision: the earlier ones by monotonicity, the new one by itself.
<1>1. ASSUME NextJob, NEW decision, Decides(decision),
             remaining' \in [NodeNames -> [Dim -> NonNegInt64]],
             \A n \in NodeNames, d \in Dim : remaining'[n][d] <= remaining[n][d],
             decision.status = StatusPending /\ decision.reason.code # "head_of_line_blocked"
               => ~ Feasible(nodes, remaining', ThisJob)
      PROVE  \A k \in PendingAt' :
               ~ IsHeadOfLine(k)' => ~ Feasible(nodes', remaining', jobs'[k])
  <2>1. /\ DOMAIN decisions' = DOMAIN decisions \cup {this}
        /\ decisions'[this] = decision
        /\ \A k \in DOMAIN decisions : decisions'[k] = decisions[k]
    BY <1>1, DecisionAdded DEF Inv
  <2>2. /\ Running /\ ThisJob = jobs[this] /\ UNCHANGED inputVars
        /\ nodes' = nodes /\ jobs' = jobs
    BY <1>1, ThisJobIndex DEF Inv, Decides, inputVars, nodes
  <2> SUFFICES ASSUME NEW k \in PendingAt', ~ IsHeadOfLine(k)'
               PROVE  ~ Feasible(nodes, remaining', jobs[k])
    BY <2>2
  <2>3. CASE k = this
    BY <1>1, <2>1, <2>2, <2>3 DEF PendingAt, IsHeadOfLine
  <2>4. CASE k # this
    <3>1. k \in PendingAt /\ ~ IsHeadOfLine(k)
      BY <2>1, <2>4 DEF PendingAt, IsHeadOfLine, Decided
    <3> QED BY <1>1, <2>2, <3>1, StaysUnfit
  <2> QED BY <2>3, <2>4
<1>2. Running => /\ remaining \in [NodeNames -> [Dim -> NonNegInt64]]
                 /\ \A n \in NodeNames, d \in Dim : remaining[n][d] <= remaining[n][d]
  <2>1. Running => remaining \in [NodeNames -> [Dim -> NonNegInt64]]
    BY NodesTyped DEF Inv
  <2> QED BY <2>1, MaxInt64Assumption DEF NonNegInt64
<1>3. CASE Start
  BY <1>3 DEF Start, Inv, TypeInv, NothingDecided, PendingAt, Decided
<1>4. CASE SkipBlocked
  <2> DEFINE decision ==
        [status |-> StatusPending, reason |-> HeadOfLineReason(blockingJob),
         domain |-> EmptyName, allocation |-> <<>>, allocated |-> NoResources]
  <2>1. NextJob /\ Decides(decision) /\ remaining' = remaining
    BY <1>4 DEF SkipBlocked, LeavePending, Decides, inputVars
  <2>2. decision.reason.code = "head_of_line_blocked"
    BY DEF HeadOfLineReason
  <2>3. Running
    BY <2>1 DEF NextJob, Running
  <2> HIDE DEF decision
  <2> QED BY <1>1, <1>2, <2>1, <2>2, <2>3
<1>5. CASE Decide
  <2>1. PICK placed \in PlaceJob(nodes, remaining, ThisJob) :
          \/ placed.kind = "error" /\ Fail("placement")
          \/ placed.kind = "rejected" /\ Refuse(placed.reason)
          \/ placed.kind = "placed" /\ Admit(placed)
    BY <1>5 DEF Decide
  <2>2. NextJob /\ Running
    BY <1>5 DEF Decide, NextJob, Running
  <2>3. PlacementInput(nodes, remaining, ThisJob)
    BY <2>2, ThisJobIndex, JobTyped DEF Inv
  <2>4. placed.kind = IF Feasible(nodes, remaining, ThisJob) THEN "placed" ELSE "rejected"
    BY <2>3, PlacedExactlyWhenFeasible
  <2>5. CASE placed.kind = "rejected" /\ Refuse(placed.reason)
    <3> DEFINE decision ==
          [status |-> StatusPending, reason |-> placed.reason, domain |-> EmptyName,
           allocation |-> <<>>, allocated |-> NoResources]
    <3>1. Decides(decision) /\ remaining' = remaining
      BY <2>5 DEF Refuse, LeavePending, Decides, inputVars
    <3>2. ~ Feasible(nodes, remaining', ThisJob)
      BY <2>4, <2>5, <3>1
    <3> HIDE DEF decision
    <3> QED BY <1>1, <1>2, <2>2, <3>1, <3>2
  <2>6. CASE placed.kind = "placed" /\ Admit(placed)
    <3> DEFINE decision == Admission(placed)
    <3>1. Decides(decision) /\ remaining' = Consumed(remaining, ThisJob, placed.allocation)
      BY <2>6 DEF Admit, Admission, Decides, inputVars
    <3>2. \A n \in DOMAIN placed.allocation, d \in Dim :
            ResourcesForReplicas(ThisJob.resourcesPerReplica, placed.allocation[n])[d]
              \in 0 .. remaining[n][d]
      BY <2>3, <2>6, PlacedAllocation
    <3>3. /\ remaining' \in [NodeNames -> [Dim -> NonNegInt64]]
          /\ \A n \in NodeNames, d \in Dim : remaining'[n][d] <= remaining[n][d]
      BY <1>2, <2>2, <3>1, <3>2, ConsumedType, ConsumedIsLess
    <3>4. decision.status # StatusPending
      BY DEF Admission, StatusAdmitted, StatusPending
    <3> HIDE DEF decision
    <3> QED BY <1>1, <2>2, <3>1, <3>3, <3>4
  <2> QED BY <2>1, <2>4, <2>5, <2>6
<1>6. CASE Finish \/ EndContext \/ UNCHANGED vars
  <2>1. UNCHANGED <<cluster, jobs, remaining, decisions>> /\ (Running' => Running)
    BY <1>6 DEF Finish, EndContext, vars, inputVars, resultVars, Running
  <2> QED BY <2>1 DEF RefusedStaysUnfit, PendingAt, Decided, IsHeadOfLine, nodes
<1>7. CASE RejectInput \/ Canceled
  <2>1. pc' = "failed"
    BY <1>7 DEF RejectInput, Canceled, Fail
  <2> QED BY <2>1 DEF Running
<1> QED BY <1>3, <1>4, <1>5, <1>6, <1>7 DEF Next, Step, Terminated

(***************************************************************************)
(* A job that was refused does not fit what the pass leaves: a second pass *)
(* could admit none.                                                       *)
(***************************************************************************)
THEOREM RefusalsAreFinal == Spec => []RefusedStaysUnfit
<1>1. Init => RefusedStaysUnfit
  BY DEF Init, RefusedStaysUnfit, Running
<1> QED BY <1>1, RefusedStaysUnfitStep, InvCorrect, PTL DEF Spec

-----------------------------------------------------------------------------
(***************************************************************************)
(* The abstract allocator, without endings.  Its operators are the         *)
(* schedule's, and the resources that are free in it are those that        *)
(* remain.                                                                 *)
(***************************************************************************)
LEMMA AllocatorOperators ==
  /\ \A f, S : Allocator!SumFunctionOnSet(f, S) = SumFunctionOnSet(f, S)
  /\ \A n, key : Allocator!EligibleSets(n, key) = EligibleSets(n, key)
  /\ \A members, rem, job : Allocator!Spreads(members, rem, job) = Spreads(members, rem, job)
  /\ \A n, rem, job : Allocator!Feasible(n, rem, job) <=> Feasible(n, rem, job)
<1>1. \A f, S : Allocator!SumFunctionOnSet(f, S) = SumFunctionOnSet(f, S)
  BY DEF Allocator!SumFunctionOnSet, SumFunctionOnSet, Allocator!FoldFunctionOnSet,
         FoldFunctionOnSet, Allocator!MapThenFoldSet, MapThenFoldSet
<1>2. \A f : Allocator!SumFunction(f) = SumFunction(f)
  BY <1>1 DEF Allocator!SumFunction, SumFunction
<1>3. \A n, key : Allocator!EligibleSets(n, key) = EligibleSets(n, key)
  BY DEF Allocator!EligibleSets, EligibleSets, Allocator!Label, Label,
         Allocator!NoTopology, NoTopology, Allocator!MissingKey, MissingKey,
         Allocator!EmptyName, EmptyName
<1>4. \A members, rem, job : Allocator!Spreads(members, rem, job) = Spreads(members, rem, job)
  BY <1>2 DEF Allocator!Spreads, Spreads, Allocator!Dim, Dim
<1>5. \A n, rem, job : Allocator!Feasible(n, rem, job) <=> Feasible(n, rem, job)
  BY <1>3, <1>4 DEF Allocator!Feasible, Feasible
<1> QED BY <1>1, <1>3, <1>4, <1>5

LEMMA FreeIsRemaining ==
  ASSUME Inv, Running
  PROVE  Allocator!Free = remaining
<1>1. TypeInv /\ NodeAccounting /\ IsFiniteSet(DOMAIN jobs)
  BY JobsFinite DEF Inv, ResourcesAccounted
<1>2. ASSUME NEW n \in NodeNames, NEW d \in Dim
      PROVE  nodes[n].capacity[d]
               - Allocator!SumFunctionOnSet([k \in DOMAIN jobs |->
                   jobs[k].resourcesPerReplica[d] * AllocatorHeld[k][n]], DOMAIN jobs)
               = remaining[n][d]
  <2> PICK used : used = [k \in DOMAIN jobs |->
                            jobs[k].resourcesPerReplica[d] * AllocatorHeld[k][n]]
    OBVIOUS
  <2> PICK held : held = [k \in DOMAIN jobs |-> Held(k, n, d)]
    OBVIOUS
  <2>1. ASSUME NEW k \in DOMAIN jobs PROVE used[k] = held[k]
    <3>1. AllocatorHeld[k][n] = IF k \in Decided /\ n \in DOMAIN decisions[k].allocation
                                THEN decisions[k].allocation[n] ELSE 0
      BY DEF AllocatorHeld
    <3>2. jobs[k].resourcesPerReplica[d] \in Int
      BY <1>1, JobTyped
    <3> QED BY <3>1, <3>2 DEF Held, ResourcesForReplicas
  <2>2. Allocator!SumFunctionOnSet(used, DOMAIN jobs) = TotalHeld(n, d)
    <3>1. SumFunctionOnSet(used, DOMAIN jobs) = SumFunctionOnSet(held, DOMAIN jobs)
      BY <1>1, <2>1, SumSame
    <3> QED BY <3>1, AllocatorOperators DEF TotalHeld
  <2>3. remaining[n][d] + TotalHeld(n, d) = nodes[n].capacity[d]
    BY <1>1 DEF NodeAccounting
  <2>4. TotalHeld(n, d) \in Int
    <3>1. \A k \in DOMAIN jobs : held[k] \in Int
      BY <1>1, HeldType
    <3>2. SumFunctionOnSet(held, DOMAIN jobs) \in Int
      BY <1>1, <3>1, SumInt
    <3> QED BY <3>2 DEF TotalHeld
  <2>5. remaining[n][d] \in Int
    BY <1>1, NodesTyped, MaxInt64Assumption DEF NonNegInt64
  <2> QED BY <2>2, <2>3, <2>4, <2>5
<1>3. remaining \in [NodeNames -> [Dim -> NonNegInt64]]
  BY <1>1, NodesTyped
<1>4. Allocator!Free = [n \in NodeNames |-> [d \in Dim |-> remaining[n][d]]]
  BY <1>2 DEF Allocator!Free, Allocator!Dim, Dim, NodeNames
<1> QED BY <1>3, <1>4

LEMMA AllocatorStarts == Init => Allocator!Init
BY DEF Init, Allocator!Init, Allocator!Nothing, AllocatorStatus, AllocatorHeld, Decided,
       NodeNames

\* The abstract state is that of the decisions.
LEMMA AllocatorStutters ==
  ASSUME UNCHANGED <<inputVars, decisions>>
  PROVE  UNCHANGED Allocator!vars
<1>1. cluster' = cluster /\ jobs' = jobs /\ policy' = policy /\ decisions' = decisions
  BY DEF inputVars
<1>2. nodes' = nodes
  BY <1>1 DEF nodes
<1>3. AllocatorStatus' = AllocatorStatus
  BY <1>1 DEF AllocatorStatus, Decided
<1>4. AllocatorHeld' = AllocatorHeld
  BY <1>1, <1>2 DEF AllocatorHeld, Decided, NodeNames
<1> QED BY <1>1, <1>2, <1>3, <1>4 DEF Allocator!vars, Allocator!inputVars

\* What a decision does to the abstract state: the job it is about was waiting.
Abstracted(this, decision) ==
  /\ this \in DOMAIN jobs /\ AllocatorStatus[this] = "waiting"
  /\ AllocatorStatus' = [AllocatorStatus EXCEPT ![this] =
       IF decision.status = StatusAdmitted THEN "running" ELSE "given up"]
  /\ AllocatorHeld[this] = [n \in NodeNames |-> 0]
  /\ AllocatorHeld' = [AllocatorHeld EXCEPT ![this] =
       [n \in NodeNames |-> IF n \in DOMAIN decision.allocation
                            THEN decision.allocation[n] ELSE 0]]
  /\ UNCHANGED Allocator!inputVars

LEMMA DecisionAbstracted ==
  ASSUME TypeInv, NextJob, NEW decision, Decides(decision)
  PROVE  Abstracted(Len(decisions) + 1, decision)
<1> PICK this : this = Len(decisions) + 1
  OBVIOUS
<1>1. /\ DOMAIN decisions' = DOMAIN decisions \cup {this} /\ this \notin DOMAIN decisions
      /\ decisions'[this] = decision
      /\ \A k \in DOMAIN decisions : decisions'[k] = decisions[k]
  BY DecisionAdded
<1>2. this \in DOMAIN jobs
  BY ThisJobIndex
<1>3. cluster' = cluster /\ jobs' = jobs /\ policy' = policy /\ nodes' = nodes
  BY DEF Decides, inputVars, nodes
<1>4. AllocatorStatus[this] = "waiting" /\ AllocatorHeld[this] = [n \in NodeNames |-> 0]
  BY <1>1, <1>2 DEF AllocatorStatus, AllocatorHeld, Decided
<1>5. AllocatorStatus' = [AllocatorStatus EXCEPT ![this] =
        IF decision.status = StatusAdmitted THEN "running" ELSE "given up"]
  BY <1>1, <1>2, <1>3 DEF AllocatorStatus, Decided
<1>6. AllocatorHeld' = [AllocatorHeld EXCEPT ![this] =
        [n \in NodeNames |-> IF n \in DOMAIN decision.allocation
                             THEN decision.allocation[n] ELSE 0]]
  BY <1>1, <1>2, <1>3 DEF AllocatorHeld, Decided, NodeNames
<1> QED BY <1>2, <1>3, <1>4, <1>5, <1>6 DEF Abstracted, Allocator!inputVars

\* A pending decision gives the job up: it, or the job that blocks it, does not fit.
LEMMA PendingIsGivenUp ==
  ASSUME Inv, NextJob, NEW decision, Decides(decision),
         decision.status = StatusPending, decision.allocation = <<>>,
         \E k \in DOMAIN jobs :
           /\ k = Len(decisions) + 1 \/ (policy = PolicyStrictFIFO /\ k \in PendingAt)
           /\ ~ Feasible(nodes, remaining, jobs[k])
  PROVE  Allocator!GiveUp(Len(decisions) + 1)
<1> PICK this : this = Len(decisions) + 1
  OBVIOUS
<1>1. TypeInv /\ Running
  BY ThisJobIndex DEF Inv
<1>2. Abstracted(this, decision)
  BY <1>1, DecisionAbstracted
<1>3. AllocatorStatus' = [AllocatorStatus EXCEPT ![this] = "given up"]
  BY <1>2 DEF Abstracted, StatusAdmitted, StatusPending
<1>4. AllocatorHeld' = AllocatorHeld
  <2>1. [n \in NodeNames |-> IF n \in DOMAIN decision.allocation
                             THEN decision.allocation[n] ELSE 0] = [n \in NodeNames |-> 0]
    OBVIOUS
  <2>2. AllocatorHeld' = [AllocatorHeld EXCEPT ![this] = AllocatorHeld[this]]
    BY <1>2, <2>1 DEF Abstracted
  <2> QED BY <2>2 DEF AllocatorHeld
<1>5. PICK k \in DOMAIN jobs :
        /\ k = this \/ (policy = PolicyStrictFIFO /\ k \in PendingAt)
        /\ ~ Feasible(nodes, remaining, jobs[k])
  OBVIOUS
<1>6. k \in PendingAt => AllocatorStatus[k] = "given up"
  BY DEF AllocatorStatus, PendingAt, Decided, StatusAdmitted, StatusPending
<1>7. ~ Allocator!Feasible(nodes, Allocator!Free, jobs[k])
  BY <1>1, <1>5, FreeIsRemaining, AllocatorOperators
<1>8. /\ k = this \/ (policy = Allocator!PolicyStrictFIFO /\ AllocatorStatus[k] = "given up")
      /\ ~ Allocator!Feasible(nodes, Allocator!Free, jobs[k])
  BY <1>5, <1>6, <1>7 DEF Allocator!PolicyStrictFIFO, PolicyStrictFIFO
<1> QED BY <1>2, <1>3, <1>4, <1>8 DEF Abstracted, Allocator!GiveUp

\* A job behind a blocked head: the head still does not fit.
LEMMA SkippedIsGivenUp ==
  ASSUME Inv, RefusedStaysUnfit, SkipBlocked
  PROVE  Allocator!GiveUp(Len(decisions) + 1)
<1> PICK this : this = Len(decisions) + 1
  OBVIOUS
<1> PICK decision : decision =
       [status |-> StatusPending, reason |-> HeadOfLineReason(blockingJob),
        domain |-> EmptyName, allocation |-> <<>>, allocated |-> NoResources]
  OBVIOUS
<1>1. NextJob /\ Decides(decision) /\ blockingJob # EmptyName
  BY DEF SkipBlocked, LeavePending, Decides, inputVars
<1>2. TypeInv /\ Running /\ BlockedByFirst /\ DOMAIN decisions \subseteq DOMAIN jobs
  BY <1>1, ThisJobIndex DEF Inv
<1>3. PICK head \in Decided : policy = PolicyStrictFIFO /\ BlocksQueue(head)
  BY <1>1, <1>2 DEF BlockedByFirst, NothingBlocks
<1>4. head \in PendingAt /\ ~ IsHeadOfLine(head) /\ head \in DOMAIN jobs
  BY <1>2, <1>3 DEF BlocksQueue, PendingAt, Decided
<1>5. ~ Feasible(nodes, remaining, jobs[head])
  BY <1>2, <1>4 DEF RefusedStaysUnfit
<1>6. decision.status = StatusPending /\ decision.allocation = <<>>
  OBVIOUS
<1>7. \E k \in DOMAIN jobs :
        /\ k = this \/ (policy = PolicyStrictFIFO /\ k \in PendingAt)
        /\ ~ Feasible(nodes, remaining, jobs[k])
  BY <1>3, <1>4, <1>5
<1> QED BY <1>1, <1>6, <1>7, PendingIsGivenUp

\* The job of this iteration starts when it is placed and is given up when not.
LEMMA DecidedIsAllocated ==
  ASSUME Inv, Decide
  PROVE  \E this \in DOMAIN jobs : Allocator!Start(this) \/ Allocator!GiveUp(this)
<1> PICK this : this = Len(decisions) + 1
  OBVIOUS
<1>1. PICK placed \in PlaceJob(nodes, remaining, ThisJob) :
        \/ placed.kind = "error" /\ Fail("placement")
        \/ placed.kind = "rejected" /\ Refuse(placed.reason)
        \/ placed.kind = "placed" /\ Admit(placed)
  BY DEF Decide
<1>2. NextJob /\ TypeInv /\ Running /\ this \in DOMAIN jobs /\ ThisJob = jobs[this]
  BY ThisJobIndex DEF Decide, Inv
<1>3. PlacementInput(nodes, remaining, jobs[this])
  BY <1>2, JobTyped
<1>4. placed.kind = IF Feasible(nodes, remaining, jobs[this]) THEN "placed" ELSE "rejected"
  BY <1>1, <1>2, <1>3, PlacedExactlyWhenFeasible
<1>5. CASE placed.kind = "rejected" /\ Refuse(placed.reason)
  <2> PICK decision : decision =
         [status |-> StatusPending, reason |-> placed.reason, domain |-> EmptyName,
          allocation |-> <<>>, allocated |-> NoResources]
    OBVIOUS
  <2>1. Decides(decision)
    BY <1>5 DEF Refuse, LeavePending, Decides, inputVars
  <2>2. decision.status = StatusPending /\ decision.allocation = <<>>
    OBVIOUS
  <2>3. ~ Feasible(nodes, remaining, jobs[this])
    BY <1>4, <1>5
  <2>4. Allocator!GiveUp(this)
    BY <1>2, <2>1, <2>2, <2>3, PendingIsGivenUp
  <2> QED BY <1>2, <2>4
<1>6. CASE placed.kind = "placed" /\ Admit(placed)
  <2> PICK decision : decision = Admission(placed)
    OBVIOUS
  <2>1. Decides(decision)
    BY <1>6 DEF Admit, Admission, Decides, inputVars
  <2>2. decision.status = StatusAdmitted /\ decision.allocation = placed.allocation
    BY DEF Admission
  <2>3. Abstracted(this, decision)
    BY <1>2, <2>1, DecisionAbstracted
  <2>4. PICK job : job = jobs[this]
    OBVIOUS
  <2>5. PICK members \in EligibleSets(nodes, job.requiredTopology) :
          /\ members \subseteq DOMAIN nodes
          /\ DOMAIN placed.allocation \subseteq members
          /\ [n \in members |->
               IF n \in DOMAIN placed.allocation THEN placed.allocation[n] ELSE 0]
               \in Spreads(members, remaining, job)
    <3>1. /\ placed \in PlaceJob(nodes, remaining, job) /\ placed.kind = "placed"
          /\ PlacementInput(nodes, remaining, job)
      BY <1>1, <1>2, <1>3, <1>6, <2>4
    <3> QED BY ONLY <3>1, PlacedSpread
  <2>6. PICK spread : spread = [n \in members |->
                        IF n \in DOMAIN placed.allocation THEN placed.allocation[n] ELSE 0]
    OBVIOUS
  <2>7. AllocatorHeld' = [AllocatorHeld EXCEPT ![this] =
          [n \in DOMAIN nodes |-> IF n \in members THEN spread[n] ELSE 0]]
    <3>1. [n \in NodeNames |-> IF n \in DOMAIN decision.allocation
                               THEN decision.allocation[n] ELSE 0]
            = [n \in DOMAIN nodes |-> IF n \in members THEN spread[n] ELSE 0]
      BY <2>2, <2>5, <2>6 DEF NodeNames
    <3> QED BY <2>3, <3>1 DEF Abstracted
  <2>8. /\ members \in Allocator!EligibleSets(nodes, jobs[this].requiredTopology)
        /\ spread \in Allocator!Spreads(members, Allocator!Free, jobs[this])
    BY <1>2, <2>4, <2>5, <2>6, FreeIsRemaining, AllocatorOperators
  <2>9. AllocatorStatus' = [AllocatorStatus EXCEPT ![this] = "running"]
    BY <2>2, <2>3 DEF Abstracted
  <2>10. \E m \in Allocator!EligibleSets(nodes, jobs[this].requiredTopology) :
           \E sp \in Allocator!Spreads(m, Allocator!Free, jobs[this]) :
             AllocatorHeld' = [AllocatorHeld EXCEPT ![this] =
               [n \in DOMAIN nodes |-> IF n \in m THEN sp[n] ELSE 0]]
    BY <2>7, <2>8
  <2>11. Allocator!Start(this)
    BY <2>3, <2>9, <2>10 DEF Abstracted, Allocator!Start
  <2> QED BY <1>2, <2>11
<1> QED BY <1>1, <1>4, <1>5, <1>6

LEMMA AllocatorStep ==
  Inv /\ RefusedStaysUnfit /\ [Next]_vars => [Allocator!Next]_(Allocator!vars)
<1> SUFFICES ASSUME Inv, RefusedStaysUnfit, [Next]_vars
             PROVE  Allocator!Next \/ UNCHANGED Allocator!vars
  OBVIOUS
<1>1. CASE SkipBlocked
  <2>1. Len(decisions) + 1 \in DOMAIN jobs
    BY <1>1, ThisJobIndex DEF SkipBlocked, Inv
  <2> QED BY <1>1, <2>1, SkippedIsGivenUp DEF Allocator!Next
<1>2. CASE Decide
  BY <1>2, DecidedIsAllocated DEF Allocator!Next
<1>3. CASE RejectInput \/ Canceled \/ Start \/ Finish \/ EndContext \/ UNCHANGED vars
  <2>1. UNCHANGED <<inputVars, decisions>>
    BY <1>3 DEF RejectInput, Canceled, Fail, Start, Finish, EndContext, vars, resultVars
  <2> QED BY <2>1, AllocatorStutters
<1> QED BY <1>1, <1>2, <1>3 DEF Next, Step, Terminated

(***************************************************************************)
(* A static schedule implements the abstract allocator: a job starts whole *)
(* on nodes of one domain that have room for it, or is given up because it *)
(* or the job that blocks the queue has no room.                           *)
(***************************************************************************)
THEOREM ScheduleImplementsAllocator == Spec => ImplementsAllocator
<1>1. Spec => []RefusedStaysUnfit
  BY RefusalsAreFinal
<1> QED BY <1>1, AllocatorStarts, AllocatorStep, InvCorrect, PTL
        DEF Spec, ImplementsAllocator, Allocator!Spec

-----------------------------------------------------------------------------
(***************************************************************************)
(* The result can be replayed.  What placement saw when it decided on a    *)
(* job is what the decisions before it leave: Recorded keeps that of every *)
(* decision, because later ones do not change those before them.           *)
(***************************************************************************)
Recorded(k) ==
  /\ decisions[k].status = StatusPending => decisions[k].allocation = <<>>
  /\ LeftBefore(k) \in [NodeNames -> [Dim -> NonNegInt64]]
  /\ FromPlacement(k) \/ (IsHeadOfLine(k) /\ decisions[k].status = StatusPending)

History == Running => \A k \in Decided : Recorded(k)

\* How a schedule ends: with a decision on every job, or with an error.
Ending ==
  /\ pc = "done" => ~ JobsLeft
  /\ IF pc = "failed" THEN err # "none" ELSE err = "none"

\* What is left after all decisions so far is what remains.
LEMMA LeftIsRemaining ==
  ASSUME Inv, NextJob
  PROVE  LeftBefore(Len(decisions) + 1) = remaining
<1>1. TypeInv /\ Running /\ NodeAccounting
  BY ThisJobIndex DEF Inv, ResourcesAccounted
<1>2. /\ Len(decisions) \in Nat /\ Decided = 1 .. Len(decisions)
      /\ Decided \subseteq DOMAIN jobs /\ IsFiniteSet(DOMAIN jobs) /\ IsFiniteSet(Decided)
  BY <1>1, ThisJobIndex, JobsFinite, FS_Subset DEF Decided
<1>3. 1 .. (Len(decisions) + 1 - 1) = Decided
  BY <1>2
<1>4. remaining \in [NodeNames -> [Dim -> NonNegInt64]]
  BY <1>1, NodesTyped
<1>5. ASSUME NEW n \in NodeNames, NEW d \in Dim
      PROVE  nodes[n].capacity[d]
               - SumFunctionOnSet([j \in Decided |-> Held(j, n, d)], Decided)
               = remaining[n][d]
  <2> PICK all : all = [k \in DOMAIN jobs |-> Held(k, n, d)]
    OBVIOUS
  <2> PICK made : made = [j \in Decided |-> Held(j, n, d)]
    OBVIOUS
  <2>1. \A k \in DOMAIN jobs : all[k] \in Int
    BY <1>1, HeldType
  <2>2. \A k \in DOMAIN jobs \ Decided : all[k] = 0
    BY DEF Held
  <2>3. SumFunctionOnSet(all, DOMAIN jobs) = SumFunctionOnSet(all, Decided)
    BY ONLY <1>2, <2>1, <2>2, SumSupport
  <2>4. SumFunctionOnSet(all, Decided) = SumFunctionOnSet(made, Decided)
    <3>1. \A k \in Decided : all[k] = made[k]
      BY <1>2
    <3> QED BY ONLY <1>2, <3>1, SumSame
  <2>5. remaining[n][d] + SumFunctionOnSet(all, DOMAIN jobs) = nodes[n].capacity[d]
    BY <1>1 DEF NodeAccounting, TotalHeld
  <2>6. SumFunctionOnSet(all, DOMAIN jobs) \in Int
    BY ONLY <1>2, <2>1, SumInt
  <2>7. remaining[n][d] \in Int
    BY <1>4, MaxInt64Assumption DEF NonNegInt64
  <2> QED BY <2>3, <2>4, <2>5, <2>6, <2>7
<1>6. LeftBefore(Len(decisions) + 1) = [n \in NodeNames |-> [d \in Dim |-> remaining[n][d]]]
  BY <1>3, <1>5 DEF LeftBefore
<1> QED BY <1>4, <1>6

\* A decision leaves what the earlier ones saw as it was.
LEMMA LeftBeforeKept ==
  ASSUME TypeInv, NextJob, NEW decision, Decides(decision),
         NEW k \in 1 .. (Len(decisions) + 1)
  PROVE  LeftBefore(k)' = LeftBefore(k)
<1>1. nodes' = nodes /\ jobs' = jobs /\ NodeNames' = NodeNames
  BY DEF Decides, nodes, inputVars, NodeNames
<1>2. \A j \in 1 .. (k - 1) : \A n, d : Held(j, n, d)' = Held(j, n, d)
  <2>1. \A j \in 1 .. (k - 1) : j \in DOMAIN decisions /\ j \in DOMAIN decisions'
                                /\ decisions'[j] = decisions[j]
    BY ThisJobIndex, DecisionAdded
  <2> QED BY <1>1, <2>1 DEF Held, Decided
<1>3. \A n, d : [j \in 1 .. (k - 1) |-> Held(j, n, d)]' = [j \in 1 .. (k - 1) |-> Held(j, n, d)]
  BY <1>2
<1> QED BY <1>1, <1>3 DEF LeftBefore

LEMMA DecisionKeepsHistory ==
  ASSUME Inv, History, NextJob, NEW decision, Decides(decision),
         decision.status = StatusPending => decision.allocation = <<>>,
         \/ decision.reason.code = "head_of_line_blocked" /\ decision.status = StatusPending
         \/ \E placed \in PlaceJob(nodes, remaining, ThisJob) :
              decision = Reported(ThisJob, placed)
  PROVE  History'
<1> PICK this : this = Len(decisions) + 1
  OBVIOUS
<1>1. /\ TypeInv /\ Running /\ Len(decisions) \in Nat /\ DOMAIN decisions = 1 .. Len(decisions)
      /\ ThisJob = jobs[this]
  BY ThisJobIndex DEF Inv
<1>2. nodes' = nodes /\ jobs' = jobs /\ NodeNames' = NodeNames
  BY DEF Decides, nodes, inputVars, NodeNames
<1>3. /\ Decided' = Decided \cup {this}
      /\ decisions'[this] = decision
      /\ \A k \in Decided : decisions'[k] = decisions[k]
  BY <1>1, DecisionAdded DEF Decided
<1>4. \A k \in Decided' : LeftBefore(k)' = LeftBefore(k)
  BY <1>1, <1>3, LeftBeforeKept DEF Decided
<1>5. LeftBefore(this) = remaining /\ remaining \in [NodeNames -> [Dim -> NonNegInt64]]
  BY <1>1, LeftIsRemaining, NodesTyped
<1>6. ASSUME NEW k \in Decided PROVE Recorded(k)'
  <2>1. Recorded(k)
    BY <1>1, <1>6 DEF History
  <2>2. k \in Decided' /\ decisions'[k] = decisions[k] /\ LeftBefore(k)' = LeftBefore(k)
    BY <1>3, <1>4
  <2>3. FromPlacement(k) => FromPlacement(k)'
    BY <1>2, <2>2 DEF FromPlacement, Reported, Requested
  <2> QED BY <1>2, <2>1, <2>2, <2>3 DEF Recorded, IsHeadOfLine
<1>7. Recorded(this)'
  <2>1. this \in Decided' /\ LeftBefore(this)' = remaining
    BY <1>3, <1>4, <1>5
  <2>2. (\E placed \in PlaceJob(nodes, remaining, ThisJob) : decision = Reported(ThisJob, placed))
          => FromPlacement(this)'
    BY <1>1, <1>2, <1>3, <2>1 DEF FromPlacement, Reported, Requested
  <2>3. FromPlacement(this)' \/ (IsHeadOfLine(this)' /\ decisions'[this].status = StatusPending)
    BY <1>3, <2>2 DEF IsHeadOfLine
  <2> QED BY <1>2, <1>3, <1>5, <2>1, <2>3 DEF Recorded
<1> QED BY <1>3, <1>6, <1>7 DEF History

\* A step that changes neither the inputs nor the decisions.
LEMMA MoveKeepsHistory ==
  ASSUME History, UNCHANGED <<inputVars, decisions>>, Running' => Running
  PROVE  History'
<1>1. nodes' = nodes /\ NodeNames' = NodeNames /\ Decided' = Decided
  BY DEF nodes, NodeNames, inputVars, Decided
<1>2. \A j, n, d : Held(j, n, d)' = Held(j, n, d)
  BY <1>1 DEF Held, inputVars
<1>3. \A k : LeftBefore(k)' = LeftBefore(k)
  <2>1. ASSUME NEW k, NEW n, NEW d
        PROVE  SumFunctionOnSet([j \in 1 .. (k - 1) |-> Held(j, n, d)], 1 .. (k - 1))'
                 = SumFunctionOnSet([j \in 1 .. (k - 1) |-> Held(j, n, d)], 1 .. (k - 1))
    <3>1. [j \in 1 .. (k - 1) |-> Held(j, n, d)]' = [j \in 1 .. (k - 1) |-> Held(j, n, d)]
      BY <1>2
    <3> QED BY <3>1
  <2> QED BY <1>1, <2>1 DEF LeftBefore
<1>4. \A k : FromPlacement(k) => FromPlacement(k)'
  BY <1>1, <1>3 DEF FromPlacement, Reported, Requested, inputVars
<1>5. \A k : Recorded(k) => Recorded(k)'
  BY <1>1, <1>3, <1>4 DEF Recorded, IsHeadOfLine, inputVars
<1> QED BY <1>1, <1>5 DEF History

LEMMA HistoryStep == Inv /\ History /\ [Next]_vars => History'
<1> SUFFICES ASSUME Inv, History, [Next]_vars PROVE History'
  OBVIOUS
<1>1. CASE SkipBlocked
  <2> PICK decision : decision =
         [status |-> StatusPending, reason |-> HeadOfLineReason(blockingJob),
          domain |-> EmptyName, allocation |-> <<>>, allocated |-> NoResources]
    OBVIOUS
  <2>1. NextJob /\ Decides(decision)
    BY <1>1 DEF SkipBlocked, LeavePending, Decides, inputVars
  <2>2. /\ decision.allocation = <<>> /\ decision.status = StatusPending
        /\ decision.reason.code = "head_of_line_blocked"
    BY DEF HeadOfLineReason
  <2> QED BY <2>1, <2>2, DecisionKeepsHistory
<1>2. CASE Decide
  <2>1. PICK placed \in PlaceJob(nodes, remaining, ThisJob) :
          \/ placed.kind = "error" /\ Fail("placement")
          \/ placed.kind = "rejected" /\ Refuse(placed.reason)
          \/ placed.kind = "placed" /\ Admit(placed)
    BY <1>2 DEF Decide
  <2>2. NextJob
    BY <1>2 DEF Decide
  <2>3. CASE placed.kind = "error" /\ Fail("placement")
    BY <2>3, MoveKeepsHistory DEF Fail, Running, resultVars
  <2>4. CASE placed.kind # "error"
    <3> PICK decision : decision = Reported(ThisJob, placed)
      OBVIOUS
    <3>1. Decides(decision)
      BY <2>1, <2>4 DEF Reported, Refuse, LeavePending, Admit, Decides, inputVars
    <3>2. decision.status = StatusPending => decision.allocation = <<>>
      BY DEF Reported, StatusPending, StatusAdmitted
    <3> QED BY <2>1, <2>2, <3>1, <3>2, DecisionKeepsHistory
  <2> QED BY <2>1, <2>3, <2>4
<1>3. CASE Start
  <2>1. Decided' = {}
    BY <1>3 DEF Start, Decided, Inv, TypeInv, NothingDecided
  <2> QED BY <2>1 DEF History
<1>4. CASE RejectInput \/ Canceled \/ Finish \/ EndContext \/ UNCHANGED vars
  <2>1. UNCHANGED <<inputVars, decisions>> /\ (Running' => Running)
    BY <1>4 DEF RejectInput, Canceled, Finish, EndContext, Fail, vars, resultVars, Running
  <2> QED BY <2>1, MoveKeepsHistory
<1> QED BY <1>1, <1>2, <1>3, <1>4 DEF Next, Step, Terminated

LEMMA EndingStep == Inv /\ Ending /\ [Next]_vars => Ending'
<1> SUFFICES ASSUME Inv, Ending, [Next]_vars PROVE Ending'
  OBVIOUS
<1>1. ASSUME NEW error, error # "none", Fail(error) PROVE Ending'
  BY <1>1 DEF Fail, Ending
<1>2. ASSUME pc' = pc, err' = err, UNCHANGED <<jobs, decisions>> \/ pc = "loop" PROVE Ending'
  BY <1>2 DEF Ending, JobsLeft
<1>3. CASE RejectInput
  BY <1>1, <1>3 DEF RejectInput
<1>4. CASE Start
  BY <1>4 DEF Start, Ending
<1>5. CASE SkipBlocked
  BY <1>2, <1>5 DEF SkipBlocked, NextJob
<1>6. CASE Decide
  BY <1>1, <1>2, <1>6 DEF Decide, NextJob, Refuse, Admit
<1>7. CASE Canceled
  BY <1>1, <1>7 DEF Canceled
<1>8. CASE Finish
  BY <1>8 DEF Finish, Ending, JobsLeft, inputVars, resultVars
<1>9. CASE EndContext \/ UNCHANGED vars
  BY <1>2, <1>9 DEF EndContext, vars, inputVars, resultVars
<1> QED BY <1>3, <1>4, <1>5, <1>6, <1>7, <1>8, <1>9 DEF Next, Step, Terminated

LEMMA HistoryInit == Init => History /\ Ending
BY DEF Init, History, Ending, Running

LEMMA HistoryCorrect == Spec => [](History /\ Ending)
BY HistoryInit, HistoryStep, EndingStep, InvCorrect, PTL DEF Spec

(***************************************************************************)
(* The result of a schedule can be replayed from what it reports: every    *)
(* job not blocked by another got what placement makes of it on the        *)
(* resources the decisions before it leave.                                *)
(***************************************************************************)
THEOREM ScheduleIsReplayable == Spec => []Replayable
<1>1. History => Replayable
  BY DEF History, Recorded, Replayable, Running
<1> QED BY <1>1, HistoryCorrect, PTL

-----------------------------------------------------------------------------
(***************************************************************************)
(* For module Compare: on validated inputs a goroutine fails only with the *)
(* error of its context, and there is one decision it can make.            *)
(***************************************************************************)
LEMMA FailsWithContext ==
  ASSUME Inv, Step, policy \in Policies, ValidateCluster(cluster), ValidateJobs(jobs),
         ValidateTopologyRequirements(cluster, jobs)
  PROVE  err' \in {err, ctxErr}
<1>1. CASE RejectInput
  BY <1>1 DEF RejectInput, Fail, InputError
<1>2. CASE Decide
  <2>1. PICK placed \in PlaceJob(nodes, remaining, ThisJob) :
          \/ placed.kind = "error" /\ Fail("placement")
          \/ placed.kind = "rejected" /\ Refuse(placed.reason)
          \/ placed.kind = "placed" /\ Admit(placed)
    BY <1>2 DEF Decide
  <2>2. PlacementInput(nodes, remaining, ThisJob)
    BY <1>2, ThisJobIndex, JobTyped DEF Decide, Inv
  <2>3. placed.kind # "error"
    BY <2>2, PlacedExactlyWhenFeasible
  <2> QED BY <2>1, <2>3 DEF Refuse, Admit
<1>3. CASE Start \/ SkipBlocked \/ Canceled \/ Finish
  BY <1>3 DEF Start, SkipBlocked, Canceled, Finish, Fail
<1> QED BY <1>1, <1>2, <1>3 DEF Step

LEMMA OneReport ==
  ASSUME Inv, History, Running, NEW k \in Decided,
         NEW a \in PlaceJob(nodes, LeftBefore(k), jobs[k]),
         NEW b \in PlaceJob(nodes, LeftBefore(k), jobs[k])
  PROVE  a = b
<1>1. TypeInv /\ k \in DOMAIN jobs /\ LeftBefore(k) \in [NodeNames -> [Dim -> NonNegInt64]]
  <2>1. Len(decisions) \in 0 .. Len(jobs) /\ jobs \in Seq(Job) /\ DecisionsListed
    BY DEF Inv, TypeInv, TypeOK
  <2>2. PICK S : decisions \in Seq(S)
    BY <2>1 DEF DecisionsListed
  <2>3. k \in DOMAIN jobs
    BY <2>1, <2>2 DEF Decided
  <2> QED BY <2>3 DEF Inv, History, Recorded
<1>2. PlacementInput(nodes, LeftBefore(k), jobs[k])
  BY <1>1, JobTyped DEF PlacementInput, NodeNames
<1>3. DOMAIN BuildDomains(nodes, jobs[k].requiredTopology) \subseteq Int
  <2>1. nodes \in [NodeNames -> NodeInfo]
    BY <1>1, NodesTyped
  <2>2. jobs[k].requiredTopology \in TopologyKeys \cup {NoTopology}
    BY <1>1, JobTyped DEF Job
  <2>3. Domains \subseteq Int
    BY DEF Domains, GlobalTopologyDomain
  <2> QED BY <2>1, <2>2, <2>3, DomainType
<1>4. PICK outcome : PlaceJob(nodes, LeftBefore(k), jobs[k]) = {outcome}
  BY <1>2, <1>3, OutcomeIsBest
<1> QED BY <1>4

-----------------------------------------------------------------------------
(***************************************************************************)
(* What module CompareProofs needs of a goroutine: an invariant that holds *)
(* whatever ends its context, and what it says of a schedule that is done. *)
(***************************************************************************)
RunInv == Inv /\ History /\ Ending

LEMMA RunInit == Init => RunInv
BY InvInit, HistoryInit DEF RunInv

LEMMA RunStep == RunInv /\ Step => RunInv'
BY InvStep, HistoryStep, EndingStep DEF RunInv, Next

LEMMA RunContext ==
  ASSUME RunInv, UNCHANGED <<inputVars, pc, err, resultVars>>,
         ctxErr' \in {"none", NilContext} \cup ContextErrors
  PROVE  RunInv'
<1>1. UNCHANGED <<inputVars, resultVars>> /\ UNCHANGED <<inputVars, decisions>>
      /\ pc' = pc /\ err' = err
  BY DEF resultVars
<1>2. Inv'
  BY <1>1, MoveKeepsInv DEF RunInv
<1>3. History'
  BY <1>1, MoveKeepsHistory DEF RunInv, Running
<1>4. Ending'
  BY <1>1 DEF RunInv, Ending, JobsLeft, inputVars
<1> QED BY <1>2, <1>3, <1>4 DEF RunInv

LEMMA DoneDecidedAll ==
  ASSUME RunInv, pc = "done"
  PROVE  /\ TypeInv /\ Running
         /\ Len(jobs) \in Nat /\ DOMAIN jobs = 1 .. Len(jobs)
         /\ Decided = DOMAIN jobs /\ Len(decisions) = Len(jobs)
<1>1. TypeInv /\ Running
  BY DEF RunInv, Inv, Running
<1>2. jobs \in Seq(Job) /\ Len(decisions) \in 0 .. Len(jobs) /\ DecisionsListed
  BY <1>1 DEF TypeInv, TypeOK
<1>3. PICK S : decisions \in Seq(S)
  BY <1>2 DEF DecisionsListed
<1>4. ~ (Len(decisions) < Len(jobs))
  BY DEF RunInv, Ending, JobsLeft
<1> QED BY <1>1, <1>2, <1>3, <1>4 DEF Decided

LEMMA DoneAccounted ==
  ASSUME RunInv, pc = "done"
  PROVE  /\ IsFiniteSet(NodeNames)
         /\ totals.total = [d \in Dim |-> TotalCapacity(cluster, d)]
         /\ \A d \in Dim :
              /\ \A n \in NodeNames :
                   /\ remaining[n][d] \in Int /\ nodes[n].capacity[d] \in Int
                   /\ remaining[n][d] + TotalHeld(n, d) = nodes[n].capacity[d]
              /\ \A n \in NodeNames, k \in DOMAIN jobs : Held(k, n, d) \in Nat
              /\ totals.used[d] \in Int /\ totals.total[d] \in Int
              /\ totals.used[d] + SumFunction([n \in NodeNames |-> remaining[n][d]])
                   = totals.total[d]
<1>1. TypeInv /\ Running /\ NodeAccounting /\ UsedAccounting
  BY DoneDecidedAll DEF RunInv, Inv, ResourcesAccounted
<1>2. /\ IsFiniteSet(NodeNames) /\ nodes \in [NodeNames -> NodeInfo]
      /\ remaining \in [NodeNames -> [Dim -> NonNegInt64]]
  BY <1>1, NodesTyped
<1>3. NonNegInt64 \subseteq Int
  BY MaxInt64Assumption DEF NonNegInt64
<1>4. totals.used \in [Dim -> NonNegInt64] /\ totals.total \in [Dim -> NonNegInt64]
  BY <1>1 DEF TypeInv, TypeOK
<1>5. \A n \in NodeNames : nodes[n].capacity \in [Dim -> NonNegInt64]
  BY <1>2 DEF NodeInfo
<1>6. \A n \in NodeNames, d \in Dim, k \in DOMAIN jobs : Held(k, n, d) \in Nat
  BY <1>1, HeldType
<1>7. totals.total = [d \in Dim |-> TotalCapacity(cluster, d)]
  BY <1>1 DEF TypeInv, InputsValidated
<1>8. ASSUME NEW d \in Dim
      PROVE  /\ \A n \in NodeNames :
                   /\ remaining[n][d] \in Int /\ nodes[n].capacity[d] \in Int
                   /\ remaining[n][d] + TotalHeld(n, d) = nodes[n].capacity[d]
             /\ totals.used[d] \in Int /\ totals.total[d] \in Int
             /\ totals.used[d] + SumFunction([n \in NodeNames |-> remaining[n][d]])
                  = totals.total[d]
  BY <1>1, <1>2, <1>3, <1>4, <1>5 DEF NodeAccounting, UsedAccounting
<1> QED BY <1>2, <1>6, <1>7, <1>8

\* Up to the job that blocks the others, and under backfill to the end, every
\* decision is that of placement; behind it nothing is given to a job.
LEMMA DoneDecisions ==
  ASSUME RunInv, pc = "done"
  PROVE  \E blocked \in 1 .. Len(jobs) + 1 :
           /\ policy = PolicyBackfill => blocked = Len(jobs) + 1
           /\ \A k \in DOMAIN jobs :
                IF k <= blocked THEN FromPlacement(k)
                ELSE decisions[k].status = StatusPending /\ decisions[k].allocation = <<>>
<1>1. /\ Running /\ Len(jobs) \in Nat /\ DOMAIN jobs = 1 .. Len(jobs)
      /\ Decided = DOMAIN jobs
  BY DoneDecidedAll
<1>2. \A k \in DOMAIN jobs :
        /\ decisions[k].status = StatusPending => decisions[k].allocation = <<>>
        /\ FromPlacement(k) \/ (IsHeadOfLine(k) /\ decisions[k].status = StatusPending)
  BY <1>1 DEF RunInv, History, Recorded
<1>3. CASE NothingBlocks
  <2>1. \A k \in DOMAIN jobs : FromPlacement(k)
    BY <1>1, <1>2, <1>3 DEF NothingBlocks
  <2>2. Len(jobs) + 1 \in 1 .. Len(jobs) + 1 /\ \A k \in DOMAIN jobs : k <= Len(jobs) + 1
    BY <1>1
  <2> QED BY <2>1, <2>2
<1>4. CASE policy = PolicyStrictFIFO /\ \E head \in Decided : BlocksQueue(head)
  <2>1. PICK head \in DOMAIN jobs : BlocksQueue(head)
    BY <1>1, <1>4
  <2>2. head \in 1 .. Len(jobs) + 1 /\ policy # PolicyBackfill
    BY <1>1, <1>4 DEF PolicyStrictFIFO, PolicyBackfill
  <2>3. \A k \in DOMAIN jobs : k > head =>
          decisions[k].status = StatusPending /\ decisions[k].allocation = <<>>
    BY <1>1, <1>2, <2>1 DEF BlocksQueue
  <2>4. ASSUME NEW k \in DOMAIN jobs, k <= head PROVE FromPlacement(k)
    <3>1. CASE k = head
      BY <1>1, <1>2, <2>1, <3>1 DEF BlocksQueue
    <3>2. CASE k < head
      <4>1. decisions[k].status = StatusAdmitted
        BY <1>1, <2>1, <3>2 DEF BlocksQueue
      <4> QED BY <1>2, <4>1 DEF StatusAdmitted, StatusPending
    <3> QED BY <1>1, <2>4, <3>1, <3>2
  <2>5. \A k \in DOMAIN jobs : k <= head \/ k > head
    BY <1>1
  <2> QED BY <2>2, <2>3, <2>4, <2>5
<1>5. NothingBlocks \/ (policy = PolicyStrictFIFO /\ \E head \in Decided : BlocksQueue(head))
  BY <1>1 DEF RunInv, Inv, BlockedByFirst
<1> QED BY <1>3, <1>4, <1>5
=============================================================================
