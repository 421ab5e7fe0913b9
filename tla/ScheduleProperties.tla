-------------------------- MODULE ScheduleProperties --------------------------
(***************************************************************************)
(* What a static schedule promises.  Fitting is that of module             *)
(* Feasibility, not the placement algorithm's own answer.                  *)
(***************************************************************************)
EXTENDS Schedule, Feasibility

NodeNames == DOMAIN nodes
Running == pc \in {"loop", "done"}
Decided == DOMAIN decisions
PendingAt == {k \in Decided : decisions[k].status = StatusPending}

-----------------------------------------------------------------------------
(***************************************************************************)
(* Types.  The used resources are summed without an overflow check, so     *)
(* that they stay in int64 is more than their type.                        *)
(***************************************************************************)
IsAllocation(allocation) ==
  /\ DOMAIN allocation \subseteq NodeNames
  /\ allocation \in [DOMAIN allocation -> PosInt64]

DecisionOK(decision) ==
  /\ decision = [status |-> decision.status, reason |-> decision.reason,
                 domain |-> decision.domain, allocation |-> decision.allocation,
                 allocated |-> decision.allocated]
  /\ decision.status \in {StatusAdmitted, StatusPending}
  /\ decision.reason.code \in ReasonCodes
  /\ decision.domain \in Domains
  /\ IsAllocation(decision.allocation)
  /\ decision.allocated \in [Dim -> NonNegInt64]

TypeOK ==
  /\ cluster \in Seq(NodeInput) /\ jobs \in Seq(Job) /\ policy \in PolicyNames
  /\ ctxErr \in {"none", NilContext} \cup ContextErrors
  /\ pc \in {"start", "loop"} \cup Terminal
  /\ err \in {"none", "placement"} \cup InputErrors \cup ContextErrors
  /\ Running => remaining \in [NodeNames -> [Dim -> NonNegInt64]]
  /\ blockingJob \in Nat
  /\ Len(decisions) \in 0 .. Len(jobs)
  /\ \A k \in Decided : DecisionOK(decisions[k])
  /\ totals \in [admitted : Nat, pending : Nat, headOfLineBlocked : Nat,
                 used : [Dim -> NonNegInt64], total : [Dim -> NonNegInt64]]

-----------------------------------------------------------------------------
\* What job k of the set was given of resource d of node n.
Held(k, n, d) ==
  IF k \in Decided /\ n \in DOMAIN decisions[k].allocation
  THEN ResourcesForReplicas(jobs[k].resourcesPerReplica, decisions[k].allocation[n])[d]
  ELSE 0

TotalHeld(n, d) == SumFunctionOnSet([k \in DOMAIN jobs |-> Held(k, n, d)], DOMAIN jobs)

(***************************************************************************)
(* The result's accounting is that of the nodes, although the code keeps   *)
(* the two apart: the nodes are charged per node of the allocation, the    *)
(* used resources grow by what the job asked for.  What each node gave is  *)
(* what the reported allocations took from it, and used resources and      *)
(* remaining ones add up to the total.                                     *)
(***************************************************************************)
NodeAccounting ==
  Running => \A n \in NodeNames, d \in Dim :
    remaining[n][d] + TotalHeld(n, d) = nodes[n].capacity[d]

UsedAccounting ==
  Running => \A d \in Dim :
    totals.used[d] + SumFunction([n \in NodeNames |-> remaining[n][d]]) = totals.total[d]

ResourcesAccounted == NodeAccounting /\ UsedAccounting

(***************************************************************************)
(* Under strict FIFO one refused job, the first, blocks the queue: every   *)
(* job before it is admitted, it has a reason of its own, and every job    *)
(* behind it is pending, counted and reported as blocked by it.  Backfill  *)
(* never blocks a job.                                                     *)
(***************************************************************************)
IsHeadOfLine(k) == decisions[k].reason.code = "head_of_line_blocked"

BlocksQueue(head) ==
  /\ blockingJob = jobs[head].name
  /\ decisions[head].status = StatusPending /\ ~ IsHeadOfLine(head)
  /\ \A k \in Decided : k < head => decisions[k].status = StatusAdmitted
  /\ \A k \in Decided :
       k > head => /\ decisions[k].status = StatusPending
                   /\ decisions[k].reason = HeadOfLineReason(jobs[head].name)
  /\ totals.headOfLineBlocked = Len(decisions) - head

NothingBlocks ==
  /\ blockingJob = EmptyName /\ totals.headOfLineBlocked = 0
  /\ \A k \in Decided : ~ IsHeadOfLine(k)

BlockedByFirst ==
  Running =>
    \/ NothingBlocks /\ (policy = PolicyStrictFIFO => PendingAt = {})
    \/ policy = PolicyStrictFIFO /\ \E head \in Decided : BlocksQueue(head)

(***************************************************************************)
(* The pass is greedy to the end: a job refused for a reason of its own    *)
(* still does not fit when everything behind it has been decided, so no    *)
(* second pass could admit it.                                             *)
(***************************************************************************)
RefusedStaysUnfit ==
  Running => \A k \in PendingAt :
    ~ IsHeadOfLine(k) => ~ Feasible(nodes, remaining, jobs[k])

(***************************************************************************)
(* The result can be replayed: a job not blocked by another has got what   *)
(* placement makes of it on the resources that the decisions reported      *)
(* before it leave, although the code never looks at a decision again.     *)
(* Compare relies on it too: up to the first refusal the two policies      *)
(* decide alike.                                                           *)
(***************************************************************************)
LeftBefore(k) ==
  [n \in NodeNames |-> [d \in Dim |->
     nodes[n].capacity[d]
       - SumFunctionOnSet([j \in 1 .. (k - 1) |-> Held(j, n, d)], 1 .. (k - 1))]]

Reported(job, placed) ==
  IF placed.kind = "placed"
  THEN [status |-> StatusAdmitted, reason |-> NoReason, domain |-> placed.domain,
        allocation |-> placed.allocation, allocated |-> Requested(job)]
  ELSE [status |-> StatusPending, reason |-> placed.reason, domain |-> EmptyName,
        allocation |-> <<>>, allocated |-> NoResources]

FromPlacement(k) ==
  \E placed \in PlaceJob(nodes, LeftBefore(k), jobs[k]) :
    decisions[k] = Reported(jobs[k], placed)

Replayable ==
  pc = "done" => \A k \in Decided : IsHeadOfLine(k) \/ FromPlacement(k)

(***************************************************************************)
(* Once the arguments are validated, only the end of the context makes     *)
(* Schedule fail: a placement that finds a candidate domain always places  *)
(* every replica.  Compare relies on it, see module Compare.               *)
(***************************************************************************)
FailsOnlyForCaller == err \in {"none", ctxErr} \cup InputErrors

-----------------------------------------------------------------------------
(***************************************************************************)
(* A schedule is a run of the abstract allocator in which nothing ends.    *)
(***************************************************************************)
AllocatorStatus ==
  [k \in DOMAIN jobs |->
     IF k \notin Decided THEN "waiting"
     ELSE IF decisions[k].status = StatusAdmitted THEN "running" ELSE "given up"]

AllocatorHeld ==
  [k \in DOMAIN jobs |-> [n \in NodeNames |->
     IF k \in Decided /\ n \in DOMAIN decisions[k].allocation
     THEN decisions[k].allocation[n] ELSE 0]]

Allocator == INSTANCE GangAllocator WITH
  Online <- FALSE, status <- AllocatorStatus, held <- AllocatorHeld
ImplementsAllocator == Allocator!Spec
=============================================================================
