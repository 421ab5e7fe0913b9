------------------------------- MODULE Schedule -------------------------------
(***************************************************************************)
(* Schedule (src/internal/scheduler/scheduler.go): one pass over a job set *)
(* in input order on an empty cluster, under one queue policy.  Nothing is *)
(* ever released: what is admitted holds its nodes to the end.             *)
(*                                                                         *)
(* One action is one iteration of the loop over the jobs, from the context *)
(* check at its top to the next one.  placeJob looks at the context too,   *)
(* but only before it charges a node, and an error discards the result: a  *)
(* cancellation it notices has the effect of one before the iteration.     *)
(***************************************************************************)
EXTENDS Scheduler

CONSTANTS
  Clusters,       \* the clusters Schedule may be called with
  JobSets,        \* the job sets it may be called with
  PolicyNames,    \* the policy names it may be called with
  CallerMayCancel \* whether the context ever ends

ASSUME ClustersAssumption == Clusters \subseteq Seq(NodeInput)
ASSUME JobSetsAssumption == JobSets \subseteq Seq(Job)
ASSUME CallerMayCancelAssumption == CallerMayCancel \in BOOLEAN

VARIABLES
  cluster, jobs, policy,  \* the arguments of Schedule
  ctxErr,                 \* ctx.Err(), "none" if nil; NilContext if ctx is nil
  pc, err,                \* where Schedule is; the error it returned
  remaining,              \* the node states that change, see module Placement
  blockingJob,            \* the name of the blocked head, or ""
  decisions,              \* result.Jobs
  totals                  \* the other fields of the result

inputVars == <<cluster, jobs, policy>>
resultVars == <<remaining, blockingJob, decisions, totals>>
vars == <<inputVars, ctxErr, pc, err, resultVars>>

StatusAdmitted == "admitted"
StatusPending == "pending"

\* A context ends because its caller cancels it or because its deadline passes.
ContextErrors == {"canceled", "deadline"}
InputErrors == {NilContext, "policy", "cluster", "jobs", "topology"}
Terminal == {"done", "failed"}

nodes == MakeNodeStates(cluster)

NoResources == [d \in Dim |-> 0]
AddResources(left, right) == [d \in Dim |-> left[d] + right[d]]

Init ==
  /\ cluster \in Clusters /\ jobs \in JobSets /\ policy \in PolicyNames
  /\ ctxErr \in {"none", NilContext}
  /\ pc = "start" /\ err = "none"
  /\ remaining = <<>> /\ blockingJob = EmptyName /\ decisions = <<>>
  /\ totals = [admitted |-> 0, pending |-> 0, headOfLineBlocked |-> 0,
               used |-> NoResources, total |-> NoResources]

-----------------------------------------------------------------------------
Fail(error) ==
  /\ pc' = "failed" /\ err' = error
  /\ UNCHANGED <<inputVars, ctxErr, resultVars>>

\* The first check of the arguments that fails, in the order they are made.
InputError ==
  IF ctxErr = NilContext THEN NilContext
  ELSE IF policy \notin Policies THEN "policy"
  ELSE IF ctxErr # "none" THEN ctxErr
  ELSE IF ~ ValidateCluster(cluster) THEN "cluster"
  ELSE IF ~ ValidateJobs(jobs) THEN "jobs"
  ELSE IF ~ ValidateTopologyRequirements(cluster, jobs) THEN "topology" ELSE "none"

RejectInput == pc = "start" /\ InputError # "none" /\ Fail(InputError)

Start ==
  /\ pc = "start" /\ InputError = "none"
  /\ remaining' = IdleResources(nodes)
  /\ totals' = [totals EXCEPT !.total = [d \in Dim |-> TotalCapacity(cluster, d)]]
  /\ pc' = "loop"
  /\ UNCHANGED <<inputVars, ctxErr, err, blockingJob, decisions>>

\* The job of this iteration of the loop.
JobsLeft == Len(decisions) < Len(jobs)
ThisJob == jobs[Len(decisions) + 1]
Requested(job) == ResourcesForReplicas(job.resourcesPerReplica, job.replicas)

NextJob == pc = "loop" /\ JobsLeft /\ ctxErr = "none"

LeavePending(reason) ==
  decisions' = Append(decisions,
    [status |-> StatusPending, reason |-> reason, domain |-> EmptyName,
     allocation |-> <<>>, allocated |-> NoResources])

\* A job behind a blocked head is not looked at.
SkipBlocked ==
  /\ NextJob /\ blockingJob # EmptyName
  /\ LeavePending(HeadOfLineReason(blockingJob))
  /\ totals' = [totals EXCEPT !.pending = @ + 1, !.headOfLineBlocked = @ + 1]
  /\ UNCHANGED <<inputVars, ctxErr, pc, err, remaining, blockingJob>>

\* Fault: both policies block at the first refusal.
BlocksEither == ThisJob.name

\* Fault: the policies are taken for one another.
BlocksSwapped == IF policy = PolicyBackfill THEN ThisJob.name ELSE blockingJob

\* Under strict FIFO the refused job blocks the rest of the queue.
Blocks == IF policy = PolicyStrictFIFO THEN ThisJob.name ELSE blockingJob

Refuse(reason) ==
  /\ LeavePending(reason)
  /\ totals' = [totals EXCEPT !.pending = @ + 1]
  /\ blockingJob' = Blocks
  /\ UNCHANGED <<inputVars, ctxErr, pc, err, remaining>>

\* Fault: one replica is accounted for.
AdmitCountsOne(placed) ==
  /\ remaining' = Consumed(remaining, ThisJob, placed.allocation)
  /\ decisions' = Append(decisions,
       [status |-> StatusAdmitted, reason |-> NoReason, domain |-> placed.domain,
        allocation |-> placed.allocation, allocated |-> Requested(ThisJob)])
  /\ totals' = [totals EXCEPT !.admitted = @ + 1,
                  !.used = AddResources(@, ThisJob.resourcesPerReplica)]
  /\ UNCHANGED <<inputVars, ctxErr, pc, err, blockingJob>>

Admit(placed) ==
  /\ remaining' = Consumed(remaining, ThisJob, placed.allocation)
  /\ decisions' = Append(decisions,
       [status |-> StatusAdmitted, reason |-> NoReason, domain |-> placed.domain,
        allocation |-> placed.allocation, allocated |-> Requested(ThisJob)])
  /\ totals' = [totals EXCEPT !.admitted = @ + 1,
                              !.used = AddResources(@, Requested(ThisJob))]
  /\ UNCHANGED <<inputVars, ctxErr, pc, err, blockingJob>>

Decide ==
  /\ NextJob /\ blockingJob = EmptyName
  /\ \E placed \in PlaceJob(nodes, remaining, ThisJob) :
       \/ placed.kind = "error" /\ Fail("placement")
       \/ placed.kind = "rejected" /\ Refuse(placed.reason)
       \/ placed.kind = "placed" /\ Admit(placed)

\* The loop's context check, made once per job left.
Canceled == pc = "loop" /\ JobsLeft /\ ctxErr # "none" /\ Fail(ctxErr)

Finish ==
  /\ pc = "loop" /\ ~ JobsLeft
  /\ pc' = "done"
  /\ UNCHANGED <<inputVars, ctxErr, err, resultVars>>

EndContext ==
  /\ CallerMayCancel /\ ctxErr = "none" /\ pc \notin Terminal
  /\ ctxErr' \in ContextErrors
  /\ UNCHANGED <<inputVars, pc, err, resultVars>>

Terminated == pc \in Terminal /\ UNCHANGED vars

Step == RejectInput \/ Start \/ SkipBlocked \/ Decide \/ Canceled \/ Finish

Next == Step \/ EndContext \/ Terminated

Spec == Init /\ [][Next]_vars
=============================================================================
