------------------------------- MODULE Compare -------------------------------
(***************************************************************************)
(* Compare (src/internal/scheduler/compare.go): two runs of Schedule, one  *)
(* per policy, as goroutines with copies of the inputs and one derived     *)
(* context.  The goroutines are the ones of module Schedule, step by step. *)
(***************************************************************************)
EXTENDS Comparison

CONSTANTS
  MaxInt64, TopologyKeys, \* see module TopoModel
  Clusters, JobSets       \* what Compare may be called with

ASSUME MaxInt64Assumption == MaxInt64 \in Nat \ {0}
ASSUME TopologyKeysAssumption == IsFiniteSet(TopologyKeys)

VARIABLES
  cluster, jobs,         \* the arguments; each goroutine has its own copy
  strictPolicy, strictPc, strictErr, strictRemaining, strictBlockingJob,
  strictDecisions, strictTotals,      \* the goroutine that runs strict FIFO
  backfillPolicy, backfillPc, backfillErr, backfillRemaining,
  backfillBlockingJob, backfillDecisions, backfillTotals   \* and backfill

inputVars == <<cluster, jobs>>
strictVars == <<strictPolicy, strictPc, strictErr, strictRemaining,
                strictBlockingJob, strictDecisions, strictTotals>>
backfillVars == <<backfillPolicy, backfillPc, backfillErr, backfillRemaining,
                  backfillBlockingJob, backfillDecisions, backfillTotals>>
vars == <<comparisonVars, inputVars, strictVars, backfillVars>>

Strict == INSTANCE Schedule WITH
  policy <- strictPolicy, PolicyNames <- {PolicyStrictFIFO}, CallerMayCancel <- TRUE,
  pc <- strictPc, err <- strictErr, remaining <- strictRemaining,
  blockingJob <- strictBlockingJob, decisions <- strictDecisions,
  totals <- strictTotals

Backfill == INSTANCE Schedule WITH
  policy <- backfillPolicy, PolicyNames <- {PolicyBackfill}, CallerMayCancel <- TRUE,
  pc <- backfillPc, err <- backfillErr, remaining <- backfillRemaining,
  blockingJob <- backfillBlockingJob, decisions <- backfillDecisions,
  totals <- backfillTotals

ASSUME ClustersAssumption == Clusters \subseteq Seq(Strict!NodeInput)
ASSUME JobSetsAssumption == JobSets \subseteq Seq(Strict!Job)

Init == ComparisonInit /\ Strict!Init /\ Backfill!Init

\* The validations Compare makes before it starts a goroutine.
InputErr ==
  IF ~ Strict!ValidateCluster(cluster) THEN "cluster"
  ELSE IF ~ Strict!ValidateJobs(jobs) THEN "jobs"
       ELSE IF ~ Strict!ValidateTopologyRequirements(cluster, jobs) THEN "topology"
            ELSE "none"

Start == (Reject(InputErr) \/ Launch(InputErr))
           /\ UNCHANGED <<inputVars, strictVars, backfillVars>>

StrictStep ==
  /\ PolicyStrictFIFO \in running /\ Strict!Step
  /\ UNCHANGED <<comparisonVars, backfillVars>>

BackfillStep ==
  /\ PolicyBackfill \in running /\ Backfill!Step
  /\ UNCHANGED <<comparisonVars, strictVars>>

\* Schedule has returned; its outcome is sent.
SendOutcome ==
  /\ \/ strictPc \in Strict!Terminal /\ Send(PolicyStrictFIFO, strictErr)
     \/ backfillPc \in Backfill!Terminal /\ Send(PolicyBackfill, backfillErr)
  /\ UNCHANGED <<inputVars, strictVars, backfillVars>>

\* Any failure cancels the other goroutine.
CollectOne ==
  /\ Collect(Head(outcomes).err # "none")
  /\ UNCHANGED <<inputVars, strictVars, backfillVars>>

Environment == (EndContext \/ Propagate) /\ UNCHANGED <<inputVars, strictVars, backfillVars>>
Answer == Return /\ UNCHANGED <<inputVars, strictVars, backfillVars>>
Returned == phase = "returned" /\ UNCHANGED vars

Goroutines == Start \/ StrictStep \/ BackfillStep \/ SendOutcome \/ CollectOne \/ Answer

Next == Goroutines \/ Environment \/ Returned

(***************************************************************************)
(* Some goroutine that can go on does; no context has to end.              *)
(***************************************************************************)
Fairness == WF_vars(Goroutines)

Spec == Init /\ [][Next]_vars
FairSpec == Spec /\ Fairness

-----------------------------------------------------------------------------
(***************************************************************************)
(* Compare answers, with both results unless the inputs are invalid or the *)
(* caller's context ends: a schedule has no error of its own.  Were there  *)
(* one, the error returned could depend on the goroutines' order, because  *)
(* any failure cancels the other goroutine.                                *)
(***************************************************************************)
Atomic == INSTANCE AtomicComparison WITH
  OwnErrors <- {}, inputErr <- InputErr, own <- [p \in Policies |-> "none"]
ImplementsAtomic == Atomic!Spec

(***************************************************************************)
(* The answer speaks for both schedules.  Either nothing was started, or   *)
(* both have ended and nothing of them is left: then it is both results if *)
(* both succeeded, and otherwise the caller's own error, reported for the  *)
(* first by name of the schedules that failed.  Neither the order of the   *)
(* outcomes nor the cancellation of the other schedule shows in it.        *)
(***************************************************************************)
ErrOf(p) == IF p = PolicyStrictFIFO THEN strictErr ELSE backfillErr
PcOf(p) == IF p = PolicyStrictFIFO THEN strictPc ELSE backfillPc
FailedRuns == {p \in Policies : ErrOf(p) # "none"}

NothingStarted ==
  /\ returned.kind = "error" /\ returned.policy = NoPolicy
  /\ \A p \in Policies : PcOf(p) = "start"

BothEnded ==
  /\ \A p \in Policies : PcOf(p) \in Strict!Terminal
  /\ returned = IF FailedRuns = {} THEN Results
                ELSE Failure(FirstPolicy(FailedRuns), callerErr)

AnswersForBoth ==
  phase = "returned" => NoGoroutineLeft /\ (NothingStarted \/ BothEnded)

(***************************************************************************)
(* The two results tell one story: they agree up to the job that blocks    *)
(* strict FIFO, and from there on strict FIFO admits nothing, so backfill  *)
(* admits every job strict FIFO does, on the same nodes, and never uses    *)
(* less of a resource.                                                     *)
(***************************************************************************)
Admitted(decision) == decision.status = Strict!StatusAdmitted

BackfillDominates ==
  returned = Results =>
    /\ Len(strictDecisions) = Len(jobs) /\ Len(backfillDecisions) = Len(jobs)
    /\ \E blocked \in 1 .. Len(jobs) + 1 :
         \A k \in DOMAIN jobs :
           IF k <= blocked THEN strictDecisions[k] = backfillDecisions[k]
           ELSE ~ Admitted(strictDecisions[k])
    /\ \A d \in Strict!Dim : strictTotals.used[d] <= backfillTotals.used[d]
    /\ strictTotals.total = backfillTotals.total
=============================================================================
