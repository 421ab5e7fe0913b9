------------------------------ MODULE Simulation ------------------------------
(***************************************************************************)
(* Simulate (src/internal/scheduler/simulation.go): the event-driven       *)
(* simulation of a timed workload under one queue policy.                  *)
(*                                                                         *)
(* The simulator is one goroutine; its only environment is the context,    *)
(* which the caller may cancel at any moment.  One action is one iteration *)
(* of one of the simulator's loops, from the context check at the loop's   *)
(* top to the next one: a cancellation between two checks has the effect   *)
(* of one just before the second.                                          *)
(*                                                                         *)
(* An error discards the result and the state, so a failing step only      *)
(* records which error it is.                                              *)
(***************************************************************************)
EXTENDS Scheduler, Release

CONSTANTS
  Clusters,       \* the clusters Simulate may be called with
  Workloads,      \* the timed job sets it may be called with
  PolicyNames,    \* the policy names it may be called with
  CallerMayCancel \* whether the caller ever cancels the context

ASSUME ClustersAssumption == Clusters \subseteq Seq(NodeInput)
ASSUME WorkloadsAssumption == Workloads \subseteq Seq(Job)
ASSUME PolicyNamesAssumption == PolicyNames \subseteq STRING
ASSUME CallerMayCancelAssumption == CallerMayCancel \in BOOLEAN

VARIABLES
  cluster, jobs, policy,  \* the arguments of Simulate
  ctxNil,                 \* ctx == nil: no context to ask or to end
  ctxDone,                \* ctx.Err() # nil
  pc, err,                \* where the simulator is; the error it returned
  tick,                   \* the event tick being processed
  nodes, remaining,       \* []nodeState, see module Placement
  future,                 \* arrivalOrder[arrivalCursor:], as a set of job indexes
  pending,                \* the queue; during a scan, what is left to look at
  retained,               \* the jobs a backfill scan leaves in the queue
  blockingJob,            \* strict FIFO's head when the leftovers are reported
  running,                \* runningJobHeap, a function of the job index
  lifecycle, events,      \* result.Jobs and result.Events
  stats                   \* the aggregates of the result

inputVars == <<cluster, jobs, policy, ctxNil>>
queueVars == <<future, pending, retained, blockingJob>>
nodeVars == <<nodes, remaining>>
resultVars == <<lifecycle, events, stats>>
vars == <<inputVars, ctxDone, pc, err, tick, nodeVars, queueVars, running,
          resultVars>>

NoTick == -1          \* a nil *int64, and the tick before the first event

EventArrived == "arrived"
EventAdmitted == "admitted"
EventCompleted == "completed"

StatusNone == ""
LifecycleCompleted == "completed"
LifecycleUnscheduled == "unscheduled"

\* Errors an input or the caller is responsible for, overflows the code
\* detects, and violated internal invariants.
InputErrors == {NilContext, "policy", "canceled", "cluster", "jobs", "topology"}
OverflowErrors == {"finish tick overflow", "total delay overflow"}
InternalErrors == {"release", "lifecycle", "early admission", "placement",
                   "rollback", "terminal work", "terminal node",
                   "unexpected fit", "count"}

Steps == {"start", "loop", "complete", "arrive", "admit", "terminalize",
          "unschedule"}
Terminal == {"done", "failed"}

NodeNames == DOMAIN nodes
JobIndexes == DOMAIN jobs

Init ==
  /\ cluster \in Clusters /\ jobs \in Workloads /\ policy \in PolicyNames
  /\ ctxNil \in BOOLEAN /\ ctxDone = FALSE
  /\ pc = "start" /\ err = "none" /\ tick = NoTick
  /\ nodes = <<>> /\ remaining = <<>>
  /\ future = {} /\ pending = <<>> /\ retained = <<>> /\ blockingJob = 0
  /\ running = <<>>
  /\ lifecycle = <<>> /\ events = <<>>
  /\ stats = [startTick |-> 0, endTick |-> 0, makespan |-> 0, totalDelay |-> 0,
              maxDelay |-> 0, completed |-> 0, unscheduled |-> 0]

-----------------------------------------------------------------------------
(***************************************************************************)
(* Helpers: failing, appending an event, and the order of jobs.            *)
(***************************************************************************)
Fail(error) ==
  /\ pc' = "failed" /\ err' = error
  /\ UNCHANGED <<inputVars, ctxDone, tick, nodeVars, queueVars, running, resultVars>>

Goto(step) == pc' = step /\ UNCHANGED <<inputVars, ctxDone, err>>

\* Fault: takes start tick 0 for "not set yet".
AppendEventZeroUnset(s, type, i) ==
  /\ events' = Append(events, [tick |-> tick, type |-> type, job |-> i])
  /\ stats' = [s EXCEPT !.startTick = IF @ = 0 THEN tick ELSE @, !.endTick = tick]

\* appendEvent: the event, and the ticks of the timeline's ends in s.
AppendEvent(s, type, i) ==
  /\ events' = Append(events, [tick |-> tick, type |-> type, job |-> i])
  /\ stats' = [s EXCEPT !.startTick = IF events = <<>> THEN tick ELSE @,
                        !.endTick = tick]

\* The order of sort.Slice(arrivalOrder): arrival tick, then input index.
ArrivesBefore(i, j) ==
  \/ jobs[i].arrivalTick < jobs[j].arrivalTick
  \/ jobs[i].arrivalTick = jobs[j].arrivalTick /\ i < j

IsNextArrival(i) == i \in future /\ \A j \in future \ {i} : ArrivesBefore(i, j)

\* Fault: jobs that finish together pop in reverse input order.
FinishesBeforeReversed(i, j) ==
  \/ running[i].finishTick < running[j].finishTick
  \/ running[i].finishTick = running[j].finishTick /\ i > j

\* runningJobHeap.Less: finish tick, then input index.
FinishesBefore(i, j) ==
  \/ running[i].finishTick < running[j].finishTick
  \/ running[i].finishTick = running[j].finishTick /\ i < j

IsHeapHead(i) ==
  i \in DOMAIN running /\ \A j \in DOMAIN running \ {i} : FinishesBefore(i, j)

\* Fault: a job is only due once its finish tick has passed.
DueJobLate(i) == IsHeapHead(i) /\ running[i].finishTick < tick

DueJob(i) == IsHeapHead(i) /\ running[i].finishTick = tick
DueArrival(i) == IsNextArrival(i) /\ jobs[i].arrivalTick = tick

\* Fault: completions are looked at once the arrivals are exhausted.
EventTicksArrivalsFirst ==
  IF future # {} THEN {jobs[i].arrivalTick : i \in future}
  ELSE {running[i].finishTick : i \in DOMAIN running}

WorkRemains == future # {} \/ DOMAIN running # {}
EventTicks == {jobs[i].arrivalTick : i \in future}
                \cup {running[i].finishTick : i \in DOMAIN running}

Place(i) == PlaceJob(nodes, remaining, jobs[i])

-----------------------------------------------------------------------------
(***************************************************************************)
(* Simulate: the checks on the arguments, then newSimulationState.         *)
(***************************************************************************)
InputError ==
  IF ctxNil THEN NilContext
  ELSE IF policy \notin Policies THEN "policy"
  ELSE IF ctxDone THEN "canceled"
  ELSE IF ~ ValidateCluster(cluster) THEN "cluster"
  ELSE IF ~ ValidateTimedJobs(jobs) THEN "jobs"
  ELSE IF ~ ValidateTopologyRequirements(cluster, jobs) THEN "topology" ELSE "none"

RejectInput == pc = "start" /\ InputError # "none" /\ Fail(InputError)

NewSimulationState ==
  /\ pc = "start" /\ InputError = "none"
  /\ nodes' = MakeNodeStates(cluster)
  /\ remaining' = IdleResources(nodes')
  /\ future' = JobIndexes
  /\ lifecycle' = [i \in JobIndexes |->
                     [status |-> StatusNone, startTick |-> NoTick,
                      completionTick |-> NoTick, queueDelay |-> NoTick,
                      domain |-> EmptyName, allocation |-> <<>>,
                      reason |-> NoReason]]
  /\ Goto("loop")
  /\ UNCHANGED <<tick, pending, retained, blockingJob, running, events, stats>>

(***************************************************************************)
(* run: the event loop.  nextEventTick picks the earlier of the next       *)
(* arrival and the next completion.                                        *)
(***************************************************************************)
NextEventTick ==
  /\ pc = "loop" /\ WorkRemains /\ ~ ctxDone
  /\ \E t \in EventTicks :
       /\ \A u \in EventTicks : t <= u
       /\ tick' = t
  /\ Goto("complete")
  /\ UNCHANGED <<nodeVars, queueVars, running, resultVars>>

LeaveLoop ==
  /\ pc = "loop" /\ ~ WorkRemains /\ ~ ctxDone
  /\ Goto("terminalize")
  /\ UNCHANGED <<tick, nodeVars, queueVars, running, resultVars>>

(***************************************************************************)
(* completeJobs: pop the jobs that finish at this tick, release what they  *)
(* held and account for their queue delay.                                 *)
(***************************************************************************)
CompletionError(i) ==
  LET delay == lifecycle[i].queueDelay
  IN  IF ~ ReleaseAccepted(nodes, remaining, jobs[i], running[i].allocation)
      THEN "release"
      ELSE IF lifecycle[i].startTick = NoTick \/ delay = NoTick
           THEN "lifecycle"
           ELSE IF delay < 0 \/ stats.totalDelay > MaxInt64 - delay
                THEN "total delay overflow"
                ELSE "none"

\* Fault: the allocation is moved out of the lifecycle when it is released.
CompletedLifecycleEmptied(entry) ==
  [entry EXCEPT !.completionTick = tick, !.status = LifecycleCompleted,
                !.allocation = <<>>]

CompletedLifecycle(entry) ==
  [entry EXCEPT !.completionTick = tick, !.status = LifecycleCompleted]

CompleteJob ==
  /\ pc = "complete" /\ ~ ctxDone
  /\ \E i \in DOMAIN running :
       /\ DueJob(i)
       /\ IF CompletionError(i) # "none" THEN Fail(CompletionError(i)) ELSE
            LET delay == lifecycle[i].queueDelay
            IN  /\ running' = Restrict(running, DOMAIN running \ {i})
                /\ remaining' = Released(remaining, jobs[i], running[i].allocation)
                /\ lifecycle' = [lifecycle EXCEPT ![i] = CompletedLifecycle(@)]
                /\ AppendEvent([stats EXCEPT !.totalDelay = @ + delay,
                                  !.maxDelay = IF delay > @ THEN delay ELSE @,
                                  !.completed = @ + 1],
                               EventCompleted, i)
                /\ Goto("complete")
                /\ UNCHANGED <<tick, nodes, queueVars>>

CompletionsDone ==
  /\ pc = "complete" /\ ~ \E i \in DOMAIN running : DueJob(i)
  /\ Goto("arrive")
  /\ UNCHANGED <<tick, nodeVars, queueVars, running, resultVars>>

\* arriveJobs: the arrivals of this tick join the queue.
ArriveJob ==
  /\ pc = "arrive" /\ ~ ctxDone
  /\ \E i \in future :
       /\ DueArrival(i)
       /\ pending' = Append(pending, i)
       /\ future' = future \ {i}
       /\ AppendEvent(stats, EventArrived, i)
  /\ Goto("arrive")
  /\ UNCHANGED <<tick, nodeVars, retained, blockingJob, running, lifecycle>>

ArrivalsDone ==
  /\ pc = "arrive" /\ ~ \E i \in future : DueArrival(i)
  /\ Goto("admit")
  /\ UNCHANGED <<tick, nodeVars, queueVars, running, resultVars>>

-----------------------------------------------------------------------------
(***************************************************************************)
(* admitJobs and tryAdmit: strict FIFO tries the head of the queue until   *)
(* one does not fit, backfill looks at every pending job once.             *)
(***************************************************************************)
\* Fault: off by one, a job may not end at MaxInt64.
FinishTickOverflowsEarly(i) == tick >= MaxInt64 - jobs[i].durationTicks

\* Fault: off by one the other way.
FinishTickOverflowsLate(i) == tick > MaxInt64 - jobs[i].durationTicks + 1

FinishTickOverflows(i) == tick > MaxInt64 - jobs[i].durationTicks

AdmissionError(i, placed) ==
  IF tick < jobs[i].arrivalTick
  THEN "early admission"
  ELSE IF placed.kind = "error"
       THEN "placement"
       ELSE IF placed.kind = "placed" /\ FinishTickOverflows(i)
            THEN \* the tentative placement is rolled back before the error
                 IF ReleaseAccepted(nodes,
                                    Consumed(remaining, jobs[i], placed.allocation),
                                    jobs[i], placed.allocation)
                 THEN "finish tick overflow" ELSE "rollback"
            ELSE "none"

\* Fault: the job is recorded to start when it arrives.
StartedLifecycleAtArrival(entry, i, placed) ==
  [entry EXCEPT !.startTick = jobs[i].arrivalTick,
                !.queueDelay = tick - jobs[i].arrivalTick,
                !.domain = placed.domain, !.allocation = placed.allocation]

StartedLifecycle(entry, i, placed) ==
  [entry EXCEPT !.startTick = tick,
                !.queueDelay = tick - jobs[i].arrivalTick,
                !.domain = placed.domain, !.allocation = placed.allocation]

Admit(i, placed) ==
  /\ remaining' = Consumed(remaining, jobs[i], placed.allocation)
  /\ lifecycle' = [lifecycle EXCEPT ![i] = StartedLifecycle(@, i, placed)]
  /\ running' = [j \in DOMAIN running \cup {i} |->
                   IF j = i THEN [finishTick |-> tick + jobs[i].durationTicks,
                                  allocation |-> placed.allocation]
                   ELSE running[j]]
  /\ AppendEvent(stats, EventAdmitted, i)

\* Fault: a backfill scan drops the jobs it passes over.
RetainDropped(i) ==
  \/ /\ policy = PolicyStrictFIFO
     /\ Goto("loop") /\ UNCHANGED <<pending, retained>>
  \/ /\ policy = PolicyBackfill
     /\ pending' = Tail(pending) /\ UNCHANGED retained
     /\ Goto("admit")

\* Fault: the jobs a scan passes over are put back in reverse.
RetainReversed(i) ==
  \/ /\ policy = PolicyStrictFIFO
     /\ Goto("loop") /\ UNCHANGED <<pending, retained>>
  \/ /\ policy = PolicyBackfill
     /\ retained' = <<i>> \o retained /\ pending' = Tail(pending)
     /\ Goto("admit")

\* Fault: both policies stop at the first job that does not fit.
RetainStops(i) ==
  Goto("loop") /\ pending' = retained \o pending /\ retained' = <<>>

\* Fault: both policies go on behind a job that does not fit.
RetainGoesOn(i) ==
  Goto("admit") /\ retained' = Append(retained, i) /\ pending' = Tail(pending)

\* The queue after its head has been tried and could not be placed.
Retain(i) ==
  \/ /\ policy = PolicyStrictFIFO
     /\ Goto("loop") /\ UNCHANGED <<pending, retained>>
  \/ /\ policy = PolicyBackfill
     /\ retained' = Append(retained, i) /\ pending' = Tail(pending)
     /\ Goto("admit")

TryAdmit ==
  /\ pc = "admit" /\ pending # <<>> /\ ~ ctxDone
  /\ LET i == Head(pending)
     IN  \E placed \in Place(i) :
           \/ /\ AdmissionError(i, placed) # "none"
              /\ Fail(AdmissionError(i, placed))
           \/ /\ AdmissionError(i, placed) = "none" /\ placed.kind = "rejected"
              /\ Retain(i)
              /\ UNCHANGED <<tick, nodeVars, future, blockingJob, running, resultVars>>
           \/ /\ AdmissionError(i, placed) = "none" /\ placed.kind = "placed"
              /\ Admit(i, placed)
              /\ pending' = Tail(pending)
              /\ Goto("admit")
              /\ UNCHANGED <<tick, nodes, future, retained, blockingJob>>

AdmissionDone ==
  /\ pc = "admit" /\ pending = <<>>
  /\ pending' = retained /\ retained' = <<>>
  /\ Goto("loop")
  /\ UNCHANGED <<tick, nodeVars, future, blockingJob, running, resultVars>>

-----------------------------------------------------------------------------
(***************************************************************************)
(* terminalizePending: nothing will ever free resources again, so every    *)
(* job still in the queue is unscheduled, with the reason.  The model      *)
(* drains the queue as it goes; the code leaves it and returns.            *)
(***************************************************************************)
TerminalError ==
  IF WorkRemains THEN "terminal work"
  ELSE IF \E n \in NodeNames :
            \/ ~ ValidateNodeResourceState(nodes[n].capacity, remaining[n])
            \/ remaining[n] # nodes[n].capacity
       THEN "terminal node" ELSE "none"

TerminalizePending ==
  /\ pc = "terminalize" /\ ~ ctxDone
  /\ IF TerminalError # "none" THEN Fail(TerminalError) ELSE
       /\ Goto("unschedule")
       /\ UNCHANGED <<tick, nodeVars, queueVars, running, resultVars>>

MarkUnscheduled(i, reason) ==
  /\ lifecycle' = [lifecycle EXCEPT ![i].status = LifecycleUnscheduled,
                                    ![i].reason = reason]
  /\ stats' = [stats EXCEPT !.unscheduled = @ + 1]
  /\ pending' = Tail(pending)
  /\ Goto("unschedule")
  /\ UNCHANGED <<tick, nodeVars, future, retained, running, events>>

\* Fault: the first leftover blocks the others under either policy.
BlockerAlways(i) == i

\* Strict FIFO's head blocks every job behind it; 0 is no job.
Blocker(i) == IF policy = PolicyStrictFIFO THEN i ELSE 0

\* finalPlacementReason: why the job does not fit on the idle cluster.
UnscheduleUnplaceable ==
  /\ pc = "unschedule" /\ pending # <<>> /\ ~ ctxDone
  /\ blockingJob = 0
  /\ LET i == Head(pending)
     IN  \E placed \in Place(i) :
           IF placed.kind # "rejected"
           THEN Fail(IF placed.kind = "error" THEN "placement" ELSE "unexpected fit")
           ELSE /\ MarkUnscheduled(i, placed.reason)
                /\ blockingJob' = Blocker(i)

UnscheduleBlocked ==
  /\ pc = "unschedule" /\ pending # <<>> /\ ~ ctxDone
  /\ blockingJob # 0
  /\ MarkUnscheduled(Head(pending), HeadOfLineReason(jobs[blockingJob].name))
  /\ UNCHANGED blockingJob

\* Fault: no look at the context after the queue has been terminalized.
FinalCheckSkipped == TRUE

\* The last look at the context.
FinalCheck == ~ ctxDone

\* The end of run.  The average delay is totalDelay / completed, as a float64.
Finish ==
  /\ pc = "unschedule" /\ pending = <<>> /\ FinalCheck
  /\ IF stats.completed + stats.unscheduled # Len(jobs) THEN Fail("count") ELSE
       /\ stats' = [stats EXCEPT
            !.makespan = IF events # <<>> THEN stats.endTick - stats.startTick ELSE @]
       /\ Goto("done")
       /\ UNCHANGED <<tick, nodeVars, queueVars, running, lifecycle, events>>

-----------------------------------------------------------------------------
(***************************************************************************)
(* Cancellation.  Every step has a context check at its top, except that   *)
(* completeJobs and arriveJobs make none when nothing is due, and          *)
(* admitJobs none when the queue is used up; completeJobs makes one after  *)
(* each completion as well.                                                *)
(***************************************************************************)
Cancel ==
  /\ CallerMayCancel /\ ~ ctxNil /\ ~ ctxDone /\ pc \notin Terminal
  /\ ctxDone' = TRUE
  /\ UNCHANGED <<inputVars, pc, err, tick, nodeVars, queueVars, running, resultVars>>

JustCompleted ==
  events # <<>> /\ LET last == events[Len(events)]
                   IN  last.type = EventCompleted /\ last.tick = tick

ContextChecked ==
  CASE pc = "complete" -> JustCompleted \/ \E i \in DOMAIN running : DueJob(i)
    [] pc = "arrive" -> \E i \in future : DueArrival(i)
    [] pc = "admit" -> pending # <<>>
    [] OTHER -> pc \in Steps \ {"start"}

Canceled == ctxDone /\ ContextChecked /\ Fail("canceled")

Terminated == pc \in Terminal /\ UNCHANGED vars

Step ==
  \/ RejectInput \/ NewSimulationState
  \/ NextEventTick \/ CompleteJob \/ CompletionsDone
  \/ ArriveJob \/ ArrivalsDone
  \/ TryAdmit \/ AdmissionDone
  \/ LeaveLoop \/ TerminalizePending
  \/ UnscheduleUnplaceable \/ UnscheduleBlocked \/ Finish
  \/ Canceled

Next == Step \/ Cancel \/ Terminated

Spec == Init /\ [][Next]_vars

\* The goroutine runs to the end; nobody has to cancel it.
FairSpec == Spec /\ WF_vars(Step)

-----------------------------------------------------------------------------
(***************************************************************************)
(* Types.                                                                  *)
(***************************************************************************)
Ticks == NonNegInt64 \cup {NoTick}
Event == [tick : NonNegInt64, job : JobIndexes,
          type : {EventArrived, EventAdmitted, EventCompleted}]

IsAllocation(allocation) ==
  /\ DOMAIN allocation \subseteq NodeNames
  /\ allocation \in [DOMAIN allocation -> PosInt64]

RunningOK(job) ==
  /\ job = [finishTick |-> job.finishTick, allocation |-> job.allocation]
  /\ job.finishTick \in NonNegInt64
  /\ IsAllocation(job.allocation)

LifecycleOK(entry) ==
  /\ DOMAIN entry = {"status", "startTick", "completionTick", "queueDelay",
                     "domain", "allocation", "reason"}
  /\ entry.status \in {StatusNone, LifecycleCompleted, LifecycleUnscheduled}
  /\ entry.startTick \in Ticks /\ entry.completionTick \in Ticks
  /\ entry.queueDelay \in Ticks
  /\ entry.domain \in Domains
  /\ IsAllocation(entry.allocation)
  /\ entry.reason.code \in ReasonCodes

TypeOK ==
  /\ cluster \in Seq(NodeInput) /\ jobs \in Seq(Job) /\ policy \in STRING
  /\ ctxNil \in BOOLEAN /\ ctxDone \in BOOLEAN
  /\ pc \in Steps \cup Terminal
  /\ err \in {"none"} \cup InputErrors \cup OverflowErrors \cup InternalErrors
  /\ tick \in Ticks
  /\ NodeNames \subseteq Nat
  /\ nodes \in [NodeNames -> NodeInfo]
  /\ remaining \in [NodeNames -> [Dim -> NonNegInt64]]
  /\ future \subseteq JobIndexes
  /\ pending \in Seq(JobIndexes) /\ retained \in Seq(JobIndexes)
  /\ blockingJob \in JobIndexes \cup {0}
  /\ DOMAIN running \subseteq JobIndexes
  /\ \A i \in DOMAIN running : RunningOK(running[i])
  /\ DOMAIN lifecycle \subseteq JobIndexes
  /\ \A i \in DOMAIN lifecycle : LifecycleOK(lifecycle[i])
  /\ events \in Seq(Event)
  /\ stats \in [startTick : NonNegInt64, endTick : NonNegInt64, makespan : Int64,
                totalDelay : NonNegInt64, maxDelay : NonNegInt64,
                completed : Nat, unscheduled : Nat]

-----------------------------------------------------------------------------
(***************************************************************************)
(* The invariants of the simulator's state.                                *)
(***************************************************************************)
\* What running job i holds of resource d of node n.
Held(i, n, d) ==
  IF i \in DOMAIN running /\ n \in DOMAIN running[i].allocation
  THEN ResourcesForReplicas(jobs[i].resourcesPerReplica,
                            running[i].allocation[n])[d]
  ELSE 0

TotalHeld(n, d) == SumFunctionOnSet([i \in JobIndexes |-> Held(i, n, d)], JobIndexes)

(***************************************************************************)
(* No resource is lost or created: on every node, what remains and what    *)
(* the running jobs hold add up to the node's capacity.  placeJob charges  *)
(* nodes, releaseAllocation credits them, and a rollback does both.        *)
(***************************************************************************)
ResourceConservation ==
  \A n \in NodeNames, d \in Dim :
    remaining[n][d] + TotalHeld(n, d) = nodes[n].capacity[d]

(***************************************************************************)
(* The event loop never jumps over an event: the jobs that run and those   *)
(* that have not arrived lie after the tick being processed, or at it      *)
(* until completeJobs, respectively arriveJobs, has dealt with the tick.   *)
(***************************************************************************)
NoEventMissed ==
  /\ pc \in {"loop", "arrive", "admit", "terminalize"} =>
       \A i \in DOMAIN running : running[i].finishTick > tick
  /\ pc \in {"loop", "admit", "terminalize"} =>
       \A i \in future : jobs[i].arrivalTick > tick
  /\ pc = "complete" => \A i \in DOMAIN running : running[i].finishTick >= tick
  /\ pc \in {"complete", "arrive"} => \A i \in future : jobs[i].arrivalTick >= tick

(***************************************************************************)
(* Every job is in exactly one place of its life: not arrived, queued      *)
(* once, running, completed or unscheduled.  Nothing is lost when the      *)
(* queue is rebuilt by a backfill scan, and nothing runs twice.            *)
(***************************************************************************)
Queue == retained \o pending
Locations == {"future", "queued", "running", "completed", "unscheduled"}
InLocation(i, location) ==
  CASE location = "future" -> i \in future
    [] location = "queued" -> \E k \in DOMAIN Queue : Queue[k] = i
    [] location = "running" -> i \in DOMAIN running
    [] location = "completed" -> lifecycle[i].status = LifecycleCompleted
    [] location = "unscheduled" -> lifecycle[i].status = LifecycleUnscheduled

JobsPartitioned ==
  /\ \A i \in DOMAIN lifecycle :
       \E here \in Locations :
         \A location \in Locations : InLocation(i, location) <=> location = here
  /\ \A k, l \in DOMAIN Queue : Queue[k] = Queue[l] => k = l

(***************************************************************************)
(* The queue is in arrival order (arrival tick, then input order), also in *)
(* the middle of a backfill scan.                                          *)
(***************************************************************************)
QueueInArrivalOrder ==
  \A k, l \in DOMAIN Queue : k < l => ArrivesBefore(Queue[k], Queue[l])

(***************************************************************************)
(* The internal errors of the simulator are unreachable: a completion      *)
(* always releases what was placed, a placement that advertises enough     *)
(* slots succeeds, the cluster is idle when the queue is terminalized and  *)
(* no leftover job fits on it, and the final count adds up.                *)
(***************************************************************************)
NoInternalError == err \notin InternalErrors
=============================================================================
