------------------------ MODULE SimulationProperties ------------------------
(***************************************************************************)
(* What a simulation promises: about its queue policies, about the result  *)
(* it reports and about ending.  Each property is stated over the state    *)
(* of module Simulation, the feasibility of a placement being that of      *)
(* module Feasibility and not the placement algorithm's own answer.        *)
(***************************************************************************)
EXTENDS Simulation, Feasibility

Fits(i) == Feasible(nodes, remaining, jobs[i])

\* The capacity of every node, as a remaining that nobody uses.
IdleCluster == IdleResources(nodes)
FitsIdleCluster(i) == Feasible(nodes, IdleCluster, jobs[i])

Started(i) == lifecycle[i].startTick # NoTick
WithStatus(status) == {i \in DOMAIN lifecycle : lifecycle[i].status = status}

(***************************************************************************)
(* An admission cycle leaves nothing behind that could run: under strict   *)
(* FIFO the head of the queue does not fit, under backfill no queued job   *)
(* does.  One scan is enough, although later admissions change what        *)
(* remains: a job the scan passed over still does not fit, so it is only   *)
(* overtaken by jobs it could not have run before.                         *)
(***************************************************************************)
QueueQuiescent ==
  /\ pc \in {"loop", "terminalize"} =>
       \A k \in DOMAIN pending :
         (policy = PolicyStrictFIFO => k = 1) => ~ Fits(pending[k])
  /\ pc = "admit" => \A k \in DOMAIN retained : ~ Fits(retained[k])

(***************************************************************************)
(* Strict FIFO admits in arrival order: a job never starts before one that *)
(* arrived earlier.                                                        *)
(***************************************************************************)
StrictAdmitsInArrivalOrder ==
  policy = PolicyStrictFIFO =>
    \A i, j \in DOMAIN lifecycle :
      ArrivesBefore(i, j) /\ Started(j) =>
        Started(i) /\ lifecycle[i].startTick <= lifecycle[j].startTick

(***************************************************************************)
(* The event timeline: ticks never go back; within a tick completions come *)
(* before arrivals and arrivals before admissions; and events of one kind  *)
(* at one tick follow input order, admissions arrival order.               *)
(***************************************************************************)
EventRank(type) ==
  CASE type = EventCompleted -> 1 [] type = EventArrived -> 2 [] type = EventAdmitted -> 3

TimelineOrdered ==
  \A k \in DOMAIN events \ {1} :
    LET a == events[k - 1]
        b == events[k]
    IN  \/ a.tick < b.tick
        \/ a.tick = b.tick /\ EventRank(a.type) < EventRank(b.type)
        \/ /\ a.tick = b.tick /\ a.type = b.type
           /\ IF a.type = EventAdmitted THEN ArrivesBefore(a.job, b.job)
              ELSE a.job < b.job

(***************************************************************************)
(* A reported timeline can be executed: at the tick of any event, the jobs *)
(* that have started and not completed fit together on every node.  This   *)
(* is computed from the reported lifecycles alone.                         *)
(***************************************************************************)
ReportedUse(t, n, d) ==
  SumFunction([i \in DOMAIN lifecycle |->
    IF /\ Started(i)
       /\ lifecycle[i].startTick <= t /\ t < lifecycle[i].completionTick
       /\ n \in DOMAIN lifecycle[i].allocation
    THEN lifecycle[i].allocation[n] * jobs[i].resourcesPerReplica[d] ELSE 0])

ReportedTimelineRespectsCapacity ==
  pc = "done" =>
    \A k \in DOMAIN events, n \in NodeNames, d \in Dim :
      ReportedUse(events[k].tick, n, d) <= nodes[n].capacity[d]

(***************************************************************************)
(* The reported aggregates are those of the reported lifecycles, and a     *)
(* completed job ran for exactly its duration after its queue delay.       *)
(***************************************************************************)
Delays == [i \in WithStatus(LifecycleCompleted) |-> lifecycle[i].queueDelay]

ReportedMetrics ==
  pc = "done" =>
    /\ WithStatus(LifecycleCompleted) \cup WithStatus(LifecycleUnscheduled) = JobIndexes
    /\ stats.completed = Cardinality(WithStatus(LifecycleCompleted))
    /\ stats.unscheduled = Cardinality(WithStatus(LifecycleUnscheduled))
    /\ stats.totalDelay = SumFunction(Delays)
    /\ stats.maxDelay = Max(Range(Delays) \cup {0})
    /\ \A i \in WithStatus(LifecycleCompleted) :
         /\ lifecycle[i].startTick = jobs[i].arrivalTick + lifecycle[i].queueDelay
         /\ lifecycle[i].completionTick = lifecycle[i].startTick + jobs[i].durationTicks
    /\ LET ticks == {events[k].tick : k \in DOMAIN events}
       IN  stats.makespan = IF ticks = {} THEN 0 ELSE Max(ticks) - Min(ticks)

(***************************************************************************)
(* Who is left over, and why.  Backfill leaves exactly the jobs that do    *)
(* not fit on the idle cluster.  Strict FIFO leaves the first such job in  *)
(* arrival order and everything behind it, which names it as blocking.     *)
(***************************************************************************)
LeftoversExplained ==
  pc = "done" =>
    LET left == WithStatus(LifecycleUnscheduled)
    IN  \/ /\ policy = PolicyBackfill
           /\ left = {i \in JobIndexes : ~ FitsIdleCluster(i)}
           /\ \A i \in left : lifecycle[i].reason.code # "head_of_line_blocked"
        \/ /\ policy = PolicyStrictFIFO
           /\ left = {i \in JobIndexes : \E j \in JobIndexes :
                        ~ FitsIdleCluster(j) /\ (j = i \/ ArrivesBefore(j, i))}
           /\ left # {} =>
                \E head \in left : \A i \in left :
                  /\ i # head => /\ ArrivesBefore(head, i)
                                 /\ lifecycle[i].reason = HeadOfLineReason(jobs[head].name)
                  /\ i = head => lifecycle[i].reason.code # "head_of_line_blocked"

(***************************************************************************)
(* A job that starts is placed whole: all its replicas, on nodes of the    *)
(* one domain its lifecycle reports; and what it holds while it runs is    *)
(* what its lifecycle reports.                                             *)
(***************************************************************************)
GangPlacement ==
  \A i \in DOMAIN lifecycle :
    LET entry == lifecycle[i]
        key == jobs[i].requiredTopology
    IN  /\ Started(i) =>
             /\ SumFunction(entry.allocation) = jobs[i].replicas
             /\ \A n \in DOMAIN entry.allocation :
                  entry.domain = IF key = NoTopology THEN GlobalTopologyDomain
                                 ELSE Label(nodes[n].topology, key)
        /\ i \in DOMAIN running => running[i].allocation = entry.allocation

(***************************************************************************)
(* A job's admission is decided once, and a terminal status is final.      *)
(***************************************************************************)
LifecycleFrozen ==
  [][\A i \in DOMAIN lifecycle :
       LET old == lifecycle[i]
           new == lifecycle'[i]
       IN  /\ old.startTick # NoTick =>
                /\ new.startTick = old.startTick /\ new.queueDelay = old.queueDelay
                /\ new.domain = old.domain /\ new.allocation = old.allocation
           /\ old.status # StatusNone => new = old]_vars

(***************************************************************************)
(* The arithmetic the scheduler does not check stays within int64, thanks  *)
(* to the validation: a job's requested total, and the replica slots of    *)
(* the whole cluster for any job.                                          *)
(***************************************************************************)
ArithmeticInRange ==
  pc \notin {"start", "failed"} =>
    \A i \in JobIndexes :
      /\ \A d \in Dim : jobs[i].replicas * jobs[i].resourcesPerReplica[d] <= MaxInt64
      /\ SumFunction(NodeSlots(remaining, jobs[i])) <= MaxInt64

(***************************************************************************)
(* An overflow is reported only when there is one: a job that fits but     *)
(* could not end by MaxInt64, or completed delays beyond MaxInt64.         *)
(***************************************************************************)
OverflowIsReal ==
  /\ err = "finish tick overflow" =>
       LET i == Head(pending)
       IN  Fits(i) /\ tick + jobs[i].durationTicks > MaxInt64
  /\ err = "total delay overflow" =>
       \E i \in DOMAIN running :
         /\ running[i].finishTick = tick
         /\ stats.totalDelay + lifecycle[i].queueDelay > MaxInt64

(***************************************************************************)
(* A simulation ends, whatever the workload.                               *)
(***************************************************************************)
Termination == <>(pc \in Terminal)

(***************************************************************************)
(* A context canceled before the last check ends the simulation in an      *)
(* error: no partial or late result is returned.                           *)
(***************************************************************************)
CancellationHonoured == ctxDone ~> pc = "failed"

-----------------------------------------------------------------------------
(***************************************************************************)
(* A simulation is a run of the abstract allocator in which jobs end.      *)
(***************************************************************************)
AllocatorStatus ==
  [i \in JobIndexes |->
     IF i \in DOMAIN running THEN "running"
     ELSE IF i \in WithStatus(LifecycleCompleted) THEN "finished"
     ELSE IF i \in WithStatus(LifecycleUnscheduled) THEN "given up" ELSE "waiting"]

AllocatorHeld ==
  [i \in JobIndexes |-> [n \in DOMAIN MakeNodeStates(cluster) |->
     IF i \in DOMAIN running /\ n \in DOMAIN running[i].allocation
     THEN running[i].allocation[n] ELSE 0]]

Allocator == INSTANCE GangAllocator WITH
  Online <- TRUE, nodes <- MakeNodeStates(cluster),
  status <- AllocatorStatus, held <- AllocatorHeld
ImplementsAllocator == Allocator!Spec
=============================================================================
